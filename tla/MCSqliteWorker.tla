--------------------------- MODULE MCSqliteWorker ---------------------------
(* SqliteWorker for TLC; the configurations give every constant its value. *)
EXTENDS SqliteWorker
=============================================================================
