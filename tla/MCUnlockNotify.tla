--------------------------- MODULE MCUnlockNotify ---------------------------
EXTENDS UnlockNotify, TLC

\* Connections and tables are interchangeable, but the liveness property is
\* checked too, so no symmetry is declared.
CONSTANTS c1, c2, c3, t1, t2
MCConns == {c1, c2, c3}
MCTables == {t1, t2}
=============================================================================
