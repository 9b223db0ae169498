-------------------------- MODULE MCStatementCache --------------------------
(* StatementCache for TLC: four interchangeable SQL strings. *)
EXTENDS StatementCache, TLC

KeySymmetry == Permutations(Key)
=============================================================================
