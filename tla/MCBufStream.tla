---------------------------- MODULE MCBufStream ----------------------------
(* BufStream for TLC: a header of two bytes, and bodies that are empty,     *)
(* shorter and longer than it.                                              *)
EXTENDS BufStream

MCSizes == {0, 1, 3}
MCTwoSizes == {0, 3}
=============================================================================
