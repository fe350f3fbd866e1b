-------------------------- MODULE MCOverflowChecks --------------------------
(* OverflowChecks for TLC: a narrow, a byte, a word and a wide type, the   *)
(* last two as wide as the ranges, and ranges that end at the limits of    *)
(* the types and around zero.                                              *)
EXTENDS OverflowChecks

Widths == [i8 |-> 2, i16 |-> 3, i32 |-> 4, i64 |-> 4]
Ends == {Min, -3, -1, 0, 2, Max}
=============================================================================
