----------------------------- MODULE MCMemSafety -----------------------------
(* MemSafety for TLC: small regions of adjacent addresses, so that blocks  *)
(* touch, and blocks of 0, 1 and 2 bytes fit side by side.                 *)
EXTENDS MemSafety

ThreeHeap == 1 .. 3
OneStack == 5 .. 5
TwoStack == 5 .. 6
ThreeStack == 5 .. 7
OneGlobal == 9 .. 9
Empty == {}
=============================================================================
