---------------------------- MODULE MCLinkedLists ----------------------------
(* LinkedLists for TLC: nodes that may take each other's places.           *)
EXTENDS LinkedLists

CONSTANTS n1, n2, n3, n4

FourNodes == {n1, n2, n3, n4}
Permuted == Permutations(FourNodes)
=============================================================================
