--------------------------- MODULE MCBoundsChecks ---------------------------
(* BoundsChecks for TLC: one object of each region, sizes that a 3-bit     *)
(* word can overflow, one object of unknown size, one that is not near.    *)
EXTENDS BoundsChecks

Obj(name, kind, size, near) ==
  [name |-> name, kind |-> kind, size |-> size, near |-> near]

FourObjects == {Obj("a", "stack", 2, TRUE), Obj("g", "global", 3, TRUE),
                Obj("h", "heap", 0, TRUE), Obj("b", "heap", 2, FALSE)}
Sizes == [a |-> {2}, g |-> {3}, h |-> {1}, b |-> {2}]
OneOrTwoBytes == {1, 2}
BothChecks == {"min", "min_max"}
=============================================================================
