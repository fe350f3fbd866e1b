------------------------------ MODULE SccOrder ------------------------------
(***************************************************************************)
(* What findIntervals of analyses/ra/RangeAnalysis.cpp needs of its list   *)
(* of components: every strongly connected component of the constraint     *)
(* graph comes once, as a whole, and a component comes only after all      *)
(* those it has edges to.  (The list is then read backwards.)              *)
(* A graph is a function from its nodes to the sets of their successors.   *)
(***************************************************************************)
EXTENDS Naturals, Sequences, FiniteSets

CONSTANT Graphs    \* the graphs that may have to be ordered

VARIABLES useMap, order

Reach(g, v) ==
  LET within[n \in 0 .. Cardinality(DOMAIN g)] ==
        IF n = 0 THEN {v} ELSE within[n - 1] \cup UNION {g[u] : u \in within[n - 1]}
  IN within[Cardinality(DOMAIN g)]
Component(g, v) == {u \in Reach(g, v) : v \in Reach(g, u)}

Listed == UNION {order[i] : i \in DOMAIN order}

Init == useMap \in Graphs /\ order = <<>>

(* The next component: all that can be reached from it is listed.          *)
List(C) ==
  /\ order' = Append(order, C)
  /\ \E v \in C : C = Component(useMap, v)
  /\ \A v \in C : useMap[v] \subseteq C \cup Listed
  /\ UNCHANGED useMap

Next == \E C \in SUBSET (DOMAIN useMap \ Listed) : List(C)

vars == <<useMap, order>>
Spec == Init /\ [][Next]_vars

(* All components are listed at last.                                      *)
AllListed == <>(Listed = DOMAIN useMap)
=============================================================================
