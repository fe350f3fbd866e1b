------------------------------ MODULE MCNuutila -----------------------------
(* Nuutila for TLC: all graphs of three values, loops included, and those  *)
(* of four values with at most MaxEdges edges and no loop at a value.      *)
EXTENDS Nuutila

CONSTANTS MaxEdges

Three == {"a", "b", "c"}
Four == Three \cup {"d"}
SmallGraphs ==
  [Three -> SUBSET Three]
  \cup {g \in [Four -> SUBSET Four] :
          /\ \A v \in Four : v \notin g[v]
          /\ Cardinality({e \in Four \X Four : e[2] \in g[e[1]]}) <= MaxEdges}
=============================================================================
