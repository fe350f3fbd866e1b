----------------------------- MODULE Conditions -----------------------------
(***************************************************************************)
(* The conditions of a rule: flags of the configuration, and queries that  *)
(* the loaded plugins answer (src/instr.cpp:674-842, instr_analyzer.cpp).  *)
(* A condition is [name, arg, expected]; arg is the operand it asks about. *)
(***************************************************************************)
EXTENDS PointsToPlugin

supportedQueries == [
  PointsTo |-> {"isValidPointer", "pointsTo", "hasKnownSize", "hasKnownSizes",
                "getPointerInfo", "isNull", "pointsToHeap", "pointsToGlobal",
                "pointsToStack", "isInvalid", "mayBeLeaked", "mayBeLeakedOrFreed",
                "safeForFree", "storeMayLeak", "pointsToSetsOverlap"},
  Predator |-> {"isValidPointer", "isInvalid", "mayBeLeaked", "mayBeLeakedOrFreed",
                "safeForFree"}]
supports(plugin, q) == q \in supportedQueries[plugin]

(***************************************************************************)
(* A value: the object it is, the node that DG built for it and, of a      *)
(* getelementptr, for its base; whether Predator reports one of its users. *)
(***************************************************************************)
Value(obj, node, base, reported) ==
  [obj |-> obj, node |-> node, base |-> base, reported |-> reported]

AccessSize == 1

(* The queries that the rules modelled here ask; none asks for leaks.      *)
pointsToQuery(q, v) ==
  CASE q = "isValidPointer" -> isValidPointer(v.node, AccessSize)
    [] q = "hasKnownSize"   -> hasKnownSize(v.base)
    [] q = "hasKnownSizes"  -> hasKnownSizes(v.base)
    [] q = "isNull"         -> isNull(v.node)
    [] q = "pointsToHeap"   -> pointsToHeap(v.node)
    [] q = "pointsToGlobal" -> pointsToGlobal(v.node)
    [] q = "pointsToStack"  -> pointsToStack(v.node)
    [] q = "isInvalid"      -> isInvalid(v.node)
    [] q = "safeForFree"    -> safeForFree(v.node)

predatorQuery(q, v) ==
  CASE v.reported  -> "maybe"
    [] ~v.reported -> IF q = "isInvalid" THEN "false" ELSE "true"

query(plugin, q, v) ==
  IF plugin = "PointsTo" THEN pointsToQuery(q, v) ELSE predatorQuery(q, v)

(* isRemembered asks whether a remembered value may point to this one.     *)
shouldInstrument(plugin, c, v, remembered) ==
  IF c.name = "isRemembered"
    THEN /\ supports(plugin, "pointsTo")
         /\ \E r \in remembered : pointsTo(r.node, v.obj) \in c.expected
    ELSE query(plugin, c.name, v) \in c.expected

(* A query that no plugin supports holds.  Of the plugins that are asked,  *)
(* one must agree, or all of them where the rule says mustHoldForAll.      *)
Needed(q) == IF q = "isRemembered" THEN "pointsTo" ELSE q

(* Fault: mustHoldForAll is not looked at.                                 *)
checkAnalysis_of_any(plugins, c, forAll, v, remembered) ==
  \/ \A p \in plugins : ~supports(p, Needed(c.name))
  \/ \E p \in {q \in plugins : supports(q, c.name) \/ c.name = "isRemembered"} :
       shouldInstrument(p, c, v, remembered)

checkAnalysis(plugins, c, forAll, v, remembered) ==
  LET asked == {p \in plugins : supports(p, c.name) \/ c.name = "isRemembered"}
  IN  \/ \A p \in plugins : ~supports(p, Needed(c.name))
      \/ /\ \E p \in plugins : supports(p, Needed(c.name))
         /\ IF forAll
              THEN \A p \in asked : shouldInstrument(p, c, v, remembered)
              ELSE \E p \in asked : shouldInstrument(p, c, v, remembered)

checkFlag(c, flags) == flags[c.name] \in c.expected
=============================================================================
