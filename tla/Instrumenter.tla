---------------------------- MODULE Instrumenter ----------------------------
(***************************************************************************)
(* The instrumentation of a module (src/instr.cpp): phase by phase, every  *)
(* reachable function gets its entry and return calls, then an iterator    *)
(* walks over its instructions while the rules insert calls next to them;  *)
(* the rules for globals end a phase.  What one phase remembers and flags, *)
(* the conditions of later rules ask for.                                  *)
(***************************************************************************)
EXTENDS Conditions

CONSTANTS
  Functions,   \* the functions with a body, in the order of the module
  Programs,    \* the programs: function -> its instructions
  Omitted,     \* those named __INSTR_... or __VERIFIER_...
  Reachable,   \* the sets of functions that DG may have built a node for
  Facts,       \* what the plugins may know: value names -> values
  Globals,     \* the names of the global variables, in order
  Setups       \* what the tool may be started with

(* A setup is [config, plugins, flags, phases, definitions]: the plugins,  *)
(* the flags and phases of the configuration, and the functions that the   *)
(* definitions module has.  A phase is [rules, globals], a rule [op, new,  *)
(* where, in, conds, forAll, info, remember, setFlags].  where: before,    *)
(* after, entry, return.  info: the rule uses the operand's                *)
(* getPointerInfo.  An instruction is its opcode or callee, the operand    *)
(* that the rules speak of and, of an inserted call, the function called.  *)
Ins(op, val) == [op |-> op, val |-> val, new |-> "none"]
Call(new, val) == [op |-> "inserted", val |-> val, new |-> new]

Original ==
  {i \in [op : STRING, val : STRING, new : STRING] : i.op # "inserted" /\ i.new = "none"}
IsSequence(s) == s \in Seq(ToSet(s))

ASSUME ProgramAssumption ==
  /\ IsSequence(Functions) /\ IsInjective(Functions) /\ IsSequence(Globals)
  /\ Programs \subseteq [ToSet(Functions) -> Seq(Original)]

(* A value that is to be remembered is an operand that the plugins know;   *)
(* globals are registered in main, as in every configuration.              *)
ASSUME SetupAssumption ==
  \A s \in Setups :
    /\ IsSequence(s.phases)
    /\ \A p \in ToSet(s.phases) :
         /\ IsSequence(p.rules)
         /\ p.globals.in \in {"none", "*", "main"}
         /\ \A r \in ToSet(p.rules) :
              /\ r.op # "inserted"
              /\ r.remember => \A prog \in Programs, known \in Facts, f \in ToSet(Functions) :
                   \A i \in DOMAIN prog[f] :
                     prog[f][i].op = r.op => prog[f][i].val \in DOMAIN known

VARIABLES
  code,        \* function -> its instructions now
  setup, reachable, facts, original,
  phase, fun,  \* the current phase and function
  pos, rule,   \* the current instruction (0 before the first), the last rule
  flags, rememberedValues,
  outcome      \* "running", "done" or "failed"

input == <<setup, reachable, facts, original>>
vars == <<code, input, phase, fun, pos, rule, flags, rememberedValues, outcome>>

Phases == setup.phases
Definitions == setup.definitions
PTA == "PointsTo" \in setup.plugins
Rules == Phases[phase].rules
F == Functions[fun]
ins == code[F][pos]
AppliesIn(rw, f) == rw.in \in {"*", f}
isReachableFun(f) == PTA => f \in reachable
Instruments(f) == f \notin Omitted /\ isReachableFun(f)

(* Fault: a flag is taken for a query.                                     *)
checkConditions_no_flags(rw, v) ==
  \A i \in DOMAIN rw.conds :
    checkAnalysis(setup.plugins, rw.conds[i], rw.forAll, facts[v], rememberedValues)

checkConditions(rw, v) ==
  \A i \in DOMAIN rw.conds :
    LET c == rw.conds[i]
    IN  IF c.name \in setup.flags THEN checkFlag(c, flags)
        ELSE checkAnalysis(setup.plugins, c, rw.forAll, facts[v], rememberedValues)

Matches(rw) == AppliesIn(rw, F) /\ rw.where \in {"before", "after"} /\ rw.op = ins.op
Runs == outcome = "running" /\ phase <= Len(Phases)
InFunction == Runs /\ fun <= Len(Functions)
Stay == UNCHANGED <<phase, fun>>
Quiet == UNCHANGED <<flags, rememberedValues, outcome>>

(* SelectSeq, in a form of which something can be proved.                  *)
Only(s, Test(_)) == FlattenSeq([i \in DOMAIN s |-> IF Test(s[i]) THEN <<s[i]>> ELSE <<>>])

(***************************************************************************)
(* Entry and return calls.                                                 *)
(***************************************************************************)
Framing(where, f) == Only(Rules, LAMBDA rw : rw.where = where /\ AppliesIn(rw, f))
Placed(where, f) ==
  [i \in DOMAIN Framing(where, f) |-> Call(Framing(where, f)[i].new, "none")]

(* Fault: only the last ret gets its calls.                                *)
WithFrame_last_ret(f) ==
  LET at == Greatest({0} \cup {i \in DOMAIN code[f] : code[f][i].op = "ret"})
      body == [i \in DOMAIN code[f] |->
        IF i = at THEN Append(Placed("return", f), code[f][i]) ELSE <<code[f][i]>>]
  IN  Reverse(Placed("entry", f)) \o FlattenSeq(body)

(* Each entry call goes in front of the first instruction, each return     *)
(* call right in front of every ret.                                       *)
WithFrame(f) ==
  LET body == [i \in DOMAIN code[f] |->
        IF code[f][i].op = "ret" THEN Append(Placed("return", f), code[f][i])
                                 ELSE <<code[f][i]>>]
  IN  Reverse(Placed("entry", f)) \o FlattenSeq(body)

instrumentFunction ==
  /\ InFunction /\ pos = 0 /\ Instruments(F)
  /\ IF {c.new : c \in ToSet(Placed("entry", F) \o Placed("return", F))} \subseteq Definitions
       THEN /\ code' = [code EXCEPT ![F] = WithFrame(F)]
            /\ pos' = 1 /\ rule' = 0 /\ UNCHANGED outcome
       ELSE /\ outcome' = "failed" /\ UNCHANGED <<code, pos, rule>>
  /\ Stay /\ UNCHANGED <<input, flags, rememberedValues>>

omitFunction ==
  /\ InFunction /\ pos = 0 /\ ~Instruments(F)
  /\ fun' = fun + 1
  /\ Quiet /\ UNCHANGED <<code, input, phase, pos, rule>>

(***************************************************************************)
(* The rules for instructions.                                             *)
(***************************************************************************)
(* Fault: the first rule that matches is the only one tried.               *)
NextRule_only_first ==
  LET k == SelectInSubSeq(Rules, 1, Len(Rules), Matches)
  IN  IF k = 0 \/ rule # 0 THEN Len(Rules) + 1 ELSE k

NextRule ==
  LET k == SelectInSubSeq(Rules, rule + 1, Len(Rules), Matches)
  IN  IF k = 0 THEN Len(Rules) + 1 ELSE k

(* Fault: the call takes the place of the instruction.                     *)
applyRule_replaces(rw) ==
  /\ code' = [code EXCEPT ![F][pos] = Call(rw.new, ins.val)]
  /\ pos' = pos

applyRule(rw) ==
  LET call == Call(rw.new, ins.val)
      put == IF rw.where = "before" THEN pos ELSE pos + 1
  IN  /\ code' = [code EXCEPT ![F] = InsertAt(@, put, call)]
      /\ pos' = IF rw.where = "before" THEN pos + 1 ELSE pos

(* Fault: the missing plugin is not noticed.                               *)
InfoMissing_plugin_only(rw) == rw.info /\ PTA /\ KnowsNothing(facts[ins.val].base)

(* A rule that needs a pointer info the plugin does not have ends it all;  *)
(* flags and values are set before the call is known to have a definition. *)
InfoMissing(rw) ==
  rw.info /\ (~PTA \/ KnowsNothing(facts[ins.val].base))

(* A flag that the configuration does not declare is not made one.         *)
setFlags(rw) ==
  [f \in DOMAIN flags |-> IF f \in DOMAIN rw.setFlags THEN rw.setFlags[f] ELSE flags[f]]

checkInstruction ==
  /\ InFunction /\ pos \in 1 .. Len(code[F]) /\ NextRule <= Len(Rules)
  /\ rule' = NextRule
  /\ LET rw == Rules[NextRule]
     IN  \/ /\ ~checkConditions(rw, ins.val)
            /\ Quiet /\ UNCHANGED <<code, pos>>
         \/ /\ checkConditions(rw, ins.val) /\ InfoMissing(rw)
            /\ outcome' = "failed"
            /\ UNCHANGED <<code, pos, flags, rememberedValues>>
         \/ /\ checkConditions(rw, ins.val) /\ ~InfoMissing(rw)
            /\ flags' = setFlags(rw)
            /\ rememberedValues' = rememberedValues \cup
                 (IF rw.remember THEN {facts[ins.val]} ELSE {})
            /\ IF rw.new \in Definitions
                 THEN applyRule(rw) /\ UNCHANGED outcome
                 ELSE outcome' = "failed" /\ UNCHANGED <<code, pos>>
  /\ Stay /\ UNCHANGED input

(* Fault: the iterator stops in front of the last instruction.             *)
nextInstruction_not_last ==
  /\ InFunction /\ pos \in 1 .. Len(code[F]) - 1 /\ NextRule > Len(Rules)
  /\ pos' = pos + 1 /\ rule' = 0
  /\ Stay /\ Quiet /\ UNCHANGED <<code, input>>

nextInstruction ==
  /\ InFunction /\ pos \in 1 .. Len(code[F]) /\ NextRule > Len(Rules)
  /\ pos' = pos + 1 /\ rule' = 0
  /\ Stay /\ Quiet /\ UNCHANGED <<code, input>>

(* Fault: the iterator is not set to the start of the next function.       *)
nextFunction_keeps_place ==
  /\ InFunction /\ pos > Len(code[F])
  /\ fun' = fun + 1
  /\ Quiet /\ UNCHANGED <<code, input, phase, pos, rule>>

nextFunction ==
  /\ InFunction /\ pos > Len(code[F])
  /\ fun' = fun + 1 /\ pos' = 0 /\ rule' = 0
  /\ Quiet /\ UNCHANGED <<code, input, phase>>

(***************************************************************************)
(* The rules for globals, then the next phase.                             *)
(***************************************************************************)
PickedGlobals(rw) ==
  Only(Globals, LAMBDA g : \A i \in DOMAIN rw.conds :
    checkAnalysis(setup.plugins, rw.conds[i], rw.forAll, facts[g], rememberedValues))

instrumentGlobals ==
  /\ Runs /\ fun > Len(Functions)
  /\ LET g_rule == Phases[phase].globals
         picked == PickedGlobals(g_rule)
         calls == [i \in DOMAIN picked |-> Call(g_rule.new, picked[i])]
     IN  \/ /\ g_rule.in = "none" \/ Globals = <<>>
            /\ UNCHANGED <<code, outcome>>
         \/ /\ g_rule.in # "none" /\ Globals # <<>>
            /\ IF g_rule.in # "*" /\ {c.new : c \in ToSet(calls)} \subseteq Definitions
                 THEN /\ code' = [code EXCEPT ![g_rule.in] = Reverse(calls) \o @]
                      /\ UNCHANGED outcome
                 ELSE outcome' = "failed" /\ UNCHANGED code
  /\ phase' = phase + 1 /\ fun' = 1 /\ pos' = 0 /\ rule' = 0
  /\ UNCHANGED <<input, flags, rememberedValues>>

finish ==
  /\ outcome = "running" /\ phase > Len(Phases)
  /\ outcome' = "done"
  /\ UNCHANGED <<code, input, phase, fun, pos, rule, flags, rememberedValues>>

Init ==
  /\ original \in Programs /\ code = original
  /\ setup \in Setups /\ reachable \in Reachable /\ facts \in Facts
  /\ phase = 1 /\ fun = 1 /\ pos = 0 /\ rule = 0
  /\ flags = [f \in setup.flags |-> ""] /\ rememberedValues = {}
  /\ outcome = "running"

Next ==
  \/ instrumentFunction \/ omitFunction
  \/ checkInstruction \/ nextInstruction \/ nextFunction
  \/ instrumentGlobals \/ finish

Spec == Init /\ [][Next]_vars /\ WF_vars(Next)

-----------------------------------------------------------------------------
TypeOK ==
  /\ phase \in 1 .. Len(Phases) + 1 /\ fun \in 1 .. Len(Functions) + 1
  /\ pos \in 0 .. (IF fun <= Len(Functions) THEN Len(code[F]) + 1 ELSE 0)
  /\ rule \in 0 .. (IF phase <= Len(Phases) THEN Len(Rules) ELSE 0)
  /\ DOMAIN code = ToSet(Functions) /\ DOMAIN flags = setup.flags
  /\ rememberedValues \subseteq {facts[v] : v \in DOMAIN facts}
  /\ outcome \in {"running", "done", "failed"}

Kept(f) == Only(code[f], LAMBDA i : i.op # "inserted")

(* The inserted calls between an instruction and the one before it.        *)
Gap(f, i) == {j \in 1 .. i - 1 : \A k \in j .. i - 1 : code[f][k].op = "inserted"}
CallsIn(f, new) == {i \in DOMAIN code[f] : code[f][i].new = new}
Instrumented == {f \in ToSet(Functions) : Instruments(f)}
Has(f, op) == \E i \in DOMAIN original[f] : original[f][i].op = op

(* The rules never lose, repeat or reorder an instruction of the program,  *)
(* and leave functions alone that DG does not reach (instr.cpp:360-399,    *)
(* 1215-1250).                                                             *)
ProgramKept ==
  \A f \in ToSet(Functions) :
    /\ Kept(f) = original[f]
    /\ ~Instruments(f) /\ f # "main" => code[f] = original[f]

Done(config) == outcome = "done" /\ setup.config = config

(* In the end every instrumented function sets its flag once before it     *)
(* registers anything, and before each ret drops its frame once and, in    *)
(* main, looks for leaks only after that.                                  *)
FrameBracket ==
  Done("config") => \A f \in Instrumented :
    /\ Cardinality(CallsIn(f, "__INSTR_set_flag")) = 1
    /\ \A i \in CallsIn(f, "__INSTR_set_flag"), j \in CallsIn(f, "__INSTR_remember") : i < j
    /\ \A i \in DOMAIN code[f] : code[f][i].op = "ret" =>
         LET drops == Gap(f, i) \cap CallsIn(f, "__INSTR_destroy_allocas")
         IN  /\ Cardinality(drops) = 1
             /\ \A d \in drops, l \in Gap(f, i) \cap CallsIn(f, "__INSTR_check_leaks") : d < l

(* Leaks are looked for before each ret of main iff some instrumented      *)
(* function allocates: the flag of the first phase decides the second.     *)
LeakCheckIffAllocates ==
  Done("config") => \A i \in DOMAIN code["main"] : code["main"][i].op = "ret" =>
    (Gap("main", i) \cap CallsIn("main", "__INSTR_check_leaks") # {} <=>
       \E f \in Instrumented : Has(f, "malloc"))

(* Every load and store that is not surely valid has a check of its        *)
(* pointer right in front of it, just one unless __INSTR_fail is among     *)
(* them, and no other has one.                                             *)
Accesses == {"load", "store"}
Checks == {"__INSTR_check_bounds", "__INSTR_check_pointer", "__INSTR_fail"}
AccessesChecked ==
  Done("config") /\ PTA => \A f \in Instrumented : \A i \in DOMAIN code[f] :
    code[f][i].op \in Accesses =>
      LET placed == {j \in Gap(f, i) : /\ code[f][j].new \in Checks
                                       /\ code[f][j].val = code[f][i].val}
      IN  /\ placed = {} <=>
               isValidPointer(facts[code[f][i].val].node, AccessSize) = "true"
          /\ Cardinality(placed) > 1 =>
               placed \cap CallsIn(f, "__INSTR_fail") # {}

(* "we register all memory allocations" (memsafety.c:318): what a checked  *)
(* pointer may target is registered where it is allocated.                 *)
MayTarget(node) ==
  IF KnowsNothing(node) \/ getPointsTo(node).unknown
    THEN {facts[v].obj : v \in DOMAIN facts} ELSE getPointsTo(node).ptset
CheckedPointers ==
  UNION {{code[f][i].val : i \in CallsIn(f, "__INSTR_check_pointer")} : f \in Instrumented}
Registers(new, t) == \E f \in Instrumented : \E i \in CallsIn(f, new) : code[f][i].val = t.name

CheckedObjectsRegistered ==
  Done("config") => \A v \in CheckedPointers : \A t \in MayTarget(facts[v].node) :
    /\ t.kind = "global" => Registers("__INSTR_remember_global", t)
    /\ t.kind = "stack" =>
         \A f \in Instrumented : Ins("alloca", t.name) \in ToSet(original[f]) =>
           Registers("__INSTR_remember", t)

(* "instrument only if all plugins that support the query answer that the  *)
(* condition is satisfied" (instr.cpp:687-688): the marker configuration   *)
(* marks an access iff neither points-to nor Predator calls it valid.      *)
MarkedUnlessVetoed ==
  Done("marker") => \A f \in Instrumented : \A i \in DOMAIN code[f] :
    code[f][i].op \in Accesses =>
      LET v == facts[code[f][i].val]
          doubted == /\ PTA => isValidPointer(v.node, AccessSize) # "true"
                     /\ "Predator" \in setup.plugins => v.reported
      IN  Gap(f, i) \cap CallsIn(f, "__INSTR_mark_pointer") # {} <=> doubted

(* A finished module calls only functions that can be linked, and without  *)
(* a points-to plugin no access was left to a rule that needs its facts.   *)
DoneMeansLinkable ==
  outcome = "done" => \A f \in ToSet(Functions) : \A i \in DOMAIN code[f] :
    /\ code[f][i].op = "inserted" => code[f][i].new \in Definitions
    /\ code[f][i].new = "__INSTR_check_bounds" =>
         PTA /\ ~KnowsNothing(facts[code[f][i].val].base)

(* The iterator that walks over a growing function ends all the same.      *)
Terminates == <>(outcome # "running")
=============================================================================
