--------------------------- MODULE MCInstrumenter ---------------------------
(* Instrumenter for TLC, with the rules of memsafety/config.json: one      *)
(* malloc rule stands for the rules of all allocation functions.           *)
EXTENDS Instrumenter

Cond(name, expected) == [name |-> name, expected |-> expected]
Rule(op, new, where, in, conds) ==
  [op |-> op, new |-> new, where |-> where, in |-> in, conds |-> conds,
   forAll |-> FALSE, info |-> FALSE, remember |-> FALSE, setFlags |-> <<>>]

Dubious == Cond("isValidPointer", {"false", "maybe"})
Unsized == Cond("hasKnownSize", {"false", "maybe"})
Remembered == Cond("isRemembered", {"true", "maybe"})

bounds(op) == [Rule(op, "__INSTR_check_bounds", "before", "*",
    <<Dubious, Cond("hasKnownSize", {"true"}), Cond("isInvalid", {"false", "maybe"})>>)
  EXCEPT !.info = TRUE]
pointer(op, invalid) == [Rule(op, "__INSTR_check_pointer", "before", "*",
    <<Dubious, Unsized, Cond("isInvalid", invalid)>>)
  EXCEPT !.remember = TRUE]
fail(op) == Rule(op, "__INSTR_fail", "before", "*",
    <<Dubious, Unsized, Cond("isInvalid", {"true"})>>)

phase1 == <<
  Rule("entry", "__INSTR_set_flag", "entry", "*", <<>>),
  Rule("return", "__INSTR_destroy_allocas", "return", "*", <<>>),
  [Rule("malloc", "__INSTR_remember_malloc_calloc", "after", "*", <<>>)
     EXCEPT !.setFlags = [malloc |-> "true"]],
  Rule("free", "__INSTR_free", "before", "*", <<>>),
  bounds("load"), bounds("store"),
  pointer("load", {"false", "maybe"}), pointer("store", {"false", "maybe"}),
  fail("load"), fail("store"), pointer("store", {"true"})>>

phase2 == <<
  Rule("alloca", "__INSTR_remember", "after", "*", <<Remembered>>),
  Rule("ret", "__INSTR_check_leaks", "before", "main", <<Cond("malloc", {"true"})>>)>>

NoGlobals == [Rule("global", "none", "before", "none", <<>>) EXCEPT !.where = "globals"]
config == <<
  [rules |-> phase1, globals |-> NoGlobals],
  [rules |-> phase2,
   globals |-> Rule("global", "__INSTR_remember_global", "globals", "main", <<Remembered>>)]>>

CalledBy(phases) == UNION {{r.new : r \in ToSet(p.rules)} \cup {p.globals.new} : p \in ToSet(phases)}

(* The first phase of config-marker-predator-pta.json, and its last rules  *)
(* for the calls of free.                                                  *)
mark(op) == [Rule(op, "__INSTR_mark_pointer", "before", "*",
    <<Cond("isValidPointer", {"false", "maybe", "unknown"})>>)
  EXCEPT !.forAll = TRUE, !.remember = TRUE]
marker == <<
  [rules |-> <<mark("load"), mark("store")>>, globals |-> NoGlobals],
  [rules |-> <<Rule("free", "__INSTR_mark_free", "before", "*",
                    <<Cond("safeForFree", {"maybe", "false"})>>)>>,
   globals |-> NoGlobals]>>

Setup(name, ps, fs, loaded) ==
  [config |-> name, plugins |-> loaded, flags |-> fs, phases |-> ps,
   definitions |-> CalledBy(ps)]
MemSafety == Setup("config", config, {"malloc"}, {"PointsTo"})
NoPointsTo == Setup("config", config, {"malloc"}, {"Predator"})
Marker == Setup("marker", marker, {}, {"PointsTo", "Predator"})
Unlinkable(s, new) == [s EXCEPT !.definitions = @ \ {new}]

JustMemSafety == {MemSafety}
AllSetups == {MemSafety, NoPointsTo, Marker, Unlinkable(Marker, "__INSTR_mark_free"),
              Unlinkable(MemSafety, "__INSTR_remember_global"),
              Unlinkable(MemSafety, "__INSTR_set_flag")}

-----------------------------------------------------------------------------
x == [name |-> "x", kind |-> "stack", size |-> 1, near |-> TRUE]
y == [name |-> "y", kind |-> "stack", size |-> 2, near |-> FALSE]
g == [name |-> "g", kind |-> "global", size |-> 1, near |-> TRUE]
h == [name |-> "h", kind |-> "heap", size |-> 1, near |-> FALSE]

At(o) == PointerTo(o, 0)
Somewhere(o) == PointerTo(o, UNKNOWN)
Nowhere(kind) == PointerTo(Special(kind), 0)

Itself(o) == Value(o, Node(<<At(o)>>), NoNode, FALSE)
Through(node, base, reported) == Value(Special("unknown"), node, base, reported)

Valid == Through(Node(<<At(x)>>), NoNode, TRUE)
Mixed == Through(Node(<<Somewhere(y), At(g), Nowhere("null")>>), NoNode, TRUE)
Gone == Through(Node(<<Nowhere("invalidated")>>), NoNode, TRUE)
Plain == {Valid, Mixed, Gone,
          Through(NoNode, NoNode, TRUE),
          Through(Node(<<Somewhere(x)>>), Node(<<At(x)>>), FALSE),
          Through(Node(<<At(h)>>), NoNode, FALSE)}
Vague == {Through(Node(<<Nowhere("unknown")>>), NoNode, TRUE)}

Knowing(ps, qs) ==
  {[x |-> Itself(x), y |-> Itself(y), g |-> Itself(g), h |-> Itself(h), p |-> a, q |-> b] :
     a \in ps, b \in qs}
PlainFacts == Knowing(Plain, {Valid, Mixed, Gone})
VagueFacts == Knowing(Vague, Vague)

Ret == Ins("ret", "none")
Mains == {<<Ins("alloca", "x"), Ins("load", "p"), Ins("store", "q"), Ret>>,
          <<Ins("alloca", "x"), Ins("malloc", "h"), Ins("store", "p"), Ret, Ins("free", "p"), Ret>>}
Callees == {<<Ins("alloca", "y"), Ins("load", "q"), Ret>>,
            <<Ins("malloc", "h"), Ins("alloca", "y"), Ret>>}
Support == <<Ins("malloc", "h"), Ins("load", "p"), Ret>>
TwoFunctions ==
  {[f |-> c, main |-> m, __VERIFIER_alloc |-> Support] : c \in Callees, m \in Mains}

Order == <<"__VERIFIER_alloc", "main", "f">>
Skipped == {"__VERIFIER_alloc"}
EitherReach == {{"main", "__VERIFIER_alloc"}, {"main", "f"}}
OneGlobal == <<"g">>
=============================================================================
