# A formal model of sbt-instrumentation

sbt-instrumentation inserts calls into an LLVM module. Rules from a JSON file
say which instructions get which call, queries to static analyses say which of
those calls are not needed, and monitors written in C (for memory safety,
integer overflow, termination) get the calls at run time and fail an assertion
when the program does something it must not do. The verdict that Symbiotic
reports rests on all three: a call that is not inserted, an object that is not
registered or a record that is wrong makes the verdict wrong.

The modules here model three chains. For memory safety: the points-to plugin that
answers, the tool that inserts, the monitor that judges, down to the links of its
lists. For integer overflow: the range analysis from its graph to its intervals,
the plugins that answer from them, the rules, and the checks. And the run of an
external analyser, Predator, on whose report the answers of its plugin rest.

## 1. The system

| Part | State | Operations | Talks to |
|---|---|---|---|
| instrumenter, `src/src/instr.cpp` | the module being rewritten, the instruction iterator, remembered values and points-to sets | `instrumentModule`, `runPhase`, `instrumentEntryPoints`, `instrumentReturns`, `checkInstruction`, `applyRule`, `instrumentGlobals`, `loadPlugins` | asks the conditions; reads the configuration and sets its flags |
| rule conditions, `checkAnalysis` in `instr.cpp`, `instr_analyzer.cpp` | which queries are supported (static sets) | `checkConditions`, `checkAnalysis`, `shouldInstrument` | queries every plugin |
| configuration, `rewriter.cpp` | phases, flags, plugin paths | `parseConfig`, `setFlag`, `getFlagValue` | used by the instrumenter |
| points-to plugin, `analyses/dg_points_to_plugin.cpp` | the points-to graph of the DG library, the recursive functions | `isValidPointer`, `hasKnownSize(s)`, `getPointerInfo`, `getPInfoMin(Max)`, `pointsTo...`, `isInvalid`, `isNull`, `safeForFree`, leak queries | DG (a library) |
| Predator plugin, `predator_plugin.cpp`, `predator_wrapper.py` | error reports by line and column, "dangerous" globals | `runPredator`, `loadPredatorOutput`, queries | an external analyser, through a file |
| range analysis, `analyses/ra/`, `range_analysis_plugin.cpp` | an interval for every value | interval operations, widening and narrowing over strongly connected components, `canOverflow`, `canBeZero` | |
| value relations, nsw, infinite loop, LLVM points-to plugins | the result of their analysis | queries | DG or LLVM |
| memory safety monitor, `instrumentations/memsafety/memsafety.c` | four doubly linked lists of records: heap, stack, globals, deallocated; a flag on every node | `remember...`, `free`, `realloc`, `check_...`, `set_flag`, `destroy`, `destroy_allocas` | the program, through the inserted calls |
| overflow monitor, `int_overflows/*.c` | none | a check for each operation and width | |
| configurations, `instrumentations/*/*.json` | | the rules | name monitors and queries |
| logger, script `sbt-instr-c`, tests | | | |

How the parts meet, and where it is hard:

* **Sequences of legal calls.** The monitor knows memory by its lists only. The
  program may free and get the same address again, move blocks, recurse, enter a
  scope a second time; after any such history the lists must be right.
* **Two clocks.** Values remembered and flags set by the first phase decide
  what the second inserts. The checks that the first phase placed work only if
  the second registers what they will look up.
* **Answers for one question from several sides.** A load is guarded by up to
  seven rules whose conditions are asked of the pointer and of its base; exactly
  one check must come out, and it must be the right one.
* **Machine integers.** Bounds checks mix signed and unsigned 64-bit numbers.
* **Failure half way.** A missing definition or a missing pointer information
  ends the instrumentation after calls were inserted and flags were set.
* **A moving iterator.** Rules insert calls into the function being walked over.

* **Fixpoints in any order.** The range analysis walks sets of values in the order
  of their addresses; its result must not be too small, and it must end, in all.
* **Two processes and a file.** Predator's wrapper reads the analyser's output
  while the analyser runs, gives up after a time, and leaves a file; the plugin
  reads the file whatever became of them.

Tool and monitor themselves are single-threaded: apart from Predator, the
interleavings that matter are those of the program's operations, and the orders
that the code leaves open.

What makes each part correct:

* instrumenter: the program is kept; every doubtful access is checked; what is
  checked is registered; frames are bracketed; it ends.
* conditions: `mustHoldForAll` is a veto of the supporting plugins, else one
  positive answer suffices; a query without support holds.
* points-to plugin: "true" is said only when it is so for every target.
* monitor: the lists picture the memory; each verdict is the right one.
* overflow monitor: an assertion fails iff the mathematical result does not fit.
* range analysis: the interval holds every value that can occur, and the
  fixpoint is reached.
* Predator plugin: "true" is said only of what a finished analysis of this module
  did not report, as far as its wrapper lived to write the reports, and the tool is
  not kept waiting for ever.

`PROJECT.json` lists all hazards with their lines and the properties that watch
them.

## 2. Modules

| Module | Models |
|---|---|
| `RecordLists` | a list of records as the sequence of its nodes, `list_search`, and what a list says of memory |
| `MemProgram` | the program under test and its memory (external): allocator, frames, scopes, globals |
| `MemJudge` | the abstract specification: what the right verdict on an operation is, by the real memory |
| `MonitorLists` | the four lists as sequences and what each function of `memsafety.c` does with them |
| `MemSafety` | the program and the monitor: every operation of the program with the calls that the rules put around it |
| `MemSafetyProofs` | lemmas about lists of records; theorems about `MemSafety`: its types and the heap, then globals, stack and verdicts |
| `MonitorCalls` | abstract specification: the functions of the monitor, called in any order |
| `LinkedLists` | the same functions on nodes with `next` and `prev`, implementing `MonitorCalls` |
| `LinkedListsProofs` | theorems about them: what the links spell, step by step, and the refinement |
| `PointsToPlugin` | the queries of the DG plugin, over points-to sets |
| `BoundsChecks` | one access, from the points-to sets over the rules to the check at run time, with integers of `W` bits |
| `BoundsProofs` | theorems about it |
| `Conditions` | flags, queries, several plugins, `isRemembered` |
| `Instrumenter` | phases, iterator, rules, globals, failures |
| `InstrumenterProofs` | theorems about it, and lemmas about sequences that are cut, filtered and joined |
| `Ranges`, `RangeOps` | class `Range`, and the operation nodes with their `eval` |
| `ConstraintGraph` | from a function in e-SSA form to its graph, with what branches and switches say |
| `SccOrder` | abstract specification: the components of a graph, each once and whole, in an order that can be solved |
| `Nuutila` | the search that finds them, implementing `SccOrder` |
| `NuutilaProofs` | its theorems: the invariant of the search, and the refinement |
| `RangeAnalysis` | `findIntervals`: entry points, widening, fixing, narrowing, propagation |
| `RangeAnalysisProofs` | its theorems, and what each operation on ranges returns |
| `OverflowChecks` | one arithmetic instruction: query, rules, check at run time |
| `OverflowProofs` | theorems about it |
| `PredatorRun` | plugin, wrapper, analyser, pipe, clock and `predator.log` |
| `PredatorProofs` | theorems about it |
| `MCMemSafety`, `MCLinkedLists`, `MCBoundsChecks`, `MCInstrumenter`, `MCNuutila`, `MCRangeAnalysis`, `MCOverflowChecks`, `MCPredatorRun` | instances for TLC |

**MemSafety.** The variables `heap_list`, `stack_list`, `deallocated_list` and
`globals_list` (in `MonitorLists`) are those of `memsafety.c`; `heapMem`, `stackMem` and
`globalMem` are the memory the program really owns, `freedMem` and `movedMem` what it owned and
gave back, by `free` and by a `realloc` that moved the block; `status` is the verdict.
The monitor reads none of these. `WasFreed` means both kinds of freed memory, so a verdict is
judged by what happened and not by what the monitor remembers of it.
An action is one operation of the program with all its monitor calls: `Malloc` is
malloc and `__INSTR_remember_malloc_calloc`, `Realloc` is
`__INSTR_check_realloc`, realloc and `__INSTR_realloc`, `Return` is
`__INSTR_destroy_allocas` and the return. Operators with the names of the C
functions hold their logic. `Frames`, `ScopeEnd` and `ScopeStart` say which rules
a configuration has: `config.json` has the first only, `config-lifetimes.json`
the second only, `config-i2-enhanced-lifetimes.json` and `config-minmax.json` all.
`MallocReuse` and `ReallocReuse` say what the allocator may do with addresses that
`free` was given: `none`, `exact` (only the same block) or `any`. What a realloc left
may be handed out again in any way, whole or in part.

**LinkedLists.** `mem` is the memory of the nodes with the four list heads, `allocated`
the nodes that malloc has given out and not got back; a node's place may be given
out again. Each function is one action, but for `__INSTR_destroy_allocas`, whose
loop is taken node by node (`destroy_allocas`, `DropNode`, `LowerFlag`, `NoneLeft`):
in between, the head of the stack list leads to freed memory. The refinement
mapping reads each list along its links; while the loop runs, the stack is what
`destroy_allocas` of `MonitorLists` makes of the nodes from the cursor on, so that
the whole effect falls on the first step and the rest stutters. What the monitor
would do with a `prev` that points to a freed node is thereby covered: `WellLinked`
lets only the cursor have one.

**BoundsChecks.** `base` is the node that `getPointsToNode` returns for the base of a
getelementptr, `node` the one for the pointer; `target` is what the base really
points to, one of the targets its set stands for. `Instrument` evaluates the
conditions of the rules, `Execute` the inserted check. Sums wrap at `W` bits as
`a_size` and `int64_t` do at 64.

**Instrumenter.** `code` is the module, one sequence of instructions for each
function; `pos` is the iterator and `rule` the last rule tried. `instrumentFunction`
is the entry and return part of `runPhase`, `checkInstruction` one rule that
matches the instruction, `nextInstruction` and `nextFunction` the loop headers. The
conditions are evaluated by the real operators of the plugins on the facts of the
run. A failure may leave the module half rewritten, as in the code, where it is
then not saved.

**Range analysis.** A range is `l`, `u` and its kind, as in the class: the bounds of
an unknown or empty range are kept, because the code compares them. The module's
variables are the members of `ConstraintGraph`: `active` stands for `entryPoints`
and `activeVars`, `todo` for the uses that are walked, `isect` for the ranges of the
sigmas' symbolic intersections, `unresolved` for their marks. The orders of the
code's pointer sets are a choice of the model, so that a run explores all of
them. `Collected` is the reference: the least sets of values closed under what
the instructions compute on machine integers. `RangeAnalysis` takes components in
any order that `SccOrder` allows; `Nuutila`, whose recursion is the stack `calls`, is
shown to find such an order, so the two compose.

**OverflowChecks.** An instruction with the ranges of its operands is asked about
(`Query`), gets a call or not (`ApplyRules`), and is then reached again and again with
operands from these ranges (`Reach`, `Judge`, `Execute`); `Covered` of `RangeAnalysis` is
what makes this assumption right. `config` selects the plugin and the file of
checks. A division of `INT64_MIN` by -1, which C does not define, traps or gives
any quotient.

**PredatorRun.** `Start` is `runPredator` up to the wrapper's first line, `First`, `Look`,
`NothingSeen` and `Poll` are the loop of `run_predator`, `Leave` the end of its with
statement, `OpenLog`, `Flush` and `CloseLog` are `write_logfile`, `Finish` is `sys.exit(0)`, `Load` is
`loadPredatorOutput`. The loop of `write_logfile` writes to a buffer: `Flush` lets any part
of the reports reach the file, with the next line whole or cut off, any number of times.
`Emit`, `Exit` and `Expire` are the analyser and the clock. The pipe is counted by
lines: `taken` <= `fetched` <= `sent`, because `readline` fetches all there is and `select`
knows nothing of what was fetched. `Die` is a wrapper that is killed or raises
at any step, also between two flushes and between the close and the exit. `Earlier` is
what may lie in `predator.log` before.

Operators introduced by a comment that begins with "Fault" are wrong on purpose.
They are no part of a specification: each stands for a slip in the definition
that follows it, and shows that a property notices it (`PROJECT.json`, "mutants").

## 3. What TLC checks

| Run | Shows | Bounds |
|---|---|---|
| `heap` | lists picture heap, blocks given to `free` and globals; verdicts right, but for what a realloc freed | 3 heap addresses, 1 stack, 1 global; sizes 0 to 2; malloc reuses exactly, realloc does not |
| `stack` | flags keep frames apart; a return drops its own frame | 3 stack addresses, 3 frames, all scopes |
| `links` | nodes and links do what the sequences say, in every order of calls; nothing leads to a freed node | 4 nodes (symmetric), 2 addresses, sizes 1 and 2, at most 2 flags on a node |
| `realloc_reuse` | *violation*: a live block is refused as freed | as `heap`, realloc reuses too |
| `bounds` | no check or a passed check means a valid access; one check; right list; an alarm is right, but for two kinds of access | 3 bits; 4 objects, sets of 2 pointers, accesses of 1 and 2 bytes |
| `instrument` | the program is kept, accesses are checked, checked objects registered, frames bracketed, leak checks follow the flag, vetoes count, failures stay failures, it ends | 3 functions, programs of up to 6 instructions, 2 phases, 6 setups |
| `order` | `Nuutila` implements `SccOrder` and ends | all graphs of 3 values; those of 4 with at most 5 edges |
| `ranges` | ranges hold all values, none stays unknown, lists run empty only where no operation reached from its component would move its sink, what is left is final, it ends | 4 bits, 28 functions with up to 10 values |
| `conservative` | *violation*: a range misses values | 4 bits, one function |
| `overflows` | overflows are seen, alarms are right, "false" may be trusted | types of 2, 3, 4 and 4 bits; bounds at the ends and around 0; 3 configurations |
| `predator` | "ok" only after a finished analysis and with all its reports; "true" only after one, and by all its reports if the wrapper came to its end; the plugin ends | 10 outputs, every point of death, 2 pointers, no log or a failed one before |
| `predator_stale` | *violation*: an old log is believed after a failed wrapper | as `predator`, with an old log |

Why these bounds are enough to be of interest. Three adjacent heap addresses give
neighbours that touch, blocks of no bytes, blocks inside the place of an old
block, and a block that must move. Three frames are the least in which a flag
must count to two on one node, because the middle frame has no objects. Four nodes
give a list with a middle and one node elsewhere to take, and two flags the least
count above one. Three bits make every sum of the bounds checks overflow in both
directions. Two pointers in a set are the least whose order and difference matter.
A function that cannot be reached, one of the tool's own, a second `ret` and an entry
function without allocation each occur in `instrument`. Two components that touch,
inside one and across, need four values in `order`. The functions of `ranges` have
loops up, down, never entered, entered once, endless, nested, dependent on each
other, bounded by an argument or by a value of the loop, with signed and unsigned predicates, a switch, casts and memory;
four bits leave room for two steps of widening between the ends. In `overflows` a
wide and a narrow type tell apart what the types' limits do from what the width
of the ranges does. The outputs of `predator` end in each of the ways that the
wrapper knows, and reports come at both uses of a pointer, at none, and without
a column.

Run `heap` has no allocator that reuses part of an old block: then
`__INSTR_remember_malloc_calloc` takes over the old record with its old size
(`memsafety.c:229`), against "we register all memory allocations" (`:317`), and
`HeapMirrored` does not hold. A block that a realloc freed by moving it is forgotten by the
monitor: `__INSTR_realloc` destroys its record where `__INSTR_free` would put it on the
deallocated list (`memsafety.c:418`). So `DerefVerdicts` and `FreeVerdicts` promise for such
memory an alarm but not its cause (`Known`), and `ReallocVerdicts` promises nothing
for it (`Forgotten`): a realloc of memory that an earlier realloc freed passes the
check. `TrueMeansAnalysed` lets a wrapper that died leave a part of the reports.
`FailMeansInvalid` excepts the valid accesses that
`check_bounds_min_max` refuses, and `NoOverflowUnseen` and `AlarmMeansOverflow` the
operands for which the checks of multiplications are wrong; each exception names
its lines and is exactly as wide as the code's slip.

Terminal states are normal in all models (a verdict, an executed access, a finished
module), so deadlock is not checked; `Terminates` says that the instrumenter
reaches its end.

**Fairness.** `Instrumenter`, `Nuutila` and `RangeAnalysis` state `WF_vars(Next)`: a
sequential program that is not stopped from outside takes its next step, and no
order of the sets is fairer than another. In `PredatorRun` the tool and its wrapper
run on and time passes. Of the analyser it is assumed that it prints a first line
or ends, and that it ends when it has been left: the time limit covers neither
the first `readline` (`predator_wrapper.py:131`) nor the wait at the end of the with
statement. In between it may hang, and `Ends` shows that the limit catches it.
The monitor's program owes nobody another step, and no liveness is claimed of it.

### Findings

1. `__INSTR_realloc` does not look for a deallocated record at the address it
   registers; the next `__INSTR_check_realloc` of that live block fails with
   "realloc on freed memory" (`memsafety.c:395`). Run `realloc_reuse`.
2. The range analysis is not conservative, against its header
   (`RangeAnalysis.h:17`): an empty sink has the bounds of the full range, and
   widening and narrowing compare bounds only, so it is not woken when its operand
   becomes non-empty (`RangeAnalysis.cpp:2562`). Run `conservative`.
3. After a failed wrapper `predator.log` is believed if it begins with "ok"
   (`predator_plugin.cpp:116`): `loadPredatorOutput` overrules what the exit status has set.
   Run `predator_stale`, with an old log. The same line believes the log of a
   wrapper that died while it wrote: if a report of `10:3` had been flushed and one of
   `20:1` had not, a pointer used at `20:1` is called valid (`Flush`, `Die`, `Load`).

Seen while modelling, without a run of their own: the record that is taken over,
the realloc of forgotten memory that passes although the assertion is called
"realloc on freed memory" (`memsafety.c:396`; malloc, a realloc that moves, a realloc of the old
address), and the valid accesses refused, all above; `config-lifetimes.json` destroys records
at `llvm.lifetime.end` and has no rule for `llvm.lifetime.start` (`StackMirrored` fails
with `ScopeStart = FALSE`); `pointsTo` answers "false" for a set of the unknown target
only (`dg_points_to_plugin.cpp:433`), so nothing is registered for a pointer that
is checked; the rules for divisions name the opcode "div", which no instruction has
(`int_overflows/config.json:227`), so no division is checked; a report without a
column ends the tool in `std::stoi("none")` (`predator_plugin.cpp:143`), and a finished
analysis without reports in `abort` (163); when the analyser has ended, lines that
the wrapper has fetched and not read are lost, and a finished analysis may count
as failed (`predator_wrapper.py:194`), which costs answers but makes none wrong; the
second iteration of the range analysis does not go "till fix point" (its comment in
`RangeAnalysis.cpp:2865`, there in Portuguese) for all operations: it starts at the values of
the component, so a sigma whose operand lies outside, and whose bound alone put
it there, is not evaluated again although its intersection has changed
(`while (a < b) b = a & 3;`, function `Bounded` of `MCRangeAnalysis`), nor are those
of a loop that nothing enters (`OrphanBranch`). Their ranges are wider than need be.
`FixpointReached` is about the operations that a value of the component reaches.

Without their causes the properties hold: `heap` and `ranges` check the same ones, or the
ones they come from, where the cause is excluded by a constant, and `predator` checks what
is left of the promise where no old log lies about.

## 4. What is proved

TLAPS checks these theorems for all values of the constants that the assumptions
allow. An assumption named in a module says what any instance must satisfy, and TLC
evaluates it on every run; a theorem that needs more says so in an `ASSUME` of its
own, named here.

| Theorem | Property | Needs |
|---|---|---|
| `MemSafetyProofs!TypesHold` | `TypeOK` | |
| `MemSafetyProofs!HeapIsMirrored` | `HeapMirrored` | an allocator that reuses blocks only whole (`MallocReuse # "any"`), and not in realloc (`ReallocReuse = "none"`) |
| `FreesAreJudged`, `LeaksAreJudged` | `FreeVerdicts`, `LeakVerdict` | the same |
| `ReallocsAreSpared` | `ReallocAlarmMeansFreed` | the same |
| `GlobalsAreMirrored` | `GlobalsMirrored` | |
| `StackIsMirrored`, `ReturnsDropOwnFrame` | `StackMirrored`, `ReturnDropsOwnFrame` | the rules for frames and both ends of a scope |
| `DereferencesAreJudged`, `ReallocsAreJudged` | `DerefVerdicts`, `ReallocVerdicts` | these rules and that allocator |
| `LinkedListsProofs!LinksAreWell` | `WellLinked` | |
| `ListsAreImplemented` | `ImplementsLists` | |
| `InstrumenterProofs!IteratorStaysInside` | `TypeOK` | |
| `ProgramIsKept` | `ProgramKept` | |
| `FinishedIsLinkable` | `DoneMeansLinkable` | `BoundsRules`: `__INSTR_check_bounds` is placed by rules for instructions that ask for a pointer info |
| `AccessesAreChecked` | `AccessesChecked` | `CheckRules`: what `memsafety/config.json` has for loads and stores; `SizedIsNotInvalid`: DG keeps the targets of the base of a `getelementptr` |
| `MarksNeedAll` | `MarkedUnlessVetoed` | `MarkRules`: the two marking rules of `memsafety/config-marker-predator-pta.json` |
| `LeaksAreLookedFor` | `LeakCheckIffAllocates` | `LeakRules`: the flag is set by the rules for allocations and asked by the rule for leaks, and nothing else; `MainRuns`: there is a main, which DG reaches |
| `ObjectsAreRegistered` | `CheckedObjectsRegistered` | `RegisterRules`: a check remembers its pointer, and the second phase registers what those may target; `MainRuns`; `ObjectsNamed`: points-to sets are not open, and an object has the name of its alloca or global |
| `FramesAreBracketed` | `FrameBracket` | `FrameRules`: one rule for entries, one for returns |
| `BoundsProofs!ChecksExclude` | `OneCheckEach` | |
| `ListsAreRight` | `RightList` | |
| `UncheckedAreValid`, `PassedAreValid` | `UncheckedMeansValid`, `PassedMeansValid` | |
| `AlarmsAreInvalid` | `FailMeansInvalid` | |
| `RangeAnalysisProofs!RangesTyped` | `TypeOK` | |
| `RangesAreFinal` | `LeftAlone` | |
| `EveryRangeKnown` | `NoneUnknown` | |
| `ListsEmptyAtFixpoint` | `FixpointReached` | |
| `NuutilaProofs!SearchIsTyped` | `TypeOK` | |
| `SearchOrdersComponents` | `ComponentsInOrder` | |
| `OverflowProofs!FalseIsTrusted` | `FalseIsRight` | |
| `OverflowsAreSeen` | `NoOverflowUnseen` | no types but those of the rules (`DOMAIN Bits \subseteq RuleTypes`) |
| `AlarmsAreTrue` | `AlarmMeansOverflow` | |
| `PredatorProofs!OkIsAllReports` | `OkMeansAllReports` | |
| `EndedRunIsBelievedWhole` | its last conjunct: after a wrapper that came to its end the plugin has all reports and no others | |
| `TrueIsAnalysed` | `TrueMeansAnalysed` | no log of a finished run from before |

Where a theorem needs more, a run or a finding shows that it does: `realloc_reuse` for
the allocator in realloc, the record that is taken over for the one in malloc, the
missing rule for `llvm.lifetime.start` for the stack, `predator_stale` for the old
log. `DOMAIN Bits \subseteq RuleTypes` leaves out integers of other widths (`i33`), for
which no rule matches. The configurations and programs of `instrument` satisfy all that is
assumed of rules, facts and main, so none of these theorems is about nothing. `ObjectsNamed`
leaves out the points-to sets that `pointsTo` answers "false" for although the pointer is
checked (section 3): the open ones, and those of which DG knows nothing.

The assumptions of the modules: `AddrAssumption`, that heap, stack and globals are
disjoint sets of addresses without NULL; `BoundAssumption`, `RulesAssumption`, `FlagAssumption`, types;
`GraphAssumption`, that a graph is finite and its edges lead to values of it;
`NodesAssumption`, that the nodes are finitely many and NULL is none of them;
`OutputAssumption`, that Predator reports nothing after the line with the time it took; `ProgramAssumption` and `SetupAssumption`, that programs are
sequences of instructions without inserted ones, that no function is listed twice, that no rule matches an inserted
call and that globals are registered in main; `WidthAssumption` of `BoundsChecks`,
that the table of powers is one, its `ObjectsAssumption`, that no object
takes half the address space; `BitsAssumption`, that of widths; `OpcodesAssumption`, that
the opcodes are those of signed arithmetic; `WidthAssumption` of `Ranges`, that W is at
least 2 and that powers of two are positive and grow up to 2^W (true of every W, but
the provers know no powers); `FunctionAssumption`, that in a function whose widest instruction
has W bits no constant that is used is wider, that constants are no instructions, that casts
have a width, and that a phi has operands.

The arguments, and why each invariant is stronger than the property:

* **Heap.** `HeapMirrored` alone is not inductive. A record leaves the deallocated list
  when an address it covers is registered by *any* of the three remember functions,
  so one must know that live and freed blocks never overlap and that all of them lie
  in the heap region, where no stack object or global is; this is `HeapApart`. `MovedApart`
  says that what realloc freed overlaps neither, so that no record speaks for it, and
  `HeapInv`, the conjunction of these with the types, is inductive. The lemmas in front have
  the facts about lists that every step uses: what `list_search` finds, what
  prepending and detaching a node does to the set of records, that in a list
  without overlap at most one node covers an address.
* **Stack.** That the list mirrors the objects says nothing of the return after the
  next. `StackInv` ties the flags to the frames: the flags on a node and on the nodes in
  front of it count the frames that are open below it. `destroy_allocas` drops nodes up
  to the first flag and lowers that one; that this is one frame's end needs the count
  for *all* nodes. `RegionInv` keeps stack and globals in their regions, so that
  registering a heap block does not touch them.
* **Verdicts.** `HeapInv`, `RegionInv` and `StackInv` together say that each list is the
  memory; then the search finds the one object that covers an address, if there is one.
* **Links.** `WellLinked` says what the four lists look like, each read along its links; it
  is no use for a step, since a step changes a link and with it everything read behind it.
  The inductive `LInv` turns this round: there are four sequences `s` of different nodes, together
  the allocated ones, and heads and links are what these sequences spell (`Holds`).
  Each function is then shown to make other sequences of them: `list_prepend` puts a node in
  front, `detach_node` leaves one out. While a return's loop runs, `Reached` says the
  same of the stack from the cursor on, and that the first node there may point back
  anywhere: it is read by nobody until `LowerFlag` ends the list in front of it or `DropNode`
  frees it. `ChainIsSpelt` leads back: what is found along the links is `s`. The refinement
  follows, because each function of `MonitorLists` makes of the records the same
  sequence. The proof also found a fault of the model: `free` had lost the early return for
  NULL (`memsafety.c:151`), which no run could see, as NULL is not among its addresses.
* **Instrumenter.** `ProgramKept` filters a sequence that grows at three kinds of places.
  `CodeInv` adds what the steps need to know: the program is a function to sequences
  of instructions (`CodeType`), and the iterator is inside (`Walking`). The lemmas say
  that the filter commutes with joining sequences (`KeptConcat`, `KeptFlatten`), that an
  inserted call is filtered out (`InsertKeeps`) and that a frame is (`FrameKeeps`).
  They are about sequences of any length and are shown by the least length for
  which they fail. The modules filter with `Only` instead of `SelectSeq`, of whose recursion
  TLAPS knows nothing.
* **Checks in front of accesses.** `AccessesChecked` speaks of the finished program; a step
  inserts one call, and the rules still to be tried decide whether more follow. The
  inductive `GapInv` is about the gap in front of each original instruction: of the calls
  to a set of functions it holds exactly those that the rules of the phase tried so far place
  there, one for each (`Due`, `Tried`). All other insertions, before, after, in later phases,
  into frames and for globals, only move a gap (`Grown`). This needs that the
  conditions of those rules answer the same at any time (`PlainStays`: no flag, nothing remembered).
  It remains to count the rules that are due: for the kinds of `CheckRules`, none if the
  pointer is surely valid and otherwise just one but for `__INSTR_fail` (`DueChecks`). The proof
  needs each function once in the module, which `ProgramAssumption` now says: a
  function met twice would get every check twice.
* **Other rules of the instrumenter.** `MarkInv` is `GapInv` again, for the marks, where several
  plugins have to doubt. `LeakInv` joins it for the second phase with the flag of the first: `FlagKnown`
  says that a flag that is set has an allocation behind it, `FlagTried` that an allocation whose rules were
  tried has set it. After the first phase all have been, so the second finds a flag that
  no longer changes, and only that makes its answers the same at any time.
  `RegisterInv` does so for the remembered values, to which the second phase adds none: every check
  is of a remembered value, and every alloca and global that one of them may target is
  registered once the rules have passed it. `FrameInv` is about whole functions: until it has
  its turn in the first phase a function is as it was (`Unframed`), and from then on the
  flag is set once, in front of every registration (`Opened`), and in front of every return the
  frame is dropped once, before leaks are looked for (`Closed`). What later rules insert
  leaves these calls in their order (`Grown`).
* **Components.** `ComponentsInOrder` speaks of the moment when a component is closed, `SearchInv` of
  all others: `Split`, `Nested` and `Stacked`, how calls, stack and components share the visited values;
  `Below`, that a value in a call reaches all that is open and was visited later; `Roots` and `Edges`, that a root is
  reached from its value and is not later than what the seen edges lead to. Nuutila's stack does not hold the values
  of the open calls, and a root is handed to the caller only when it comes to look at it; `Passed` is what
  makes up for it: the root of a waiting value was passed on to the call below it, or is
  about to be. Then all that is taken from the stack reaches V, since of the values that do not the first visited
  would have a root visited earlier still (`TakenIsComponent`), and no edge leads from it to anything open
  (`TakenIsWhole`). That `Reach` of `SccOrder`, which stops after as many steps as there are values, is all
  that can be reached is `ReachIs`.
* **Bounds.** `BoundsInv` says which check the conditions selected and what it computes from
  the least and greatest offset and space in a points-to set of any length. The
  sums are then bounded by half the word on both sides, so that a signed and an unsigned
  comparison agree.
* **Ranges.** `RangesTyped` is a lemma about every operation of class `Range`: its bounds are
  again integers of the width, though it divides, shifts, wraps and walks over bits,
  and it is known if its operands are. The recursive functions (the bits of an "or",
  the operands of a phi) are shown to exist and to stay in their types by the least
  length for which they would not. `BuiltInv` is what `buildGraph` establishes of graph and
  intervals.
  That a step leaves finished components alone says nothing of the next step.
  `Inv` has what is inductive: `OrderInv`, that nothing still
  to come, and nothing in the component, is used by an operation whose sink is
  finished; `GraphInv`, that the graph has an edge to every use; `ShapeInv`, that between
  components nothing is due. `Ready` gives `OrderInv` for the next component, and that the search
  finds such an order is `SearchOrdersComponents`.
  `KnownInv` adds that what is finished is known, and the component from `Fix` on. `Propagate`
  evaluates operations again whose sinks are filled in already; they stay known because, by
  `OrderInv`, nothing they read is still to come.
  `WorkInv` is the argument of a work list: an operation that a known value of the component
  reaches is due, or reads a value that is active, or is stable, that is, another
  meet changes nothing. A sink that changes becomes active for all that read it; the
  operation itself is stable because a meet with the same range does nothing the
  second time (`MeetsOnce`), which for widening needs the jump set to lie around the bound.
* **Overflows.** `LifeInv` says what led to the present phase: which call was placed for
  which answer, and which verdict let the instruction execute. The rest is
  arithmetic with a symbolic width: that a quotient tells of a product whether it fits.
* **Predator.** `ReadInv` relates the three counts of lines in the pipe, the place in the
  wrapper and the result in the log; a lost line can only be lost on a path that ends
  in a failure. `LogInv` follows the log: a part of the reports while it is written, all
  of them when it is closed and ever after if `status` is 0, and what the plugin loaded. `OwnInv`
  says that an "ok" in it is this wrapper's; it needs that no earlier run left one.

Only model-checked: that the ranges hold all values (`Covered`: it does not hold of all functions,
see finding 2 and section 5), and what must happen at last (`Terminates`, `AllListed`, `Ends`). Out of the prover's reach: liveness under fairness and `ENABLED`. The library's rules of induction take an
operator as a parameter, which the provers cannot instantiate; where a fact about all
lengths is needed it is derived from the least counterexample instead.

## 5. What is assumed or left out

* DG's points-to sets hold the target of the run, and a known offset is below the
  size of its object. Both are external. The model covers what is made of the sets.
* The program never calls realloc with a result of NULL, and does not longjmp.
* Instruction sequences, `replace`, `rememberPTSet` and `isRemembered+` in the
  instrumenter: the configurations modelled here do not use them.
* An access is of one byte in `Instrumenter`; `BoundsChecks` has the sizes.
* A monitor that runs out of memory: `__INSTR_node_create` writes to the node
  without a test (`memsafety.c:77`), so a call of `LinkedLists` needs a free node.
* The range analysis is sound on the programs of `ranges` only with the operations
  they use. Products beyond 2^W (`RangeAnalysis.cpp:484`), unsigned and signed
  remainders (654, 701), left shifts (750), `and` of negative and `or` of mixed
  operands, and differences that wrap are computed as in the code and left out of
  the programs, because there the interval is known to miss values. What a branch
  says of a zero-extended or truncated value is left out likewise (2279).
* The function is in e-SSA form, as `vSSA` leaves it, and every addition, subtraction
  and multiplication counts as `nsw`: a run ends at a signed overflow, and `Collected`
  has no wrapped results. `Range::add` and its like saturate and would miss them.
* The orders in `Nuutila` and `RangeAnalysis` are all orders, more than addresses give.
* Range bounds are integers of `W` bits in the model, as the code's are of the
  widest type; the comparisons on doubles of the plugin and of `getFirstLessFromVector`
  (`signedRoundToDouble`, `RangeAnalysis.cpp:2397`) are exact.
* A sigma of a value of which neither branch nor switch says anything gets a node
  with the full range in the model and none in the code (`RangeAnalysis.cpp:2044`); either way
  it is not bounded, and the programs of `ranges` have none. `getRange` of the plugin, when a
  load's range is unknown, takes that of its pointer (`range_analysis_plugin.cpp:171`);
  this is left out, and `OverflowChecks` takes the range of an operand, known or unknown,
  as what `getRange` returned.
* Predator prints its diagnostics on one stream, and a line comes whole. How a line is
  recognised is not modelled. The kinds of reports are not told apart.

Not modelled, and why:

* Solver `CropDFS`, the `OVERFLOWHANDLER` build, the interprocedural pass and the
  `print` functions of the range analysis: the plugin does not use them. `canBeZero` and
  the checks of shifts: no rule of the modelled configurations asks for them.
* The value relations plugin: its answers are those of DG's relation graphs, a
  library; what is left here is bookkeeping over them. The LLVM points-to plugin: the
  shipped configurations load the other one. The infinite loop plugin: a syntactic
  test of one loop.
* The monitors for termination, null dereference and markers have no state. Logger,
  script, metadata, statistics, parsing and linking have no influence on the
  properties.

## 6. Plan

Done: the memory safety chain with its links, the integer overflow chain, the run of
Predator, and the theorems above. Next: remembered points-to sets, leak queries and the
complete marker configurations of the instrumenter.
