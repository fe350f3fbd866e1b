------------------------------ MODULE Nuutila -------------------------------
(***************************************************************************)
(* Class Nuutila of analyses/ra/RangeAnalysis.cpp: the search for the      *)
(* strongly connected components of the constraint graph.  The recursion   *)
(* of visit is a stack of calls; the uses of a value and the values        *)
(* themselves are walked in the order of their addresses, which is any.    *)
(* Component and the order that is promised are in SccOrder.               *)
(***************************************************************************)
EXTENDS Integers, Sequences, SequencesExt, FiniteSets

CONSTANT Graphs    \* the graphs: a value -> the values its uses are sinks of

ASSUME GraphAssumption ==
  \A g \in Graphs : IsFiniteSet(DOMAIN g) /\ \A v \in DOMAIN g : g[v] \subseteq DOMAIN g

VARIABLES
  useMap,       \* value -> the sinks of the operations that use it
  index, dfs, root, inComponent, components, worklist,
  pilha,        \* the stack of the values that wait for their component
  calls         \* the calls of visit: value, uses still to see, use being seen

vars == <<useMap, index, dfs, root, inComponent, components, worklist, pilha, calls>>

Values == DOMAIN useMap
Top == Last(calls)
Seeing == Top.cur # {}
Use == CHOOSE name \in Top.cur : TRUE

(* visit(V) begins.                                                        *)
Enter(V, stack) ==
  /\ dfs' = [dfs EXCEPT ![V] = index]
  /\ index' = index + 1
  /\ root' = [root EXCEPT ![V] = V]
  /\ calls' = Append(stack, [value |-> V, uses |-> useMap[V], cur |-> {}])

Init ==
  /\ useMap \in Graphs
  /\ index = 0
  /\ dfs = [V \in Values |-> -1]
  /\ root = [V \in Values |-> V]
  /\ inComponent = {}
  /\ components = [V \in Values |-> {}]
  /\ worklist = <<>>
  /\ pilha = <<>>
  /\ calls = <<>>

(* The constructor calls visit for a value not visited yet.                *)
Begin(V) ==
  /\ calls = <<>>
  /\ dfs[V] < 0
  /\ Enter(V, calls)
  /\ pilha' = <<>>
  /\ UNCHANGED <<useMap, inComponent, components, worklist>>

Take(name) == [Top EXCEPT !.uses = @ \ {name}, !.cur = {name}]

Descend(name) ==
  /\ calls # <<>> /\ ~Seeing
  /\ name \in Top.uses
  /\ dfs[name] < 0
  /\ Enter(name, Append(Front(calls), Take(name)))
  /\ UNCHANGED <<useMap, inComponent, components, worklist, pilha>>

Look(name) ==
  /\ calls # <<>> /\ ~Seeing
  /\ name \in Top.uses
  /\ dfs[name] >= 0
  /\ calls' = Append(Front(calls), Take(name))
  /\ UNCHANGED <<useMap, index, dfs, root, inComponent, components, worklist, pilha>>

(* Fault: the root of a value whose component is closed counts too.        *)
Lower_always ==
  LET V == Top.value IN
  /\ calls # <<>> /\ Seeing
  /\ root' = IF dfs[root[V]] >= dfs[root[Use]] THEN [root EXCEPT ![V] = root[Use]] ELSE root
  /\ calls' = Append(Front(calls), [Top EXCEPT !.cur = {}])
  /\ UNCHANGED <<useMap, index, dfs, inComponent, components, worklist, pilha>>

(* After the use was visited: the root of V goes down to that of the use.  *)
Lower ==
  LET V == Top.value IN
  /\ calls # <<>> /\ Seeing
  /\ root' = IF Use \notin inComponent /\ dfs[root[V]] >= dfs[root[Use]]
               THEN [root EXCEPT ![V] = root[Use]] ELSE root
  /\ calls' = Append(Front(calls), [Top EXCEPT !.cur = {}])
  /\ UNCHANGED <<useMap, index, dfs, inComponent, components, worklist, pilha>>

(* What stays on the stack: all up to the last value visited before V.     *)
Kept(V) ==
  LET before == {i \in DOMAIN pilha : dfs[pilha[i]] <= dfs[V]}
  IN SubSeq(pilha, 1, IF before = {} THEN 0 ELSE CHOOSE i \in before : \A j \in before : i >= j)

Seen == calls # <<>> /\ ~Seeing /\ Top.uses = {}

(* Fault: only the root is marked as being in a component.                 *)
CloseComponent_root_only ==
  LET V == Top.value
      SCC == {V} \cup ToSet(SubSeq(pilha, Len(Kept(V)) + 1, Len(pilha)))
  IN
  /\ Seen
  /\ root[V] = V
  /\ worklist' = Append(worklist, V)
  /\ inComponent' = inComponent \cup {V}
  /\ components' = [components EXCEPT ![V] = SCC]
  /\ pilha' = Kept(V)
  /\ calls' = Front(calls)
  /\ UNCHANGED <<useMap, index, dfs, root>>

CloseComponent ==
  LET V == Top.value
      SCC == {V} \cup ToSet(SubSeq(pilha, Len(Kept(V)) + 1, Len(pilha)))
  IN
  /\ Seen
  /\ root[V] = V
  /\ worklist' = Append(worklist, V)
  /\ inComponent' = inComponent \cup SCC
  /\ components' = [components EXCEPT ![V] = SCC]
  /\ pilha' = Kept(V)
  /\ calls' = Front(calls)
  /\ UNCHANGED <<useMap, index, dfs, root>>

(* Fault: a value that is not a root does not wait on the stack.           *)
Wait_forgets ==
  /\ Seen
  /\ root[Top.value] # Top.value
  /\ calls' = Front(calls)
  /\ UNCHANGED <<useMap, index, dfs, root, inComponent, components, worklist, pilha>>

Wait ==
  /\ Seen
  /\ root[Top.value] # Top.value
  /\ pilha' = Append(pilha, Top.value)
  /\ calls' = Front(calls)
  /\ UNCHANGED <<useMap, index, dfs, root, inComponent, components, worklist>>

Next ==
  \/ \E V \in Values : Begin(V) \/ Descend(V) \/ Look(V)
  \/ Lower
  \/ CloseComponent
  \/ Wait

Spec == Init /\ [][Next]_vars /\ WF_vars(Next)

-----------------------------------------------------------------------------
(* The bookkeeping has the shape the code's types give it, and what waits  *)
(* on the stack is visited and in no component.                            *)
TypeOK ==
  /\ dfs \in [Values -> -1 .. index - 1] /\ index <= Cardinality(Values)
  /\ root \in [Values -> Values]
  /\ inComponent = UNION {components[V] : V \in Values}
  /\ \A i \in DOMAIN pilha : dfs[pilha[i]] >= 0 /\ pilha[i] \notin inComponent

(* The list that findIntervals reads: the components, each once and whole, *)
(* in the topological order that checkTopologicalSort asserts.             *)
Order == INSTANCE SccOrder WITH order <- [i \in DOMAIN worklist |-> components[worklist[i]]]
ComponentsInOrder == Order!Spec

(* The search ends with all values in a component.                         *)
AllListed == Order!AllListed
=============================================================================
