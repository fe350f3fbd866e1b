---------------------------- MODULE NuutilaProofs ---------------------------
(***************************************************************************)
(* Proofs about Nuutila: for every finite graph and every order in which   *)
(* uses and values are walked, the search lists the strongly connected     *)
(* components, each once and whole, every one after those it has edges to. *)
(***************************************************************************)
EXTENDS Nuutila, FiniteSetTheorems, SequenceTheorems, WellFoundedInduction, TLAPS

-----------------------------------------------------------------------------
(***************************************************************************)
(* Numbers.                                                                *)
(***************************************************************************)
LEMMA LeastOfNats ==
  ASSUME NEW S, S \subseteq Nat, S # {}
  PROVE  \E m \in S : \A y \in S : m <= y
<1>1. PICK m \in S : \A y \in S : ~ (<<y, m>> \in OpToRel(<, Nat))
  BY NatLessThanWellFounded, WFMin
<1>2. \A y \in S : m <= y
  <2> TAKE y \in S
  <2>1. ~ (y < m)
    BY <1>1 DEF OpToRel
  <2> QED BY <2>1
<1> QED BY <1>2

(* What holds of 0, and of each number's successor, holds of all of them:  *)
(* the set of those that fail is empty.                                    *)
LEMMA NoneFails ==
  ASSUME NEW n \in Nat, NEW Fails, Fails \subseteq 0 .. n, 0 \notin Fails,
         \A k \in 0 .. n - 1 : k \notin Fails => k + 1 \notin Fails
  PROVE  Fails = {}
<1> SUFFICES ASSUME Fails # {} PROVE FALSE
  OBVIOUS
<1>1. Fails \subseteq Nat
  OBVIOUS
<1>2. PICK m \in Fails : \A y \in Fails : m <= y
  BY <1>1, LeastOfNats
<1>3. m - 1 \in 0 .. n - 1 /\ m - 1 \notin Fails
  BY <1>2
<1>4. (m - 1) + 1 \notin Fails
  BY <1>3
<1> QED BY <1>2, <1>4

-----------------------------------------------------------------------------
(***************************************************************************)
(* Reach: what SccOrder collects in as many steps as there are values is   *)
(* all that can be reached.                                                *)
(***************************************************************************)
Step(g, S) == S \cup UNION {g[u] : u \in S}
Within(g, v, n, f) == f = [i \in 0 .. n |-> IF i = 0 THEN {v} ELSE Step(g, f[i - 1])]

LEMMA WithinExists ==
  ASSUME NEW g, NEW v, NEW n \in Nat
  PROVE  \E f : Within(g, v, n, f)
<1> DEFINE Fails == {k \in 0 .. n : ~ \E f : Within(g, v, k, f)}
<1>1. 0 \notin Fails
  <2> DEFINE f == [i \in 0 .. 0 |-> {v}]
  <2>1. f = [i \in 0 .. 0 |-> IF i = 0 THEN {v} ELSE Step(g, f[i - 1])]
    OBVIOUS
  <2> QED BY <2>1 DEF Within
<1>2. ASSUME NEW k \in 0 .. n - 1, k \notin Fails PROVE k + 1 \notin Fails
  <2>1. PICK f : Within(g, v, k, f)
    BY <1>2
  <2> DEFINE h == [i \in 0 .. k + 1 |-> IF i = 0 THEN {v} ELSE Step(g, f[i - 1])]
             e == [i \in 0 .. k |-> IF i = 0 THEN {v} ELSE Step(g, f[i - 1])]
  <2>2. f = e
    BY <2>1 DEF Within
  <2>3. \A i \in 0 .. k : h[i] = f[i]
    <3>1. \A i \in 0 .. k : h[i] = e[i]
      OBVIOUS
    <3> HIDE DEF e
    <3> QED BY <2>2, <3>1
  <2>4. \A i \in 0 .. k + 1 : i # 0 => i - 1 \in 0 .. k
    OBVIOUS
  <2>5. \A i \in 0 .. k + 1 : i # 0 => f[i - 1] = h[i - 1]
    BY <2>3, <2>4
  <2>6. h = [i \in 0 .. k + 1 |-> IF i = 0 THEN {v} ELSE Step(g, h[i - 1])]
    BY <2>5
  <2> QED BY <2>6 DEF Within
<1>3. Fails = {}
  <2>1. Fails \subseteq 0 .. n
    OBVIOUS
  <2> HIDE DEF Fails
  <2> QED BY <1>1, <1>2, <2>1, NoneFails
<1> QED BY <1>3

LEMMA SameCardinality == \A S : Order!Cardinality(S) = Cardinality(S)
BY DEF Order!Cardinality, Cardinality, Order!IsFiniteSet, IsFiniteSet

LEMMA ReachSteps ==
  ASSUME NEW g, NEW v, Cardinality(DOMAIN g) \in Nat
  PROVE  \E f : /\ f[0] = {v}
                /\ \A i \in 1 .. Cardinality(DOMAIN g) : f[i] = Step(g, f[i - 1])
                /\ Order!Reach(g, v) = f[Cardinality(DOMAIN g)]
<1> DEFINE n == Order!Cardinality(DOMAIN g)
           f == CHOOSE h : h = [i \in 0 .. n |->
                  IF i = 0 THEN {v} ELSE h[i - 1] \cup UNION {g[u] : u \in h[i - 1]}]
           e == [i \in 0 .. n |-> IF i = 0 THEN {v} ELSE f[i - 1] \cup UNION {g[u] : u \in f[i - 1]}]
<1>1. n = Cardinality(DOMAIN g) /\ n \in Nat
  BY SameCardinality
<1>2. Order!Reach(g, v) = f[n]
  BY DEF Order!Reach
<1> HIDE DEF n
<1>3. f = e
  <2>1. \E h : h = [i \in 0 .. n |->
                 IF i = 0 THEN {v} ELSE h[i - 1] \cup UNION {g[u] : u \in h[i - 1]}]
    <3>1. PICK w : Within(g, v, n, w)
      BY <1>1, WithinExists
    <3> QED BY <3>1 DEF Within, Step
  <2> QED BY <2>1
<1> HIDE DEF f
<1>4. \A i \in 0 .. n : e[i] = IF i = 0 THEN {v} ELSE f[i - 1] \cup UNION {g[u] : u \in f[i - 1]}
  OBVIOUS
<1> HIDE DEF e
<1>5. f[0] = {v} /\ \A i \in 1 .. n : f[i] = Step(g, f[i - 1])
  <2>1. 0 \in 0 .. n /\ \A i \in 1 .. n : i \in 0 .. n /\ i # 0
    BY <1>1
  <2> QED BY <1>3, <1>4, <2>1 DEF Step
<1> QED BY <1>1, <1>2, <1>5

IsGraph(g) == IsFiniteSet(DOMAIN g) /\ \A u \in DOMAIN g : g[u] \subseteq DOMAIN g
Whole(g, A) == \A u \in A : g[u] \subseteq A

LEMMA ReachIs ==
  ASSUME NEW g, IsGraph(g), NEW v \in DOMAIN g
  PROVE  LET R == Order!Reach(g, v)
         IN  /\ v \in R /\ R \subseteq DOMAIN g /\ Whole(g, R)
             /\ \A A : v \in A /\ Whole(g, A) => R \subseteq A
<1> DEFINE n == Cardinality(DOMAIN g)
<1>1. n \in Nat
  BY FS_CardinalityType DEF IsGraph
<1>2. PICK f : /\ f[0] = {v} /\ \A i \in 1 .. n : f[i] = Step(g, f[i - 1])
               /\ Order!Reach(g, v) = f[n]
  BY <1>1, ReachSteps
<1>3. \A k \in 0 .. n - 1 : f[k + 1] = Step(g, f[k])
  <2> TAKE k \in 0 .. n - 1
  <2> DEFINE i == k + 1
  <2>1. i \in 1 .. n /\ i - 1 = k
    BY <1>1
  <2> HIDE DEF i, n
  <2>2. f[i] = Step(g, f[k])
    BY <1>2, <2>1
  <2> QED BY <2>2 DEF i
<1> HIDE DEF n
<1>4. \A i \in 0 .. n : v \in f[i] /\ f[i] \subseteq DOMAIN g
  <2> DEFINE Fails == {i \in 0 .. n : ~ (v \in f[i] /\ f[i] \subseteq DOMAIN g)}
  <2>1. 0 \notin Fails
    BY <1>2
  <2>2. ASSUME NEW k \in 0 .. n - 1, k \notin Fails PROVE k + 1 \notin Fails
    <3>1. v \in f[k] /\ f[k] \subseteq DOMAIN g
      BY <1>1, <2>2
    <3>2. v \in f[k + 1] /\ f[k + 1] \subseteq DOMAIN g
      BY <1>3, <3>1 DEF Step, IsGraph
    <3> QED BY <3>2
  <2>3. Fails \subseteq 0 .. n
    OBVIOUS
  <2> HIDE DEF Fails
  <2>4. Fails = {}
    BY <1>1, <2>1, <2>2, <2>3, NoneFails
  <2> QED BY <2>4 DEF Fails
<1>5. ASSUME NEW A, v \in A, Whole(g, A) PROVE \A i \in 0 .. n : f[i] \subseteq A
  <2> DEFINE Fails == {i \in 0 .. n : ~ (f[i] \subseteq A)}
  <2>1. 0 \notin Fails
    BY <1>2, <1>5
  <2>2. ASSUME NEW k \in 0 .. n - 1, k \notin Fails PROVE k + 1 \notin Fails
    <3>1. f[k] \subseteq A
      BY <1>1, <2>2
    <3>2. f[k + 1] \subseteq A
      BY <1>3, <1>5, <3>1 DEF Step, Whole
    <3> QED BY <3>2
  <2>3. Fails \subseteq 0 .. n
    OBVIOUS
  <2> HIDE DEF Fails
  <2>4. Fails = {}
    BY <1>1, <2>1, <2>2, <2>3, NoneFails
  <2> QED BY <2>4 DEF Fails
<1>6. \A i \in 0 .. n : IsFiniteSet(f[i]) /\ Cardinality(f[i]) \in Nat /\ Cardinality(f[i]) <= n
  BY <1>4, FS_Subset, FS_CardinalityType DEF IsGraph, n
<1>7. \A i \in 0 .. n : Whole(g, f[i]) \/ Cardinality(f[i]) > i
  <2> DEFINE Fails == {i \in 0 .. n : ~ (Whole(g, f[i]) \/ Cardinality(f[i]) > i)}
  <2>1. 0 \notin Fails
    <3>1. Cardinality({v}) = 1
      BY FS_Singleton
    <3> QED BY <1>2, <3>1
  <2>2. ASSUME NEW k \in 0 .. n - 1, k \notin Fails PROVE k + 1 \notin Fails
    <3>1. k \in 0 .. n /\ k + 1 \in 0 .. n /\ k \in Nat
      BY <1>1
    <3>2. f[k + 1] = Step(g, f[k])
      BY <1>3
    <3>3. CASE Whole(g, f[k])
      <4>1. f[k + 1] = f[k]
        BY <3>2, <3>3 DEF Step, Whole
      <4> QED BY <3>3, <4>1
    <3>4. CASE ~Whole(g, f[k])
      <4>0. PICK u \in f[k] : \E x \in g[u] : x \notin f[k]
        BY <3>4 DEF Whole
      <4>1. PICK x \in g[u] : x \notin f[k]
        BY <4>0
      <4>2. f[k] \cup {x} \subseteq f[k + 1]
        BY <3>2 DEF Step
      <4>3. Cardinality(f[k] \cup {x}) = Cardinality(f[k]) + 1
        <5>1. IsFiniteSet(f[k])
          BY <1>6, <3>1
        <5> QED BY <4>1, <5>1, FS_AddElement
      <4>4. Cardinality(f[k] \cup {x}) <= Cardinality(f[k + 1])
        BY <1>6, <3>1, <4>2, FS_Subset
      <4>5. Cardinality(f[k]) > k
        BY <2>2, <3>1, <3>4
      <4>6. Cardinality(f[k + 1]) > k + 1
        BY <1>6, <3>1, <4>3, <4>4, <4>5
      <4> QED BY <4>6
    <3> QED BY <3>3, <3>4
  <2>3. Fails \subseteq 0 .. n
    OBVIOUS
  <2> HIDE DEF Fails
  <2>4. Fails = {}
    BY <1>1, <2>1, <2>2, <2>3, NoneFails
  <2> QED BY <2>4 DEF Fails
<1>8. n \in 0 .. n
  BY <1>1
<1>9. Whole(g, f[n])
  <2>1. ~ (Cardinality(f[n]) > n)
    BY <1>1, <1>6, <1>8
  <2> QED BY <1>7, <1>8, <2>1
<1> QED BY <1>2, <1>4, <1>5, <1>8, <1>9

(* Reaching is transitive.                                                 *)
LEMMA ReachOn ==
  ASSUME NEW g, IsGraph(g), NEW v \in DOMAIN g, NEW u \in Order!Reach(g, v)
  PROVE  /\ u \in DOMAIN g /\ g[u] \subseteq Order!Reach(g, v)
         /\ Order!Reach(g, u) \subseteq Order!Reach(g, v)
<1> DEFINE R == Order!Reach(g, v)
<1>1. R \subseteq DOMAIN g /\ Whole(g, R)
  BY ReachIs
<1>2. u \in R /\ u \in DOMAIN g
  BY <1>1
<1> HIDE DEF R
<1>3. Order!Reach(g, u) \subseteq R
  BY <1>1, <1>2, ReachIs
<1>4. g[u] \subseteq R
  BY <1>1, <1>2 DEF Whole
<1> QED BY <1>2, <1>3, <1>4 DEF R

-----------------------------------------------------------------------------
(***************************************************************************)
(* The invariant of the search.                                            *)
(***************************************************************************)
Reaches(v) == Order!Reach(useMap, v)
Visited == {v \in Values : dfs[v] >= 0}
Open == Visited \ inComponent
Calls == 1 .. Len(calls)
val(k) == calls[k].value
Path == {val(k) : k \in Calls}
Waiting == {pilha[i] : i \in 1 .. Len(pilha)}

SearchType ==
  /\ useMap \in Graphs
  /\ index \in Nat
  /\ dfs \in [Values -> -1 .. index - 1]
  /\ root \in [Values -> Values]
  /\ components \in [Values -> SUBSET Values]
  /\ inComponent \subseteq Values
  /\ worklist \in Seq(Values)
  /\ pilha \in Seq(Values)
  /\ calls \in Seq([value : Values, uses : SUBSET Values, cur : SUBSET Values])

(* Values are numbered in the order of their visits.                       *)
Numbered ==
  /\ \A v, w \in Visited : dfs[v] = dfs[w] => v = w
  /\ index = Cardinality(Visited)

(* A visited value is in a component, in a call, or waits on the stack.    *)
Split == inComponent \subseteq Visited /\ Open = Path \cup Waiting /\ Path \cap Waiting = {}

(* A call sees the value that the call above it visits.                    *)
Nested ==
  /\ \A k, l \in Calls : k < l => dfs[val(k)] < dfs[val(l)]
  /\ \A k \in Calls :
       /\ calls[k].uses \subseteq useMap[val(k)]
       /\ calls[k].cur = {} \/ \E u \in useMap[val(k)] : calls[k].cur = {u} /\ u \in Visited
       /\ k < Len(calls) => calls[k].cur = {val(k + 1)}

(* Nothing open was visited before the first call's value.                 *)
Rooted == \A w \in Open : calls # <<>> /\ dfs[val(1)] <= dfs[w]

(* The values on the stack visited after a call's value are on its top.    *)
Stacked ==
  \A p \in Path, i, j \in 1 .. Len(pilha) :
    i < j /\ dfs[pilha[i]] > dfs[p] => dfs[pilha[j]] > dfs[p]

(* A call's value reaches all that is open and was visited after it.       *)
Below == \A p \in Path, w \in Open : dfs[w] >= dfs[p] => w \in Reaches(p)

(* A root is open, not later than its value, and can be reached from it;   *)
(* a value that waits is not its own root.                                 *)
Roots ==
  /\ \A w \in Open : root[w] \in Open /\ dfs[root[w]] <= dfs[w] /\ root[w] \in Reaches(w)
  /\ \A w \in Waiting : root[w] # w

(* An edge that was seen leads into a component or to a value visited not  *)
(* before the root.                                                        *)
SeenEdge(w, u) == u \in inComponent \/ (u \in Visited /\ dfs[root[w]] <= dfs[u])
Edges ==
  /\ \A k \in Calls : \A u \in useMap[val(k)] :
       u \in calls[k].uses \cup calls[k].cur \/ SeenEdge(val(k), u)
  /\ \A w \in Waiting : \A u \in useMap[w] : SeenEdge(w, u)
  /\ \A w \in inComponent : useMap[w] \subseteq inComponent

(* The root of a value that waits was passed on to the call below it, or   *)
(* is about to be.                                                         *)
Passed ==
  \A k \in Calls, w \in Waiting :
    dfs[val(k)] < dfs[w] /\ (k < Len(calls) => dfs[w] < dfs[val(k + 1)]) =>
      \/ dfs[root[val(k)]] <= dfs[root[w]]
      \/ k = Len(calls) /\ \E c \in calls[k].cur :
           c \notin inComponent /\ dfs[c] <= dfs[w] /\ dfs[root[c]] <= dfs[root[w]]

(* The components are those of the list.                                   *)
Closed ==
  /\ inComponent = UNION {components[v] : v \in Values}
  /\ \A i \in 1 .. Len(worklist) : worklist[i] \in inComponent
  /\ inComponent = UNION {components[worklist[i]] : i \in 1 .. Len(worklist)}

SearchInv ==
  /\ SearchType /\ Numbered /\ Split /\ Nested /\ Rooted /\ Stacked
  /\ Below /\ Roots /\ Edges /\ Passed /\ Closed

-----------------------------------------------------------------------------
(* What the invariant says of the state, in the form the steps need.       *)
LEMMA GraphOf == ASSUME SearchType PROVE IsGraph(useMap)
BY GraphAssumption DEF SearchType, IsGraph

LEMMA VisitedType ==
  ASSUME SearchType
  PROVE  /\ Visited \subseteq Values /\ IsFiniteSet(Visited)
         /\ \A v \in Visited : dfs[v] \in 0 .. index - 1
         /\ \A v \in Values : dfs[v] \in Int /\ dfs[v] < index
         /\ \A v \in Values : useMap[v] \subseteq Values
<1>1. IsFiniteSet(Values) /\ \A v \in Values : useMap[v] \subseteq Values
  BY GraphOf DEF IsGraph, Values
<1>2. Visited \subseteq Values
  BY DEF Visited
<1>3. \A v \in Values : dfs[v] \in -1 .. index - 1
  BY DEF SearchType
<1>4. index \in Nat
  BY DEF SearchType
<1> QED BY <1>1, <1>2, <1>3, <1>4, FS_Subset DEF Visited

LEMMA CallsType ==
  ASSUME SearchType
  PROVE  /\ Len(calls) \in Nat
         /\ \A k \in Calls : /\ val(k) \in Values
                             /\ calls[k].uses \subseteq Values /\ calls[k].cur \subseteq Values
                             /\ calls[k] = [value |-> val(k), uses |-> calls[k].uses,
                                            cur |-> calls[k].cur]
<1> DEFINE T == [value : Values, uses : SUBSET Values, cur : SUBSET Values]
<1>1. calls \in Seq(T)
  BY DEF SearchType
<1>2. Len(calls) \in Nat /\ \A k \in Calls : calls[k] \in T
  <2> HIDE DEF T
  <2> QED BY <1>1 DEF Calls
<1> QED BY <1>2 DEF val

LEMMA OpenType ==
  ASSUME SearchType, Split
  PROVE  /\ Path \subseteq Open /\ Waiting \subseteq Open /\ Open \subseteq Visited
         /\ \A k \in Calls : val(k) \in Path
         /\ \A i \in 1 .. Len(pilha) : pilha[i] \in Waiting
BY DEF Split, Open, Path, Waiting

(* The call on the top.                                                    *)
LEMMA TopCall ==
  ASSUME SearchType, calls # <<>>
  PROVE  /\ Len(calls) \in Calls /\ Len(calls) \in Nat \ {0}
         /\ Top = calls[Len(calls)] /\ Top.value = val(Len(calls))
         /\ val(Len(calls)) \in Path
<1>1. Len(calls) \in Nat \ {0} /\ Len(calls) \in 1 .. Len(calls)
  BY DEF SearchType
<1> QED BY <1>1 DEF Top, Last, val, Calls, Path

(* The stack of calls when its top is left, or replaced.                   *)
LEMMA FrontCalls ==
  ASSUME NEW T, NEW s \in Seq(T), s # <<>>
  PROVE  /\ Front(s) \in Seq(T) /\ Len(Front(s)) = Len(s) - 1
         /\ \A k \in 1 .. Len(s) - 1 : Front(s)[k] = s[k]
<1>1. 1 \in 1 .. Len(s) + 1 /\ Len(s) - 1 \in 0 .. Len(s)
  OBVIOUS
<1> DEFINE m == Len(s) - 1
           f == SubSeq(s, 1, m)
<1>2. m \in Nat
  BY <1>1
<1>3. /\ f \in Seq(T) /\ Len(f) = (IF 1 <= m THEN m - 1 + 1 ELSE 0)
      /\ \A k \in 1 .. m - 1 + 1 : f[k] = s[1 + k - 1]
  BY <1>1, SubSeqProperties
<1> HIDE DEF f, m
<1>4. m - 1 + 1 = m /\ (~ (1 <= m) => m = 0) /\ \A k \in 1 .. m : 1 + k - 1 = k
  BY <1>2
<1>5. Len(f) = m /\ \A k \in 1 .. m : f[k] = s[k]
  BY <1>3, <1>4
<1> QED BY <1>3, <1>5 DEF f, m, Front

LEMMA AppendTo ==
  ASSUME NEW T, NEW s \in Seq(T), NEW e \in T
  PROVE  /\ Append(s, e) \in Seq(T) /\ Len(Append(s, e)) = Len(s) + 1
         /\ \A k \in 1 .. Len(s) : Append(s, e)[k] = s[k]
         /\ Append(s, e)[Len(s) + 1] = e
OBVIOUS

LEMMA NewTop ==
  ASSUME NEW T, NEW s \in Seq(T), s # <<>>, NEW e \in T
  PROVE  LET t == Append(Front(s), e)
         IN  /\ t \in Seq(T) /\ Len(t) = Len(s)
             /\ \A k \in 1 .. Len(s) : t[k] = IF k = Len(s) THEN e ELSE s[k]
<1> DEFINE f == Front(s)
<1>1. f \in Seq(T) /\ Len(f) = Len(s) - 1 /\ \A k \in 1 .. Len(s) - 1 : f[k] = s[k]
  BY FrontCalls
<1> HIDE DEF f
<1>2. Len(s) \in Nat
  OBVIOUS
<1> DEFINE t == Append(f, e)
<1>3. /\ t \in Seq(T) /\ Len(t) = Len(f) + 1
      /\ \A k \in 1 .. Len(f) : t[k] = f[k]
      /\ t[Len(f) + 1] = e
  BY <1>1, AppendTo
<1> HIDE DEF t
<1>4. Len(t) = Len(s) /\ \A k \in 1 .. Len(s) : t[k] = IF k = Len(s) THEN e ELSE s[k]
  BY <1>1, <1>2, <1>3
<1> QED BY <1>3, <1>4 DEF t, f

(* The stack when the top call takes a use.                                *)
CallSet == [value : Values, uses : SUBSET Values, cur : SUBSET Values]

LEMMA TakenCalls ==
  ASSUME SearchInv, calls # <<>>, ~Seeing, NEW name, name \in Top.uses
  PROVE  LET t == Append(Front(calls), Take(name))
         IN  /\ t \in Seq(CallSet) /\ Len(t) = Len(calls)
             /\ name \in useMap[val(Len(calls))]
             /\ calls[Len(calls)].cur = {}
             /\ \A k \in Calls :
                  /\ t[k].value = val(k) /\ t[k].uses \subseteq calls[k].uses
                  /\ t[k].cur = IF k = Len(calls) THEN {name} ELSE calls[k].cur
                  /\ t[k].uses \cup t[k].cur = calls[k].uses \cup calls[k].cur
<1> DEFINE n == Len(calls)
           e == [value |-> val(n), uses |-> calls[n].uses \ {name}, cur |-> {name}]
           t == Append(Front(calls), Take(name))
<1>1. SearchType /\ Nested
  BY DEF SearchInv
<1>2. n \in Calls /\ n \in Nat \ {0} /\ Top = calls[n]
  BY <1>1, TopCall
<1>3. /\ \A k \in Calls : val(k) \in Values /\ calls[k].uses \subseteq Values
      /\ calls[n] = [value |-> val(n), uses |-> calls[n].uses, cur |-> calls[n].cur]
  BY <1>1, <1>2, CallsType
<1>4. calls[n].cur = {} /\ name \in calls[n].uses /\ name \in useMap[val(n)]
  BY <1>1, <1>2 DEF Seeing, Nested
<1>5. Take(name) = e
  <2> DEFINE r == [value |-> val(n), uses |-> calls[n].uses, cur |-> calls[n].cur]
  <2>1. Top = r
    BY <1>2, <1>3
  <2>2. Take(name) = [r EXCEPT !.uses = @ \ {name}, !.cur = {name}]
    BY <2>1 DEF Take
  <2> HIDE DEF n
  <2> QED BY <2>2
<1>6. e \in CallSet /\ calls \in Seq(CallSet)
  BY <1>1, <1>2, <1>3, <1>4 DEF CallSet, SearchType
<1>7. t \in Seq(CallSet) /\ Len(t) = n /\ \A k \in 1 .. n : t[k] = IF k = n THEN e ELSE calls[k]
  <2> HIDE DEF e, n
  <2> QED BY <1>5, <1>6, NewTop DEF n
<1> HIDE DEF t
<1>8. ASSUME NEW k \in Calls
      PROVE  /\ t[k].value = val(k) /\ t[k].uses \subseteq calls[k].uses
             /\ t[k].cur = IF k = n THEN {name} ELSE calls[k].cur
             /\ t[k].uses \cup t[k].cur = calls[k].uses \cup calls[k].cur
  <2>1. t[k] = IF k = n THEN e ELSE calls[k]
    BY <1>7 DEF Calls
  <2>2. CASE k = n
    BY <1>4, <2>1, <2>2
  <2>3. CASE k # n
    BY <2>1, <2>3 DEF val
  <2> QED BY <2>2, <2>3
<1> QED BY <1>4, <1>7, <1>8 DEF t

-----------------------------------------------------------------------------
(***************************************************************************)
(* A use that was visited is looked at.                                    *)
(***************************************************************************)
LEMMA LookKeeps ==
  ASSUME SearchInv, NEW name \in Values, Look(name)
  PROVE  SearchInv'
<1> DEFINE n == Len(calls)
<1>1. calls # <<>> /\ ~Seeing /\ name \in Top.uses /\ dfs[name] >= 0
  BY DEF Look
<1>2. /\ calls' \in Seq(CallSet) /\ Len(calls') = n
      /\ name \in useMap[val(n)] /\ calls[n].cur = {}
      /\ \A k \in Calls : /\ calls'[k].value = val(k) /\ calls'[k].uses \subseteq calls[k].uses
                          /\ calls'[k].cur = IF k = n THEN {name} ELSE calls[k].cur
                          /\ calls'[k].uses \cup calls'[k].cur = calls[k].uses \cup calls[k].cur
  <2> DEFINE t == Append(Front(calls), Take(name))
  <2>1. calls' = t
    BY DEF Look
  <2>2. /\ t \in Seq(CallSet) /\ Len(t) = Len(calls)
        /\ name \in useMap[val(Len(calls))] /\ calls[Len(calls)].cur = {}
        /\ \A k \in Calls :
             /\ t[k].value = val(k) /\ t[k].uses \subseteq calls[k].uses
             /\ t[k].cur = IF k = Len(calls) THEN {name} ELSE calls[k].cur
             /\ t[k].uses \cup t[k].cur = calls[k].uses \cup calls[k].cur
    BY <1>1, TakenCalls
  <2> HIDE DEF t
  <2> QED BY <2>1, <2>2
<1>3. /\ useMap' = useMap /\ index' = index /\ dfs' = dfs /\ root' = root
      /\ inComponent' = inComponent /\ components' = components
      /\ worklist' = worklist /\ pilha' = pilha
  BY DEF Look
<1>4. SearchType /\ Numbered /\ Split /\ Nested /\ Rooted /\ Stacked /\ Below /\ Roots /\ Edges
      /\ Passed /\ Closed
  BY DEF SearchInv
<1>5. n \in Nat \ {0} /\ n \in Calls
  BY <1>1, <1>4, TopCall
<1> HIDE DEF n
<1>6. Values' = Values /\ Visited' = Visited /\ Open' = Open /\ Waiting' = Waiting
  BY <1>3 DEF Values, Visited, Open, Waiting
<1>7. Calls' = Calls /\ \A k \in Calls : val(k)' = val(k)
  BY <1>2 DEF Calls, val, n
<1>8. Path' = Path
  BY <1>7 DEF Path
<1>9. \A v : Reaches(v)' = Reaches(v)
  BY <1>3 DEF Reaches
<1>10. \A w, u : SeenEdge(w, u)' <=> SeenEdge(w, u)
  BY <1>3, <1>6 DEF SeenEdge
<1>11. SearchType'
  BY <1>2, <1>3, <1>4, <1>6 DEF SearchType, CallSet
<1>12. Numbered' /\ Split' /\ Below' /\ Roots' /\ Stacked' /\ Closed'
  BY <1>3, <1>4, <1>6, <1>8, <1>9 DEF Numbered, Split, Below, Roots, Stacked, Closed
<1>13. Nested'
  <2>1. name \in Visited
    BY <1>1 DEF Visited
  <2>2. ASSUME NEW k \in Calls
        PROVE  /\ calls'[k].uses \subseteq useMap[val(k)]
               /\ calls'[k].cur = {} \/ \E u \in useMap[val(k)] : calls'[k].cur = {u} /\ u \in Visited
               /\ k < n => calls'[k].cur = {val(k + 1)}
    BY <1>2, <1>4, <1>5, <2>1 DEF Nested, n, Calls
  <2>3. \A k \in Calls : k < n => val(k + 1)' = val(k + 1)
    <3>1. \A k \in Calls : k < n => k + 1 \in Calls
      BY <1>5 DEF Calls, n
    <3> QED BY <1>7, <3>1
  <2>4. Len(calls') = n
    BY <1>2
  <2> QED BY <1>3, <1>4, <1>6, <1>7, <2>2, <2>3, <2>4 DEF Nested
<1>14. Rooted'
  <2>1. 1 \in Calls /\ calls' # <<>>
    BY <1>2, <1>5 DEF Calls
  <2> QED BY <1>3, <1>4, <1>6, <1>7, <2>1 DEF Rooted
<1>15. Edges'
  BY <1>2, <1>3, <1>4, <1>6, <1>7, <1>10 DEF Edges
<1>16. Passed'
  <2>1. \A k \in Calls, w \in Waiting :
          dfs[val(k)] < dfs[w] /\ (k < n => dfs[w] < dfs[val(k + 1)]) =>
            dfs[root[val(k)]] <= dfs[root[w]]
    BY <1>2, <1>4, <1>5 DEF Passed, n
  <2>2. \A k \in Calls : k < n => k + 1 \in Calls
    BY <1>5 DEF Calls, n
  <2>3. Len(calls') = n
    BY <1>2
  <2> QED BY <1>3, <1>6, <1>7, <2>1, <2>2, <2>3 DEF Passed
<1> QED BY <1>11, <1>12, <1>13, <1>14, <1>15, <1>16 DEF SearchInv

(***************************************************************************)
(* After a use was seen the root goes down.                                *)
(***************************************************************************)
LEMMA LowerKeeps ==
  ASSUME SearchInv, Lower
  PROVE  SearchInv'
<1> DEFINE n == Len(calls)
           V == val(n)
           e == [value |-> V, uses |-> calls[n].uses, cur |-> {}]
<1>1. calls # <<>> /\ Seeing
  BY DEF Lower
<1>2. SearchType /\ Numbered /\ Split /\ Nested /\ Rooted /\ Stacked /\ Below /\ Roots /\ Edges
      /\ Passed /\ Closed
  BY DEF SearchInv
<1>3. n \in Nat \ {0} /\ n \in Calls /\ V \in Path /\ Top = calls[n] /\ Top.value = V
  BY <1>1, <1>2, TopCall
<1>4. /\ V \in Values /\ calls[n].uses \subseteq Values
      /\ calls[n] = [value |-> V, uses |-> calls[n].uses, cur |-> calls[n].cur]
  BY <1>2, <1>3, CallsType
<1> HIDE DEF n, V, e
<1>5. PICK c \in useMap[V] : calls[n].cur = {c} /\ c \in Visited
  BY <1>1, <1>2, <1>3 DEF Seeing, Nested, V
<1>6. Use = c
  BY <1>3, <1>5 DEF Use
<1>7. /\ Path \subseteq Open /\ Waiting \subseteq Open /\ Open \subseteq Visited
      /\ Visited \subseteq Values /\ \A k \in Calls : val(k) \in Path
      /\ \A v \in Values : dfs[v] \in Int
  BY <1>2, OpenType, VisitedType
<1>8. PICK r \in Values : /\ root' = [root EXCEPT ![V] = r]
                          /\ r \in Open /\ r \in Reaches(V)
                          /\ dfs[r] <= dfs[root[V]]
                          /\ c \notin inComponent => dfs[r] <= dfs[root[c]]
  <2>1. root' = IF c \notin inComponent /\ dfs[root[V]] >= dfs[root[c]]
                  THEN [root EXCEPT ![V] = root[c]] ELSE root
    BY <1>3, <1>6 DEF Lower
  <2>2. root \in [Values -> Values]
    BY <1>2 DEF SearchType
  <2>3. root[V] \in Open /\ root[V] \in Reaches(V) /\ root[V] \in Values
    BY <1>2, <1>3, <1>7 DEF Roots
  <2>4. CASE c \notin inComponent /\ dfs[root[V]] >= dfs[root[c]]
    <3>1. c \in Open /\ root[c] \in Open /\ root[c] \in Reaches(c)
      BY <1>2, <1>5, <2>4 DEF Roots, Open
    <3>2. root[c] \in Reaches(V)
      <4>1. IsGraph(useMap) /\ V \in DOMAIN useMap
        BY <1>2, <1>4, GraphOf DEF Values
      <4>2. c \in Order!Reach(useMap, V)
        BY <1>5, <4>1, ReachIs, ReachOn
      <4>3. Order!Reach(useMap, c) \subseteq Order!Reach(useMap, V)
        BY <4>1, <4>2, ReachOn
      <4> QED BY <3>1, <4>3 DEF Reaches
    <3>3. dfs[root[c]] \in Int /\ dfs[root[V]] \in Int /\ root[c] \in Values
      BY <1>7, <2>3, <3>1
    <3>4. dfs[root[c]] <= dfs[root[V]] /\ dfs[root[c]] <= dfs[root[c]]
      BY <2>4, <3>3
    <3>5. root' = [root EXCEPT ![V] = root[c]]
      BY <2>1, <2>4
    <3> QED BY <3>1, <3>2, <3>3, <3>4, <3>5
  <2>5. CASE ~ (c \notin inComponent /\ dfs[root[V]] >= dfs[root[c]])
    <3>1. root' = [root EXCEPT ![V] = root[V]]
      BY <2>1, <2>2, <2>5
    <3>2. c \notin inComponent => root[c] \in Values
      BY <1>2, <1>5, <1>7 DEF Roots, Open
    <3>3. c \notin inComponent => dfs[root[V]] <= dfs[root[c]]
      BY <1>7, <2>3, <2>5, <3>2
    <3>4. dfs[root[V]] <= dfs[root[V]]
      BY <1>7, <2>3
    <3> QED BY <2>3, <3>1, <3>3, <3>4
  <2> QED BY <2>4, <2>5
<1>9. /\ useMap' = useMap /\ index' = index /\ dfs' = dfs
      /\ inComponent' = inComponent /\ components' = components
      /\ worklist' = worklist /\ pilha' = pilha
  BY DEF Lower
<1>10. /\ calls' \in Seq(CallSet) /\ Len(calls') = n
       /\ \A k \in Calls : calls'[k] = IF k = n THEN e ELSE calls[k]
  <2>1. [Top EXCEPT !.cur = {}] = e
    <3> DEFINE q == [value |-> V, uses |-> calls[n].uses, cur |-> calls[n].cur]
    <3>1. Top = q
      BY <1>3, <1>4
    <3>2. [Top EXCEPT !.cur = {}] = [q EXCEPT !.cur = {}]
      BY <3>1
    <3> QED BY <3>2 DEF e
  <2>2. e \in CallSet /\ calls \in Seq(CallSet)
    BY <1>2, <1>4 DEF CallSet, SearchType, e
  <2> DEFINE t == Append(Front(calls), e)
  <2>3. calls' = t
    BY <2>1 DEF Lower
  <2>4. t \in Seq(CallSet) /\ Len(t) = Len(calls)
        /\ \A k \in 1 .. Len(calls) : t[k] = IF k = Len(calls) THEN e ELSE calls[k]
    BY <1>1, <2>2, NewTop
  <2> HIDE DEF t
  <2> QED BY <2>3, <2>4 DEF Calls, n
<1>11. \A k \in Calls : /\ calls'[k].value = val(k) /\ calls'[k].uses = calls[k].uses
                        /\ calls'[k].cur = IF k = n THEN {} ELSE calls[k].cur
  <2> TAKE k \in Calls
  <2>1. CASE k = n
    BY <1>10, <2>1 DEF val, V, e
  <2>2. CASE k # n
    BY <1>10, <2>2 DEF val
  <2> QED BY <2>1, <2>2
<1>12. Values' = Values /\ Visited' = Visited /\ Open' = Open /\ Waiting' = Waiting
  BY <1>9 DEF Values, Visited, Open, Waiting
<1>13. Calls' = Calls /\ \A k \in Calls : val(k)' = val(k)
  BY <1>10, <1>11 DEF Calls, val, n
<1>14. Path' = Path
  BY <1>13 DEF Path
<1>15. \A v : Reaches(v)' = Reaches(v)
  BY <1>9 DEF Reaches
<1>16. \A w \in Values : root'[w] = IF w = V THEN r ELSE root[w]
  BY <1>2, <1>8 DEF SearchType
<1>17. V \notin Waiting
  BY <1>2, <1>3 DEF Split
<1>18. SearchType'
  BY <1>2, <1>4, <1>8, <1>9, <1>10, <1>12 DEF SearchType, CallSet
<1>19. Numbered' /\ Split' /\ Below' /\ Stacked' /\ Closed'
  BY <1>2, <1>9, <1>12, <1>14, <1>15 DEF Numbered, Split, Below, Stacked, Closed
<1>20. Nested'
  <2>1. \A k \in Calls : k < n => k + 1 \in Calls
    BY <1>3 DEF Calls, n
  <2> QED BY <1>2, <1>9, <1>10, <1>11, <1>12, <1>13, <2>1 DEF Nested, n
<1>21. Rooted'
  <2>1. 1 \in Calls /\ calls' # <<>>
    BY <1>3, <1>10 DEF Calls, n
  <2> QED BY <1>2, <1>9, <1>12, <1>13, <2>1 DEF Rooted
<1>22. Roots'
  <2>1. ASSUME NEW w \in Open
        PROVE  root'[w] \in Open /\ dfs[root'[w]] <= dfs[w] /\ root'[w] \in Reaches(w)
    <3>1. /\ root[w] \in Open /\ dfs[root[w]] <= dfs[w] /\ root[w] \in Reaches(w)
          /\ w \in Values /\ root[w] \in Values
      BY <1>2, <1>7 DEF Roots
    <3>2. CASE w = V
      BY <1>7, <1>8, <1>16, <3>1, <3>2
    <3>3. CASE w # V
      BY <1>16, <3>1, <3>3
    <3> QED BY <3>2, <3>3
  <2>2. \A w \in Waiting : root'[w] # w
    BY <1>2, <1>7, <1>16, <1>17 DEF Roots
  <2> QED BY <1>9, <1>12, <1>15, <2>1, <2>2 DEF Roots
<1>23. Edges'
  <2> DEFINE Seen1(w, u) == u \in inComponent \/ (u \in Visited /\ dfs[root'[w]] <= dfs[u])
  <2>1. ASSUME NEW w \in Open, NEW u, SeenEdge(w, u) PROVE Seen1(w, u)
    <3>1. CASE u \in inComponent
      BY <1>9, <3>1 DEF SeenEdge
    <3>2. CASE u \notin inComponent
      <4>1. u \in Visited /\ dfs[root[w]] <= dfs[u]
        BY <2>1, <3>2 DEF SeenEdge
      <4>2. dfs[u] \in Int /\ dfs[root[w]] \in Int /\ dfs[r] \in Int /\ w \in Values
        <5>1. root[w] \in Values
          BY <1>2, <1>7 DEF Roots
        <5> QED BY <1>7, <4>1, <5>1
      <4>3. dfs[root'[w]] <= dfs[u]
        BY <1>8, <1>16, <4>1, <4>2
      <4> QED BY <1>9, <1>12, <4>1, <4>3 DEF SeenEdge
    <3> QED BY <3>1, <3>2
  <2>2. Seen1(V, c)
    <3>1. CASE c \in inComponent
      BY <1>9, <3>1 DEF SeenEdge
    <3>2. CASE c \notin inComponent
      <4>1. c \in Open /\ root[c] \in Open /\ dfs[root[c]] <= dfs[c]
        BY <1>2, <1>5, <3>2 DEF Open, Roots
      <4>2. dfs[r] <= dfs[c]
        BY <1>7, <1>8, <3>2, <4>1
      <4> QED BY <1>4, <1>5, <1>9, <1>12, <1>16, <4>2 DEF SeenEdge
    <3> QED BY <3>1, <3>2
  <2>3. ASSUME NEW k \in Calls, NEW u \in useMap[val(k)]
        PROVE  u \in calls'[k].uses \cup calls'[k].cur \/ Seen1(val(k), u)
    <3>1. val(k) \in Open
      BY <1>7
    <3>2. u \in calls[k].uses \cup calls[k].cur \/ SeenEdge(val(k), u)
      BY <1>2 DEF Edges
    <3>3. CASE SeenEdge(val(k), u)
      BY <2>1, <3>1, <3>3
    <3>4. CASE ~SeenEdge(val(k), u)
      BY <1>5, <1>11, <2>2, <3>2, <3>4 DEF V
    <3> QED BY <3>3, <3>4
  <2>4. ASSUME NEW w \in Waiting, NEW u \in useMap[w] PROVE Seen1(w, u)
    BY <1>2, <1>7, <2>1 DEF Edges
  <2>5. \A k \in Calls : \A u \in useMap'[val(k)'] :
          u \in calls'[k].uses \cup calls'[k].cur \/ Seen1(val(k)', u)
    BY <1>9, <1>13, <2>3
  <2> QED BY <1>2, <1>9, <1>12, <1>13, <2>4, <2>5 DEF Edges, SeenEdge
<1>24. Passed'
  <2>1. ASSUME NEW k \in Calls, NEW w \in Waiting, dfs[val(k)] < dfs[w],
               k < n => dfs[w] < dfs[val(k + 1)]
        PROVE  dfs[root'[val(k)]] <= dfs[root'[w]]
    <3>1. \/ dfs[root[val(k)]] <= dfs[root[w]]
          \/ k = n /\ \E d \in calls[k].cur :
               d \notin inComponent /\ dfs[d] <= dfs[w] /\ dfs[root[d]] <= dfs[root[w]]
      BY <1>2, <2>1 DEF Passed, n
    <3>2. w \in Values /\ w # V /\ root'[w] = root[w] /\ root[w] \in Values
      BY <1>2, <1>7, <1>16, <1>17 DEF Roots
    <3>3. val(k) \in Values /\ root[val(k)] \in Values
      BY <1>2, <1>7 DEF Roots
    <3>4. CASE val(k) # V
      <4>1. k # n
        BY <3>4 DEF V
      <4> QED BY <1>16, <3>1, <3>2, <3>3, <3>4, <4>1
    <3>5. CASE val(k) = V
      <4>1. root'[val(k)] = r
        BY <1>16, <3>3, <3>5
      <4>2. CASE dfs[root[V]] <= dfs[root[w]]
        BY <1>7, <1>8, <3>2, <3>3, <3>5, <4>1, <4>2
      <4>3. CASE c \notin inComponent /\ dfs[root[c]] <= dfs[root[w]]
        <5>1. root[c] \in Values
          BY <1>2, <1>5, <1>7, <4>3 DEF Open, Roots
        <5> QED BY <1>7, <1>8, <3>2, <4>1, <4>3, <5>1
      <4> QED BY <1>5, <3>1, <3>5, <4>2, <4>3
    <3> QED BY <3>4, <3>5
  <2>2. \A k \in Calls : k < n => k + 1 \in Calls
    BY <1>3 DEF Calls, n
  <2>3. Len(calls') = n
    BY <1>10
  <2> QED BY <1>9, <1>12, <1>13, <2>1, <2>2, <2>3 DEF Passed
<1> QED BY <1>18, <1>19, <1>20, <1>21, <1>22, <1>23, <1>24 DEF SearchInv

-----------------------------------------------------------------------------
(* A call ends that has seen all uses.                                     *)
LEMMA CallLeft ==
  ASSUME SearchInv, Seen, calls' = Front(calls)
  PROVE  LET n == Len(calls)  V == val(n)
         IN  /\ n \in Nat \ {0} /\ n \in Calls /\ Top.value = V /\ V \in Path /\ V \in Open
             /\ calls' \in Seq(CallSet) /\ Len(calls') = n - 1 /\ Calls' = Calls \ {n}
             /\ \A k \in Calls : k # n =>
                  calls'[k] = calls[k] /\ val(k)' = val(k) /\ dfs[val(k)] < dfs[V]
             /\ Path' = Path \ {V}
             /\ calls[n].cur = {}
             /\ \A u \in useMap[V] : SeenEdge(V, u)
<1> DEFINE n == Len(calls)
           V == val(n)
<1>1. SearchType /\ Split /\ Nested /\ Edges /\ calls # <<>>
  BY DEF SearchInv, Seen
<1>2. n \in Nat \ {0} /\ n \in Calls /\ Top = calls[n] /\ Top.value = V /\ V \in Path
  BY <1>1, TopCall
<1>3. V \in Open
  BY <1>1, <1>2, OpenType
<1>4. calls' \in Seq(CallSet) /\ Len(calls') = n - 1 /\ \A k \in 1 .. n - 1 : calls'[k] = calls[k]
  <2>1. calls \in Seq(CallSet)
    BY <1>1 DEF SearchType, CallSet
  <2> QED BY <1>1, <2>1, FrontCalls
<1>5. calls[n].uses = {} /\ calls[n].cur = {}
  BY <1>2 DEF Seen, Seeing
<1>6. \A u \in useMap[V] : SeenEdge(V, u)
  BY <1>1, <1>2, <1>5 DEF Edges
<1>7. Calls' = Calls \ {n} /\ \A k \in Calls : k # n => k \in 1 .. n - 1 /\ k < n
  BY <1>2, <1>4 DEF Calls
<1>8. \A k \in Calls : k # n => calls'[k] = calls[k] /\ dfs[val(k)] < dfs[V]
  BY <1>1, <1>2, <1>4, <1>7 DEF Nested
<1>9. \A k \in Calls : k # n => val(k)' = val(k)
  BY <1>8 DEF val
<1> HIDE DEF n, V
<1>10. \A k \in Calls : k # n => val(k) # V
  <2> TAKE k \in Calls
  <2> HAVE k # n
  <2>1. dfs[val(k)] < dfs[V] /\ val(k) \in Values
    BY <1>1, <1>8, CallsType
  <2>2. dfs[val(k)] \in Int
    BY <1>1, <2>1, VisitedType
  <2> QED BY <2>1, <2>2
<1>11. Path' = Path \ {V}
  BY <1>7, <1>9, <1>10 DEF Path, V
<1> QED BY <1>2, <1>3, <1>4, <1>5, <1>6, <1>7, <1>8, <1>9, <1>11 DEF n, V

(***************************************************************************)
(* A value that is not a root waits.                                       *)
(***************************************************************************)
LEMMA WaitKeeps ==
  ASSUME SearchInv, Wait
  PROVE  SearchInv'
<1> DEFINE n == Len(calls)
           V == val(n)
           m == Len(pilha)
<1>1. SearchType /\ Numbered /\ Split /\ Nested /\ Rooted /\ Stacked /\ Below /\ Roots /\ Edges
      /\ Passed /\ Closed
  BY DEF SearchInv
<1>2. Seen /\ calls' = Front(calls) /\ calls # <<>>
  BY DEF Wait, Seen
<1>3. /\ n \in Nat \ {0} /\ n \in Calls /\ Top.value = V /\ V \in Path /\ V \in Open
      /\ calls' \in Seq(CallSet) /\ Len(calls') = n - 1 /\ Calls' = Calls \ {n}
      /\ \A k \in Calls : k # n =>
           calls'[k] = calls[k] /\ val(k)' = val(k) /\ dfs[val(k)] < dfs[V]
      /\ Path' = Path \ {V}
      /\ calls[n].cur = {}
      /\ \A u \in useMap[V] : SeenEdge(V, u)
  BY <1>2, CallLeft
<1>4. /\ Path \subseteq Open /\ Waiting \subseteq Open /\ Open \subseteq Visited
      /\ Visited \subseteq Values /\ \A k \in Calls : val(k) \in Path
      /\ \A v \in Values : dfs[v] \in Int
      /\ \A i \in 1 .. Len(pilha) : pilha[i] \in Waiting
  BY <1>1, OpenType, VisitedType
<1> HIDE DEF n, V, m
<1>5. /\ useMap' = useMap /\ index' = index /\ dfs' = dfs /\ root' = root
      /\ inComponent' = inComponent /\ components' = components /\ worklist' = worklist
      /\ pilha' = Append(pilha, V) /\ root[V] # V
  BY <1>3 DEF Wait
<1>6. /\ m \in Nat /\ pilha' \in Seq(Values) /\ Len(pilha') = m + 1
      /\ \A i \in 1 .. m : pilha'[i] = pilha[i]
      /\ pilha'[m + 1] = V
  <2>1. pilha \in Seq(Values) /\ V \in Values
    BY <1>1, <1>3, <1>4 DEF SearchType
  <2> QED BY <1>5, <2>1, AppendTo DEF m
<1>7. Values' = Values /\ Visited' = Visited /\ Open' = Open /\ \A v : Reaches(v)' = Reaches(v)
  BY <1>5 DEF Values, Visited, Open, Reaches
<1>8. Waiting' = Waiting \cup {V}
  <2>1. 1 .. Len(pilha') = 1 .. m \cup {m + 1}
    BY <1>6
  <2> QED BY <1>6, <2>1 DEF Waiting, m
<1>9. n > 1
  <2>1. SUFFICES ASSUME n = 1 PROVE FALSE
    BY <1>3
  <2>2. root[V] \in Open /\ dfs[root[V]] <= dfs[V]
    BY <1>1, <1>3 DEF Roots
  <2>3. dfs[V] <= dfs[root[V]]
    BY <1>1, <2>1, <2>2 DEF Rooted, V
  <2>4. dfs[V] = dfs[root[V]] /\ V \in Visited /\ root[V] \in Visited
    BY <1>3, <1>4, <2>2, <2>3
  <2> QED BY <1>1, <1>5, <2>4 DEF Numbered
<1>10. 1 \in Calls /\ 1 # n /\ n - 1 \in Calls /\ n - 1 # n
       /\ \A k \in Calls : k # n => k \in Nat /\ k < n /\ k + 1 \in Calls /\ (k < n - 1 => k + 1 # n)
  BY <1>3, <1>9 DEF Calls, n
<1>11. SearchType'
  BY <1>1, <1>3, <1>5, <1>6, <1>7 DEF SearchType, CallSet
<1>12. Numbered' /\ Closed'
  BY <1>1, <1>5, <1>7 DEF Numbered, Closed
<1>13. Split'
  BY <1>1, <1>3, <1>5, <1>7, <1>8 DEF Split
<1>14. Nested'
  <2>1. \A k, l \in Calls' : k < l => dfs[val(k)'] < dfs[val(l)']
    <3>1. \A k, l \in Calls : k < l => dfs[val(k)] < dfs[val(l)]
      BY <1>1 DEF Nested
    <3>2. \A k \in Calls' : k \in Calls /\ val(k)' = val(k)
      BY <1>3
    <3> QED BY <3>1, <3>2
  <2>2. ASSUME NEW k \in Calls'
        PROVE  /\ calls'[k].uses \subseteq useMap[val(k)']
               /\ calls'[k].cur = {} \/ \E u \in useMap[val(k)'] : calls'[k].cur = {u} /\ u \in Visited
               /\ k < n - 1 => calls'[k].cur = {val(k + 1)'}
    <3>1. k \in Calls /\ k # n
      BY <1>3
    <3>2. calls'[k] = calls[k] /\ val(k)' = val(k)
      BY <1>3, <3>1
    <3>3. k < n - 1 => k < n /\ val(k + 1)' = val(k + 1)
      BY <1>3, <1>10, <3>1
    <3> QED BY <1>1, <3>1, <3>2, <3>3 DEF Nested, n
  <2> QED BY <1>3, <1>5, <1>7, <2>1, <2>2 DEF Nested
<1>15. Rooted'
  <2>1. val(1)' = val(1) /\ calls' # <<>>
    BY <1>3, <1>9, <1>10
  <2> QED BY <1>1, <1>5, <1>7, <2>1 DEF Rooted
<1>16. Stacked'
  <2>1. ASSUME NEW p \in Path', NEW i \in 1 .. m + 1, NEW j \in 1 .. m + 1, i < j,
               dfs[pilha'[i]] > dfs[p]
        PROVE  dfs[pilha'[j]] > dfs[p]
    <3>1. p \in Path /\ p # V
      BY <1>3
    <3>2. CASE j = m + 1
      <4>1. PICK k \in Calls : p = val(k)
        BY <3>1 DEF Path
      <4>2. dfs[p] < dfs[V]
        BY <1>3, <3>1, <4>1 DEF V
      <4> QED BY <1>3, <1>4, <1>6, <3>1, <3>2, <4>2
    <3>3. CASE j # m + 1
      <4>1. i \in 1 .. m /\ j \in 1 .. m
        BY <1>6, <2>1, <3>3
      <4> QED BY <1>1, <1>6, <2>1, <3>1, <4>1 DEF Stacked, m
    <3> QED BY <3>2, <3>3
  <2> QED BY <1>5, <1>6, <2>1 DEF Stacked
<1>17. Below'
  BY <1>1, <1>3, <1>5, <1>7 DEF Below
<1>18. Roots'
  BY <1>1, <1>5, <1>7, <1>8 DEF Roots
<1>19. \A w, u : SeenEdge(w, u) <=> (u \in inComponent' \/ (u \in Visited' /\ dfs'[root'[w]] <= dfs'[u]))
  BY <1>5, <1>7 DEF SeenEdge
<1>20. Edges'
  <2>1. ASSUME NEW k \in Calls', NEW u \in useMap[val(k)]
        PROVE  u \in calls'[k].uses \cup calls'[k].cur \/ SeenEdge(val(k), u)
    <3>1. k \in Calls /\ calls'[k] = calls[k]
      BY <1>3
    <3> QED BY <1>1, <3>1 DEF Edges
  <2>2. \A k \in Calls' : val(k)' = val(k)
    BY <1>3
  <2>3. \A w \in Waiting' : \A u \in useMap[w] : SeenEdge(w, u)
    BY <1>1, <1>3, <1>8 DEF Edges
  <2>4. \A w \in inComponent : useMap[w] \subseteq inComponent
    BY <1>1 DEF Edges
  <2> HIDE DEF SeenEdge
  <2>5. \A k \in Calls' : \A u \in useMap'[val(k)'] :
          u \in calls'[k].uses \cup calls'[k].cur
          \/ (u \in inComponent' \/ (u \in Visited' /\ dfs'[root'[val(k)']] <= dfs'[u]))
    BY <1>5, <1>19, <2>1, <2>2
  <2> QED BY <1>5, <1>19, <2>3, <2>4, <2>5 DEF Edges, SeenEdge
<1>21. Passed'
  <2>1. ASSUME NEW k \in Calls', NEW w \in Waiting', dfs[val(k)] < dfs[w],
               k < n - 1 => dfs[w] < dfs[val(k + 1)]
        PROVE  \/ dfs[root[val(k)]] <= dfs[root[w]]
               \/ k = n - 1 /\ \E c \in calls[k].cur :
                    c \notin inComponent /\ dfs[c] <= dfs[w] /\ dfs[root[c]] <= dfs[root[w]]
    <3>1. k \in Calls /\ k # n /\ k \in Nat /\ k < n /\ k + 1 \in Calls
      BY <1>3, <1>10
    <3>2. w \in Values /\ val(k) \in Values /\ val(k + 1) \in Values /\ V \in Values
      BY <1>3, <1>4, <1>8, <3>1
    <3>3. w = V \/ w \in Waiting
      BY <1>8
    <3>4. CASE k # n - 1
      <4>1. k < n - 1 /\ k + 1 # n
        BY <1>3, <1>10, <3>1, <3>4
      <4>2. dfs[val(k + 1)] < dfs[V]
        BY <1>3, <3>1, <4>1
      <4>3. w # V
        BY <1>4, <2>1, <3>2, <4>1, <4>2
      <4>4. w \in Waiting /\ dfs[w] < dfs[val(k + 1)]
        BY <2>1, <3>3, <4>1, <4>3
      <4> QED BY <1>1, <2>1, <3>1, <4>4 DEF Passed, n
    <3>5. CASE k = n - 1
      <4>1. k + 1 = n /\ val(k + 1) = V /\ calls[k].cur = {V} /\ V \notin inComponent
        <5>1. k + 1 = n
          BY <1>3, <3>1, <3>5
        <5>2. calls[k].cur = {val(k + 1)}
          BY <1>1, <3>1 DEF Nested, n
        <5>3. val(k + 1) = V
          BY <5>1 DEF V
        <5> QED BY <1>3, <5>1, <5>2, <5>3 DEF Open
      <4>2. CASE dfs[w] < dfs[V]
        <5>1. w \in Waiting
          BY <1>4, <3>2, <3>3, <4>2
        <5>2. dfs[w] < dfs[val(k + 1)]
          BY <4>1, <4>2
        <5> QED BY <1>1, <2>1, <3>1, <5>1, <5>2 DEF Passed, n
      <4>3. CASE ~ (dfs[w] < dfs[V])
        <5>1. dfs[V] <= dfs[w] /\ root[w] \in Values /\ root[V] \in Values
          BY <1>1, <1>4, <3>2, <4>3 DEF SearchType
        <5>2. dfs[root[V]] <= dfs[root[w]]
          <6>1. CASE w = V
            BY <1>4, <5>1, <6>1
          <6>2. CASE w # V
            <7>1. w \in Waiting /\ w \in Visited /\ V \in Visited
              BY <1>3, <1>4, <3>3, <6>2
            <7>2. dfs[w] # dfs[V]
              BY <1>1, <6>2, <7>1 DEF Numbered
            <7>3. dfs[V] < dfs[w]
              BY <1>4, <3>2, <5>1, <7>2
            <7> QED BY <1>1, <1>3, <7>1, <7>3 DEF Passed, n, V
          <6> QED BY <6>1, <6>2
        <5> QED BY <3>5, <4>1, <5>1, <5>2
      <4> QED BY <4>2, <4>3
    <3> QED BY <3>4, <3>5
  <2>2. \A k \in Calls' : val(k)' = val(k) /\ calls'[k] = calls[k]
                          /\ (k < n - 1 => val(k + 1)' = val(k + 1))
    BY <1>3, <1>10
  <2>3. ASSUME NEW k \in Calls', NEW w \in Waiting', dfs'[val(k)'] < dfs'[w],
               k < Len(calls') => dfs'[w] < dfs'[val(k + 1)']
        PROVE  \/ dfs'[root'[val(k)']] <= dfs'[root'[w]]
               \/ k = Len(calls') /\ \E c \in calls'[k].cur :
                    c \notin inComponent' /\ dfs'[c] <= dfs'[w] /\ dfs'[root'[c]] <= dfs'[root'[w]]
    <3>1. val(k)' = val(k) /\ calls'[k] = calls[k] /\ Len(calls') = n - 1
      BY <1>3, <2>2
    <3>2. dfs[val(k)] < dfs[w]
      BY <1>5, <2>3, <3>1
    <3>3. k < n - 1 => dfs[w] < dfs[val(k + 1)]
      BY <1>5, <2>2, <2>3, <3>1
    <3> QED BY <1>5, <2>1, <3>1, <3>2, <3>3
  <2> QED BY <2>3 DEF Passed
<1> QED BY <1>11, <1>12, <1>13, <1>14, <1>15, <1>16, <1>17, <1>18, <1>20, <1>21 DEF SearchInv

-----------------------------------------------------------------------------
(***************************************************************************)
(* A component is closed: what is taken from the stack is the component.   *)
(***************************************************************************)
LEMMA GreatestOfNats ==
  ASSUME NEW n \in Nat, NEW S, S \subseteq 1 .. n, S # {}
  PROVE  \E m \in S : \A y \in S : m >= y
<1> DEFINE D == {n - y : y \in S}
<1>1. D \subseteq Nat /\ D # {}
  <2>1. \A y \in S : n - y \in Nat
    OBVIOUS
  <2> QED BY <2>1
<1>2. PICK d \in D : \A y \in D : d <= y
  BY <1>1, LeastOfNats
<1>3. PICK m \in S : d = n - m
  BY <1>2
<1>4. \A y \in S : m >= y
  <2> TAKE y \in S
  <2>1. n - y \in D
    OBVIOUS
  <2>2. d <= n - y /\ m \in Nat /\ y \in Nat
    BY <1>2, <2>1
  <2> QED BY <1>3, <2>2
<1> QED BY <1>4

LEMMA StackSplit ==
  ASSUME SearchInv, NEW V \in Path
  PROVE  LET K == Kept(V)
         IN  /\ K \in Seq(Values) /\ Len(K) \in 0 .. Len(pilha)
             /\ \A i \in 1 .. Len(K) : K[i] = pilha[i]
             /\ {K[i] : i \in 1 .. Len(K)} = {w \in Waiting : dfs[w] <= dfs[V]}
             /\ ToSet(SubSeq(pilha, Len(K) + 1, Len(pilha))) = {w \in Waiting : dfs[w] > dfs[V]}
<1> DEFINE m == Len(pilha)
           before == {i \in DOMAIN pilha : dfs[pilha[i]] <= dfs[V]}
           j == IF before = {} THEN 0 ELSE CHOOSE i \in before : \A y \in before : i >= y
           K == Kept(V)
           U == SubSeq(pilha, j + 1, m)
<1>1. SearchType /\ Split /\ Stacked
  BY DEF SearchInv
<1>2. /\ m \in Nat /\ DOMAIN pilha = 1 .. m /\ pilha \in Seq(Values)
      /\ \A i \in 1 .. m : pilha[i] \in Values
  BY <1>1 DEF SearchType
<1>3. /\ \A i \in 1 .. m : pilha[i] \in Waiting /\ dfs[pilha[i]] \in Int
      /\ dfs[V] \in Int
  BY <1>1, <1>2, OpenType, VisitedType
<1>4. K = SubSeq(pilha, 1, j)
  BY DEF Kept
<1>5. j \in 0 .. m /\ (j # 0 => j \in before) /\ \A y \in before : j >= y
  <2>1. CASE before = {}
    BY <1>2, <2>1
  <2>2. CASE before # {}
    <3>1. \E i \in before : \A y \in before : i >= y
      <4>1. before \subseteq 1 .. m
        BY <1>2
      <4> HIDE DEF before, m
      <4> QED BY <1>2, <2>2, <4>1, GreatestOfNats
    <3>2. j = CHOOSE i \in before : \A y \in before : i >= y
      BY <2>2
    <3> HIDE DEF j
    <3>3. j \in before /\ \A y \in before : j >= y
      <4> HIDE DEF before
      <4> QED BY <3>1, <3>2
    <3> QED BY <1>2, <3>3
  <2> QED BY <2>1, <2>2
<1> HIDE DEF j
<1>6. \A i \in j + 1 .. m : i \in 1 .. m /\ dfs[pilha[i]] > dfs[V]
  <2> TAKE i \in j + 1 .. m
  <2>1. i \in 1 .. m /\ i \notin before
    BY <1>2, <1>5
  <2> QED BY <1>2, <1>3, <2>1
<1>7. \A i \in 1 .. j : i \in 1 .. m /\ dfs[pilha[i]] <= dfs[V]
  <2> TAKE i \in 1 .. j
  <2>1. i \in 1 .. m /\ j \in 1 .. m /\ j \in before
    BY <1>2, <1>5
  <2>2. dfs[pilha[j]] <= dfs[V]
    BY <2>1
  <2>3. CASE i = j
    BY <2>1, <2>2, <2>3
  <2>4. CASE i < j
    <3>1. ~ (dfs[pilha[i]] > dfs[V])
      BY <1>1, <1>3, <2>1, <2>2, <2>4 DEF Stacked
    <3> QED BY <1>3, <2>1, <3>1
  <2> QED BY <2>1, <2>3, <2>4
<1> HIDE DEF before, m
<1>8. K \in Seq(Values) /\ Len(K) = j /\ \A i \in 1 .. j : K[i] = pilha[i]
  <2>1. \A i \in 1 .. j : pilha[i] \in Values
    BY <1>2, <1>7
  <2>2. /\ SubSeq(pilha, 1, j) \in Seq(Values)
        /\ Len(SubSeq(pilha, 1, j)) = IF 1 <= j THEN j - 1 + 1 ELSE 0
        /\ \A i \in 1 .. j - 1 + 1 : SubSeq(pilha, 1, j)[i] = pilha[1 + i - 1]
    BY <1>5, <2>1, SubSeqProperties
  <2>3. j - 1 + 1 = j /\ (~ (1 <= j) => j = 0) /\ \A i \in 1 .. j : 1 + i - 1 = i
    BY <1>2, <1>5
  <2> QED BY <1>4, <2>2, <2>3
<1>9. Waiting = {pilha[i] : i \in 1 .. m}
  BY DEF Waiting, m
<1>10. \A i \in 1 .. m : i \in 1 .. j \/ i \in j + 1 .. m
  BY <1>2, <1>5
<1>11. {K[i] : i \in 1 .. j} = {w \in Waiting : dfs[w] <= dfs[V]}
  <2>1. \A i \in 1 .. j : K[i] \in Waiting /\ dfs[K[i]] <= dfs[V]
    BY <1>7, <1>8, <1>9
  <2>2. ASSUME NEW w \in Waiting, dfs[w] <= dfs[V] PROVE \E i \in 1 .. j : w = K[i]
    <3>1. PICK i \in 1 .. m : w = pilha[i]
      BY <1>9
    <3>2. i \notin j + 1 .. m
      BY <1>3, <1>6, <2>2, <3>1
    <3> QED BY <1>8, <1>10, <3>1, <3>2
  <2> QED BY <2>1, <2>2
<1>12. ToSet(U) = {pilha[i] : i \in j + 1 .. m}
  <2>1. \A i \in j + 1 .. m : pilha[i] \in Values
    BY <1>2, <1>6
  <2>2. j + 1 \in Int /\ m \in Int
    BY <1>2, <1>5
  <2>3. /\ U \in Seq(Values)
        /\ Len(U) = IF j + 1 <= m THEN m - (j + 1) + 1 ELSE 0
        /\ \A i \in 1 .. m - (j + 1) + 1 : U[i] = pilha[j + 1 + i - 1]
    BY <2>1, <2>2, SubSeqProperties
  <2>4. /\ m - (j + 1) + 1 = m - j /\ m - j \in Nat
        /\ ~ (j + 1 <= m) => m - j = 0
        /\ \A i \in 1 .. m - j : j + 1 + i - 1 = j + i /\ j + i \in j + 1 .. m
        /\ \A i \in j + 1 .. m : i - j \in 1 .. m - j /\ j + (i - j) = i
    BY <1>2, <1>5
  <2>5. DOMAIN U = 1 .. m - j /\ \A i \in 1 .. m - j : U[i] = pilha[j + i]
    <3>1. Len(U) = m - j /\ \A i \in 1 .. m - j : U[i] = pilha[j + i]
      BY <2>3, <2>4
    <3>2. DOMAIN U = 1 .. Len(U)
      BY <2>3
    <3> QED BY <3>1, <3>2
  <2> HIDE DEF U
  <2>6. ToSet(U) = {U[i] : i \in DOMAIN U}
    BY DEF ToSet
  <2>7. {U[i] : i \in DOMAIN U} = {pilha[i] : i \in j + 1 .. m}
    <3>1. \A i \in DOMAIN U : U[i] \in {pilha[x] : x \in j + 1 .. m}
      BY <2>4, <2>5
    <3>2. ASSUME NEW i \in j + 1 .. m PROVE pilha[i] \in {U[x] : x \in DOMAIN U}
      <4>1. i - j \in DOMAIN U /\ j + (i - j) = i
        BY <2>4, <2>5
      <4>2. U[i - j] = pilha[i]
        BY <2>5, <4>1
      <4> QED BY <4>1, <4>2
    <3> QED BY <3>1, <3>2
  <2> QED BY <2>6, <2>7
<1>13. {pilha[i] : i \in j + 1 .. m} = {w \in Waiting : dfs[w] > dfs[V]}
  <2>1. \A i \in j + 1 .. m : pilha[i] \in Waiting /\ dfs[pilha[i]] > dfs[V]
    BY <1>3, <1>6
  <2>2. ASSUME NEW w \in Waiting, dfs[w] > dfs[V] PROVE \E i \in j + 1 .. m : w = pilha[i]
    <3>1. PICK i \in 1 .. m : w = pilha[i]
      BY <1>9
    <3>2. i \notin 1 .. j
      BY <1>3, <1>7, <2>2, <3>1
    <3> QED BY <1>10, <3>1, <3>2
  <2> QED BY <2>1, <2>2
<1> HIDE DEF K, U
<1>14. Len(K) = j /\ SubSeq(pilha, Len(K) + 1, Len(pilha)) = U /\ j \in 0 .. Len(pilha)
  BY <1>5, <1>8 DEF U, m
<1> QED BY <1>8, <1>11, <1>12, <1>13, <1>14 DEF K

Taken(V) == {V} \cup {w \in Waiting : dfs[w] > dfs[V]}

(* What is taken is all that is open and was not visited before V; its     *)
(* edges stay in it or lead into closed components.                        *)
LEMMA TakenIsWhole ==
  ASSUME SearchInv, Seen, NEW V, V = val(Len(calls)), root[V] = V, calls' = Front(calls)
  PROVE  /\ Taken(V) \subseteq Open
         /\ \A w \in Open : dfs[w] >= dfs[V] => w \in Taken(V)
         /\ \A w \in Open : w \notin Taken(V) => dfs[w] < dfs[V]
         /\ \A w \in Taken(V) : dfs[root[w]] >= dfs[V] /\ dfs[w] >= dfs[V]
         /\ \A w \in Taken(V) : useMap[w] \subseteq Taken(V) \cup inComponent
<1> DEFINE n == Len(calls)
<1>1. SearchType /\ Numbered /\ Split /\ Nested /\ Roots /\ Edges /\ Passed
  BY DEF SearchInv
<1>2. /\ n \in Nat \ {0} /\ n \in Calls /\ V \in Path /\ V \in Open
      /\ \A k \in Calls : k # n => dfs[val(k)] < dfs[V]
      /\ calls[n].cur = {}
      /\ \A u \in useMap[V] : SeenEdge(V, u)
  BY CallLeft
<1>3. /\ Path \subseteq Open /\ Waiting \subseteq Open /\ Open \subseteq Visited
      /\ Visited \subseteq Values /\ \A v \in Values : dfs[v] \in Int
  BY <1>1, OpenType, VisitedType
<1>4. Taken(V) \subseteq Open
  BY <1>2, <1>3 DEF Taken
<1>5. \A w \in Open : w \notin Taken(V) => dfs[w] < dfs[V]
  <2> TAKE w \in Open
  <2> HAVE w \notin Taken(V)
  <2>1. w # V /\ dfs[w] \in Int /\ dfs[V] \in Int /\ w \in Visited /\ V \in Visited
    BY <1>2, <1>3 DEF Taken
  <2>2. CASE w \in Path
    <3>1. PICK k \in Calls : w = val(k)
      BY <2>2 DEF Path
    <3>2. k # n
      BY <2>1, <3>1
    <3> QED BY <1>2, <3>1, <3>2
  <2>3. CASE w \in Waiting
    <3>1. ~ (dfs[w] > dfs[V])
      BY <2>3 DEF Taken
    <3>2. dfs[w] # dfs[V]
      BY <1>1, <2>1 DEF Numbered
    <3> QED BY <2>1, <3>1, <3>2
  <2> QED BY <1>1, <2>2, <2>3 DEF Split
<1>6. \A w \in Open : dfs[w] >= dfs[V] => w \in Taken(V)
  <2> TAKE w \in Open
  <2>1. dfs[w] \in Int /\ dfs[V] \in Int
    BY <1>2, <1>3
  <2> QED BY <1>5, <2>1
<1>7. \A w \in Taken(V) : dfs[root[w]] >= dfs[V] /\ dfs[w] >= dfs[V]
  <2> TAKE w \in Taken(V)
  <2>1. dfs[w] \in Int /\ dfs[V] \in Int /\ root[w] \in Values
    BY <1>1, <1>2, <1>3, <1>4 DEF Roots
  <2>2. CASE w = V
    BY <2>1, <2>2
  <2>3. CASE w # V
    <3>1. w \in Waiting /\ dfs[V] < dfs[w]
      BY <2>1, <2>3 DEF Taken
    <3>2. dfs[root[V]] <= dfs[root[w]]
      BY <1>1, <1>2, <3>1 DEF Passed
    <3>3. dfs[root[w]] \in Int
      BY <1>3, <2>1
    <3> QED BY <2>1, <3>1, <3>2, <3>3
  <2> QED BY <2>2, <2>3
<1>8. ASSUME NEW w \in Taken(V), NEW u \in useMap[w] PROVE u \in Taken(V) \cup inComponent
  <2>1. SeenEdge(w, u)
    BY <1>1, <1>2 DEF Taken, Edges
  <2>2. CASE u \notin inComponent
    <3>1. u \in Open /\ dfs[root[w]] <= dfs[u]
      BY <2>1, <2>2 DEF SeenEdge, Open
    <3>2. dfs[root[w]] >= dfs[V] /\ dfs[root[w]] \in Int /\ dfs[u] \in Int /\ dfs[V] \in Int
      <4>1. root[w] \in Values
        BY <1>1, <1>3, <1>4 DEF Roots
      <4> QED BY <1>2, <1>3, <1>7, <3>1, <4>1
    <3>3. dfs[u] >= dfs[V]
      BY <3>1, <3>2
    <3> QED BY <1>6, <3>1, <3>3
  <2> QED BY <2>2
<1> QED BY <1>4, <1>5, <1>6, <1>7, <1>8

LEMMA TakenIsComponent ==
  ASSUME SearchInv, Seen, NEW V, V = val(Len(calls)), root[V] = V, calls' = Front(calls)
  PROVE  Taken(V) = Order!Component(useMap, V)
<1> DEFINE S == Taken(V)
<1>1. SearchType /\ Numbered /\ Split /\ Below /\ Roots /\ Edges
  BY DEF SearchInv
<1>2. V \in Path /\ V \in Open /\ V \in S
  BY CallLeft DEF Taken
<1>3. /\ Path \subseteq Open /\ Waiting \subseteq Open /\ Open \subseteq Visited
      /\ Visited \subseteq Values /\ \A v \in Values : dfs[v] \in Int
      /\ \A v \in Visited : dfs[v] \in Nat
  <2>1. \A v \in Visited : dfs[v] \in Int /\ dfs[v] >= 0
    BY <1>1, VisitedType DEF Visited
  <2> QED BY <1>1, <2>1, OpenType, VisitedType
<1>4. /\ S \subseteq Open
      /\ \A w \in Open : dfs[w] >= dfs[V] => w \in S
      /\ \A w \in S : dfs[root[w]] >= dfs[V] /\ dfs[w] >= dfs[V]
      /\ \A w \in S : useMap[w] \subseteq S \cup inComponent
  BY TakenIsWhole
<1>5. \A w \in S : w # V => w \in Waiting
  BY DEF Taken
<1> HIDE DEF S
<1>6. IsGraph(useMap) /\ DOMAIN useMap = Values
  BY <1>1, GraphOf DEF Values
<1>7. S \subseteq Order!Reach(useMap, V)
  BY <1>1, <1>2, <1>4 DEF Below, Reaches
<1>8. \A w \in S : V \in Order!Reach(useMap, w)
  <2> DEFINE B == {w \in S : V \notin Order!Reach(useMap, w)}
             D == {dfs[w] : w \in B}
  <2>1. SUFFICES ASSUME B # {} PROVE FALSE
    OBVIOUS
  <2>2. D \subseteq Nat /\ D # {}
    BY <1>3, <1>4, <2>1
  <2>3. PICK d \in D : \A y \in D : d <= y
    BY <2>2, LeastOfNats
  <2>4. PICK w \in B : d = dfs[w]
    BY <2>3
  <2>5. w \in S /\ w \in Values /\ w \in Open /\ V \notin Order!Reach(useMap, w)
    BY <1>3, <1>4, <2>4
  <2>6. w # V
    BY <1>6, <2>5, ReachIs
  <2>7. w \in Waiting /\ root[w] # w
    BY <1>1, <1>5, <2>5, <2>6 DEF Roots
  <2>8. /\ root[w] \in Open /\ dfs[root[w]] <= dfs[w]
        /\ root[w] \in Order!Reach(useMap, w)
    BY <1>1, <2>5 DEF Roots, Reaches
  <2>9. dfs[root[w]] # dfs[w]
    BY <1>1, <1>3, <2>5, <2>7, <2>8 DEF Numbered
  <2>10. root[w] \in S
    BY <1>4, <2>5, <2>8
  <2>11. root[w] \notin B
    <3>1. dfs[root[w]] \in Int /\ dfs[w] \in Int
      BY <1>3, <2>5, <2>8
    <3>2. ~ (d <= dfs[root[w]])
      BY <2>4, <2>8, <2>9, <3>1
    <3> QED BY <2>3, <3>2
  <2>12. V \in Order!Reach(useMap, root[w])
    BY <2>10, <2>11
  <2>13. Order!Reach(useMap, root[w]) \subseteq Order!Reach(useMap, w)
    BY <1>6, <2>5, <2>8, ReachOn
  <2> QED BY <2>5, <2>12, <2>13
<1>9. ASSUME NEW u \in Order!Reach(useMap, V), V \in Order!Reach(useMap, u) PROVE u \in S
  <2> DEFINE A == S \cup inComponent
  <2>1. V \in A /\ Whole(useMap, A)
    BY <1>1, <1>2, <1>4 DEF Whole, Edges
  <2>2. V \in DOMAIN useMap
    BY <1>2, <1>3, <1>6
  <2>3. u \in A
    <3> HIDE DEF A
    <3> QED BY <1>6, <2>1, <2>2, ReachIs
  <2>4. ASSUME u \in inComponent PROVE FALSE
    <3>1. Whole(useMap, inComponent) /\ u \in DOMAIN useMap
      BY <1>1, <1>6, <2>4 DEF Whole, Edges, SearchType
    <3>2. V \in inComponent
      BY <1>6, <1>9, <2>4, <3>1, ReachIs
    <3> QED BY <1>2, <3>2 DEF Open
  <2> QED BY <2>3, <2>4
<1>10. S = Order!Component(useMap, V)
  BY <1>7, <1>8, <1>9 DEF Order!Component
<1> QED BY <1>10 DEF S

(* The step as a whole, in terms of Taken.                                 *)
LEMMA ClosedTakes ==
  ASSUME SearchInv, CloseComponent
  PROVE  LET n == Len(calls)  V == val(n)
         IN  /\ Seen /\ root[V] = V /\ calls' = Front(calls)
             /\ worklist' = Append(worklist, V)
             /\ inComponent' = inComponent \cup Taken(V)
             /\ components' = [components EXCEPT ![V] = Taken(V)]
             /\ pilha' = Kept(V)
             /\ UNCHANGED <<useMap, index, dfs, root>>
<1> DEFINE n == Len(calls)
           V == val(n)
<1>1. Seen /\ calls' = Front(calls)
  BY DEF CloseComponent
<1>2. Top.value = V /\ V \in Path
  BY <1>1, CallLeft
<1> HIDE DEF V
<1>3. {V} \cup ToSet(SubSeq(pilha, Len(Kept(V)) + 1, Len(pilha))) = Taken(V)
  BY <1>2, StackSplit DEF Taken
<1> QED BY <1>1, <1>2, <1>3 DEF CloseComponent, V

LEMMA CloseKeeps ==
  ASSUME SearchInv, CloseComponent
  PROVE  SearchInv'
<1> DEFINE n == Len(calls)
           V == val(n)
           S == Taken(V)
<1>1. SearchType /\ Numbered /\ Split /\ Nested /\ Rooted /\ Stacked /\ Below /\ Roots /\ Edges
      /\ Passed /\ Closed
  BY DEF SearchInv
<1>2. /\ Seen /\ root[V] = V /\ calls' = Front(calls)
      /\ worklist' = Append(worklist, V)
      /\ inComponent' = inComponent \cup S
      /\ components' = [components EXCEPT ![V] = S]
      /\ pilha' = Kept(V)
      /\ useMap' = useMap /\ index' = index /\ dfs' = dfs /\ root' = root
  BY ClosedTakes
<1>3. /\ n \in Nat \ {0} /\ n \in Calls /\ V \in Path /\ V \in Open
      /\ calls' \in Seq(CallSet) /\ Len(calls') = n - 1 /\ Calls' = Calls \ {n}
      /\ \A k \in Calls : k # n =>
           calls'[k] = calls[k] /\ val(k)' = val(k) /\ dfs[val(k)] < dfs[V]
      /\ Path' = Path \ {V}
  BY <1>2, CallLeft
<1>4. /\ Path \subseteq Open /\ Waiting \subseteq Open /\ Open \subseteq Visited
      /\ Visited \subseteq Values /\ \A k \in Calls : val(k) \in Path
      /\ \A v \in Values : dfs[v] \in Int
  BY <1>1, OpenType, VisitedType
<1>5. /\ S \subseteq Open /\ V \in S
      /\ \A w \in Open : dfs[w] >= dfs[V] => w \in S
      /\ \A w \in Open : w \notin S => dfs[w] < dfs[V]
      /\ \A w \in S : dfs[root[w]] >= dfs[V] /\ dfs[w] >= dfs[V]
      /\ \A w \in S : useMap[w] \subseteq S \cup inComponent
  BY <1>2, TakenIsWhole DEF Taken
<1>6. /\ pilha' \in Seq(Values) /\ Len(pilha') \in 0 .. Len(pilha)
      /\ \A i \in 1 .. Len(pilha') : pilha'[i] = pilha[i]
      /\ {pilha'[i] : i \in 1 .. Len(pilha')} = {w \in Waiting : dfs[w] <= dfs[V]}
  <2> DEFINE K == Kept(V)
  <2>1. /\ K \in Seq(Values) /\ Len(K) \in 0 .. Len(pilha)
        /\ \A i \in 1 .. Len(K) : K[i] = pilha[i]
        /\ {K[i] : i \in 1 .. Len(K)} = {w \in Waiting : dfs[w] <= dfs[V]}
    BY <1>3, StackSplit
  <2>2. pilha' = K
    BY <1>2
  <2> HIDE DEF K
  <2> QED BY <2>1, <2>2
<1> HIDE DEF n, V
<1>7. Values' = Values /\ Visited' = Visited /\ \A v : Reaches(v)' = Reaches(v)
  BY <1>2 DEF Values, Visited, Reaches
<1>8. Open' = Open \ S
  BY <1>2, <1>7 DEF Open
<1>9. Waiting' = Waiting \ S
  <2>1. Waiting' = {w \in Waiting : dfs[w] <= dfs[V]}
    BY <1>6 DEF Waiting
  <2>2. ASSUME NEW w \in Waiting PROVE dfs[w] <= dfs[V] <=> w \notin S
    <3>1. dfs[w] \in Int /\ dfs[V] \in Int /\ w # V
      BY <1>1, <1>3, <1>4 DEF Split
    <3> QED BY <3>1, <2>2 DEF Taken
  <2> QED BY <2>1, <2>2
<1>10. Path' = Path \ S
  <2>1. \A w \in Path : w # V => w \notin S
    BY <1>1 DEF Split, Taken
  <2> QED BY <1>3, <1>5, <2>1
<1>11. S \cap inComponent = {} /\ S \subseteq Visited /\ S \subseteq Values /\ V \in Values
  BY <1>4, <1>5 DEF Open
<1> HIDE DEF S
<1>12. \A k \in Calls : k # n => k \in Nat /\ k < n /\ k + 1 \in Calls /\ (k < n - 1 => k + 1 # n)
  BY <1>3 DEF Calls, n
<1>13. SearchType'
  <2>1. worklist' \in Seq(Values) /\ components' \in [Values -> SUBSET Values]
    BY <1>1, <1>2, <1>11 DEF SearchType
  <2> QED BY <1>1, <1>2, <1>3, <1>6, <1>7, <1>11, <2>1 DEF SearchType, CallSet
<1>14. Numbered'
  BY <1>1, <1>2, <1>7 DEF Numbered
<1>15. Split'
  BY <1>1, <1>2, <1>7, <1>8, <1>9, <1>10, <1>11 DEF Split
<1>16. Nested'
  <2>1. \A k, l \in Calls' : k < l => dfs[val(k)'] < dfs[val(l)']
    <3>1. \A k, l \in Calls : k < l => dfs[val(k)] < dfs[val(l)]
      BY <1>1 DEF Nested
    <3>2. \A k \in Calls' : k \in Calls /\ val(k)' = val(k)
      BY <1>3
    <3> QED BY <3>1, <3>2
  <2>2. ASSUME NEW k \in Calls'
        PROVE  /\ calls'[k].uses \subseteq useMap[val(k)']
               /\ calls'[k].cur = {} \/ \E u \in useMap[val(k)'] : calls'[k].cur = {u} /\ u \in Visited
               /\ k < n - 1 => calls'[k].cur = {val(k + 1)'}
    <3>1. k \in Calls /\ k # n
      BY <1>3
    <3>2. calls'[k] = calls[k] /\ val(k)' = val(k)
      BY <1>3, <3>1
    <3>3. k < n - 1 => k < n /\ val(k + 1)' = val(k + 1)
      BY <1>3, <1>12, <3>1
    <3> QED BY <1>1, <3>1, <3>2, <3>3 DEF Nested, n
  <2> QED BY <1>2, <1>3, <1>7, <2>1, <2>2 DEF Nested
<1>17. Rooted'
  <2>1. ASSUME NEW w \in Open' PROVE calls' # <<>> /\ dfs[val(1)'] <= dfs[w]
    <3>1. w \in Open /\ w \notin S /\ dfs[w] < dfs[V]
      BY <1>5, <1>8
    <3>2. dfs[val(1)] <= dfs[w]
      BY <1>1, <3>1 DEF Rooted
    <3>3. n # 1
      <4>1. SUFFICES ASSUME n = 1 PROVE FALSE
        OBVIOUS
      <4>2. V = val(1)
        BY <4>1 DEF V
      <4>3. dfs[w] \in Int /\ dfs[V] \in Int
        BY <1>3, <1>4, <3>1
      <4> QED BY <3>1, <3>2, <4>2, <4>3
    <3>4. 1 \in Calls /\ calls' # <<>>
      BY <1>3, <3>3 DEF Calls, n
    <3> QED BY <1>3, <3>2, <3>3, <3>4
  <2> QED BY <1>2, <2>1 DEF Rooted
<1>18. Stacked'
  <2>1. \A p \in Path', i, j \in 1 .. Len(pilha') :
          i < j /\ dfs[pilha'[i]] > dfs[p] => dfs[pilha'[j]] > dfs[p]
    <3>1. \A i \in 1 .. Len(pilha') : i \in 1 .. Len(pilha) /\ pilha'[i] = pilha[i]
      BY <1>6
    <3> QED BY <1>1, <1>10, <3>1 DEF Stacked
  <2> QED BY <1>2, <2>1 DEF Stacked
<1>19. Below'
  BY <1>1, <1>2, <1>7, <1>8, <1>10 DEF Below
<1>20. Roots'
  <2>1. ASSUME NEW w \in Open'
        PROVE  root[w] \in Open' /\ dfs[root[w]] <= dfs[w] /\ root[w] \in Reaches(w)
    <3>1. w \in Open /\ dfs[w] < dfs[V]
      BY <1>5, <1>8
    <3>2. root[w] \in Open /\ dfs[root[w]] <= dfs[w] /\ root[w] \in Reaches(w)
      BY <1>1, <3>1 DEF Roots
    <3>3. root[w] \notin S
      <4>1. dfs[w] \in Int /\ dfs[root[w]] \in Int /\ dfs[V] \in Int
        BY <1>3, <1>4, <3>1, <3>2
      <4> QED BY <1>5, <3>1, <3>2, <4>1
    <3> QED BY <1>8, <3>2, <3>3
  <2>2. \A w \in Waiting' : root[w] # w
    BY <1>1, <1>9 DEF Roots
  <2> QED BY <1>2, <1>7, <2>1, <2>2 DEF Roots
<1>21. Edges'
  <2> DEFINE Seen1(w, u) == u \in inComponent' \/ (u \in Visited /\ dfs[root[w]] <= dfs[u])
  <2>1. \A w, u : SeenEdge(w, u) => Seen1(w, u)
    BY <1>2 DEF SeenEdge
  <2> HIDE DEF Seen1
  <2>2. ASSUME NEW k \in Calls', NEW u \in useMap[val(k)]
        PROVE  u \in calls'[k].uses \cup calls'[k].cur \/ Seen1(val(k), u)
    <3>1. k \in Calls /\ calls'[k] = calls[k]
      BY <1>3
    <3>2. u \in calls[k].uses \cup calls[k].cur \/ SeenEdge(val(k), u)
      BY <1>1, <3>1 DEF Edges
    <3> QED BY <2>1, <3>1, <3>2
  <2>3. \A w \in Waiting' : \A u \in useMap[w] : Seen1(w, u)
    BY <1>1, <1>9, <2>1 DEF Edges
  <2>4. \A w \in inComponent' : useMap[w] \subseteq inComponent'
    BY <1>1, <1>2, <1>5 DEF Edges
  <2>5. \A k \in Calls' : \A u \in useMap'[val(k)'] :
          u \in calls'[k].uses \cup calls'[k].cur \/ Seen1(val(k)', u)
    BY <1>2, <1>3, <2>2
  <2> QED BY <1>2, <1>7, <2>3, <2>4, <2>5 DEF Edges, SeenEdge, Seen1
<1>22. Passed'
  <2>1. ASSUME NEW k \in Calls', NEW w \in Waiting', dfs[val(k)] < dfs[w],
               k < n - 1 => dfs[w] < dfs[val(k + 1)]
        PROVE  dfs[root[val(k)]] <= dfs[root[w]]
    <3>1. k \in Calls /\ k # n /\ k \in Nat /\ k < n
      BY <1>3, <1>12
    <3>2. w \in Waiting /\ w \in Open /\ w \notin S /\ dfs[w] < dfs[V]
      BY <1>4, <1>5, <1>9
    <3>3. dfs[w] < dfs[val(k + 1)]
      <4>1. CASE k < n - 1
        BY <2>1, <4>1
      <4>2. CASE ~ (k < n - 1)
        <5>1. k + 1 = n
          BY <1>3, <3>1, <4>2
        <5>2. val(k + 1) = V
          BY <5>1 DEF V
        <5> QED BY <3>2, <5>2
      <4> QED BY <4>1, <4>2
    <3> QED BY <1>1, <2>1, <3>1, <3>2, <3>3 DEF Passed, n
  <2>2. ASSUME NEW k \in Calls', NEW w \in Waiting', dfs'[val(k)'] < dfs'[w],
               k < Len(calls') => dfs'[w] < dfs'[val(k + 1)']
        PROVE  dfs'[root'[val(k)']] <= dfs'[root'[w]]
    <3>1. val(k)' = val(k) /\ Len(calls') = n - 1 /\ (k < n - 1 => val(k + 1)' = val(k + 1))
      BY <1>3, <1>12
    <3>2. dfs[val(k)] < dfs[w]
      BY <1>2, <2>2, <3>1
    <3>3. k < n - 1 => dfs[w] < dfs[val(k + 1)]
      BY <1>2, <2>2, <3>1
    <3> QED BY <1>2, <2>1, <3>1, <3>2, <3>3
  <2> QED BY <2>2 DEF Passed
<1>23. Closed'
  <2>1. components \in [Values -> SUBSET Values] /\ worklist \in Seq(Values)
    BY <1>1 DEF SearchType
  <2>2. V \notin inComponent
    BY <1>3 DEF Open
  <2>3. components[V] \subseteq inComponent /\ \A i \in 1 .. Len(worklist) : worklist[i] # V
    BY <1>1, <1>11, <2>2 DEF Closed
  <2>4. \A v \in Values : components'[v] = IF v = V THEN S ELSE components[v]
    BY <1>2, <2>1
  <2>5. /\ Len(worklist) \in Nat /\ Len(worklist') = Len(worklist) + 1
        /\ \A i \in 1 .. Len(worklist) : worklist'[i] = worklist[i] /\ worklist[i] \in Values
        /\ worklist'[Len(worklist) + 1] = V
    BY <1>2, <1>11, <2>1
  <2>6. \A i \in 1 .. Len(worklist) : components'[worklist'[i]] = components[worklist[i]]
    BY <2>3, <2>4, <2>5
  <2>7. \A i \in 1 .. Len(worklist') : worklist'[i] \in inComponent'
    <3>1. \A i \in 1 .. Len(worklist') : i \in 1 .. Len(worklist) \/ i = Len(worklist) + 1
      BY <2>5
    <3> QED BY <1>1, <1>2, <1>5, <2>5, <3>1 DEF Closed
  <2>8. inComponent' = UNION {components'[worklist'[i]] : i \in 1 .. Len(worklist')}
    <3>1. 1 .. Len(worklist') = 1 .. Len(worklist) \cup {Len(worklist) + 1}
      BY <2>5
    <3>2. components'[worklist'[Len(worklist) + 1]] = S
      BY <1>11, <2>4, <2>5
    <3>3. inComponent = UNION {components[worklist[i]] : i \in 1 .. Len(worklist)}
      BY <1>1 DEF Closed
    <3>4. inComponent = UNION {components'[worklist'[i]] : i \in 1 .. Len(worklist)}
      BY <2>6, <3>3
    <3> QED BY <1>2, <3>1, <3>2, <3>4
  <2>9. inComponent' = UNION {components'[v] : v \in Values}
    <3>1. \A v \in Values : components'[v] \subseteq inComponent'
      BY <1>1, <1>2, <2>4 DEF Closed
    <3>2. \A i \in 1 .. Len(worklist') : worklist'[i] \in Values
      BY <1>2, <1>11, <2>1
    <3> QED BY <2>8, <3>1, <3>2
  <2> QED BY <1>7, <2>7, <2>8, <2>9 DEF Closed
<1> QED BY <1>13, <1>14, <1>15, <1>16, <1>17, <1>18, <1>19, <1>20, <1>21, <1>22, <1>23 DEF SearchInv

-----------------------------------------------------------------------------
(***************************************************************************)
(* A value is visited, by the constructor or by the call of a value that   *)
(* has it among its uses.                                                  *)
(***************************************************************************)
LEMMA EnterKeeps ==
  ASSUME SearchInv, NEW V \in Values, dfs[V] < 0,
         NEW stack \in Seq(CallSet), Len(stack) = Len(calls),
         \A k \in Calls :
           /\ stack[k].value = val(k) /\ stack[k].uses \subseteq calls[k].uses
           /\ stack[k].cur = IF k = Len(calls) THEN {V} ELSE calls[k].cur
           /\ stack[k].uses \cup stack[k].cur = calls[k].uses \cup calls[k].cur,
         calls # <<>> => V \in useMap[val(Len(calls))] /\ calls[Len(calls)].cur = {},
         Enter(V, stack), pilha' = pilha,
         UNCHANGED <<useMap, inComponent, components, worklist>>
  PROVE  SearchInv'
<1> DEFINE n == Len(calls)
           e == [value |-> V, uses |-> useMap[V], cur |-> {}]
<1>1. SearchType /\ Numbered /\ Split /\ Nested /\ Rooted /\ Stacked /\ Below /\ Roots /\ Edges
      /\ Passed /\ Closed
  BY DEF SearchInv
<1>2. /\ dfs' = [dfs EXCEPT ![V] = index] /\ index' = index + 1
      /\ root' = [root EXCEPT ![V] = V] /\ calls' = Append(stack, e)
      /\ useMap' = useMap /\ inComponent' = inComponent /\ components' = components
      /\ worklist' = worklist
  BY DEF Enter
<1>3. /\ Path \subseteq Open /\ Waiting \subseteq Open /\ Open \subseteq Visited
      /\ Visited \subseteq Values /\ \A k \in Calls : val(k) \in Path
      /\ \A v \in Values : dfs[v] \in Int /\ dfs[v] < index /\ useMap[v] \subseteq Values
      /\ IsFiniteSet(Visited) /\ index \in Nat /\ n \in Nat
  BY <1>1, OpenType, VisitedType, CallsType DEF SearchType
<1>4. V \notin Visited /\ V \notin Open /\ V \notin Path /\ V \notin Waiting /\ V \notin inComponent
  <2>1. V \notin Visited
    BY <1>3 DEF Visited
  <2> QED BY <1>1, <1>3, <2>1 DEF Split
<1>5. IsGraph(useMap) /\ DOMAIN useMap = Values
  BY <1>1, GraphOf DEF Values
<1>6. /\ calls' \in Seq(CallSet) /\ Len(calls') = n + 1 /\ calls' # <<>>
      /\ \A k \in Calls : calls'[k] = stack[k]
      /\ calls'[n + 1] = e
  <2>1. e \in CallSet
    BY <1>3 DEF CallSet
  <2>2. Append(stack, e) \in Seq(CallSet) /\ Len(Append(stack, e)) = Len(stack) + 1
        /\ \A k \in 1 .. Len(stack) : Append(stack, e)[k] = stack[k]
        /\ Append(stack, e)[Len(stack) + 1] = e
    BY <2>1, AppendTo
  <2> DEFINE t == Append(stack, e)
  <2> HIDE DEF t, e
  <2>3. calls' \in Seq(CallSet) /\ Len(calls') = n + 1
        /\ (\A k \in Calls : calls'[k] = stack[k]) /\ calls'[n + 1] = e
    BY <1>2, <2>2 DEF t, Calls
  <2>4. calls' # <<>>
    BY <1>3, <2>3
  <2> QED BY <2>3, <2>4
<1> HIDE DEF e
<1>7. Calls' = Calls \cup {n + 1} /\ n + 1 \notin Calls
      /\ \A k \in Calls : k \in Nat /\ k < n + 1 /\ (k # n => k < n /\ k + 1 \in Calls)
  BY <1>3, <1>6 DEF Calls
<1>8. /\ \A k \in Calls : val(k)' = val(k) /\ val(k) \in Open /\ val(k) # V
      /\ \A k : k = n + 1 => val(k)' = V
      /\ calls'[n + 1].uses = useMap[V] /\ calls'[n + 1].cur = {}
  <2>1. \A k \in Calls : val(k)' = val(k) /\ val(k) \in Open /\ val(k) # V
    BY <1>3, <1>4, <1>6 DEF val
  <2>2. calls'[n + 1].value = V /\ calls'[n + 1].uses = useMap[V] /\ calls'[n + 1].cur = {}
    BY <1>6 DEF e
  <2>3. \A k : k = n + 1 => val(k)' = V
    BY <2>2 DEF val
  <2> QED BY <2>1, <2>2, <2>3
<1> HIDE DEF n
<1>9. Values' = Values /\ \A v : Reaches(v)' = Reaches(v)
  BY <1>2 DEF Values, Reaches
<1>10. \A v \in Values : dfs'[v] = IF v = V THEN index ELSE dfs[v]
  BY <1>1, <1>2 DEF SearchType
<1>11. \A v \in Values : root'[v] = IF v = V THEN V ELSE root[v]
  BY <1>1, <1>2 DEF SearchType
<1>12. Visited' = Visited \cup {V}
  BY <1>3, <1>9, <1>10 DEF Visited
<1>13. Open' = Open \cup {V}
  BY <1>2, <1>4, <1>12 DEF Open
<1>14. Waiting' = Waiting
  BY DEF Waiting
<1>15. Path' = Path \cup {V}
  <2>1. Path' = {val(k)' : k \in Calls'}
    BY DEF Path
  <2>2. {val(k)' : k \in Calls'} = {val(k) : k \in Calls} \cup {V}
    <3>1. \A k \in Calls' : val(k)' \in {val(x) : x \in Calls} \cup {V}
      BY <1>7, <1>8
    <3>2. \A k \in Calls : val(k) \in {val(x)' : x \in Calls'}
      BY <1>7, <1>8
    <3>3. V \in {val(x)' : x \in Calls'}
      <4> DEFINE k == n + 1
      <4>1. k \in Calls'
        BY <1>7
      <4> QED BY <1>7, <1>8
    <3> QED BY <3>1, <3>2, <3>3
  <2> QED BY <2>1, <2>2 DEF Path
<1>16. \A w \in Open : /\ w \in Values /\ w # V /\ dfs'[w] = dfs[w] /\ root'[w] = root[w]
                       /\ root[w] \in Open /\ root[w] \in Values
                       /\ dfs'[root[w]] = dfs[root[w]]
  <2>1. \A w \in Open : w \in Values /\ w # V /\ root[w] \in Open
    BY <1>1, <1>3, <1>4 DEF Roots
  <2> QED BY <1>3, <1>10, <1>11, <2>1
<1>17. SearchType'
  <2>1. dfs' \in [Values -> -1 .. index' - 1]
    <3>1. index \in -1 .. index' - 1 /\ \A v \in Values : dfs[v] \in -1 .. index' - 1
      <4>1. dfs \in [Values -> -1 .. index - 1]
        BY <1>1 DEF SearchType
      <4>2. \A v \in Values : dfs[v] \in -1 .. index - 1
        BY <4>1
      <4> QED BY <1>2, <1>3, <4>2
    <3>2. DOMAIN dfs = Values
      BY <1>1 DEF SearchType
    <3> QED BY <1>2, <3>1, <3>2
  <2>2. root' \in [Values -> Values] /\ index' \in Nat
    BY <1>1, <1>2, <1>3 DEF SearchType
  <2> QED BY <1>1, <1>2, <1>6, <1>9, <2>1, <2>2 DEF SearchType, CallSet
<1>18. Numbered'
  <2>1. \A v, w \in Visited' : dfs'[v] = dfs'[w] => v = w
    <3>1. \A v \in Visited : v \in Values /\ v # V /\ dfs'[v] = dfs[v] /\ dfs[v] # index
      BY <1>3, <1>4, <1>10
    <3>2. dfs'[V] = index
      BY <1>10
    <3> QED BY <1>1, <1>12, <3>1, <3>2 DEF Numbered
  <2>2. index' = Cardinality(Visited')
    BY <1>1, <1>2, <1>3, <1>4, <1>12, FS_AddElement DEF Numbered
  <2> QED BY <2>1, <2>2 DEF Numbered
<1>19. Split'
  BY <1>1, <1>2, <1>4, <1>12, <1>13, <1>14, <1>15 DEF Split
<1>20. Nested'
  <2>1. ASSUME NEW k \in Calls', NEW l \in Calls', k < l PROVE dfs'[val(k)'] < dfs'[val(l)']
    <3>1. k \in Calls
      BY <1>3, <1>7, <2>1
    <3>2. val(k)' = val(k) /\ val(k) \in Open /\ dfs'[val(k)] = dfs[val(k)]
      BY <1>8, <1>16, <3>1
    <3>3. CASE l \in Calls
      <4>1. val(l)' = val(l) /\ dfs'[val(l)] = dfs[val(l)]
        BY <1>8, <1>16, <3>3
      <4> QED BY <1>1, <2>1, <3>1, <3>2, <3>3, <4>1 DEF Nested
    <3>4. CASE l = n + 1
      <4>1. dfs'[val(l)'] = index
        BY <1>8, <1>10, <3>4
      <4> QED BY <1>3, <1>16, <3>2, <4>1
    <3> QED BY <1>7, <3>3, <3>4
  <2>2. ASSUME NEW k \in Calls'
        PROVE  /\ calls'[k].uses \subseteq useMap[val(k)']
               /\ calls'[k].cur = {}
                  \/ \E u \in useMap[val(k)'] : calls'[k].cur = {u} /\ u \in Visited'
               /\ k < n + 1 => calls'[k].cur = {val(k + 1)'}
    <3>1. CASE k = n + 1
      BY <1>3, <1>8, <3>1
    <3>2. CASE k \in Calls
      <4>1. calls'[k] = stack[k] /\ val(k)' = val(k)
        BY <1>6, <1>8, <3>2
      <4>2. calls'[k].uses \subseteq useMap[val(k)]
        BY <1>1, <3>2, <4>1 DEF Nested
      <4>3. CASE k = n
        <5>1. calls # <<>>
          BY <3>2, <4>3 DEF Calls, n
        <5>2. V \in useMap[val(k)] /\ calls'[k].cur = {V} /\ val(k + 1)' = V
          BY <1>8, <3>2, <4>1, <4>3, <5>1 DEF n
        <5> QED BY <1>12, <4>1, <4>2, <5>2
      <4>4. CASE k # n
        <5>1. k < n /\ k + 1 \in Calls /\ val(k + 1)' = val(k + 1)
          BY <1>7, <1>8, <3>2, <4>4
        <5>2. calls'[k].cur = calls[k].cur
          BY <3>2, <4>1, <4>4 DEF n
        <5>3. /\ calls[k].cur = {} \/ \E u \in useMap[val(k)] : calls[k].cur = {u} /\ u \in Visited
              /\ calls[k].cur = {val(k + 1)}
          BY <1>1, <3>2, <5>1 DEF Nested, n
        <5> QED BY <1>12, <4>1, <4>2, <5>1, <5>2, <5>3
      <4> QED BY <4>3, <4>4
    <3> QED BY <1>7, <3>1, <3>2
  <2> QED BY <1>2, <1>6, <2>1, <2>2 DEF Nested
<1>21. Rooted'
  <2>1. ASSUME NEW w \in Open' PROVE calls' # <<>> /\ dfs'[val(1)'] <= dfs'[w]
    <3>1. CASE w \in Open
      <4>1. calls # <<>> /\ dfs[val(1)] <= dfs[w]
        BY <1>1, <3>1 DEF Rooted
      <4>2. 1 \in Calls
        <5>1. calls \in Seq([value : Values, uses : SUBSET Values, cur : SUBSET Values])
          BY <1>1 DEF SearchType
        <5> QED BY <4>1, <5>1 DEF Calls
      <4>3. val(1)' = val(1) /\ dfs'[val(1)] = dfs[val(1)]
        BY <1>8, <1>16, <4>2
      <4> QED BY <1>6, <1>16, <3>1, <4>1, <4>3
    <3>2. CASE w = V /\ n # 0
      <4>1. 1 \in Calls
        BY <1>3, <3>2 DEF Calls, n
      <4>2. val(1)' = val(1) /\ dfs'[val(1)] = dfs[val(1)] /\ dfs[val(1)] < index
            /\ dfs[val(1)] \in Int
        BY <1>3, <1>8, <1>16, <4>1
      <4>3. dfs'[w] = index
        BY <1>10, <3>2
      <4> QED BY <1>3, <1>6, <4>2, <4>3
    <3>3. CASE w = V /\ n = 0
      <4>1. val(1)' = V
        BY <1>8, <3>3
      <4>2. dfs'[V] \in Int
        BY <1>3, <1>10
      <4> QED BY <1>6, <3>3, <4>1, <4>2
    <3> QED BY <1>13, <3>1, <3>2, <3>3
  <2> QED BY <2>1 DEF Rooted
<1>22. \A i \in 1 .. Len(pilha) : pilha[i] \in Open /\ dfs'[pilha[i]] = dfs[pilha[i]]
  <2>1. \A i \in 1 .. Len(pilha) : pilha[i] \in Waiting
    BY DEF Waiting
  <2> QED BY <1>3, <1>16, <2>1
<1>23. Stacked'
  <2>1. ASSUME NEW p \in Path', NEW i \in 1 .. Len(pilha), NEW j \in 1 .. Len(pilha), i < j,
               dfs'[pilha[i]] > dfs'[p]
        PROVE  dfs'[pilha[j]] > dfs'[p]
    <3>1. CASE p \in Path
      <4>1. dfs'[p] = dfs[p]
        BY <1>3, <1>16, <3>1
      <4> QED BY <1>1, <1>22, <2>1, <3>1, <4>1 DEF Stacked
    <3>2. CASE p = V
      <4>1. dfs'[p] = index /\ dfs[pilha[i]] \in Int /\ dfs[pilha[i]] < index
        BY <1>3, <1>10, <1>16, <1>22, <3>2
      <4> QED BY <1>3, <1>22, <2>1, <4>1
    <3> QED BY <1>15, <3>1, <3>2
  <2> QED BY <2>1 DEF Stacked
<1>24. Below'
  <2>1. ASSUME NEW p \in Path', NEW w \in Open', dfs'[w] >= dfs'[p] PROVE w \in Reaches(p)
    <3>1. CASE p \in Path /\ w \in Open
      <4>1. dfs'[p] = dfs[p] /\ dfs'[w] = dfs[w]
        BY <1>3, <1>16, <3>1
      <4> QED BY <1>1, <2>1, <3>1, <4>1 DEF Below
    <3>2. CASE p \in Path /\ w = V
      <4>1. n \in Calls /\ calls # <<>>
        BY <1>3, <3>2 DEF Path, Calls, n
      <4>2. V \in useMap[val(n)] /\ val(n) \in Open /\ val(n) \in Path
        BY <1>3, <4>1 DEF n
      <4>3. PICK k \in Calls : p = val(k)
        BY <3>2 DEF Path
      <4>4. dfs[val(n)] >= dfs[p]
        <5>1. CASE k = n
          BY <1>3, <4>2, <4>3, <5>1
        <5>2. CASE k # n
          <6>1. k < n
            BY <1>7, <4>3, <5>2
          <6>2. dfs[val(k)] < dfs[val(n)]
            BY <1>1, <4>1, <4>3, <6>1 DEF Nested
          <6>3. dfs[val(k)] \in Int /\ dfs[val(n)] \in Int
            BY <1>3, <4>2, <4>3
          <6> QED BY <4>3, <6>2, <6>3
        <5> QED BY <5>1, <5>2
      <4>5. val(n) \in Order!Reach(useMap, p)
        BY <1>1, <3>2, <4>2, <4>4 DEF Below, Reaches
      <4>6. useMap[val(n)] \subseteq Order!Reach(useMap, p)
        <5>1. p \in DOMAIN useMap
          BY <1>3, <1>5, <3>2
        <5> QED BY <1>5, <4>5, <5>1, ReachOn
      <4> QED BY <3>2, <4>2, <4>6 DEF Reaches
    <3>3. CASE p = V /\ w = V
      <4>1. V \in Order!Reach(useMap, V)
        BY <1>5, ReachIs
      <4> QED BY <3>3, <4>1 DEF Reaches
    <3>4. CASE p = V /\ w \in Open
      <4>1. dfs'[p] = index /\ dfs'[w] = dfs[w] /\ dfs[w] \in Int /\ dfs[w] < index
        BY <1>3, <1>10, <1>16, <3>4
      <4> QED BY <1>3, <2>1, <4>1
    <3> QED BY <1>13, <1>15, <3>1, <3>2, <3>3, <3>4
  <2> QED BY <1>9, <2>1 DEF Below
<1>25. Roots'
  <2>1. ASSUME NEW w \in Open'
        PROVE  root'[w] \in Open' /\ dfs'[root'[w]] <= dfs'[w] /\ root'[w] \in Reaches(w)
    <3>1. CASE w \in Open
      BY <1>1, <1>13, <1>16, <3>1 DEF Roots
    <3>2. CASE w = V
      <4>1. V \in Order!Reach(useMap, V)
        BY <1>5, ReachIs
      <4>2. root'[w] = V /\ dfs'[V] \in Int
        BY <1>3, <1>10, <1>11, <3>2
      <4> QED BY <1>13, <3>2, <4>1, <4>2 DEF Reaches
    <3> QED BY <1>13, <3>1, <3>2
  <2>2. \A w \in Waiting : root'[w] # w
    BY <1>1, <1>3, <1>16 DEF Roots
  <2> QED BY <1>9, <1>14, <2>1, <2>2 DEF Roots
<1>26. Edges'
  <2> DEFINE Seen1(w, u) == u \in inComponent \/ (u \in Visited' /\ dfs'[root'[w]] <= dfs'[u])
  <2>1. ASSUME NEW w \in Open, NEW u \in useMap[w], SeenEdge(w, u) PROVE Seen1(w, u)
    <3>1. CASE u \in inComponent
      BY <3>1
    <3>2. CASE u \notin inComponent
      <4>1. u \in Open /\ dfs[root[w]] <= dfs[u]
        BY <2>1, <3>2 DEF SeenEdge, Open
      <4> QED BY <1>3, <1>12, <1>16, <4>1
    <3> QED BY <3>1, <3>2
  <2> HIDE DEF Seen1
  <2>2. ASSUME NEW k \in Calls', NEW u \in useMap[val(k)']
        PROVE  u \in calls'[k].uses \cup calls'[k].cur \/ Seen1(val(k)', u)
    <3>1. CASE k = n + 1
      BY <1>8, <3>1
    <3>2. CASE k \in Calls
      <4>1. /\ val(k)' = val(k) /\ val(k) \in Open
            /\ calls'[k].uses \cup calls'[k].cur = calls[k].uses \cup calls[k].cur
        BY <1>6, <1>8, <3>2
      <4>2. u \in calls[k].uses \cup calls[k].cur \/ SeenEdge(val(k), u)
        BY <1>1, <3>2, <4>1 DEF Edges
      <4> QED BY <2>1, <4>1, <4>2
    <3> QED BY <1>7, <3>1, <3>2
  <2>3. \A w \in Waiting : \A u \in useMap[w] : Seen1(w, u)
    BY <1>1, <1>3, <2>1 DEF Edges
  <2>4. \A w \in inComponent : useMap[w] \subseteq inComponent
    BY <1>1 DEF Edges
  <2> QED BY <1>2, <1>14, <2>2, <2>3, <2>4 DEF Edges, SeenEdge, Seen1
<1>27. Passed'
  <2>1. ASSUME NEW k \in Calls', NEW w \in Waiting', dfs'[val(k)'] < dfs'[w],
               k < n + 1 => dfs'[w] < dfs'[val(k + 1)']
        PROVE  dfs'[root'[val(k)']] <= dfs'[root'[w]]
    <3>1. /\ w \in Waiting /\ w \in Open /\ dfs'[w] = dfs[w] /\ dfs[w] \in Int /\ dfs[w] < index
          /\ root'[w] = root[w] /\ dfs'[root[w]] = dfs[root[w]]
      BY <1>3, <1>14, <1>16
    <3>2. k \in Calls
      <4>1. SUFFICES ASSUME k = n + 1 PROVE FALSE
        BY <1>7
      <4>2. dfs'[val(k)'] = index
        BY <1>8, <1>10, <4>1
      <4> QED BY <1>3, <2>1, <3>1, <4>2
    <3>3. /\ val(k)' = val(k) /\ val(k) \in Open /\ dfs'[val(k)] = dfs[val(k)]
          /\ root'[val(k)] = root[val(k)] /\ dfs'[root[val(k)]] = dfs[root[val(k)]]
      BY <1>8, <1>16, <3>2
    <3>4. k < n => dfs[w] < dfs[val(k + 1)]
      <4>1. SUFFICES ASSUME k < n PROVE dfs[w] < dfs[val(k + 1)]
        OBVIOUS
      <4>2. k + 1 \in Calls /\ k < n + 1
        BY <1>3, <1>7, <3>2, <4>1
      <4>3. val(k + 1)' = val(k + 1) /\ dfs'[val(k + 1)] = dfs[val(k + 1)]
        BY <1>8, <1>16, <4>2
      <4> QED BY <2>1, <3>1, <4>2, <4>3
    <3>5. k = n => calls[k].cur = {}
      <4>1. calls # <<>>
        BY <3>2 DEF Calls
      <4> QED BY <4>1 DEF n
    <3>6. dfs[root[val(k)]] <= dfs[root[w]]
      BY <1>1, <2>1, <3>1, <3>2, <3>3, <3>4, <3>5 DEF Passed, n
    <3> QED BY <3>1, <3>3, <3>6
  <2>2. Len(calls') = n + 1
    BY <1>6
  <2> QED BY <2>1, <2>2 DEF Passed
<1>28. Closed'
  BY <1>1, <1>2, <1>9 DEF Closed
<1> QED BY <1>17, <1>18, <1>19, <1>20, <1>21, <1>23, <1>24, <1>25, <1>26, <1>27, <1>28
        DEF SearchInv

LEMMA BeginKeeps ==
  ASSUME SearchInv, NEW V \in Values, Begin(V)
  PROVE  SearchInv'
<1>1. SearchType /\ Split /\ Rooted /\ calls = <<>>
  BY DEF SearchInv, Begin
<1>2. pilha = <<>>
  <2>1. Open = {}
    BY <1>1 DEF Rooted
  <2>2. Waiting = {}
    BY <1>1, <2>1 DEF Split
  <2>3. pilha \in Seq(Values)
    BY <1>1 DEF SearchType
  <2> QED BY <2>2, <2>3 DEF Waiting
<1>3. <<>> \in Seq(CallSet) /\ Len(<<>>) = 0 /\ Calls = {}
  BY <1>1 DEF Calls
<1>4. /\ dfs[V] < 0 /\ Enter(V, <<>>) /\ pilha' = pilha
      /\ UNCHANGED <<useMap, inComponent, components, worklist>>
  BY <1>1, <1>2 DEF Begin
<1> QED BY <1>1, <1>3, <1>4, EnterKeeps

LEMMA DescendKeeps ==
  ASSUME SearchInv, NEW V \in Values, Descend(V)
  PROVE  SearchInv'
<1> DEFINE t == Append(Front(calls), Take(V))
<1>1. calls # <<>> /\ ~Seeing /\ V \in Top.uses
  BY DEF Descend
<1>2. /\ t \in Seq(CallSet) /\ Len(t) = Len(calls)
      /\ V \in useMap[val(Len(calls))] /\ calls[Len(calls)].cur = {}
      /\ \A k \in Calls :
           /\ t[k].value = val(k) /\ t[k].uses \subseteq calls[k].uses
           /\ t[k].cur = IF k = Len(calls) THEN {V} ELSE calls[k].cur
           /\ t[k].uses \cup t[k].cur = calls[k].uses \cup calls[k].cur
  BY <1>1, TakenCalls
<1>3. /\ dfs[V] < 0 /\ Enter(V, t) /\ pilha' = pilha
      /\ UNCHANGED <<useMap, inComponent, components, worklist>>
  BY DEF Descend
<1> HIDE DEF t
<1> QED BY <1>2, <1>3, EnterKeeps

-----------------------------------------------------------------------------
(***************************************************************************)
(* All steps together.                                                     *)
(***************************************************************************)
LEMMA InitSearches ==
  ASSUME Init PROVE SearchInv
<1>1. /\ useMap \in Graphs /\ index = 0 /\ inComponent = {}
      /\ worklist = <<>> /\ pilha = <<>> /\ calls = <<>>
      /\ dfs = [V \in Values |-> -1] /\ root = [V \in Values |-> V]
      /\ components = [V \in Values |-> {}]
  BY DEF Init
<1>2. Visited = {} /\ Open = {} /\ Calls = {} /\ Path = {} /\ Waiting = {}
  BY <1>1 DEF Visited, Open, Calls, Path, Waiting
<1>3. SearchType
  BY <1>1 DEF SearchType
<1>4. Numbered
  BY <1>1, <1>2, FS_EmptySet DEF Numbered
<1>5. Split /\ Nested /\ Rooted /\ Stacked /\ Below /\ Roots /\ Passed
  BY <1>1, <1>2 DEF Split, Nested, Rooted, Stacked, Below, Roots, Passed
<1>6. Edges /\ Closed
  BY <1>1, <1>2 DEF Edges, Closed
<1> QED BY <1>3, <1>4, <1>5, <1>6 DEF SearchInv

LEMMA NextKeeps ==
  ASSUME SearchInv, [Next]_vars PROVE SearchInv'
<1>1. CASE Next
  <2>1. ASSUME NEW V \in Values, Begin(V) PROVE SearchInv'
    BY <2>1, BeginKeeps
  <2>2. ASSUME NEW V \in Values, Descend(V) PROVE SearchInv'
    BY <2>2, DescendKeeps
  <2>3. ASSUME NEW V \in Values, Look(V) PROVE SearchInv'
    BY <2>3, LookKeeps
  <2>4. CASE Lower
    BY <2>4, LowerKeeps
  <2>5. CASE CloseComponent
    BY <2>5, CloseKeeps
  <2>6. CASE Wait
    BY <2>6, WaitKeeps
  <2> QED BY <1>1, <2>1, <2>2, <2>3, <2>4, <2>5, <2>6 DEF Next
<1>2. CASE UNCHANGED vars
  <2>1. /\ useMap' = useMap /\ index' = index /\ dfs' = dfs /\ root' = root
        /\ inComponent' = inComponent /\ components' = components
        /\ worklist' = worklist /\ pilha' = pilha /\ calls' = calls
    BY <1>2 DEF vars
  <2>2. /\ Values' = Values /\ Visited' = Visited /\ Open' = Open /\ Calls' = Calls
        /\ Waiting' = Waiting /\ (\A k : val(k)' = val(k)) /\ (\A v : Reaches(v)' = Reaches(v))
    BY <2>1 DEF Values, Visited, Open, Calls, Waiting, val, Reaches
  <2>3. Path' = Path
    BY <2>2 DEF Path
  <2>4. SearchType' /\ Numbered' /\ Split' /\ Nested' /\ Rooted' /\ Stacked'
    BY <2>1, <2>2, <2>3 DEF SearchInv, SearchType, Numbered, Split, Nested, Rooted, Stacked
  <2>5. Below' /\ Roots' /\ Closed'
    BY <2>1, <2>2, <2>3 DEF SearchInv, Below, Roots, Closed
  <2>6. Edges' /\ Passed'
    BY <2>1, <2>2, <2>3 DEF SearchInv, Edges, SeenEdge, Passed
  <2> QED BY <2>4, <2>5, <2>6 DEF SearchInv
<1> QED BY <1>1, <1>2

THEOREM SearchIsSound == Spec => []SearchInv
<1>1. Init => SearchInv
  BY InitSearches
<1>2. SearchInv /\ [Next]_vars => SearchInv'
  BY NextKeeps
<1> QED BY <1>1, <1>2, PTL DEF Spec

(***************************************************************************)
(* The bookkeeping has its types, and what waits is visited and in no      *)
(* component.                                                              *)
(***************************************************************************)
THEOREM SearchIsTyped == Spec => []TypeOK
<1>1. ASSUME SearchInv PROVE TypeOK
  <2>1. SearchType /\ Numbered /\ Split /\ Closed
    BY <1>1 DEF SearchInv
  <2>2. index <= Cardinality(Values)
    <3>1. IsFiniteSet(Values) /\ Visited \subseteq Values
      BY <2>1, GraphOf, VisitedType DEF IsGraph, Values
    <3>2. Cardinality(Visited) <= Cardinality(Values)
      BY <3>1, FS_Subset
    <3> QED BY <2>1, <3>2 DEF Numbered
  <2>3. \A i \in DOMAIN pilha : dfs[pilha[i]] >= 0 /\ pilha[i] \notin inComponent
    <3>1. DOMAIN pilha = 1 .. Len(pilha)
      BY <2>1 DEF SearchType
    <3>2. \A i \in DOMAIN pilha : pilha[i] \in Open
      BY <2>1, <3>1, OpenType
    <3> QED BY <3>2 DEF Open, Visited
  <2> QED BY <2>1, <2>2, <2>3 DEF TypeOK, SearchType, Closed
<1> QED BY <1>1, SearchIsSound, PTL

-----------------------------------------------------------------------------
(***************************************************************************)
(* The list of components is one that SccOrder allows: the step that       *)
(* closes a component lists it, and all other steps leave the list alone.  *)
(***************************************************************************)
Listing == [i \in DOMAIN worklist |-> components[worklist[i]]]

LEMMA ListedAre == ASSUME SearchInv PROVE UNION {Listing[i] : i \in DOMAIN Listing} = inComponent
<1>1. inComponent = UNION {components[worklist[i]] : i \in 1 .. Len(worklist)}
  BY DEF SearchInv, Closed
<1>2. DOMAIN worklist = 1 .. Len(worklist)
  BY DEF SearchInv, SearchType
<1> QED BY <1>1, <1>2 DEF Listing

LEMMA CloseLists ==
  ASSUME SearchInv, CloseComponent
  PROVE  \E C \in SUBSET (DOMAIN useMap \ UNION {Listing[i] : i \in DOMAIN Listing}) :
           /\ Listing' = Append(Listing, C)
           /\ \E v \in C : C = Order!Component(useMap, v)
           /\ \A v \in C : useMap[v] \subseteq C \cup UNION {Listing[i] : i \in DOMAIN Listing}
           /\ useMap' = useMap
<1> DEFINE V == val(Len(calls))
           S == Taken(V)
           m == Len(worklist)
<1>1. SearchType /\ Split /\ Closed
  BY DEF SearchInv
<1>2. /\ Seen /\ root[V] = V /\ calls' = Front(calls)
      /\ worklist' = Append(worklist, V)
      /\ components' = [components EXCEPT ![V] = S]
      /\ useMap' = useMap
  BY ClosedTakes
<1>3. S \subseteq Open /\ \A w \in S : useMap[w] \subseteq S \cup inComponent
  BY <1>2, TakenIsWhole
<1>4. S = Order!Component(useMap, V)
  BY <1>2, TakenIsComponent
<1>5. V \in S /\ Open \subseteq Values \ inComponent
  BY <1>1, OpenType, VisitedType DEF Taken, Open
<1> HIDE DEF V, S
<1>6. S \subseteq Values \ inComponent /\ V \in Values /\ V \notin inComponent
  BY <1>3, <1>5
<1>7. UNION {Listing[i] : i \in DOMAIN Listing} = inComponent
  BY ListedAre
<1>8. Listing' = Append(Listing, S)
  <2>1. worklist \in Seq(Values) /\ components \in [Values -> SUBSET Values]
    BY <1>1 DEF SearchType
  <2>2. /\ m \in Nat /\ DOMAIN worklist = 1 .. m /\ DOMAIN worklist' = 1 .. m + 1
        /\ \A i \in 1 .. m : /\ worklist'[i] = worklist[i] /\ worklist[i] \in Values
                             /\ worklist[i] # V
        /\ worklist'[m + 1] = V
    BY <1>1, <1>2, <1>6, <2>1 DEF Closed
  <2> HIDE DEF m
  <2>3. \A v \in Values : components'[v] = IF v = V THEN S ELSE components[v]
    BY <1>2, <2>1
  <2>4. /\ \A i \in 1 .. m : components'[worklist'[i]] = components[worklist[i]]
        /\ components'[worklist'[m + 1]] = S
    BY <1>6, <2>2, <2>3
  <2>5. Listing \in Seq(SUBSET Values) /\ Len(Listing) = m
        /\ \A i \in 1 .. m : Listing[i] = components[worklist[i]]
    <3>1. \A i \in 1 .. m : components[worklist[i]] \in SUBSET Values
      BY <2>1, <2>2
    <3>2. Listing = [i \in 1 .. m |-> components[worklist[i]]]
      BY <2>2 DEF Listing
    <3> QED BY <2>2, <3>1, <3>2
  <2>6. Listing' = [i \in 1 .. m + 1 |-> components'[worklist'[i]]]
    BY <2>2 DEF Listing
  <2> DEFINE t == Append(Listing, S)
  <2>7. t \in Seq(SUBSET Values) /\ Len(t) = m + 1
        /\ \A i \in 1 .. m + 1 : t[i] = components'[worklist'[i]]
    <3>1. S \in SUBSET Values
      BY <1>6
    <3>2. t \in Seq(SUBSET Values) /\ Len(t) = m + 1
          /\ (\A i \in 1 .. m : t[i] = Listing[i]) /\ t[m + 1] = S
      BY <2>5, <3>1, AppendTo
    <3>3. \A i \in 1 .. m + 1 : i \in 1 .. m \/ i = m + 1
      BY <2>2
    <3> HIDE DEF t
    <3> QED BY <2>4, <2>5, <3>2, <3>3
  <2> HIDE DEF t
  <2>8. t = [i \in 1 .. m + 1 |-> t[i]]
    BY <2>7
  <2>9. t = Listing'
    BY <2>6, <2>7, <2>8
  <2> QED BY <2>9 DEF t
<1>9. S \in SUBSET (DOMAIN useMap \ inComponent)
  BY <1>6 DEF Values
<1> QED BY <1>2, <1>3, <1>4, <1>5, <1>7, <1>8, <1>9

(***************************************************************************)
(* The list that findIntervals reads holds the strongly connected          *)
(* components, each once and whole, every one after all those that it has  *)
(* edges to.                                                               *)
(***************************************************************************)
THEOREM SearchOrdersComponents == Spec => ComponentsInOrder
<1>1. ASSUME Init PROVE Order!Init
  <2>1. useMap \in Graphs /\ worklist = <<>>
    BY <1>1 DEF Init
  <2>2. [i \in DOMAIN worklist |-> components[worklist[i]]] = <<>>
    BY <2>1
  <2> QED BY <2>1, <2>2 DEF Order!Init
<1>2. ASSUME SearchInv, [Next]_vars PROVE [Order!Next]_(Order!vars)
  <2>1. CASE CloseComponent
    <3>1. Order!Listed = UNION {Listing[i] : i \in DOMAIN Listing}
      BY DEF Order!Listed, Listing
    <3>2. PICK C \in SUBSET (DOMAIN useMap \ Order!Listed) :
             /\ Listing' = Append(Listing, C)
             /\ \E v \in C : C = Order!Component(useMap, v)
             /\ \A v \in C : useMap[v] \subseteq C \cup Order!Listed
             /\ useMap' = useMap
      BY <1>2, <2>1, <3>1, CloseLists
    <3>3. Order!List(C)
      BY <3>2 DEF Order!List, Listing
    <3> QED BY <3>3 DEF Order!Next
  <2>2. CASE ~CloseComponent
    <3>1. useMap' = useMap /\ worklist' = worklist /\ components' = components
      BY <1>2, <2>2 DEF Next, vars, Begin, Descend, Look, Lower, Wait
    <3> QED BY <3>1 DEF Order!vars
  <2> QED BY <2>1, <2>2
<1> QED BY <1>1, <1>2, SearchIsSound, PTL DEF Spec, ComponentsInOrder, Order!Spec
=============================================================================
