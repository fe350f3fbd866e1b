---------------------------- MODULE LinkedLists ------------------------------
(***************************************************************************)
(* The four lists of memsafety.c as they lie in memory: nodes with links   *)
(* in both directions, allocated and freed.  Each function of the monitor  *)
(* is an action, the loop of __INSTR_destroy_allocas is taken node by      *)
(* node.  It implements MonitorCalls, where a list is a sequence.          *)
(***************************************************************************)
EXTENDS RecordLists, FiniteSets

CONSTANTS
  Nodes,         \* the places that malloc may give to a node (bound)
  Ids, Sizes,    \* the addresses and sizes that calls may name
  MaxFlag        \* the most flags on a node (bound)

ASSUME NodesAssumption == IsFiniteSet(Nodes) /\ NULL \notin Nodes
ASSUME FlagAssumption == MaxFlag \in Nat

VARIABLES
  mem,           \* the nodes' contents and the heads of the lists
  allocated,     \* the nodes that are allocated
  returning,     \* is __INSTR_destroy_allocas in its loop
  cur            \* its cursor

vars == <<mem, allocated, returning, cur>>

Names == {"heap_list", "stack_list", "deallocated_list", "globals_list"}
Pointers == Nodes \cup {NULL}

Fresh(p, n) == [flag |-> 0, id |-> p, size |-> n, next |-> NULL, prev |-> NULL]
(* What is left in a freed node; nothing may depend on it.                 *)
Scrap == Fresh(NULL, 0)

(* The nodes one meets from c on, at most as many as there are.            *)
Chain(m, c) ==
  LET walk[k \in 0 .. Cardinality(Nodes)] ==
        [d \in Pointers |->
           IF d = NULL \/ k = 0 THEN <<>> ELSE Cons(d, walk[k - 1][m.at[d].next])]
  IN walk[Cardinality(Nodes)][c]

list_search_node(list, p) ==
  LET chain == Chain(mem, mem[list])
      i == SelectInSeq(chain, LAMBDA c : Covers(mem.at[c], p))
  IN IF i = 0 THEN NULL ELSE chain[i]

list_prepend(m, n, list) ==
  LET old == m[list]
      behind == IF old # NULL THEN [m EXCEPT !.at[old].prev = n] ELSE m
  IN [behind EXCEPT !.at[n].next = old, !.at[n].prev = NULL, ![list] = n]

(* Fault: the head of the list stays when its first node goes.             *)
detach_node_keeps_head(m, n, list) ==
  LET next == m.at[n].next  prev == m.at[n].prev
      skipped == IF prev # NULL THEN [m EXCEPT !.at[prev].next = next] ELSE m
      closed == IF next # NULL THEN [skipped EXCEPT !.at[next].prev = prev] ELSE skipped
  IN [closed EXCEPT !.at[n].next = NULL, !.at[n].prev = NULL]
detach_node(m, n, list) ==
  LET next == m.at[n].next  prev == m.at[n].prev
      skipped == IF prev # NULL THEN [m EXCEPT !.at[prev].next = next]
                                ELSE [m EXCEPT ![list] = next]
      closed == IF next # NULL THEN [skipped EXCEPT !.at[next].prev = prev] ELSE skipped
  IN [closed EXCEPT !.at[n].next = NULL, !.at[n].prev = NULL]

move(m, n, from, to) == list_prepend(detach_node(m, n, from), n, to)
erase(m, n) == [m EXCEPT !.at[n] = Scrap]

Call == ~returning /\ UNCHANGED <<returning, cur>>

(* rec_create_heap and its like.                                           *)
Create(list, p, n) ==
  \E c \in Nodes \ allocated :
    /\ mem' = list_prepend([mem EXCEPT !.at[c] = Fresh(p, n)], c, list)
    /\ allocated' = allocated \cup {c}

(* What is done with an address that its own list does not cover.          *)
Adopt(list, p, n) ==
  LET c == list_search_node("deallocated_list", p)
  IN IF c # NULL THEN mem' = move(mem, c, "deallocated_list", list) /\ UNCHANGED allocated
                 ELSE Create(list, p, n)

Init ==
  /\ mem = [heap_list |-> NULL, stack_list |-> NULL, deallocated_list |-> NULL,
            globals_list |-> NULL, at |-> [c \in Nodes |-> Scrap]]
  /\ allocated = {}
  /\ returning = FALSE /\ cur = NULL

remember_malloc_calloc(p, n) ==
  /\ Call
  /\ p # NULL /\ list_search_node("heap_list", p) = NULL
  /\ Adopt("heap_list", p, n)

(* __INSTR_remember and __INSTR_remember_global.                           *)
remember(list, p, n) ==
  LET c == list_search_node(list, p) IN
  /\ Call
  /\ \/ c # NULL /\ mem' = [mem EXCEPT !.at[c].size = n] /\ UNCHANGED allocated
     \/ c = NULL /\ Adopt(list, p, n)

free(p) ==
  LET c == list_search_node("heap_list", p) IN
  /\ Call
  /\ p # NULL /\ c # NULL /\ mem.at[c].id = p
  /\ mem' = move(mem, c, "heap_list", "deallocated_list")
  /\ UNCHANGED allocated

(* The new node is made first; then the old one is detached and freed.     *)
realloc(old, new, size) ==
  LET c == list_search_node("heap_list", old) IN
  /\ Call
  /\ new # NULL
  /\ \/ old = NULL /\ Create("heap_list", new, size)
     \/ /\ old # NULL /\ c # NULL
        /\ \E d \in Nodes \ allocated :
             LET made == list_prepend([mem EXCEPT !.at[d] = Fresh(new, size)], d, "heap_list") IN
             /\ mem' = erase(detach_node(made, c, "heap_list"), c)
             /\ allocated' = (allocated \cup {d}) \ {c}

destroy(p) ==
  LET c == list_search_node("stack_list", p) IN
  /\ Call
  /\ c # NULL
  /\ mem' = erase(detach_node(mem, c, "stack_list"), c)
  /\ allocated' = allocated \ {c}

set_flag ==
  LET c == mem.stack_list IN
  /\ Call
  /\ c # NULL /\ mem.at[c].flag < MaxFlag
  /\ mem' = [mem EXCEPT !.at[c].flag = @ + 1]
  /\ UNCHANGED allocated

(* __INSTR_destroy_allocas: its start, one round of its loop, its end.     *)
destroy_allocas ==
  /\ ~returning
  /\ returning' = TRUE /\ cur' = mem.stack_list
  /\ UNCHANGED <<mem, allocated>>

DropNode ==
  /\ returning /\ cur # NULL /\ mem.at[cur].flag = 0
  /\ cur' = mem.at[cur].next
  /\ mem' = erase(mem, cur) /\ allocated' = allocated \ {cur}
  /\ UNCHANGED returning

(* Fault: the new head points back.                                        *)
LowerFlag_points_back ==
  /\ returning /\ cur # NULL /\ mem.at[cur].flag > 0
  /\ mem' = [mem EXCEPT !.at[cur].flag = @ - 1, !.stack_list = cur]
  /\ returning' = FALSE /\ cur' = NULL
  /\ UNCHANGED allocated
LowerFlag ==
  /\ returning /\ cur # NULL /\ mem.at[cur].flag > 0
  /\ mem' = [mem EXCEPT !.at[cur].flag = @ - 1, !.at[cur].prev = NULL, !.stack_list = cur]
  /\ returning' = FALSE /\ cur' = NULL
  /\ UNCHANGED allocated
NoneLeft ==
  /\ returning /\ cur = NULL
  /\ mem' = [mem EXCEPT !.stack_list = NULL]
  /\ returning' = FALSE
  /\ UNCHANGED <<allocated, cur>>

Next ==
  \/ \E p \in Ids, n \in Sizes :
       \/ remember_malloc_calloc(p, n)
       \/ remember("stack_list", p, n) \/ remember("globals_list", p, n)
       \/ \E old \in Ids \cup {NULL} : realloc(old, p, n)
  \/ \E p \in Ids : free(p) \/ destroy(p)
  \/ set_flag
  \/ destroy_allocas \/ DropNode \/ LowerFlag \/ NoneLeft

Spec == Init /\ [][Next]_vars

-----------------------------------------------------------------------------
(* Links lead to nodes; the flags count.                                   *)
LinksLead ==
  /\ \A l \in Names : mem[l] \in Pointers
  /\ mem.at \in [Nodes -> [flag : 0 .. MaxFlag, id : Ids \cup {NULL}, size : Sizes \cup {0},
                           next : Pointers, prev : Pointers]]
  /\ allocated \subseteq Nodes
  /\ returning \in BOOLEAN /\ cur \in Pointers

(* The first node of a list; of the stack, while nodes are dropped, the    *)
(* one that the cursor has come to.                                        *)
First(list) == IF list = "stack_list" /\ returning THEN cur ELSE mem[list]

(* Forward and backward links agree and a head has none back, so that a    *)
(* node can be detached wherever it is; every allocated node is in exactly *)
(* one list, and no list leads to a freed one (memsafety.c:51-58, 127-147, *)
(* 434-450).  While the loop runs, its cursor points back to a freed node. *)
WellLinked ==
  /\ LinksLead
  /\ \A l \in Names :
       LET chain == Chain(mem, First(l)) IN
       \A i \in DOMAIN chain :
         IF i > 1 THEN mem.at[chain[i]].prev = chain[i - 1]
                  ELSE mem.at[chain[1]].prev = NULL \/ (returning /\ chain[1] = cur)
  /\ \A c \in Nodes :
       c \in allocated <=> \E l \in Names : c \in ToSet(Chain(mem, First(l)))
  /\ \A k, l \in Names :
       k # l => ToSet(Chain(mem, First(k))) \cap ToSet(Chain(mem, First(l))) = {}
  /\ \A l \in Names : IsInjective(Chain(mem, First(l)))

(* The records along a chain.                                              *)
Recorded(node) == [id |-> node.id, size |-> node.size, flag |-> node.flag]
Records(m, c) ==
  LET chain == Chain(m, c) IN [i \in DOMAIN chain |-> Recorded(m.at[chain[i]])]

(* The lists as values.  A return has its effect when it begins: what is   *)
(* left to drop does not count any more.                                   *)
AtCursor == INSTANCE MonitorLists WITH
  heap_list <- <<>>, stack_list <- Records(mem, cur), deallocated_list <- <<>>, globals_list <- <<>>
Lists == INSTANCE MonitorCalls WITH
  heap_list <- Records(mem, mem.heap_list),
  stack_list <- IF returning THEN AtCursor!destroy_allocas ELSE Records(mem, mem.stack_list),
  deallocated_list <- Records(mem, mem.deallocated_list),
  globals_list <- Records(mem, mem.globals_list)

(* On its links the monitor does what MonitorLists says of sequences, in   *)
(* every order of calls.                                                   *)
ImplementsLists == Lists!Spec
=============================================================================
