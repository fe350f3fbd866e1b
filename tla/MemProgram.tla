----------------------------- MODULE MemProgram -----------------------------
(***************************************************************************)
(* The program under test, as the memory-safety instrumentation sees it:   *)
(* the memory that its allocations, frames and scopes really own.  Nothing *)
(* of the instrumentation is in this module.  MemJudge judges the        *)
(* program's operations by this memory; MemSafety judges them by the       *)
(* record lists of memsafety.c.                                            *)
(***************************************************************************)
EXTENDS RecordLists

CONSTANTS
  HeapAddr, StackAddr, GlobalAddr,  \* the addresses of the three regions
  MaxSize,                          \* the largest object (bound)
  MaxDepth,                         \* the deepest call stack (bound)
  MallocReuse, ReallocReuse         \* how freed addresses are handed out again

Addr == HeapAddr \cup StackAddr \cup GlobalAddr
Sizes == 0 .. MaxSize
Policies == {"none", "exact", "any"}

ASSUME AddrAssumption ==
  /\ HeapAddr \subseteq Nat \ {NULL}
  /\ StackAddr \subseteq Nat \ {NULL}
  /\ GlobalAddr \subseteq Nat \ {NULL}
  /\ HeapAddr \cap StackAddr = {}
  /\ HeapAddr \cap GlobalAddr = {}
  /\ StackAddr \cap GlobalAddr = {}

ASSUME BoundAssumption ==
  /\ MaxSize \in Nat
  /\ MaxDepth \in Nat \ {0}
  /\ MallocReuse \in Policies
  /\ ReallocReuse \in Policies

VARIABLES
  heapMem,    \* the live blocks of malloc, calloc and realloc
  freedMem,   \* the blocks given to free() and not handed out again
  movedMem,   \* those that realloc freed by moving them, not handed out again
  stackMem,   \* the stack objects of the active frames, with frame and scope
  globalMem,  \* the global variables
  depth       \* active frames: 0 before main, 1 in main

memVars == <<heapMem, freedMem, movedMem, stackMem, globalMem, depth>>

Block(p, n) == [id |-> p, size |-> n]
BlockSet(region) == [id : region, size : Sizes]

Fits(b, region) == b.id .. (b.id + Extent(b) - 1) \subseteq region

(* The stack objects whose scope is open.                                  *)
Open(s) == [id |-> s.id, size |-> s.size]
OpenStack == {Open(s) : s \in {x \in stackMem : x.live}}

MemTypeOK ==
  /\ heapMem \subseteq BlockSet(HeapAddr)
  /\ freedMem \subseteq BlockSet(HeapAddr) /\ movedMem \subseteq BlockSet(HeapAddr)
  /\ stackMem \subseteq [id : StackAddr, size : Sizes, frame : 1 .. MaxDepth,
                         live : BOOLEAN]
  /\ globalMem \subseteq BlockSet(GlobalAddr)
  /\ depth \in 0 .. MaxDepth

MemInit ==
  /\ heapMem = {} /\ freedMem = {} /\ movedMem = {}
  /\ stackMem = {} /\ globalMem = {}
  /\ depth = 0

(***************************************************************************)
(* The allocator.  A new block lies on heap addresses that no live block   *)
(* has; what it may do with addresses that free() was given is the policy. *)
(* Those that a realloc left may be handed out again in any way.           *)
(***************************************************************************)
MayReuse(policy, b) ==
  CASE policy = "none"  -> \A f \in freedMem : Disjoint(f, b)
    [] policy = "exact" -> \A f \in freedMem : f = b \/ Disjoint(f, b)
    [] policy = "any"   -> TRUE

Free4Use(b, taken) == Fits(b, HeapAddr) /\ \A o \in taken : Disjoint(o, b)
StillFreed(b) == {f \in freedMem : Disjoint(f, b)}
StillMoved(b) == {m \in movedMem : Disjoint(m, b)}

ProgMalloc(b) ==
  /\ Free4Use(b, heapMem)
  /\ MayReuse(MallocReuse, b)
  /\ heapMem' = heapMem \cup {b}
  /\ freedMem' = StillFreed(b) /\ movedMem' = StillMoved(b)
  /\ UNCHANGED <<stackMem, globalMem, depth>>

ProgFree(p) ==
  /\ heapMem' = {b \in heapMem : b.id # p}
  /\ freedMem' = freedMem \cup {b \in heapMem : b.id = p}
  /\ UNCHANGED <<movedMem, stackMem, globalMem, depth>>

(* realloc(p) of p = NULL allocates; of a live block it resizes in place   *)
(* or moves the block while the old one still stands, and then frees that. *)
ProgRealloc(p, b) ==
  /\ IF \E o \in heapMem : o.id = b.id /\ o.id = p
       THEN Free4Use(b, {o \in heapMem : o.id # p})
       ELSE Free4Use(b, heapMem)
  /\ MayReuse(ReallocReuse, b)
  /\ heapMem' = {o \in heapMem : o.id # p} \cup {b}
  /\ freedMem' = StillFreed(b)
  /\ movedMem' = StillMoved(b) \cup {o \in heapMem : o.id = p /\ p # b.id}
  /\ UNCHANGED <<stackMem, globalMem, depth>>

(***************************************************************************)
(* Frames, scopes and globals.                                             *)
(***************************************************************************)
ProgGlobal(b) ==
  /\ depth = 0
  /\ Fits(b, GlobalAddr) /\ \A o \in globalMem : Disjoint(o, b)
  /\ globalMem' = globalMem \cup {b}
  /\ UNCHANGED <<heapMem, freedMem, movedMem, stackMem, depth>>

ProgEnter ==
  /\ depth < MaxDepth
  /\ depth' = depth + 1
  /\ UNCHANGED <<heapMem, freedMem, movedMem, stackMem, globalMem>>

ProgLeave ==
  /\ depth > 0
  /\ depth' = depth - 1
  /\ stackMem' = {s \in stackMem : s.frame < depth}
  /\ UNCHANGED <<heapMem, freedMem, movedMem, globalMem>>

ProgAlloca(b) ==
  /\ depth > 0
  /\ Fits(b, StackAddr) /\ \A s \in stackMem : Disjoint(Open(s), b)
  /\ stackMem' = stackMem \cup
       {[id |-> b.id, size |-> b.size, frame |-> depth, live |-> TRUE]}
  /\ UNCHANGED <<heapMem, freedMem, movedMem, globalMem, depth>>

ProgScope(s, open) ==
  /\ s.frame = depth /\ s.live # open
  /\ stackMem' = (stackMem \ {s}) \cup {[s EXCEPT !.live = open]}
  /\ UNCHANGED <<heapMem, freedMem, movedMem, globalMem, depth>>
=============================================================================
