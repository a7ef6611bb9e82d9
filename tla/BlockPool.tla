------------------------------ MODULE BlockPool ------------------------------
(***************************************************************************)
(* The pool of blocks of the concurrent queue: an array that is given out  *)
(* once, and FreeList, the lock-free stack of the array's blocks that came *)
(* back.  A block that was allocated later is destroyed when it comes back *)
(* (RECYCLE_ALLOCATED_BLOCKS is false) and never enters the stack.         *)
(*                                                                         *)
(* One action per atomic access, interleaved (see the README).             *)
(***************************************************************************)
EXTENDS Integers, FiniteSets

CONSTANTS
  Users,                \* the threads
  initialBlockPoolSize,
  SHOULD_BE_ON_FREELIST \* the top bit of a node's counter

ASSUME PoolAssumption ==
  /\ initialBlockPoolSize \in Nat
  /\ SHOULD_BE_ON_FREELIST \in Nat
  /\ IsFiniteSet(Users) /\ SHOULD_BE_ON_FREELIST > Cardinality(Users) + 1

null == 0
Nodes == 1 .. initialBlockPoolSize

VARIABLES
  initialBlockPoolIndex,
  freeListHead,
  freeListRefs, freeListNext,  \* of each node
  used,                        \* history: the blocks that are out of the pool
  at,                          \* per thread, where it is,
  head, refs, next, node       \* and its locals (node: the one it adds, its prevHead)

poolVars == << initialBlockPoolIndex, freeListHead, freeListRefs, freeListNext,
               used, at, head, refs, next, node >>
locals == << head, refs, next, node >>
list == << freeListHead, freeListNext >>

Proceed(t, l) == at' = [at EXCEPT ![t] = l]

\* REFS_MASK
Count(r) == r % SHOULD_BE_ON_FREELIST
ShouldBeOnFreeList(r) == r >= SHOULD_BE_ON_FREELIST

\* Goes on at l with the local h; the other locals are dead.
Continue(t, l, h) ==
  /\ Proceed(t, l)
  /\ head' = [head EXCEPT ![t] = h] /\ node' = [node EXCEPT ![t] = null]
  /\ refs' = [refs EXCEPT ![t] = 0] /\ next' = [next EXCEPT ![t] = null]

\* The loop of try_get; past its end requisition_block allocates, or fails.
Loop(t, h) == Continue(t, IF h = null THEN "ready" ELSE "refs", h)

----------------------------------------------------------------------------
\* requisition_block: first the array.
try_get_block_from_initial_pool(t) ==
  /\ at[t] = "ready"
  /\ Proceed(t, IF initialBlockPoolIndex >= initialBlockPoolSize THEN "head" ELSE "array")
  /\ UNCHANGED << initialBlockPoolIndex, list, freeListRefs, used, locals >>

FetchAddPoolIndex(t) ==
  /\ at[t] = "array"
  /\ initialBlockPoolIndex' = initialBlockPoolIndex + 1
  /\ IF initialBlockPoolIndex < initialBlockPoolSize
     THEN used' = used \union {initialBlockPoolIndex + 1} /\ Proceed(t, "ready")
     ELSE Proceed(t, "head") /\ UNCHANGED used
  /\ UNCHANGED << list, freeListRefs, locals >>

\* try_get
LoadHead(t) ==
  /\ at[t] = "head"
  /\ Loop(t, freeListHead)
  /\ UNCHANGED << initialBlockPoolIndex, list, freeListRefs, used >>

\* A node nobody counts is being added or is out: do not touch it.
LoadRefs(t) ==
  /\ at[t] = "refs"
  /\ IF Count(freeListRefs[head[t]]) = 0
     THEN Continue(t, "head", null)
     ELSE /\ Proceed(t, "hold")
          /\ refs' = [refs EXCEPT ![t] = freeListRefs[head[t]]]
          /\ UNCHANGED << head, next, node >>
  /\ UNCHANGED << initialBlockPoolIndex, list, freeListRefs, used >>

\* The compare-exchange that counts a reference.
Hold(t) ==
  /\ at[t] = "hold"
  /\ IF freeListRefs[head[t]] = refs[t]
     THEN /\ freeListRefs' = [freeListRefs EXCEPT ![head[t]] = refs[t] + 1]
          /\ Continue(t, "next", head[t])
     ELSE Continue(t, "head", null) /\ UNCHANGED freeListRefs
  /\ UNCHANGED << initialBlockPoolIndex, list, used >>

LoadNext(t) ==
  /\ at[t] = "next"
  /\ next' = [next EXCEPT ![t] = freeListNext[head[t]]]
  /\ Proceed(t, "take")
  /\ UNCHANGED << initialBlockPoolIndex, list, freeListRefs, used, head, refs, node >>

\* The compare-exchange that takes the node off; if it fails, head becomes the new one.
TakeHead(t) ==
  /\ at[t] = "take"
  /\ IF freeListHead = head[t]
     THEN /\ freeListHead' = next[t]
          /\ Continue(t, "taken", head[t])
     ELSE /\ node' = [node EXCEPT ![t] = head[t]]
          /\ head' = [head EXCEPT ![t] = freeListHead]
          /\ next' = [next EXCEPT ![t] = null]
          /\ Proceed(t, "letGo")
          /\ UNCHANGED << freeListHead, refs >>
  /\ UNCHANGED << initialBlockPoolIndex, freeListNext, freeListRefs, used >>

\* Off with the thread's reference and the list's.
Taken(t) ==
  /\ at[t] = "taken"
  /\ freeListRefs' = [freeListRefs EXCEPT ![head[t]] = @ - 2]
  /\ used' = used \union {head[t]}
  /\ Loop(t, null)
  /\ UNCHANGED << initialBlockPoolIndex, list >>

\* Mutant: the last reference is dropped and nobody adds the node.
NeverLast(r) == FALSE

\* The node was freed meanwhile, and this was the last reference to it.
LastToLetGo(r) == r = SHOULD_BE_ON_FREELIST + 1

LetGo(t) ==
  /\ at[t] = "letGo"
  /\ freeListRefs' = [freeListRefs EXCEPT ![node[t]] = @ - 1]
  /\ IF LastToLetGo(freeListRefs[node[t]])
     THEN Proceed(t, "top") /\ UNCHANGED locals
     ELSE Loop(t, head[t])
  /\ UNCHANGED << initialBlockPoolIndex, list, used >>

\* add, of any block that is out.
add(t) ==
  /\ at[t] = "ready"
  /\ \E b \in used :
       /\ used' = used \ {b}
       /\ freeListRefs' = [freeListRefs EXCEPT ![b] = @ + SHOULD_BE_ON_FREELIST]
       /\ IF freeListRefs[b] = 0
          THEN Proceed(t, "top") /\ node' = [node EXCEPT ![t] = b]
          ELSE UNCHANGED << at, node >>
  /\ UNCHANGED << initialBlockPoolIndex, list, head, refs, next >>

\* add_knowing_refcount_is_zero, called by add and by try_get.
LoadTop(t) ==
  /\ at[t] = "top"
  /\ next' = [next EXCEPT ![t] = freeListHead]
  /\ Proceed(t, "link")
  /\ UNCHANGED << initialBlockPoolIndex, list, freeListRefs, used, head, refs, node >>

StoreNext(t) ==
  /\ at[t] = "link"
  /\ freeListNext' = [freeListNext EXCEPT ![node[t]] = next[t]]
  /\ Proceed(t, "one")
  /\ UNCHANGED << initialBlockPoolIndex, freeListHead, freeListRefs, used, locals >>

StoreRefs(t) ==
  /\ at[t] = "one"
  /\ freeListRefs' = [freeListRefs EXCEPT ![node[t]] = 1]
  /\ Proceed(t, "push")
  /\ UNCHANGED << initialBlockPoolIndex, list, used, locals >>

Push(t) ==
  /\ at[t] = "push"
  /\ IF freeListHead = next[t]
     THEN /\ freeListHead' = node[t]
          /\ Loop(t, head[t])
     ELSE /\ next' = [next EXCEPT ![t] = freeListHead]
          /\ Proceed(t, "defer")
          /\ UNCHANGED << freeListHead, head, refs, node >>
  /\ UNCHANGED << initialBlockPoolIndex, freeListNext, freeListRefs, used >>

\* The push failed: whoever drops the last reference tries again.
Defer(t) ==
  /\ at[t] = "defer"
  /\ freeListRefs' = [freeListRefs EXCEPT ![node[t]] = @ + SHOULD_BE_ON_FREELIST - 1]
  /\ IF freeListRefs[node[t]] = 1
     THEN Proceed(t, "link") /\ UNCHANGED locals
     ELSE Loop(t, head[t])
  /\ UNCHANGED << initialBlockPoolIndex, list, used >>

----------------------------------------------------------------------------
PoolInit ==
  /\ initialBlockPoolIndex = 0
  /\ freeListHead = null
  /\ freeListRefs = [b \in Nodes |-> 0] /\ freeListNext = [b \in Nodes |-> null]
  /\ used = {}
  /\ at = [t \in Users |-> "ready"]
  /\ head = [t \in Users |-> null] /\ refs = [t \in Users |-> 0]
  /\ next = [t \in Users |-> null] /\ node = [t \in Users |-> null]

PoolNext ==
  \E t \in Users :
    \/ try_get_block_from_initial_pool(t) \/ FetchAddPoolIndex(t)
    \/ LoadHead(t) \/ LoadRefs(t) \/ Hold(t) \/ LoadNext(t) \/ TakeHead(t) \/ Taken(t)
    \/ LetGo(t) \/ add(t)
    \/ LoadTop(t) \/ StoreNext(t) \/ StoreRefs(t) \/ Push(t) \/ Defer(t)

PoolSpec == PoolInit /\ [][PoolNext]_poolVars

----------------------------------------------------------------------------
\* The nodes from the head on; a node that came twice would make it a cycle.
Walk == LET w[k \in 0 .. initialBlockPoolSize] ==
              IF k = 0 THEN freeListHead
              ELSE IF w[k - 1] = null THEN null ELSE freeListNext[w[k - 1]]
        IN w

Adding(b) == { t \in Users : at[t] \in {"top", "link", "one", "push", "defer"}
                             /\ node[t] = b }
Holding(b) == { t \in Users : \/ at[t] \in {"next", "take", "taken"} /\ head[t] = b
                              \/ at[t] = "letGo" /\ node[t] = b }
Taking(b) == { t \in Users : at[t] = "taken" /\ head[t] = b }
OnList(b) == { k \in DOMAIN Walk : Walk[k] = b }
Deferred(b) == Adding(b) = {} /\ ShouldBeOnFreeList(freeListRefs[b])

\* Under any contention for the head a block that was given out is in one place: with a
\* user, once on the list, being added or being taken by one thread, or left to be added
\* by a thread that still has a reference to it.  Otherwise two producers write into the
\* same block, or a block is lost.  What is taken off is not marked for adding
\* (the assertion at line 1493).
InOnePlace ==
  \A b \in Nodes : b <= initialBlockPoolIndex =>
    /\ Cardinality(OnList(b)) + Cardinality(Adding(b)) + Cardinality(Taking(b))
         + (IF b \in used THEN 1 ELSE 0) + (IF Deferred(b) THEN 1 ELSE 0) = 1
    /\ Deferred(b) => Holding(b) # {}
    /\ Taking(b) # {} => ~ ShouldBeOnFreeList(freeListRefs[b])
=============================================================================
