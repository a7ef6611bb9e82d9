-------------------------- MODULE ImplicitProducer --------------------------
(***************************************************************************)
(* The sub-queue of one producing thread in moodycamel's ConcurrentQueue:  *)
(* enqueue by that thread, dequeue by any, over blocks of elements that a  *)
(* circular index finds and that go back to the pool once they are empty.  *)
(*                                                                         *)
(* One action per atomic access, interleaved: the orderings the code asks  *)
(* for are taken to give what it relies on (see the README).  Indices wrap *)
(* around at IndexMod, which stands for 2^64.  The element with index i is *)
(* i.                                                                      *)
(***************************************************************************)
EXTENDS Integers, Sequences, FiniteSets

CONSTANTS
  Consumers, Blocks,
  BlockSize,    \* BLOCK_SIZE
  IndexMod,     \* the range of index_t
  IndexSize,    \* IMPLICIT_INITIAL_INDEX_SIZE
  MaxEntries,   \* bound: the positions of the largest block index
  MaxOvercommit,\* bound: dequeues that were counted in and out again
  None

ASSUME QueueAssumption ==
  /\ BlockSize \in Nat \ {0, 1} /\ IndexSize \in Nat \ {0} /\ MaxEntries \in Nat \ {0}
  /\ IndexMod \in Nat \ {0} /\ IndexMod % (2 * BlockSize) = 0
  /\ None \notin Blocks /\ None \notin 0 .. IndexMod - 1

\* In the code all of these are powers of two; and there are not 2^63 threads and
\* dequeues that were too late.
ASSUME RangeAssumption ==
  /\ MaxEntries % IndexSize = 0 /\ IndexMod % (BlockSize * MaxEntries) = 0
  /\ MaxOvercommit \in Nat /\ IsFiniteSet(Consumers)
  /\ Cardinality(Consumers) + MaxOvercommit <= IndexMod \div 2

VARIABLES
  tailIndex, headIndex, dequeueOptimisticCount, dequeueOvercommit,
  tailBlock,
  headers,    \* the block indexes: tail, and the entry at each position
  key, value, \* the entries
  slot,       \* per block and offset, the element that is there
  emptied,    \* per block, elementsCompletelyDequeued
  free,       \* the blocks of the pool
  pc, mine,   \* per thread, where it is and its locals
  enq         \* the producer's: where it is, its index entry and block

queueVars == << tailIndex, headIndex, dequeueOptimisticCount, dequeueOvercommit,
                tailBlock, headers, key, value, slot, emptied, free, pc, mine, enq >>
counters == << headIndex, dequeueOptimisticCount, dequeueOvercommit >>
consumerVars == << counters, pc, mine >>

Index == 0 .. IndexMod - 1
Entries == 1 .. MaxEntries
Offset(i) == i % BlockSize
Base(i) == i - Offset(i)
Sub(a, b) == (a - b) % IndexMod

\* details::circular_less_than
circular_less_than(a, b) == Sub(a, b) > IndexMod \div 2

\* blockIndex points to the newest; a consumer may still use an older one.
blockIndex == Len(headers)
Positions(h) == Len(headers[h].index)
EntryAt(h, pos) == headers[h].index[pos + 1]

NoLocals == [ over |-> 0, count |-> 0, index |-> 0, header |-> 0, pos |-> 0,
              entry |-> 0, block |-> None ]
Ready == [ at |-> "ready", entry |-> 0, block |-> None ]

----------------------------------------------------------------------------
\* enqueue, by the one producing thread.

\* In the middle of a block the element goes into its slot.
StoreElement ==
  /\ enq.at = "ready" /\ Offset(tailIndex) # 0
  /\ slot' = [slot EXCEPT ![tailBlock][Offset(tailIndex)] = tailIndex]
  /\ enq' = [enq EXCEPT !.at = "commit"]
  /\ UNCHANGED << tailIndex, tailBlock, headers, key, value, emptied, free, consumerVars >>

IndicesLeft == circular_less_than(headIndex, (tailIndex + BlockSize) % IndexMod)

NextPos == (headers[blockIndex].tail + 1) % Positions(blockIndex)

\* Mutant: the old entries are copied from the front of the circular index.
CopiedFromFront(p) == EntryAt(blockIndex, p - 1)

\* The old entries in order, the oldest first: it follows the tail in the circle.
Copied(p) == EntryAt(blockIndex, (headers[blockIndex].tail + p) % Positions(blockIndex))

\* INVALID_BLOCK_BASE, or its block was emptied.
EntryFree(e) == key[e] = None \/ value[e] = None

\* insert_block_index_entry, key.store(): at the start of a block, when there is room
\* in the range of indices and at the next position of the block index ...
InsertKey ==
  /\ enq.at = "ready" /\ Offset(tailIndex) = 0 /\ IndicesLeft
  /\ EntryFree(EntryAt(blockIndex, NextPos))
  /\ key' = [key EXCEPT ![EntryAt(blockIndex, NextPos)] = tailIndex]
  /\ enq' = [enq EXCEPT !.at = "publish", !.entry = EntryAt(blockIndex, NextPos)]
  /\ UNCHANGED << tailIndex, tailBlock, headers, value, slot, emptied, free, consumerVars >>

\* ... or else new_block_index: twice the positions, the old ones first, the oldest at
\* the front.  Without memory (here, past MaxEntries, which the sizes of all block
\* indexes divide) enqueue returns false.
new_block_index ==
  /\ enq.at = "ready" /\ Offset(tailIndex) = 0 /\ IndicesLeft
  /\ ~ EntryFree(EntryAt(blockIndex, NextPos))
  /\ MaxEntries % (2 * Positions(blockIndex)) = 0
  /\ LET n == Positions(blockIndex) IN
       headers' = Append(headers,
         [ tail |-> n - 1,
           index |-> [ p \in 1 .. 2 * n |->
                         IF p <= n THEN Copied(p) ELSE p ] ])
  /\ UNCHANGED << tailIndex, tailBlock, key, value, slot, emptied, free, enq, consumerVars >>

\* localBlockIndex->tail.store()
PublishPos ==
  /\ enq.at = "publish"
  /\ headers' = [headers EXCEPT ![blockIndex].tail = NextPos]
  /\ enq' = [enq EXCEPT !.at = "block"]
  /\ UNCHANGED << tailIndex, tailBlock, key, value, slot, emptied, free, consumerVars >>

\* requisition_block, reset_empty and the construction of the element in the block.
RequisitionBlock ==
  /\ enq.at = "block"
  /\ \E b \in free :
       /\ free' = free \ {b}
       /\ emptied' = [emptied EXCEPT ![b] = 0]
       /\ slot' = [slot EXCEPT ![b][0] = tailIndex]
       /\ enq' = [enq EXCEPT !.at = "value", !.block = b]
  /\ UNCHANGED << tailIndex, tailBlock, headers, key, value, consumerVars >>

\* No block and no memory for one, or the constructor threw and the block went back.
NoBlock ==
  /\ enq.at = "block"
  /\ headers' = [headers EXCEPT ![blockIndex].tail = (@ - 1) % Positions(blockIndex)]
  /\ enq' = [enq EXCEPT !.at = "clear"]
  /\ UNCHANGED << tailIndex, tailBlock, key, value, slot, emptied, free, consumerVars >>

ClearEntry ==
  /\ enq.at = "clear"
  /\ value' = [value EXCEPT ![enq.entry] = None]
  /\ enq' = Ready
  /\ UNCHANGED << tailIndex, tailBlock, headers, key, slot, emptied, free, consumerVars >>

StoreValue ==
  /\ enq.at = "value"
  /\ value' = [value EXCEPT ![enq.entry] = enq.block]
  /\ tailBlock' = enq.block
  /\ enq' = [enq EXCEPT !.at = "commit"]
  /\ UNCHANGED << tailIndex, headers, key, slot, emptied, free, consumerVars >>

\* tailIndex.store(): the element can be dequeued.
Commit ==
  /\ enq.at = "commit"
  /\ tailIndex' = (tailIndex + 1) % IndexMod
  /\ enq' = Ready
  /\ UNCHANGED << tailBlock, headers, key, value, slot, emptied, free, consumerVars >>

----------------------------------------------------------------------------
\* dequeue, by any thread c.

memory == << tailIndex, tailBlock, headers, enq >>
blockVars == << key, value, slot, emptied, free >>

Goto(c, l) == pc' = [pc EXCEPT ![c] = l]

LoadOvercommit(c) ==
  /\ pc[c] = "ready"
  /\ mine' = [mine EXCEPT ![c].over = dequeueOvercommit]
  /\ Goto(c, "check")
  /\ UNCHANGED << memory, blockVars, counters >>

\* The queue looks empty.  (The tail was loaded first and may be an old one.)
LooksEmpty(c) ==
  /\ pc[c] = "check"
  /\ mine' = [mine EXCEPT ![c] = NoLocals]
  /\ Goto(c, "ready")
  /\ UNCHANGED << memory, blockVars, counters >>

\* It does not: optimistically count this dequeue.
CountIn(c) ==
  /\ pc[c] = "check"
  /\ circular_less_than(Sub(dequeueOptimisticCount, mine[c].over), tailIndex)
  /\ Goto(c, "claim")
  /\ UNCHANGED << memory, blockVars, counters, mine >>

FetchAddOptimistic(c) ==
  /\ pc[c] = "claim"
  /\ mine' = [mine EXCEPT ![c].count = dequeueOptimisticCount]
  /\ dequeueOptimisticCount' = (dequeueOptimisticCount + 1) % IndexMod
  /\ Goto(c, "recheck")
  /\ UNCHANGED << memory, blockVars, headIndex, dequeueOvercommit >>

\* Mutant: what was seen before the count is taken to hold after it.
StillThere(c) == TRUE

InStock(c) == circular_less_than(Sub(mine[c].count, mine[c].over), tailIndex)

\* The second look at the tail, and headIndex.fetch_add() if the element is there:
\* since the tail only grows nothing can come between the two.
FetchAddHead(c) ==
  /\ pc[c] = "recheck" /\ InStock(c)
  /\ headIndex' = (headIndex + 1) % IndexMod
  /\ mine' = [mine EXCEPT ![c] = [NoLocals EXCEPT !.index = headIndex]]
  /\ Goto(c, "header")
  /\ UNCHANGED << memory, blockVars, dequeueOptimisticCount, dequeueOvercommit >>

\* Others were first: count the dequeue out again and return false.
TooLate(c) ==
  /\ pc[c] = "recheck" /\ ~ InStock(c)
  /\ Goto(c, "overcommit")
  /\ UNCHANGED << memory, blockVars, counters, mine >>

Overcommit(c) ==
  /\ pc[c] = "overcommit" /\ dequeueOvercommit < MaxOvercommit
  /\ dequeueOvercommit' = (dequeueOvercommit + 1) % IndexMod
  /\ mine' = [mine EXCEPT ![c] = NoLocals]
  /\ Goto(c, "ready")
  /\ UNCHANGED << memory, blockVars, headIndex, dequeueOptimisticCount >>

\* get_block_index_index_for_index: the index and its tail (which stays as it is once
\* there is a newer index), then the key there, and from the distance in blocks the
\* entry of this element.
LoadHeader(c) ==
  /\ pc[c] = "header"
  /\ mine' = [mine EXCEPT ![c].header = blockIndex, ![c].pos = headers[blockIndex].tail]
  /\ Goto(c, "key")
  /\ UNCHANGED << memory, blockVars, counters >>

\* The distance is signed: -IndexMod/2 .. IndexMod/2 - 1.
BlocksBehind(i, base) ==
  LET d == Sub(Base(i), base)
  IN IF d >= IndexMod \div 2 THEN (IndexMod - d) \div BlockSize ELSE 0 - (d \div BlockSize)

LoadKey(c) ==
  /\ pc[c] = "key"
  /\ LET m == mine[c] IN
       mine' = [mine EXCEPT ![c].entry =
         EntryAt(m.header, (m.pos - BlocksBehind(m.index, key[EntryAt(m.header, m.pos)]))
                             % Positions(m.header))]
  /\ Goto(c, "value")
  /\ UNCHANGED << memory, blockVars, counters >>

\* The block of the entry; the element is moved out of it and destroyed.
MoveOut(c) ==
  /\ pc[c] = "value"
  /\ LET b == value[mine[c].entry] IN
       /\ mine' = [mine EXCEPT ![c].block = b]
       /\ slot' = [slot EXCEPT ![b][Offset(mine[c].index)] = None]
  /\ Goto(c, "empty")
  /\ UNCHANGED << memory, counters, key, value, emptied, free >>

\* Mutant: the count is compared after it was incremented.
WasNextToLast(b) == emptied[b] = BlockSize - 2

WasLast(b) == emptied[b] = BlockSize - 1

\* set_empty: the consumer that counts the last element of the block frees it.
SetEmpty(c) ==
  /\ pc[c] = "empty"
  /\ emptied' = [emptied EXCEPT ![mine[c].block] = @ + 1]
  /\ IF WasLast(mine[c].block)
     THEN Goto(c, "unindex") /\ UNCHANGED mine
     ELSE Goto(c, "ready") /\ mine' = [mine EXCEPT ![c] = NoLocals]
  /\ UNCHANGED << memory, counters, key, value, slot, free >>

\* First the index, then the pool.
Unindex(c) ==
  /\ pc[c] = "unindex"
  /\ value' = [value EXCEPT ![mine[c].entry] = None]
  /\ Goto(c, "free")
  /\ UNCHANGED << memory, counters, key, slot, emptied, free, mine >>

AddToFreeList(c) ==
  /\ pc[c] = "free"
  /\ free' = free \union {mine[c].block}
  /\ mine' = [mine EXCEPT ![c] = NoLocals]
  /\ Goto(c, "ready")
  /\ UNCHANGED << memory, counters, key, value, slot, emptied >>

----------------------------------------------------------------------------
QueueInit ==
  /\ tailIndex = 0 /\ headIndex = 0
  /\ dequeueOptimisticCount = 0 /\ dequeueOvercommit = 0
  /\ tailBlock = None
  /\ headers = << [ tail |-> IndexSize - 1, index |-> [ p \in 1 .. IndexSize |-> p ] ] >>
  /\ key = [e \in Entries |-> None] /\ value = [e \in Entries |-> None]
  /\ slot = [b \in Blocks |-> [o \in 0 .. BlockSize - 1 |-> None]]
  /\ emptied = [b \in Blocks |-> 0]
  /\ free = Blocks
  /\ pc = [c \in Consumers |-> "ready"] /\ mine = [c \in Consumers |-> NoLocals]
  /\ enq = Ready

enqueue ==
  StoreElement \/ InsertKey \/ new_block_index \/ PublishPos \/ RequisitionBlock
    \/ NoBlock \/ ClearEntry \/ StoreValue \/ Commit

dequeue(c) ==
  LoadOvercommit(c) \/ LooksEmpty(c) \/ CountIn(c) \/ FetchAddOptimistic(c)
    \/ FetchAddHead(c) \/ TooLate(c) \/ Overcommit(c) \/ LoadHeader(c) \/ LoadKey(c)
    \/ MoveOut(c) \/ SetEmpty(c) \/ Unindex(c) \/ AddToFreeList(c)

QueueNext == enqueue \/ \E c \in Consumers : dequeue(c)

QueueSpec == QueueInit /\ [][QueueNext]_queueVars

----------------------------------------------------------------------------
\* Where element i is, by the block index.
ElementAt(i) ==
  LET holders == { e \in Entries : key[e] = Base(i) /\ value[e] # None }
  IN IF holders = {} THEN None ELSE slot[value[CHOOSE e \in holders : TRUE]][Offset(i)]

\* The assertion at the end of get_block_index_index_for_index (line 2962), and that
\* the block is still the one of the index and still holds this consumer's element,
\* whatever the producer has done to the index since the consumer read parts of it.
FoundBlock ==
  \A c \in Consumers : pc[c] = "value" =>
    /\ key[mine[c].entry] = Base(mine[c].index) /\ value[mine[c].entry] # None
    /\ slot[value[mine[c].entry]][Offset(mine[c].index)] = mine[c].index

\* A block is in one place: in the pool, in the hands of the thread that has just
\* taken it or is about to return it, or at one entry of the index.  Blocks of the
\* pool hold no elements, and none is lost.
BlocksKept ==
  \A b \in Blocks :
    /\ Cardinality({ e \in Entries : value[e] = b })
         + Cardinality({ c \in Consumers : pc[c] = "free" /\ mine[c].block = b })
         + (IF b \in free THEN 1 ELSE 0)
         + (IF enq.at = "value" /\ enq.block = b THEN 1 ELSE 0) = 1
    /\ b \in free => \A o \in DOMAIN slot[b] : slot[b][o] = None

\* Seen from outside, the sub-queue is a FIFO queue: the elements between head and
\* tail as memory has them; an enqueue is its Commit, a dequeue its FetchAddHead.
Elements ==
  [ k \in 1 .. Sub(tailIndex, headIndex) |-> ElementAt((headIndex + k - 1) % IndexMod) ]
Given ==
  [ c \in Consumers |->
      IF pc[c] \in {"header", "key", "value"} THEN ElementAt(mine[c].index) ELSE None ]
Fifo == INSTANCE FifoQueue WITH fifo <- Elements, next <- tailIndex, out <- Given
ImplementsFifo == Fifo!FifoSpec
=============================================================================
