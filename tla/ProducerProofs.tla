--------------------------- MODULE ProducerProofs ---------------------------
(***************************************************************************)
(* Proofs about ImplicitProducer: a consumer finds the block of its        *)
(* element, blocks are neither lost nor in two places, and the sub-queue   *)
(* implements FifoQueue, for any number of consumers and blocks and all    *)
(* sizes of blocks, block indexes and the range of indices that divide     *)
(* each other as powers of two do.                                         *)
(***************************************************************************)
EXTENDS ImplicitProducer, FiniteSetTheorems, SequenceTheorems, TLAPS

-----------------------------------------------------------------------------
(* Types.                                                                  *)
Offsets == 0 .. BlockSize - 1

BlockIndexes ==
  UNION { [ tail : 0 .. n - 1, index : [1 .. n -> Entries] ] : n \in Nat \ {0} }

ConsumerStages == { "ready", "check", "claim", "recheck", "overcommit", "header", "key",
                    "value", "empty", "unindex", "free" }
Inserting == {"publish", "block", "value", "clear"}

Locals == [ over : Index, count : Index, index : Index, header : Nat, pos : Nat,
            entry : Nat, block : Blocks \union {None} ]

QueueTypes ==
  /\ tailIndex \in Index /\ headIndex \in Index /\ dequeueOptimisticCount \in Index
  /\ dequeueOvercommit \in 0 .. MaxOvercommit
  /\ tailBlock \in Blocks \union {None}
  /\ headers \in Seq(BlockIndexes) /\ headers # <<>>
  /\ key \in [Entries -> Index \union {None}] /\ value \in [Entries -> Blocks \union {None}]
  /\ slot \in [Blocks -> [Offsets -> Index \union {None}]]
  /\ emptied \in [Blocks -> Nat] /\ free \in SUBSET Blocks
  /\ pc \in [Consumers -> ConsumerStages] /\ mine \in [Consumers -> Locals]
  /\ enq \in [ at : Inserting \union {"ready", "commit"}, entry : Nat,
               block : Blocks \union {None} ]

-----------------------------------------------------------------------------
(* The counters.  The elements between head and tail, and the dequeues     *)
(* that were counted in and neither served nor counted out again.          *)
Length == Sub(tailIndex, headIndex)
Rechecking == { c \in Consumers : pc[c] = "recheck" }
Limbo == { c \in Consumers : pc[c] \in {"recheck", "overcommit"} }

(* Some of the block that the tail is in has been given out: its first     *)
(* element is there.                                                       *)
Started == enq.at = "commit" \/ Offset(tailIndex) # 0

(* There is room up to the end of the tail's block, half a range away.     *)
LengthOK ==
  /\ Length < IndexMod \div 2
  /\ Started \/ enq.at \in {"publish", "block", "value"} =>
       Length + (BlockSize - Offset(tailIndex)) < IndexMod \div 2

Balance ==
  Sub(dequeueOptimisticCount, dequeueOvercommit) = (headIndex + Cardinality(Limbo)) % IndexMod

(* The number of the element that consumer c was counted in for, relative  *)
(* to the head.                                                            *)
Ahead(c) == Sub(Sub(mine[c].count, mine[c].over), headIndex)

(* Those who look again for their element can be ranked so that each is    *)
(* either not before the head by its rank, or there are more elements than *)
(* its rank: if it finds its element in stock there is one.                *)
Ranked(c, r) ==
  \/ r <= Ahead(c) /\ Ahead(c) <= IndexMod \div 2
  \/ r < Length

TicketsOK ==
  \E rank \in [Consumers -> 0 .. Cardinality(Consumers)] :
    \A c \in Rechecking :
      /\ rank[c] < Cardinality(Rechecking)
      /\ \A d \in Rechecking \ {c} : rank[c] # rank[d]
      /\ Ranked(c, rank[c])

CountersOK ==
  /\ LengthOK /\ Balance /\ TicketsOK
  /\ \A c \in Consumers :
       pc[c] \in {"check", "claim", "recheck"} => mine[c].over <= dequeueOvercommit

-----------------------------------------------------------------------------
(* The block index.  Blocks are numbered around the range of indices.      *)
Wheel == IndexMod \div BlockSize
Blk(i) == i \div BlockSize

Size == Positions(blockIndex)
TailPos == headers[blockIndex].tail

(* The entry j positions behind the tail of the newest index.              *)
Spot(j) == EntryAt(blockIndex, (TailPos - j) % Size)

(* The block that belongs at the tail of the index: the tail's, once its   *)
(* entry is published, or the one before.                                  *)
InBlock == Started \/ enq.at \in {"block", "value"}
TopBlk == IF InBlock THEN Blk(tailIndex) ELSE (Blk(tailIndex) - 1) % Wheel

(* The key at a position says how far that is from the tail's.             *)
RightKey(j) == key[Spot(j)] # None /\ Blk(key[Spot(j)]) = (TopBlk - j) % Wheel

(* Every entry that was ever made has one position in the newest index.    *)
Bijective ==
  /\ \A p \in 1 .. Size : headers[blockIndex].index[p] \in 1 .. Size
  /\ \A e \in 1 .. Size : \E p \in 1 .. Size : headers[blockIndex].index[p] = e
  /\ \A p, q \in 1 .. Size :
       headers[blockIndex].index[p] = headers[blockIndex].index[q] => p = q

EntriesOK ==
  /\ \A h \in DOMAIN headers : MaxEntries % Positions(h) = 0
  /\ Bijective
  /\ \A e \in Entries : key[e] # None => Offset(key[e]) = 0
  /\ \A e \in Entries : e > Size => key[e] = None /\ value[e] = None

(* A block in use is as many positions behind the tail as it is blocks     *)
(* behind the tail's.  While one is in use the key at the tail is right,   *)
(* and the one that may become the tail's again.                           *)
KeysOK ==
  /\ \A j \in 0 .. Size - 1 : value[Spot(j)] # None => RightKey(j)
  /\ (\E e \in Entries : value[e] # None) =>
       RightKey(0) /\ (enq.at \in {"block", "value"} => RightKey(1))

(* How far the producer is with a new block.                               *)
ProducerOK ==
  /\ enq.at \in Inserting =>
       /\ Offset(tailIndex) = 0 /\ enq.entry \in Entries /\ value[enq.entry] = None
  /\ enq.at = "publish" => enq.entry = EntryAt(blockIndex, NextPos) /\ key[enq.entry] = tailIndex
  /\ enq.at \in {"block", "value"} => enq.entry = Spot(0) /\ key[enq.entry] = tailIndex
  /\ enq.at = "value" => enq.block \in Blocks /\ slot[enq.block][0] = tailIndex
                         /\ emptied[enq.block] = 0
  /\ Started => /\ key[Spot(0)] = Base(tailIndex)
                /\ tailBlock # None /\ value[Spot(0)] = tailBlock
  /\ enq.at = "commit" => slot[tailBlock][Offset(tailIndex)] = tailIndex

-----------------------------------------------------------------------------
(* Where the blocks are.                                                   *)
InUse(b) == \E e \in Entries : value[e] = b
Leaving(c, b) == pc[c] = "free" /\ mine[c].block = b
Entering(b) == enq.at = "value" /\ enq.block = b
Bare(b) == \A o \in Offsets : slot[b][o] = None

PlacesOK ==
  /\ \A e, f \in Entries : value[e] = value[f] /\ value[e] # None => e = f
  /\ \A b \in Blocks :
       /\ b \in free \/ InUse(b) \/ Entering(b) \/ \E c \in Consumers : Leaving(c, b)
       /\ b \in free => ~ InUse(b) /\ Bare(b)
       /\ Entering(b) => b \notin free /\ ~ InUse(b)
       /\ \A c \in Consumers : Leaving(c, b) =>
            /\ b \notin free /\ ~ InUse(b) /\ ~ Entering(b) /\ Bare(b)
            /\ \A d \in Consumers : Leaving(d, b) => d = c

(* Where the elements are: those in the queue and those claimed.           *)
Queued(i) == Sub(i, headIndex) < Length
Holds(c) == pc[c] \in {"header", "key", "value"}

Found(i) ==
  \E e \in Entries : /\ key[e] = Base(i) /\ value[e] # None
                     /\ slot[value[e]][Offset(i)] = i

(* In the block that the tail is in, only before the tail.                 *)
Within(i) == Started /\ Base(i) = Base(tailIndex) => Offset(i) < Offset(tailIndex)

Alone(c) == \A d \in Consumers : Holds(d) /\ mine[d].index = mine[c].index => d = c

Claimed(c) ==
  /\ Found(mine[c].index) /\ ~ Queued(mine[c].index) /\ Within(mine[c].index) /\ Alone(c)

ElementsOK ==
  /\ \A i \in Index : Queued(i) => Found(i)
  /\ \A c \in Consumers : Holds(c) => Claimed(c)

(* The way of a consumer to its block, at Spot(s) now.  The header and the *)
(* position that it has read may be old, but counting back j positions     *)
(* from there gets to its block, and the key there is the right one still. *)
OnTheWay(c, j, s) ==
  LET m == mine[c] IN
    /\ j <= s + 1 /\ (InBlock => j <= s)
    /\ EntryAt(m.header, (m.pos - j) % Positions(m.header)) = Spot(s)
    /\ value[Spot(s)] # None /\ key[Spot(s)] = Base(m.index)
    /\ EntryAt(m.header, m.pos) = Spot(s - j) /\ RightKey(s - j)

KeyPath(c) ==
  pc[c] = "key" =>
    /\ mine[c].header \in DOMAIN headers
    /\ mine[c].pos \in 0 .. Positions(mine[c].header) - 1
    /\ \E j \in 0 .. Positions(mine[c].header) - 1, s \in 0 .. Size - 1 : OnTheWay(c, j, s)

ValuePath(c) ==
  pc[c] = "value" =>
    /\ mine[c].entry \in Entries
    /\ key[mine[c].entry] = Base(mine[c].index) /\ value[mine[c].entry] # None

BlockPath(c) ==
  pc[c] \in {"empty", "unindex"} =>
    /\ mine[c].entry \in Entries /\ mine[c].block # None
    /\ value[mine[c].entry] = mine[c].block

LastPath(c) ==
  pc[c] = "unindex" =>
    /\ emptied[mine[c].block] = BlockSize
    /\ \A d \in Consumers : pc[d] = "unindex" /\ mine[d].block = mine[c].block => d = c

FreePath(c) == pc[c] = "free" => mine[c].block # None

Path(c) == KeyPath(c) /\ ValuePath(c) /\ BlockPath(c) /\ LastPath(c) /\ FreePath(c)

PathsOK == \A c \in Consumers : Path(c)

(* What a block in use has still to do before it is empty: elements that   *)
(* are there or will be, and consumers that have taken one and not said so.*)
Unfinished(b) ==
  { o \in Offsets : \/ slot[b][o] # None
                    \/ Started /\ b = tailBlock /\ o >= Offset(tailIndex) }
AtEmpty(b) == { c \in Consumers : pc[c] = "empty" /\ mine[c].block = b }

CountsOK ==
  \A e \in Entries : value[e] # None =>
    emptied[value[e]] + Cardinality(Unfinished(value[e])) + Cardinality(AtEmpty(value[e]))
      = BlockSize

QInv ==
  /\ QueueTypes /\ CountersOK /\ EntriesOK /\ KeysOK /\ ProducerOK /\ PlacesOK /\ ElementsOK
  /\ PathsOK /\ CountsOK
-----------------------------------------------------------------------------
(* Arithmetic.                                                             *)
LEMMA Remainder ==
  ASSUME NEW q \in Int, NEW n \in Nat \ {0}, NEW r \in 0 .. n - 1
  PROVE  (n * q + r) % n = r
OBVIOUS

LEMMA Division ==
  ASSUME NEW a \in Int, NEW n \in Nat \ {0}
  PROVE  /\ a = n * (a \div n) + (a % n) /\ a \div n \in Int /\ a % n \in 0 .. n - 1
BY SMTT(60)

LEMMA Quotient ==
  ASSUME NEW q \in Int, NEW n \in Nat \ {0}, NEW r \in 0 .. n - 1
  PROVE  (n * q + r) \div n = q
OBVIOUS

(* Remainders of numbers that are not far away.                            *)
LEMMA Near ==
  ASSUME NEW n \in Nat \ {0}, NEW a \in Int
  PROVE  /\ a \in 0 .. n - 1 => a % n = a
         /\ a - n \in 0 .. n - 1 => a % n = a - n
         /\ a + n \in 0 .. n - 1 => a % n = a + n
         /\ a % n \in 0 .. n - 1
<1>1. ASSUME a \in 0 .. n - 1 PROVE a % n = a
  BY <1>1
<1>2. ASSUME a - n \in 0 .. n - 1 PROVE a % n = a - n
  <2>1. (n * 1 + (a - n)) % n = a - n
    BY <1>2, Remainder
  <2> QED
    BY <2>1
<1>3. ASSUME a + n \in 0 .. n - 1 PROVE a % n = a + n
  <2>1. (n * (-1) + (a + n)) % n = a + n
    BY <1>3, Remainder
  <2> QED
    BY <2>1
<1>4. a % n \in 0 .. n - 1
  BY Division
<1> QED
  BY <1>1, <1>2, <1>3, <1>4

LEMMA Small ==
  ASSUME NEW n \in Nat \ {0}, NEW a \in 0 .. n - 1
  PROVE  a % n = a
BY Near

LEMMA Below ==
  ASSUME NEW n \in Nat \ {0}, NEW a \in Int, a + n \in 0 .. n - 1
  PROVE  a % n = a + n
BY Near

(* Whole circles do not matter.                                            *)
LEMMA Circles ==
  ASSUME NEW n \in Nat \ {0}, NEW m \in Int, NEW a \in Int
  PROVE  (a + n * m) % n = a % n
<1> DEFINE q == a \div n
           r == a % n
<1>1. a = n * q + r /\ q \in Int /\ r \in 0 .. n - 1
  BY Division
<1> HIDE DEF q, r
<1>2. a + n * m = n * (q + m) + r
  BY <1>1
<1>3. (n * (q + m) + r) % n = r
  BY <1>1, Remainder
<1> QED
  BY <1>2, <1>3 DEF r

(* Two numbers in one circle with the same remainder are the same.         *)
LEMMA SameRemainder ==
  ASSUME NEW n \in Nat \ {0}, NEW a \in Int, NEW b \in Int,
         a % n = b % n, a - b < n, b - a < n
  PROVE  a = b
<1> DEFINE p == a \div n
           q == b \div n
           r == a % n
<1>1. a = n * p + r /\ b = n * q + r /\ p \in Int /\ q \in Int /\ r \in Int
  BY Division
<1> HIDE DEF p, q, r
<1>2. CASE p = q
  BY <1>1, <1>2
<1>3. CASE p > q
  <2>1. n * p >= n * (q + 1)
    BY <1>1, <1>3
  <2>2. n * (q + 1) = n * q + n
    BY <1>1
  <2> QED
    BY <1>1, <2>1, <2>2
<1>4. CASE p < q
  <2>1. n * q >= n * (p + 1)
    BY <1>1, <1>4
  <2>2. n * (p + 1) = n * p + n
    BY <1>1
  <2> QED
    BY <1>1, <2>1, <2>2
<1> QED
  BY <1>1, <1>2, <1>3, <1>4

(* The sizes.                                                              *)
LEMMA Ranges ==
  /\ BlockSize \in Nat \ {0, 1} /\ MaxEntries \in Nat \ {0} /\ IndexMod \in Nat \ {0}
  /\ Wheel \in Nat \ {0} /\ IndexMod = BlockSize * Wheel
  /\ IndexMod \div 2 \in Nat /\ IndexMod = 2 * (IndexMod \div 2)
  /\ BlockSize <= IndexMod \div 2
<1>1. BlockSize \in Nat \ {0, 1} /\ MaxEntries \in Nat \ {0} /\ IndexMod \in Nat \ {0}
      /\ IndexMod % (2 * BlockSize) = 0
  BY QueueAssumption
<1> DEFINE n == 2 * BlockSize
           q == IndexMod \div n
<1>2. n \in Nat \ {0} /\ IndexMod \in Int /\ IndexMod % n = 0
  BY <1>1
<1> HIDE DEF n
<1>3. IndexMod = n * q /\ q \in Int
  <2>1. IndexMod = n * q + (IndexMod % n) /\ q \in Int
    BY <1>2, Division
  <2> QED
    BY <1>2, <2>1
<1> HIDE DEF q
<1> USE DEF n
<1>4. q \in Nat \ {0}
  BY <1>1, <1>3
<1>5. IndexMod = BlockSize * (2 * q) + 0 /\ IndexMod = 2 * (BlockSize * q) + 0
  BY <1>1, <1>3
<1>6. Wheel = 2 * q
  BY <1>1, <1>4, <1>5, Quotient, 0 \in 0 .. BlockSize - 1, 2 * q \in Int DEF Wheel
<1>7. BlockSize * q \in Int /\ BlockSize * q >= BlockSize
  BY <1>1, <1>4
<1>8. IndexMod \div 2 = BlockSize * q
  BY <1>1, <1>5, <1>7, Quotient, 0 \in 0 .. 2 - 1, 2 \in Nat \ {0}
<1> QED
  BY <1>1, <1>4, <1>5, <1>6, <1>7, <1>8

(* Indices.                                                                *)
LEMMA Circle ==
  /\ \A a, b \in Index : /\ Sub(a, b) \in Index
                         /\ a >= b => Sub(a, b) = a - b
                         /\ a < b => Sub(a, b) = a - b + IndexMod
  /\ \A a \in Index, n \in 0 .. IndexMod :
       /\ (a + n) % IndexMod \in Index
       /\ a + n < IndexMod => (a + n) % IndexMod = a + n
       /\ a + n >= IndexMod => (a + n) % IndexMod = a + n - IndexMod
<1>1. ASSUME NEW a \in Index, NEW b \in Index
      PROVE  /\ Sub(a, b) \in Index
             /\ a >= b => Sub(a, b) = a - b
             /\ a < b => Sub(a, b) = a - b + IndexMod
  <2>1. IndexMod \in Nat \ {0} /\ a - b \in Int /\ a \in 0 .. IndexMod - 1 /\ b \in 0 .. IndexMod - 1
    BY Ranges DEF Index
  <2>2. /\ a - b \in 0 .. IndexMod - 1 => Sub(a, b) = a - b
        /\ a - b + IndexMod \in 0 .. IndexMod - 1 => Sub(a, b) = a - b + IndexMod
    BY <2>1, Near DEF Sub
  <2> QED
    BY <2>1, <2>2 DEF Index
<1>2. ASSUME NEW a \in Index, NEW n \in 0 .. IndexMod
      PROVE  /\ (a + n) % IndexMod \in Index
             /\ a + n < IndexMod => (a + n) % IndexMod = a + n
             /\ a + n >= IndexMod => (a + n) % IndexMod = a + n - IndexMod
  <2> PICK x \in Int : x = a + n
    BY Ranges DEF Index
  <2>1. IndexMod \in Nat \ {0} /\ x \in Int
        /\ (x \in 0 .. IndexMod - 1 \/ x - IndexMod \in 0 .. IndexMod - 1)
    BY Ranges DEF Index
  <2>2. /\ x \in 0 .. IndexMod - 1 => x % IndexMod = x
        /\ x - IndexMod \in 0 .. IndexMod - 1 => x % IndexMod = x - IndexMod
    BY <2>1, Near
  <2>3. /\ x % IndexMod \in 0 .. IndexMod - 1
        /\ x < IndexMod => x % IndexMod = x
        /\ x >= IndexMod => x % IndexMod = x - IndexMod
    BY <2>1, <2>2
  <2> QED
    BY <2>1, <2>3 DEF Index
<1> QED
  BY <1>1, <1>2

LEMMA InBlocks ==
  ASSUME NEW i \in Index
  PROVE  /\ Offset(i) \in Offsets /\ Blk(i) \in 0 .. Wheel - 1
         /\ i = BlockSize * Blk(i) + Offset(i) /\ Base(i) = BlockSize * Blk(i)
         /\ Base(i) \in Index /\ Offset(Base(i)) = 0 /\ Blk(Base(i)) = Blk(i)
         /\ Base(Base(i)) = Base(i)
<1> DEFINE q == Blk(i)
           r == Offset(i)
<1>1. i = BlockSize * q + r /\ q \in Int /\ r \in Offsets /\ i \in Int /\ BlockSize \in Nat \ {0, 1}
  BY Ranges, Division DEF Blk, Offset, Offsets, Index
<1>2. IndexMod = BlockSize * Wheel /\ Wheel \in Nat /\ i >= 0 /\ i < IndexMod
  BY Ranges DEF Index
<1>3. Base(i) = i - r
  BY DEF Base
<1>4. (BlockSize * q + 0) % BlockSize = 0 /\ (BlockSize * q + 0) \div BlockSize = q
  BY <1>1, Remainder, Quotient
<1>5. BlockSize * q \in Int
  BY <1>1
<1>6. Base(i) = BlockSize * q
  BY <1>1, <1>3, <1>5 DEF Offsets
<1>7. Offset(Base(i)) = 0 /\ Blk(Base(i)) = q
  BY <1>4, <1>5, <1>6 DEF Offset, Blk
<1>8. Base(Base(i)) = Base(i)
  BY <1>5, <1>6, <1>7 DEF Base
<1> HIDE DEF q, r
<1>9. q >= 0
  <2> SUFFICES ASSUME q < 0 PROVE FALSE
    BY <1>1
  <2>1. BlockSize * q <= BlockSize * (-1)
    BY <1>1
  <2> QED
    BY <1>1, <1>2, <2>1 DEF Offsets
<1>10. q < Wheel
  <2> SUFFICES ASSUME q >= Wheel PROVE FALSE
    BY <1>1, <1>2
  <2>1. BlockSize * q >= BlockSize * Wheel
    BY <1>1, <1>2
  <2> QED
    BY <1>1, <1>2, <2>1 DEF Offsets
<1>11. Base(i) \in Index
  BY <1>1, <1>2, <1>3, <1>5, <1>6, <1>9 DEF Index, Offsets
<1> QED
  BY <1>1, <1>2, <1>6, <1>7, <1>8, <1>9, <1>10, <1>11 DEF q, r

LEMMA BlockNumber ==
  ASSUME NEW i \in Index, NEW k \in Index
  PROVE  /\ Base(i) = Base(k) <=> Blk(i) = Blk(k)
         /\ Base(i) = Base(k) /\ Offset(i) = Offset(k) => i = k
<1>1. Base(i) = Base(k) => Blk(i) = Blk(k)
  BY InBlocks
<1> QED
  BY <1>1, InBlocks

(* The next index: in the same block, or the first of the next block.      *)
Next(i) == (i + 1) % IndexMod

LEMMA NextIndex ==
  ASSUME NEW i \in Index
  PROVE  /\ Next(i) \in Index
         /\ Offset(i) < BlockSize - 1 =>
              Base(Next(i)) = Base(i) /\ Blk(Next(i)) = Blk(i) /\ Offset(Next(i)) = Offset(i) + 1
         /\ Offset(i) = BlockSize - 1 =>
              Offset(Next(i)) = 0 /\ (Blk(Next(i)) - 1) % Wheel = Blk(i)
<1> DEFINE q == Blk(i)
           r == Offset(i)
<1>1. i = BlockSize * q + r /\ q \in 0 .. Wheel - 1 /\ r \in Offsets /\ Base(i) = BlockSize * q
  BY InBlocks
<1>2. BlockSize \in Nat \ {0, 1} /\ Wheel \in Nat \ {0} /\ IndexMod \in Nat \ {0}
      /\ IndexMod = BlockSize * Wheel
  BY Ranges
<1>3. /\ Next(i) \in Index
      /\ i + 1 < IndexMod => Next(i) = i + 1
      /\ i + 1 >= IndexMod => Next(i) = i + 1 - IndexMod
  BY <1>2, Circle, 1 \in 0 .. IndexMod DEF Next
<1> HIDE DEF q, r
<1>4. ASSUME r < BlockSize - 1
      PROVE  Base(Next(i)) = Base(i) /\ Blk(Next(i)) = q /\ Offset(Next(i)) = r + 1
  <2>1. BlockSize * q \in Int /\ BlockSize * Wheel \in Int
        /\ BlockSize * q <= BlockSize * (Wheel - 1)
        /\ BlockSize * (Wheel - 1) = BlockSize * Wheel - BlockSize
    BY <1>1, <1>2
  <2>2. Next(i) = BlockSize * q + (r + 1)
    BY <1>1, <1>2, <1>3, <1>4, <2>1 DEF Offsets
  <2>3. r + 1 \in 0 .. BlockSize - 1 /\ q \in Int
    BY <1>1, <1>2, <1>4 DEF Offsets
  <2>4. Offset(Next(i)) = r + 1 /\ Blk(Next(i)) = q
    BY <1>2, <2>2, <2>3, Remainder, Quotient DEF Offset, Blk
  <2>5. Base(Next(i)) = BlockSize * q
    BY <1>2, <2>1, <2>2, <2>3, <2>4 DEF Base
  <2> QED
    BY <1>1, <2>4, <2>5
<1>5. ASSUME r = BlockSize - 1
      PROVE  Offset(Next(i)) = 0 /\ (Blk(Next(i)) - 1) % Wheel = q
  <2>1. i + 1 = BlockSize * (q + 1) + 0 /\ q + 1 \in Int
    BY <1>1, <1>2, <1>5
  <2>2. CASE q + 1 < Wheel
    <3>1. BlockSize * (q + 1) <= BlockSize * (Wheel - 1) /\ BlockSize * (q + 1) \in Int
          /\ BlockSize * (Wheel - 1) = BlockSize * Wheel - BlockSize /\ BlockSize * Wheel \in Int
      BY <1>1, <1>2, <2>2
    <3>2. Next(i) = BlockSize * (q + 1) + 0
      BY <1>2, <1>3, <2>1, <3>1
    <3>3. Offset(Next(i)) = 0 /\ Blk(Next(i)) = q + 1
      BY <1>2, <2>1, <3>2, Remainder, Quotient, 0 \in 0 .. BlockSize - 1 DEF Offset, Blk
    <3>4. q % Wheel = q
      BY <1>1, <1>2, Near, q \in Int
    <3> QED
      BY <1>1, <3>3, <3>4
  <2>3. CASE q + 1 = Wheel
    <3>1. Next(i) = BlockSize * 0 + 0 /\ BlockSize * 0 = 0
      <4>1. i + 1 = IndexMod
        BY <1>1, <1>2, <2>1, <2>3
      <4> QED
        BY <1>2, <1>3, <4>1 DEF Index
    <3>2. Offset(Next(i)) = 0 /\ Blk(Next(i)) = 0
      BY <1>2, <3>1, Remainder, Quotient, 0 \in 0 .. BlockSize - 1, 0 \in Int DEF Offset, Blk
    <3>3. \A z \in Int : z = 0 - 1 => z % Wheel = Wheel - 1
      <4> TAKE z \in Int
      <4> HAVE z = 0 - 1
      <4>1. z + Wheel \in 0 .. Wheel - 1
        BY <1>2
      <4>2. z % Wheel = z + Wheel
        BY <1>2, <4>1, Near
      <4> QED
        BY <1>2, <4>2
    <3> QED
      BY <1>1, <1>2, <2>3, <3>2, <3>3
  <2> QED
    BY <1>1, <1>2, <2>2, <2>3
<1> QED
  BY <1>3, <1>4, <1>5 DEF q, r

(* The size of a block index divides the number of blocks.                 *)
LEMMA Divides ==
  ASSUME NEW n \in Nat \ {0}, MaxEntries % n = 0
  PROVE  n <= MaxEntries /\ MaxEntries <= Wheel /\ \E m \in Nat \ {0} : Wheel = n * m
<1> DEFINE k == BlockSize * MaxEntries
           a == MaxEntries \div n
           b == IndexMod \div k
<1>1. /\ BlockSize \in Nat \ {0, 1} /\ MaxEntries \in Nat \ {0} /\ IndexMod \in Nat \ {0}
      /\ Wheel \in Nat \ {0} /\ IndexMod = BlockSize * Wheel
  BY Ranges
<1>2. k \in Nat \ {0} /\ IndexMod % k = 0
  BY <1>1, RangeAssumption
<1>3. MaxEntries = n * a /\ a \in Int
  <2>1. MaxEntries = n * a + (MaxEntries % n) /\ a \in Int
    BY <1>1, Division
  <2> QED
    BY <2>1
<1> HIDE DEF k
<1>4. IndexMod = k * b /\ b \in Int
  <2>1. IndexMod = k * b + (IndexMod % k) /\ b \in Int
    BY <1>1, <1>2, Division
  <2> QED
    BY <1>2, <2>1
<1> HIDE DEF a, b
<1>5. a >= 1 /\ b >= 1
  BY <1>1, <1>2, <1>3, <1>4
<1>6. BlockSize * Wheel = BlockSize * (MaxEntries * b)
  BY <1>1, <1>4 DEF k
<1>7. Wheel = MaxEntries * b
  BY <1>1, <1>4, <1>6
<1>8. MaxEntries >= n /\ Wheel >= MaxEntries
  <2>1. n * a >= n * 1 /\ MaxEntries * b >= MaxEntries * 1
    BY <1>1, <1>3, <1>4, <1>5
  <2> QED
    BY <1>1, <1>3, <1>7, <2>1
<1>9. Wheel = n * (a * b) /\ a * b \in Nat \ {0}
  BY <1>3, <1>5, <1>4, <1>7
<1> QED
  BY <1>8, <1>9

(* Counting back: the distance between the blocks of two indices, read off *)
(* the sign as the code does, is the number of positions between them.     *)
LEMMA CountBack ==
  ASSUME NEW i \in Index, NEW k \in Index, Offset(k) = 0,
         NEW n \in Nat \ {0}, MaxEntries % n = 0,
         NEW j \in 0 .. n - 1, Blk(k) = (Blk(i) + j) % Wheel, NEW p \in Int
  PROVE  (p - BlocksBehind(i, k)) % n = (p - j) % n
<1> DEFINE x == Blk(i)
           y == Blk(k)
           d == Sub(Base(i), k)
           m == IndexMod \div 2
<1>1. /\ BlockSize \in Nat \ {0, 1} /\ IndexMod \in Nat \ {0} /\ Wheel \in Nat \ {0}
      /\ IndexMod = BlockSize * Wheel /\ m \in Nat /\ IndexMod = 2 * m
  BY Ranges
<1>2. /\ x \in 0 .. Wheel - 1 /\ Base(i) = BlockSize * x /\ Base(i) \in Index
      /\ y \in 0 .. Wheel - 1 /\ k = BlockSize * y
  BY InBlocks
<1>3. n <= Wheel
  BY <1>1, Divides, Ranges
<1>4. y = x + j \/ y = x + j - Wheel
  <2> PICK z \in Int : z = x + j
    BY <1>2
  <2>1. z \in 0 .. Wheel - 1 \/ z - Wheel \in 0 .. Wheel - 1
    BY <1>1, <1>2, <1>3
  <2>2. z % Wheel = z \/ z % Wheel = z - Wheel
    BY <1>1, <2>1, Near
  <2> QED
    BY <1>1, <1>2, <2>2
<1>5. d = IF Base(i) >= k THEN Base(i) - k ELSE Base(i) - k + IndexMod
  <2>1. Base(i) \in Int /\ k \in Int
    BY <1>2 DEF Index
  <2>2. /\ Base(i) >= k => Sub(Base(i), k) = Base(i) - k
        /\ Base(i) < k => Sub(Base(i), k) = Base(i) - k + IndexMod
    BY <1>2, Circle
  <2> QED
    BY <2>1, <2>2
<1>6. BlocksBehind(i, k) = IF d >= m THEN (IndexMod - d) \div BlockSize
                                     ELSE 0 - (d \div BlockSize)
  BY DEF BlocksBehind
<1>7. /\ BlockSize * x \in Int /\ BlockSize * y \in Int /\ BlockSize * j \in Int
      /\ BlockSize * (x + j) = BlockSize * x + BlockSize * j
      /\ BlockSize * (x + j - Wheel) = BlockSize * x + BlockSize * j - BlockSize * Wheel
      /\ BlockSize * Wheel \in Int
      /\ BlockSize * (Wheel - j) = BlockSize * Wheel - BlockSize * j
      /\ BlockSize * (j - Wheel) = BlockSize * j - BlockSize * Wheel
  BY <1>1, <1>2
<1>8. BlockSize * j < BlockSize * Wheel /\ (j > 0 => BlockSize * j > 0)
  BY <1>1, <1>3
<1> HIDE DEF x, y, d, m
<1>9. d = IF j = 0 THEN 0 ELSE IndexMod - BlockSize * j
  <2>1. CASE j = 0
    <3>1. BlockSize * j = 0
      BY <1>1, <2>1
    <3>2. Base(i) = k
      BY <1>1, <1>2, <1>4, <1>7, <2>1, <3>1
    <3> QED
      BY <1>2, <1>5, <1>7, <2>1, <3>2
  <2>2. CASE j > 0
    <3>1. CASE y = x + j
      BY <1>1, <1>2, <1>5, <1>7, <1>8, <2>2, <3>1
    <3>2. CASE y = x + j - Wheel
      BY <1>1, <1>2, <1>5, <1>7, <1>8, <2>2, <3>2
    <3> QED
      BY <1>4, <3>1, <3>2
  <2> QED
    BY <2>1, <2>2
<1>10. BlocksBehind(i, k) = j \/ BlocksBehind(i, k) = j - Wheel
  <2>1. CASE j = 0
    <3>1. d = BlockSize * 0 + 0 /\ d < m
      BY <1>1, <1>9, <2>1
    <3>2. d \div BlockSize = 0
      BY <1>1, <3>1, Quotient, 0 \in Int, 0 \in 0 .. BlockSize - 1
    <3> QED
      BY <1>1, <1>6, <2>1, <3>1, <3>2
  <2>2. CASE j > 0 /\ d >= m
    <3>1. IndexMod - d = BlockSize * j + 0 /\ j \in Int
      BY <1>1, <1>7, <1>9, <2>2
    <3>2. (IndexMod - d) \div BlockSize = j
      BY <1>1, <3>1, Quotient, 0 \in 0 .. BlockSize - 1
    <3> QED
      BY <1>6, <2>2, <3>2
  <2>3. CASE j > 0 /\ ~ (d >= m)
    <3>1. d = BlockSize * (Wheel - j) + 0 /\ Wheel - j \in Int
      BY <1>1, <1>7, <1>9, <2>3
    <3>2. d \div BlockSize = Wheel - j
      BY <1>1, <3>1, Quotient, 0 \in 0 .. BlockSize - 1
    <3> QED
      BY <1>1, <1>6, <2>3, <3>2
  <2> QED
    BY <2>1, <2>2, <2>3
<1>11. PICK c \in Nat \ {0} : Wheel = n * c
  BY Divides
<1>12. (p - (j - Wheel)) % n = (p - j) % n
  <2>1. p - (j - Wheel) = (p - j) + n * c
    BY <1>1, <1>11
  <2>2. ((p - j) + n * c) % n = (p - j) % n
    BY Circles, c \in Int, p - j \in Int
  <2> QED
    BY <2>1, <2>2
<1> QED
  BY <1>10, <1>12

-----------------------------------------------------------------------------
(* The block index.                                                        *)
LEMMA Shape ==
  ASSUME QueueTypes
  PROVE  /\ blockIndex \in DOMAIN headers /\ blockIndex \in Nat \ {0}
         /\ DOMAIN headers = 1 .. blockIndex
         /\ \A h \in DOMAIN headers :
              /\ headers[h] \in BlockIndexes
              /\ Positions(h) \in Nat \ {0} /\ headers[h].tail \in 0 .. Positions(h) - 1
              /\ headers[h].index \in [1 .. Positions(h) -> Entries]
              /\ \A p \in 0 .. Positions(h) - 1 : EntryAt(h, p) \in Entries
<1>1. headers \in Seq(BlockIndexes) /\ headers # <<>>
  BY DEF QueueTypes
<1>2. blockIndex \in Nat \ {0} /\ DOMAIN headers = 1 .. blockIndex
  BY <1>1 DEF blockIndex
<1>3. ASSUME NEW h \in DOMAIN headers
      PROVE  /\ headers[h] \in BlockIndexes
             /\ Positions(h) \in Nat \ {0} /\ headers[h].tail \in 0 .. Positions(h) - 1
             /\ headers[h].index \in [1 .. Positions(h) -> Entries]
             /\ \A p \in 0 .. Positions(h) - 1 : EntryAt(h, p) \in Entries
  <2>1. headers[h] \in BlockIndexes
    BY <1>1
  <2>2. PICK n \in Nat \ {0} : headers[h] \in [ tail : 0 .. n - 1, index : [1 .. n -> Entries] ]
    BY <2>1 DEF BlockIndexes
  <2>3. headers[h].index \in [1 .. n -> Entries] /\ headers[h].tail \in 0 .. n - 1
    BY <2>2
  <2>4. headers[h].index \in Seq(Entries)
    BY <2>3
  <2>5. Len(headers[h].index) = n
    BY <2>3, <2>4
  <2>6. \A p \in 0 .. n - 1 : p + 1 \in 1 .. n
    OBVIOUS
  <2> QED
    BY <2>1, <2>3, <2>5, <2>6 DEF Positions, EntryAt
<1> QED
  BY <1>2, <1>3

LEMMA Spots ==
  ASSUME QueueTypes, EntriesOK
  PROVE  /\ Size \in Nat \ {0} /\ TailPos \in 0 .. Size - 1
         /\ Size <= MaxEntries /\ Size <= Wheel /\ MaxEntries % Size = 0
         /\ \A j \in Int : Spot(j) \in 1 .. Size /\ Spot(j) \in Entries
         /\ \A e \in 1 .. Size : \E j \in 0 .. Size - 1 : e = Spot(j)
         /\ \A i, j \in Int : i - j < Size /\ j - i < Size /\ Spot(i) = Spot(j) => i = j
         /\ \A j \in Int : Spot(j + Size) = Spot(j)
         /\ \A e \in Entries : value[e] # None => e \in 1 .. Size
<1>1. /\ Size \in Nat \ {0} /\ TailPos \in 0 .. Size - 1 /\ MaxEntries % Size = 0
      /\ headers[blockIndex].index \in [1 .. Size -> Entries]
  BY Shape DEF Size, TailPos, EntriesOK
<1>2. Size <= MaxEntries /\ MaxEntries <= Wheel /\ MaxEntries \in Nat /\ Wheel \in Nat
  BY <1>1, Divides, Ranges
<1>3. \A j \in Int : (TailPos - j) % Size \in 0 .. Size - 1
  <2> TAKE j \in Int
  <2>1. TailPos - j \in Int
    BY <1>1
  <2> QED
    BY <1>1, <2>1, Near
<1>4. \A j \in Int : Spot(j) = headers[blockIndex].index[((TailPos - j) % Size) + 1]
                     /\ ((TailPos - j) % Size) + 1 \in 1 .. Size
  BY <1>1, <1>3 DEF Spot, EntryAt
<1>5. \A j \in Int : Spot(j) \in 1 .. Size /\ Spot(j) \in Entries
  <2>1. Bijective /\ \A e \in 1 .. Size : e \in Entries
    BY <1>1, <1>2 DEF EntriesOK, Entries
  <2> TAKE j \in Int
  <2>2. PICK p \in 1 .. Size : Spot(j) = headers[blockIndex].index[p]
    BY <1>4
  <2>3. Spot(j) \in 1 .. Size
    BY <2>1, <2>2 DEF Bijective
  <2> QED
    BY <2>1, <2>3
<1>6. ASSUME NEW e \in 1 .. Size
      PROVE  \E j \in 0 .. Size - 1 : e = Spot(j)
  <2>1. PICK p \in 1 .. Size : headers[blockIndex].index[p] = e
    BY DEF EntriesOK, Bijective
  <2> DEFINE j == IF p - 1 <= TailPos THEN TailPos - (p - 1) ELSE TailPos - (p - 1) + Size
  <2>2. j \in 0 .. Size - 1
    BY <1>1
  <2>3. (TailPos - j) % Size = p - 1
    <3>1. CASE p - 1 <= TailPos
      <4>1. TailPos - j = p - 1 /\ p - 1 \in 0 .. Size - 1
        BY <1>1, <3>1
      <4> QED
        BY <1>1, <4>1, Near, TailPos - j \in Int
    <3>2. CASE ~ (p - 1 <= TailPos)
      <4> PICK z \in Int : z = TailPos - j
        BY <1>1, <2>2
      <4>1. z + Size = p - 1 /\ z + Size \in 0 .. Size - 1
        BY <1>1, <3>2
      <4>2. z % Size = z + Size
        BY <1>1, <4>1, Below
      <4> QED
        BY <1>1, <4>1, <4>2
    <3> QED
      BY <3>1, <3>2
  <2>4. Spot(j) = headers[blockIndex].index[p]
    BY <1>1, <1>4, <2>2, <2>3, j \in Int, (p - 1) + 1 = p
  <2> QED
    BY <2>1, <2>2, <2>4
<1>7. ASSUME NEW i \in Int, NEW j \in Int, i - j < Size, j - i < Size, Spot(i) = Spot(j)
      PROVE  i = j
  <2>0. Bijective
    BY DEF EntriesOK
  <2>1. ((TailPos - i) % Size) + 1 = ((TailPos - j) % Size) + 1
    BY <1>4, <1>7, <2>0 DEF Bijective
  <2>2. (TailPos - i) % Size \in Int /\ (TailPos - j) % Size \in Int
    BY <1>3
  <2>3. (TailPos - i) % Size = (TailPos - j) % Size
    BY <2>1, <2>2
  <2> PICK x \in Int, y \in Int : x = TailPos - i /\ y = TailPos - j
    BY <1>1
  <2>4. x % Size = y % Size /\ x - y < Size /\ y - x < Size
    BY <1>1, <1>7, <2>3
  <2>5. x = y
    BY <1>1, <2>4, SameRemainder
  <2> QED
    BY <1>1, <2>5
<1>8. ASSUME NEW j \in Int PROVE Spot(j + Size) = Spot(j)
  <2> PICK x \in Int : x = TailPos - (j + Size)
    BY <1>1
  <2>1. TailPos - j = x + Size * 1
    BY <1>1
  <2>2. (x + Size * 1) % Size = x % Size
    BY <1>1, Circles, 1 \in Int
  <2>3. (TailPos - j) % Size = (TailPos - (j + Size)) % Size
    BY <2>1, <2>2
  <2> QED
    BY <2>3 DEF Spot
<1>9. \A e \in Entries : value[e] # None => e \in 1 .. Size
  BY <1>1 DEF EntriesOK, Entries
<1> QED
  BY <1>1, <1>2, <1>5, <1>6, <1>7, <1>8, <1>9

-----------------------------------------------------------------------------
(* The counters.                                                           *)
LEMMA CircleFacts ==
  ASSUME NEW a \in Index, NEW b \in Index, NEW n \in 0 .. IndexMod
  PROVE  /\ Sub(a, b) \in Index
         /\ Sub(a, b) = a - b \/ Sub(a, b) = a - b + IndexMod
         /\ (a + n) % IndexMod \in Index
         /\ (a + n) % IndexMod = a + n \/ (a + n) % IndexMod = a + n - IndexMod
<1>1. a \in Int /\ b \in Int /\ IndexMod \in Int
  BY Ranges DEF Index
<1>2. /\ Sub(a, b) \in Index
      /\ a >= b => Sub(a, b) = a - b
      /\ a < b => Sub(a, b) = a - b + IndexMod
  BY Circle
<1>3. /\ (a + n) % IndexMod \in Index
      /\ a + n < IndexMod => (a + n) % IndexMod = a + n
      /\ a + n >= IndexMod => (a + n) % IndexMod = a + n - IndexMod
  BY Circle
<1>4. a >= b \/ a < b
  BY <1>1
<1>5. a + n < IndexMod \/ a + n >= IndexMod
  BY <1>1
<1> QED
  BY <1>2, <1>3, <1>4, <1>5

LEMMA NextFacts ==
  ASSUME NEW a \in Index
  PROVE  Next(a) \in Index /\ (Next(a) = a + 1 \/ Next(a) = a + 1 - IndexMod)
<1>1. 1 \in 0 .. IndexMod
  BY Ranges
<1> QED
  BY <1>1, CircleFacts DEF Next

(* The number a dequeue is counted in for, from the balance.               *)
LEMMA TicketNumber ==
  ASSUME NEW o \in Index, NEW v \in Index, NEW h \in Index, NEW n \in Nat,
         NEW w \in 0 .. v, n + v <= IndexMod \div 2, Sub(o, v) = (h + n) % IndexMod
  PROVE  Sub(Sub(o, w), h) = n + (v - w)
<1> DEFINE a == Sub(o, v)
           b == (h + n) % IndexMod
           x == Sub(o, w)
           y == Sub(x, h)
<1>1. IndexMod \in Nat \ {0} /\ IndexMod \div 2 \in Nat /\ IndexMod = 2 * (IndexMod \div 2)
  BY Ranges
<1>2. /\ o \in 0 .. IndexMod - 1 /\ v \in 0 .. IndexMod - 1 /\ h \in 0 .. IndexMod - 1
      /\ w \in Index /\ n \in 0 .. IndexMod
  BY <1>1 DEF Index
<1>3. a \in 0 .. IndexMod - 1 /\ (a = o - v \/ a = o - v + IndexMod)
  BY <1>2, CircleFacts DEF Index
<1>4. b = h + n \/ b = h + n - IndexMod
  BY <1>2, CircleFacts
<1>5. x \in Index /\ (x = o - w \/ x = o - w + IndexMod)
  BY <1>2, CircleFacts
<1>6. y \in 0 .. IndexMod - 1 /\ (y = x - h \/ y = x - h + IndexMod)
  BY <1>2, <1>5, CircleFacts DEF Index
<1>7. x \in 0 .. IndexMod - 1
  BY <1>5 DEF Index
<1>8. a = b
  OBVIOUS
<1> HIDE DEF a, b, x, y
<1>9. y = n + (v - w)
  BY <1>1, <1>2, <1>3, <1>4, <1>5, <1>6, <1>7, <1>8
<1> QED
  BY <1>9 DEF x, y

(* One more counted in, one served, one counted out.                       *)
LEMMA BalanceSteps ==
  ASSUME NEW o \in Index, NEW v \in Index, NEW h \in Index, NEW n \in 0 .. IndexMod - 1,
         Sub(o, v) = (h + n) % IndexMod
  PROVE  /\ Sub(Next(o), v) = (h + (n + 1)) % IndexMod
         /\ n > 0 => Sub(o, v) = (Next(h) + (n - 1)) % IndexMod
         /\ n > 0 => Sub(o, Next(v)) = (h + (n - 1)) % IndexMod
<1>1. IndexMod \in Nat \ {0}
  BY Ranges
<1>2. /\ o \in 0 .. IndexMod - 1 /\ v \in 0 .. IndexMod - 1 /\ h \in 0 .. IndexMod - 1
      /\ n \in 0 .. IndexMod /\ n + 1 \in 0 .. IndexMod
      /\ Next(o) \in Index /\ Next(h) \in Index /\ Next(v) \in Index
  BY <1>1, NextFacts DEF Index
<1>3. /\ Next(o) \in 0 .. IndexMod - 1 /\ (Next(o) = o + 1 \/ Next(o) = o + 1 - IndexMod)
      /\ Next(h) \in 0 .. IndexMod - 1 /\ (Next(h) = h + 1 \/ Next(h) = h + 1 - IndexMod)
      /\ Next(v) \in 0 .. IndexMod - 1 /\ (Next(v) = v + 1 \/ Next(v) = v + 1 - IndexMod)
  BY NextFacts DEF Index
<1> DEFINE a == Sub(o, v)
           b == (h + n) % IndexMod
<1>4. a \in 0 .. IndexMod - 1 /\ (a = o - v \/ a = o - v + IndexMod)
      /\ (b = h + n \/ b = h + n - IndexMod) /\ a = b
  BY <1>2, CircleFacts DEF Index
<1> HIDE DEF a, b
<1>5. Sub(Next(o), v) = (h + (n + 1)) % IndexMod
  <2> DEFINE x == Sub(Next(o), v)
             y == (h + (n + 1)) % IndexMod
  <2>1. x \in 0 .. IndexMod - 1 /\ (x = Next(o) - v \/ x = Next(o) - v + IndexMod)
    BY <1>2, CircleFacts DEF Index
  <2>2. y \in 0 .. IndexMod - 1 /\ (y = h + (n + 1) \/ y = h + (n + 1) - IndexMod)
    BY <1>2, CircleFacts DEF Index
  <2> HIDE DEF x, y
  <2>3. x = y
    BY <1>1, <1>2, <1>3, <1>4, <2>1, <2>2
  <2> QED
    BY <2>3 DEF x, y
<1>6. ASSUME n > 0 PROVE a = (Next(h) + (n - 1)) % IndexMod
  <2> DEFINE y == (Next(h) + (n - 1)) % IndexMod
  <2>1. n - 1 \in 0 .. IndexMod
    BY <1>1, <1>2, <1>6
  <2>2. y \in 0 .. IndexMod - 1 /\ (y = Next(h) + (n - 1) \/ y = Next(h) + (n - 1) - IndexMod)
    BY <1>2, <2>1, CircleFacts DEF Index
  <2> HIDE DEF y
  <2>3. a = y
    BY <1>1, <1>2, <1>3, <1>4, <2>2
  <2> QED
    BY <2>3 DEF y
<1>7. ASSUME n > 0 PROVE Sub(o, Next(v)) = (h + (n - 1)) % IndexMod
  <2> DEFINE x == Sub(o, Next(v))
             y == (h + (n - 1)) % IndexMod
  <2>1. n - 1 \in 0 .. IndexMod
    BY <1>1, <1>2, <1>7
  <2>2. x \in 0 .. IndexMod - 1 /\ (x = o - Next(v) \/ x = o - Next(v) + IndexMod)
    BY <1>2, CircleFacts DEF Index
  <2>3. y \in 0 .. IndexMod - 1 /\ (y = h + (n - 1) \/ y = h + (n - 1) - IndexMod)
    BY <1>2, <2>1, CircleFacts DEF Index
  <2> HIDE DEF x, y
  <2>4. x = y
    BY <1>1, <1>2, <1>3, <1>4, <2>2, <2>3
  <2> QED
    BY <2>4 DEF x, y
<1> QED
  BY <1>5, <1>6, <1>7 DEF a

(* How many are under way.                                                 *)
LEMMA Waiting ==
  /\ IsFiniteSet(Rechecking) /\ IsFiniteSet(Limbo)
  /\ Cardinality(Rechecking) \in Nat /\ Cardinality(Limbo) \in Nat
  /\ Cardinality(Rechecking) <= Cardinality(Limbo)
  /\ Cardinality(Consumers) \in Nat /\ Cardinality(Limbo) <= Cardinality(Consumers)
  /\ Cardinality(Consumers) + MaxOvercommit <= IndexMod \div 2 /\ MaxOvercommit \in Nat
<1>1. IsFiniteSet(Consumers) /\ Cardinality(Consumers) + MaxOvercommit <= IndexMod \div 2
      /\ MaxOvercommit \in Nat
  BY RangeAssumption
<1>2. Rechecking \subseteq Limbo /\ Limbo \subseteq Consumers
  BY DEF Rechecking, Limbo
<1>3. IsFiniteSet(Limbo) /\ Cardinality(Limbo) <= Cardinality(Consumers)
  BY <1>1, <1>2, FS_Subset
<1>4. IsFiniteSet(Rechecking) /\ Cardinality(Rechecking) <= Cardinality(Limbo)
  BY <1>2, <1>3, FS_Subset
<1> QED
  BY <1>1, <1>3, <1>4, FS_CardinalityType

Counting == {"recheck", "overcommit"}

LEMMA CounterTypes ==
  ASSUME QueueTypes
  PROVE  /\ Length \in 0 .. IndexMod - 1
         /\ \A c \in Consumers : Ahead(c) \in 0 .. IndexMod - 1
         /\ dequeueOvercommit \in Index
         /\ \A c \in Consumers : mine[c] \in Locals /\ pc[c] \in ConsumerStages
<1>1. tailIndex \in Index /\ headIndex \in Index /\ dequeueOvercommit \in 0 .. MaxOvercommit
      /\ mine \in [Consumers -> Locals] /\ pc \in [Consumers -> ConsumerStages]
  BY DEF QueueTypes
<1>2. \A c \in Consumers : mine[c] \in Locals /\ mine[c].count \in Index /\ mine[c].over \in Index
  BY <1>1 DEF Locals
<1>3. Length \in 0 .. IndexMod - 1
  BY <1>1, Circle DEF Length, Index
<1>4. ASSUME NEW c \in Consumers PROVE Ahead(c) \in 0 .. IndexMod - 1
  BY <1>1, <1>2, Circle DEF Ahead, Index
<1>5. dequeueOvercommit \in Index
  BY <1>1, Waiting, Ranges DEF Index
<1> QED
  BY <1>1, <1>2, <1>3, <1>4, <1>5

(* A step that leaves those who are being counted alone, and at most adds  *)
(* to the elements.                                                        *)
LEMMA CountersApart ==
  ASSUME QueueTypes, CountersOK, LengthOK', Length \in Int, Length' \in Int,
         Length <= Length', UNCHANGED counters,
         \A c \in Consumers : pc[c] \in Counting \/ pc'[c] \in Counting =>
                                pc'[c] = pc[c] /\ mine'[c] = mine[c],
         \A c \in Consumers : pc'[c] \in {"check", "claim"} =>
                                mine'[c].over <= dequeueOvercommit
  PROVE  CountersOK'
<1>1. Rechecking' = Rechecking /\ Limbo' = Limbo
  BY DEF Rechecking, Limbo, Counting
<1>2. \A c \in Consumers : pc[c] \in Counting => Ahead(c)' = Ahead(c)
  BY DEF Ahead, Sub, counters
<1>3. Balance'
  BY <1>1 DEF CountersOK, Balance, counters
<1>4. TicketsOK'
  <2>1. PICK rank \in [Consumers -> 0 .. Cardinality(Consumers)] :
          \A c \in Rechecking :
            /\ rank[c] < Cardinality(Rechecking)
            /\ \A d \in Rechecking \ {c} : rank[c] # rank[d]
            /\ Ranked(c, rank[c])
    BY DEF CountersOK, TicketsOK
  <2>2. ASSUME NEW c \in Rechecking PROVE Ranked(c, rank[c])'
    <3>1. c \in Consumers /\ pc[c] \in Counting
      BY DEF Rechecking, Counting
    <3>2. rank[c] \in Int
      BY <3>1, Waiting
    <3>3. Ranked(c, rank[c])
      BY <2>1
    <3> QED
      BY <1>2, <3>1, <3>2, <3>3 DEF Ranked
  <2> QED
    BY <1>1, <2>1, <2>2 DEF TicketsOK
<1>5. ASSUME NEW c \in Consumers, pc'[c] \in {"check", "claim", "recheck"}
      PROVE  mine'[c].over <= dequeueOvercommit'
  BY <1>5 DEF CountersOK, Counting, counters
<1> QED
  BY <1>3, <1>4, <1>5 DEF CountersOK

LEMMA LengthStays ==
  ASSUME QueueTypes, LengthOK, UNCHANGED << tailIndex, headIndex, enq >>
  PROVE  LengthOK' /\ Length' = Length /\ Length \in Int
<1>1. Length \in Int
  BY CounterTypes
<1> QED
  BY <1>1 DEF LengthOK, Length, Started

Others(c) == \A d \in Consumers \ {c} : pc'[d] = pc[d] /\ mine'[d] = mine[d]

LEMMA LookingStep ==
  ASSUME QueueTypes, CountersOK, NEW c \in Consumers,
         LoadOvercommit(c) \/ LooksEmpty(c) \/ CountIn(c)
  PROVE  CountersOK'
<1>1. /\ UNCHANGED << tailIndex, enq, counters >> /\ Others(c)
      /\ pc[c] \notin Counting /\ pc'[c] \notin Counting
      /\ pc'[c] \in {"check", "claim"} => mine'[c].over <= dequeueOvercommit
  <2>1. dequeueOvercommit <= dequeueOvercommit /\ mine \in [Consumers -> Locals]
        /\ pc \in [Consumers -> ConsumerStages]
    BY Waiting DEF QueueTypes
  <2>2. CASE LoadOvercommit(c)
    <3>1. mine'[c].over = dequeueOvercommit
      BY <2>1, <2>2 DEF LoadOvercommit, Locals
    <3> QED
      BY <2>1, <2>2, <3>1 DEF LoadOvercommit, Goto, memory, counters, Others, Counting
  <2>3. CASE LooksEmpty(c)
    BY <2>1, <2>3 DEF LooksEmpty, Goto, memory, counters, Others, Counting
  <2>4. CASE CountIn(c)
    <3>1. mine[c].over <= dequeueOvercommit
      BY <2>4 DEF CountIn, CountersOK
    <3> QED
      BY <2>1, <2>4, <3>1 DEF CountIn, Goto, memory, counters, Others, Counting
  <2> QED
    BY <2>2, <2>3, <2>4
<1>2. LengthOK' /\ Length' = Length /\ Length \in Int
  BY <1>1, LengthStays DEF CountersOK, counters
<1>3. ASSUME NEW d \in Consumers, pc'[d] \in {"check", "claim"}
      PROVE  mine'[d].over <= dequeueOvercommit
  BY <1>1, <1>3 DEF Others, CountersOK
<1>4. \A d \in Consumers : pc[d] \in Counting \/ pc'[d] \in Counting =>
        pc'[d] = pc[d] /\ mine'[d] = mine[d]
  BY <1>1 DEF Others
<1> QED
  BY <1>1, <1>2, <1>3, <1>4, CountersApart

(* Counted in: the newcomer gets the last rank.                            *)
LEMMA FetchAddOptimisticStep ==
  ASSUME QueueTypes, CountersOK, NEW c \in Consumers, FetchAddOptimistic(c)
  PROVE  CountersOK'
<1>1. /\ pc[c] = "claim" /\ pc'[c] = "recheck" /\ Others(c)
      /\ mine'[c].count = dequeueOptimisticCount /\ mine'[c].over = mine[c].over
      /\ dequeueOptimisticCount' = Next(dequeueOptimisticCount)
      /\ UNCHANGED << tailIndex, enq, headIndex, dequeueOvercommit >>
  <2>1. mine \in [Consumers -> Locals] /\ pc \in [Consumers -> ConsumerStages]
    BY DEF QueueTypes
  <2>2. mine'[c].count = dequeueOptimisticCount /\ mine'[c].over = mine[c].over
    BY <2>1 DEF FetchAddOptimistic, Locals
  <2> QED
    BY <2>1, <2>2 DEF FetchAddOptimistic, Goto, memory, Others, Next
<1> DEFINE R == Rechecking
           L == Limbo
<1> PICK r \in Nat, n \in Nat : r = Cardinality(Rechecking) /\ n = Cardinality(Limbo)
  BY Waiting
<1>2. c \notin L /\ L' = L \union {c} /\ c \notin R /\ R' = R \union {c}
  BY <1>1 DEF Rechecking, Limbo, Others
<1>3. Cardinality(L') = n + 1 /\ Cardinality(R') = r + 1
  BY <1>2, Waiting, FS_AddElement
<1>4. n + 1 <= Cardinality(Consumers)
  <2>1. L \union {c} \subseteq Consumers /\ IsFiniteSet(Consumers)
    BY RangeAssumption DEF Limbo
  <2>2. Cardinality(L \union {c}) <= Cardinality(Consumers)
    BY <2>1, FS_Subset
  <2> QED
    BY <1>2, <1>3, <2>2
<1>5. /\ dequeueOptimisticCount \in Index /\ dequeueOvercommit \in Index /\ headIndex \in Index
      /\ dequeueOvercommit \in 0 .. MaxOvercommit /\ mine[c].over \in Index
      /\ mine[c].over <= dequeueOvercommit /\ IndexMod \in Nat \ {0}
      /\ 2 * (IndexMod \div 2) = IndexMod /\ IndexMod \div 2 \in Nat
  BY <1>1, CounterTypes, Ranges DEF QueueTypes, CountersOK, Locals
<1>6. /\ n \in Nat /\ r \in Nat /\ r <= n /\ n + dequeueOvercommit <= IndexMod \div 2
      /\ mine[c].over \in 0 .. dequeueOvercommit /\ n \in 0 .. IndexMod - 1
  BY <1>4, <1>5, Waiting DEF Index
<1>7. Sub(dequeueOptimisticCount, dequeueOvercommit) = (headIndex + n) % IndexMod
  BY DEF CountersOK, Balance
<1>8. Ahead(c)' = n + (dequeueOvercommit - mine[c].over)
  <2>1. Sub(Sub(dequeueOptimisticCount, mine[c].over), headIndex)
          = n + (dequeueOvercommit - mine[c].over)
    BY <1>5, <1>6, <1>7, TicketNumber
  <2>2. Ahead(c)' = Sub(Sub(dequeueOptimisticCount, mine[c].over), headIndex)
    BY <1>1 DEF Ahead, Sub
  <2> QED
    BY <2>1, <2>2
<1>9. Balance'
  <2>1. Sub(Next(dequeueOptimisticCount), dequeueOvercommit) = (headIndex + (n + 1)) % IndexMod
    BY <1>5, <1>6, <1>7, BalanceSteps, ZenonT(90)
  <2> QED
    BY <1>1, <1>3, <2>1 DEF Balance, Sub
<1>10. LengthOK' /\ Length' = Length
  BY <1>1, LengthStays DEF CountersOK
<1>11. TicketsOK'
  <2>1. PICK rank \in [Consumers -> 0 .. Cardinality(Consumers)] :
          \A d \in R :
            /\ rank[d] < r
            /\ \A e \in R \ {d} : rank[d] # rank[e]
            /\ Ranked(d, rank[d])
    BY DEF CountersOK, TicketsOK
  <2> DEFINE new == [rank EXCEPT ![c] = r]
  <2>2. new \in [Consumers -> 0 .. Cardinality(Consumers)]
    BY <1>4, <1>6, <2>1, Waiting
  <2>3. new[c] = r /\ \A d \in R : new[d] = rank[d] /\ d \in Consumers /\ d # c
    BY <1>2, <2>1 DEF Rechecking
  <2>4. r \in Int /\ \A d \in R : rank[d] \in Int
    BY <1>6, <2>1, Waiting DEF Rechecking
  <2>5. ASSUME NEW d \in R PROVE Ranked(d, new[d])'
    <3>1. mine'[d] = mine[d]
      BY <1>1, <1>2, <2>3 DEF Others
    <3>2. Ahead(d)' = Ahead(d)
      BY <1>1, <3>1 DEF Ahead, Sub
    <3> QED
      BY <1>10, <2>1, <2>3, <3>2 DEF Ranked
  <2>6. Ranked(c, new[c])'
    <3>1. r <= Ahead(c)' /\ Ahead(c)' <= IndexMod \div 2
      BY <1>5, <1>6, <1>8
    <3> QED
      BY <2>3, <3>1 DEF Ranked
  <2>7. ASSUME NEW d \in R'
        PROVE  /\ new[d] < Cardinality(R')
               /\ \A e \in R' \ {d} : new[d] # new[e]
               /\ Ranked(d, new[d])'
    <3>1. CASE d = c
      BY <1>2, <1>3, <2>1, <2>3, <2>4, <2>6, <3>1
    <3>2. CASE d \in R
      BY <1>2, <1>3, <2>1, <2>3, <2>4, <2>5, <3>2
    <3> QED
      BY <1>2, <3>1, <3>2
  <2> HIDE DEF new
  <2> QED
    BY <2>2, <2>7 DEF TicketsOK
<1>12. ASSUME NEW d \in Consumers, pc'[d] \in {"check", "claim", "recheck"}
       PROVE  mine'[d].over <= dequeueOvercommit'
  BY <1>1, <1>5, <1>12 DEF Others, CountersOK
<1> QED
  BY <1>9, <1>10, <1>11, <1>12 DEF CountersOK

LEMMA SubNext ==
  ASSUME NEW a \in Index, NEW h \in Index
  PROVE  /\ Sub(a, h) \in 0 .. IndexMod - 1
         /\ Sub(a, h) > 0 => Sub(a, Next(h)) = Sub(a, h) - 1
         /\ Sub(a, h) < IndexMod - 1 => Sub(Next(a), h) = Sub(a, h) + 1
<1> DEFINE x == Sub(a, h)
           y == Sub(a, Next(h))
           z == Sub(Next(a), h)
<1>1. /\ IndexMod \in Nat \ {0} /\ 0 \in 0 .. IndexMod /\ Next(a) \in Index /\ Next(h) \in Index
  BY NextFacts, Ranges
<1>2. /\ x \in 0 .. IndexMod - 1 /\ (x = a - h \/ x = a - h + IndexMod)
      /\ y \in 0 .. IndexMod - 1 /\ (y = a - Next(h) \/ y = a - Next(h) + IndexMod)
      /\ z \in 0 .. IndexMod - 1 /\ (z = Next(a) - h \/ z = Next(a) - h + IndexMod)
  BY <1>1, CircleFacts DEF Index
<1>3. (Next(a) = a + 1 \/ Next(a) = a + 1 - IndexMod) /\ (Next(h) = h + 1 \/ Next(h) = h + 1 - IndexMod)
      /\ a \in 0 .. IndexMod - 1 /\ h \in 0 .. IndexMod - 1
      /\ Next(a) \in 0 .. IndexMod - 1 /\ Next(h) \in 0 .. IndexMod - 1
  BY <1>1, NextFacts DEF Index
<1> HIDE DEF x, y, z
<1>4. x > 0 => y = x - 1
  BY <1>1, <1>2, <1>3
<1>5. x < IndexMod - 1 => z = x + 1
  BY <1>1, <1>2, <1>3
<1> QED
  BY <1>2, <1>4, <1>5 DEF x, y, z

(* An element that is in stock is in front of the tail, if it is not too   *)
(* far from the head.                                                      *)
LEMMA InStockMeans ==
  ASSUME NEW v \in Index, NEW t \in Index, NEW h \in Index,
         Sub(t, h) < IndexMod \div 2, Sub(v, h) <= IndexMod \div 2, Sub(v, t) > IndexMod \div 2
  PROVE  Sub(v, h) < Sub(t, h)
<1> DEFINE x == Sub(t, h)
           y == Sub(v, h)
           z == Sub(v, t)
           m == IndexMod \div 2
<1>1. IndexMod \in Nat \ {0} /\ 0 \in 0 .. IndexMod /\ m \in Nat /\ IndexMod = 2 * m
  BY Ranges
<1>2. /\ x \in 0 .. IndexMod - 1 /\ (x = t - h \/ x = t - h + IndexMod)
      /\ y \in 0 .. IndexMod - 1 /\ (y = v - h \/ y = v - h + IndexMod)
      /\ z \in 0 .. IndexMod - 1 /\ (z = v - t \/ z = v - t + IndexMod)
  BY <1>1, CircleFacts DEF Index
<1>3. t \in 0 .. IndexMod - 1 /\ h \in 0 .. IndexMod - 1 /\ v \in 0 .. IndexMod - 1
      /\ x < m /\ y <= m /\ z > m
  BY DEF Index
<1> HIDE DEF x, y, z, m
<1>4. y < x
  BY <1>1, <1>2, <1>3
<1> QED
  BY <1>4 DEF x, y

(* Ranks without that of one that leaves.                                  *)
Ranking(rank, R) ==
  \A d \in R : rank[d] < Cardinality(R) /\ \A e \in R \ {d} : rank[d] # rank[e]

MovedUp(new, rank, R, c) ==
  \A d \in R \ {c} :
    /\ new[d] < Cardinality(R \ {c})
    /\ \A e \in (R \ {c}) \ {d} : new[d] # new[e]
    /\ rank[d] > rank[c] => new[d] = rank[d] - 1
    /\ rank[d] < rank[c] => new[d] = rank[d]
    /\ rank[d] > rank[c] \/ rank[d] < rank[c]

LEMMA Reranked ==
  ASSUME NEW R, IsFiniteSet(R), R \subseteq Consumers, NEW c \in R,
         NEW rank \in [Consumers -> 0 .. Cardinality(Consumers)],
         Ranking(rank, R)
  PROVE  \E new \in [Consumers -> 0 .. Cardinality(Consumers)] : MovedUp(new, rank, R, c)
<1> DEFINE new == [ d \in Consumers |-> IF rank[d] > rank[c] THEN rank[d] - 1 ELSE rank[d] ]
<1> PICK n \in Nat, k \in Nat : n = Cardinality(Consumers) /\ k = Cardinality(R)
  BY FS_CardinalityType, Waiting
<1>1. Cardinality(R \ {c}) = k - 1
  BY FS_RemoveElement
<1>2. \A d \in Consumers : rank[d] \in 0 .. n
  OBVIOUS
<1>3. c \in Consumers
  OBVIOUS
<1>4. new \in [Consumers -> 0 .. Cardinality(Consumers)]
  BY <1>2, <1>3
<1>5. \A d \in Consumers : new[d] = IF rank[d] > rank[c] THEN rank[d] - 1 ELSE rank[d]
  OBVIOUS
<1> HIDE DEF new
<1>6. ASSUME NEW d \in R \ {c}
      PROVE  /\ new[d] < Cardinality(R \ {c})
             /\ \A e \in (R \ {c}) \ {d} : new[d] # new[e]
             /\ rank[d] > rank[c] => new[d] = rank[d] - 1
             /\ rank[d] < rank[c] => new[d] = rank[d]
             /\ rank[d] > rank[c] \/ rank[d] < rank[c]
  <2>1. d \in Consumers /\ rank[d] \in Int /\ rank[c] \in Int /\ rank[d] # rank[c]
        /\ rank[d] < k /\ rank[c] < k
    BY <1>2, <1>3 DEF Ranking
  <2>2. new[d] < k - 1
    BY <1>5, <2>1
  <2>3. ASSUME NEW e \in (R \ {c}) \ {d} PROVE new[d] # new[e]
    <3>1. e \in Consumers /\ rank[e] \in Int /\ rank[e] # rank[c] /\ rank[d] # rank[e]
      BY <1>2 DEF Ranking
    <3> QED
      BY <1>5, <2>1, <3>1
  <2> QED
    BY <1>1, <1>5, <2>1, <2>2, <2>3
<1> QED
  BY <1>4, <1>6 DEF MovedUp

LEMMA TooLateStep ==
  ASSUME QueueTypes, CountersOK, NEW c \in Consumers, TooLate(c)
  PROVE  CountersOK'
<1>1. /\ pc[c] = "recheck" /\ pc'[c] = "overcommit" /\ Others(c) /\ UNCHANGED mine
      /\ UNCHANGED << tailIndex, enq, counters >>
  BY DEF TooLate, Goto, memory, Others, QueueTypes
<1>2. Limbo' = Limbo /\ Rechecking' = Rechecking \ {c} /\ c \in Rechecking
  BY <1>1 DEF Rechecking, Limbo, Others
<1>3. LengthOK' /\ Length' = Length /\ Length \in Int
  BY <1>1, LengthStays DEF CountersOK, counters
<1>4. Balance'
  BY <1>1, <1>2 DEF CountersOK, Balance, counters
<1>5. \A d \in Consumers : Ahead(d)' = Ahead(d) /\ Ahead(d) \in Int
  <2>1. \A d \in Consumers : Ahead(d) \in Int
    BY CounterTypes
  <2> QED
    BY <1>1, <2>1 DEF Ahead, Sub, counters
<1>6. TicketsOK'
  <2>1. PICK rank \in [Consumers -> 0 .. Cardinality(Consumers)] :
          \A d \in Rechecking :
            /\ rank[d] < Cardinality(Rechecking)
            /\ \A e \in Rechecking \ {d} : rank[d] # rank[e]
            /\ Ranked(d, rank[d])
    BY DEF CountersOK, TicketsOK
  <2> PICK R : R = Rechecking
    OBVIOUS
  <2>2. R \subseteq Consumers /\ c \in R /\ IsFiniteSet(R)
        /\ Ranking(rank, R)
    BY <1>2, <2>1, Waiting DEF Rechecking, Ranking
  <2>3. PICK new \in [Consumers -> 0 .. Cardinality(Consumers)] : MovedUp(new, rank, R, c)
    BY <2>2, Reranked
  <2>4. ASSUME NEW d \in R \ {c} PROVE Ranked(d, new[d])'
    <3>1. d \in Consumers /\ rank[d] \in Int /\ new[d] \in Int /\ new[d] <= rank[d]
      BY <2>2, <2>3, Waiting DEF MovedUp
    <3>2. Ranked(d, rank[d])
      BY <2>1
    <3> QED
      BY <1>3, <1>5, <3>1, <3>2 DEF Ranked
  <2> QED
    BY <1>2, <2>3, <2>4 DEF TicketsOK, MovedUp
<1>7. ASSUME NEW d \in Consumers, pc'[d] \in {"check", "claim", "recheck"}
      PROVE  mine'[d].over <= dequeueOvercommit'
  BY <1>1, <1>7 DEF Others, CountersOK, counters
<1> QED
  BY <1>3, <1>4, <1>6, <1>7 DEF CountersOK

LEMMA OvercommitStep ==
  ASSUME QueueTypes, CountersOK, NEW c \in Consumers, Overcommit(c)
  PROVE  CountersOK'
<1>1. /\ pc[c] = "overcommit" /\ pc'[c] = "ready" /\ Others(c)
      /\ dequeueOvercommit' = Next(dequeueOvercommit) /\ dequeueOvercommit < MaxOvercommit
      /\ UNCHANGED << tailIndex, enq, headIndex, dequeueOptimisticCount >>
  BY DEF Overcommit, Goto, memory, Others, QueueTypes, Next
<1>2. c \in Limbo /\ Limbo' = Limbo \ {c} /\ Rechecking' = Rechecking
  BY <1>1 DEF Rechecking, Limbo, Others
<1> PICK n \in Nat : n = Cardinality(Limbo)
  BY Waiting
<1>3. Cardinality(Limbo') = n - 1
  BY <1>2, Waiting, FS_RemoveElement
<1>4. n > 0
  BY <1>2, Waiting, FS_EmptySet
<1>5. LengthOK' /\ Length' = Length /\ Length \in Int
  BY <1>1, LengthStays DEF CountersOK
<1>6. /\ dequeueOptimisticCount \in Index /\ dequeueOvercommit \in Index /\ headIndex \in Index
      /\ n \in 0 .. IndexMod - 1
      /\ Sub(dequeueOptimisticCount, dequeueOvercommit) = (headIndex + n) % IndexMod
  <2>1. IndexMod \in Nat \ {0} /\ IndexMod \div 2 \in Nat /\ 2 * (IndexMod \div 2) = IndexMod
    BY Ranges
  <2>2. n \in 0 .. IndexMod - 1
    BY <2>1, Waiting
  <2> QED
    BY <2>2, CounterTypes DEF QueueTypes, CountersOK, Balance
<1>7. Balance'
  <2>1. Sub(dequeueOptimisticCount, Next(dequeueOvercommit)) = (headIndex + (n - 1)) % IndexMod
    BY <1>4, <1>6, BalanceSteps, ZenonT(90)
  <2> QED
    BY <1>1, <1>3, <2>1 DEF Balance, Sub
<1>8. dequeueOvercommit' = dequeueOvercommit + 1
  <2>1. /\ dequeueOvercommit \in Nat /\ dequeueOvercommit + 1 <= MaxOvercommit /\ MaxOvercommit \in Nat
        /\ Cardinality(Consumers) \in Nat /\ Cardinality(Consumers) + MaxOvercommit <= IndexMod \div 2
        /\ IndexMod \div 2 \in Nat /\ IndexMod = 2 * (IndexMod \div 2) /\ IndexMod \in Nat \ {0}
    BY <1>1, Waiting, Ranges DEF QueueTypes
  <2>2. dequeueOvercommit + 1 < IndexMod /\ 1 \in 0 .. IndexMod
    BY <2>1
  <2> QED
    BY <1>1, <1>6, <2>2, Circle DEF Next
<1>9. \A d \in Consumers : d # c => Ahead(d)' = Ahead(d)
  BY <1>1 DEF Ahead, Sub, Others
<1>10. TicketsOK'
  <2>1. PICK rank \in [Consumers -> 0 .. Cardinality(Consumers)] :
          \A d \in Rechecking :
            /\ rank[d] < Cardinality(Rechecking)
            /\ \A e \in Rechecking \ {d} : rank[d] # rank[e]
            /\ Ranked(d, rank[d])
    BY DEF CountersOK, TicketsOK
  <2>2. ASSUME NEW d \in Rechecking PROVE Ranked(d, rank[d])'
    <3>1. d \in Consumers /\ d # c
      BY <1>1 DEF Rechecking
    <3>2. Ranked(d, rank[d])
      BY <2>1
    <3> QED
      BY <1>5, <1>9, <3>1, <3>2 DEF Ranked
  <2> QED
    BY <1>2, <2>1, <2>2 DEF TicketsOK
<1>11. ASSUME NEW d \in Consumers, pc'[d] \in {"check", "claim", "recheck"}
       PROVE  mine'[d].over <= dequeueOvercommit'
  <2>1. d # c /\ mine'[d] = mine[d] /\ pc'[d] = pc[d]
    BY <1>1, <1>11 DEF Others
  <2>2. mine[d].over <= dequeueOvercommit
    BY <1>11, <2>1 DEF CountersOK
  <2>3. mine[d].over \in Int /\ dequeueOvercommit \in Int
    BY <1>6, CounterTypes, Ranges DEF Locals, Index
  <2> QED
    BY <1>8, <2>1, <2>2, <2>3
<1> QED
  BY <1>5, <1>7, <1>10, <1>11 DEF CountersOK

(* The element is there: there is one more ahead of the head than those    *)
(* ranked lower, and they move up.                                         *)
LEMMA ThereIsOne ==
  ASSUME QueueTypes, CountersOK, NEW c \in Consumers, InStock(c), NEW r \in Nat, Ranked(c, r)
  PROVE  r < Length
<1>1. CASE r < Length
  BY <1>1
<1>2. CASE r <= Ahead(c) /\ Ahead(c) <= IndexMod \div 2
  <2>1. /\ tailIndex \in Index /\ headIndex \in Index /\ mine[c].count \in Index
        /\ mine[c].over \in Index
    BY CounterTypes DEF QueueTypes, Locals
  <2> PICK v \in Index : v = Sub(mine[c].count, mine[c].over)
    BY <2>1, Circle
  <2>2. Sub(v, headIndex) = Ahead(c)
    BY DEF Ahead
  <2>3. Sub(v, tailIndex) > IndexMod \div 2
    BY DEF InStock, circular_less_than
  <2>4. Sub(tailIndex, headIndex) = Length /\ Length < IndexMod \div 2
    BY DEF CountersOK, LengthOK, Length
  <2>5. Ahead(c) < Length
    BY <1>2, <2>1, <2>2, <2>3, <2>4, InStockMeans
  <2> QED
    BY <1>2, <2>5, CounterTypes
<1> QED
  BY <1>1, <1>2 DEF Ranked

LEMMA FetchAddHeadStep ==
  ASSUME QueueTypes, CountersOK, NEW c \in Consumers, FetchAddHead(c)
  PROVE  CountersOK' /\ Length > 0 /\ Length' = Length - 1
<1>1. /\ pc[c] = "recheck" /\ pc'[c] = "header" /\ Others(c) /\ InStock(c)
      /\ headIndex' = Next(headIndex)
      /\ UNCHANGED << tailIndex, enq, dequeueOptimisticCount, dequeueOvercommit >>
  BY DEF FetchAddHead, Goto, memory, Others, QueueTypes, Next
<1>2. c \in Limbo /\ Limbo' = Limbo \ {c} /\ c \in Rechecking /\ Rechecking' = Rechecking \ {c}
  BY <1>1 DEF Rechecking, Limbo, Others
<1> PICK n \in Nat : n = Cardinality(Limbo)
  BY Waiting
<1>3. Cardinality(Limbo') = n - 1
  BY <1>2, Waiting, FS_RemoveElement
<1>4. n > 0
  BY <1>2, Waiting, FS_EmptySet
<1>5. /\ dequeueOptimisticCount \in Index /\ dequeueOvercommit \in Index /\ headIndex \in Index
      /\ tailIndex \in Index /\ n \in 0 .. IndexMod - 1
      /\ Sub(dequeueOptimisticCount, dequeueOvercommit) = (headIndex + n) % IndexMod
  <2>1. IndexMod \in Nat \ {0} /\ IndexMod \div 2 \in Nat /\ 2 * (IndexMod \div 2) = IndexMod
    BY Ranges
  <2>2. n \in 0 .. IndexMod - 1
    BY <2>1, Waiting
  <2> QED
    BY <2>2, CounterTypes DEF QueueTypes, CountersOK, Balance
<1>6. Balance'
  <2>1. Sub(dequeueOptimisticCount, dequeueOvercommit) = (Next(headIndex) + (n - 1)) % IndexMod
    BY <1>4, <1>5, BalanceSteps, ZenonT(90)
  <2> QED
    BY <1>1, <1>3, <2>1 DEF Balance, Sub
<1>7. PICK rank \in [Consumers -> 0 .. Cardinality(Consumers)] :
        \A d \in Rechecking :
          /\ rank[d] < Cardinality(Rechecking)
          /\ \A e \in Rechecking \ {d} : rank[d] # rank[e]
          /\ Ranked(d, rank[d])
  BY DEF CountersOK, TicketsOK
<1>8. rank[c] \in Nat /\ rank[c] < Length
  <2>1. rank[c] \in Nat
    BY Waiting
  <2> QED
    BY <1>1, <1>2, <1>7, <2>1, ThereIsOne
<1>9. Length > 0 /\ Length' = Length - 1 /\ Length \in Int
  <2>1. Length > 0 /\ Length \in Int
    BY <1>8, CounterTypes
  <2>2. Sub(tailIndex, Next(headIndex)) = Length - 1
    BY <1>5, <2>1, SubNext DEF Length
  <2> QED
    BY <1>1, <2>1, <2>2 DEF Length, Sub
<1>10. LengthOK'
  <2>1. Offset(tailIndex) \in Offsets /\ BlockSize \in Int /\ IndexMod \div 2 \in Int
    BY <1>5, InBlocks, Ranges
  <2>2. Started' = Started /\ Offset(tailIndex)' = Offset(tailIndex)
    BY <1>1 DEF Started, Offset
  <2> QED
    BY <1>1, <1>9, <2>1, <2>2 DEF CountersOK, LengthOK, Offsets
<1>11. ASSUME NEW d \in Rechecking \ {c}, Ahead(d) > 0
       PROVE  Ahead(d)' = Ahead(d) - 1
  <2>1. d \in Consumers /\ mine'[d] = mine[d] /\ mine[d].count \in Index /\ mine[d].over \in Index
    BY <1>1, CounterTypes DEF Rechecking, Others, Locals
  <2> PICK v \in Index : v = Sub(mine[d].count, mine[d].over)
    BY <2>1, Circle
  <2>2. Sub(v, Next(headIndex)) = Sub(v, headIndex) - 1
    BY <1>5, <1>11, SubNext DEF Ahead
  <2> QED
    BY <1>1, <2>1, <2>2 DEF Ahead, Sub
<1>12. TicketsOK'
  <2> PICK R : R = Rechecking
    OBVIOUS
  <2>1. R \subseteq Consumers /\ c \in R /\ IsFiniteSet(R)
        /\ Ranking(rank, R)
    BY <1>2, <1>7, Waiting DEF Rechecking, Ranking
  <2>2. PICK new \in [Consumers -> 0 .. Cardinality(Consumers)] : MovedUp(new, rank, R, c)
    BY <2>1, Reranked
  <2>3. ASSUME NEW d \in R \ {c} PROVE Ranked(d, new[d])'
    <3>1. d \in Consumers /\ rank[d] \in Nat /\ Ahead(d) \in Nat
      BY <2>1, Waiting, CounterTypes
    <3>2. Ranked(d, rank[d])
      BY <1>7
    <3>3. CASE rank[d] < rank[c]
      <4>1. new[d] < Length'
        BY <1>8, <1>9, <2>2, <3>1, <3>3 DEF MovedUp
      <4> QED
        BY <4>1 DEF Ranked
    <3>4. CASE rank[d] > rank[c] /\ rank[d] < Length
      <4>1. new[d] < Length'
        BY <1>8, <1>9, <2>2, <3>1, <3>4 DEF MovedUp
      <4> QED
        BY <4>1 DEF Ranked
    <3>5. CASE rank[d] > rank[c] /\ rank[d] <= Ahead(d) /\ Ahead(d) <= IndexMod \div 2
      <4>1. Ahead(d) > 0 /\ new[d] = rank[d] - 1
        BY <1>8, <2>2, <3>1, <3>5 DEF MovedUp
      <4>2. Ahead(d)' = Ahead(d) - 1
        BY <1>11, <4>1
      <4>3. new[d] <= Ahead(d)' /\ Ahead(d)' <= IndexMod \div 2
        BY <3>1, <3>5, <4>1, <4>2, Ranges
      <4> QED
        BY <4>3 DEF Ranked
    <3> QED
      BY <2>2, <3>2, <3>3, <3>4, <3>5 DEF Ranked, MovedUp
  <2> QED
    BY <1>2, <2>2, <2>3 DEF TicketsOK, MovedUp
<1>13. ASSUME NEW d \in Consumers, pc'[d] \in {"check", "claim", "recheck"}
       PROVE  mine'[d].over <= dequeueOvercommit'
  BY <1>1, <1>13 DEF Others, CountersOK
<1> QED
  BY <1>6, <1>9, <1>10, <1>12, <1>13 DEF CountersOK

-----------------------------------------------------------------------------
(* Consumers on their way to a dequeue: they touch only the counters and   *)
(* their locals.                                                           *)
Early == {"ready", "check", "claim", "recheck", "overcommit"}

EarlyMove(c) ==
  /\ UNCHANGED << memory, blockVars, headIndex >> /\ Others(c)
  /\ pc[c] \in Early /\ pc'[c] \in Early

(* Nothing happened to the index.                                          *)
LEMMA IndexSame ==
  ASSUME UNCHANGED headers
  PROVE  /\ blockIndex' = blockIndex /\ Size' = Size /\ TailPos' = TailPos /\ NextPos' = NextPos
         /\ \A h : Positions(h)' = Positions(h)
         /\ \A h, p : EntryAt(h, p)' = EntryAt(h, p)
         /\ \A j : Spot(j)' = Spot(j)
BY DEF Spot, EntryAt, TailPos, Size, Positions, blockIndex, NextPos

(* The tail and the producer stay where they are.                          *)
LEMMA ProducerSame ==
  ASSUME UNCHANGED << tailIndex, tailBlock, enq >>
  PROVE  /\ Started' = Started /\ InBlock' = InBlock /\ TopBlk' = TopBlk
         /\ \A b : Entering(b)' = Entering(b)
BY DEF Started, InBlock, TopBlk, Entering

(* What the consumers' locals do not touch.                                *)
LEMMA IndexKept ==
  ASSUME EntriesOK, KeysOK, ProducerOK, UNCHANGED << memory, blockVars >>
  PROVE  EntriesOK' /\ KeysOK' /\ ProducerOK'
<1>1. UNCHANGED << tailIndex, tailBlock, headers, enq, key, value, slot, emptied, free >>
  BY DEF memory, blockVars
<1>2. EntriesOK'
  BY <1>1, IndexSame DEF EntriesOK, Bijective
<1>3. KeysOK'
  BY <1>1, IndexSame, ProducerSame DEF KeysOK, RightKey
<1>4. ProducerOK'
  BY <1>1, IndexSame, ProducerSame DEF ProducerOK
<1> QED
  BY <1>2, <1>3, <1>4

LEMMA PlacesKept ==
  ASSUME PlacesOK, UNCHANGED << value, free, enq, slot >>,
         \A d \in Consumers, b \in Blocks : Leaving(d, b)' = Leaving(d, b)
  PROVE  PlacesOK'
BY DEF PlacesOK, InUse, Entering, Bare

LEMMA ElementsKept ==
  ASSUME ElementsOK, UNCHANGED << memory, key, value, slot, headIndex >>,
         \A d \in Consumers : Holds(d)' => Holds(d) /\ mine'[d].index = mine[d].index
  PROVE  ElementsOK'
<1>1. /\ UNCHANGED << tailIndex, tailBlock, enq >>
      /\ \A i : (Found(i)' <=> Found(i)) /\ (Queued(i)' <=> Queued(i))
  BY DEF memory, Found, Queued, Length
<1>2. Started' = Started
  BY <1>1, ProducerSame
<1>3. \A i \in Index : Queued(i)' => Found(i)'
  BY <1>1 DEF ElementsOK
<1>4. ASSUME NEW d \in Consumers, Holds(d)' PROVE Claimed(d)'
  <2>1. Holds(d) /\ mine'[d].index = mine[d].index /\ Claimed(d)
    BY <1>4 DEF ElementsOK
  <2>2. Found(mine[d].index)' /\ ~ Queued(mine[d].index)'
    BY <1>1, <2>1 DEF Claimed
  <2>3. Within(mine[d].index)'
    BY <1>1, <1>2, <2>1 DEF Claimed, Within
  <2>4. Alone(d)'
    BY <2>1 DEF Claimed, Alone
  <2> QED
    BY <2>2, <2>3, <2>4 DEF Claimed
<1> QED
  BY <1>3, <1>4 DEF ElementsOK

Late == {"key", "value", "empty", "unindex", "free"}

LEMMA KeyPathKept ==
  ASSUME NEW c \in Consumers, KeyPath(c), UNCHANGED << headers, key, value, tailIndex, enq >>,
         pc'[c] = "key" => pc'[c] = pc[c] /\ mine'[c] = mine[c]
  PROVE  KeyPath(c)'
<1> SUFFICES ASSUME pc'[c] = "key"
             PROVE  /\ mine'[c].header \in DOMAIN headers'
                    /\ mine'[c].pos \in 0 .. Positions(mine[c].header)' - 1
                    /\ \E j \in 0 .. Positions(mine[c].header)' - 1, s \in 0 .. Size' - 1 :
                         OnTheWay(c, j, s)'
  BY DEF KeyPath
<1>1. /\ pc[c] = "key" /\ mine'[c] = mine[c] /\ mine[c].header \in DOMAIN headers
      /\ mine[c].pos \in 0 .. Positions(mine[c].header) - 1
  BY DEF KeyPath
<1>2. PICK j \in 0 .. Positions(mine[c].header) - 1, s \in 0 .. Size - 1 : OnTheWay(c, j, s)
  BY <1>1 DEF KeyPath
<1>3. InBlock' = InBlock /\ TopBlk' = TopBlk
  BY DEF TopBlk, InBlock, Started
<1>4. OnTheWay(c, j, s)'
  BY <1>1, <1>2, <1>3, IndexSame DEF OnTheWay, RightKey
<1>5. Positions(mine[c].header)' = Positions(mine[c].header) /\ Size' = Size
  BY <1>1, IndexSame
<1> QED
  BY <1>1, <1>4, <1>5

LEMMA PathKept ==
  ASSUME PathsOK, UNCHANGED << memory, blockVars >>,
         \A d \in Consumers : pc'[d] = "unindex" => pc[d] = "unindex" /\ mine'[d] = mine[d],
         NEW c \in Consumers, pc'[c] \in Late => pc'[c] = pc[c] /\ mine'[c] = mine[c]
  PROVE  Path(c)'
<1>1. UNCHANGED << tailIndex, tailBlock, headers, enq, key, value, slot, emptied, free >>
  BY DEF memory, blockVars
<1>2. KeyPath(c)'
  BY <1>1, KeyPathKept DEF PathsOK, Path, Late
<1>3. ValuePath(c)' /\ BlockPath(c)' /\ FreePath(c)'
  BY <1>1 DEF PathsOK, Path, ValuePath, BlockPath, FreePath, Late
<1>4. LastPath(c)'
  BY <1>1 DEF PathsOK, Path, LastPath, Late
<1> QED
  BY <1>2, <1>3, <1>4 DEF Path

LEMMA PathsKept ==
  ASSUME PathsOK, UNCHANGED << memory, blockVars >>,
         \A d \in Consumers : pc'[d] \in Late => pc'[d] = pc[d] /\ mine'[d] = mine[d]
  PROVE  PathsOK'
<1>1. \A d \in Consumers : pc'[d] = "unindex" => pc[d] = "unindex" /\ mine'[d] = mine[d]
  BY DEF Late
<1>2. ASSUME NEW c \in Consumers PROVE Path(c)'
  BY <1>1, PathKept
<1> QED
  BY <1>2 DEF PathsOK

LEMMA CountsKept ==
  ASSUME CountsOK, UNCHANGED << value, slot, emptied, tailBlock, tailIndex, enq >>,
         \A d \in Consumers : pc[d] = "empty" \/ pc'[d] = "empty" =>
                                pc'[d] = pc[d] /\ mine'[d] = mine[d]
  PROVE  CountsOK'
<1>1. Started' = Started
  BY ProducerSame
<1>2. \A b : Unfinished(b)' = Unfinished(b) /\ AtEmpty(b)' = AtEmpty(b)
  BY <1>1 DEF Unfinished, AtEmpty
<1> QED
  BY <1>2 DEF CountsOK

LEMMA EarlyStep ==
  ASSUME QInv, NEW c \in Consumers, EarlyMove(c)
  PROVE  /\ EntriesOK' /\ KeysOK' /\ ProducerOK' /\ PlacesOK' /\ ElementsOK' /\ PathsOK'
         /\ CountsOK'
<1>1. /\ UNCHANGED << memory, blockVars, headIndex >>
      /\ UNCHANGED << tailIndex, tailBlock, headers, enq, key, value, slot, emptied, free >>
      /\ pc[c] \in Early /\ pc'[c] \in Early
      /\ \A d \in Consumers : d # c => pc'[d] = pc[d] /\ mine'[d] = mine[d]
  BY DEF EarlyMove, memory, blockVars, Others
<1>2. EntriesOK' /\ KeysOK' /\ ProducerOK'
  BY <1>1, IndexKept DEF QInv
<1>3. PlacesOK'
  <2>1. \A d \in Consumers, b \in Blocks : Leaving(d, b)' = Leaving(d, b)
    BY <1>1 DEF Leaving, Early
  <2> QED
    BY <1>1, <2>1, PlacesKept DEF QInv
<1>4. ElementsOK'
  <2>1. \A d \in Consumers : Holds(d)' => Holds(d) /\ mine'[d].index = mine[d].index
    BY <1>1 DEF Holds, Early
  <2> QED
    BY <1>1, <2>1, ElementsKept DEF QInv
<1>5. PathsOK'
  <2>1. \A d \in Consumers : pc'[d] \in Late => pc'[d] = pc[d] /\ mine'[d] = mine[d]
    BY <1>1 DEF Early, Late
  <2> QED
    BY <1>1, <2>1, PathsKept DEF QInv
<1>6. CountsOK'
  <2>1. \A d \in Consumers : pc[d] = "empty" \/ pc'[d] = "empty" =>
                                pc'[d] = pc[d] /\ mine'[d] = mine[d]
    BY <1>1 DEF Early
  <2> QED
    BY <1>1, <2>1, CountsKept DEF QInv
<1> QED
  BY <1>2, <1>3, <1>4, <1>5, <1>6

(* The steps up to the dequeue, and back.                                  *)
LEMMA EarlyTypes ==
  ASSUME QueueTypes, NEW c \in Consumers,
         \/ LoadOvercommit(c) \/ LooksEmpty(c) \/ CountIn(c) \/ FetchAddOptimistic(c)
         \/ TooLate(c) \/ Overcommit(c)
  PROVE  QueueTypes' /\ EarlyMove(c)
<1>1. /\ mine \in [Consumers -> Locals] /\ pc \in [Consumers -> ConsumerStages]
      /\ dequeueOptimisticCount \in Index /\ dequeueOvercommit \in 0 .. MaxOvercommit
      /\ dequeueOvercommit \in Index
  BY CounterTypes DEF QueueTypes
<1>2. 0 \in Index /\ NoLocals \in Locals
  BY Ranges DEF Index, NoLocals, Locals
<1>3. /\ UNCHANGED << memory, blockVars, headIndex >> /\ Others(c)
      /\ pc[c] \in Early /\ pc'[c] \in Early /\ pc' \in [Consumers -> ConsumerStages]
  BY <1>1 DEF LoadOvercommit, LooksEmpty, CountIn, FetchAddOptimistic, TooLate, Overcommit,
              Goto, counters, Others, Early, ConsumerStages
<1>4. mine' \in [Consumers -> Locals]
  <2>1. CASE LoadOvercommit(c)
    BY <1>1, <2>1 DEF LoadOvercommit, Locals
  <2>2. CASE LooksEmpty(c) \/ Overcommit(c)
    BY <1>1, <1>2, <2>2 DEF LooksEmpty, Overcommit
  <2>3. CASE CountIn(c) \/ TooLate(c)
    BY <1>1, <2>3 DEF CountIn, TooLate
  <2>4. CASE FetchAddOptimistic(c)
    BY <1>1, <2>4 DEF FetchAddOptimistic, Locals
  <2> QED
    BY <2>1, <2>2, <2>3, <2>4
<1>5. dequeueOptimisticCount' \in Index
  <2>1. Next(dequeueOptimisticCount) \in Index
    BY <1>1, NextFacts
  <2> QED
    BY <1>1, <2>1 DEF LoadOvercommit, LooksEmpty, CountIn, FetchAddOptimistic, TooLate,
                      Overcommit, counters, Next
<1>6. dequeueOvercommit' \in 0 .. MaxOvercommit
  <2>1. CASE Overcommit(c)
    <3>1. dequeueOvercommit < MaxOvercommit /\ dequeueOvercommit' = Next(dequeueOvercommit)
      BY <2>1 DEF Overcommit, Next
    <3>2. Next(dequeueOvercommit) \in 0 .. IndexMod - 1
          /\ (Next(dequeueOvercommit) = dequeueOvercommit + 1
                \/ Next(dequeueOvercommit) = dequeueOvercommit + 1 - IndexMod)
      BY <1>1, NextFacts DEF Index
    <3> QED
      BY <1>1, <3>1, <3>2, Waiting, Ranges
  <2>2. CASE ~ Overcommit(c)
    BY <1>1, <2>2 DEF LoadOvercommit, LooksEmpty, CountIn, FetchAddOptimistic, TooLate, counters
  <2> QED
    BY <2>1, <2>2
<1> QED
  BY <1>3, <1>4, <1>5, <1>6 DEF QueueTypes, EarlyMove, memory, blockVars

-----------------------------------------------------------------------------
(* A claim.                                                                *)
LEMMA HeadAndTail ==
  ASSUME QueueTypes, LengthOK
  PROVE  /\ Length > 0 /\ Started => Within(headIndex)
         /\ Length > 0 => Queued(headIndex)
<1>1. /\ headIndex \in Index /\ tailIndex \in Index /\ Length \in Int
      /\ Length < IndexMod \div 2 /\ BlockSize <= IndexMod \div 2
      /\ IndexMod = 2 * (IndexMod \div 2) /\ IndexMod \div 2 \in Nat /\ 0 \in 0 .. IndexMod
  BY CounterTypes, Ranges DEF QueueTypes, LengthOK
<1>2. Length = tailIndex - headIndex \/ Length = tailIndex - headIndex + IndexMod
  BY <1>1, CircleFacts DEF Length
<1>3. ASSUME Length > 0, Base(headIndex) = Base(tailIndex)
      PROVE  Offset(headIndex) < Offset(tailIndex)
  <2>1. /\ headIndex = BlockSize * Blk(headIndex) + Offset(headIndex)
        /\ tailIndex = BlockSize * Blk(tailIndex) + Offset(tailIndex)
        /\ Blk(headIndex) = Blk(tailIndex) /\ Blk(tailIndex) \in Int
        /\ Offset(headIndex) \in 0 .. BlockSize - 1 /\ Offset(tailIndex) \in 0 .. BlockSize - 1
    BY <1>1, <1>3, InBlocks, BlockNumber DEF Offsets
  <2>2. BlockSize * Blk(tailIndex) \in Int /\ BlockSize \in Nat
    BY <2>1, Ranges
  <2>3. tailIndex - headIndex = Offset(tailIndex) - Offset(headIndex)
    BY <2>1, <2>2
  <2> QED
    BY <1>1, <1>2, <1>3, <2>1, <2>2, <2>3
<1>4. Sub(headIndex, headIndex) = 0
  BY <1>1, Circle DEF Index
<1> QED
  BY <1>3, <1>4 DEF Within, Queued

LEMMA QueueMoves ==
  ASSUME QueueTypes, Length > 0, headIndex' = Next(headIndex), UNCHANGED tailIndex,
         NEW i \in Index
  PROVE  /\ Queued(i)' => Queued(i)
         /\ i = headIndex => ~ Queued(i)'
<1>1. /\ headIndex \in Index /\ tailIndex \in Index /\ Length \in Int /\ Length < IndexMod
      /\ IndexMod \in Nat \ {0}
  BY CounterTypes, Ranges DEF QueueTypes
<1>2. Length' = Length - 1
  BY <1>1, SubNext DEF Length, Sub
<1>3. Sub(i, headIndex) \in 0 .. IndexMod - 1
      /\ (Sub(i, headIndex) > 0 => Sub(i, Next(headIndex)) = Sub(i, headIndex) - 1)
  BY <1>1, SubNext
<1>4. Sub(i, headIndex)' = Sub(i, Next(headIndex))
  BY DEF Sub
<1>5. Queued(i)' <=> Sub(i, Next(headIndex)) < Length - 1
  BY <1>2, <1>4 DEF Queued
<1>6. Queued(i)' => Queued(i)
  <2>1. CASE Sub(i, headIndex) = 0
    BY <1>1, <2>1 DEF Queued
  <2>2. CASE Sub(i, headIndex) > 0
    BY <1>1, <1>3, <1>5, <2>2 DEF Queued
  <2> QED
    BY <1>3, <2>1, <2>2
<1>7. ASSUME i = headIndex PROVE ~ Queued(i)'
  <2>1. 0 \in 0 .. IndexMod /\ Next(i) \in Index /\ (Next(i) = i + 1 \/ Next(i) = i + 1 - IndexMod)
    BY <1>1, NextFacts
  <2>2. Sub(i, Next(i)) \in 0 .. IndexMod - 1
        /\ (Sub(i, Next(i)) = i - Next(i) \/ Sub(i, Next(i)) = i - Next(i) + IndexMod)
    BY <2>1, CircleFacts DEF Index
  <2>3. i \in 0 .. IndexMod - 1
    BY DEF Index
  <2>4. Sub(i, Next(i)) = IndexMod - 1
    BY <1>1, <2>1, <2>2, <2>3 DEF Index
  <2> QED
    BY <1>1, <1>5, <1>7, <2>4
<1> QED
  BY <1>6, <1>7

LEMMA ClaimStep ==
  ASSUME QInv, NEW c \in Consumers, FetchAddHead(c)
  PROVE  QInv'
<1>1. /\ pc[c] = "recheck" /\ pc'[c] = "header" /\ Others(c) /\ headIndex' = Next(headIndex)
      /\ mine' = [mine EXCEPT ![c] = [NoLocals EXCEPT !.index = headIndex]]
      /\ mine'[c].index = headIndex /\ pc' = [pc EXCEPT ![c] = "header"]
      /\ UNCHANGED << memory, blockVars, dequeueOptimisticCount, dequeueOvercommit >>
      /\ UNCHANGED << tailIndex, tailBlock, headers, enq, key, value, slot, emptied, free >>
  BY DEF FetchAddHead, Goto, Others, QInv, QueueTypes, memory, blockVars, Next, NoLocals
<1>2. CountersOK' /\ Length > 0
  BY FetchAddHeadStep DEF QInv
<1>3. QueueTypes /\ headIndex \in Index /\ Next(headIndex) \in Index /\ 0 \in Index
  <2>1. QueueTypes /\ headIndex \in Index /\ 0 \in Index
    BY Ranges DEF QInv, QueueTypes, Index
  <2> QED
    BY <2>1, NextFacts
<1>4. QueueTypes'
  <2>1. [NoLocals EXCEPT !.index = headIndex] \in Locals
    BY <1>3 DEF NoLocals, Locals
  <2> QED
    BY <1>1, <1>3, <2>1 DEF QueueTypes, ConsumerStages
<1>5. EntriesOK' /\ KeysOK' /\ ProducerOK'
  BY <1>1, IndexKept DEF QInv
<1>6. \A d \in Consumers : d # c => pc'[d] = pc[d] /\ mine'[d] = mine[d]
  BY <1>1 DEF Others
<1>7. PlacesOK'
  <2>1. \A d \in Consumers, b \in Blocks : Leaving(d, b)' = Leaving(d, b)
    BY <1>1, <1>6 DEF Leaving
  <2> QED
    BY <1>1, <2>1, PlacesKept DEF QInv
<1>8. PathsOK'
  <2>1. \A d \in Consumers : pc'[d] \in Late => pc'[d] = pc[d] /\ mine'[d] = mine[d]
    BY <1>1, <1>6 DEF Late
  <2> QED
    BY <1>1, <2>1, PathsKept DEF QInv
<1>9. CountsOK'
  <2>1. \A d \in Consumers : pc[d] = "empty" \/ pc'[d] = "empty" =>
                               pc'[d] = pc[d] /\ mine'[d] = mine[d]
    BY <1>1, <1>6
  <2> QED
    BY <1>1, <2>1, CountsKept DEF QInv
<1>10. ElementsOK'
  <2>1. \A i : Found(i)' = Found(i) /\ Within(i)' = Within(i)
    BY <1>1, ProducerSame DEF Found, Within
  <2>2. \A i \in Index : Queued(i)' => Queued(i)
    BY <1>1, <1>2, <1>3, QueueMoves
  <2> PICK h \in Index : h = headIndex
    BY <1>3
  <2>3. ~ Queued(h)' /\ Queued(h) /\ Found(h) /\ (Started => Within(h)) /\ mine'[c].index = h
    <3>1. ~ Queued(h)'
      BY <1>1, <1>2, <1>3, QueueMoves
    <3>2. Queued(h) /\ (Started => Within(h))
      BY <1>2, <1>3, HeadAndTail DEF QInv, CountersOK
    <3>3. Found(h)
      BY <3>2 DEF QInv, ElementsOK
    <3> QED
      BY <1>1, <3>1, <3>2, <3>3
  <2>4. \A i \in Index : Queued(i)' => Found(i)'
    BY <2>1, <2>2 DEF QInv, ElementsOK
  <2>5. \A d \in Consumers : mine[d].index \in Index
    BY <1>3, CounterTypes DEF Locals
  <2>6. \A d \in Consumers : d # c /\ Holds(d)' =>
           Holds(d) /\ Claimed(d) /\ mine'[d].index = mine[d].index /\ mine[d].index # h
    BY <1>6, <2>3 DEF Holds, QInv, ElementsOK, Claimed
  <2>7. Claimed(c)'
    <3>1. Within(h)
      BY <2>3 DEF Within
    <3>2. Alone(c)'
      BY <2>3, <2>6 DEF Alone
    <3> QED
      BY <2>1, <2>3, <3>1, <3>2 DEF Claimed
  <2>8. ASSUME NEW d \in Consumers, d # c, Holds(d)' PROVE Claimed(d)'
    <3> PICK i \in Index : i = mine[d].index
      BY <2>5
    <3>1. Claimed(d) /\ mine'[d].index = i /\ i # h
      BY <2>6, <2>8
    <3>2. Found(i)' /\ ~ Queued(i)' /\ Within(i)'
      BY <2>1, <2>2, <3>1 DEF Claimed
    <3>3. Alone(d)'
      BY <2>3, <2>6, <3>1 DEF Alone, Claimed
    <3> QED
      BY <3>1, <3>2, <3>3 DEF Claimed
  <2> QED
    BY <2>4, <2>7, <2>8 DEF ElementsOK
<1> QED
  BY <1>2, <1>4, <1>5, <1>7, <1>8, <1>9, <1>10 DEF QInv

LEMMA LateCounters ==
  ASSUME QueueTypes, CountersOK, NEW c \in Consumers, Others(c),
         UNCHANGED << tailIndex, enq, counters >>,
         pc[c] \notin Counting, pc'[c] \notin Counting \union {"check", "claim"}
  PROVE  CountersOK'
<1>1. LengthOK' /\ Length' = Length /\ Length \in Int
  BY LengthStays DEF CountersOK, counters
<1>2. \A d \in Consumers : pc'[d] \in {"check", "claim"} => mine'[d].over <= dequeueOvercommit
  BY DEF Others, CountersOK
<1>3. \A d \in Consumers : pc[d] \in Counting \/ pc'[d] \in Counting =>
        pc'[d] = pc[d] /\ mine'[d] = mine[d]
  BY DEF Others
<1> QED
  BY <1>1, <1>2, <1>3, CountersApart

(* Taking steps around a circle.                                           *)
LEMMA Shift ==
  ASSUME NEW n \in Nat \ {0}, NEW a \in Int, NEW b \in Int
  PROVE  ((a % n) + b) % n = (a + b) % n /\ (a % n) \in 0 .. n - 1
<1> DEFINE q == a \div n
           r == a % n
<1>1. a = n * q + r /\ q \in Int /\ r \in 0 .. n - 1
  BY Division
<1> HIDE DEF q, r
<1>2. a + b = (r + b) + n * q /\ r + b \in Int
  BY <1>1
<1>3. ((r + b) + n * q) % n = (r + b) % n
  BY <1>1, <1>2, Circles
<1> QED
  BY <1>1, <1>2, <1>3 DEF r

LEMMA TopBlkType ==
  ASSUME QueueTypes
  PROVE  TopBlk \in 0 .. Wheel - 1 /\ Wheel \in Nat \ {0}
<1>1. tailIndex \in Index /\ Wheel \in Nat \ {0}
  BY Ranges DEF QueueTypes
<1>2. Blk(tailIndex) \in 0 .. Wheel - 1
  BY <1>1, InBlocks
<1> PICK z \in Int : z = Blk(tailIndex) - 1
  BY <1>1, <1>2
<1>3. z % Wheel \in 0 .. Wheel - 1
  BY <1>1, Near
<1> QED
  BY <1>1, <1>2, <1>3 DEF TopBlk

(* A key is at one entry with a block only, and that one is where the      *)
(* distance of its block from the tail's says.                             *)
LEMMA OneEntry ==
  ASSUME QueueTypes, EntriesOK, KeysOK, NEW e \in Entries, NEW f \in Entries,
         value[e] # None, value[f] # None, key[e] = key[f]
  PROVE  e = f
<1>1. /\ Size \in Nat \ {0} /\ Size <= Wheel /\ Wheel \in Nat \ {0}
      /\ e \in 1 .. Size /\ f \in 1 .. Size
  BY Spots, Ranges
<1>2. PICK i \in 0 .. Size - 1 : e = Spot(i)
  BY <1>1, Spots
<1>3. PICK j \in 0 .. Size - 1 : f = Spot(j)
  BY <1>1, Spots
<1>4. (TopBlk - i) % Wheel = (TopBlk - j) % Wheel
  BY <1>2, <1>3 DEF KeysOK, RightKey
<1>5. TopBlk \in Int
  BY TopBlkType
<1> PICK x \in Int, y \in Int : x = TopBlk - i /\ y = TopBlk - j
  BY <1>1, <1>5
<1>6. x = y
  <2>1. x % Wheel = y % Wheel /\ x - y < Wheel /\ y - x < Wheel
    BY <1>1, <1>4, <1>5
  <2> QED
    BY <1>1, <2>1, SameRemainder
<1>7. i = j
  BY <1>1, <1>5, <1>6
<1> QED
  BY <1>2, <1>3, <1>7

LEMMA LiveSpot ==
  ASSUME QueueTypes, EntriesOK, NEW e \in Entries, value[e] # None
  PROVE  \E s \in 0 .. Size - 1 : e = Spot(s)
BY Spots

(* The lookup begins at the tail of the newest index.                      *)
LEMMA LoadHeaderStep ==
  ASSUME QInv, NEW c \in Consumers, LoadHeader(c)
  PROVE  QInv'
<1>1. /\ pc[c] = "header" /\ pc'[c] = "key" /\ Others(c) /\ pc' = [pc EXCEPT ![c] = "key"]
      /\ mine' = [mine EXCEPT ![c].header = blockIndex, ![c].pos = TailPos]
      /\ UNCHANGED << memory, blockVars, counters >>
      /\ UNCHANGED << tailIndex, tailBlock, headers, enq, key, value, slot, emptied, free >>
      /\ UNCHANGED << headIndex, dequeueOptimisticCount, dequeueOvercommit >>
  BY DEF LoadHeader, Goto, Others, QInv, QueueTypes, memory, blockVars, TailPos, counters
<1>2. QueueTypes /\ mine[c] \in Locals /\ blockIndex \in Nat /\ TailPos \in Nat
      /\ mine \in [Consumers -> Locals]
  <2>1. QueueTypes /\ EntriesOK
    BY DEF QInv
  <2>2. blockIndex \in Nat /\ TailPos \in Nat
    BY <2>1, Spots, Shape
  <2> QED
    BY <2>1, <2>2 DEF QueueTypes
<1>3. mine'[c].header = blockIndex /\ mine'[c].pos = TailPos /\ mine'[c].index = mine[c].index
      /\ mine'[c] \in Locals
  BY <1>1, <1>2 DEF Locals
<1>4. CountersOK'
  BY <1>1, LateCounters DEF QInv, Counting
<1>5. QueueTypes'
  BY <1>1, <1>2, <1>3 DEF QueueTypes, ConsumerStages
<1>6. EntriesOK' /\ KeysOK' /\ ProducerOK'
  BY <1>1, IndexKept DEF QInv
<1>7. \A d \in Consumers : d # c => pc'[d] = pc[d] /\ mine'[d] = mine[d]
  BY <1>1 DEF Others
<1>8. PlacesOK'
  <2>1. \A d \in Consumers, b \in Blocks : Leaving(d, b)' = Leaving(d, b)
    BY <1>1, <1>7 DEF Leaving
  <2> QED
    BY <1>1, <2>1, PlacesKept DEF QInv
<1>9. ElementsOK'
  <2>1. \A d \in Consumers : Holds(d)' => Holds(d) /\ mine'[d].index = mine[d].index
    BY <1>1, <1>3, <1>7 DEF Holds
  <2> QED
    BY <1>1, <2>1, ElementsKept DEF QInv
<1>10. CountsOK'
  <2>1. \A d \in Consumers : pc[d] = "empty" \/ pc'[d] = "empty" =>
                               pc'[d] = pc[d] /\ mine'[d] = mine[d]
    BY <1>1, <1>7
  <2> QED
    BY <1>1, <2>1, CountsKept DEF QInv
<1>11. PathsOK'
  <2>1. \A d \in Consumers : pc'[d] = "unindex" => pc[d] = "unindex" /\ mine'[d] = mine[d]
    BY <1>1, <1>7
  <2>2. ASSUME NEW d \in Consumers, d # c PROVE Path(d)'
    <3>1. pc'[d] \in Late => pc'[d] = pc[d] /\ mine'[d] = mine[d]
      BY <1>7, <2>2
    <3> QED
      BY <1>1, <2>1, <3>1, PathKept DEF QInv
  <2>3. KeyPath(c)'
    <3> PICK h \in DOMAIN headers : h = blockIndex
      BY <1>2, Shape
    <3>1. /\ Positions(h) = Size /\ Size \in Nat \ {0} /\ TailPos \in 0 .. Size - 1
          /\ mine'[c].header = h
      BY <1>2, <1>3, Spots DEF QInv, Size
    <3>2. PICK e \in Entries : key[e] = Base(mine[c].index) /\ value[e] # None
      <4>1. Found(mine[c].index)
        BY <1>1 DEF QInv, ElementsOK, Holds, Claimed
      <4> QED
        BY <4>1 DEF Found
    <3>3. PICK s \in 0 .. Size - 1 : e = Spot(s)
      BY <1>2, <3>2, LiveSpot DEF QInv
    <3>4. /\ EntryAt(h, (TailPos - s) % Positions(h)) = Spot(s)
          /\ EntryAt(h, TailPos) = Spot(0)
      <4>1. EntryAt(h, (TailPos - s) % Positions(h)) = Spot(s)
        BY <3>1 DEF Spot
      <4>2. (TailPos - 0) % Size = TailPos
        BY <3>1, Near, TailPos - 0 = TailPos, TailPos \in Int
      <4> QED
        BY <3>1, <4>1, <4>2 DEF Spot
    <3>5. RightKey(0)
      BY <3>2 DEF QInv, KeysOK
    <3>6. OnTheWay(c, s, s)'
      <4>1. s <= s + 1 /\ s <= s /\ s - s = 0
        OBVIOUS
      <4>2. \A j : RightKey(j)' = RightKey(j)
        BY <1>1, IndexSame, ProducerSame DEF RightKey
      <4> QED
        BY <1>1, <1>3, <3>1, <3>2, <3>3, <3>4, <3>5, <4>1, <4>2, IndexSame DEF OnTheWay
    <3>7. /\ Positions(mine[c].header)' = Size /\ Size' = Size /\ headers' = headers
          /\ mine'[c].header = h /\ mine'[c].pos = TailPos
      BY <1>1, <1>3, <3>1, IndexSame
    <3> QED
      BY <3>1, <3>6, <3>7 DEF KeyPath
  <2>4. Path(c)'
    BY <1>1, <2>3 DEF Path, ValuePath, BlockPath, LastPath, FreePath
  <2> QED
    BY <2>2, <2>4 DEF PathsOK
<1> QED
  BY <1>4, <1>5, <1>6, <1>8, <1>9, <1>10, <1>11 DEF QInv

(* The signed distance of the blocks is the number of positions to go back.*)
LEMMA CountedBack ==
  ASSUME QInv, NEW c \in Consumers, pc[c] = "key"
  PROVE  LET m == mine[c]
             e == EntryAt(m.header, (m.pos - BlocksBehind(m.index, key[EntryAt(m.header, m.pos)]))
                                      % Positions(m.header))
         IN e \in Entries /\ key[e] = Base(m.index) /\ value[e] # None
<1> DEFINE m == mine[c]
           n == Positions(m.header)
           k == key[EntryAt(m.header, m.pos)]
           i == m.index
<1>1. QueueTypes /\ EntriesOK /\ KeysOK /\ KeyPath(c)
  BY DEF QInv, PathsOK, Path
<1>2. /\ m.header \in DOMAIN headers /\ m.pos \in 0 .. n - 1
      /\ \E j \in 0 .. n - 1, s \in 0 .. Size - 1 : OnTheWay(c, j, s)
  BY <1>1 DEF KeyPath
<1>3. PICK j \in 0 .. n - 1, s \in 0 .. Size - 1 : OnTheWay(c, j, s)
  BY <1>2
<1>4. i \in Index
  BY <1>1, CounterTypes DEF Locals
<1>5. n \in Nat \ {0} /\ MaxEntries % n = 0 /\ Size \in Nat \ {0}
  BY <1>1, <1>2, Shape, Spots DEF EntriesOK
<1>6. /\ EntryAt(m.header, (m.pos - j) % n) = Spot(s)
      /\ value[Spot(s)] # None /\ key[Spot(s)] = Base(i)
      /\ EntryAt(m.header, m.pos) = Spot(s - j) /\ RightKey(s - j)
  BY <1>3 DEF OnTheWay
<1>7. Spot(s) \in Entries /\ Spot(s - j) \in Entries
  <2>1. s \in Int /\ s - j \in Int
    BY <1>5
  <2> QED
    BY <1>1, <2>1, Spots
<1>8. k = key[Spot(s - j)] /\ k \in Index /\ Offset(k) = 0 /\ Blk(k) = (TopBlk - (s - j)) % Wheel
  BY <1>1, <1>6, <1>7 DEF RightKey, QueueTypes, EntriesOK
<1>9. Blk(i) = (TopBlk - s) % Wheel
  <2>1. RightKey(s)
    BY <1>1, <1>6 DEF KeysOK
  <2>2. Blk(Base(i)) = Blk(i)
    BY <1>4, InBlocks
  <2> QED
    BY <1>6, <2>1, <2>2 DEF RightKey
<1>10. Blk(k) = (Blk(i) + j) % Wheel
  <2>1. TopBlk \in Int /\ Wheel \in Nat \ {0} /\ TopBlk - s \in Int /\ j \in Int
    BY <1>1, <1>5, TopBlkType
  <2>2. (((TopBlk - s) % Wheel) + j) % Wheel = ((TopBlk - s) + j) % Wheel
    BY <2>1, Shift
  <2>3. (TopBlk - s) + j = TopBlk - (s - j)
    BY <2>1
  <2> QED
    BY <1>8, <1>9, <2>2, <2>3
<1>11. (m.pos - BlocksBehind(i, k)) % n = (m.pos - j) % n
  <2>1. m.pos \in Int
    BY <1>2, <1>5
  <2> HIDE DEF n, k, i
  <2> QED
    BY <1>4, <1>5, <1>8, <1>10, <2>1, CountBack
<1> QED
  BY <1>6, <1>7, <1>11

LEMMA LoadKeyStep ==
  ASSUME QInv, NEW c \in Consumers, LoadKey(c)
  PROVE  QInv'
<1> PICK e \in Entries :
      /\ key[e] = Base(mine[c].index) /\ value[e] # None
      /\ mine' = [mine EXCEPT ![c].entry = e]
  BY CountedBack DEF LoadKey
<1>1. /\ pc[c] = "key" /\ pc'[c] = "value" /\ Others(c) /\ pc' = [pc EXCEPT ![c] = "value"]
      /\ UNCHANGED << memory, blockVars, counters >>
      /\ UNCHANGED << tailIndex, tailBlock, headers, enq, key, value, slot, emptied, free >>
      /\ UNCHANGED << headIndex, dequeueOptimisticCount, dequeueOvercommit >>
  BY DEF LoadKey, Goto, Others, QInv, QueueTypes, memory, blockVars, counters
<1>2. QueueTypes /\ mine[c] \in Locals /\ mine \in [Consumers -> Locals] /\ e \in Nat
  BY DEF QInv, QueueTypes, Entries
<1>3. mine'[c].entry = e /\ mine'[c].index = mine[c].index /\ mine'[c] \in Locals
  BY <1>2 DEF Locals
<1>4. CountersOK'
  BY <1>1, LateCounters DEF QInv, Counting
<1>5. QueueTypes'
  BY <1>1, <1>2, <1>3 DEF QueueTypes, ConsumerStages
<1>6. EntriesOK' /\ KeysOK' /\ ProducerOK'
  BY <1>1, IndexKept DEF QInv
<1>7. \A d \in Consumers : d # c => pc'[d] = pc[d] /\ mine'[d] = mine[d]
  BY <1>1 DEF Others
<1>8. PlacesOK'
  <2>1. \A d \in Consumers, b \in Blocks : Leaving(d, b)' = Leaving(d, b)
    BY <1>1, <1>7 DEF Leaving
  <2> QED
    BY <1>1, <2>1, PlacesKept DEF QInv
<1>9. ElementsOK'
  <2>1. \A d \in Consumers : Holds(d)' => Holds(d) /\ mine'[d].index = mine[d].index
    BY <1>1, <1>3, <1>7 DEF Holds
  <2> QED
    BY <1>1, <2>1, ElementsKept DEF QInv
<1>10. CountsOK'
  <2>1. \A d \in Consumers : pc[d] = "empty" \/ pc'[d] = "empty" =>
                               pc'[d] = pc[d] /\ mine'[d] = mine[d]
    BY <1>1, <1>7
  <2> QED
    BY <1>1, <2>1, CountsKept DEF QInv
<1>11. PathsOK'
  <2>1. \A d \in Consumers : pc'[d] = "unindex" => pc[d] = "unindex" /\ mine'[d] = mine[d]
    BY <1>1, <1>7
  <2>2. ASSUME NEW d \in Consumers, d # c PROVE Path(d)'
    <3>1. pc'[d] \in Late => pc'[d] = pc[d] /\ mine'[d] = mine[d]
      BY <1>7, <2>2
    <3> QED
      BY <1>1, <2>1, <3>1, PathKept DEF QInv
  <2>3. Path(c)'
    BY <1>1, <1>3 DEF Path, KeyPath, ValuePath, BlockPath, LastPath, FreePath
  <2> QED
    BY <2>2, <2>3 DEF PathsOK
<1> QED
  BY <1>4, <1>5, <1>6, <1>8, <1>9, <1>10, <1>11 DEF QInv

(* The entry that a consumer has found is the one of its element.          *)
LEMMA AtTheEntry ==
  ASSUME QInv, NEW c \in Consumers, pc[c] = "value"
  PROVE  LET e == mine[c].entry  b == value[mine[c].entry]  i == mine[c].index IN
           /\ e \in Entries /\ b \in Blocks /\ key[e] = Base(i) /\ i \in Index
           /\ slot[b][Offset(i)] = i /\ value[e] # None
<1>1. QueueTypes /\ EntriesOK /\ KeysOK /\ ValuePath(c) /\ Claimed(c)
  BY DEF QInv, PathsOK, Path, ElementsOK, Holds
<1>2. /\ mine[c].entry \in Entries /\ key[mine[c].entry] = Base(mine[c].index)
      /\ value[mine[c].entry] # None
  BY <1>1 DEF ValuePath
<1>3. PICK e \in Entries : /\ key[e] = Base(mine[c].index) /\ value[e] # None
                           /\ slot[value[e]][Offset(mine[c].index)] = mine[c].index
  BY <1>1 DEF Claimed, Found
<1>4. e = mine[c].entry
  BY <1>1, <1>2, <1>3, OneEntry
<1>5. mine[c].index \in Index /\ value[mine[c].entry] \in Blocks
  BY <1>1, <1>2, CounterTypes DEF Locals, QueueTypes
<1> QED
  BY <1>2, <1>3, <1>4, <1>5

(* What is left to do in a block is finite.                                *)
LEMMA Todo ==
  ASSUME NEW b
  PROVE  /\ IsFiniteSet(Unfinished(b)) /\ IsFiniteSet(AtEmpty(b))
         /\ Cardinality(Unfinished(b)) \in Nat /\ Cardinality(AtEmpty(b)) \in Nat
         /\ IsFiniteSet(Offsets) /\ Cardinality(Offsets) = BlockSize
<1>1. IsFiniteSet(Offsets) /\ Cardinality(Offsets) = BlockSize
  <2>1. 0 \in Int /\ BlockSize - 1 \in Int /\ BlockSize \in Nat \ {0, 1}
    BY Ranges
  <2> QED
    BY <2>1, FS_Interval DEF Offsets
<1>2. Unfinished(b) \subseteq Offsets /\ AtEmpty(b) \subseteq Consumers /\ IsFiniteSet(Consumers)
  BY RangeAssumption DEF Unfinished, AtEmpty
<1>3. IsFiniteSet(Unfinished(b)) /\ IsFiniteSet(AtEmpty(b))
  BY <1>1, <1>2, FS_Subset
<1> QED
  BY <1>1, <1>3, FS_CardinalityType

(* The element is moved out: what is left of the block is one slot less,   *)
(* and one consumer more that has not said that it is done.                *)
LEMMA MoveOutStep ==
  ASSUME QInv, NEW c \in Consumers, MoveOut(c)
  PROVE  QInv'
<1> PICK e \in Entries, b \in Blocks, i \in Index, o \in Offsets :
      /\ e = mine[c].entry /\ b = value[e] /\ i = mine[c].index /\ o = Offset(i)
      /\ key[e] = Base(i) /\ slot[b][o] = i /\ b # None
  <2>1. pc[c] = "value"
    BY DEF MoveOut
  <2>2. mine[c].index \in Index => Offset(mine[c].index) \in Offsets
    BY InBlocks
  <2> QED
    BY <2>1, <2>2, AtTheEntry
<1>1. /\ pc[c] = "value" /\ pc'[c] = "empty" /\ Others(c) /\ pc' = [pc EXCEPT ![c] = "empty"]
      /\ mine' = [mine EXCEPT ![c].block = b] /\ slot' = [slot EXCEPT ![b][o] = None]
      /\ UNCHANGED << memory, counters, key, value, emptied, free >>
      /\ UNCHANGED << tailIndex, tailBlock, headers, enq >>
      /\ UNCHANGED << headIndex, dequeueOptimisticCount, dequeueOvercommit >>
  BY DEF MoveOut, Goto, Others, QInv, QueueTypes, memory, counters
<1>2. /\ QueueTypes /\ mine \in [Consumers -> Locals] /\ mine[c] \in Locals
      /\ slot \in [Blocks -> [Offsets -> Index \union {None}]] /\ None \notin Index
  BY QueueAssumption DEF QInv, QueueTypes, Index
<1>3. /\ mine'[c].block = b /\ mine'[c].entry = e /\ mine'[c].index = i /\ mine'[c] \in Locals
      /\ slot'[b][o] = None
      /\ \A d \in Blocks, p \in Offsets : d # b \/ p # o => slot'[d][p] = slot[d][p]
  BY <1>1, <1>2 DEF Locals
<1>4. CountersOK'
  BY <1>1, LateCounters DEF QInv, Counting
<1>5. QueueTypes'
  BY <1>1, <1>2, <1>3 DEF QueueTypes, ConsumerStages
<1>6. \A d \in Consumers : d # c => pc'[d] = pc[d] /\ mine'[d] = mine[d]
  BY <1>1 DEF Others
<1>7. EntriesOK' /\ KeysOK'
  BY <1>1, IndexSame, ProducerSame DEF QInv, EntriesOK, Bijective, KeysOK, RightKey
<1>8. InUse(b) /\ Within(i) /\ ~ Queued(i) /\ Alone(c)
  <2>1. Claimed(c)
    BY <1>1 DEF QInv, ElementsOK, Holds
  <2> QED
    BY <2>1 DEF InUse, Claimed
<1>9. ASSUME Started, b = tailBlock PROVE o < Offset(tailIndex)
  <2>1. key[Spot(0)] = Base(tailIndex) /\ value[Spot(0)] = tailBlock /\ tailBlock # None
    BY <1>9 DEF QInv, ProducerOK
  <2>2. Spot(0) \in Entries
    BY Spots DEF QInv
  <2>3. e = Spot(0)
    BY <1>9, <2>1, <2>2 DEF QInv, PlacesOK
  <2> QED
    BY <1>8, <1>9, <2>1, <2>3 DEF Within
<1>10. ProducerOK'
  <2>1. enq.at = "value" => slot'[enq.block][0] = tailIndex
    <3> SUFFICES ASSUME enq.at = "value" PROVE slot'[enq.block][0] = tailIndex
      OBVIOUS
    <3>1. enq.block \in Blocks /\ slot[enq.block][0] = tailIndex
      BY DEF QInv, ProducerOK
    <3>2. enq.block # b
      BY <1>8, <3>1 DEF QInv, PlacesOK, Entering
    <3>3. 0 \in Offsets
      BY Ranges DEF Offsets
    <3> QED
      BY <1>3, <3>1, <3>2, <3>3
  <2>2. enq.at = "commit" => slot'[tailBlock][Offset(tailIndex)] = tailIndex
    <3> SUFFICES ASSUME enq.at = "commit" PROVE slot'[tailBlock][Offset(tailIndex)] = tailIndex
      OBVIOUS
    <3>1. /\ Started /\ slot[tailBlock][Offset(tailIndex)] = tailIndex /\ tailBlock \in Blocks
          /\ tailIndex \in Index
      BY <1>2 DEF QInv, ProducerOK, Started, QueueTypes
    <3>2. Offset(tailIndex) \in Offsets /\ o \in Int
      BY <3>1, InBlocks DEF Offsets
    <3>3. tailBlock # b \/ Offset(tailIndex) # o
      BY <1>9, <3>1, <3>2 DEF Offsets
    <3> QED
      BY <1>3, <3>1, <3>2, <3>3
  <2> QED
    BY <1>1, <2>1, <2>2, IndexSame, ProducerSame DEF QInv, ProducerOK
<1>11. PlacesOK'
  <2>1. \A d \in Consumers, x \in Blocks : Leaving(d, x)' = Leaving(d, x)
    BY <1>1, <1>6 DEF Leaving
  <2>2. \A x \in Blocks : Bare(x) => Bare(x)'
    BY <1>3 DEF Bare
  <2>3. \A x : InUse(x)' = InUse(x) /\ Entering(x)' = Entering(x)
    BY <1>1 DEF InUse, Entering
  <2> QED
    BY <1>1, <2>1, <2>2, <2>3 DEF QInv, PlacesOK
<1>12. \A k \in Index : k # i /\ Found(k) => Found(k)'
  <2> SUFFICES ASSUME NEW k \in Index, k # i, Found(k) PROVE Found(k)'
    OBVIOUS
  <2>1. PICK f \in Entries : key[f] = Base(k) /\ value[f] # None /\ slot[value[f]][Offset(k)] = k
    BY DEF Found
  <2>2. value[f] \in Blocks /\ Offset(k) \in Offsets
    BY <1>2, <2>1, InBlocks DEF QueueTypes
  <2>3. value[f] # b \/ Offset(k) # o
    <3> SUFFICES ASSUME value[f] = b, Offset(k) = o PROVE FALSE
      OBVIOUS
    <3>1. f = e
      BY DEF QInv, PlacesOK
    <3> QED
      BY <2>1, <3>1, BlockNumber
  <2>4. slot'[value[f]][Offset(k)] = k
    BY <1>3, <2>1, <2>2, <2>3
  <2> QED
    BY <1>1, <2>1, <2>4 DEF Found
<1>13. \A k : Queued(k)' = Queued(k) /\ Within(k)' = Within(k)
  BY <1>1, ProducerSame DEF Queued, Length, Within
<1>14. ElementsOK'
  <2>1. \A k \in Index : Queued(k)' => Found(k)'
    <3> SUFFICES ASSUME NEW k \in Index, Queued(k) PROVE Found(k)'
      BY <1>13
    <3> QED
      BY <1>8, <1>12 DEF QInv, ElementsOK
  <2>2. ASSUME NEW d \in Consumers, Holds(d)' PROVE Claimed(d)'
    <3>1. d # c /\ Holds(d) /\ Claimed(d) /\ mine'[d] = mine[d]
      BY <1>1, <1>6, <2>2 DEF Holds, QInv, ElementsOK
    <3> PICK k \in Index : k = mine[d].index
      BY <1>2, CounterTypes DEF Locals
    <3>2. k # i
      BY <1>8, <3>1 DEF Alone
    <3>3. Found(k)' /\ ~ Queued(k)' /\ Within(k)'
      BY <1>12, <1>13, <3>1, <3>2 DEF Claimed
    <3>4. Alone(d)'
      BY <1>1, <1>6, <3>1 DEF Alone, Claimed, Holds
    <3> QED
      BY <3>1, <3>3, <3>4 DEF Claimed
  <2> QED
    BY <2>1, <2>2 DEF ElementsOK
<1>15. PathsOK'
  <2>1. \A d \in Consumers : Path(d)
    BY DEF QInv, PathsOK
  <2>2. ASSUME NEW d \in Consumers PROVE KeyPath(d)'
    <3>1. KeyPath(d) /\ (pc'[d] = "key" => pc'[d] = pc[d] /\ mine'[d] = mine[d])
      BY <1>1, <1>6, <2>1 DEF Path
    <3> QED
      BY <1>1, <3>1, KeyPathKept
  <2>3. \A d \in Consumers : ValuePath(d)' /\ FreePath(d)'
    BY <1>1, <1>6, <2>1 DEF Path, ValuePath, FreePath
  <2>4. ASSUME NEW d \in Consumers PROVE BlockPath(d)'
    <3>1. CASE d = c
      BY <1>1, <1>3, <3>1 DEF BlockPath
    <3>2. CASE d # c
      <4>1. pc'[d] = pc[d] /\ mine'[d] = mine[d] /\ BlockPath(d)
        BY <1>6, <2>1, <3>2 DEF Path
      <4> QED
        BY <1>1, <4>1 DEF BlockPath
    <3> QED
      BY <3>1, <3>2
  <2>5. \A d \in Consumers : LastPath(d)'
    BY <1>1, <1>6, <2>1 DEF Path, LastPath
  <2> QED
    BY <2>2, <2>3, <2>4, <2>5 DEF PathsOK, Path
<1>16. CountsOK'
  <2>0. Started' = Started
    BY <1>1, ProducerSame
  <2>1. ASSUME NEW x \in Blocks, x # b
        PROVE  Unfinished(x)' = Unfinished(x) /\ AtEmpty(x)' = AtEmpty(x)
    <3>1. Unfinished(x)' = Unfinished(x)
      BY <1>1, <1>3, <2>0, <2>1 DEF Unfinished
    <3>2. AtEmpty(x)' = AtEmpty(x)
      BY <1>1, <1>3, <1>6, <2>1 DEF AtEmpty
    <3> QED
      BY <3>1, <3>2
  <2>2. Unfinished(b)' = Unfinished(b) \ {o} /\ o \in Unfinished(b)
    <3>1. o \in Unfinished(b)
      BY <1>2 DEF Unfinished
    <3>2. ASSUME NEW p \in Offsets PROVE p \in Unfinished(b)' <=> p \in Unfinished(b) /\ p # o
      <4>1. CASE p # o
        BY <1>1, <1>3, <2>0, <4>1 DEF Unfinished
      <4>2. CASE p = o
        <5>1. tailIndex \in Index /\ Offset(tailIndex) \in Int /\ o \in Int
          BY <1>2, InBlocks DEF QueueTypes, Offsets
        <5>2. ~ (Started /\ b = tailBlock /\ o >= Offset(tailIndex))
          BY <1>9, <5>1
        <5> QED
          BY <1>1, <1>3, <2>0, <4>2, <5>2 DEF Unfinished
      <4> QED
        BY <4>1, <4>2
    <3>3. Unfinished(b)' \subseteq Offsets /\ Unfinished(b) \subseteq Offsets
      BY DEF Unfinished
    <3> QED
      BY <3>1, <3>2, <3>3
  <2>3. AtEmpty(b)' = AtEmpty(b) \union {c} /\ c \notin AtEmpty(b)
    <3>1. c \notin AtEmpty(b) /\ c \in AtEmpty(b)'
      BY <1>1, <1>3 DEF AtEmpty
    <3>2. \A d \in Consumers \ {c} : d \in AtEmpty(b)' <=> d \in AtEmpty(b)
      BY <1>6 DEF AtEmpty
    <3>3. AtEmpty(b) \subseteq Consumers /\ AtEmpty(b)' \subseteq Consumers
      BY DEF AtEmpty
    <3> QED
      BY <3>1, <3>2, <3>3
  <2> PICK u \in Nat, a \in Nat : u = Cardinality(Unfinished(b)) /\ a = Cardinality(AtEmpty(b))
    BY Todo
  <2> PICK U, A : U = Unfinished(b) /\ A = AtEmpty(b)
    OBVIOUS
  <2>9. IsFiniteSet(U) /\ IsFiniteSet(A) /\ u = Cardinality(U) /\ a = Cardinality(A)
    BY Todo
  <2>4. Cardinality(Unfinished(b)') = u - 1
    <3>1. o \in U /\ IsFiniteSet(U)
      BY <2>2, <2>9
    <3>2. Cardinality(U \ {o}) = Cardinality(U) - 1
      BY <3>1, FS_RemoveElement
    <3> QED
      BY <2>2, <2>9, <3>2
  <2>5. Cardinality(AtEmpty(b)') = a + 1
    <3>1. c \notin A /\ IsFiniteSet(A)
      BY <2>3, <2>9
    <3>2. Cardinality(A \union {c}) = Cardinality(A) + 1
      BY <3>1, FS_AddElement
    <3> QED
      BY <2>3, <2>9, <3>2
  <2>6. emptied[b] \in Nat /\ emptied[b] + u + a = BlockSize
    BY <1>2 DEF QInv, CountsOK, QueueTypes
  <2>7. emptied[b] + (u - 1) + (a + 1) = BlockSize
    BY <2>6
  <2>8. ASSUME NEW f \in Entries, value[f] # None
        PROVE  emptied[value[f]] + Cardinality(Unfinished(value[f])') + Cardinality(AtEmpty(value[f])')
                 = BlockSize
    <3> PICK x \in Blocks : x = value[f]
      BY <1>2, <2>8 DEF QueueTypes
    <3>1. value'[f] = value[f]
      BY <1>1
    <3>2. CASE x = b
      BY <1>1, <2>4, <2>5, <2>7, <3>2
    <3>3. CASE x # b
      <4>1. Unfinished(x)' = Unfinished(x) /\ AtEmpty(x)' = AtEmpty(x)
        BY <2>1, <3>3
      <4>2. emptied[x] + Cardinality(Unfinished(x)) + Cardinality(AtEmpty(x)) = BlockSize
        BY <2>8 DEF QInv, CountsOK
      <4> QED
        BY <1>1, <4>1, <4>2
    <3> QED
      BY <3>2, <3>3
  <2> QED
    BY <1>1, <2>8 DEF CountsOK
<1> QED
  BY <1>4, <1>5, <1>7, <1>10, <1>11, <1>14, <1>15, <1>16 DEF QInv

(* The consumer says that it is done.                                      *)
LEMMA SetEmptyStep ==
  ASSUME QInv, NEW c \in Consumers, SetEmpty(c)
  PROVE  QInv'
<1> PICK b \in Blocks : b = mine[c].block /\ InUse(b)
  <2>1. pc[c] = "empty" /\ BlockPath(c) /\ QueueTypes
    BY DEF SetEmpty, QInv, PathsOK, Path
  <2>2. mine[c].block \in Blocks
    BY <2>1, CounterTypes DEF BlockPath, Locals
  <2> QED
    BY <2>1, <2>2 DEF BlockPath, InUse
<1>1. /\ pc[c] = "empty" /\ Others(c) /\ emptied' = [emptied EXCEPT ![b] = @ + 1]
      /\ UNCHANGED << memory, counters, key, value, slot, free >>
      /\ UNCHANGED << tailIndex, tailBlock, headers, enq >>
      /\ UNCHANGED << headIndex, dequeueOptimisticCount, dequeueOvercommit >>
  BY DEF SetEmpty, Goto, Others, QInv, QueueTypes, memory, counters
<1>2. QueueTypes /\ mine \in [Consumers -> Locals] /\ pc \in [Consumers -> ConsumerStages]
      /\ emptied \in [Blocks -> Nat] /\ NoLocals \in Locals /\ BlockSize \in Nat
      /\ pc[c] = "empty"
  <2>1. 0 \in Index /\ BlockSize \in Nat
    BY Ranges DEF Index
  <2> QED
    BY <1>1, <2>1 DEF QInv, QueueTypes, NoLocals, Locals
<1>3. \/ /\ pc' = [pc EXCEPT ![c] = "unindex"] /\ pc'[c] = "unindex" /\ mine' = mine
         /\ emptied[b] = BlockSize - 1
      \/ /\ pc' = [pc EXCEPT ![c] = "ready"] /\ pc'[c] = "ready"
         /\ mine' = [mine EXCEPT ![c] = NoLocals] /\ mine'[c] = NoLocals
  BY <1>2 DEF SetEmpty, WasLast, Goto
<1>4. CountersOK'
  BY <1>1, <1>2, <1>3, LateCounters DEF QInv, Counting
<1>5. QueueTypes'
  <2>1. pc' \in [Consumers -> ConsumerStages] /\ mine' \in [Consumers -> Locals]
    BY <1>2, <1>3 DEF ConsumerStages
  <2>2. emptied' \in [Blocks -> Nat]
    BY <1>1, <1>2
  <2> QED
    BY <1>1, <1>2, <2>1, <2>2 DEF QueueTypes
<1>6. \A d \in Consumers : d # c => pc'[d] = pc[d] /\ mine'[d] = mine[d]
  BY <1>1 DEF Others
<1>7. EntriesOK' /\ KeysOK'
  BY <1>1, IndexSame, ProducerSame DEF QInv, EntriesOK, Bijective, KeysOK, RightKey
<1>8. emptied'[b] = emptied[b] + 1 /\ \A x \in Blocks : x # b => emptied'[x] = emptied[x]
  BY <1>1, <1>2
<1>9. ProducerOK'
  <2>1. enq.at = "value" => emptied'[enq.block] = 0
    <3> SUFFICES ASSUME enq.at = "value" PROVE emptied'[enq.block] = 0
      OBVIOUS
    <3>1. enq.block \in Blocks /\ emptied[enq.block] = 0
      BY DEF QInv, ProducerOK
    <3>2. enq.block # b
      BY <3>1 DEF QInv, PlacesOK, Entering
    <3> QED
      BY <1>8, <3>1, <3>2
  <2> QED
    BY <1>1, <2>1, IndexSame, ProducerSame DEF QInv, ProducerOK
<1>10. PlacesOK'
  <2>1. \A d \in Consumers, x \in Blocks : Leaving(d, x)' = Leaving(d, x)
    BY <1>1, <1>3, <1>6 DEF Leaving
  <2> QED
    BY <1>1, <2>1, PlacesKept DEF QInv
<1>11. ElementsOK'
  <2>1. \A d \in Consumers : Holds(d)' => Holds(d) /\ mine'[d].index = mine[d].index
    BY <1>1, <1>3, <1>6 DEF Holds
  <2> QED
    BY <1>1, <2>1, ElementsKept DEF QInv
<1>12. \A x : AtEmpty(x)' = AtEmpty(x) \ {c} /\ Unfinished(x)' = Unfinished(x)
  <2>1. Started' = Started
    BY <1>1, ProducerSame
  <2>2. \A x : Unfinished(x)' = Unfinished(x)
    BY <1>1, <2>1 DEF Unfinished
  <2>3. \A x : AtEmpty(x)' = AtEmpty(x) \ {c}
    BY <1>3, <1>6 DEF AtEmpty
  <2> QED
    BY <2>2, <2>3
<1>13. emptied[b] < BlockSize /\ CountsOK'
  <2> PICK U, A : U = Unfinished(b) /\ A = AtEmpty(b)
    OBVIOUS
  <2> PICK u \in Nat, a \in Nat : u = Cardinality(U) /\ a = Cardinality(A)
    BY Todo
  <2>1. IsFiniteSet(A) /\ c \in A
    BY <1>1, Todo DEF AtEmpty
  <2>2. Cardinality(A \ {c}) = a - 1
    BY <2>1, FS_RemoveElement
  <2>3. a > 0
    BY <2>1, FS_EmptySet
  <2>4. emptied[b] \in Nat /\ emptied[b] + u + a = BlockSize
    BY <1>2, QueueAssumption DEF QInv, CountsOK, InUse
  <2>5. emptied[b] < BlockSize /\ (emptied[b] + 1) + u + (a - 1) = BlockSize
    BY <1>2, <2>3, <2>4
  <2>6. ASSUME NEW f \in Entries, value[f] # None
        PROVE  emptied'[value[f]] + Cardinality(Unfinished(value[f])') + Cardinality(AtEmpty(value[f])')
                 = BlockSize
    <3> PICK x \in Blocks : x = value[f]
      BY <1>2, <2>6 DEF QueueTypes
    <3>1. value'[f] = value[f]
      BY <1>1
    <3>2. CASE x = b
      BY <1>1, <1>8, <1>12, <2>2, <2>5, <3>2
    <3>3. CASE x # b
      <4>1. AtEmpty(x)' = AtEmpty(x) /\ Unfinished(x)' = Unfinished(x)
        BY <1>12, <3>3 DEF AtEmpty
      <4>2. emptied[x] + Cardinality(Unfinished(x)) + Cardinality(AtEmpty(x)) = BlockSize
        BY <2>6 DEF QInv, CountsOK
      <4> QED
        BY <1>1, <1>8, <3>3, <4>1, <4>2
    <3> QED
      BY <3>2, <3>3
  <2> QED
    BY <1>1, <2>5, <2>6 DEF CountsOK
<1>14. PathsOK'
  <2>1. \A d \in Consumers : Path(d)
    BY DEF QInv, PathsOK
  <2>2. ASSUME NEW d \in Consumers PROVE KeyPath(d)'
    <3>1. KeyPath(d) /\ (pc'[d] = "key" => pc'[d] = pc[d] /\ mine'[d] = mine[d])
      BY <1>3, <1>6, <2>1 DEF Path
    <3> QED
      BY <1>1, <3>1, KeyPathKept
  <2>3. \A d \in Consumers : ValuePath(d)' /\ FreePath(d)' /\ BlockPath(d)'
    BY <1>1, <1>3, <1>6, <2>1 DEF Path, ValuePath, FreePath, BlockPath
  <2>4. ASSUME NEW d \in Consumers, pc[d] = "unindex"
        PROVE  mine[d].block # b /\ mine[d].block \in Blocks
    <3>1. emptied[mine[d].block] = BlockSize
      BY <2>1, <2>4 DEF Path, LastPath
    <3>2. mine[d].block \in Blocks
      BY <1>2, <2>1, <2>4, CounterTypes DEF Path, BlockPath, Locals
    <3> QED
      BY <1>13, <1>2, <3>1, <3>2
  <2>5. ASSUME NEW d \in Consumers, d # c PROVE LastPath(d)'
    <3> SUFFICES ASSUME pc[d] = "unindex" PROVE LastPath(d)'
      BY <1>6, <2>5 DEF LastPath
    <3>1. LastPath(d) /\ mine[d].block # b /\ mine[d].block \in Blocks /\ mine'[d] = mine[d]
      BY <1>6, <2>1, <2>4, <2>5 DEF Path
    <3>2. emptied'[mine[d].block] = BlockSize
      BY <1>8, <3>1 DEF LastPath
    <3>3. pc'[c] = "unindex" => mine'[c].block = b
      BY <1>3
    <3> QED
      BY <1>6, <3>1, <3>2, <3>3 DEF LastPath
  <2>6. LastPath(c)'
    <3> SUFFICES ASSUME pc'[c] = "unindex" PROVE LastPath(c)'
      BY DEF LastPath
    <3>1. mine'[c].block = b /\ emptied'[b] = BlockSize
      BY <1>2, <1>3, <1>8
    <3> QED
      BY <1>6, <2>4, <3>1 DEF LastPath
  <2> QED
    BY <2>2, <2>3, <2>5, <2>6 DEF PathsOK, Path
<1> QED
  BY <1>4, <1>5, <1>7, <1>9, <1>10, <1>11, <1>13, <1>14 DEF QInv

(* The last one takes the block out of the index: nobody looks for an      *)
(* element in it any more.                                                 *)
LEMMA UnindexStep ==
  ASSUME QInv, NEW c \in Consumers, Unindex(c)
  PROVE  QInv'
<1> PICK e \in Entries, b \in Blocks : e = mine[c].entry /\ b = mine[c].block /\ value[e] = b /\ b # None
  <2>1. pc[c] = "unindex" /\ BlockPath(c) /\ QueueTypes
    BY DEF Unindex, QInv, PathsOK, Path
  <2>2. mine[c].block \in Blocks
    BY <2>1, CounterTypes DEF BlockPath, Locals
  <2> QED
    BY <2>1, <2>2 DEF BlockPath
<1>1. /\ pc[c] = "unindex" /\ pc'[c] = "free" /\ pc' = [pc EXCEPT ![c] = "free"] /\ Others(c)
      /\ value' = [value EXCEPT ![e] = None]
      /\ UNCHANGED << memory, counters, key, slot, emptied, free, mine >>
      /\ UNCHANGED << tailIndex, tailBlock, headers, enq >>
      /\ UNCHANGED << headIndex, dequeueOptimisticCount, dequeueOvercommit >>
  BY DEF Unindex, Goto, Others, QInv, QueueTypes, memory, counters
<1>2. /\ QueueTypes /\ EntriesOK /\ KeysOK /\ pc \in [Consumers -> ConsumerStages]
      /\ value \in [Entries -> Blocks \union {None}] /\ None \notin Index
      /\ slot \in [Blocks -> [Offsets -> Index \union {None}]]
  BY QueueAssumption DEF QInv, QueueTypes, Index
<1>3. /\ value'[e] = None /\ \A f \in Entries : f # e => value'[f] = value[f]
  BY <1>1, <1>2
<1>4. CountersOK'
  BY <1>1, LateCounters DEF QInv, Counting
<1>5. QueueTypes'
  <2>1. pc' \in [Consumers -> ConsumerStages]
    BY <1>1, <1>2 DEF ConsumerStages
  <2>2. value' \in [Entries -> Blocks \union {None}]
    BY <1>1, <1>2
  <2> QED
    BY <1>1, <1>2, <2>1, <2>2 DEF QueueTypes
<1>6. \A d \in Consumers : d # c => pc'[d] = pc[d]
  BY <1>1 DEF Others
<1>7. Unfinished(b) = {} /\ AtEmpty(b) = {}
  <2> PICK U, A : U = Unfinished(b) /\ A = AtEmpty(b)
    OBVIOUS
  <2> PICK u \in Nat, a \in Nat : u = Cardinality(U) /\ a = Cardinality(A)
    BY Todo
  <2>1. emptied[b] = BlockSize /\ BlockSize \in Nat
    BY <1>1, Ranges DEF QInv, PathsOK, Path, LastPath
  <2>2. emptied[b] + u + a = BlockSize
    BY DEF QInv, CountsOK
  <2>3. u = 0 /\ a = 0
    BY <2>1, <2>2
  <2>4. IsFiniteSet(U) /\ IsFiniteSet(A)
    BY Todo
  <2> QED
    BY <2>3, <2>4, FS_EmptySet
<1>8. Bare(b)
  BY <1>7 DEF Unfinished, Bare
<1>9. ASSUME NEW f \in Entries, value[f] # None, NEW o \in Offsets, slot[value[f]][o] # None
      PROVE  f # e /\ value'[f] = value[f]
  BY <1>3, <1>8, <1>9 DEF Bare
<1>10. EntriesOK'
  BY <1>1, <1>3, IndexSame DEF QInv, EntriesOK, Bijective
<1>11. KeysOK'
  <2>1. \A f \in Entries : value'[f] # None => value[f] # None
    BY <1>3
  <2>2. \A j \in Int : Spot(j)' = Spot(j) /\ Spot(j) \in Entries
    BY <1>1, <1>2, IndexSame, Spots
  <2>3. \A j \in Int : RightKey(j)' = RightKey(j)
    BY <1>1, <2>2, ProducerSame DEF RightKey
  <2>4. Size' = Size /\ Size \in Nat
    BY <1>1, <1>2, IndexSame, Spots
  <2>5. \A j \in 0 .. Size - 1 : value'[Spot(j)] # None => RightKey(j)'
    BY <2>1, <2>2, <2>3, <2>4 DEF QInv, KeysOK
  <2>6. (\E f \in Entries : value'[f] # None) =>
          RightKey(0)' /\ (enq.at \in {"block", "value"} => RightKey(1)')
    BY <2>1, <2>3 DEF QInv, KeysOK
  <2> QED
    BY <1>1, <2>2, <2>4, <2>5, <2>6 DEF KeysOK
<1>12. ProducerOK'
  <2>1. enq.at \in Inserting => value'[enq.entry] = None
    BY <1>1, <1>3 DEF QInv, ProducerOK
  <2>2. Started => value'[Spot(0)] = tailBlock
    <3> SUFFICES ASSUME Started PROVE value'[Spot(0)] = tailBlock
      OBVIOUS
    <3>1. value[Spot(0)] = tailBlock /\ Spot(0) \in Entries
      BY <1>2, Spots DEF QInv, ProducerOK
    <3>2. tailBlock # b
      <4>1. tailIndex \in Index /\ Offset(tailIndex) \in Offsets /\ Offset(tailIndex) \in Int
        BY <1>2, InBlocks DEF QueueTypes, Offsets
      <4>2. Offset(tailIndex) >= Offset(tailIndex)
        BY <4>1
      <4> QED
        BY <1>7, <4>1, <4>2 DEF Unfinished
    <3> QED
      BY <1>3, <3>1, <3>2
  <2> QED
    BY <1>1, <2>1, <2>2, IndexSame, ProducerSame DEF QInv, ProducerOK
<1>13. InUse(b) /\ ~ InUse(b)' /\ \A x \in Blocks : x # b => InUse(x)' = InUse(x)
  <2>1. InUse(b)
    BY DEF InUse
  <2>2. ~ InUse(b)'
    BY <1>3 DEF QInv, PlacesOK, InUse
  <2>3. \A x \in Blocks : x # b => InUse(x)' = InUse(x)
    BY <1>2, <1>3, QueueAssumption DEF InUse
  <2> QED
    BY <2>1, <2>2, <2>3
<1>14. PlacesOK'
  <2>1. \A d \in Consumers, x \in Blocks :
          Leaving(d, x)' <=> Leaving(d, x) \/ (d = c /\ x = b)
    BY <1>1, <1>6 DEF Leaving
  <2>2. \A x : Bare(x)' = Bare(x) /\ Entering(x)' = Entering(x)
    BY <1>1 DEF Bare, Entering
  <2>3. \A f, g \in Entries : value'[f] = value'[g] /\ value'[f] # None => f = g
    BY <1>3 DEF QInv, PlacesOK
  <2>4. b \notin free /\ ~ Entering(b) /\ \A d \in Consumers : ~ Leaving(d, b)
    BY <1>13 DEF QInv, PlacesOK
  <2>5. ASSUME NEW x \in Blocks
        PROVE  /\ x \in free' \/ InUse(x)' \/ Entering(x)' \/ \E d \in Consumers : Leaving(d, x)'
               /\ x \in free' => ~ InUse(x)' /\ Bare(x)'
               /\ Entering(x)' => x \notin free' /\ ~ InUse(x)'
               /\ \A d \in Consumers : Leaving(d, x)' =>
                    /\ x \notin free' /\ ~ InUse(x)' /\ ~ Entering(x)' /\ Bare(x)'
                    /\ \A g \in Consumers : Leaving(g, x)' => g = d
    <3>1. CASE x = b
      BY <1>1, <1>8, <1>13, <2>1, <2>2, <2>4, <3>1
    <3>2. CASE x # b
      <4>1. InUse(x)' = InUse(x) /\ \A d \in Consumers : Leaving(d, x)' <=> Leaving(d, x)
        BY <1>13, <2>1, <3>2
      <4> QED
        BY <1>1, <2>2, <4>1 DEF QInv, PlacesOK
    <3> QED
      BY <3>1, <3>2
  <2> QED
    BY <2>3, <2>5 DEF PlacesOK
<1>15. \A k \in Index : Found(k) => Found(k)'
  <2> SUFFICES ASSUME NEW k \in Index, Found(k) PROVE Found(k)'
    OBVIOUS
  <2>1. PICK f \in Entries : key[f] = Base(k) /\ value[f] # None /\ slot[value[f]][Offset(k)] = k
    BY DEF Found
  <2>2. Offset(k) \in Offsets /\ k # None
    BY <1>2, InBlocks
  <2>3. value'[f] = value[f]
    BY <1>9, <2>1, <2>2
  <2> QED
    BY <1>1, <2>1, <2>3 DEF Found
<1>16. \A d \in Consumers : mine[d].index \in Index
  BY <1>2, CounterTypes DEF Locals
<1>17. ElementsOK'
  <2>1. \A k : Queued(k)' = Queued(k) /\ Within(k)' = Within(k)
    BY <1>1, ProducerSame DEF Queued, Length, Within
  <2>2. \A d \in Consumers : Holds(d)' = Holds(d)
    BY <1>1, <1>6 DEF Holds
  <2>3. \A k \in Index : Queued(k)' => Found(k)'
    BY <1>15, <2>1 DEF QInv, ElementsOK
  <2>4. ASSUME NEW d \in Consumers, Holds(d)' PROVE Claimed(d)'
    <3> PICK k \in Index : k = mine[d].index
      BY <1>16
    <3>1. Claimed(d) /\ mine'[d].index = k
      BY <1>1, <2>2, <2>4 DEF QInv, ElementsOK
    <3>2. Found(k)' /\ ~ Queued(k)' /\ Within(k)'
      BY <1>15, <2>1, <3>1 DEF Claimed
    <3>3. Alone(d)'
      BY <1>1, <2>2, <3>1 DEF Alone, Claimed
    <3> QED
      BY <3>1, <3>2, <3>3 DEF Claimed
  <2> QED
    BY <2>3, <2>4 DEF ElementsOK
<1>18. ASSUME NEW d \in Consumers, Holds(d), NEW f \in Entries,
              key[f] = Base(mine[d].index), value[f] # None
       PROVE  value'[f] = value[f]
  <2> PICK k \in Index : k = mine[d].index
    BY <1>16
  <2>1. PICK g \in Entries : key[g] = Base(k) /\ value[g] # None /\ slot[value[g]][Offset(k)] = k
    BY <1>18 DEF QInv, ElementsOK, Claimed, Found
  <2>2. f = g
    BY <1>2, <1>18, <2>1, OneEntry
  <2>3. Offset(k) \in Offsets /\ k # None
    BY <1>2, InBlocks
  <2> QED
    BY <1>9, <2>1, <2>2, <2>3
<1>19. PathsOK'
  <2>1. \A d \in Consumers : Path(d)
    BY DEF QInv, PathsOK
  <2>2. ASSUME NEW d \in Consumers PROVE KeyPath(d)'
    <3> SUFFICES ASSUME pc'[d] = "key"
                 PROVE  /\ mine'[d].header \in DOMAIN headers'
                        /\ mine'[d].pos \in 0 .. Positions(mine[d].header)' - 1
                        /\ \E j \in 0 .. Positions(mine[d].header)' - 1, s \in 0 .. Size' - 1 :
                             OnTheWay(d, j, s)'
      BY DEF KeyPath
    <3>1. pc[d] = "key" /\ mine'[d] = mine[d] /\ KeyPath(d) /\ Holds(d)
      BY <1>1, <1>6, <2>1 DEF Path, Holds
    <3>2. PICK j \in 0 .. Positions(mine[d].header) - 1, s \in 0 .. Size - 1 : OnTheWay(d, j, s)
      BY <3>1 DEF KeyPath
    <3>3. Spot(s) \in Entries
      BY <1>2, Spots
    <3>4. value'[Spot(s)] # None
      BY <1>18, <3>1, <3>2, <3>3 DEF OnTheWay
    <3>5. OnTheWay(d, j, s)'
      BY <1>1, <3>1, <3>2, <3>4, IndexSame, ProducerSame DEF OnTheWay, RightKey
    <3>6. Positions(mine[d].header)' = Positions(mine[d].header) /\ Size' = Size
      BY <1>1, <3>1, IndexSame
    <3> QED
      BY <1>1, <3>1, <3>5, <3>6 DEF KeyPath
  <2>3. ASSUME NEW d \in Consumers PROVE ValuePath(d)'
    <3> SUFFICES ASSUME pc'[d] = "value" PROVE ValuePath(d)'
      BY DEF ValuePath
    <3>1. pc[d] = "value" /\ mine'[d] = mine[d] /\ ValuePath(d) /\ Holds(d)
      BY <1>1, <1>6, <2>1 DEF Path, Holds
    <3> QED
      BY <1>1, <1>18, <3>1 DEF ValuePath
  <2>4. ASSUME NEW d \in Consumers PROVE BlockPath(d)' /\ LastPath(d)' /\ FreePath(d)'
    <3>1. FreePath(d)'
      BY <1>1, <1>6, <2>1 DEF Path, FreePath
    <3>2. LastPath(d)'
      BY <1>1, <1>6, <2>1 DEF Path, LastPath
    <3>3. BlockPath(d)'
      <4> SUFFICES ASSUME pc'[d] \in {"empty", "unindex"} PROVE BlockPath(d)'
        BY DEF BlockPath
      <4>1. d # c /\ pc[d] = pc'[d] /\ BlockPath(d) /\ LastPath(c)
        BY <1>1, <1>6, <2>1 DEF Path
      <4>2. mine[d].block # b
        <5>1. CASE pc[d] = "empty"
          BY <1>7, <5>1 DEF AtEmpty
        <5>2. CASE pc[d] = "unindex"
          BY <1>1, <4>1, <5>2 DEF LastPath
        <5> QED
          BY <4>1, <5>1, <5>2
      <4> QED
        BY <1>1, <1>3, <4>1, <4>2 DEF BlockPath
    <3> QED
      BY <3>1, <3>2, <3>3
  <2> QED
    BY <2>2, <2>3, <2>4 DEF PathsOK, Path
<1>20. CountsOK'
  <2>1. \A x : Unfinished(x)' = Unfinished(x)
    BY <1>1, ProducerSame DEF Unfinished
  <2>2. \A x : AtEmpty(x)' = AtEmpty(x)
    BY <1>1, <1>6 DEF AtEmpty
  <2> QED
    BY <1>1, <1>3, <2>1, <2>2 DEF QInv, CountsOK
<1> QED
  BY <1>4, <1>5, <1>10, <1>11, <1>12, <1>14, <1>17, <1>19, <1>20 DEF QInv

LEMMA AddToFreeListStep ==
  ASSUME QInv, NEW c \in Consumers, AddToFreeList(c)
  PROVE  QInv'
<1> PICK b \in Blocks : b = mine[c].block /\ Leaving(c, b)
  <2>1. pc[c] = "free" /\ FreePath(c) /\ QueueTypes
    BY DEF AddToFreeList, QInv, PathsOK, Path
  <2>2. mine[c].block \in Blocks
    BY <2>1, CounterTypes DEF FreePath, Locals
  <2> QED
    BY <2>1, <2>2 DEF Leaving
<1>1. /\ pc[c] = "free" /\ pc'[c] = "ready" /\ pc' = [pc EXCEPT ![c] = "ready"] /\ Others(c)
      /\ free' = free \union {b} /\ mine' = [mine EXCEPT ![c] = NoLocals]
      /\ UNCHANGED << memory, counters, key, value, slot, emptied >>
      /\ UNCHANGED << tailIndex, tailBlock, headers, enq >>
      /\ UNCHANGED << headIndex, dequeueOptimisticCount, dequeueOvercommit >>
  BY DEF AddToFreeList, Goto, Others, QInv, QueueTypes, memory, counters
<1>2. QueueTypes /\ NoLocals \in Locals
  <2>1. 0 \in Index
    BY Ranges DEF Index
  <2> QED
    BY <2>1 DEF QInv, NoLocals, Locals
<1>3. CountersOK'
  BY <1>1, LateCounters DEF QInv, Counting
<1>4. QueueTypes'
  BY <1>1, <1>2 DEF QueueTypes, ConsumerStages
<1>5. \A d \in Consumers : d # c => pc'[d] = pc[d] /\ mine'[d] = mine[d]
  BY <1>1 DEF Others
<1>6. EntriesOK' /\ KeysOK'
  BY <1>1, IndexSame, ProducerSame DEF QInv, EntriesOK, Bijective, KeysOK, RightKey
<1>7. ProducerOK'
  BY <1>1, IndexSame, ProducerSame DEF QInv, ProducerOK
<1>8. PlacesOK'
  <2>1. \A d \in Consumers, x \in Blocks :
          Leaving(d, x)' <=> Leaving(d, x) /\ d # c
    BY <1>1, <1>5 DEF Leaving
  <2>2. \A x : Bare(x)' = Bare(x) /\ Entering(x)' = Entering(x) /\ InUse(x)' = InUse(x)
    BY <1>1 DEF Bare, Entering, InUse
  <2>3. \A d \in Consumers : Leaving(d, b) => d = c
    BY DEF QInv, PlacesOK
  <2>4. ~ InUse(b) /\ ~ Entering(b) /\ Bare(b)
    BY DEF QInv, PlacesOK
  <2>5. \A x \in Blocks : x # b => ~ Leaving(c, x)
    BY DEF Leaving
  <2>6. ASSUME NEW x \in Blocks
        PROVE  /\ x \in free' \/ InUse(x)' \/ Entering(x)' \/ \E d \in Consumers : Leaving(d, x)'
               /\ x \in free' => ~ InUse(x)' /\ Bare(x)'
               /\ Entering(x)' => x \notin free' /\ ~ InUse(x)'
               /\ \A d \in Consumers : Leaving(d, x)' =>
                    /\ x \notin free' /\ ~ InUse(x)' /\ ~ Entering(x)' /\ Bare(x)'
                    /\ \A g \in Consumers : Leaving(g, x)' => g = d
    <3>1. CASE x = b
      BY <1>1, <2>1, <2>2, <2>3, <2>4, <3>1
    <3>2. CASE x # b
      <4>1. (x \in free' <=> x \in free) /\ \A d \in Consumers : Leaving(d, x)' <=> Leaving(d, x)
        BY <1>1, <2>1, <2>5, <3>2
      <4> QED
        BY <2>2, <4>1 DEF QInv, PlacesOK
    <3> QED
      BY <3>1, <3>2
  <2> QED
    BY <1>1, <2>6 DEF QInv, PlacesOK
<1>9. ElementsOK'
  <2>1. \A d \in Consumers : Holds(d)' => Holds(d) /\ mine'[d].index = mine[d].index
    BY <1>1, <1>5 DEF Holds
  <2> QED
    BY <1>1, <2>1, ElementsKept DEF QInv
<1>10. PathsOK'
  <2>1. \A d \in Consumers : Path(d)
    BY DEF QInv, PathsOK
  <2>2. ASSUME NEW d \in Consumers PROVE KeyPath(d)'
    <3>1. KeyPath(d) /\ (pc'[d] = "key" => pc'[d] = pc[d] /\ mine'[d] = mine[d])
      BY <1>1, <1>5, <2>1 DEF Path
    <3> QED
      BY <1>1, <3>1, KeyPathKept
  <2>3. \A d \in Consumers : ValuePath(d)' /\ FreePath(d)' /\ BlockPath(d)'
    BY <1>1, <1>5, <2>1 DEF Path, ValuePath, FreePath, BlockPath
  <2>4. \A d \in Consumers : LastPath(d)'
    BY <1>1, <1>5, <2>1 DEF Path, LastPath
  <2> QED
    BY <2>2, <2>3, <2>4 DEF PathsOK, Path
<1>11. CountsOK'
  <2>1. \A d \in Consumers : pc[d] = "empty" \/ pc'[d] = "empty" =>
                               pc'[d] = pc[d] /\ mine'[d] = mine[d]
    BY <1>1, <1>5
  <2> QED
    BY <1>1, <2>1, CountsKept DEF QInv
<1> QED
  BY <1>3, <1>4, <1>6, <1>7, <1>8, <1>9, <1>10, <1>11 DEF QInv

-----------------------------------------------------------------------------
(* The producer's steps.                                                   *)
LEMMA ProducerCounters ==
  ASSUME QueueTypes, CountersOK, UNCHANGED consumerVars, LengthOK', Length' \in Int,
         Length <= Length'
  PROVE  CountersOK'
<1>1. UNCHANGED counters /\ UNCHANGED << pc, mine >>
  BY DEF consumerVars
<1>2. Length \in Int
  BY CounterTypes
<1>3. \A c \in Consumers : pc'[c] \in {"check", "claim"} => mine'[c].over <= dequeueOvercommit
  BY <1>1 DEF CountersOK
<1> QED
  BY <1>1, <1>2, <1>3, CountersApart

LEMMA SameLength ==
  ASSUME QueueTypes, CountersOK, UNCHANGED consumerVars, UNCHANGED tailIndex, LengthOK'
  PROVE  CountersOK'
<1>1. Length' = Length /\ Length \in Int /\ Length <= Length
  BY CounterTypes DEF Length, consumerVars, counters
<1> QED
  BY <1>1, ProducerCounters

LEMMA ProducerPaths ==
  ASSUME PathsOK, UNCHANGED << pc, mine >>,
         \A f \in Entries : value[f] # None => value'[f] = value[f] /\ key'[f] = key[f],
         \A f \in Entries : value[f] # None => emptied'[value[f]] = emptied[value[f]],
         \A c \in Consumers : KeyPath(c) => KeyPath(c)'
  PROVE  PathsOK'
<1>1. ASSUME NEW c \in Consumers PROVE Path(c)'
  <2>1. KeyPath(c)' /\ FreePath(c)'
    BY DEF PathsOK, Path, FreePath
  <2>2. ValuePath(c)'
    BY DEF PathsOK, Path, ValuePath
  <2>3. BlockPath(c)'
    BY DEF PathsOK, Path, BlockPath
  <2>4. LastPath(c)'
    <3> SUFFICES ASSUME pc[c] = "unindex" PROVE LastPath(c)'
      BY DEF LastPath
    <3>1. LastPath(c) /\ mine[c].entry \in Entries /\ mine[c].block # None
          /\ value[mine[c].entry] = mine[c].block
      BY DEF PathsOK, Path, BlockPath
    <3>2. emptied'[mine[c].block] = emptied[mine[c].block]
      BY <3>1
    <3> QED
      BY <3>1, <3>2 DEF LastPath
  <2> QED
    BY <2>1, <2>2, <2>3, <2>4 DEF Path
<1> QED
  BY <1>1 DEF PathsOK

LEMMA ProducerElements ==
  ASSUME QueueTypes, ElementsOK, UNCHANGED << pc, mine, headIndex, tailIndex >>,
         \A k \in Index : Found(k) => Found(k)',
         \A d \in Consumers : Holds(d) => Within(mine[d].index)'
  PROVE  ElementsOK'
<1>1. \A k : Queued(k)' <=> Queued(k)
  BY DEF Queued, Length
<1>2. \A d \in Consumers : Holds(d)' <=> Holds(d)
  BY DEF Holds
<1>3. \A k \in Index : Queued(k)' => Found(k)'
  BY <1>1 DEF ElementsOK
<1>4. ASSUME NEW d \in Consumers, Holds(d)' PROVE Claimed(d)'
  <2> PICK k \in Index : k = mine[d].index
    BY CounterTypes DEF Locals
  <2>1. Claimed(d) /\ Within(mine[d].index)'
    BY <1>2, <1>4 DEF ElementsOK
  <2>2. Found(k)' /\ ~ Queued(k)' /\ Within(mine[d].index)'
    BY <1>1, <2>1 DEF Claimed
  <2>3. Alone(d)'
    BY <1>2, <2>1 DEF Alone, Claimed
  <2> QED
    BY <2>2, <2>3 DEF Claimed
<1> QED
  BY <1>3, <1>4 DEF ElementsOK

(* The newest index has not moved.                                         *)
LEMMA KeyPathStays ==
  ASSUME QueueTypes, EntriesOK, NEW c \in Consumers, KeyPath(c),
         UNCHANGED << headers, key, pc, mine >>,
         \A e \in Entries : value[e] # None => value'[e] # None,
         InBlock' => InBlock, TopBlk' = TopBlk
  PROVE  KeyPath(c)'
<1> SUFFICES ASSUME pc[c] = "key"
             PROVE  /\ mine[c].header \in DOMAIN headers
                    /\ mine[c].pos \in 0 .. Positions(mine[c].header)' - 1
                    /\ \E j \in 0 .. Positions(mine[c].header)' - 1, s \in 0 .. Size' - 1 :
                         OnTheWay(c, j, s)'
  BY DEF KeyPath
<1>1. /\ mine[c].header \in DOMAIN headers /\ mine[c].pos \in 0 .. Positions(mine[c].header) - 1
  BY DEF KeyPath
<1>2. PICK j \in 0 .. Positions(mine[c].header) - 1, s \in 0 .. Size - 1 : OnTheWay(c, j, s)
  BY <1>1 DEF KeyPath
<1>3. value'[Spot(s)] # None
  <2>1. Spot(s) \in Entries
    BY Spots
  <2> QED
    BY <1>2, <2>1 DEF OnTheWay
<1>4. \A x : RightKey(x)' = RightKey(x)
  BY IndexSame DEF RightKey
<1>5. OnTheWay(c, j, s)'
  BY <1>1, <1>2, <1>3, <1>4, IndexSame DEF OnTheWay
<1>6. Positions(mine[c].header)' = Positions(mine[c].header) /\ Size' = Size
  BY <1>1, IndexSame
<1> QED
  BY <1>1, <1>5, <1>6

(* An element goes into its slot in the middle of a block.                 *)
LEMMA StoreElementStep ==
  ASSUME QInv, StoreElement
  PROVE  QInv'
<1> PICK o \in Offsets, t \in Index, b \in Blocks :
      /\ t = tailIndex /\ o = Offset(tailIndex) /\ b = tailBlock /\ o # 0 /\ Started
      /\ key[Spot(0)] = Base(t) /\ value[Spot(0)] = b /\ b # None /\ Spot(0) \in Entries
  <2>1. tailIndex \in Index /\ Started /\ Spot(0) \in Entries
        /\ tailBlock \in Blocks \union {None} /\ Offset(tailIndex) # 0
    BY Spots DEF StoreElement, Started, QInv, QueueTypes
  <2> QED
    BY <2>1, InBlocks DEF QInv, ProducerOK
<1>1. /\ enq.at = "ready" /\ enq'.at = "commit" /\ slot' = [slot EXCEPT ![b][o] = t]
      /\ enq' = [enq EXCEPT !.at = "commit"]
      /\ UNCHANGED << tailIndex, tailBlock, headers, key, value, emptied, free, consumerVars >>
      /\ UNCHANGED << headIndex, dequeueOptimisticCount, dequeueOvercommit, pc, mine >>
  BY DEF StoreElement, QInv, QueueTypes, consumerVars, counters
<1>2. /\ QueueTypes /\ EntriesOK /\ PlacesOK /\ CountersOK
      /\ slot \in [Blocks -> [Offsets -> Index \union {None}]] /\ None \notin Index
  BY QueueAssumption DEF QInv, QueueTypes, Index
<1>3. /\ slot'[b][o] = t
      /\ \A x \in Blocks, p \in Offsets : x # b \/ p # o => slot'[x][p] = slot[x][p]
  BY <1>1, <1>2
<1>4. Started' /\ InBlock' = InBlock /\ TopBlk' = TopBlk
  BY <1>1 DEF Started, InBlock, TopBlk
<1>5. QueueTypes'
  <2>1. slot' \in [Blocks -> [Offsets -> Index \union {None}]]
    BY <1>1, <1>2
  <2> QED
    BY <1>1, <1>2, <2>1 DEF QueueTypes, Inserting
<1>6. CountersOK'
  <2>1. LengthOK'
    BY <1>1, <1>2 DEF CountersOK, LengthOK, Length
  <2> QED
    BY <1>1, <1>2, <2>1, SameLength
<1>7. EntriesOK' /\ KeysOK'
  BY <1>1, <1>4, IndexSame DEF QInv, EntriesOK, Bijective, KeysOK, RightKey
<1>8. ProducerOK'
  BY <1>1, <1>3, <1>4, IndexSame DEF ProducerOK, Inserting
<1>9. PlacesOK'
  <2>1. InUse(b)
    BY DEF InUse
  <2>2. \A x : InUse(x)' = InUse(x) /\ (Entering(x)' <=> Entering(x))
    BY <1>1 DEF InUse, Entering
  <2>3. \A x \in Blocks : x # b => Bare(x)' = Bare(x)
    BY <1>3 DEF Bare
  <2>4. \A d \in Consumers, x \in Blocks : Leaving(d, x)' = Leaving(d, x)
    BY <1>1 DEF Leaving
  <2> QED
    BY <1>1, <1>2, <2>1, <2>2, <2>3, <2>4 DEF PlacesOK
<1>10. ElementsOK'
  <2>1. ASSUME NEW k \in Index, Found(k) PROVE Found(k)'
    <3>1. PICK f \in Entries : key[f] = Base(k) /\ value[f] # None /\ slot[value[f]][Offset(k)] = k
      BY <2>1 DEF Found
    <3>2. value[f] \in Blocks /\ Offset(k) \in Offsets
      BY <1>2, <3>1, InBlocks DEF QueueTypes
    <3>3. slot'[value[f]][Offset(k)] = k
      <4>1. CASE value[f] = b /\ Offset(k) = o
        <5>1. f = Spot(0)
          BY <1>2, <4>1 DEF PlacesOK
        <5>2. k = t
          BY <3>1, <4>1, <5>1, BlockNumber
        <5> QED
          BY <1>3, <4>1, <5>2
      <4>2. CASE value[f] # b \/ Offset(k) # o
        BY <1>3, <3>1, <3>2, <4>2
      <4> QED
        BY <4>1, <4>2
    <3> QED
      BY <1>1, <3>1, <3>3 DEF Found
  <2>2. \A d \in Consumers : Holds(d) => Within(mine[d].index)'
    BY <1>1, <1>4 DEF QInv, ElementsOK, Claimed, Within
  <2> QED
    BY <1>1, <1>2, <2>1, <2>2, ProducerElements DEF QInv
<1>11. PathsOK'
  <2>1. \A c \in Consumers : KeyPath(c) => KeyPath(c)'
    BY <1>1, <1>2, <1>4, KeyPathStays
  <2> QED
    BY <1>1, <2>1, ProducerPaths DEF QInv
<1>12. CountsOK'
  <2>1. \A x \in Blocks : Unfinished(x)' = Unfinished(x)
    <3> TAKE x \in Blocks
    <3>1. CASE x # b
      BY <1>1, <1>3, <1>4, <3>1 DEF Unfinished
    <3>2. CASE x = b
      <4>1. o >= o
        BY DEF Offsets
      <4>2. ASSUME NEW p \in Offsets PROVE p \in Unfinished(b)' <=> p \in Unfinished(b)
        <5>1. CASE p = o
          BY <1>1, <1>2, <1>3, <1>4, <4>1, <5>1 DEF Unfinished
        <5>2. CASE p # o
          BY <1>1, <1>3, <1>4, <5>2 DEF Unfinished
        <5> QED
          BY <5>1, <5>2
      <4>3. Unfinished(b)' \subseteq Offsets /\ Unfinished(b) \subseteq Offsets
        BY DEF Unfinished
      <4> QED
        BY <3>2, <4>2, <4>3
    <3> QED
      BY <3>1, <3>2
  <2>2. \A x : AtEmpty(x)' = AtEmpty(x)
    BY <1>1 DEF AtEmpty
  <2>3. \A f \in Entries : value[f] # None => value[f] \in Blocks
    BY <1>2 DEF QueueTypes
  <2> QED
    BY <1>1, <2>1, <2>2, <2>3 DEF QInv, CountsOK
<1> QED
  BY <1>5, <1>6, <1>7, <1>8, <1>9, <1>10, <1>11, <1>12 DEF QInv

(* A block of the pool is taken, and the element put into its first slot.  *)
LEMMA RequisitionBlockStep ==
  ASSUME QInv, RequisitionBlock
  PROVE  QInv'
<1> PICK b \in free, t \in Index :
      /\ t = tailIndex /\ Offset(tailIndex) = 0 /\ b \in Blocks
      /\ free' = free \ {b} /\ emptied' = [emptied EXCEPT ![b] = 0]
      /\ slot' = [slot EXCEPT ![b][0] = t]
      /\ enq' = [enq EXCEPT !.at = "value", !.block = b]
  <2>1. enq.at \in Inserting /\ tailIndex \in Index /\ free \subseteq Blocks
    BY DEF RequisitionBlock, Inserting, QInv, QueueTypes
  <2> QED
    BY <2>1 DEF RequisitionBlock, QInv, ProducerOK
<1>1. /\ enq.at = "block" /\ enq'.at = "value" /\ enq'.block = b /\ enq'.entry = enq.entry
      /\ UNCHANGED << tailIndex, tailBlock, headers, key, value, consumerVars >>
      /\ UNCHANGED << headIndex, dequeueOptimisticCount, dequeueOvercommit, pc, mine >>
  BY DEF RequisitionBlock, QInv, QueueTypes, consumerVars, counters
<1>2. /\ QueueTypes /\ EntriesOK /\ PlacesOK /\ CountersOK
      /\ slot \in [Blocks -> [Offsets -> Index \union {None}]] /\ emptied \in [Blocks -> Nat]
      /\ 0 \in Offsets
  <2>1. 0 \in Offsets
    BY Ranges DEF Offsets
  <2> QED
    BY <2>1 DEF QInv, QueueTypes
<1>3. /\ slot'[b][0] = t /\ emptied'[b] = 0
      /\ \A x \in Blocks : x # b => slot'[x] = slot[x] /\ emptied'[x] = emptied[x]
  BY <1>1, <1>2
<1>4. ~ Started /\ ~ Started' /\ InBlock' = InBlock /\ TopBlk' = TopBlk
  BY <1>1 DEF Started, InBlock, TopBlk
<1>5. QueueTypes'
  <2>1. slot' \in [Blocks -> [Offsets -> Index \union {None}]] /\ emptied' \in [Blocks -> Nat]
        /\ free' \subseteq Blocks
    BY <1>1, <1>2 DEF QueueTypes
  <2> QED
    BY <1>1, <1>2, <2>1 DEF QueueTypes, Inserting
<1>6. CountersOK'
  <2>1. LengthOK'
    BY <1>1, <1>2 DEF CountersOK, LengthOK, Length
  <2> QED
    BY <1>1, <1>2, <2>1, SameLength
<1>7. EntriesOK' /\ KeysOK'
  BY <1>1, <1>4, IndexSame DEF QInv, EntriesOK, Bijective, KeysOK, RightKey
<1>8. ProducerOK'
  <2>1. enq.entry \in Entries /\ value[enq.entry] = None /\ enq.entry = Spot(0)
        /\ key[enq.entry] = tailIndex
    BY <1>1 DEF QInv, ProducerOK, Inserting
  <2> QED
    BY <1>1, <1>3, <1>4, <2>1, IndexSame DEF ProducerOK
<1>9. ~ InUse(b) /\ \A d \in Consumers : ~ Leaving(d, b)
  BY <1>2 DEF PlacesOK
<1>10. PlacesOK'
  <2>1. \A x : InUse(x)' = InUse(x) /\ (Entering(x)' <=> x = b) /\ ~ Entering(x)
    BY <1>1 DEF InUse, Entering
  <2>2. \A x \in Blocks : x # b => Bare(x)' = Bare(x)
    BY <1>3 DEF Bare
  <2>3. \A d \in Consumers, x \in Blocks : Leaving(d, x)' = Leaving(d, x)
    BY <1>1 DEF Leaving
  <2> QED
    BY <1>1, <1>2, <1>9, <2>1, <2>2, <2>3 DEF PlacesOK
<1>11. \A f \in Entries : value[f] # None => value[f] # b /\ value[f] \in Blocks
  BY <1>2, <1>9 DEF InUse, QueueTypes
<1>12. ElementsOK'
  <2>1. \A k \in Index : Found(k) => Found(k)'
    BY <1>1, <1>3, <1>11 DEF Found
  <2>2. \A d \in Consumers : Holds(d) => Within(mine[d].index)'
    BY <1>4 DEF Within
  <2> QED
    BY <1>1, <1>2, <2>1, <2>2, ProducerElements DEF QInv
<1>13. PathsOK'
  <2>1. \A c \in Consumers : KeyPath(c) => KeyPath(c)'
    BY <1>1, <1>2, <1>4, KeyPathStays
  <2>2. \A f \in Entries : value[f] # None => emptied'[value[f]] = emptied[value[f]]
    BY <1>3, <1>11
  <2> QED
    BY <1>1, <2>1, <2>2, ProducerPaths DEF QInv
<1>14. CountsOK'
  <2>1. \A x \in Blocks : x # b => Unfinished(x)' = Unfinished(x)
    BY <1>3, <1>4 DEF Unfinished
  <2>2. \A x : AtEmpty(x)' = AtEmpty(x)
    BY <1>1 DEF AtEmpty
  <2> QED
    BY <1>1, <1>3, <1>11, <2>1, <2>2 DEF QInv, CountsOK
<1> QED
  BY <1>5, <1>6, <1>7, <1>8, <1>10, <1>12, <1>13, <1>14 DEF QInv

(* The entry of a block that did not come has no block anyway.             *)
LEMMA ClearEntryStep ==
  ASSUME QInv, ClearEntry
  PROVE  QInv'
<1>1. /\ enq.at = "clear" /\ enq'.at = "ready" /\ enq' = Ready
      /\ UNCHANGED << tailIndex, tailBlock, headers, key, slot, emptied, free, consumerVars >>
      /\ UNCHANGED << headIndex, dequeueOptimisticCount, dequeueOvercommit, pc, mine >>
  BY DEF ClearEntry, Ready, consumerVars, counters
<1>2. Offset(tailIndex) = 0 /\ value' = value
  <2>1. value[enq.entry] = None /\ Offset(tailIndex) = 0
    BY <1>1 DEF QInv, ProducerOK, Inserting
  <2> QED
    BY <2>1 DEF ClearEntry, QInv, QueueTypes
<1>3. ~ Started /\ ~ Started' /\ InBlock' = InBlock /\ TopBlk' = TopBlk
  BY <1>1, <1>2 DEF Started, InBlock, TopBlk
<1>4. QueueTypes /\ EntriesOK /\ CountersOK
  BY DEF QInv
<1>5. QueueTypes'
  BY <1>1, <1>2, <1>4 DEF QueueTypes, Ready
<1>6. CountersOK'
  <2>1. LengthOK'
    BY <1>1, <1>3, <1>4 DEF CountersOK, LengthOK, Length
  <2> QED
    BY <1>1, <1>4, <2>1, SameLength
<1>7. EntriesOK' /\ KeysOK'
  BY <1>1, <1>2, <1>3, IndexSame DEF QInv, EntriesOK, Bijective, KeysOK, RightKey
<1>8. ProducerOK'
  BY <1>1, <1>3 DEF ProducerOK, Inserting
<1>9. PlacesOK'
  <2>1. \A x : InUse(x)' = InUse(x) /\ (Entering(x)' <=> Entering(x)) /\ Bare(x)' = Bare(x)
    BY <1>1, <1>2 DEF InUse, Entering, Bare
  <2>2. \A d \in Consumers, x \in Blocks : Leaving(d, x)' = Leaving(d, x)
    BY <1>1 DEF Leaving
  <2> QED
    BY <1>1, <1>2, <2>1, <2>2 DEF QInv, PlacesOK
<1>10. ElementsOK'
  <2>1. \A k \in Index : Found(k) => Found(k)'
    BY <1>1, <1>2 DEF Found
  <2>2. \A d \in Consumers : Holds(d) => Within(mine[d].index)'
    BY <1>3 DEF Within
  <2> QED
    BY <1>1, <1>4, <2>1, <2>2, ProducerElements DEF QInv
<1>11. PathsOK'
  <2>1. \A c \in Consumers : KeyPath(c) => KeyPath(c)'
    BY <1>1, <1>2, <1>3, <1>4, KeyPathStays
  <2> QED
    BY <1>1, <1>2, <2>1, ProducerPaths DEF QInv
<1>12. CountsOK'
  <2>1. \A x : Unfinished(x)' = Unfinished(x) /\ AtEmpty(x)' = AtEmpty(x)
    BY <1>1, <1>3 DEF Unfinished, AtEmpty
  <2> QED
    BY <1>1, <1>2, <2>1 DEF QInv, CountsOK
<1> QED
  BY <1>5, <1>6, <1>7, <1>8, <1>9, <1>10, <1>11, <1>12 DEF QInv

(* The block gets its place in the index.                                  *)
LEMMA StoreValueStep ==
  ASSUME QInv, StoreValue
  PROVE  QInv'
<1> PICK e \in Entries, b \in Blocks, t \in Index :
      /\ e = enq.entry /\ b = enq.block /\ t = tailIndex /\ Offset(t) = 0 /\ b # None
      /\ e = Spot(0) /\ key[e] = t /\ value[e] = None /\ slot[b][0] = t /\ emptied[b] = 0
      /\ Entering(b)
  <2>1. enq.at \in Inserting /\ enq.at = "value" /\ tailIndex \in Index
    BY DEF StoreValue, Inserting, QInv, QueueTypes
  <2> QED
    BY <2>1, QueueAssumption DEF QInv, ProducerOK, Entering
<1>1. /\ enq.at = "value" /\ enq'.at = "commit" /\ enq' = [enq EXCEPT !.at = "commit"]
      /\ value' = [value EXCEPT ![e] = b] /\ tailBlock' = b
      /\ UNCHANGED << tailIndex, headers, key, slot, emptied, free, consumerVars >>
      /\ UNCHANGED << headIndex, dequeueOptimisticCount, dequeueOvercommit, pc, mine >>
  BY DEF StoreValue, QInv, QueueTypes, consumerVars, counters
<1>2. /\ QueueTypes /\ EntriesOK /\ KeysOK /\ PlacesOK /\ CountersOK
      /\ value \in [Entries -> Blocks \union {None}]
      /\ Blk(t) \in 0 .. Wheel - 1 /\ Wheel \in Nat \ {0} /\ Base(t) = t /\ 0 \in Offsets
  <2>1. QueueTypes /\ EntriesOK /\ KeysOK /\ PlacesOK /\ CountersOK /\ 0 \in Offsets
    BY Ranges DEF QInv, Offsets
  <2>2. Blk(t) \in 0 .. Wheel - 1 /\ Wheel \in Nat \ {0}
    BY InBlocks, Ranges
  <2>3. Base(t) = t
    BY DEF Index, Base
  <2> QED
    BY <2>1, <2>2, <2>3 DEF QueueTypes
<1>3. value'[e] = b /\ \A f \in Entries : f # e => value'[f] = value[f]
  BY <1>1, <1>2
<1>4. ~ Started /\ Started' /\ InBlock' = InBlock /\ TopBlk' = TopBlk /\ TopBlk = Blk(t)
  BY <1>1 DEF Started, InBlock, TopBlk
<1>5. QueueTypes'
  <2>1. value' \in [Entries -> Blocks \union {None}]
    BY <1>1, <1>2
  <2> QED
    BY <1>1, <1>2, <2>1 DEF QueueTypes, Inserting
<1>6. CountersOK'
  <2>1. LengthOK'
    BY <1>1, <1>2 DEF CountersOK, LengthOK, Length
  <2> QED
    BY <1>1, <1>2, <2>1, SameLength
<1>7. e \in 1 .. Size /\ Size \in Nat \ {0} /\ Size' = Size /\ \A j : Spot(j)' = Spot(j)
  BY <1>1, <1>2, IndexSame, Spots
<1>8. EntriesOK'
  BY <1>1, <1>2, <1>3, <1>7, IndexSame DEF EntriesOK, Bijective
<1>9. \A j : RightKey(j)' = RightKey(j)
  BY <1>1, <1>4, <1>7 DEF RightKey
<1>10. RightKey(0)
  <2> PICK q \in 0 .. Wheel - 1 : q = Blk(t)
    BY <1>2
  <2>1. q % Wheel = q /\ q - 0 = q
    BY <1>2, Small
  <2>2. t # None
    BY QueueAssumption DEF Index
  <2> QED
    BY <1>2, <1>4, <2>1, <2>2 DEF RightKey
<1>11. KeysOK'
  <2>1. ASSUME NEW j \in 0 .. Size - 1, value'[Spot(j)] # None PROVE RightKey(j)
    <3>1. CASE Spot(j) = e
      <4>1. j = 0
        BY <1>2, <1>7, <3>1, Spots, 0 \in Int
      <4> QED
        BY <1>10, <4>1
    <3>2. CASE Spot(j) # e
      <4>1. Spot(j) \in Entries
        BY <1>2, <1>7, Spots
      <4> QED
        BY <1>2, <1>3, <2>1, <3>2, <4>1 DEF KeysOK
    <3> QED
      BY <3>1, <3>2
  <2> QED
    BY <1>1, <1>7, <1>9, <1>10, <2>1 DEF KeysOK
<1>12. ProducerOK'
  <2>1. Offset(tailIndex) = 0 /\ key[Spot(0)] = Base(tailIndex)
    BY <1>2
  <2> QED
    BY <1>1, <1>2, <1>3, <1>4, <1>7, <2>1 DEF ProducerOK, Inserting
<1>13. /\ InUse(b)' /\ ~ InUse(b) /\ b \notin free /\ \A d \in Consumers : ~ Leaving(d, b)
       /\ \A x \in Blocks : x # b => (InUse(x)' <=> InUse(x))
  <2>1. ~ InUse(b) /\ b \notin free /\ \A d \in Consumers : ~ Leaving(d, b)
    BY <1>2 DEF PlacesOK
  <2>2. InUse(b)'
    BY <1>3 DEF InUse
  <2>3. ASSUME NEW x \in Blocks, x # b PROVE InUse(x)' <=> InUse(x)
    BY <1>3, <2>3, QueueAssumption DEF InUse
  <2> QED
    BY <2>1, <2>2, <2>3
<1>14. PlacesOK'
  <2>1. \A x \in Blocks : ~ Entering(x)' /\ (Entering(x) <=> x = b) /\ Bare(x)' = Bare(x)
    BY <1>1 DEF Entering, Bare
  <2>2. \A d \in Consumers, x \in Blocks : Leaving(d, x)' = Leaving(d, x)
    BY <1>1 DEF Leaving
  <2>3. \A f, g \in Entries : value'[f] = value'[g] /\ value'[f] # None => f = g
    <3> TAKE f, g \in Entries
    <3> HAVE value'[f] = value'[g] /\ value'[f] # None
    <3>1. CASE f # e /\ g # e
      BY <1>2, <1>3, <3>1 DEF PlacesOK
    <3>2. CASE f = e \/ g = e
      BY <1>3, <1>13, <3>2 DEF InUse
    <3> QED
      BY <3>1, <3>2
  <2> QED
    BY <1>1, <1>2, <1>13, <2>1, <2>2, <2>3 DEF PlacesOK
<1>15. \A f \in Entries : value[f] # None => value'[f] = value[f] /\ f # e
  BY <1>3
<1>16. ElementsOK'
  <2>1. \A k \in Index : Found(k) => Found(k)'
    BY <1>1, <1>15 DEF Found
  <2>2. ASSUME NEW d \in Consumers, Holds(d) PROVE Within(mine[d].index)'
    <3> PICK k \in Index : k = mine[d].index
      BY <1>2, CounterTypes DEF Locals
    <3>1. Base(k) # Base(t)
      <4> SUFFICES ASSUME Base(k) = Base(t) PROVE FALSE
        OBVIOUS
      <4>1. PICK f \in Entries : key[f] = Base(k) /\ value[f] # None
        BY <2>2 DEF QInv, ElementsOK, Claimed, Found
      <4>2. PICK s \in 0 .. Size - 1 : f = Spot(s)
        BY <1>2, <4>1, LiveSpot
      <4>3. Blk(t) = (TopBlk - s) % Wheel
        BY <1>2, <4>1, <4>2 DEF KeysOK, RightKey
      <4> PICK x \in Int, y \in Int : x = Blk(t) /\ y = Blk(t) - s
        BY <1>2, <1>7
      <4>4. x % Wheel = y % Wheel
        BY <1>2, <1>4, <4>3, Near
      <4>5. x - y < Wheel /\ y - x < Wheel
        <5>1. Size <= Wheel
          BY <1>2, Spots
        <5> QED
          BY <1>2, <1>7, <5>1
      <4>6. x = y
        BY <1>2, <4>4, <4>5, SameRemainder
      <4>7. s = 0
        BY <1>2, <1>7, <4>6
      <4> QED
        BY <4>1, <4>2, <4>7
    <3> QED
      BY <1>1, <3>1 DEF Within
  <2> QED
    BY <1>1, <1>2, <2>1, <2>2, ProducerElements DEF QInv
<1>17. PathsOK'
  <2>1. \A c \in Consumers : KeyPath(c) => KeyPath(c)'
    BY <1>1, <1>2, <1>4, <1>15, KeyPathStays
  <2> QED
    BY <1>1, <1>15, <2>1, ProducerPaths DEF QInv
<1>18. CountsOK'
  <2>1. \A x \in Blocks : x # b => Unfinished(x)' = Unfinished(x)
    BY <1>1, <1>4 DEF Unfinished
  <2>2. \A x : AtEmpty(x)' = AtEmpty(x)
    BY <1>1 DEF AtEmpty
  <2>3. AtEmpty(b) = {}
    <3>1. \A d \in Consumers : pc[d] = "empty" => mine[d].entry \in Entries /\ value[mine[d].entry] = mine[d].block
      BY DEF QInv, PathsOK, Path, BlockPath
    <3> QED
      BY <1>13, <3>1 DEF AtEmpty, InUse
  <2>4. Unfinished(b)' = Offsets
    <3>1. \A o \in Offsets : o >= Offset(tailIndex)
      BY DEF Offsets
    <3> QED
      BY <1>1, <1>4, <3>1 DEF Unfinished
  <2>5. 0 + Cardinality(Offsets) + Cardinality({}) = BlockSize
    <3>1. Cardinality(Offsets) = BlockSize /\ BlockSize \in Nat
      BY Todo, Ranges
    <3> QED
      BY <3>1, FS_EmptySet
  <2>6. \A f \in Entries : value[f] # None => value[f] \in Blocks
    BY <1>2 DEF QueueTypes
  <2>7. ASSUME NEW f \in Entries, value'[f] # None
        PROVE  emptied[value'[f]] + Cardinality(Unfinished(value[f])') + Cardinality(AtEmpty(value[f])')
                 = BlockSize
    <3>1. CASE f = e
      BY <1>3, <2>2, <2>3, <2>4, <2>5, <3>1
    <3>2. CASE f # e
      <4> PICK x \in Blocks : x = value[f] /\ value'[f] = x /\ x # None
        BY <1>3, <2>6, <2>7, <3>2
      <4>1. x # b
        BY <1>13 DEF InUse
      <4>2. emptied[x] + Cardinality(Unfinished(x)) + Cardinality(AtEmpty(x)) = BlockSize
        BY DEF QInv, CountsOK
      <4> QED
        BY <2>1, <2>2, <4>1, <4>2
    <3> QED
      BY <3>1, <3>2
  <2> QED
    BY <1>1, <2>7 DEF CountsOK
<1> QED
  BY <1>5, <1>6, <1>8, <1>11, <1>12, <1>14, <1>16, <1>17, <1>18 DEF QInv

(* The tail passes the element, that is then in the queue.                 *)
LEMMA TailMoves ==
  ASSUME QueueTypes, LengthOK, Started, tailIndex' = Next(tailIndex), UNCHANGED headIndex
  PROVE  /\ Length' = Length + 1 /\ Length \in Nat
         /\ Length + (BlockSize - Offset(tailIndex)) < IndexMod \div 2
         /\ \A i \in Index : Queued(i)' <=> Queued(i) \/ i = tailIndex
<1>1. /\ tailIndex \in Index /\ headIndex \in Index /\ Length \in 0 .. IndexMod - 1
      /\ Length < IndexMod \div 2 /\ Length + (BlockSize - Offset(tailIndex)) < IndexMod \div 2
  BY CounterTypes DEF QueueTypes, LengthOK
<1>2. IndexMod \in Nat \ {0} /\ IndexMod = 2 * (IndexMod \div 2) /\ IndexMod \div 2 \in Nat
      /\ 0 \in 0 .. IndexMod
  BY Ranges
<1>3. Length < IndexMod - 1
  BY <1>1, <1>2
<1>4. Length' = Length + 1
  <2>1. Sub(Next(tailIndex), headIndex) = Length + 1
    BY <1>1, <1>3, SubNext DEF Length
  <2> QED
    BY <2>1 DEF Length, Sub
<1>5. ASSUME NEW i \in Index
      PROVE  Sub(i, headIndex) \in Int /\ (Sub(i, headIndex) = Length <=> i = tailIndex)
  <2> DEFINE x == Sub(i, headIndex)
  <2>1. x \in 0 .. IndexMod - 1 /\ (x = i - headIndex \/ x = i - headIndex + IndexMod)
    BY <1>1, <1>2, CircleFacts DEF Index
  <2>2. Length = tailIndex - headIndex \/ Length = tailIndex - headIndex + IndexMod
    BY <1>1, <1>2, CircleFacts DEF Length
  <2>3. i \in 0 .. IndexMod - 1 /\ tailIndex \in 0 .. IndexMod - 1 /\ headIndex \in 0 .. IndexMod - 1
    BY <1>1 DEF Index
  <2>4. i = tailIndex => x = Length
    BY DEF Length
  <2> HIDE DEF x
  <2>5. x = Length => i = tailIndex
    BY <1>1, <1>2, <2>1, <2>2, <2>3
  <2> QED
    BY <2>1, <2>4, <2>5 DEF x
<1>6. ASSUME NEW i \in Index PROVE Queued(i)' <=> Queued(i) \/ i = tailIndex
  <2>1. Queued(i)' <=> Sub(i, headIndex) < Length + 1
    BY <1>4 DEF Queued, Sub
  <2>2. Queued(i)' <=> Sub(i, headIndex) < Length \/ Sub(i, headIndex) = Length
    BY <1>1, <1>5, <2>1
  <2> QED
    BY <1>5, <2>2 DEF Queued
<1> QED
  BY <1>1, <1>4, <1>6

LEMMA CommitStep ==
  ASSUME QInv, Commit
  PROVE  QInv'
<1> PICK o \in Offsets, t \in Index, b \in Blocks :
      /\ t = tailIndex /\ o = Offset(t) /\ b = tailBlock /\ Started
      /\ key[Spot(0)] = Base(t) /\ value[Spot(0)] = b /\ b # None /\ Spot(0) \in Entries
      /\ slot[b][o] = t
  <2>1. /\ tailIndex \in Index /\ Started /\ Spot(0) \in Entries /\ enq.at = "commit"
        /\ tailBlock \in Blocks \union {None}
    BY Spots DEF Commit, Started, QInv, QueueTypes
  <2> QED
    BY <2>1, InBlocks DEF QInv, ProducerOK
<1>1. /\ enq.at = "commit" /\ enq'.at = "ready" /\ enq' = Ready /\ tailIndex' = Next(t)
      /\ UNCHANGED << tailBlock, headers, key, value, slot, emptied, free, consumerVars >>
      /\ UNCHANGED << headIndex, dequeueOptimisticCount, dequeueOvercommit, pc, mine >>
  BY DEF Commit, Ready, consumerVars, counters, Next
<1>2. /\ QueueTypes /\ EntriesOK /\ KeysOK /\ PlacesOK /\ CountersOK /\ LengthOK
      /\ BlockSize \in Nat \ {0, 1} /\ IndexMod \div 2 \in Nat /\ None \notin Index
      /\ Next(t) \in Index
  BY Ranges, NextFacts, QueueAssumption DEF QInv, CountersOK, Index
<1>3. /\ o < BlockSize - 1 =>
           Base(Next(t)) = Base(t) /\ Blk(Next(t)) = Blk(t) /\ Offset(Next(t)) = o + 1
      /\ o = BlockSize - 1 => Offset(Next(t)) = 0 /\ (Blk(Next(t)) - 1) % Wheel = Blk(t)
      /\ o \in Int /\ 0 <= o /\ o <= BlockSize - 1
  BY <1>2, NextIndex DEF Offsets
<1>4. /\ Started' <=> o < BlockSize - 1
      /\ InBlock /\ TopBlk' = TopBlk
  <2>1. Started' <=> Offset(Next(t)) # 0
    BY <1>1 DEF Started
  <2>2. Started' <=> o < BlockSize - 1
    BY <1>2, <1>3, <2>1
  <2>3. InBlock /\ TopBlk = Blk(t)
    BY DEF InBlock, TopBlk
  <2>4. InBlock' <=> Started'
    BY <1>1 DEF InBlock
  <2>5. TopBlk' = Blk(t)
    BY <1>1, <1>2, <1>3, <2>2, <2>4 DEF TopBlk, Blk
  <2> QED
    BY <2>2, <2>3, <2>5
<1>5. QueueTypes'
  BY <1>1, <1>2 DEF QueueTypes, Ready
<1>6. /\ Length' = Length + 1 /\ Length \in Nat /\ Length + (BlockSize - o) < IndexMod \div 2
      /\ \A i \in Index : Queued(i)' <=> Queued(i) \/ i = t
  BY <1>1, <1>2, TailMoves
<1>7. CountersOK'
  <2>1. LengthOK'
    <3>1. Length' < IndexMod \div 2
      BY <1>2, <1>3, <1>6
    <3>2. Started' => Length' + (BlockSize - Offset(Next(t))) < IndexMod \div 2
      BY <1>2, <1>3, <1>4, <1>6
    <3> QED
      BY <1>1, <3>1, <3>2 DEF LengthOK, Offset
  <2>2. Length' \in Int /\ Length <= Length'
    BY <1>6
  <2> QED
    BY <1>1, <1>2, <2>1, <2>2, ProducerCounters
<1>8. EntriesOK' /\ KeysOK'
  BY <1>1, <1>4, IndexSame DEF QInv, EntriesOK, Bijective, KeysOK, RightKey
<1>9. ProducerOK'
  <2>1. Started' => Base(tailIndex)' = Base(t)
    BY <1>1, <1>3, <1>4 DEF Base, Offset
  <2> QED
    BY <1>1, <2>1, IndexSame DEF ProducerOK, Inserting
<1>10. PlacesOK'
  <2>1. \A x : InUse(x)' = InUse(x) /\ ~ Entering(x)' /\ ~ Entering(x) /\ Bare(x)' = Bare(x)
    BY <1>1 DEF InUse, Entering, Bare
  <2>2. \A d \in Consumers, x \in Blocks : Leaving(d, x)' = Leaving(d, x)
    BY <1>1 DEF Leaving
  <2> QED
    BY <1>1, <1>2, <2>1, <2>2 DEF PlacesOK
<1>11. ElementsOK'
  <2>1. \A k : Found(k)' <=> Found(k)
    BY <1>1 DEF Found
  <2>2. Found(t)
    BY <1>2 DEF Found
  <2>3. \A k \in Index : Queued(k)' => Found(k)'
    BY <1>6, <2>1, <2>2 DEF QInv, ElementsOK
  <2>4. ASSUME NEW d \in Consumers, Holds(d)' PROVE Claimed(d)'
    <3> PICK k \in Index : k = mine[d].index
      BY <1>2, CounterTypes DEF Locals
    <3>1. Holds(d) /\ Claimed(d)
      BY <1>1, <2>4 DEF Holds, QInv, ElementsOK
    <3>2. Base(k) = Base(t) => Offset(k) < o
      BY <3>1 DEF Claimed, Within
    <3>3. k # t
      BY <1>3, <3>2
    <3>4. Within(k)'
      <4> SUFFICES ASSUME Started', Base(k) = Base(Next(t)) PROVE Offset(k) < Offset(Next(t))
        BY <1>1 DEF Within
      <4>1. Offset(k) < o /\ Offset(Next(t)) = o + 1 /\ Offset(k) \in Int
        BY <1>3, <1>4, <3>2, InBlocks DEF Offsets
      <4> QED
        BY <1>3, <4>1
    <3>5. Alone(d)'
      BY <1>1, <3>1 DEF Alone, Claimed, Holds
    <3> QED
      BY <1>1, <1>6, <2>1, <3>1, <3>3, <3>4, <3>5 DEF Claimed
  <2> QED
    BY <2>3, <2>4 DEF ElementsOK
<1>12. PathsOK'
  <2>1. \A c \in Consumers : KeyPath(c) => KeyPath(c)'
    BY <1>1, <1>2, <1>4, KeyPathStays
  <2> QED
    BY <1>1, <2>1, ProducerPaths DEF QInv
<1>13. CountsOK'
  <2>1. \A x \in Blocks : Unfinished(x)' = Unfinished(x)
    <3> TAKE x \in Blocks
    <3>1. CASE x # b
      BY <1>1, <3>1 DEF Unfinished
    <3>2. CASE x = b
      <4>1. ASSUME NEW p \in Offsets PROVE p \in Unfinished(b)' <=> p \in Unfinished(b)
        <5>1. p \in Unfinished(b) <=> slot[b][p] # None \/ p >= o
          BY DEF Unfinished
        <5>2. p \in Unfinished(b)' <=> slot[b][p] # None \/ (Started' /\ p >= Offset(Next(t)))
          BY <1>1 DEF Unfinished
        <5>3. p \in Int /\ p <= BlockSize - 1
          BY <1>2 DEF Offsets
        <5>4. CASE p = o
          BY <1>2, <5>1, <5>2, <5>4
        <5>5. CASE p # o
          BY <1>2, <1>3, <1>4, <5>1, <5>2, <5>3, <5>5
        <5> QED
          BY <5>4, <5>5
      <4>2. Unfinished(b)' \subseteq Offsets /\ Unfinished(b) \subseteq Offsets
        BY DEF Unfinished
      <4> QED
        BY <3>2, <4>1, <4>2
    <3> QED
      BY <3>1, <3>2
  <2>2. \A x : AtEmpty(x)' = AtEmpty(x)
    BY <1>1 DEF AtEmpty
  <2>3. \A f \in Entries : value[f] # None => value[f] \in Blocks
    BY <1>2 DEF QueueTypes
  <2> QED
    BY <1>1, <2>1, <2>2, <2>3 DEF QInv, CountsOK
<1> QED
  BY <1>5, <1>7, <1>8, <1>9, <1>10, <1>11, <1>12, <1>13 DEF QInv

(* The tail of the newest index moves by x positions, and with it the      *)
(* block that belongs there.                                               *)
LEMMA TailWritten ==
  ASSUME QueueTypes, NEW t \in 0 .. Size - 1,
         headers' = [headers EXCEPT ![blockIndex].tail = t]
  PROVE  /\ headers' \in Seq(BlockIndexes) /\ headers' # <<>>
         /\ blockIndex' = blockIndex /\ DOMAIN headers' = DOMAIN headers
         /\ \A h \in DOMAIN headers :
              /\ Positions(h)' = Positions(h) /\ headers'[h].index = headers[h].index
              /\ \A p : EntryAt(h, p)' = EntryAt(h, p)
         /\ Size' = Size /\ TailPos' = t
<1> PICK g \in DOMAIN headers : g = blockIndex
  BY Shape
<1>1. /\ headers \in Seq(BlockIndexes) /\ headers[g] \in BlockIndexes
      /\ DOMAIN headers = 1 .. blockIndex /\ blockIndex \in Nat \ {0}
  BY Shape DEF QueueTypes
<1> PICK r \in BlockIndexes : r = headers[g]
  BY <1>1
<1>2. PICK n \in Nat \ {0} : r \in [ tail : 0 .. n - 1, index : [1 .. n -> Entries] ]
  BY DEF BlockIndexes
<1>3. n = Size
  <2>1. r.index \in [1 .. n -> Entries]
    BY <1>2
  <2>2. r.index \in Seq(Entries) /\ Len(r.index) = n
    BY <2>1
  <2> QED
    BY <2>2 DEF Size, Positions
<1> DEFINE q == [r EXCEPT !.tail = t]
<1>4. q \in BlockIndexes /\ q.index = r.index /\ q.tail = t
  <2>1. q \in [ tail : 0 .. n - 1, index : [1 .. n -> Entries] ]
    BY <1>2, <1>3
  <2>2. q.index = r.index /\ q.tail = t
    BY <1>2
  <2> QED
    BY <2>1, <2>2 DEF BlockIndexes
<1>5. headers' = [headers EXCEPT ![g] = q]
  OBVIOUS
<1> HIDE DEF q
<1>6. headers' \in Seq(BlockIndexes) /\ Len(headers') = Len(headers) /\ headers' # <<>>
      /\ DOMAIN headers' = DOMAIN headers
  BY <1>1, <1>4, <1>5 DEF blockIndex
<1>7. /\ headers'[g] = q /\ \A h \in DOMAIN headers : h # g => headers'[h] = headers[h]
  BY <1>1, <1>5
<1>8. \A h \in DOMAIN headers : headers'[h].index = headers[h].index
  BY <1>4, <1>7
<1>9. blockIndex' = blockIndex
  BY <1>6 DEF blockIndex
<1>10. \A h \in DOMAIN headers : Positions(h)' = Positions(h) /\ \A p : EntryAt(h, p)' = EntryAt(h, p)
  BY <1>8 DEF Positions, EntryAt
<1>11. Size' = Size
  BY <1>9, <1>10 DEF Size
<1>12. TailPos' = t
  BY <1>4, <1>7, <1>9 DEF TailPos
<1> QED
  BY <1>6, <1>8, <1>9, <1>10, <1>11, <1>12

LEMMA Turned ==
  ASSUME QueueTypes, EntriesOK, UNCHANGED << key, value >>, NEW x \in Int,
         headers' = [headers EXCEPT ![blockIndex].tail = (TailPos + x) % Size],
         TopBlk' = (TopBlk + x) % Wheel
  PROVE  /\ headers' \in Seq(BlockIndexes) /\ headers' # <<>> /\ EntriesOK'
         /\ DOMAIN headers' = DOMAIN headers /\ Size' = Size /\ Size \in Nat \ {0}
         /\ \A h \in DOMAIN headers :
              Positions(h)' = Positions(h) /\ \A p : EntryAt(h, p)' = EntryAt(h, p)
         /\ \A j \in Int : Spot(j)' = Spot(j - x) /\ Spot(j) \in Entries
         /\ \A j \in Int : RightKey(j)' <=> RightKey(j - x)
<1>1. /\ Size \in Nat \ {0} /\ TailPos \in Int /\ TailPos + x \in Int
      /\ \A j \in Int : Spot(j) \in Entries
  BY Spots
<1> PICK t \in 0 .. Size - 1 : t = (TailPos + x) % Size
  BY <1>1, Shift
<1>2. headers' = [headers EXCEPT ![blockIndex].tail = t]
  OBVIOUS
<1>3. /\ headers' \in Seq(BlockIndexes) /\ headers' # <<>>
      /\ blockIndex' = blockIndex /\ DOMAIN headers' = DOMAIN headers
      /\ \A h \in DOMAIN headers :
           /\ Positions(h)' = Positions(h) /\ headers'[h].index = headers[h].index
           /\ \A p : EntryAt(h, p)' = EntryAt(h, p)
      /\ Size' = Size /\ TailPos' = t
  BY <1>2, TailWritten
<1>4. blockIndex \in DOMAIN headers
  BY Shape
<1>5. ASSUME NEW j \in Int PROVE Spot(j)' = Spot(j - x)
  <2> PICK i \in Int : i = - j
    OBVIOUS
  <2>1. (t + i) % Size = ((TailPos + x) + i) % Size
    BY <1>1, Shift
  <2>2. t + i = t - j /\ (TailPos + x) + i = TailPos - (j - x)
    BY <1>1
  <2>3. (t - j) % Size = (TailPos - (j - x)) % Size
    BY <2>1, <2>2
  <2>4. Spot(j)' = EntryAt(blockIndex, (t - j) % Size)
    BY <1>3, <1>4 DEF Spot
  <2> QED
    BY <2>3, <2>4 DEF Spot
<1>6. ASSUME NEW j \in Int PROVE RightKey(j)' <=> RightKey(j - x)
  <2>0. TopBlk \in Int /\ Wheel \in Nat \ {0} /\ TopBlk + x \in Int
    BY TopBlkType
  <2> PICK i \in Int : i = - j
    OBVIOUS
  <2>1. (((TopBlk + x) % Wheel) + i) % Wheel = ((TopBlk + x) + i) % Wheel
    BY <2>0, Shift
  <2>2. (TopBlk + x) % Wheel \in Int
    BY <2>0, Shift
  <2>3. ((TopBlk + x) % Wheel) + i = ((TopBlk + x) % Wheel) - j /\ (TopBlk + x) + i = TopBlk - (j - x)
    BY <2>0, <2>2
  <2>4. (TopBlk' - j) % Wheel = (TopBlk - (j - x)) % Wheel
    BY <2>1, <2>3
  <2> QED
    BY <1>5, <2>4 DEF RightKey
<1>7. EntriesOK'
  <2>1. headers'[blockIndex'].index = headers[blockIndex].index /\ Size' = Size /\ Bijective
    BY <1>3, <1>4 DEF EntriesOK
  <2>2. Bijective'
    BY <2>1 DEF Bijective
  <2> QED
    BY <1>3, <2>2 DEF EntriesOK
<1> QED
  BY <1>1, <1>3, <1>5, <1>6, <1>7

LEMMA KeyPathTurns ==
  ASSUME QueueTypes, EntriesOK, UNCHANGED << key, value, pc, mine >>, NEW x \in Int,
         headers' = [headers EXCEPT ![blockIndex].tail = (TailPos + x) % Size],
         TopBlk' = (TopBlk + x) % Wheel,
         x = 1 \/ (x = -1 /\ InBlock /\ ~ InBlock'),
         \A s \in 0 .. Size - 1 : value[Spot(s)] # None => s + x \in 0 .. Size - 1,
         NEW c \in Consumers, KeyPath(c)
  PROVE  KeyPath(c)'
<1> SUFFICES ASSUME pc[c] = "key"
             PROVE  /\ mine[c].header \in DOMAIN headers'
                    /\ mine[c].pos \in 0 .. Positions(mine[c].header)' - 1
                    /\ \E j \in 0 .. Positions(mine[c].header)' - 1, s \in 0 .. Size' - 1 :
                         OnTheWay(c, j, s)'
  BY DEF KeyPath
<1>1. /\ mine[c].header \in DOMAIN headers /\ mine[c].pos \in 0 .. Positions(mine[c].header) - 1
  BY DEF KeyPath
<1>2. PICK j \in 0 .. Positions(mine[c].header) - 1, s \in 0 .. Size - 1 : OnTheWay(c, j, s)
  BY <1>1 DEF KeyPath
<1>3. /\ DOMAIN headers' = DOMAIN headers /\ Size' = Size /\ Size \in Nat \ {0}
      /\ \A h \in DOMAIN headers :
           Positions(h)' = Positions(h) /\ \A p : EntryAt(h, p)' = EntryAt(h, p)
      /\ \A i \in Int : Spot(i)' = Spot(i - x)
      /\ \A i \in Int : RightKey(i)' <=> RightKey(i - x)
  BY Turned
<1>4. Positions(mine[c].header) \in Nat \ {0} /\ j \in Int /\ s \in Int
  <2>1. Positions(mine[c].header) \in Nat \ {0}
    BY <1>1, Shape
  <2> QED
    BY <1>3, <2>1
<1>5. value[Spot(s)] # None
  BY <1>2 DEF OnTheWay
<1> PICK z \in 0 .. Size - 1 : z = s + x
  BY <1>5
<1>6. Spot(z)' = Spot(s) /\ Spot(z - j)' = Spot(s - j) /\ (RightKey(z - j)' <=> RightKey(s - j))
  <2>1. z \in Int /\ z - j \in Int /\ z - x = s /\ (z - j) - x = s - j
    BY <1>4
  <2> QED
    BY <1>3, <2>1
<1>7. j <= z + 1 /\ (InBlock' => j <= z)
  BY <1>2, <1>4 DEF OnTheWay
<1>8. OnTheWay(c, j, z)'
  <2>1. (mine[c].pos - j) % Positions(mine[c].header)' = (mine[c].pos - j) % Positions(mine[c].header)
    BY <1>1, <1>3
  <2> QED
    BY <1>1, <1>2, <1>3, <1>6, <1>7, <2>1 DEF OnTheWay
<1>9. Positions(mine[c].header)' = Positions(mine[c].header)
  BY <1>1, <1>3
<1> QED
  BY <1>1, <1>3, <1>8, <1>9

(* The new entry is published: it is the tail's, and all that is in use is *)
(* one position further behind.                                            *)
LEMMA PublishPosStep ==
  ASSUME QInv, PublishPos
  PROVE  QInv'
<1>1. /\ enq.at = "publish" /\ enq'.at = "block" /\ enq' = [enq EXCEPT !.at = "block"]
      /\ enq'.entry = enq.entry
      /\ headers' = [headers EXCEPT ![blockIndex].tail = (TailPos + 1) % Size]
      /\ UNCHANGED << tailIndex, tailBlock, key, value, slot, emptied, free, consumerVars >>
      /\ UNCHANGED << headIndex, dequeueOptimisticCount, dequeueOvercommit, pc, mine >>
  BY DEF PublishPos, NextPos, TailPos, Size, QInv, QueueTypes, consumerVars, counters
<1>2. /\ QueueTypes /\ EntriesOK /\ KeysOK /\ PlacesOK /\ CountersOK
      /\ Offset(tailIndex) = 0 /\ value[enq.entry] = None /\ key[enq.entry] = tailIndex
      /\ enq.entry \in Entries /\ enq.entry = EntryAt(blockIndex, NextPos)
  BY <1>1 DEF QInv, ProducerOK, Inserting
<1>3. /\ tailIndex \in Index /\ Blk(tailIndex) \in 0 .. Wheel - 1 /\ Wheel \in Nat \ {0}
  <2>1. tailIndex \in Index
    BY <1>2 DEF QueueTypes
  <2> QED
    BY <2>1, InBlocks, Ranges
<1>4. /\ ~ Started /\ ~ Started' /\ ~ InBlock /\ InBlock' /\ TopBlk' = (TopBlk + 1) % Wheel
      /\ TopBlk' = Blk(tailIndex)
  <2>1. ~ Started /\ ~ Started' /\ ~ InBlock /\ InBlock'
    BY <1>1, <1>2 DEF Started, InBlock
  <2>2. TopBlk = (Blk(tailIndex) - 1) % Wheel /\ TopBlk' = Blk(tailIndex)
    BY <1>1, <2>1 DEF TopBlk
  <2> PICK z \in Int : z = Blk(tailIndex) - 1
    BY <1>3
  <2>3. ((z % Wheel) + 1) % Wheel = (z + 1) % Wheel
    BY <1>3, Shift, 1 \in Int
  <2>4. z + 1 = Blk(tailIndex) /\ Blk(tailIndex) % Wheel = Blk(tailIndex)
    BY <1>3, Near, Blk(tailIndex) \in Int
  <2> QED
    BY <2>1, <2>2, <2>3, <2>4
<1>5. /\ headers' \in Seq(BlockIndexes) /\ headers' # <<>> /\ EntriesOK'
      /\ DOMAIN headers' = DOMAIN headers /\ Size' = Size /\ Size \in Nat \ {0}
      /\ \A j \in Int : Spot(j)' = Spot(j - 1) /\ Spot(j) \in Entries
      /\ \A j \in Int : RightKey(j)' <=> RightKey(j - 1)
  BY <1>1, <1>2, <1>4, Turned, 1 \in Int
<1>6. enq.entry = Spot(-1) /\ Spot(0)' = enq.entry /\ Spot(Size - 1) = enq.entry
  <2>1. TailPos - (-1) = TailPos + 1 /\ 0 - 1 = -1 /\ 0 \in Int /\ -1 \in Int
    BY <1>2, Spots
  <2>2. enq.entry = Spot(-1)
    BY <1>2, <2>1 DEF Spot, NextPos, TailPos, Size
  <2>3. Spot(-1 + Size) = Spot(-1) /\ -1 + Size = Size - 1
    BY <1>2, <1>5, <2>1, Spots
  <2> QED
    BY <1>5, <2>1, <2>2, <2>3
<1>7. QueueTypes'
  BY <1>1, <1>2, <1>5 DEF QueueTypes, Inserting
<1>8. CountersOK'
  <2>1. LengthOK'
    BY <1>1, <1>2 DEF CountersOK, LengthOK, Length
  <2> QED
    BY <1>1, <1>2, <2>1, SameLength
<1>9. RightKey(0)'
  <2>0. tailIndex # None
    BY <1>3, QueueAssumption DEF Index
  <2>1. tailIndex # None /\ Blk(tailIndex) - 0 = Blk(tailIndex)
        /\ Blk(tailIndex) % Wheel = Blk(tailIndex)
    BY <1>3, <2>0, Near, Blk(tailIndex) \in Int
  <2> QED
    BY <1>1, <1>2, <1>4, <1>6, <2>1 DEF RightKey
<1>10. KeysOK'
  <2>1. ASSUME NEW j \in 0 .. Size - 1, value[Spot(j)'] # None PROVE RightKey(j)'
    <3>1. CASE j = 0
      BY <1>9, <3>1
    <3>2. CASE j # 0
      <4>1. j - 1 \in 0 .. Size - 1 /\ j \in Int
        BY <1>5, <3>2
      <4> QED
        BY <1>2, <1>5, <2>1, <4>1 DEF KeysOK
    <3> QED
      BY <3>1, <3>2
  <2>2. (\E e \in Entries : value[e] # None) => RightKey(1)'
    BY <1>2, <1>5, 1 - 1 = 0, 1 \in Int DEF KeysOK
  <2> QED
    BY <1>1, <1>5, <1>9, <2>1, <2>2 DEF KeysOK
<1>11. ProducerOK'
  BY <1>1, <1>2, <1>4, <1>6 DEF ProducerOK, Inserting
<1>12. PlacesOK'
  <2>1. \A x : InUse(x)' = InUse(x) /\ ~ Entering(x)' /\ ~ Entering(x) /\ Bare(x)' = Bare(x)
    BY <1>1 DEF InUse, Entering, Bare
  <2>2. \A d \in Consumers, x \in Blocks : Leaving(d, x)' = Leaving(d, x)
    BY <1>1 DEF Leaving
  <2> QED
    BY <1>1, <1>2, <2>1, <2>2 DEF PlacesOK
<1>13. ElementsOK'
  <2>1. \A k \in Index : Found(k) => Found(k)'
    BY <1>1 DEF Found
  <2>2. \A d \in Consumers : Holds(d) => Within(mine[d].index)'
    BY <1>4 DEF Within
  <2> QED
    BY <1>1, <1>2, <2>1, <2>2, ProducerElements DEF QInv
<1>14. PathsOK'
  <2>1. ASSUME NEW s \in 0 .. Size - 1, value[Spot(s)] # None PROVE s + 1 \in 0 .. Size - 1
    <3>1. s # Size - 1
      BY <1>2, <1>6, <2>1
    <3> QED
      BY <1>5, <3>1
  <2>2. \A c \in Consumers : KeyPath(c) => KeyPath(c)'
    BY <1>1, <1>2, <1>4, <2>1, KeyPathTurns, 1 \in Int
  <2> QED
    BY <1>1, <2>2, ProducerPaths DEF QInv
<1>15. CountsOK'
  <2>1. \A x : Unfinished(x)' = Unfinished(x) /\ AtEmpty(x)' = AtEmpty(x)
    BY <1>1, <1>4 DEF Unfinished, AtEmpty
  <2> QED
    BY <1>1, <2>1 DEF QInv, CountsOK
<1> QED
  BY <1>5, <1>7, <1>8, <1>10, <1>11, <1>12, <1>13, <1>14, <1>15 DEF QInv

(* No block: the tail is what it was, and all is one position nearer again.*)
LEMMA NoBlockStep ==
  ASSUME QInv, NoBlock
  PROVE  QInv'
<1>1. /\ enq.at = "block" /\ enq'.at = "clear" /\ enq' = [enq EXCEPT !.at = "clear"]
      /\ enq'.entry = enq.entry
      /\ headers' = [headers EXCEPT ![blockIndex].tail = (TailPos + (-1)) % Size]
      /\ UNCHANGED << tailIndex, tailBlock, key, value, slot, emptied, free, consumerVars >>
      /\ UNCHANGED << headIndex, dequeueOptimisticCount, dequeueOvercommit, pc, mine >>
  <2>1. TailPos - 1 = TailPos + (-1)
    BY Spots DEF QInv
  <2>2. headers' = [headers EXCEPT ![blockIndex].tail = (TailPos - 1) % Size]
    BY DEF NoBlock, TailPos, Size
  <2> QED
    BY <2>1, <2>2 DEF NoBlock, QInv, QueueTypes, consumerVars, counters
<1>2. /\ QueueTypes /\ EntriesOK /\ KeysOK /\ PlacesOK /\ CountersOK
      /\ Offset(tailIndex) = 0 /\ value[enq.entry] = None
      /\ enq.entry \in Entries /\ enq.entry = Spot(0)
  BY <1>1 DEF QInv, ProducerOK, Inserting
<1>3. /\ ~ Started /\ ~ Started' /\ InBlock /\ ~ InBlock' /\ TopBlk' = (TopBlk + (-1)) % Wheel
  <2>1. ~ Started /\ ~ Started' /\ InBlock /\ ~ InBlock'
    BY <1>1, <1>2 DEF Started, InBlock
  <2>2. TopBlk = Blk(tailIndex) /\ TopBlk' = (Blk(tailIndex) - 1) % Wheel
    BY <1>1, <2>1 DEF TopBlk
  <2>3. TopBlk - 1 = TopBlk + (-1)
    BY <1>2, TopBlkType
  <2> QED
    BY <2>1, <2>2, <2>3
<1>4. /\ headers' \in Seq(BlockIndexes) /\ headers' # <<>> /\ EntriesOK'
      /\ DOMAIN headers' = DOMAIN headers /\ Size' = Size /\ Size \in Nat \ {0}
      /\ \A j \in Int : Spot(j)' = Spot(j - (-1)) /\ Spot(j) \in Entries
      /\ \A j \in Int : RightKey(j)' <=> RightKey(j - (-1))
  BY <1>1, <1>2, <1>3, Turned, -1 \in Int
<1>5. \A j \in Int : Spot(j)' = Spot(j + 1) /\ (RightKey(j)' <=> RightKey(j + 1))
  <2>1. \A j \in Int : j - (-1) = j + 1
    OBVIOUS
  <2> QED
    BY <1>4, <2>1
<1>6. Spot(Size) = Spot(0)
  <2>1. Spot(0 + Size) = Spot(0) /\ 0 + Size = Size
    BY <1>2, <1>4, Spots, 0 \in Int
  <2> QED
    BY <2>1
<1>7. QueueTypes'
  BY <1>1, <1>2, <1>4 DEF QueueTypes, Inserting
<1>8. CountersOK'
  <2>1. LengthOK'
    BY <1>1, <1>2, <1>3 DEF CountersOK, LengthOK, Length
  <2> QED
    BY <1>1, <1>2, <2>1, SameLength
<1>9. KeysOK'
  <2>1. ASSUME NEW j \in 0 .. Size - 1, value[Spot(j)'] # None PROVE RightKey(j)'
    <3>1. j + 1 # Size
      BY <1>2, <1>5, <1>6, <2>1, j \in Int
    <3>2. j + 1 \in 0 .. Size - 1 /\ j \in Int
      BY <1>4, <3>1
    <3> QED
      BY <1>2, <1>5, <2>1, <3>2 DEF KeysOK
  <2>2. (\E e \in Entries : value[e] # None) => RightKey(0)'
    BY <1>1, <1>2, <1>5, 0 + 1 = 1, 0 \in Int DEF KeysOK
  <2> QED
    BY <1>1, <1>4, <2>1, <2>2 DEF KeysOK
<1>10. ProducerOK'
  BY <1>1, <1>2, <1>3 DEF ProducerOK, Inserting
<1>11. PlacesOK'
  <2>1. \A x : InUse(x)' = InUse(x) /\ ~ Entering(x)' /\ ~ Entering(x) /\ Bare(x)' = Bare(x)
    BY <1>1 DEF InUse, Entering, Bare
  <2>2. \A d \in Consumers, x \in Blocks : Leaving(d, x)' = Leaving(d, x)
    BY <1>1 DEF Leaving
  <2> QED
    BY <1>1, <1>2, <2>1, <2>2 DEF PlacesOK
<1>12. ElementsOK'
  <2>1. \A k \in Index : Found(k) => Found(k)'
    BY <1>1 DEF Found
  <2>2. \A d \in Consumers : Holds(d) => Within(mine[d].index)'
    BY <1>3 DEF Within
  <2> QED
    BY <1>1, <1>2, <2>1, <2>2, ProducerElements DEF QInv
<1>13. PathsOK'
  <2>1. ASSUME NEW s \in 0 .. Size - 1, value[Spot(s)] # None PROVE s + (-1) \in 0 .. Size - 1
    <3>1. s # 0
      BY <1>2, <2>1
    <3> QED
      BY <1>4, <3>1
  <2>2. \A c \in Consumers : KeyPath(c) => KeyPath(c)'
    BY <1>1, <1>2, <1>3, <2>1, KeyPathTurns, -1 \in Int
  <2> QED
    BY <1>1, <2>2, ProducerPaths DEF QInv
<1>14. CountsOK'
  <2>1. \A x : Unfinished(x)' = Unfinished(x) /\ AtEmpty(x)' = AtEmpty(x)
    BY <1>1, <1>3 DEF Unfinished, AtEmpty
  <2> QED
    BY <1>1, <2>1 DEF QInv, CountsOK
<1> QED
  BY <1>4, <1>7, <1>8, <1>9, <1>10, <1>11, <1>12, <1>13, <1>14 DEF QInv

(* There are indices left: a block more, and the queue is still shorter    *)
(* than half the range.                                                    *)
LEMMA RoomLeft ==
  ASSUME QueueTypes, LengthOK, IndicesLeft
  PROVE  Length + BlockSize < IndexMod \div 2
<1>1. /\ tailIndex \in Index /\ headIndex \in Index /\ Length \in Int
      /\ Length < IndexMod \div 2
  BY CounterTypes DEF QueueTypes, LengthOK
<1>2. /\ IndexMod \in Nat \ {0} /\ IndexMod = 2 * (IndexMod \div 2) /\ IndexMod \div 2 \in Nat
      /\ BlockSize \in Nat \ {0, 1} /\ BlockSize <= IndexMod \div 2
      /\ 0 \in 0 .. IndexMod /\ BlockSize \in 0 .. IndexMod
  BY Ranges
<1> DEFINE y == (tailIndex + BlockSize) % IndexMod
           x == Sub(headIndex, y)
<1>3. y \in Index /\ (y = tailIndex + BlockSize \/ y = tailIndex + BlockSize - IndexMod)
  BY <1>1, <1>2, CircleFacts
<1>4. x \in 0 .. IndexMod - 1 /\ (x = headIndex - y \/ x = headIndex - y + IndexMod)
  BY <1>1, <1>2, <1>3, CircleFacts DEF Index
<1>5. Length \in 0 .. IndexMod - 1 /\ (Length = tailIndex - headIndex \/ Length = tailIndex - headIndex + IndexMod)
  BY <1>1, <1>2, CircleFacts DEF Length, Index
<1>6. /\ tailIndex \in 0 .. IndexMod - 1 /\ headIndex \in 0 .. IndexMod - 1 /\ y \in 0 .. IndexMod - 1
      /\ x > IndexMod \div 2
  BY <1>1, <1>3 DEF Index, IndicesLeft, circular_less_than
<1> HIDE DEF x, y
<1> QED
  BY <1>1, <1>2, <1>3, <1>4, <1>5, <1>6

(* An entry is free if it has no block: without a key it has none.         *)
LEMMA FreeMeans ==
  ASSUME QueueTypes, EntriesOK, KeysOK, NEW e \in Entries
  PROVE  EntryFree(e) <=> value[e] = None
<1>1. ASSUME key[e] = None PROVE value[e] = None
  <2> SUFFICES ASSUME value[e] # None PROVE FALSE
    OBVIOUS
  <2>1. PICK s \in 0 .. Size - 1 : e = Spot(s)
    BY LiveSpot
  <2>2. RightKey(s)
    BY <2>1 DEF KeysOK
  <2> QED
    BY <1>1, <2>1, <2>2 DEF RightKey
<1> QED
  BY <1>1 DEF EntryFree

LEMMA NextSpot ==
  ASSUME QueueTypes, EntriesOK
  PROVE  /\ EntryAt(blockIndex, NextPos) = Spot(-1) /\ Spot(-1) = Spot(Size - 1)
         /\ Spot(-1) \in 1 .. Size /\ Spot(-1) \in Entries
<1>1. Size \in Nat \ {0} /\ TailPos \in Int
  BY Spots
<1>2. TailPos - (-1) = TailPos + 1 /\ -1 + Size = Size - 1 /\ -1 \in Int
  BY <1>1
<1>3. EntryAt(blockIndex, NextPos) = Spot(-1)
  BY <1>2 DEF Spot, NextPos, TailPos, Size
<1>4. Spot(-1 + Size) = Spot(-1) /\ Spot(-1) \in 1 .. Size /\ Spot(-1) \in Entries
  BY <1>2, Spots
<1> QED
  BY <1>2, <1>3, <1>4

(* The first block of the index to be: where its entry is, nobody is.      *)
LEMMA InsertKeyStep ==
  ASSUME QInv, InsertKey
  PROVE  QInv'
<1> PICK e \in Entries, t \in Index :
      /\ e = EntryAt(blockIndex, NextPos) /\ t = tailIndex /\ Offset(t) = 0
      /\ e = Spot(-1) /\ e = Spot(Size - 1) /\ e \in 1 .. Size /\ value[e] = None
  <2>1. QueueTypes /\ EntriesOK /\ KeysOK /\ tailIndex \in Index
    BY DEF QInv, QueueTypes
  <2> QED
    BY <2>1, NextSpot, FreeMeans DEF InsertKey
<1>1. /\ enq.at = "ready" /\ enq'.at = "publish"
      /\ enq' = [enq EXCEPT !.at = "publish", !.entry = e] /\ enq'.entry = e
      /\ key' = [key EXCEPT ![e] = t] /\ IndicesLeft
      /\ UNCHANGED << tailIndex, tailBlock, headers, value, slot, emptied, free, consumerVars >>
      /\ UNCHANGED << headIndex, dequeueOptimisticCount, dequeueOvercommit, pc, mine >>
  BY DEF InsertKey, QInv, QueueTypes, consumerVars, counters
<1>2. /\ QueueTypes /\ EntriesOK /\ KeysOK /\ PlacesOK /\ CountersOK /\ LengthOK
      /\ key \in [Entries -> Index \union {None}] /\ e \in Nat
  BY DEF QInv, CountersOK, QueueTypes, Entries
<1>3. key'[e] = t /\ \A f \in Entries : f # e => key'[f] = key[f]
  BY <1>1, <1>2
<1>4. Blk(t) \in 0 .. Wheel - 1 /\ Wheel \in Nat \ {0} /\ t # None
  <2>1. t # None
    BY QueueAssumption DEF Index
  <2> QED
    BY <2>1, InBlocks, Ranges
<1>5. /\ ~ Started /\ ~ Started' /\ ~ InBlock /\ ~ InBlock' /\ TopBlk' = TopBlk
      /\ TopBlk = (Blk(t) - 1) % Wheel
  BY <1>1 DEF Started, InBlock, TopBlk
<1>6. QueueTypes'
  <2>1. key' \in [Entries -> Index \union {None}]
    BY <1>1, <1>2
  <2> QED
    BY <1>1, <1>2, <2>1 DEF QueueTypes, Inserting
<1>7. CountersOK'
  <2>1. LengthOK'
    <3>1. Length + BlockSize < IndexMod \div 2 /\ BlockSize - 0 = BlockSize
      BY <1>1, <1>2, RoomLeft, Ranges
    <3> QED
      BY <1>1, <1>2, <3>1 DEF LengthOK, Length
  <2> QED
    BY <1>1, <1>2, <2>1, SameLength
<1>8. Size \in Nat \ {0} /\ Size' = Size /\ \A j : Spot(j)' = Spot(j)
  BY <1>1, <1>2, IndexSame, Spots
<1>9. EntriesOK'
  <2>1. Bijective'
    BY <1>1, <1>2, IndexSame DEF EntriesOK, Bijective
  <2>2. \A f \in Entries : key'[f] # None => Offset(key'[f]) = 0
    BY <1>2, <1>3 DEF EntriesOK
  <2>3. \A f \in Entries : f > Size => key'[f] = None /\ value[f] = None
    BY <1>2, <1>3, <1>8 DEF EntriesOK
  <2> QED
    BY <1>1, <1>2, <1>8, <2>1, <2>2, <2>3, IndexSame DEF EntriesOK
<1>10. ASSUME NEW j \in -1 .. Size - 1, Spot(j) = e
       PROVE  j = -1 \/ j = Size - 1
  <2>1. CASE j - (-1) < Size
    BY <1>2, <1>8, <1>10, <2>1, Spots, j \in Int, -1 \in Int
  <2>2. CASE ~ (j - (-1) < Size)
    BY <1>8, <2>2
  <2> QED
    BY <2>1, <2>2
<1>11. \A j \in Int : Spot(j) # e => (RightKey(j)' <=> RightKey(j))
  <2>1. \A j \in Int : Spot(j) \in Entries
    BY <1>2, Spots
  <2> QED
    BY <1>3, <1>5, <1>8, <2>1 DEF RightKey
<1>12. \A f \in Entries : value[f] # None => f # e /\ key'[f] = key[f]
  BY <1>3
<1>13. KeysOK'
  <2>1. ASSUME NEW j \in 0 .. Size - 1, value[Spot(j)] # None PROVE RightKey(j)'
    BY <1>2, <1>8, <1>11, <2>1 DEF KeysOK
  <2>2. ASSUME NEW f \in Entries, value[f] # None PROVE RightKey(0)'
    <3>1. PICK s \in 0 .. Size - 1 : f = Spot(s)
      BY <1>2, <2>2, LiveSpot
    <3>2. Spot(0) # e
      <4> SUFFICES ASSUME Spot(0) = e PROVE FALSE
        OBVIOUS
      <4>1. 0 \in -1 .. Size - 1
        BY <1>8
      <4>2. 0 = Size - 1
        BY <1>8, <1>10, <4>1
      <4>3. s = 0
        BY <1>8, <4>2
      <4> QED
        BY <2>2, <3>1, <4>3
    <3>3. RightKey(0)
      BY <1>2, <2>2 DEF KeysOK
    <3> QED
      BY <1>11, <3>2, <3>3, 0 \in Int
  <2> QED
    BY <1>1, <1>8, <2>1, <2>2 DEF KeysOK
<1>14. ProducerOK'
  <2>1. EntryAt(blockIndex, NextPos)' = e
    BY <1>1, IndexSame
  <2> QED
    BY <1>1, <1>3, <1>5, <2>1 DEF ProducerOK, Inserting
<1>15. PlacesOK'
  <2>1. \A x : InUse(x)' = InUse(x) /\ ~ Entering(x)' /\ ~ Entering(x) /\ Bare(x)' = Bare(x)
    BY <1>1 DEF InUse, Entering, Bare
  <2>2. \A d \in Consumers, x \in Blocks : Leaving(d, x)' = Leaving(d, x)
    BY <1>1 DEF Leaving
  <2> QED
    BY <1>1, <1>2, <2>1, <2>2 DEF PlacesOK
<1>16. ElementsOK'
  <2>1. \A k \in Index : Found(k) => Found(k)'
    BY <1>1, <1>12 DEF Found
  <2>2. \A d \in Consumers : Holds(d) => Within(mine[d].index)'
    BY <1>5 DEF Within
  <2> QED
    BY <1>1, <1>2, <2>1, <2>2, ProducerElements DEF QInv
<1>17. RightKey(-1)'
  <2> PICK w \in Int, z \in Int : w = Blk(t) /\ z = w - 1
    BY <1>4
  <2>1. ((z % Wheel) + 1) % Wheel = (z + 1) % Wheel /\ z % Wheel \in Int
    <3>1. Wheel \in Nat \ {0}
      BY <1>4
    <3> QED
      BY <3>1, Shift, 1 \in Int
  <2>2. z + 1 = w /\ w % Wheel = w
    <3>1. Wheel \in Nat \ {0} /\ w \in 0 .. Wheel - 1
      BY <1>4
    <3>2. w % Wheel = w
      BY <3>1, Near
    <3> QED
      BY <3>2
  <2>3. TopBlk - (-1) = (z % Wheel) + 1
    BY <1>5, <2>1
  <2>4. (TopBlk' - (-1)) % Wheel = Blk(t)
    BY <1>5, <2>1, <2>2, <2>3
  <2> QED
    BY <1>3, <1>4, <1>8, <2>4 DEF RightKey
<1>18. ASSUME NEW c \in Consumers, KeyPath(c) PROVE KeyPath(c)'
  <2> SUFFICES ASSUME pc[c] = "key"
               PROVE  /\ mine[c].header \in DOMAIN headers
                      /\ mine[c].pos \in 0 .. Positions(mine[c].header)' - 1
                      /\ \E j \in 0 .. Positions(mine[c].header)' - 1, s \in 0 .. Size' - 1 :
                           OnTheWay(c, j, s)'
    BY <1>1 DEF KeyPath
  <2>1. /\ mine[c].header \in DOMAIN headers
        /\ mine[c].pos \in 0 .. Positions(mine[c].header) - 1
    BY <1>18 DEF KeyPath
  <2>2. PICK j \in 0 .. Positions(mine[c].header) - 1, s \in 0 .. Size - 1 : OnTheWay(c, j, s)
    BY <1>18 DEF KeyPath
  <2>3. j \in Nat /\ s \in Nat /\ s <= Size - 1
    <3>1. Positions(mine[c].header) \in Nat \ {0}
      BY <1>2, <2>1, Shape
    <3> QED
      BY <1>8, <3>1
  <2>4. j <= s + 1 /\ value[Spot(s)] # None /\ Spot(s) \in Entries /\ RightKey(s - j)
    <3>1. Spot(s) \in Entries
      BY <1>2, <2>3, Spots
    <3> QED
      BY <2>2, <3>1 DEF OnTheWay
  <2>5. RightKey(s - j)'
    <3>1. s - j \in -1 .. Size - 1 /\ s - j \in Int
      BY <1>8, <2>3, <2>4
    <3>2. CASE Spot(s - j) # e
      BY <1>11, <2>4, <3>1, <3>2
    <3>3. CASE Spot(s - j) = e /\ s - j = -1
      BY <1>17, <3>3
    <3>4. CASE Spot(s - j) = e /\ s - j = Size - 1
      <4>1. s = Size - 1
        BY <1>8, <2>3, <3>4
      <4> QED
        BY <2>4, <4>1
    <3> QED
      BY <1>10, <3>1, <3>2, <3>3, <3>4
  <2>6. OnTheWay(c, j, s)'
    BY <1>1, <1>5, <1>12, <2>1, <2>2, <2>4, <2>5, IndexSame DEF OnTheWay
  <2>7. Positions(mine[c].header)' = Positions(mine[c].header) /\ Size' = Size
    BY <1>1, IndexSame
  <2> QED
    BY <2>1, <2>6, <2>7
<1>19. PathsOK'
  BY <1>1, <1>12, <1>18, ProducerPaths DEF QInv
<1>20. CountsOK'
  <2>1. \A x : Unfinished(x)' = Unfinished(x) /\ AtEmpty(x)' = AtEmpty(x)
    BY <1>1, <1>5 DEF Unfinished, AtEmpty
  <2> QED
    BY <1>1, <2>1 DEF QInv, CountsOK
<1> QED
  BY <1>6, <1>7, <1>9, <1>13, <1>14, <1>15, <1>16, <1>19, <1>20 DEF QInv

(* The index is copied into one twice as large: what was j positions       *)
(* behind the tail still is, and the other positions have new entries.     *)
LEMMA Grown ==
  ASSUME QueueTypes, EntriesOK, MaxEntries % (2 * Size) = 0,
         headers' = Append(headers,
           [ tail |-> Size - 1,
             index |-> [ p \in 1 .. 2 * Size |-> IF p <= Size THEN Copied(p) ELSE p ] ])
  PROVE  /\ headers' \in Seq(BlockIndexes) /\ headers' # <<>>
         /\ \A h \in DOMAIN headers :
              h \in DOMAIN headers' /\ Positions(h)' = Positions(h)
              /\ \A p : EntryAt(h, p)' = EntryAt(h, p)
         /\ \A h \in DOMAIN headers' : MaxEntries % Positions(h)' = 0
         /\ Size \in Nat \ {0} /\ Size' = 2 * Size /\ 2 * Size <= Wheel /\ Bijective'
         /\ \A j \in 0 .. Size - 1 : Spot(j)' = Spot(j)
         /\ \A j \in Size .. 2 * Size - 1 : Spot(j)' > Size /\ Spot(j)' \in Entries
<1> PICK n \in Nat \ {0} : n = Size
  BY Spots
<1> DEFINE I == [ p \in 1 .. 2 * n |-> IF p <= n THEN Copied(p) ELSE p ]
           H == [ tail |-> n - 1, index |-> I ]
<1>1. /\ TailPos \in 0 .. n - 1 /\ TailPos \in Int
      /\ \A j \in Int : Spot(j) \in 1 .. n /\ Spot(j) \in Entries
      /\ \A e \in 1 .. n : \E j \in 0 .. n - 1 : e = Spot(j)
      /\ \A i, j \in Int : i - j < n /\ j - i < n /\ Spot(i) = Spot(j) => i = j
  BY Spots
<1>2. 2 * n \in Nat \ {0} /\ 2 * n <= MaxEntries /\ 2 * n <= Wheel /\ MaxEntries \in Nat
      /\ MaxEntries % (2 * n) = 0
  <2>1. 2 * n \in Nat \ {0} /\ MaxEntries % (2 * n) = 0
    OBVIOUS
  <2> PICK m \in Nat \ {0} : m = 2 * n
    BY <2>1
  <2>2. m <= MaxEntries /\ MaxEntries <= Wheel
    BY <2>1, Divides
  <2> QED
    BY <2>1, <2>2, Ranges
<1>3. ASSUME NEW p \in 1 .. n PROVE Copied(p) = Spot(n - p)
  <2> PICK x \in Int : x = TailPos - (n - p)
    BY <1>1
  <2>1. TailPos + p = x + n * 1
    BY <1>1
  <2>2. (x + n * 1) % n = x % n
    BY Circles, 1 \in Int
  <2>3. (TailPos + p) % n = (TailPos - (n - p)) % n
    BY <2>1, <2>2
  <2>4. Copied(p) = EntryAt(blockIndex, (TailPos + p) % n)
    BY DEF Copied, TailPos, Size
  <2> QED
    BY <2>3, <2>4 DEF Spot
<1>4. /\ \A p \in 1 .. n : p \in 1 .. 2 * n /\ I[p] = Spot(n - p)
      /\ \A p \in n + 1 .. 2 * n : p \in 1 .. 2 * n /\ I[p] = p
  BY <1>3
<1>5. I \in [1 .. 2 * n -> Entries]
  <2>1. \A p \in 1 .. n : n - p \in Int /\ Copied(p) \in Entries
    BY <1>1, <1>3
  <2>2. \A p \in 1 .. 2 * n : p > n => p \in Entries
    BY <1>2 DEF Entries
  <2>3. \A p \in 1 .. 2 * n : (IF p <= n THEN Copied(p) ELSE p) \in Entries
    BY <2>1, <2>2
  <2> QED
    BY <2>3
<1> HIDE DEF I
<1>6. H \in BlockIndexes /\ H.tail = n - 1 /\ H.index = I
  <2>1. n - 1 \in 0 .. 2 * n - 1
    OBVIOUS
  <2>2. H \in [ tail : 0 .. 2 * n - 1, index : [1 .. 2 * n -> Entries] ]
    BY <1>5, <2>1
  <2> QED
    BY <1>2, <2>2 DEF BlockIndexes
<1>7. I \in Seq(Entries) /\ Len(I) = 2 * n
  BY <1>2, <1>5
<1>8. headers' = Append(headers, H)
  BY DEF I
<1> HIDE DEF H
<1>9. headers \in Seq(BlockIndexes)
  BY DEF QueueTypes
<1>10. /\ headers' \in Seq(BlockIndexes) /\ Len(headers') = Len(headers) + 1
       /\ \A h \in 1 .. Len(headers) : headers'[h] = headers[h]
       /\ headers'[Len(headers) + 1] = H /\ Len(headers) \in Nat
  BY <1>6, <1>8, <1>9
<1>11. headers' # <<>> /\ DOMAIN headers' = 1 .. Len(headers) + 1
  BY <1>10
<1>12. \A h \in DOMAIN headers :
         /\ h \in DOMAIN headers' /\ headers'[h] = headers[h]
         /\ Positions(h)' = Positions(h) /\ \A p : EntryAt(h, p)' = EntryAt(h, p)
  <2>1. DOMAIN headers = 1 .. Len(headers)
    BY <1>9
  <2> QED
    BY <1>10, <1>11, <2>1 DEF Positions, EntryAt
<1>13. /\ blockIndex' = Len(headers) + 1 /\ headers'[blockIndex'] = H
       /\ Size' = 2 * n /\ TailPos' = n - 1
  <2>1. blockIndex' = Len(headers) + 1 /\ headers'[blockIndex'] = H
    BY <1>10 DEF blockIndex
  <2> QED
    BY <1>6, <1>7, <2>1 DEF Size, Positions, TailPos
<1>14. \A h \in DOMAIN headers' : MaxEntries % Positions(h)' = 0
  <2> SUFFICES ASSUME NEW h \in 1 .. Len(headers) + 1 PROVE MaxEntries % Positions(h)' = 0
    BY <1>11
  <2>1. CASE h = Len(headers) + 1
    BY <1>2, <1>13, <2>1 DEF Size
  <2>2. CASE h # Len(headers) + 1
    <3>1. h \in DOMAIN headers
      BY <1>9, <1>10, <2>2
    <3> QED
      BY <1>12, <3>1 DEF EntriesOK
  <2> QED
    BY <2>1, <2>2
<1>15. \A p : EntryAt(blockIndex, p)' = I[p + 1]
  BY <1>6, <1>13 DEF EntryAt
<1>16. ASSUME NEW j \in 0 .. n - 1 PROVE Spot(j)' = Spot(j)
  <2> PICK x \in Int : x = (n - 1) - j
    OBVIOUS
  <2>1. x \in 0 .. 2 * n - 1
    OBVIOUS
  <2>2. x % (2 * n) = x
    <3> PICK m \in Nat \ {0} : m = 2 * n
      BY <1>2
    <3>1. x \in 0 .. m - 1
      BY <2>1
    <3>2. x % m = x
      BY <3>1, Small
    <3> QED
      BY <3>2
  <2>3. Spot(j)' = I[x + 1]
    BY <1>13, <1>15, <2>2 DEF Spot
  <2>4. x + 1 \in 1 .. n /\ n - (x + 1) = j
    OBVIOUS
  <2> QED
    BY <1>4, <2>3, <2>4
<1>17. ASSUME NEW j \in n .. 2 * n - 1 PROVE Spot(j)' > n /\ Spot(j)' \in Entries
  <2> PICK x \in Int : x = (n - 1) - j
    OBVIOUS
  <2> PICK y \in Int : y = x + 2 * n
    OBVIOUS
  <2>1. y \in 0 .. 2 * n - 1 /\ y + 1 \in n + 1 .. 2 * n
    OBVIOUS
  <2>2. x % (2 * n) = y
    BY <1>2, <2>1, Near
  <2>3. Spot(j)' = I[y + 1]
    BY <1>13, <1>15, <2>2 DEF Spot
  <2>4. y + 1 \in Entries /\ y + 1 > n
    BY <1>2, <2>1 DEF Entries
  <2> QED
    BY <1>4, <2>1, <2>3, <2>4
<1>18. Bijective'
  <2>1. headers'[blockIndex'].index = I
    BY <1>6, <1>13
  <2>2. \A p \in 1 .. 2 * n : p \in 1 .. n \/ p \in n + 1 .. 2 * n
    OBVIOUS
  <2>3. \A p \in 1 .. n : n - p \in Int /\ I[p] \in 1 .. n
    <3> TAKE p \in 1 .. n
    <3>1. n - p \in Int
      OBVIOUS
    <3>2. Spot(n - p) \in 1 .. n
      BY <1>1, <3>1
    <3> QED
      BY <1>4, <3>1, <3>2
  <2>4. \A p \in 1 .. 2 * n : I[p] \in 1 .. 2 * n
    BY <1>4, <2>2, <2>3
  <2>5. ASSUME NEW e \in 1 .. 2 * n PROVE \E p \in 1 .. 2 * n : I[p] = e
    <3>1. CASE e \in n + 1 .. 2 * n
      BY <1>4, <3>1
    <3>2. CASE e \in 1 .. n
      <4>1. PICK j \in 0 .. n - 1 : e = Spot(j)
        BY <1>1, <3>2
      <4>2. n - j \in 1 .. n /\ n - (n - j) = j
        OBVIOUS
      <4> QED
        BY <1>4, <4>1, <4>2
    <3> QED
      BY <2>2, <3>1, <3>2
  <2>6. ASSUME NEW p \in 1 .. 2 * n, NEW q \in 1 .. 2 * n, I[p] = I[q] PROVE p = q
    <3>1. CASE p \in 1 .. n /\ q \in 1 .. n
      <4>1. Spot(n - p) = Spot(n - q) /\ n - p \in Int /\ n - q \in Int
        BY <1>4, <2>6, <3>1
      <4>2. (n - p) - (n - q) < n /\ (n - q) - (n - p) < n
        BY <3>1
      <4>3. n - p = n - q
        BY <1>1, <4>1, <4>2
      <4> QED
        BY <4>3
    <3>2. CASE p \in n + 1 .. 2 * n /\ q \in n + 1 .. 2 * n
      BY <1>4, <2>6, <3>2
    <3>3. CASE p \in 1 .. n /\ q \in n + 1 .. 2 * n
      BY <1>4, <2>3, <2>6, <3>3
    <3>4. CASE q \in 1 .. n /\ p \in n + 1 .. 2 * n
      BY <1>4, <2>3, <2>6, <3>4
    <3> QED
      BY <2>2, <3>1, <3>2, <3>3, <3>4
  <2> PICK m \in Nat \ {0} : m = 2 * n
    BY <1>2
  <2>7. Size' = m
    BY <1>13
  <2>8. \A p \in 1 .. m : I[p] \in 1 .. m
    BY <2>4
  <2>9. \A e \in 1 .. m : \E p \in 1 .. m : I[p] = e
    BY <2>5
  <2>10. \A p, q \in 1 .. m : I[p] = I[q] => p = q
    BY <2>6
  <2>11. \A p \in 1 .. Size' : headers'[blockIndex'].index[p] \in 1 .. Size'
    BY <2>1, <2>7, <2>8
  <2>12. \A e \in 1 .. Size' : \E p \in 1 .. Size' : headers'[blockIndex'].index[p] = e
    BY <2>1, <2>7, <2>9
  <2>13. \A p, q \in 1 .. Size' :
          headers'[blockIndex'].index[p] = headers'[blockIndex'].index[q] => p = q
    <3> SUFFICES ASSUME NEW p \in 1 .. m, NEW q \in 1 .. m,
                        headers'[blockIndex'].index[p] = headers'[blockIndex'].index[q]
                 PROVE  p = q
      BY <2>7
    <3>1. I[p] = I[q]
      BY <2>1
    <3> QED
      BY <2>10, <3>1
  <2> QED
    BY <2>11, <2>12, <2>13 DEF Bijective
<1> QED
  BY <1>2, <1>10, <1>11, <1>12, <1>13, <1>14, <1>16, <1>17, <1>18

LEMMA NewBlockIndexStep ==
  ASSUME QInv, new_block_index
  PROVE  QInv'
<1>1. /\ enq.at = "ready" /\ Offset(tailIndex) = 0
      /\ ~ EntryFree(EntryAt(blockIndex, NextPos)) /\ MaxEntries % (2 * Size) = 0
      /\ headers' = Append(headers,
           [ tail |-> Size - 1,
             index |-> [ p \in 1 .. 2 * Size |-> IF p <= Size THEN Copied(p) ELSE p ] ])
      /\ UNCHANGED << tailIndex, tailBlock, key, value, slot, emptied, free, enq, consumerVars >>
      /\ UNCHANGED << headIndex, dequeueOptimisticCount, dequeueOvercommit, pc, mine >>
  BY DEF new_block_index, Size, consumerVars, counters
<1>2. QueueTypes /\ EntriesOK /\ KeysOK /\ PlacesOK /\ CountersOK
  BY DEF QInv
<1> PICK n \in Nat \ {0} : n = Size
  BY <1>2, Spots
<1>3. /\ headers' \in Seq(BlockIndexes) /\ headers' # <<>>
      /\ \A h \in DOMAIN headers :
           h \in DOMAIN headers' /\ Positions(h)' = Positions(h)
           /\ \A p : EntryAt(h, p)' = EntryAt(h, p)
      /\ \A h \in DOMAIN headers' : MaxEntries % Positions(h)' = 0
      /\ Size' = 2 * n /\ 2 * n <= Wheel /\ Bijective'
      /\ \A j \in 0 .. n - 1 : Spot(j)' = Spot(j)
      /\ \A j \in n .. 2 * n - 1 : Spot(j)' > n /\ Spot(j)' \in Entries
  BY <1>1, <1>2, Grown
<1>4. ~ Started /\ ~ Started' /\ ~ InBlock /\ ~ InBlock' /\ TopBlk' = TopBlk
  BY <1>1 DEF Started, InBlock, TopBlk
<1>5. QueueTypes'
  BY <1>1, <1>2, <1>3 DEF QueueTypes
<1>6. CountersOK'
  <2>1. LengthOK'
    BY <1>1, <1>2, <1>4 DEF CountersOK, LengthOK, Length
  <2> QED
    BY <1>1, <1>2, <2>1, SameLength
<1>7. EntriesOK'
  <2>1. ASSUME NEW e \in Entries, e > 2 * n PROVE key[e] = None /\ value[e] = None
    <3>1. e \in Int /\ e > n
      BY <2>1 DEF Entries
    <3> QED
      BY <1>2, <3>1 DEF EntriesOK
  <2> QED
    BY <1>1, <1>2, <1>3, <2>1 DEF EntriesOK
<1>8. \A j \in 0 .. n - 1 : RightKey(j)' <=> RightKey(j)
  BY <1>1, <1>3, <1>4 DEF RightKey
<1>9. \A j \in Int : Spot(j) \in Entries
  BY <1>2, Spots
<1>11. KeysOK'
  <2>1. ASSUME NEW j \in 0 .. 2 * n - 1, value[Spot(j)'] # None PROVE RightKey(j)'
    <3>1. CASE j \in 0 .. n - 1
      BY <1>2, <1>3, <1>8, <2>1, <3>1 DEF KeysOK
    <3>2. CASE j \in n .. 2 * n - 1
      BY <1>2, <1>3, <2>1, <3>2 DEF EntriesOK
    <3> QED
      BY <3>1, <3>2
  <2>2. (\E e \in Entries : value[e] # None) => RightKey(0)'
    BY <1>2, <1>8, 0 \in 0 .. n - 1 DEF KeysOK
  <2> QED
    BY <1>1, <1>3, <2>1, <2>2 DEF KeysOK
<1>12. ProducerOK'
  BY <1>1, <1>4 DEF ProducerOK, Inserting
<1>13. PlacesOK'
  <2>1. \A x : InUse(x)' = InUse(x) /\ ~ Entering(x)' /\ ~ Entering(x) /\ Bare(x)' = Bare(x)
    BY <1>1 DEF InUse, Entering, Bare
  <2>2. \A d \in Consumers, x \in Blocks : Leaving(d, x)' = Leaving(d, x)
    BY <1>1 DEF Leaving
  <2> QED
    BY <1>1, <1>2, <2>1, <2>2 DEF PlacesOK
<1>14. ElementsOK'
  <2>1. \A k \in Index : Found(k) => Found(k)'
    BY <1>1 DEF Found
  <2>2. \A d \in Consumers : Holds(d) => Within(mine[d].index)'
    BY <1>4 DEF Within
  <2> QED
    BY <1>1, <1>2, <2>1, <2>2, ProducerElements DEF QInv
<1>15. ~ RightKey(-1)
  <2> SUFFICES ASSUME RightKey(-1) PROVE FALSE
    OBVIOUS
  <2>1. value[Spot(n - 1)] # None /\ Spot(-1) = Spot(n - 1)
    BY <1>1, <1>2, NextSpot, FreeMeans
  <2>2. RightKey(n - 1)
    BY <1>2, <2>1 DEF KeysOK
  <2>3. (TopBlk - (-1)) % Wheel = (TopBlk - (n - 1)) % Wheel
    BY <2>1, <2>2 DEF RightKey
  <2>4. TopBlk \in Int /\ Wheel \in Nat \ {0}
    BY <1>2, TopBlkType
  <2> PICK x \in Int, y \in Int : x = TopBlk - (-1) /\ y = TopBlk - (n - 1)
    BY <2>4
  <2>5. x % Wheel = y % Wheel /\ x - y < Wheel /\ y - x < Wheel /\ x # y
    BY <1>3, <2>3, <2>4
  <2> QED
    BY <2>4, <2>5, SameRemainder
<1>16. ASSUME NEW c \in Consumers, KeyPath(c) PROVE KeyPath(c)'
  <2> SUFFICES ASSUME pc[c] = "key"
               PROVE  /\ mine[c].header \in DOMAIN headers'
                      /\ mine[c].pos \in 0 .. Positions(mine[c].header)' - 1
                      /\ \E j \in 0 .. Positions(mine[c].header)' - 1, s \in 0 .. Size' - 1 :
                           OnTheWay(c, j, s)'
    BY <1>1 DEF KeyPath
  <2>1. /\ mine[c].header \in DOMAIN headers
        /\ mine[c].pos \in 0 .. Positions(mine[c].header) - 1
    BY <1>16 DEF KeyPath
  <2>2. PICK j \in 0 .. Positions(mine[c].header) - 1, s \in 0 .. n - 1 : OnTheWay(c, j, s)
    BY <1>16 DEF KeyPath
  <2>3. j \in Nat
    <3>1. Positions(mine[c].header) \in Nat \ {0}
      BY <1>2, <2>1, Shape
    <3> QED
      BY <3>1
  <2>4. j <= s + 1 /\ RightKey(s - j)
    BY <2>2 DEF OnTheWay
  <2>5. s - j \in 0 .. n - 1
    <3>1. s - j # -1
      BY <1>15, <2>4
    <3> QED
      BY <2>3, <2>4, <3>1
  <2>6. Spot(s)' = Spot(s) /\ Spot(s - j)' = Spot(s - j) /\ RightKey(s - j)'
    BY <1>3, <1>8, <2>4, <2>5
  <2>7. OnTheWay(c, j, s)'
    <3>1. /\ EntryAt(mine[c].header, mine[c].pos)' = EntryAt(mine[c].header, mine[c].pos)
          /\ EntryAt(mine[c].header, (mine[c].pos - j) % Positions(mine[c].header))'
               = EntryAt(mine[c].header, (mine[c].pos - j) % Positions(mine[c].header))
      BY <1>1, <1>3, <2>1
    <3> QED
      BY <1>1, <1>4, <2>2, <2>6, <3>1 DEF OnTheWay
  <2>8. Positions(mine[c].header)' = Positions(mine[c].header) /\ s \in 0 .. 2 * n - 1
    BY <1>1, <1>3, <2>1
  <2> QED
    BY <1>1, <1>3, <2>1, <2>7, <2>8
<1>17. PathsOK'
  BY <1>1, <1>16, ProducerPaths DEF QInv
<1>18. CountsOK'
  <2>1. \A x : Unfinished(x)' = Unfinished(x) /\ AtEmpty(x)' = AtEmpty(x)
    BY <1>1, <1>4 DEF Unfinished, AtEmpty
  <2> QED
    BY <1>1, <2>1 DEF QInv, CountsOK
<1> QED
  BY <1>5, <1>6, <1>7, <1>11, <1>12, <1>13, <1>14, <1>17, <1>18 DEF QInv

-----------------------------------------------------------------------------
(* The invariant.                                                          *)
LEMMA InitTypes ==
  ASSUME QueueInit
  PROVE  /\ QueueTypes /\ Size = IndexSize /\ blockIndex = 1 /\ ~ Started /\ Length = 0
         /\ headers[1].index = [ p \in 1 .. IndexSize |-> p ] /\ MaxEntries % IndexSize = 0
<1>1. /\ IndexSize \in Nat \ {0} /\ MaxEntries % IndexSize = 0 /\ MaxOvercommit \in Nat
  BY QueueAssumption, RangeAssumption
<1>2. IndexSize <= MaxEntries
  BY <1>1, Divides
<1> DEFINE I == [ p \in 1 .. IndexSize |-> p ]
           H == [ tail |-> IndexSize - 1, index |-> I ]
<1>3. I \in [1 .. IndexSize -> Entries] /\ IndexSize - 1 \in 0 .. IndexSize - 1
  <2>1. \A p \in 1 .. IndexSize : p \in Entries
    BY <1>1, <1>2, Ranges DEF Entries
  <2>2. IndexSize - 1 \in 0 .. IndexSize - 1
    BY <1>1
  <2> QED
    BY <2>1, <2>2
<1>4. H \in BlockIndexes
  <2>1. H \in [ tail : 0 .. IndexSize - 1, index : [1 .. IndexSize -> Entries] ]
    BY <1>3
  <2> QED
    BY <1>1, <2>1 DEF BlockIndexes
<1>5. headers = << H >>
  BY DEF QueueInit
<1>6. I \in Seq(Entries) /\ Len(I) = IndexSize
  BY <1>1, <1>3
<1>7. headers[1].index = I
  BY <1>5
<1> HIDE DEF I, H
<1>8. headers \in Seq(BlockIndexes) /\ headers # <<>> /\ blockIndex = 1
  BY <1>4, <1>5 DEF blockIndex
<1>9. Size = IndexSize
  BY <1>6, <1>7, <1>8 DEF Size, Positions
<1>10. 0 \in Index /\ NoLocals \in Locals
  BY Ranges DEF Index, NoLocals, Locals
<1>11. QueueTypes
  BY <1>1, <1>8, <1>10 DEF QueueInit, QueueTypes, ConsumerStages, Inserting, Ready, Offsets
<1>12. Offset(0) = 0 /\ Sub(0, 0) = 0
  <2>1. BlockSize \in Nat \ {0} /\ IndexMod \in Nat \ {0}
    BY Ranges
  <2>2. 0 % BlockSize = 0 /\ 0 % IndexMod = 0 /\ 0 - 0 = 0
    BY <2>1, Small
  <2> QED
    BY <2>2 DEF Offset, Sub
<1> QED
  BY <1>1, <1>7, <1>8, <1>9, <1>11, <1>12 DEF QueueInit, Started, Length, Ready, I

LEMMA InitCounters ==
  ASSUME QueueInit
  PROVE  CountersOK
<1>1. ~ Started /\ Length = 0 /\ enq.at = "ready"
  BY InitTypes DEF QueueInit, Ready
<1>2. LengthOK
  BY <1>1, Ranges DEF LengthOK
<1>3. \A c \in Consumers : pc[c] = "ready"
  BY DEF QueueInit
<1>4. Rechecking = {} /\ Limbo = {}
  BY <1>3 DEF Rechecking, Limbo
<1>5. Balance
  <2>1. Cardinality(Limbo) = 0
    BY <1>4, FS_EmptySet
  <2>2. IndexMod \in Nat \ {0}
    BY Ranges
  <2>3. 0 % IndexMod = 0 /\ 0 - 0 = 0 /\ 0 + 0 = 0
    BY <2>2, Small
  <2> QED
    BY <2>1, <2>3 DEF Balance, Sub, QueueInit
<1>6. TicketsOK
  <2>1. [c \in Consumers |-> 0] \in [Consumers -> 0 .. Cardinality(Consumers)]
    BY Waiting
  <2> QED
    BY <1>4, <2>1 DEF TicketsOK
<1> QED
  BY <1>2, <1>3, <1>5, <1>6 DEF CountersOK

LEMMA InitInv ==
  ASSUME QueueInit
  PROVE  QInv
<1>1. /\ QueueTypes /\ Size = IndexSize /\ blockIndex = 1 /\ ~ Started /\ Length = 0
      /\ headers[1].index = [ p \in 1 .. IndexSize |-> p ] /\ MaxEntries % IndexSize = 0
      /\ enq.at = "ready"
  BY InitTypes DEF QueueInit, Ready
<1>2. \A e \in Entries : key[e] = None /\ value[e] = None
  BY DEF QueueInit
<1>3. \A c \in Consumers : pc[c] = "ready"
  BY DEF QueueInit
<1>4. EntriesOK
  <2>1. DOMAIN headers = {1} /\ Positions(1) = IndexSize
    BY <1>1, Shape DEF Size
  <2>2. Bijective
    BY <1>1 DEF Bijective
  <2> QED
    BY <1>1, <1>2, <2>1, <2>2 DEF EntriesOK
<1>5. KeysOK
  <2>1. \A j \in 0 .. Size - 1 : Spot(j) \in Entries
    BY <1>1, <1>4, Spots
  <2> QED
    BY <1>2, <2>1 DEF KeysOK
<1>6. ProducerOK
  BY <1>1 DEF ProducerOK, Inserting
<1>7. PlacesOK
  <2>1. \A b \in Blocks : b \in free /\ ~ InUse(b) /\ Bare(b) /\ ~ Entering(b)
    BY <1>1, <1>2, QueueAssumption DEF QueueInit, InUse, Bare, Entering, Offsets
  <2>2. \A c \in Consumers, b \in Blocks : ~ Leaving(c, b)
    BY <1>3 DEF Leaving
  <2> QED
    BY <1>2, <2>1, <2>2 DEF PlacesOK
<1>8. ElementsOK
  <2>1. ASSUME NEW i \in Index PROVE ~ Queued(i)
    <3>1. headIndex \in Index
      BY <1>1 DEF QueueTypes
    <3>2. Sub(i, headIndex) \in 0 .. IndexMod - 1
      BY <3>1, Circle DEF Index
    <3> QED
      BY <1>1, <3>2, Ranges DEF Queued
  <2>2. \A c \in Consumers : ~ Holds(c)
    BY <1>3 DEF Holds
  <2> QED
    BY <2>1, <2>2 DEF ElementsOK
<1>9. PathsOK
  BY <1>3 DEF PathsOK, Path, KeyPath, ValuePath, BlockPath, LastPath, FreePath
<1>10. CountsOK
  BY <1>2 DEF CountsOK
<1> QED
  BY <1>1, <1>4, <1>5, <1>6, <1>7, <1>8, <1>9, <1>10, InitCounters DEF QInv

LEMMA IdleStep ==
  ASSUME QInv, UNCHANGED queueVars
  PROVE  QInv'
<1>1. /\ UNCHANGED << tailIndex, headIndex, dequeueOptimisticCount, dequeueOvercommit >>
      /\ UNCHANGED << tailBlock, headers, key, value, slot, emptied, free, pc, mine, enq >>
      /\ UNCHANGED << memory, blockVars, counters, consumerVars >>
  BY DEF queueVars, memory, blockVars, counters, consumerVars
<1>2. QueueTypes'
  BY <1>1 DEF QInv, QueueTypes
<1>3. CountersOK'
  BY <1>1, LengthStays, SameLength DEF QInv, CountersOK
<1>4. EntriesOK' /\ KeysOK' /\ ProducerOK'
  BY <1>1, IndexKept DEF QInv
<1>5. PlacesOK'
  <2>1. \A d \in Consumers, b \in Blocks : Leaving(d, b)' = Leaving(d, b)
    BY <1>1 DEF Leaving
  <2> QED
    BY <1>1, <2>1, PlacesKept DEF QInv
<1>6. ElementsOK'
  <2>1. \A d \in Consumers : Holds(d)' => Holds(d) /\ mine'[d].index = mine[d].index
    BY <1>1 DEF Holds
  <2> QED
    BY <1>1, <2>1, ElementsKept DEF QInv
<1>7. PathsOK' /\ CountsOK'
  BY <1>1, PathsKept, CountsKept DEF QInv
<1> QED
  BY <1>2, <1>3, <1>4, <1>5, <1>6, <1>7 DEF QInv

LEMMA DequeueStep ==
  ASSUME QInv, NEW c \in Consumers, dequeue(c)
  PROVE  QInv'
<1>1. QueueTypes /\ CountersOK
  BY DEF QInv
<1>2. CASE LoadOvercommit(c) \/ LooksEmpty(c) \/ CountIn(c) \/ FetchAddOptimistic(c)
           \/ TooLate(c) \/ Overcommit(c)
  <2>1. QueueTypes' /\ EarlyMove(c)
    BY <1>1, <1>2, EarlyTypes
  <2>2. CountersOK'
    BY <1>1, <1>2, LookingStep, FetchAddOptimisticStep, TooLateStep, OvercommitStep
  <2> QED
    BY <2>1, <2>2, EarlyStep DEF QInv
<1>3. CASE FetchAddHead(c)
  BY <1>3, ClaimStep
<1>4. CASE LoadHeader(c)
  BY <1>4, LoadHeaderStep
<1>5. CASE LoadKey(c)
  BY <1>5, LoadKeyStep
<1>6. CASE MoveOut(c)
  BY <1>6, MoveOutStep
<1>7. CASE SetEmpty(c)
  BY <1>7, SetEmptyStep
<1>8. CASE Unindex(c)
  BY <1>8, UnindexStep
<1>9. CASE AddToFreeList(c)
  BY <1>9, AddToFreeListStep
<1> QED
  BY <1>2, <1>3, <1>4, <1>5, <1>6, <1>7, <1>8, <1>9 DEF dequeue

LEMMA EnqueueStep ==
  ASSUME QInv, enqueue
  PROVE  QInv'
<1>1. CASE StoreElement
  BY <1>1, StoreElementStep
<1>2. CASE InsertKey
  BY <1>2, InsertKeyStep
<1>3. CASE new_block_index
  BY <1>3, NewBlockIndexStep
<1>4. CASE PublishPos
  BY <1>4, PublishPosStep
<1>5. CASE RequisitionBlock
  BY <1>5, RequisitionBlockStep
<1>6. CASE NoBlock
  BY <1>6, NoBlockStep
<1>7. CASE ClearEntry
  BY <1>7, ClearEntryStep
<1>8. CASE StoreValue
  BY <1>8, StoreValueStep
<1>9. CASE Commit
  BY <1>9, CommitStep
<1> QED
  BY <1>1, <1>2, <1>3, <1>4, <1>5, <1>6, <1>7, <1>8, <1>9 DEF enqueue

\* In every reachable state of enqueue by one thread and dequeue by any (concurrentqueue.h,
\* ImplicitProducer) the counters balance, a block in use is at the position of the
\* index that its distance from the tail says, every block is in one place with as much
\* left to do as it is short of elementsCompletelyDequeued, and every element in the
\* queue or claimed is in its slot.
THEOREM ProducerInvariance == QueueSpec => []QInv
<1>1. QueueInit => QInv
  BY InitInv
<1>2. QInv /\ [QueueNext]_queueVars => QInv'
  <2> SUFFICES ASSUME QInv, [QueueNext]_queueVars PROVE QInv'
    OBVIOUS
  <2>1. CASE enqueue
    BY <2>1, EnqueueStep
  <2>2. ASSUME NEW c \in Consumers, dequeue(c) PROVE QInv'
    BY <2>2, DequeueStep
  <2>3. CASE UNCHANGED queueVars
    BY <2>3, IdleStep
  <2> QED
    BY <2>1, <2>2, <2>3 DEF QueueNext
<1> QED
  BY <1>1, <1>2, PTL DEF QueueSpec

-----------------------------------------------------------------------------
\* get_block_index_index_for_index finds the entry of the consumer's block, and the
\* block is there with its element, whatever the producer and the other consumers have
\* done to the index since the consumer read its header, its tail and the key there.
THEOREM BlocksAreFound == QueueSpec => []FoundBlock
<1>1. QInv => FoundBlock
  <2> SUFFICES ASSUME QInv, NEW c \in Consumers, pc[c] = "value"
               PROVE  /\ key[mine[c].entry] = Base(mine[c].index)
                      /\ value[mine[c].entry] # None
                      /\ slot[value[mine[c].entry]][Offset(mine[c].index)] = mine[c].index
    BY DEF FoundBlock
  <2> QED
    BY AtTheEntry
<1> QED
  BY <1>1, ProducerInvariance, PTL

\* A block is in the pool, with no element in it, or with the one thread that takes it
\* or gives it back, or at one entry of the index: requisition_block, set_empty and
\* add_block_to_free_list neither lose a block nor hand it out twice.
THEOREM BlocksAreKept == QueueSpec => []BlocksKept
<1>1. QInv => BlocksKept
  <2> SUFFICES ASSUME QInv, NEW b \in Blocks
               PROVE  /\ Cardinality({ e \in Entries : value[e] = b })
                           + Cardinality({ c \in Consumers : pc[c] = "free" /\ mine[c].block = b })
                           + (IF b \in free THEN 1 ELSE 0)
                           + (IF enq.at = "value" /\ enq.block = b THEN 1 ELSE 0) = 1
                      /\ b \in free => \A o \in DOMAIN slot[b] : slot[b][o] = None
    BY DEF BlocksKept
  <2> DEFINE E == { e \in Entries : value[e] = b }
             C == { c \in Consumers : Leaving(c, b) }
  <2>1. /\ \A e, f \in Entries : value[e] = value[f] /\ value[e] # None => e = f
        /\ b \in free \/ InUse(b) \/ Entering(b) \/ \E c \in Consumers : Leaving(c, b)
        /\ b \in free => ~ InUse(b) /\ Bare(b)
        /\ Entering(b) => b \notin free /\ ~ InUse(b)
        /\ \A c \in Consumers : Leaving(c, b) =>
             /\ b \notin free /\ ~ InUse(b) /\ ~ Entering(b)
             /\ \A d \in Consumers : Leaving(d, b) => d = c
    BY DEF QInv, PlacesOK
  <2>2. b # None /\ DOMAIN slot[b] = Offsets
    BY QueueAssumption DEF QInv, QueueTypes
  <2>3. IF InUse(b) THEN Cardinality(E) = 1 ELSE Cardinality(E) = 0
    <3>1. CASE InUse(b)
      <4>1. PICK e \in Entries : value[e] = b
        BY <3>1 DEF InUse
      <4>2. E = {e}
        BY <2>1, <2>2, <4>1
      <4> QED
        BY <3>1, <4>2, FS_Singleton
    <3>2. CASE ~ InUse(b)
      <4>1. E = {}
        BY <3>2 DEF InUse
      <4> QED
        BY <3>2, <4>1, FS_EmptySet
    <3> QED
      BY <3>1, <3>2
  <2>4. IF \E c \in Consumers : Leaving(c, b) THEN Cardinality(C) = 1 ELSE Cardinality(C) = 0
    <3>1. ASSUME NEW c \in Consumers, Leaving(c, b) PROVE Cardinality(C) = 1
      <4>1. C = {c}
        BY <2>1, <3>1
      <4> QED
        BY <4>1, FS_Singleton
    <3>2. ASSUME \A c \in Consumers : ~ Leaving(c, b) PROVE Cardinality(C) = 0
      <4>1. C = {}
        BY <3>2
      <4> QED
        BY <4>1, FS_EmptySet
    <3> QED
      BY <3>1, <3>2
  <2>5. { c \in Consumers : pc[c] = "free" /\ mine[c].block = b } = C
    BY DEF Leaving
  <2>6. (IF enq.at = "value" /\ enq.block = b THEN 1 ELSE 0) = IF Entering(b) THEN 1 ELSE 0
    BY DEF Entering
  <2> PICK x, y : x = Cardinality(E) /\ y = Cardinality(C)
    OBVIOUS
  <2>7. x + y + (IF b \in free THEN 1 ELSE 0) + (IF Entering(b) THEN 1 ELSE 0) = 1
    BY <2>1, <2>3, <2>4
  <2> HIDE DEF E, C
  <2>8. b \in free => \A o \in DOMAIN slot[b] : slot[b][o] = None
    BY <2>1, <2>2 DEF Bare
  <2> QED
    BY <2>5, <2>6, <2>7, <2>8 DEF E
<1> QED
  BY <1>1, ProducerInvariance, PTL

-----------------------------------------------------------------------------
(* The queue seen from outside.                                            *)
Numbers(h, n) == [ k \in 1 .. n |-> (h + k - 1) % IndexMod ]

LEMMA Around ==
  ASSUME NEW h \in Index, NEW n \in 0 .. IndexMod - 1
  PROVE  (h + n) % IndexMod \in Index /\ Sub((h + n) % IndexMod, h) = n
<1> DEFINE x == (h + n) % IndexMod
           y == Sub(x, h)
<1>1. IndexMod \in Nat \ {0} /\ h \in 0 .. IndexMod - 1 /\ n \in 0 .. IndexMod
      /\ 0 \in 0 .. IndexMod
  BY Ranges DEF Index
<1>2. x \in Index /\ (x = h + n \/ x = h + n - IndexMod)
  BY <1>1, CircleFacts
<1>3. y \in Index /\ (y = x - h \/ y = x - h + IndexMod)
  BY <1>1, <1>2, CircleFacts
<1> HIDE DEF x, y
<1>4. x \in 0 .. IndexMod - 1 /\ y \in 0 .. IndexMod - 1
  BY <1>2, <1>3 DEF Index
<1>5. y = n
  BY <1>1, <1>2, <1>3, <1>4
<1> QED
  BY <1>2, <1>5 DEF x, y

(* The tail is behind the last.                                            *)
LEMMA BehindTheLast ==
  ASSUME NEW t \in Index, NEW h \in Index
  PROVE  (h + Sub(t, h)) % IndexMod = t
<1> DEFINE n == Sub(t, h)
           x == (h + n) % IndexMod
<1>1. IndexMod \in Nat \ {0} /\ h \in 0 .. IndexMod - 1 /\ t \in 0 .. IndexMod - 1
      /\ 0 \in 0 .. IndexMod
  BY Ranges DEF Index
<1>2. n \in Index /\ (n = t - h \/ n = t - h + IndexMod)
  BY <1>1, CircleFacts
<1>3. n \in 0 .. IndexMod - 1 /\ n \in 0 .. IndexMod
  BY <1>1, <1>2 DEF Index
<1> HIDE DEF n
<1>4. x \in Index /\ (x = h + n \/ x = h + n - IndexMod)
  BY <1>3, CircleFacts
<1> HIDE DEF x
<1>5. x \in 0 .. IndexMod - 1
  BY <1>4 DEF Index
<1>6. x = t
  BY <1>1, <1>2, <1>3, <1>4, <1>5
<1> QED
  BY <1>6 DEF x, n

LEMMA NumbersType ==
  ASSUME NEW h \in Index, NEW n \in Nat
  PROVE  /\ Numbers(h, n) \in Seq(Int) /\ Len(Numbers(h, n)) = n
         /\ \A k \in 1 .. n : Numbers(h, n)[k] = (h + k - 1) % IndexMod
<1>1. h \in Int /\ IndexMod \in Nat \ {0}
  BY Ranges DEF Index
<1>2. \A k \in 1 .. n : (h + k - 1) % IndexMod \in Int
  <2> TAKE k \in 1 .. n
  <2> PICK y \in Int : y = h + k - 1
    BY <1>1
  <2>1. y % IndexMod \in 0 .. IndexMod - 1
    BY <1>1, Near
  <2> QED
    BY <1>1, <2>1
<1>3. Numbers(h, n) \in [1 .. n -> Int]
  BY <1>2 DEF Numbers
<1> QED
  BY <1>3 DEF Numbers

LEMMA OneMore ==
  ASSUME NEW h \in Index, NEW n \in Nat
  PROVE  Numbers(h, n + 1) = Append(Numbers(h, n), (h + n) % IndexMod)
<1>1. h \in Int /\ IndexMod \in Nat \ {0} /\ n + 1 \in Nat
  BY Ranges DEF Index
<1>2. h + (n + 1) - 1 = h + n
  BY <1>1
<1> DEFINE f == Numbers(h, n)
           g == Numbers(h, n + 1)
           x == (h + n) % IndexMod
<1>3. /\ f \in Seq(Int) /\ Len(f) = n /\ g \in Seq(Int) /\ Len(g) = n + 1
      /\ \A k \in 1 .. n : g[k] = f[k]
      /\ g[n + 1] = x
  BY <1>1, <1>2, NumbersType
<1>4. x \in Int
  <2> PICK y \in Int : y = h + n
    BY <1>1
  <2>1. y % IndexMod \in 0 .. IndexMod - 1
    BY <1>1, Near
  <2> QED
    BY <1>1, <2>1
<1> HIDE DEF f, g, x
<1>5. /\ Append(f, x) \in Seq(Int) /\ Len(Append(f, x)) = n + 1
      /\ \A k \in 1 .. n : Append(f, x)[k] = f[k]
      /\ Append(f, x)[n + 1] = x
  BY <1>3, <1>4, AppendProperties
<1>6. \A k \in 1 .. n + 1 : g[k] = Append(f, x)[k]
  BY <1>3, <1>5
<1>7. g = Append(f, x)
  BY <1>3, <1>5, <1>6, SeqEqual
<1> QED
  BY <1>7 DEF f, g, x

LEMMA OneLess ==
  ASSUME NEW h \in Index, NEW n \in 1 .. IndexMod - 1
  PROVE  /\ Numbers(h, n) # <<>> /\ Head(Numbers(h, n)) = h
         /\ Tail(Numbers(h, n)) = Numbers(Next(h), n - 1)
<1>1. h \in 0 .. IndexMod - 1 /\ IndexMod \in Nat \ {0} /\ n \in Nat /\ n - 1 \in Nat
      /\ h % IndexMod = h /\ h + 1 - 1 = h /\ Next(h) \in Index
  <2>1. h \in 0 .. IndexMod - 1 /\ IndexMod \in Nat \ {0} /\ n \in Nat /\ n - 1 \in Nat
    BY Ranges DEF Index
  <2> QED
    BY <2>1, Small, NextFacts
<1> DEFINE f == Numbers(h, n)
           g == Numbers(Next(h), n - 1)
<1>2. /\ f \in Seq(Int) /\ Len(f) = n /\ f[1] = h
      /\ g \in Seq(Int) /\ Len(g) = n - 1
  <2>1. f \in Seq(Int) /\ Len(f) = n /\ \A k \in 1 .. n : f[k] = (h + k - 1) % IndexMod
    BY <1>1, NumbersType
  <2>2. g \in Seq(Int) /\ Len(g) = n - 1
    BY <1>1, NumbersType
  <2> HIDE DEF f, g
  <2>3. f[1] = (h + 1 - 1) % IndexMod
    BY <1>1, <2>1
  <2> QED
    BY <1>1, <2>1, <2>2, <2>3
<1>3. ASSUME NEW k \in 1 .. n - 1 PROVE f[k + 1] = g[k]
  <2> PICK x \in Index : x = Next(h) /\ (x = h + 1 \/ x = h + 1 - IndexMod)
    BY NextFacts
  <2> PICK j \in 0 .. IndexMod : j = k - 1
    BY <1>1
  <2> PICK i \in 0 .. IndexMod : i = k
    BY <1>1
  <2> DEFINE a == (x + j) % IndexMod
             b == (h + i) % IndexMod
  <2>1. a \in Index /\ (a = x + j \/ a = x + j - IndexMod)
    BY CircleFacts
  <2>2. b \in Index /\ (b = h + i \/ b = h + i - IndexMod)
    BY CircleFacts
  <2>3. x + k - 1 = x + j /\ h + (k + 1) - 1 = h + i
    BY <1>1 DEF Index
  <2>4. g[k] = a
    BY <1>1, <2>3, NumbersType
  <2>5. k + 1 \in 1 .. n /\ f[k + 1] = b
    BY <1>1, <2>3, NumbersType
  <2> HIDE DEF a, b, f, g
  <2>6. a \in 0 .. IndexMod - 1 /\ b \in 0 .. IndexMod - 1 /\ x \in 0 .. IndexMod - 1
    BY <2>1, <2>2 DEF Index
  <2>7. a = b
    BY <1>1, <2>1, <2>2, <2>6
  <2> QED
    BY <2>4, <2>5, <2>7
<1> HIDE DEF f, g
<1>4. f # <<>>
  BY <1>1, <1>2
<1>5. /\ Tail(f) \in Seq(Int) /\ Len(Tail(f)) = n - 1
      /\ \A k \in 1 .. n - 1 : Tail(f)[k] = f[k + 1]
  BY <1>2, <1>4, HeadTailProperties
<1>6. Head(f) = h
  BY <1>2, <1>4
<1>7. \A k \in 1 .. n - 1 : Tail(f)[k] = g[k]
  BY <1>3, <1>5
<1>8. Tail(f) = g
  BY <1>2, <1>5, <1>7, SeqEqual
<1> QED
  BY <1>4, <1>6, <1>8 DEF f, g

(* The elements in the queue are numbered from the head on, and a consumer *)
(* has the one that it claimed.                                            *)
Seen ==
  /\ Elements = Numbers(headIndex, Length)
  /\ Given = [ c \in Consumers |-> IF Holds(c) THEN mine[c].index ELSE None ]

LEMMA ElementFound ==
  ASSUME QInv, NEW i \in Index, Found(i)
  PROVE  ElementAt(i) = i
<1> DEFINE holders == { e \in Entries : key[e] = Base(i) /\ value[e] # None }
<1>1. PICK e \in Entries : /\ key[e] = Base(i) /\ value[e] # None
                           /\ slot[value[e]][Offset(i)] = i
  BY DEF Found
<1>2. \A f \in holders : f = e
  BY <1>1, OneEntry DEF QInv
<1>3. holders = {e}
  BY <1>1, <1>2
<1>4. holders # {} /\ (CHOOSE f \in holders : TRUE) = e
  BY <1>3
<1> QED
  BY <1>1, <1>4 DEF ElementAt

LEMMA IsSeen == QInv => Seen
<1> SUFFICES ASSUME QInv PROVE Seen
  OBVIOUS
<1>1. headIndex \in Index /\ Length \in 0 .. IndexMod - 1 /\ IndexMod \in Nat \ {0}
      /\ \A c \in Consumers : mine[c] \in Locals
  BY CounterTypes, Ranges DEF QInv, QueueTypes
<1>2. ASSUME NEW k \in 1 .. Length
      PROVE  ElementAt((headIndex + k - 1) % IndexMod) = (headIndex + k - 1) % IndexMod
  <2> PICK n \in 0 .. IndexMod - 1 : n = k - 1 /\ n < Length
    BY <1>1
  <2>1. headIndex + k - 1 = headIndex + n
    BY <1>1 DEF Index
  <2> PICK i \in Index : i = (headIndex + n) % IndexMod /\ Sub(i, headIndex) = n
    BY <1>1, Around
  <2>2. Queued(i)
    BY DEF Queued
  <2>3. ElementAt(i) = i
    BY <2>2, ElementFound DEF QInv, ElementsOK
  <2> QED
    BY <2>1, <2>3
<1>3. Elements = Numbers(headIndex, Length)
  BY <1>2 DEF Elements, Numbers, Length
<1>4. ASSUME NEW c \in Consumers, Holds(c) PROVE ElementAt(mine[c].index) = mine[c].index
  <2> PICK i \in Index : i = mine[c].index
    BY <1>1 DEF Locals
  <2>1. Found(i)
    BY <1>4 DEF QInv, ElementsOK, Claimed
  <2> QED
    BY <2>1, ElementFound
<1>5. \A c \in Consumers : (pc[c] \in {"header", "key", "value"}) <=> Holds(c)
  BY DEF Holds
<1> QED
  BY <1>3, <1>4, <1>5 DEF Seen, Given

LEMMA CommitImplements ==
  ASSUME QInv, Seen, Seen', Commit
  PROVE  Fifo!Enqueue
<1>1. /\ Started /\ tailIndex' = Next(tailIndex)
      /\ UNCHANGED << headIndex, pc, mine >>
  BY DEF Commit, Started, Next, consumerVars, counters
<1>2. QueueTypes /\ LengthOK /\ tailIndex \in Index /\ headIndex \in Index
  BY DEF QInv, CountersOK, QueueTypes
<1>3. Length' = Length + 1 /\ Length \in Nat
  BY <1>1, <1>2, TailMoves
<1> PICK h \in Index, t \in Index, n \in Nat : h = headIndex /\ t = tailIndex /\ n = Length
  BY <1>2, <1>3
<1>4. (h + n) % IndexMod = t
  BY BehindTheLast DEF Length
<1>5. Numbers(h, n + 1) = Append(Numbers(h, n), t)
  BY <1>4, OneMore
<1>6. Elements = Numbers(h, n) /\ Elements' = Numbers(h, n + 1)
  BY <1>1, <1>3 DEF Seen, Numbers
<1>7. Given' = Given
  BY <1>1 DEF Seen, Holds
<1>8. tailIndex' = (tailIndex + 1) % IndexMod
  BY DEF Commit
<1> QED
  BY <1>5, <1>6, <1>7, <1>8 DEF Fifo!Enqueue

LEMMA ClaimImplements ==
  ASSUME QInv, Seen, Seen', NEW c \in Consumers, FetchAddHead(c)
  PROVE  Fifo!Dequeue(c)
<1>1. /\ pc[c] = "recheck" /\ pc'[c] = "header" /\ headIndex' = Next(headIndex)
      /\ mine'[c].index = headIndex /\ UNCHANGED tailIndex
      /\ \A d \in Consumers : d # c => pc'[d] = pc[d] /\ mine'[d] = mine[d]
  BY DEF FetchAddHead, Goto, QInv, QueueTypes, memory, Next, NoLocals
<1>2. QueueTypes /\ CountersOK /\ headIndex \in Index /\ IndexMod \in Nat \ {0}
  BY Ranges DEF QInv, QueueTypes
<1>3. Length \in 1 .. IndexMod - 1 /\ Length' = Length - 1
  BY <1>2, FetchAddHeadStep, CounterTypes
<1> PICK h \in Index, n \in 1 .. IndexMod - 1 : h = headIndex /\ n = Length
  BY <1>2, <1>3
<1>4. /\ Numbers(h, n) # <<>> /\ Head(Numbers(h, n)) = h
      /\ Tail(Numbers(h, n)) = Numbers(Next(h), n - 1)
  BY OneLess
<1>5. Elements = Numbers(h, n) /\ Elements' = Numbers(Next(h), n - 1)
  BY <1>1, <1>3 DEF Seen, Numbers
<1>6. Given[c] = None /\ Given' = [Given EXCEPT ![c] = h]
  <2>1. ~ Holds(c) /\ Holds(c)' /\ mine'[c].index = h
    BY <1>1 DEF Holds
  <2>2. \A d \in Consumers : d # c => (Holds(d)' <=> Holds(d)) /\ mine'[d].index = mine[d].index
    BY <1>1 DEF Holds
  <2> QED
    BY <2>1, <2>2 DEF Seen
<1> QED
  BY <1>1, <1>4, <1>5, <1>6 DEF Fifo!Dequeue

LEMMA MoveOutImplements ==
  ASSUME QInv, Seen, Seen', NEW c \in Consumers, MoveOut(c)
  PROVE  Fifo!CarryOff(c)
<1>1. /\ pc[c] = "value" /\ pc'[c] = "empty" /\ UNCHANGED << headIndex, tailIndex >>
      /\ \A d \in Consumers : d # c => pc'[d] = pc[d] /\ mine'[d] = mine[d]
  BY DEF MoveOut, Goto, QInv, QueueTypes, memory, counters
<1>2. mine[c].index # None
  BY CounterTypes, QueueAssumption DEF QInv, Locals, Index
<1>3. Elements' = Elements
  <2>1. Length' = Length
    BY <1>1 DEF Length
  <2> QED
    BY <1>1, <2>1 DEF Seen, Numbers
<1>4. Given[c] # None /\ Given' = [Given EXCEPT ![c] = None]
  <2>1. Holds(c) /\ ~ Holds(c)'
    BY <1>1 DEF Holds
  <2>2. \A d \in Consumers : d # c => (Holds(d)' <=> Holds(d)) /\ mine'[d].index = mine[d].index
    BY <1>1 DEF Holds
  <2> QED
    BY <1>2, <2>1, <2>2 DEF Seen
<1> QED
  BY <1>1, <1>3, <1>4 DEF Fifo!CarryOff

(* All other steps are invisible.                                          *)
LEMMA Invisible ==
  ASSUME Seen, Seen', UNCHANGED << headIndex, tailIndex >>,
         \A c \in Consumers : /\ Holds(c)' <=> Holds(c)
                              /\ Holds(c) => mine'[c].index = mine[c].index
  PROVE  UNCHANGED Fifo!fifoVars
<1>1. Elements' = Elements
  <2>1. Length' = Length
    BY DEF Length
  <2> QED
    BY <2>1 DEF Seen, Numbers
<1>2. Given' = Given
  BY DEF Seen
<1> QED
  BY <1>1, <1>2 DEF Fifo!fifoVars

LEMMA QueueImplements ==
  ASSUME QInv, Seen, Seen', [QueueNext]_queueVars
  PROVE  [Fifo!FifoNext]_(Fifo!fifoVars)
<1>1. CASE Commit
  BY <1>1, CommitImplements DEF Fifo!FifoNext
<1>2. CASE (enqueue /\ ~ Commit) \/ UNCHANGED queueVars
  <2>1. UNCHANGED << headIndex, tailIndex, pc, mine >>
    BY <1>2 DEF enqueue, StoreElement, InsertKey, new_block_index, PublishPos, RequisitionBlock,
                NoBlock, ClearEntry, StoreValue, consumerVars, counters, queueVars
  <2> QED
    BY <2>1, Invisible DEF Holds
<1>3. ASSUME NEW c \in Consumers, dequeue(c)
      PROVE  [Fifo!FifoNext]_(Fifo!fifoVars)
  <2>1. CASE FetchAddHead(c)
    BY <2>1, ClaimImplements DEF Fifo!FifoNext
  <2>2. CASE MoveOut(c)
    BY <2>2, MoveOutImplements DEF Fifo!FifoNext
  <2>3. CASE ~ FetchAddHead(c) /\ ~ MoveOut(c)
    <3>1. pc \in [Consumers -> ConsumerStages] /\ mine \in [Consumers -> Locals]
      BY DEF QInv, QueueTypes
    <3>2. /\ UNCHANGED << headIndex, tailIndex >>
          /\ \A d \in Consumers : d # c => pc'[d] = pc[d] /\ mine'[d] = mine[d]
      BY <1>3, <2>3, <3>1 DEF dequeue, LoadOvercommit, LooksEmpty, CountIn, FetchAddOptimistic,
           TooLate, Overcommit, LoadHeader, LoadKey, SetEmpty, Unindex, AddToFreeList, Goto,
           memory, counters
    <3>3. /\ Holds(c)' <=> Holds(c)
          /\ Holds(c) => mine'[c].index = mine[c].index
      <4>1. CASE LoadHeader(c)
        BY <3>1, <4>1 DEF LoadHeader, Goto, Holds, Locals
      <4>2. CASE LoadKey(c)
        BY <3>1, <4>2 DEF LoadKey, Goto, Holds, Locals
      <4>3. CASE ~ LoadHeader(c) /\ ~ LoadKey(c)
        BY <1>3, <2>3, <3>1, <4>3 DEF dequeue, LoadOvercommit, LooksEmpty, CountIn,
             FetchAddOptimistic, TooLate, Overcommit, SetEmpty, Unindex, AddToFreeList, Goto, Holds
      <4> QED
        BY <4>1, <4>2, <4>3
    <3> QED
      BY <3>2, <3>3, Invisible DEF Holds
  <2> QED
    BY <2>1, <2>2, <2>3
<1> QED
  BY <1>1, <1>2, <1>3 DEF QueueNext

LEMMA StartsEmpty ==
  ASSUME QueueInit, Seen
  PROVE  Fifo!FifoInit
<1>1. Length = 0 /\ tailIndex = 0 /\ headIndex = 0 /\ \A c \in Consumers : ~ Holds(c)
  BY InitTypes DEF QueueInit, Holds
<1>2. Elements = <<>>
  <2>1. 0 \in Index /\ 0 \in Nat
    BY Ranges DEF Index
  <2>2. Numbers(0, 0) \in Seq(Int) /\ Len(Numbers(0, 0)) = 0
    BY <2>1, NumbersType
  <2> QED
    BY <1>1, <2>2 DEF Seen
<1>3. Given = [c \in Consumers |-> None]
  BY <1>1 DEF Seen
<1> QED
  BY <1>1, <1>2, <1>3 DEF Fifo!FifoInit

\* Seen from outside, enqueue and dequeue of the sub-queue are those of a FIFO queue:
\* whatever producer and consumers do between, the elements come out in the order in
\* which they went in, each to one consumer and once.
THEOREM QueueRefinement == QueueSpec => ImplementsFifo
<1>1. QueueInit /\ Seen => Fifo!FifoInit
  BY StartsEmpty
<1>2. QInv /\ Seen /\ Seen' /\ [QueueNext]_queueVars => [Fifo!FifoNext]_(Fifo!fifoVars)
  BY QueueImplements
<1>3. QInv => Seen
  BY IsSeen
<1> QED
  BY <1>1, <1>2, <1>3, ProducerInvariance, PTL DEF QueueSpec, ImplementsFifo, Fifo!FifoSpec

=============================================================================
