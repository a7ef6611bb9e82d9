---------------------------- MODULE QueueProofs ----------------------------
(***************************************************************************)
(* Proofs about the parts of the concurrent queue.  ImplicitProducerHash:  *)
(* a thread finds its own producer and no other thread's, in any number of *)
(* tables and under any hash.  BlockPool: a block is in one place, for any *)
(* number of threads and blocks.                                           *)
(***************************************************************************)
EXTENDS ImplicitProducerHash, BlockPool,
        FiniteSetTheorems, SequenceTheorems, WellFoundedInduction, TLAPS

-----------------------------------------------------------------------------
Probing == {"look", "copy", "reuse", "fill", "exit"}
Entering == {"grow", "allocate", "clear", "room", "recycle", "reuse", "fill"}
(* Where a call is that has its result.                                    *)
Finished == {"alive", "release", "uncount"}
HashStages == Probing \union Entering \union Finished \union {"dead", "older"}

Tables ==
  UNION { [ key : [0 .. n - 1 -> Ids \union {invalid_thread_id, invalid_thread_id2}],
            value : [0 .. n - 1 -> Nat] ] : n \in Nat \ {0} }

HashTypes ==
  /\ tables \in Seq(Tables) /\ implicitProducerHashCount \in Int
  /\ resizeInProgress \in BOOLEAN /\ inactive \in Seq(BOOLEAN)
  /\ started \in Nat /\ own \in [Ids -> Nat] /\ stage \in [Ids -> HashStages]
  /\ main \in [Ids -> Nat] /\ table \in [Ids -> Nat] /\ index \in [Ids -> Nat]
  /\ newCount \in [Ids -> Int] /\ producer \in [Ids -> Nat]

Slots(h) == DOMAIN tables[h].key

(* The slots of table h in the order in which a thread with id i visits    *)
(* them.                                                                   *)
Path(i, h, d) == (hash_thread_id[i] + d) % Capacity(h)

IsIn(i, h) == \E s \in Slots(h) : tables[h].key[s] = i

(* An id in a table has the producer of its thread, is there once, and no  *)
(* slot before it on its path is empty, so that the thread finds it.       *)
KeyOK(i, h, s) ==
  /\ own[i] # 0 /\ tables[h].value[s] = own[i]
  /\ \E d \in Nat : /\ s = Path(i, h, d)
                    /\ \A e \in 0 .. d - 1 :
                         tables[h].key[Path(i, h, e)] # invalid_thread_id
  /\ \A r \in Slots(h) : tables[h].key[r] = i => r = s

KeysOK ==
  \A i \in Ids, h \in DOMAIN tables : \A s \in Slots(h) :
    tables[h].key[s] = i => KeyOK(i, h, s)

(* A thread that probes has passed no empty slot and not its own.          *)
ProbeOK(i) ==
  /\ table[i] \in DOMAIN tables
  /\ \E d \in Nat : /\ Slot(i) = Path(i, table[i], d)
                    /\ \A e \in 0 .. d - 1 :
                         tables[table[i]].key[Path(i, table[i], e)]
                           \notin {i, invalid_thread_id}

(* Where a thread is says which tables do not have its id.                 *)
ThreadOK(i) ==
  /\ stage[i] \in Probing => ProbeOK(i)
  /\ stage[i] \in Entering \union {"look", "copy"} => main[i] \in DOMAIN tables
  /\ stage[i] \in Entering \union {"dead"} => own[i] = 0
  /\ stage[i] \in {"copy", "exit", "older"} => own[i] # 0
  /\ stage[i] = "look" =>
       table[i] <= main[i] /\ \A h \in DOMAIN tables : h > table[i] => ~ IsIn(i, h)
  /\ stage[i] = "copy" => producer[i] = own[i] /\ ~ IsIn(i, table[i])
  /\ stage[i] = "exit" => \A h \in DOMAIN tables : h > table[i] => ~ IsIn(i, h)
  /\ stage[i] = "older" =>
       table[i] \in DOMAIN tables /\ \A h \in DOMAIN tables : h >= table[i] => ~ IsIn(i, h)
  /\ stage[i] = "recycle" => producer[i] \in 0 .. Len(inactive)
  /\ stage[i] \in {"reuse", "fill"} => producer[i] \in 1 .. Len(inactive)
  /\ own[i] # 0 /\ stage[i] \notin {"exit", "older"} =>
       \E h \in DOMAIN tables : IsIn(i, h)

HasOK == \A i \in Ids : Has(i) \in 0 .. Len(inactive)

HInv ==
  /\ HashTypes /\ Len(tables) >= 1 /\ KeysOK /\ (\A i \in Ids : ThreadOK(i))
  /\ HasOK /\ OneThreadEach

-----------------------------------------------------------------------------
(* Remainders: one step on a path.                                         *)
LEMMA Remainder ==
  ASSUME NEW q \in Int, NEW n \in Nat \ {0}, NEW r \in 0 .. n - 1
  PROVE  (n * q + r) % n = r
OBVIOUS

LEMMA Division ==
  ASSUME NEW a \in Int, NEW n \in Int, n > 0
  PROVE  a = n * (a \div n) + (a % n)
BY SMTT(60)

LEMMA NextRemainder ==
  ASSUME NEW a \in Nat, NEW n \in Nat \ {0}
  PROVE  ((a % n) + 1) % n = (a + 1) % n
<1> DEFINE q == a \div n
           r == a % n
<1>1. q \in Int /\ r \in 0 .. n - 1
  OBVIOUS
<1>2. a = n * q + r
  BY Division
<1> HIDE DEF q, r
<1>3. CASE r + 1 < n
  <2>1. r + 1 \in 0 .. n - 1 /\ a + 1 = n * q + (r + 1)
    BY <1>1, <1>2, <1>3
  <2>2. (a + 1) % n = r + 1
    BY <1>1, <2>1, Remainder
  <2>3. (r + 1) % n = r + 1
    BY <1>1, <1>3
  <2> QED
    BY <2>2, <2>3 DEF r
<1>4. CASE r + 1 = n
  <2>1. q + 1 \in Int /\ 0 \in 0 .. n - 1
    BY <1>1
  <2>2. n * (q + 1) = n * q + n
    BY <1>1
  <2>3. a + 1 = n * (q + 1) + 0
    BY <1>1, <1>2, <1>4, <2>2
  <2>4. (a + 1) % n = 0
    BY <2>1, <2>3, Remainder
  <2>5. (r + 1) % n = 0
    BY <1>4
  <2> QED
    BY <2>4, <2>5 DEF r
<1> QED
  BY <1>1, <1>3, <1>4

(* The slots of a table.                                                   *)
LEMMA TableShape ==
  ASSUME HashTypes, NEW h \in DOMAIN tables
  PROVE  /\ Capacity(h) \in Nat \ {0} /\ Slots(h) = 0 .. Capacity(h) - 1
         /\ tables[h].key \in [Slots(h) -> Ids \union {invalid_thread_id, invalid_thread_id2}]
         /\ tables[h].value \in [Slots(h) -> Nat]
         /\ tables[h] = [ key |-> tables[h].key, value |-> tables[h].value ]
<1>1. tables[h] \in Tables
  BY LenProperties, ElementOfSeq DEF HashTypes
<1>2. PICK n \in Nat \ {0} :
        tables[h] \in [ key : [0 .. n - 1 -> Ids \union {invalid_thread_id, invalid_thread_id2}],
                        value : [0 .. n - 1 -> Nat] ]
  BY <1>1 DEF Tables
<1>3. Slots(h) = 0 .. n - 1
  BY <1>2 DEF Slots
<1>4. Capacity(h) = n
  BY <1>3, FS_Interval DEF Capacity, Slots
<1> QED
  BY <1>2, <1>3, <1>4

LEMMA PathInTable ==
  ASSUME HashTypes, NEW h \in DOMAIN tables, NEW i \in Ids, NEW d \in Nat
  PROVE  /\ Path(i, h, d) \in Slots(h)
         /\ (Path(i, h, d) + 1) % Capacity(h) = Path(i, h, d + 1)
         /\ Path(i, h, 0) = hash_thread_id[i] % Capacity(h)
<1>1. hash_thread_id[i] \in Nat /\ Capacity(h) \in Nat \ {0} /\ Slots(h) = 0 .. Capacity(h) - 1
  BY TableShape, HashAssumption
<1>2. hash_thread_id[i] + d \in Nat /\ hash_thread_id[i] + (d + 1) = (hash_thread_id[i] + d) + 1
      /\ hash_thread_id[i] + 0 = hash_thread_id[i]
  BY <1>1
<1>3. (hash_thread_id[i] + d) % Capacity(h) \in 0 .. Capacity(h) - 1
  BY <1>1, <1>2
<1> QED
  BY <1>1, <1>2, <1>3, NextRemainder DEF Path

(* What thread j sees at its place.                                        *)
LEMMA ProbeSees ==
  ASSUME HashTypes, NEW j \in Ids, ProbeOK(j)
  PROVE  /\ Slot(j) \in Slots(table[j]) /\ Slot(j) \in Nat
         /\ KeyThere(j) = tables[table[j]].key[Slot(j)]
         /\ KeyThere(j) \in Ids \union {invalid_thread_id, invalid_thread_id2}
<1>1. PICK d \in Nat : Slot(j) = Path(j, table[j], d)
  BY DEF ProbeOK
<1>2. table[j] \in DOMAIN tables
  BY DEF ProbeOK
<1>3. Slot(j) \in Slots(table[j])
  BY <1>1, <1>2, PathInTable
<1>4. /\ Slots(table[j]) = 0 .. Capacity(table[j]) - 1
      /\ tables[table[j]].key \in
           [Slots(table[j]) -> Ids \union {invalid_thread_id, invalid_thread_id2}]
  BY <1>2, TableShape
<1>5. Slot(j) \in Nat
  BY <1>3, <1>4
<1>6. KeyThere(j) = tables[table[j]].key[Slot(j)]
  BY DEF KeyThere
<1>7. KeyThere(j) \in Ids \union {invalid_thread_id, invalid_thread_id2}
  BY <1>3, <1>4, <1>6
<1> QED
  BY <1>3, <1>5, <1>6, <1>7

(* An empty slot on the path says that the id is not in the table.         *)
LEMMA NotFound ==
  ASSUME HashTypes, KeysOK, NEW j \in Ids, ProbeOK(j), KeyThere(j) = invalid_thread_id
  PROVE  ~ IsIn(j, table[j])
<1>1. SUFFICES ASSUME NEW s \in Slots(table[j]), tables[table[j]].key[s] = j
               PROVE  FALSE
  BY DEF IsIn
<1> DEFINE h == table[j]
<1>2. h \in DOMAIN tables
  BY DEF ProbeOK
<1>3. PICK d \in Nat : /\ Slot(j) = Path(j, h, d)
                       /\ \A e \in 0 .. d - 1 :
                            tables[h].key[Path(j, h, e)] \notin {j, invalid_thread_id}
  BY DEF ProbeOK
<1>4. PICK c \in Nat : /\ s = Path(j, h, c)
                       /\ \A e \in 0 .. c - 1 :
                            tables[h].key[Path(j, h, e)] # invalid_thread_id
  BY <1>1, <1>2 DEF KeysOK, KeyOK
<1>5. tables[h].key[Path(j, h, d)] = invalid_thread_id
  BY <1>3 DEF KeyThere
<1>6. tables[h].key[Path(j, h, c)] = j /\ j # invalid_thread_id
  BY <1>1, <1>4, HashAssumption
<1>7. CASE c < d
  BY <1>3, <1>6, <1>7
<1>8. CASE c = d
  BY <1>5, <1>6, <1>8
<1>9. CASE d < c
  BY <1>4, <1>5, <1>9
<1> QED
  BY <1>7, <1>8, <1>9

-----------------------------------------------------------------------------
(* What thread j may do to the tables: enter its id where no id is, leave  *)
(* a slot of its own to others, add an empty table.                        *)
Evolves(j) ==
  /\ tables' \in Seq(Tables) /\ Len(tables) <= Len(tables')
  /\ \A h \in DOMAIN tables :
       /\ DOMAIN tables'[h].key = DOMAIN tables[h].key
       /\ \A s \in Slots(h) :
            \/ /\ tables'[h].key[s] = tables[h].key[s]
               /\ tables'[h].value[s] = tables[h].value[s]
            \/ /\ tables[h].key[s] \notin Ids
               /\ tables'[h].key[s] = j
            \/ /\ tables[h].key[s] = j
               /\ tables'[h].key[s] = invalid_thread_id2
  /\ \A h \in DOMAIN tables' \ DOMAIN tables :
       \A s \in DOMAIN tables'[h].key : tables'[h].key[s] = invalid_thread_id

OnlyThread(j) ==
  /\ Len(inactive) <= Len(inactive')
  /\ \A i \in Ids \ {j} :
       /\ own'[i] = own[i] /\ stage'[i] = stage[i] /\ main'[i] = main[i]
       /\ table'[i] = table[i] /\ index'[i] = index[i] /\ producer'[i] = producer[i]

LEMMA Evolution ==
  ASSUME HashTypes, NEW j \in Ids, Evolves(j)
  PROVE  /\ DOMAIN tables = 1 .. Len(tables) /\ DOMAIN tables' = 1 .. Len(tables')
         /\ Len(tables) \in Nat /\ Len(tables') \in Nat
         /\ DOMAIN tables \subseteq DOMAIN tables'
         /\ \A h \in DOMAIN tables :
              /\ Slots(h)' = Slots(h) /\ Capacity(h)' = Capacity(h)
              /\ \A i, d : Path(i, h, d)' = Path(i, h, d)
              /\ \A s \in Slots(h) : tables[h].key[s] # invalid_thread_id =>
                                       tables'[h].key[s] # invalid_thread_id
              /\ \A i \in Ids \ {j} : \A s \in Slots(h) :
                   /\ tables'[h].key[s] = i <=> tables[h].key[s] = i
                   /\ tables[h].key[s] = i => tables'[h].value[s] = tables[h].value[s]
         /\ \A i \in Ids \ {j} :
              /\ \A h \in DOMAIN tables : IsIn(i, h)' <=> IsIn(i, h)
              /\ \A h \in DOMAIN tables' \ DOMAIN tables : ~ IsIn(i, h)'
<1>1. /\ DOMAIN tables = 1 .. Len(tables) /\ DOMAIN tables' = 1 .. Len(tables')
      /\ Len(tables) \in Nat /\ Len(tables') \in Nat
  BY LenProperties DEF HashTypes, Evolves
<1>2. DOMAIN tables \subseteq DOMAIN tables'
  BY <1>1 DEF Evolves
<1>3. ASSUME NEW h \in DOMAIN tables
      PROVE  /\ Slots(h)' = Slots(h) /\ Capacity(h)' = Capacity(h)
             /\ \A i, d : Path(i, h, d)' = Path(i, h, d)
  BY DEF Evolves, Slots, Capacity, Path
<1>4. ASSUME NEW h \in DOMAIN tables, NEW s \in Slots(h)
      PROVE  /\ tables[h].key[s] # invalid_thread_id => tables'[h].key[s] # invalid_thread_id
             /\ \A i \in Ids \ {j} :
                  /\ tables'[h].key[s] = i <=> tables[h].key[s] = i
                  /\ tables[h].key[s] = i => tables'[h].value[s] = tables[h].value[s]
  BY HashAssumption DEF Evolves
<1>5. ASSUME NEW i \in Ids \ {j}
      PROVE  /\ \A h \in DOMAIN tables : IsIn(i, h)' <=> IsIn(i, h)
             /\ \A h \in DOMAIN tables' \ DOMAIN tables : ~ IsIn(i, h)'
  <2>1. ASSUME NEW h \in DOMAIN tables PROVE IsIn(i, h)' <=> IsIn(i, h)
    BY <1>3, <1>4 DEF IsIn
  <2>2. ASSUME NEW h \in DOMAIN tables' \ DOMAIN tables PROVE ~ IsIn(i, h)'
    BY HashAssumption DEF Evolves, IsIn, Slots
  <2> QED
    BY <2>1, <2>2
<1> QED
  BY <1>1, <1>2, <1>3, <1>4, <1>5

(* A step of thread j does not disturb another thread.                     *)
LEMMA OthersStay ==
  ASSUME HashTypes, NEW j \in Ids, Evolves(j), OnlyThread(j),
         NEW i \in Ids \ {j}, ThreadOK(i), inactive' \in Seq(BOOLEAN)
  PROVE  ThreadOK(i)'
<1>1. /\ own'[i] = own[i] /\ stage'[i] = stage[i] /\ main'[i] = main[i]
      /\ table'[i] = table[i] /\ index'[i] = index[i] /\ producer'[i] = producer[i]
      /\ i \in Ids
  BY DEF OnlyThread
<1>2. /\ DOMAIN tables \subseteq DOMAIN tables'
      /\ \A h \in DOMAIN tables : IsIn(i, h)' <=> IsIn(i, h)
      /\ \A h \in DOMAIN tables' \ DOMAIN tables : ~ IsIn(i, h)'
  BY Evolution
<1>3. ProbeOK(i) => ProbeOK(i)'
  <2> SUFFICES ASSUME ProbeOK(i) PROVE ProbeOK(i)'
    OBVIOUS
  <2>0. PICK h \in DOMAIN tables : h = table[i]
    BY DEF ProbeOK
  <2>1. PICK d \in Nat : /\ Slot(i) = Path(i, h, d)
                         /\ \A e \in 0 .. d - 1 :
                              tables[h].key[Path(i, h, e)] \notin {i, invalid_thread_id}
    BY <2>0 DEF ProbeOK
  <2>2. Slot(i)' = Slot(i)
    BY <1>1, <2>0, Evolution DEF Slot
  <2>3. \A e : Path(i, h, e)' = Path(i, h, e)
    BY Evolution
  <2>4. ASSUME NEW e \in 0 .. d - 1
        PROVE  tables'[h].key[Path(i, h, e)] \notin {i, invalid_thread_id}
    <3>1. Path(i, h, e) \in Slots(h)
      BY <1>1, PathInTable
    <3>2. tables[h].key[Path(i, h, e)] \notin {i, invalid_thread_id}
      BY <2>1
    <3> QED
      BY <3>1, <3>2, Evolution
  <2> QED
    BY <1>1, <1>2, <2>0, <2>1, <2>2, <2>3, <2>4 DEF ProbeOK
<1>4. Len(inactive) \in Nat /\ Len(inactive') \in Nat /\ Len(inactive) <= Len(inactive')
  BY LenProperties DEF HashTypes, OnlyThread
<1>5. /\ 0 .. Len(inactive) \subseteq 0 .. Len(inactive')
      /\ 1 .. Len(inactive) \subseteq 1 .. Len(inactive')
  BY <1>4
<1>6. /\ (\A h \in DOMAIN tables : h > table[i] => ~ IsIn(i, h)) =>
           \A h \in DOMAIN tables' : h > table[i] => ~ IsIn(i, h)'
      /\ (\A h \in DOMAIN tables : h >= table[i] => ~ IsIn(i, h)) =>
           \A h \in DOMAIN tables' : h >= table[i] => ~ IsIn(i, h)'
      /\ (\E h \in DOMAIN tables : IsIn(i, h)) => \E h \in DOMAIN tables' : IsIn(i, h)'
  BY <1>2
<1>7. stage[i] = "copy" => (~ IsIn(i, table[i]))'
  <2> SUFFICES ASSUME stage[i] = "copy" PROVE (~ IsIn(i, table[i]))'
    OBVIOUS
  <2>1. PICK h \in DOMAIN tables : h = table[i]
    BY DEF ThreadOK, ProbeOK, Probing
  <2>2. ~ IsIn(i, h)'
    BY <1>2, <2>1 DEF ThreadOK
  <2>3. table'[i] = h
    BY <1>1, <2>1
  <2> QED
    BY <2>2, <2>3 DEF IsIn, Slots
<1> QED
  BY <1>1, <1>2, <1>3, <1>5, <1>6, <1>7 DEF ThreadOK

(* The ids of other threads stay where they are found.                     *)
LEMMA KeysStay ==
  ASSUME HashTypes, NEW j \in Ids, Evolves(j), OnlyThread(j), KeysOK,
         \A h \in DOMAIN tables' : \A s \in DOMAIN tables'[h].key :
           tables'[h].key[s] = j => KeyOK(j, h, s)'
  PROVE  KeysOK'
<1> SUFFICES ASSUME NEW i \in Ids, NEW h \in DOMAIN tables', NEW s \in DOMAIN tables'[h].key,
                    tables'[h].key[s] = i, i # j
             PROVE  KeyOK(i, h, s)'
  BY DEF KeysOK, Slots
<1>1. h \in DOMAIN tables
  BY HashAssumption DEF Evolves
<1>2. s \in Slots(h) /\ tables[h].key[s] = i /\ tables'[h].value[s] = tables[h].value[s]
  BY <1>1, Evolution DEF Slots
<1>3. KeyOK(i, h, s)
  BY <1>1, <1>2 DEF KeysOK
<1>4. own'[i] = own[i]
  BY DEF OnlyThread
<1>5. PICK d \in Nat : /\ s = Path(i, h, d)
                       /\ \A e \in 0 .. d - 1 :
                            tables[h].key[Path(i, h, e)] # invalid_thread_id
  BY <1>3 DEF KeyOK
<1>6. \A e : Path(i, h, e)' = Path(i, h, e)
  BY <1>1, Evolution
<1>7. \A e \in 0 .. d - 1 : tables'[h].key[Path(i, h, e)] # invalid_thread_id
  <2> TAKE e \in 0 .. d - 1
  <2>1. Path(i, h, e) \in Slots(h)
    BY <1>1, PathInTable
  <2> QED
    BY <1>1, <1>5, <2>1, Evolution
<1>8. \A r \in Slots(h)' : tables'[h].key[r] = i => r = s
  BY <1>1, <1>3, Evolution DEF KeyOK
<1> QED
  BY <1>2, <1>3, <1>4, <1>5, <1>6, <1>7, <1>8 DEF KeyOK

(* The producers that threads have.                                        *)
OwnersOK(j) ==
  /\ \/ Has(j)' = 0
     \/ /\ Has(j)' \in 1 .. Len(inactive') /\ ~ inactive'[Has(j)']
        /\ \A i \in Ids \ {j} : Has(i) # Has(j)'
  /\ \A i \in Ids \ {j} : Has(i) # 0 => ~ inactive'[Has(i)]

LEMMA StepKeeps ==
  ASSUME HInv, NEW j \in Ids, HashTypes', Evolves(j), OnlyThread(j), ThreadOK(j)',
         \A h \in DOMAIN tables' : \A s \in DOMAIN tables'[h].key :
           tables'[h].key[s] = j => KeyOK(j, h, s)',
         OwnersOK(j)
  PROVE  HInv'
<1>1. HashTypes /\ KeysOK /\ (\A i \in Ids : ThreadOK(i)) /\ HasOK /\ OneThreadEach
      /\ Len(tables) >= 1
  BY DEF HInv
<1>2. Len(tables') >= 1
  BY <1>1, Evolution DEF Evolves
<1>3. KeysOK'
  BY <1>1, KeysStay
<1>4. ASSUME NEW i \in Ids PROVE ThreadOK(i)'
  BY <1>1, OthersStay DEF HashTypes
<1>5. \A i \in Ids \ {j} : Has(i)' = Has(i)
  BY DEF OnlyThread, Has
<1>6. HasOK'
  <2>1. Len(inactive) \in Nat /\ Len(inactive') \in Nat /\ Len(inactive) <= Len(inactive')
    BY <1>1, LenProperties DEF HashTypes, OnlyThread
  <2>2. Has(j)' \in 0 .. Len(inactive')
    BY <2>1 DEF OwnersOK
  <2>3. \A i \in Ids \ {j} : Has(i)' \in 0 .. Len(inactive')
    BY <1>1, <1>5, <2>1 DEF HasOK
  <2> QED
    BY <2>2, <2>3 DEF HasOK
<1>7. OneThreadEach'
  <2>1. ASSUME NEW i \in Ids, Has(i)' # 0 PROVE ~ inactive'[Has(i)']
    BY <1>5, <2>1 DEF OwnersOK
  <2>2. ASSUME NEW i \in Ids, Has(i)' # 0, NEW k \in Ids \ {i} PROVE Has(k)' # Has(i)'
    BY <1>1, <1>5, <2>2 DEF OwnersOK, OneThreadEach
  <2> QED
    BY <2>1, <2>2 DEF OneThreadEach
<1> QED
  BY <1>2, <1>3, <1>4, <1>6, <1>7 DEF HInv

(* Steps that change no table, no owner and no producer.                   *)
LEMMA PrivateStep ==
  ASSUME HInv, NEW j \in Ids, UNCHANGED << tables, own, inactive >>, HashTypes',
         OnlyThread(j), ThreadOK(j)', Has(j)' = Has(j) \/ Has(j)' = 0
  PROVE  HInv'
<1>1. HashTypes /\ KeysOK /\ HasOK /\ OneThreadEach
  BY DEF HInv
<1>2. Len(tables) \in Nat /\ tables \in Seq(Tables)
  BY <1>1, LenProperties DEF HashTypes
<1>3. Evolves(j)
  BY <1>2 DEF Evolves, Slots
<1>4. \A h \in DOMAIN tables' : \A s \in DOMAIN tables'[h].key :
        tables'[h].key[s] = j => KeyOK(j, h, s)'
  BY <1>1 DEF KeysOK, KeyOK, Slots, Path, Capacity
<1>5. OwnersOK(j)
  <2>1. Len(inactive) \in Nat
    BY <1>1, LenProperties DEF HashTypes
  <2>2. ASSUME Has(j)' = Has(j), Has(j) # 0
        PROVE  Has(j)' \in 1 .. Len(inactive') /\ ~ inactive'[Has(j)']
    BY <1>1, <2>1, <2>2 DEF HasOK, OneThreadEach
  <2>3. ASSUME Has(j)' = Has(j), Has(j) # 0, NEW i \in Ids \ {j} PROVE Has(i) # Has(j)'
    BY <1>1, <2>3 DEF OneThreadEach
  <2>4. ASSUME NEW i \in Ids \ {j}, Has(i) # 0 PROVE ~ inactive'[Has(i)]
    BY <1>1, <2>4 DEF OneThreadEach
  <2> QED
    BY <2>2, <2>3, <2>4 DEF OwnersOK
<1> QED
  BY <1>3, <1>4, <1>5, StepKeeps

LEMMA ProbeStart ==
  ASSUME HashTypes, NEW j \in Ids, NEW h \in DOMAIN tables, UNCHANGED tables,
         table'[j] = h, index'[j] = hash_thread_id[j]
  PROVE  ProbeOK(j)'
<1>1. Slot(j)' = Path(j, h, 0)' /\ Path(j, h, 0)' = Path(j, h, 0)
  <2>1. Path(j, h, 0) = hash_thread_id[j] % Capacity(h)
    BY PathInTable
  <2>2. Capacity(h)' = Capacity(h)
    BY DEF Capacity
  <2> QED
    BY <2>1, <2>2 DEF Slot, Path
<1>2. \A e \in 0 .. 0 - 1 : FALSE
  OBVIOUS
<1>3. table'[j] \in DOMAIN tables' /\ Slot(j)' = Path(j, table[j], 0)'
  BY <1>1 DEF Path, Capacity
<1> QED
  BY <1>2, <1>3 DEF ProbeOK

LEMMA ProbeNext ==
  ASSUME HashTypes, NEW j \in Ids, ProbeOK(j), KeyThere(j) \notin {j, invalid_thread_id},
         UNCHANGED tables, table'[j] = table[j], index'[j] = Slot(j) + 1
  PROVE  ProbeOK(j)'
<1>0. PICK h \in DOMAIN tables : h = table[j]
  BY DEF ProbeOK
<1>1. PICK d \in Nat : /\ Slot(j) = Path(j, h, d)
                       /\ \A e \in 0 .. d - 1 :
                            tables[h].key[Path(j, h, e)] \notin {j, invalid_thread_id}
  BY <1>0 DEF ProbeOK
<1>2. Slot(j)' = Path(j, h, d + 1)
  <2>1. (Path(j, h, d) + 1) % Capacity(h) = Path(j, h, d + 1)
    BY PathInTable
  <2>2. Capacity(h)' = Capacity(h) /\ table'[j] = h
    BY <1>0 DEF Capacity
  <2> QED
    BY <1>1, <2>1, <2>2 DEF Slot
<1>3. \A e : Path(j, h, e)' = Path(j, h, e)
  BY DEF Path, Capacity
<1>4. tables[h].key[Path(j, h, d)] \notin {j, invalid_thread_id}
  BY <1>0, <1>1 DEF KeyThere
<1>5. \A e \in 0 .. (d + 1) - 1 :
        tables[h].key[Path(j, h, e)] \notin {j, invalid_thread_id}
  BY <1>1, <1>4
<1>6. d + 1 \in Nat /\ table'[j] = h
  BY <1>0
<1> QED
  BY <1>2, <1>3, <1>5, <1>6 DEF ProbeOK
-----------------------------------------------------------------------------
(* The steps of a thread that change nothing others see.                   *)
LEMMA ThreadStartsStep ==
  ASSUME HInv, NEW j \in Ids, ThreadStarts(j)
  PROVE  HInv'
<1>1. /\ HashTypes /\ KeysOK /\ ThreadOK(j) /\ Len(tables) >= 1 /\ hash_thread_id[j] \in Nat
      /\ DOMAIN tables = 1 .. Len(tables) /\ Len(tables) \in Nat /\ Len(inactive) \in Nat
  BY HashAssumption, LenProperties DEF HInv, HashTypes
<1>2. /\ UNCHANGED << tables, own, inactive >> /\ stage'[j] = "alive" /\ stage[j] = "dead"
      /\ own[j] = 0
  BY <1>1 DEF ThreadStarts, HashTypes, StepTo, LookIn, NextSlot, shared, probe, Newest, ThreadOK
<1>3. HashTypes'
  BY <1>1, <1>2 DEF ThreadStarts, HashTypes, StepTo, LookIn, NextSlot, shared, probe, Newest,
     HashStages, Probing, Entering, Finished
<1>4. OnlyThread(j)
  BY <1>1 DEF ThreadStarts, HashTypes, OnlyThread, StepTo, LookIn, NextSlot, shared, probe
<1>5. ThreadOK(j)'
  BY <1>1, <1>2 DEF ThreadOK, Probing, Entering
<1> QED
  BY <1>2, <1>3, <1>4, <1>5, PrivateStep DEF Has

LEMMA get_or_add_implicit_producerStep ==
  ASSUME HInv, NEW j \in Ids, get_or_add_implicit_producer(j)
  PROVE  HInv'
<1>1. /\ HashTypes /\ KeysOK /\ ThreadOK(j) /\ Len(tables) >= 1 /\ hash_thread_id[j] \in Nat
      /\ DOMAIN tables = 1 .. Len(tables) /\ Len(tables) \in Nat /\ Len(inactive) \in Nat
  BY HashAssumption, LenProperties DEF HInv, HashTypes
<1>2. /\ UNCHANGED << tables, own, inactive >> /\ stage'[j] = "look" /\ stage[j] = "alive"
      /\ main'[j] = Len(tables) /\ table'[j] = Len(tables) /\ index'[j] = hash_thread_id[j]
  BY <1>1 DEF get_or_add_implicit_producer, HashTypes, StepTo, LookIn, NextSlot, shared, probe, Newest
<1>3. Len(tables) \in DOMAIN tables
  BY <1>1
<1>4. ProbeOK(j)'
  BY <1>1, <1>2, <1>3, ProbeStart
<1>5. \A h \in DOMAIN tables : IsIn(j, h)' = IsIn(j, h)
  BY <1>2 DEF IsIn, Slots
<1>6. HashTypes'
  BY <1>1, <1>2 DEF get_or_add_implicit_producer, HashTypes, StepTo, LookIn, NextSlot, shared, probe, Newest,
     HashStages, Probing, Entering, Finished
<1>7. OnlyThread(j)
  BY <1>1 DEF get_or_add_implicit_producer, HashTypes, OnlyThread, StepTo, LookIn, NextSlot, shared, probe
<1>8. ThreadOK(j)'
  BY <1>1, <1>2, <1>3, <1>4, <1>5 DEF ThreadOK, Probing, Entering
<1> QED
  BY <1>2, <1>6, <1>7, <1>8, PrivateStep DEF Has

LEMMA FoundInOlderStep ==
  ASSUME HInv, NEW j \in Ids, FoundInOlder(j)
  PROVE  HInv'
<1>1. /\ HashTypes /\ KeysOK /\ ThreadOK(j) /\ Len(tables) >= 1 /\ hash_thread_id[j] \in Nat
      /\ DOMAIN tables = 1 .. Len(tables) /\ Len(tables) \in Nat /\ Len(inactive) \in Nat
  BY HashAssumption, LenProperties DEF HInv, HashTypes
<1>2. /\ UNCHANGED << tables, own, inactive, main >> /\ stage'[j] = "copy" /\ stage[j] = "look"
      /\ KeyThere(j) = j /\ table[j] # main[j] /\ table'[j] = main[j]
      /\ index'[j] = hash_thread_id[j]
      /\ producer'[j] = tables[table[j]].value[Slot(j)]
  BY <1>1 DEF FoundInOlder, HashTypes, StepTo, LookIn, NextSlot, shared, probe, Newest
<1>3. /\ ProbeOK(j) /\ main[j] \in DOMAIN tables /\ table[j] \in DOMAIN tables
      /\ table[j] < main[j] /\ ~ IsIn(j, main[j])
  <2>1. /\ ProbeOK(j) /\ main[j] \in DOMAIN tables /\ table[j] <= main[j]
        /\ \A h \in DOMAIN tables : h > table[j] => ~ IsIn(j, h)
    BY <1>1, <1>2 DEF ThreadOK, Probing, Entering
  <2>2. table[j] \in DOMAIN tables
    BY <2>1 DEF ProbeOK
  <2> QED
    BY <1>1, <1>2, <2>1, <2>2
<1>4. producer'[j] = own[j] /\ own[j] # 0 /\ own[j] \in Nat
  <2>1. Slot(j) \in Slots(table[j]) /\ tables[table[j]].key[Slot(j)] = j
    BY <1>1, <1>2, <1>3, ProbeSees
  <2> QED
    BY <1>1, <1>2, <1>3, <2>1 DEF KeysOK, KeyOK, HashTypes
<1>5. ProbeOK(j)'
  BY <1>1, <1>2, <1>3, ProbeStart
<1>6. \A h : IsIn(j, h)' = IsIn(j, h)
  BY <1>2 DEF IsIn, Slots
<1>7. (~ IsIn(j, table[j]))'
  BY <1>2, <1>3 DEF IsIn, Slots
<1>8. HashTypes'
  BY <1>1, <1>2, <1>4 DEF FoundInOlder, HashTypes, StepTo, LookIn, NextSlot, shared, probe, Newest,
     HashStages, Probing, Entering, Finished
<1>9. OnlyThread(j)
  BY <1>1 DEF FoundInOlder, HashTypes, OnlyThread, StepTo, LookIn, NextSlot, shared, probe
<1>10. ThreadOK(j)'
  BY <1>1, <1>2, <1>3, <1>4, <1>5, <1>6, <1>7 DEF ThreadOK, Probing, Entering
<1> QED
  BY <1>2, <1>8, <1>9, <1>10, PrivateStep DEF Has

LEMMA LookOnStep ==
  ASSUME HInv, NEW j \in Ids, LookOn(j)
  PROVE  HInv'
<1>1. /\ HashTypes /\ KeysOK /\ ThreadOK(j) /\ Len(tables) >= 1 /\ hash_thread_id[j] \in Nat
      /\ DOMAIN tables = 1 .. Len(tables) /\ Len(tables) \in Nat /\ Len(inactive) \in Nat
  BY HashAssumption, LenProperties DEF HInv, HashTypes
<1>2. /\ UNCHANGED << tables, own, inactive, main, table, stage, producer >> /\ stage[j] = "look"
      /\ KeyThere(j) \notin {j, invalid_thread_id} /\ index'[j] = Slot(j) + 1
  BY <1>1 DEF LookOn, HashTypes, StepTo, LookIn, NextSlot, shared, probe, Newest
<1>3. ProbeOK(j) /\ Slot(j) \in Nat
  BY <1>1, <1>2, ProbeSees DEF ThreadOK, Probing
<1>4. ProbeOK(j)'
  BY <1>1, <1>2, <1>3, ProbeNext
<1>5. \A h : IsIn(j, h)' = IsIn(j, h)
  BY <1>2 DEF IsIn, Slots
<1>6. HashTypes'
  BY <1>1, <1>2, <1>3 DEF LookOn, HashTypes, StepTo, LookIn, NextSlot, shared, probe, Newest,
     HashStages, Probing, Entering, Finished
<1>7. OnlyThread(j)
  BY <1>1 DEF LookOn, HashTypes, OnlyThread, StepTo, LookIn, NextSlot, shared, probe
<1>8. ThreadOK(j)'
  BY <1>1, <1>2, <1>3, <1>4, <1>5 DEF ThreadOK, Probing, Entering
<1> QED
  BY <1>2, <1>6, <1>7, <1>8, PrivateStep DEF Has

LEMMA LookInOlderStep ==
  ASSUME HInv, NEW j \in Ids, LookInOlder(j)
  PROVE  HInv'
<1>1. /\ HashTypes /\ KeysOK /\ ThreadOK(j) /\ Len(tables) >= 1 /\ hash_thread_id[j] \in Nat
      /\ DOMAIN tables = 1 .. Len(tables) /\ Len(tables) \in Nat /\ Len(inactive) \in Nat
  BY HashAssumption, LenProperties DEF HInv, HashTypes
<1>2. /\ UNCHANGED << tables, own, inactive, main, stage, producer >> /\ stage[j] = "look"
      /\ KeyThere(j) = invalid_thread_id /\ table[j] # 1
      /\ table'[j] = table[j] - 1 /\ index'[j] = hash_thread_id[j]
  BY <1>1 DEF LookInOlder, HashTypes, StepTo, LookIn, NextSlot, shared, probe, Newest, SearchedAll
<1>3. ProbeOK(j) /\ table[j] \in DOMAIN tables /\ ~ IsIn(j, table[j])
  BY <1>1, <1>2, NotFound DEF ThreadOK, ProbeOK, Probing
<1>4. table[j] - 1 \in DOMAIN tables /\ table[j] - 1 \in Nat
  BY <1>1, <1>2, <1>3
<1>5. ProbeOK(j)'
  BY <1>1, <1>2, <1>4, ProbeStart
<1>6. \A h : IsIn(j, h)' = IsIn(j, h)
  BY <1>2 DEF IsIn, Slots
<1>7. \A h \in DOMAIN tables : h > table[j] - 1 => ~ IsIn(j, h)
  BY <1>1, <1>2, <1>3 DEF ThreadOK
<1>8. HashTypes'
  BY <1>1, <1>2, <1>4 DEF LookInOlder, HashTypes, StepTo, LookIn, NextSlot, shared, probe, Newest,
     HashStages, Probing, Entering, Finished
<1>9. OnlyThread(j)
  BY <1>1 DEF LookInOlder, HashTypes, OnlyThread, StepTo, LookIn, NextSlot, shared, probe
<1>10. ThreadOK(j)'
  BY <1>1, <1>2, <1>3, <1>4, <1>5, <1>6, <1>7 DEF ThreadOK, Probing, Entering
<1> QED
  BY <1>2, <1>8, <1>9, <1>10, PrivateStep DEF Has

LEMMA CountThreadStep ==
  ASSUME HInv, NEW j \in Ids, CountThread(j)
  PROVE  HInv'
<1>1. /\ HashTypes /\ KeysOK /\ ThreadOK(j) /\ Len(tables) >= 1 /\ hash_thread_id[j] \in Nat
      /\ DOMAIN tables = 1 .. Len(tables) /\ Len(tables) \in Nat /\ Len(inactive) \in Nat
  BY HashAssumption, LenProperties DEF HInv, HashTypes
<1>2. /\ UNCHANGED << tables, own, inactive, main, table, index, producer >> /\ stage[j] = "look"
      /\ stage'[j] = "grow"
      /\ KeyThere(j) = invalid_thread_id /\ table[j] = 1
  BY <1>1 DEF CountThread, HashTypes, StepTo, LookIn, NextSlot, shared, probe, Newest, SearchedAll
<1>3. ProbeOK(j) /\ ~ IsIn(j, table[j])
  BY <1>1, <1>2, NotFound DEF ThreadOK, Probing
<1>4. \A h \in DOMAIN tables : ~ IsIn(j, h)
  BY <1>1, <1>2, <1>3 DEF ThreadOK
<1>5. own[j] = 0
  BY <1>1, <1>2, <1>4 DEF ThreadOK
<1>6. HashTypes'
  BY <1>1, <1>2 DEF CountThread, HashTypes, StepTo, LookIn, NextSlot, shared, probe, Newest,
     HashStages, Probing, Entering, Finished
<1>7. OnlyThread(j)
  BY <1>1 DEF CountThread, HashTypes, OnlyThread, StepTo, LookIn, NextSlot, shared, probe
<1>8. ThreadOK(j)'
  BY <1>1, <1>2, <1>5 DEF ThreadOK, Probing, Entering
<1> QED
  BY <1>2, <1>6, <1>7, <1>8, PrivateStep DEF Has

LEMMA GrowStep ==
  ASSUME HInv, NEW j \in Ids, Grow(j)
  PROVE  HInv'
<1>1. /\ HashTypes /\ KeysOK /\ ThreadOK(j) /\ Len(tables) >= 1 /\ hash_thread_id[j] \in Nat
      /\ DOMAIN tables = 1 .. Len(tables) /\ Len(tables) \in Nat /\ Len(inactive) \in Nat
  BY HashAssumption, LenProperties DEF HInv, HashTypes
<1>2. /\ UNCHANGED << tables, own, inactive, table, index, producer >> /\ stage[j] = "grow"
      /\ stage'[j] \in {"allocate", "clear"} /\ main'[j] = Len(tables)
  BY <1>1 DEF Grow, HashTypes, StepTo, LookIn, NextSlot, shared, probe, Newest
<1>3. HashTypes'
  BY <1>1, <1>2 DEF Grow, HashTypes, StepTo, LookIn, NextSlot, shared, probe, Newest,
     HashStages, Probing, Entering, Finished
<1>4. OnlyThread(j)
  BY <1>1 DEF Grow, HashTypes, OnlyThread, StepTo, LookIn, NextSlot, shared, probe
<1>5. ThreadOK(j)'
  BY <1>1, <1>2 DEF ThreadOK, Probing, Entering
<1> QED
  BY <1>2, <1>3, <1>4, <1>5, PrivateStep DEF Has

LEMMA ClearResizeStep ==
  ASSUME HInv, NEW j \in Ids, ClearResize(j)
  PROVE  HInv'
<1>1. /\ HashTypes /\ KeysOK /\ ThreadOK(j) /\ Len(tables) >= 1 /\ hash_thread_id[j] \in Nat
      /\ DOMAIN tables = 1 .. Len(tables) /\ Len(tables) \in Nat /\ Len(inactive) \in Nat
  BY HashAssumption, LenProperties DEF HInv, HashTypes
<1>2. /\ UNCHANGED << tables, own, inactive, main, table, index, producer >> /\ stage[j] = "clear"
      /\ stage'[j] = "room"
  BY <1>1 DEF ClearResize, HashTypes, StepTo, LookIn, NextSlot, shared, probe, Newest
<1>3. HashTypes'
  BY <1>1, <1>2 DEF ClearResize, HashTypes, StepTo, LookIn, NextSlot, shared, probe, Newest,
     HashStages, Probing, Entering, Finished
<1>4. OnlyThread(j)
  BY <1>1 DEF ClearResize, HashTypes, OnlyThread, StepTo, LookIn, NextSlot, shared, probe
<1>5. ThreadOK(j)'
  BY <1>1, <1>2 DEF ThreadOK, Probing, Entering
<1> QED
  BY <1>2, <1>3, <1>4, <1>5, PrivateStep DEF Has

LEMMA DoNotGrowStep ==
  ASSUME HInv, NEW j \in Ids, DoNotGrow(j)
  PROVE  HInv'
<1>1. /\ HashTypes /\ KeysOK /\ ThreadOK(j) /\ Len(tables) >= 1 /\ hash_thread_id[j] \in Nat
      /\ DOMAIN tables = 1 .. Len(tables) /\ Len(tables) \in Nat /\ Len(inactive) \in Nat
  BY HashAssumption, LenProperties DEF HInv, HashTypes
<1>2. /\ UNCHANGED << tables, own, inactive, main, table, index, producer >> /\ stage[j] = "grow"
      /\ stage'[j] = "room"
  BY <1>1 DEF DoNotGrow, HashTypes, StepTo, LookIn, NextSlot, shared, probe, Newest
<1>3. HashTypes'
  BY <1>1, <1>2 DEF DoNotGrow, HashTypes, StepTo, LookIn, NextSlot, shared, probe, Newest,
     HashStages, Probing, Entering, Finished
<1>4. OnlyThread(j)
  BY <1>1 DEF DoNotGrow, HashTypes, OnlyThread, StepTo, LookIn, NextSlot, shared, probe
<1>5. ThreadOK(j)'
  BY <1>1, <1>2 DEF ThreadOK, Probing, Entering
<1> QED
  BY <1>2, <1>3, <1>4, <1>5, PrivateStep DEF Has

LEMMA WaitStep ==
  ASSUME HInv, NEW j \in Ids, Wait(j)
  PROVE  HInv'
<1>1. /\ HashTypes /\ KeysOK /\ ThreadOK(j) /\ Len(tables) >= 1 /\ hash_thread_id[j] \in Nat
      /\ DOMAIN tables = 1 .. Len(tables) /\ Len(tables) \in Nat /\ Len(inactive) \in Nat
  BY HashAssumption, LenProperties DEF HInv, HashTypes
<1>2. /\ UNCHANGED << tables, own, inactive, table, index, producer >> /\ stage[j] = "room"
      /\ stage'[j] = "grow" /\ main'[j] = Len(tables)
  BY <1>1 DEF Wait, HashTypes, StepTo, LookIn, NextSlot, shared, probe, Newest
<1>3. HashTypes'
  BY <1>1, <1>2 DEF Wait, HashTypes, StepTo, LookIn, NextSlot, shared, probe, Newest,
     HashStages, Probing, Entering, Finished
<1>4. OnlyThread(j)
  BY <1>1 DEF Wait, HashTypes, OnlyThread, StepTo, LookIn, NextSlot, shared, probe
<1>5. ThreadOK(j)'
  BY <1>1, <1>2 DEF ThreadOK, Probing, Entering
<1> QED
  BY <1>2, <1>3, <1>4, <1>5, PrivateStep DEF Has

LEMMA SearchStep ==
  ASSUME HInv, NEW j \in Ids, Search(j)
  PROVE  HInv'
<1>1. /\ HashTypes /\ KeysOK /\ ThreadOK(j) /\ Len(tables) >= 1 /\ hash_thread_id[j] \in Nat
      /\ DOMAIN tables = 1 .. Len(tables) /\ Len(tables) \in Nat /\ Len(inactive) \in Nat
  BY HashAssumption, LenProperties DEF HInv, HashTypes
<1>2. /\ UNCHANGED << tables, own, inactive, main, table, index >> /\ stage[j] = "room"
      /\ stage'[j] = "recycle" /\ producer'[j] = Len(inactive)
  BY <1>1 DEF Search, HashTypes, StepTo, LookIn, NextSlot, shared, probe, Newest
<1>3. HashTypes'
  BY <1>1, <1>2 DEF Search, HashTypes, StepTo, LookIn, NextSlot, shared, probe, Newest,
     HashStages, Probing, Entering, Finished
<1>4. OnlyThread(j)
  BY <1>1 DEF Search, HashTypes, OnlyThread, StepTo, LookIn, NextSlot, shared, probe
<1>5. ThreadOK(j)'
  BY <1>1, <1>2 DEF ThreadOK, Probing, Entering
<1> QED
  BY <1>2, <1>3, <1>4, <1>5, PrivateStep DEF Has

LEMMA SkipProducerStep ==
  ASSUME HInv, NEW j \in Ids, SkipProducer(j)
  PROVE  HInv'
<1>1. /\ HashTypes /\ KeysOK /\ ThreadOK(j) /\ Len(tables) >= 1 /\ hash_thread_id[j] \in Nat
      /\ DOMAIN tables = 1 .. Len(tables) /\ Len(tables) \in Nat /\ Len(inactive) \in Nat
  BY HashAssumption, LenProperties DEF HInv, HashTypes
<1>2. /\ UNCHANGED << tables, own, inactive, main, table, index, stage >> /\ stage[j] = "recycle"
      /\ producer'[j] = producer[j] - 1 /\ producer[j] # 0 /\ producer[j] \in Nat
  BY <1>1 DEF SkipProducer, HashTypes, StepTo, LookIn, NextSlot, shared, probe, Newest
<1>3. HashTypes'
  <2>1. UNCHANGED << shared, stage, own, main, table, index, newCount >>
    BY DEF SkipProducer, probe, shared
  <2>2. producer' \in [Ids -> Nat]
    <3>1. producer' = [producer EXCEPT ![j] = producer[j] - 1]
      BY DEF SkipProducer
    <3>2. producer[j] - 1 \in Nat
      BY <1>2
    <3> QED
      BY <1>1, <3>1, <3>2 DEF HashTypes
  <2> QED
    BY <1>1, <2>1, <2>2 DEF HashTypes, shared
<1>4. OnlyThread(j)
  BY <1>1 DEF SkipProducer, HashTypes, OnlyThread, StepTo, LookIn, NextSlot, shared, probe
<1>5. ThreadOK(j)'
  BY <1>1, <1>2 DEF ThreadOK, Probing, Entering
<1> QED
  BY <1>2, <1>3, <1>4, <1>5, PrivateStep DEF Has

LEMMA ThreadExitsStep ==
  ASSUME HInv, NEW j \in Ids, ThreadExits(j)
  PROVE  HInv'
<1>1. /\ HashTypes /\ KeysOK /\ ThreadOK(j) /\ Len(tables) >= 1 /\ hash_thread_id[j] \in Nat
      /\ DOMAIN tables = 1 .. Len(tables) /\ Len(tables) \in Nat /\ Len(inactive) \in Nat
  BY HashAssumption, LenProperties DEF HInv, HashTypes
<1>2. /\ UNCHANGED << tables, own, inactive, main, producer >> /\ stage[j] = "alive"
      /\ IF own[j] = 0 THEN stage'[j] = "dead"
         ELSE stage'[j] = "exit" /\ table'[j] = Len(tables) /\ index'[j] = hash_thread_id[j]
  BY <1>1 DEF ThreadExits, HashTypes, StepTo, LookIn, NextSlot, shared, probe, Newest
<1>3. Len(tables) \in DOMAIN tables
  BY <1>1
<1>4. own[j] # 0 => ProbeOK(j)'
  BY <1>1, <1>2, <1>3, ProbeStart
<1>5. HashTypes'
  <2>1. stage' \in [Ids -> HashStages] /\ table' \in [Ids -> Nat] /\ index' \in [Ids -> Nat]
    <3>1. CASE own[j] = 0
      BY <1>1, <3>1 DEF ThreadExits, HashTypes, StepTo, HashStages, Finished
    <3>2. CASE own[j] # 0
      BY <1>1, <3>2 DEF ThreadExits, HashTypes, StepTo, LookIn, Newest, HashStages, Probing, Finished
    <3> QED
      BY <3>1, <3>2
  <2> QED
    BY <1>1, <2>1 DEF ThreadExits, HashTypes, shared
<1>6. OnlyThread(j)
  BY <1>1 DEF ThreadExits, HashTypes, OnlyThread, StepTo, LookIn, NextSlot, shared, probe
<1>7. ThreadOK(j)'
  BY <1>1, <1>2, <1>3, <1>4 DEF ThreadOK, Probing, Entering
<1> QED
  BY <1>2, <1>5, <1>6, <1>7, PrivateStep DEF Has

LEMMA PassSlotStep ==
  ASSUME HInv, NEW j \in Ids, PassSlot(j)
  PROVE  HInv'
<1>1. /\ HashTypes /\ KeysOK /\ ThreadOK(j) /\ Len(tables) >= 1 /\ hash_thread_id[j] \in Nat
      /\ DOMAIN tables = 1 .. Len(tables) /\ Len(tables) \in Nat /\ Len(inactive) \in Nat
  BY HashAssumption, LenProperties DEF HInv, HashTypes
<1>2. /\ UNCHANGED << tables, own, inactive, main, table, producer >> /\ stage[j] = "exit"
      /\ KeyThere(j) # j
      /\ IF KeyThere(j) = invalid_thread_id THEN stage'[j] = "older" /\ UNCHANGED index
         ELSE index'[j] = Slot(j) + 1 /\ UNCHANGED stage
  BY <1>1 DEF PassSlot, HashTypes, StepTo, LookIn, NextSlot, shared, probe, Newest
<1>3. ProbeOK(j) /\ Slot(j) \in Nat /\ table[j] \in DOMAIN tables
  BY <1>1, <1>2, ProbeSees DEF ThreadOK, ProbeOK, Probing
<1>4. KeyThere(j) # invalid_thread_id => ProbeOK(j)'
  BY <1>1, <1>2, <1>3, ProbeNext
<1>5. KeyThere(j) = invalid_thread_id => ~ IsIn(j, table[j])
  BY <1>1, <1>3, NotFound
<1>6. \A h : IsIn(j, h)' = IsIn(j, h)
  BY <1>2 DEF IsIn, Slots
<1>7. KeyThere(j) = invalid_thread_id => \A h \in DOMAIN tables : h >= table[j] => ~ IsIn(j, h)
  BY <1>1, <1>2, <1>3, <1>5 DEF ThreadOK
<1>8. HashTypes'
  <2>1. stage' \in [Ids -> HashStages] /\ index' \in [Ids -> Nat]
    <3>1. CASE KeyThere(j) = invalid_thread_id
      BY <1>1, <3>1 DEF PassSlot, HashTypes, StepTo, HashStages, Finished
    <3>2. CASE KeyThere(j) # invalid_thread_id
      <4>1. index' = [index EXCEPT ![j] = Slot(j) + 1] /\ UNCHANGED stage
        BY <3>2 DEF PassSlot, NextSlot
      <4>2. PICK x \in Nat : x = Slot(j) + 1
        BY <1>3
      <4>3. index' \in [Ids -> Nat]
        BY <1>1, <4>1, <4>2 DEF HashTypes
      <4> QED
        BY <1>1, <4>1, <4>3 DEF HashTypes
    <3> QED
      BY <3>1, <3>2
  <2> QED
    BY <1>1, <2>1 DEF PassSlot, HashTypes, shared
<1>9. OnlyThread(j)
  BY <1>1 DEF PassSlot, HashTypes, OnlyThread, StepTo, LookIn, NextSlot, shared, probe
<1>10. ThreadOK(j)'
  BY <1>1, <1>2, <1>3, <1>4, <1>6, <1>7 DEF ThreadOK, Probing, Entering
<1> QED
  BY <1>2, <1>8, <1>9, <1>10, PrivateStep DEF Has

LEMMA LeaveOlderStep ==
  ASSUME HInv, NEW j \in Ids, LeaveOlder(j)
  PROVE  HInv'
<1>1. /\ HashTypes /\ KeysOK /\ ThreadOK(j) /\ Len(tables) >= 1 /\ hash_thread_id[j] \in Nat
      /\ DOMAIN tables = 1 .. Len(tables) /\ Len(tables) \in Nat /\ Len(inactive) \in Nat
  BY HashAssumption, LenProperties DEF HInv, HashTypes
<1>2. /\ UNCHANGED << tables, own, inactive, main, producer >> /\ stage[j] = "older"
      /\ stage'[j] = "exit" /\ table[j] # 1
      /\ table'[j] = table[j] - 1 /\ index'[j] = hash_thread_id[j]
  BY <1>1 DEF LeaveOlder, HashTypes, StepTo, LookIn, NextSlot, shared, probe, Newest, LeftAll
<1>3. table[j] \in DOMAIN tables /\ \A h \in DOMAIN tables : h >= table[j] => ~ IsIn(j, h)
  BY <1>1, <1>2 DEF ThreadOK
<1>4. table[j] - 1 \in DOMAIN tables /\ table[j] - 1 \in Nat
  BY <1>1, <1>2, <1>3
<1>5. ProbeOK(j)'
  BY <1>1, <1>2, <1>4, ProbeStart
<1>6. \A h : IsIn(j, h)' = IsIn(j, h)
  BY <1>2 DEF IsIn, Slots
<1>7. \A h \in DOMAIN tables : h > table[j] - 1 => ~ IsIn(j, h)
  BY <1>1, <1>3
<1>8. HashTypes'
  BY <1>1, <1>2, <1>4 DEF LeaveOlder, HashTypes, StepTo, LookIn, NextSlot, shared, probe, Newest,
     HashStages, Probing, Entering, Finished
<1>9. OnlyThread(j)
  BY <1>1 DEF LeaveOlder, HashTypes, OnlyThread, StepTo, LookIn, NextSlot, shared, probe
<1>10. ThreadOK(j)'
  BY <1>1, <1>2, <1>3, <1>4, <1>5, <1>6, <1>7 DEF ThreadOK, Probing, Entering
<1> QED
  BY <1>2, <1>8, <1>9, <1>10, PrivateStep DEF Has

-----------------------------------------------------------------------------
(* The end of a call.                                                      *)
LEMMA Returned ==
  ASSUME HashTypes, NEW j \in Ids, NEW p \in Nat, NEW l \in Finished, Finish(j, p, l)
  PROVE  /\ stage'[j] = l /\ own'[j] = p
         /\ own' \in [Ids -> Nat] /\ stage' \in [Ids -> HashStages]
         /\ main' \in [Ids -> Nat] /\ table' \in [Ids -> Nat] /\ index' \in [Ids -> Nat]
         /\ newCount' \in [Ids -> Int] /\ producer' \in [Ids -> Nat]
         /\ own[j] = p => UNCHANGED own
         /\ inactive' = inactive => OnlyThread(j)
<1>1. Len(inactive) \in Nat
  BY LenProperties DEF HashTypes
<1>2. stage'[j] = l /\ own'[j] = p /\ own' \in [Ids -> Nat] /\ stage' \in [Ids -> HashStages]
  BY DEF HashTypes, Finish, StepTo, HashStages, Finished
<1>3. /\ main' \in [Ids -> Nat] /\ table' \in [Ids -> Nat] /\ index' \in [Ids -> Nat]
      /\ newCount' \in [Ids -> Int] /\ producer' \in [Ids -> Nat]
  BY DEF HashTypes, Finish
<1>4. own[j] = p => UNCHANGED own
  BY DEF HashTypes, Finish
<1>5. inactive' = inactive => OnlyThread(j)
  BY <1>1 DEF HashTypes, Finish, StepTo, OnlyThread
<1> QED
  BY <1>2, <1>3, <1>4, <1>5

LEMMA FoundStep ==
  ASSUME HInv, NEW j \in Ids, Found(j)
  PROVE  HInv'
<1>1. HashTypes /\ KeysOK /\ ThreadOK(j)
  BY DEF HInv
<1>2. ProbeOK(j) /\ table[j] \in DOMAIN tables /\ stage[j] = "look" /\ KeyThere(j) = j
  BY <1>1 DEF Found, ThreadOK, ProbeOK, Probing
<1>3. Slot(j) \in Slots(table[j]) /\ tables[table[j]].key[Slot(j)] = j
  BY <1>1, <1>2, ProbeSees
<1>4. own[j] # 0 /\ own[j] \in Nat /\ tables[table[j]].value[Slot(j)] = own[j]
  BY <1>1, <1>2, <1>3 DEF KeysOK, KeyOK, HashTypes
<1>5. /\ Finish(j, own[j], "alive") /\ "alive" \in Finished
      /\ UNCHANGED << tables, inactive, implicitProducerHashCount, resizeInProgress, started >>
  BY <1>4 DEF Found, Return, Finished
<1>6. UNCHANGED own /\ stage'[j] = "alive" /\ OnlyThread(j)
  BY <1>1, <1>4, <1>5, Returned
<1>7. HashTypes'
  BY <1>1, <1>4, <1>5, Returned DEF HashTypes
<1>8. IsIn(j, table[j])
  BY <1>3 DEF IsIn
<1>9. \A h : IsIn(j, h)' = IsIn(j, h)
  BY <1>5 DEF IsIn, Slots
<1>10. ThreadOK(j)'
  BY <1>2, <1>4, <1>5, <1>6, <1>8, <1>9 DEF ThreadOK, Probing, Entering
<1> QED
  BY <1>4, <1>5, <1>6, <1>7, <1>10, PrivateStep DEF Has

(* malloc returns nullptr, for a table or for a producer.                  *)
LEMMA NoMemoryStep ==
  ASSUME HInv, NEW j \in Ids, NoMemory(j) \/ NoMemoryForProducer(j)
  PROVE  HInv'
<1>1. HashTypes /\ ThreadOK(j)
  BY DEF HInv
<1>2. own[j] = 0
  BY <1>1 DEF NoMemory, NoMemoryForProducer, ThreadOK, Entering
<1>3. /\ UNCHANGED << tables, resizeInProgress, inactive, started >>
      /\ implicitProducerHashCount' = implicitProducerHashCount - 1
  BY DEF NoMemory, NoMemoryForProducer
<1>4. PICK l \in Finished : Finish(j, 0, l)
  BY DEF NoMemory, NoMemoryForProducer, Return, Finished
<1>5. UNCHANGED own /\ stage'[j] = l /\ OnlyThread(j)
  BY <1>1, <1>2, <1>3, <1>4, Returned
<1>6. HashTypes'
  <2>1. implicitProducerHashCount' \in Int /\ started' \in Nat /\ resizeInProgress' \in BOOLEAN
    BY <1>1, <1>3 DEF HashTypes
  <2>2. tables' \in Seq(Tables) /\ inactive' \in Seq(BOOLEAN)
    BY <1>1, <1>3 DEF HashTypes
  <2>3. /\ own' \in [Ids -> Nat] /\ stage' \in [Ids -> HashStages]
        /\ main' \in [Ids -> Nat] /\ table' \in [Ids -> Nat] /\ index' \in [Ids -> Nat]
        /\ newCount' \in [Ids -> Int] /\ producer' \in [Ids -> Nat]
    BY <1>1, <1>4, Returned
  <2> QED
    BY <2>1, <2>2, <2>3 DEF HashTypes
<1>7. ThreadOK(j)'
  BY <1>2, <1>5 DEF ThreadOK, Probing, Entering, Finished
<1>8. Has(j)' = Has(j) \/ Has(j)' = 0
  BY <1>2, <1>5 DEF Has, Finished
<1> QED
  BY <1>3, <1>5, <1>6, <1>7, <1>8, PrivateStep

(* What is left to do after the result is there.                           *)
LEMMA FinishedStep ==
  ASSUME HInv, NEW j \in Ids, ReleaseResize(j) \/ UncountThread(j)
  PROVE  HInv'
<1>1. HashTypes /\ ThreadOK(j) /\ Len(inactive) \in Nat
  BY LenProperties DEF HInv, HashTypes
<1>2. /\ UNCHANGED << tables, inactive, started, own, main, table, index, newCount, producer >>
      /\ stage' = [stage EXCEPT ![j] = "alive"] /\ stage[j] \in {"release", "uncount"}
  BY DEF ReleaseResize, UncountThread, StepTo, probe
<1>3. stage'[j] = "alive" /\ stage' \in [Ids -> HashStages]
  BY <1>1, <1>2 DEF HashTypes, HashStages, Finished
<1>4. resizeInProgress' \in BOOLEAN /\ implicitProducerHashCount' \in Int
  <2>1. resizeInProgress \in BOOLEAN /\ implicitProducerHashCount \in Int
    BY <1>1 DEF HashTypes
  <2>2. resizeInProgress' = FALSE \/ UNCHANGED resizeInProgress
    BY DEF ReleaseResize, UncountThread
  <2>3. resizeInProgress' \in BOOLEAN
    BY <2>1, <2>2, Zenon
  <2>4. \/ UNCHANGED implicitProducerHashCount
        \/ implicitProducerHashCount' = implicitProducerHashCount - 1
    BY DEF ReleaseResize, UncountThread
  <2>5. implicitProducerHashCount' \in Int
    BY <2>1, <2>4
  <2> QED
    BY <2>3, <2>5
<1>5. HashTypes'
  BY <1>1, <1>2, <1>3, <1>4 DEF HashTypes
<1>6. OnlyThread(j)
  BY <1>1, <1>2 DEF HashTypes, OnlyThread
<1>7. \A h : IsIn(j, h)' = IsIn(j, h)
  BY <1>2 DEF IsIn, Slots
<1>8. ThreadOK(j)'
  BY <1>1, <1>2, <1>3, <1>7 DEF ThreadOK, Probing, Entering
<1> QED
  BY <1>2, <1>3, <1>5, <1>6, <1>8, PrivateStep DEF Has

-----------------------------------------------------------------------------
(* Producers: new, taken over, left.                                       *)
LEMMA SameTables ==
  ASSUME HashTypes, NEW j \in Ids, UNCHANGED tables
  PROVE  Evolves(j)
<1>1. Len(tables) \in Nat /\ tables \in Seq(Tables)
  BY LenProperties DEF HashTypes
<1> QED
  BY <1>1 DEF Evolves, Slots

LEMMA CreateProducerStep ==
  ASSUME HInv, NEW j \in Ids, CreateProducer(j)
  PROVE  HInv'
<1>1. /\ HashTypes /\ KeysOK /\ ThreadOK(j) /\ HasOK /\ OneThreadEach
      /\ hash_thread_id[j] \in Nat /\ Len(inactive) \in Nat /\ inactive \in Seq(BOOLEAN)
  BY HashAssumption, LenProperties DEF HInv, HashTypes
<1>2. PICK n \in Nat : n = Len(inactive)
  BY <1>1
<1>3. /\ UNCHANGED << tables, own, main >> /\ stage[j] = "recycle" /\ stage'[j] = "reuse"
      /\ inactive' = Append(inactive, FALSE) /\ producer'[j] = Len(inactive')
      /\ table'[j] = main[j] /\ index'[j] = hash_thread_id[j]
  BY <1>1 DEF CreateProducer, HashTypes, StepTo, LookIn
<1>4. /\ inactive' \in Seq(BOOLEAN) /\ Len(inactive') = n + 1 /\ inactive'[n + 1] = FALSE
      /\ \A p \in 1 .. n : inactive'[p] = inactive[p]
  BY <1>1, <1>2, <1>3, AppendProperties
<1>5. main[j] \in DOMAIN tables /\ own[j] = 0
  BY <1>1, <1>3 DEF ThreadOK, Entering
<1>6. ProbeOK(j)'
  BY <1>1, <1>3, <1>5, ProbeStart
<1>7. HashTypes'
  <2>1. /\ stage' \in [Ids -> HashStages] /\ table' \in [Ids -> Nat] /\ index' \in [Ids -> Nat]
        /\ producer' \in [Ids -> Nat]
    BY <1>1, <1>4 DEF CreateProducer, HashTypes, StepTo, LookIn, HashStages, Probing, Finished
  <2> QED
    BY <1>1, <1>4, <2>1 DEF CreateProducer, HashTypes
<1>8. OnlyThread(j)
  BY <1>1, <1>2, <1>4 DEF CreateProducer, HashTypes, OnlyThread, StepTo, LookIn
<1>9. ThreadOK(j)'
  BY <1>3, <1>4, <1>5, <1>6 DEF ThreadOK, Probing, Entering
<1>10. OwnersOK(j)
  <2>1. Has(j)' = n + 1
    BY <1>3, <1>4, <1>5 DEF Has
  <2>2. \A i \in Ids : Has(i) \in 0 .. n
    BY <1>1, <1>2 DEF HasOK
  <2>3. ASSUME NEW i \in Ids \ {j}, Has(i) # 0 PROVE ~ inactive'[Has(i)]
    BY <1>1, <1>4, <2>2, <2>3 DEF OneThreadEach
  <2>4. ASSUME NEW i \in Ids \ {j} PROVE Has(i) # Has(j)'
    BY <2>1, <2>2
  <2> QED
    BY <1>4, <2>1, <2>3, <2>4 DEF OwnersOK
<1>11. Evolves(j)
  BY <1>1, <1>3, SameTables
<1>12. \A h \in DOMAIN tables' : \A s \in DOMAIN tables'[h].key :
         tables'[h].key[s] = j => KeyOK(j, h, s)'
  BY <1>1, <1>3 DEF KeysOK, KeyOK, Slots, Path, Capacity
<1> QED
  BY <1>7, <1>8, <1>9, <1>10, <1>11, <1>12, StepKeeps

LEMMA RecycleProducerStep ==
  ASSUME HInv, NEW j \in Ids, RecycleProducer(j)
  PROVE  HInv'
<1>1. /\ HashTypes /\ KeysOK /\ ThreadOK(j) /\ HasOK /\ OneThreadEach
      /\ hash_thread_id[j] \in Nat /\ Len(inactive) \in Nat /\ inactive \in Seq(BOOLEAN)
  BY HashAssumption, LenProperties DEF HInv, HashTypes
<1>2. PICK n \in Nat : n = Len(inactive)
  BY <1>1
<1>3. PICK p \in 1 .. n : p = producer[j] /\ inactive[p]
  BY <1>1, <1>2 DEF RecycleProducer, ThreadOK
<1>4. /\ UNCHANGED << tables, own, main, producer >> /\ stage[j] = "recycle"
      /\ stage'[j] = "reuse" /\ inactive' = [inactive EXCEPT ![p] = FALSE]
      /\ table'[j] = main[j] /\ index'[j] = hash_thread_id[j]
  BY <1>1, <1>3 DEF RecycleProducer, HashTypes, StepTo, LookIn
<1>5. /\ inactive' \in Seq(BOOLEAN) /\ Len(inactive') = n /\ ~ inactive'[p]
      /\ \A q \in 1 .. n : q # p => inactive'[q] = inactive[q]
  BY <1>1, <1>2, <1>4, ExceptSeq
<1>6. main[j] \in DOMAIN tables /\ own[j] = 0
  BY <1>1, <1>4 DEF ThreadOK, Entering
<1>7. ProbeOK(j)'
  BY <1>1, <1>4, <1>6, ProbeStart
<1>8. HashTypes'
  <2>1. stage' \in [Ids -> HashStages] /\ table' \in [Ids -> Nat] /\ index' \in [Ids -> Nat]
    BY <1>1 DEF RecycleProducer, HashTypes, StepTo, LookIn, HashStages, Probing, Finished
  <2> QED
    BY <1>1, <1>5, <2>1 DEF RecycleProducer, HashTypes
<1>9. OnlyThread(j)
  BY <1>1, <1>2, <1>5 DEF RecycleProducer, HashTypes, OnlyThread, StepTo, LookIn
<1>10. ThreadOK(j)'
  BY <1>2, <1>3, <1>4, <1>5, <1>6, <1>7 DEF ThreadOK, Probing, Entering
<1>11. OwnersOK(j)
  <2>1. Has(j)' = p
    BY <1>3, <1>4, <1>6 DEF Has
  <2>2. ASSUME NEW i \in Ids, Has(i) # 0 PROVE Has(i) \in 1 .. n /\ ~ inactive[Has(i)]
    BY <1>1, <1>2, <2>2 DEF HasOK, OneThreadEach
  <2>3. ASSUME NEW i \in Ids PROVE Has(i) # p
    BY <1>3, <2>2
  <2>4. ASSUME NEW i \in Ids \ {j}, Has(i) # 0 PROVE ~ inactive'[Has(i)]
    BY <1>5, <2>2, <2>3, <2>4
  <2> QED
    BY <1>5, <2>1, <2>3, <2>4 DEF OwnersOK
<1>12. Evolves(j)
  BY <1>1, <1>4, SameTables
<1>13. \A h \in DOMAIN tables' : \A s \in DOMAIN tables'[h].key :
         tables'[h].key[s] = j => KeyOK(j, h, s)'
  BY <1>1, <1>4 DEF KeysOK, KeyOK, Slots, Path, Capacity
<1> QED
  BY <1>8, <1>9, <1>10, <1>11, <1>12, <1>13, StepKeeps

LEMMA MarkInactiveStep ==
  ASSUME HInv, NEW j \in Ids, MarkInactive(j)
  PROVE  HInv'
<1>1. /\ HashTypes /\ KeysOK /\ ThreadOK(j) /\ HasOK /\ OneThreadEach
      /\ Len(inactive) \in Nat /\ inactive \in Seq(BOOLEAN)
      /\ DOMAIN tables = 1 .. Len(tables) /\ Len(tables) \in Nat
  BY LenProperties DEF HInv, HashTypes
<1>2. PICK n \in Nat : n = Len(inactive)
  BY <1>1
<1>3. stage[j] = "older" /\ table[j] = 1 /\ own[j] # 0
  BY <1>1 DEF MarkInactive, LeftAll, ThreadOK
<1>4. PICK p \in 1 .. n : p = own[j] /\ p = Has(j)
  BY <1>1, <1>2, <1>3 DEF HasOK, Has
<1>5. /\ UNCHANGED << tables, main, producer >> /\ stage'[j] = "dead"
      /\ inactive' = [inactive EXCEPT ![p] = TRUE] /\ own'[j] = 0
  BY <1>1, <1>4 DEF MarkInactive, HashTypes, StepTo
<1>6. /\ inactive' \in Seq(BOOLEAN) /\ Len(inactive') = n
      /\ \A q \in 1 .. n : q # p => inactive'[q] = inactive[q]
  BY <1>1, <1>2, <1>5, ExceptSeq
<1>7. HashTypes'
  <2>1. /\ stage' \in [Ids -> HashStages] /\ table' \in [Ids -> Nat] /\ index' \in [Ids -> Nat]
        /\ own' \in [Ids -> Nat]
    BY <1>1 DEF MarkInactive, HashTypes, StepTo, HashStages, Finished
  <2> QED
    BY <1>1, <1>6, <2>1 DEF MarkInactive, HashTypes
<1>8. OnlyThread(j)
  BY <1>1, <1>2, <1>6 DEF MarkInactive, HashTypes, OnlyThread, StepTo
<1>9. ThreadOK(j)'
  BY <1>5 DEF ThreadOK, Probing, Entering
<1>10. OwnersOK(j)
  <2>1. Has(j)' = 0
    BY <1>5 DEF Has
  <2>2. ASSUME NEW i \in Ids \ {j}, Has(i) # 0
        PROVE  Has(i) \in 1 .. n /\ ~ inactive[Has(i)] /\ Has(i) # p
    BY <1>1, <1>2, <1>4, <2>2 DEF HasOK, OneThreadEach
  <2>3. ASSUME NEW i \in Ids \ {j}, Has(i) # 0 PROVE ~ inactive'[Has(i)]
    BY <1>6, <2>2, <2>3
  <2> QED
    BY <2>1, <2>3 DEF OwnersOK
<1>11. Evolves(j)
  BY <1>1, <1>5, SameTables
<1>12. ASSUME NEW h \in DOMAIN tables', NEW s \in DOMAIN tables'[h].key
       PROVE  tables'[h].key[s] # j
  <2>1. h >= table[j] /\ h \in DOMAIN tables
    BY <1>1, <1>3, <1>5
  <2>2. ~ IsIn(j, h)
    BY <1>1, <1>3, <2>1 DEF ThreadOK
  <2> QED
    BY <1>5, <2>2 DEF IsIn, Slots
<1> QED
  BY <1>7, <1>8, <1>9, <1>10, <1>11, <1>12, StepKeeps

-----------------------------------------------------------------------------
(* Tables: a larger one, an entry, an entry that is left.                  *)
LEMMA AllocateStep ==
  ASSUME HInv, NEW j \in Ids, Allocate(j)
  PROVE  HInv'
<1>1. /\ HashTypes /\ KeysOK /\ ThreadOK(j) /\ HasOK /\ OneThreadEach
      /\ Len(tables) \in Nat /\ DOMAIN tables = 1 .. Len(tables) /\ tables \in Seq(Tables)
      /\ Len(inactive) \in Nat
  BY LenProperties DEF HInv, HashTypes
<1>2. stage[j] = "allocate" /\ main[j] \in DOMAIN tables /\ own[j] = 0
  BY <1>1 DEF Allocate, ThreadOK, Entering
<1>3. PICK newCapacity \in NotCrowded(j) : tables' = Append(tables, EmptyTable(newCapacity))
  BY DEF Allocate
<1>4. newCapacity \in Nat \ {0}
  <2>1. newCount[j] \in Int /\ Capacity(main[j]) \in Nat
    BY <1>1, <1>2, TableShape DEF HashTypes
  <2>2. PICK m \in Int : m = 4 * Capacity(main[j]) * (newCount[j] + 1)
    BY <2>1
  <2> QED
    BY <1>3, <2>2 DEF NotCrowded, Doublings
<1>5. EmptyTable(newCapacity) \in Tables
  BY <1>4 DEF EmptyTable, Tables
<1>6. PICK n \in Nat : n = Len(tables)
  BY <1>1
<1>7. /\ tables' \in Seq(Tables) /\ Len(tables') = n + 1
      /\ tables'[n + 1] = EmptyTable(newCapacity)
      /\ \A h \in DOMAIN tables : tables'[h] = tables[h]
      /\ DOMAIN tables' = 1 .. n + 1 /\ DOMAIN tables' \ DOMAIN tables = {n + 1}
  <2>1. /\ tables' \in Seq(Tables) /\ Len(tables') = n + 1
        /\ tables'[n + 1] = EmptyTable(newCapacity)
        /\ \A h \in 1 .. n : tables'[h] = tables[h]
    BY <1>1, <1>3, <1>5, <1>6, AppendProperties
  <2>2. DOMAIN tables' = 1 .. n + 1
    BY <1>6, <2>1, LenProperties
  <2> QED
    BY <1>1, <1>6, <2>1, <2>2
<1>8. \A s \in DOMAIN tables'[n + 1].key : tables'[n + 1].key[s] = invalid_thread_id
  BY <1>7 DEF EmptyTable
<1>9. Evolves(j)
  BY <1>6, <1>7, <1>8 DEF Evolves, Slots
<1>10. /\ UNCHANGED << inactive, own, producer >> /\ stage'[j] = "clear" /\ main'[j] = n + 1
  BY <1>1, <1>6 DEF Allocate, HashTypes, StepTo, Newest
<1>11. HashTypes'
  <2>1. stage' \in [Ids -> HashStages] /\ main' \in [Ids -> Nat]
    BY <1>1 DEF Allocate, HashTypes, StepTo, Newest, HashStages, Entering, Finished
  <2> QED
    BY <1>1, <1>7, <2>1 DEF Allocate, HashTypes
<1>12. OnlyThread(j)
  BY <1>1 DEF Allocate, HashTypes, OnlyThread, StepTo
<1>13. ThreadOK(j)'
  BY <1>2, <1>6, <1>7, <1>10 DEF ThreadOK, Probing, Entering
<1>14. ASSUME NEW h \in DOMAIN tables', NEW s \in DOMAIN tables'[h].key
       PROVE  tables'[h].key[s] # j
  <2>1. CASE h = n + 1
    BY <1>8, <2>1, HashAssumption
  <2>2. CASE h \in DOMAIN tables
    BY <1>1, <1>2, <1>7, <2>2 DEF KeysOK, KeyOK, Slots
  <2> QED
    BY <1>7, <2>1, <2>2
<1>15. OwnersOK(j)
  <2>1. Has(j)' = 0
    BY <1>2, <1>10 DEF Has
  <2>2. ASSUME NEW i \in Ids \ {j}, Has(i) # 0 PROVE ~ inactive'[Has(i)]
    BY <1>1, <1>10, <2>2 DEF OneThreadEach
  <2> QED
    BY <2>1, <2>2 DEF OwnersOK
<1> QED
  BY <1>9, <1>11, <1>12, <1>13, <1>14, <1>15, StepKeeps

(* SetKey changes the one slot.                                            *)
LEMMA SetKeyEffect ==
  ASSUME HashTypes, NEW j \in Ids, ProbeOK(j), NEW v \in Nat,
         NEW k \in Ids \union {invalid_thread_id, invalid_thread_id2}, SetKey(j, k, v)
  PROVE  /\ tables' \in Seq(Tables) /\ Len(tables') = Len(tables)
         /\ DOMAIN tables' = DOMAIN tables
         /\ tables'[table[j]].key[Slot(j)] = k /\ tables'[table[j]].value[Slot(j)] = v
         /\ \A h \in DOMAIN tables :
              /\ DOMAIN tables'[h].key = Slots(h)
              /\ \A s \in Slots(h) : h # table[j] \/ s # Slot(j) =>
                   /\ tables'[h].key[s] = tables[h].key[s]
                   /\ tables'[h].value[s] = tables[h].value[s]
<1>1. PICK t \in DOMAIN tables : t = table[j]
  BY DEF ProbeOK
<1>2. PICK x \in Slots(t) : x = Slot(j)
  BY <1>1, ProbeSees
<1>3. PICK n \in Nat \ {0} : n = Capacity(t)
  BY TableShape
<1>4. /\ Slots(t) = 0 .. n - 1
      /\ tables[t].key \in [0 .. n - 1 -> Ids \union {invalid_thread_id, invalid_thread_id2}]
      /\ tables[t].value \in [0 .. n - 1 -> Nat]
      /\ tables[t] = [ key |-> tables[t].key, value |-> tables[t].value ]
  BY <1>3, TableShape
<1>5. tables[t] \in [ key : [0 .. n - 1 -> Ids \union {invalid_thread_id, invalid_thread_id2}],
                     value : [0 .. n - 1 -> Nat] ]
  BY <1>4
<1> DEFINE new == [tables[t] EXCEPT !.key[x] = k, !.value[x] = v]
<1>6. /\ new \in [ key : [0 .. n - 1 -> Ids \union {invalid_thread_id, invalid_thread_id2}],
                   value : [0 .. n - 1 -> Nat] ]
      /\ new.key = [tables[t].key EXCEPT ![x] = k] /\ new.value = [tables[t].value EXCEPT ![x] = v]
  BY <1>2, <1>4, <1>5
<1>7. tables' = [tables EXCEPT ![t] = new]
  BY <1>1, <1>2 DEF SetKey
<1> HIDE DEF new
<1>8. new \in Tables
  BY <1>6 DEF Tables
<1>9. tables \in Seq(Tables) /\ DOMAIN tables = 1 .. Len(tables) /\ Len(tables) \in Nat
  BY LenProperties DEF HashTypes
<1>11. /\ tables' \in Seq(Tables) /\ Len(tables') = Len(tables)
       /\ tables'[t] = new /\ \A h \in DOMAIN tables : h # t => tables'[h] = tables[h]
  BY <1>7, <1>8, <1>9, ExceptSeq
<1>12. DOMAIN tables' = DOMAIN tables
  BY <1>9, <1>11, LenProperties
<1>13. /\ tables'[t].key[x] = k /\ tables'[t].value[x] = v /\ DOMAIN tables'[t].key = Slots(t)
       /\ \A s \in Slots(t) : s # x => /\ tables'[t].key[s] = tables[t].key[s]
                                       /\ tables'[t].value[s] = tables[t].value[s]
  BY <1>2, <1>4, <1>6, <1>11
<1>14. ASSUME NEW h \in DOMAIN tables, h # t
       PROVE  /\ DOMAIN tables'[h].key = Slots(h)
              /\ \A s \in Slots(h) : /\ tables'[h].key[s] = tables[h].key[s]
                                     /\ tables'[h].value[s] = tables[h].value[s]
  BY <1>11, <1>14 DEF Slots
<1> QED
  BY <1>1, <1>2, <1>11, <1>12, <1>13, <1>14

(* A thread that enters its id is about to make it findable, once.         *)
LEMMA NotThere ==
  ASSUME HInv, NEW j \in Ids, stage[j] \in {"copy", "reuse", "fill"}
  PROVE  /\ ~ IsIn(j, table[j]) /\ KeyThere(j) # j /\ Slot(j) \in Nat
         /\ Has(j) = producer[j] /\ producer[j] \in 1 .. Len(inactive)
         /\ own[j] \in {0, producer[j]} /\ ProbeOK(j)
<1>1. HashTypes /\ KeysOK /\ ThreadOK(j) /\ HasOK /\ Len(inactive) \in Nat
  BY LenProperties DEF HInv, HashTypes
<1>2. ProbeOK(j) /\ table[j] \in DOMAIN tables
  BY <1>1 DEF ThreadOK, ProbeOK, Probing
<1>3. CASE stage[j] = "copy"
  <2>1. ~ IsIn(j, table[j]) /\ own[j] # 0 /\ producer[j] = own[j]
    BY <1>1, <1>3 DEF ThreadOK
  <2>2. Has(j) = own[j] /\ Has(j) \in 0 .. Len(inactive)
    BY <1>1, <2>1 DEF Has, HasOK
  <2>3. KeyThere(j) # j /\ Slot(j) \in Nat
    BY <1>1, <1>2, <2>1, ProbeSees DEF IsIn
  <2> QED
    BY <1>1, <1>2, <2>1, <2>2, <2>3
<1>4. CASE stage[j] \in {"reuse", "fill"}
  <2>1. own[j] = 0 /\ producer[j] \in 1 .. Len(inactive)
    BY <1>1, <1>4 DEF ThreadOK, Entering
  <2>2. ~ IsIn(j, table[j])
    BY <1>1, <1>2, <2>1 DEF KeysOK, KeyOK, IsIn
  <2>3. KeyThere(j) # j /\ Slot(j) \in Nat
    BY <1>1, <1>2, <2>2, ProbeSees DEF IsIn
  <2> QED
    BY <1>2, <1>4, <2>1, <2>2, <2>3 DEF Has
<1> QED
  BY <1>3, <1>4

LEMMA EnterStep ==
  ASSUME HInv, NEW j \in Ids, stage[j] \in {"copy", "reuse", "fill"},
         KeyThere(j) \in {invalid_thread_id, invalid_thread_id2},
         NEW l \in Finished, SetKey(j, j, producer[j]), Finish(j, producer[j], l),
         UNCHANGED << resizeInProgress, inactive, started >>,
         implicitProducerHashCount' \in Int
  PROVE  HInv'
<1>1. /\ HashTypes /\ KeysOK /\ ThreadOK(j) /\ HasOK /\ OneThreadEach
      /\ Len(inactive) \in Nat /\ Len(tables) \in Nat
  BY LenProperties DEF HInv, HashTypes
<1>2. PICK p \in 1 .. Len(inactive) : p = producer[j] /\ p = Has(j) /\ own[j] \in {0, p}
  BY NotThere
<1>3. PICK t \in DOMAIN tables : t = table[j]
  BY NotThere DEF ProbeOK
<1>4. ~ IsIn(j, t) /\ ProbeOK(j)
  BY <1>3, NotThere
<1>5. PICK x \in Slots(t) : x = Slot(j) /\ tables[t].key[x] \in {invalid_thread_id, invalid_thread_id2}
  BY <1>1, <1>3, <1>4, ProbeSees
<1>6. Finish(j, p, l) /\ SetKey(j, j, p) /\ p \in Nat /\ p # 0
  BY <1>1, <1>2
<1>7. /\ tables' \in Seq(Tables) /\ Len(tables') = Len(tables) /\ DOMAIN tables' = DOMAIN tables
      /\ tables'[t].key[x] = j /\ tables'[t].value[x] = p
      /\ \A h \in DOMAIN tables :
           /\ DOMAIN tables'[h].key = Slots(h)
           /\ \A s \in Slots(h) : h # t \/ s # x =>
                /\ tables'[h].key[s] = tables[h].key[s]
                /\ tables'[h].value[s] = tables[h].value[s]
  BY <1>1, <1>3, <1>4, <1>5, <1>6, SetKeyEffect
<1>8. Evolves(j)
  BY <1>1, <1>5, <1>7, HashAssumption DEF Evolves, Slots
<1>9. own'[j] = p /\ stage'[j] = l /\ OnlyThread(j)
  BY <1>1, <1>6, Returned
<1>10. HashTypes'
  BY <1>1, <1>6, <1>7, Returned DEF HashTypes
<1>11. ThreadOK(j)'
  <2>1. IsIn(j, t)'
    BY <1>7 DEF IsIn, Slots
  <2> QED
    BY <1>6, <1>7, <1>9, <2>1 DEF ThreadOK, Probing, Entering, Finished
<1>12. OwnersOK(j)
  <2>1. Has(j)' = p
    BY <1>6, <1>9 DEF Has
  <2>2. ~ inactive[p] /\ \A i \in Ids \ {j} : Has(i) # p
    BY <1>1, <1>2, <1>6 DEF OneThreadEach
  <2>3. \A i \in Ids \ {j} : Has(i) # 0 => ~ inactive[Has(i)]
    BY <1>1 DEF OneThreadEach
  <2> QED
    BY <2>1, <2>2, <2>3 DEF OwnersOK
<1>13. ASSUME NEW h \in DOMAIN tables', NEW s \in DOMAIN tables'[h].key, tables'[h].key[s] = j
       PROVE  KeyOK(j, h, s)'
  <2>1. h \in DOMAIN tables /\ s \in Slots(h)
    BY <1>7, <1>13
  <2>2. \A d : Path(j, h, d)' = Path(j, h, d)
    BY <1>1, <1>8, <2>1, Evolution
  <2>3. CASE h = t
    <3>1. s = x
      BY <1>4, <1>7, <1>13, <2>1, <2>3 DEF IsIn
    <3>2. PICK d \in Nat : /\ x = Path(j, t, d)
                           /\ \A e \in 0 .. d - 1 :
                                tables[t].key[Path(j, t, e)] \notin {j, invalid_thread_id}
      BY <1>3, <1>4, <1>5 DEF ProbeOK
    <3>3. ASSUME NEW e \in 0 .. d - 1 PROVE tables'[t].key[Path(j, t, e)] # invalid_thread_id
      <4>1. Path(j, t, e) \in Slots(t)
        BY <1>1, PathInTable
      <4> QED
        BY <1>7, <3>2, <4>1, HashAssumption
    <3>4. \A r \in Slots(t) : tables'[t].key[r] = j => r = x
      BY <1>4, <1>7 DEF IsIn
    <3> QED
      BY <1>6, <1>7, <1>9, <2>2, <2>3, <3>1, <3>2, <3>3, <3>4 DEF KeyOK, Slots
  <2>4. CASE h # t
    <3>1. \A r \in Slots(h) : /\ tables'[h].key[r] = tables[h].key[r]
                              /\ tables'[h].value[r] = tables[h].value[r]
      BY <1>7, <2>1, <2>4
    <3>2. KeyOK(j, h, s)
      BY <1>1, <1>13, <2>1, <3>1 DEF KeysOK
    <3>3. own[j] = p
      BY <1>2, <3>2 DEF KeyOK
    <3>4. PICK d \in Nat : /\ s = Path(j, h, d)
                           /\ \A e \in 0 .. d - 1 :
                                tables[h].key[Path(j, h, e)] # invalid_thread_id
      BY <3>2 DEF KeyOK
    <3>5. \A e \in 0 .. d - 1 : Path(j, h, e) \in Slots(h)
      BY <1>1, <2>1, PathInTable
    <3>6. \A e \in 0 .. d - 1 : tables'[h].key[Path(j, h, e)] # invalid_thread_id
      BY <3>1, <3>4, <3>5
    <3>7. Slots(h)' = Slots(h)
      BY <1>7, <2>1 DEF Slots
    <3> QED
      BY <1>9, <2>1, <2>2, <3>1, <3>2, <3>3, <3>4, <3>6, <3>7 DEF KeyOK
  <2> QED
    BY <2>3, <2>4
<1> QED
  BY <1>8, <1>9, <1>10, <1>11, <1>12, <1>13, StepKeeps

(* On to the next slot, or from reuse to fill.                             *)
LEMMA EnterNextStep ==
  ASSUME HInv, NEW j \in Ids, stage[j] \in {"copy", "reuse", "fill"}, HashTypes',
         UNCHANGED << tables, own, inactive, main, table, producer >>, OnlyThread(j),
         \/ UNCHANGED index
         \/ index'[j] = Slot(j) + 1 /\ KeyThere(j) # invalid_thread_id,
         IF stage[j] = "copy" THEN stage'[j] = "copy" ELSE stage'[j] \in {"reuse", "fill"}
  PROVE  HInv'
<1>1. HashTypes /\ KeysOK /\ ThreadOK(j)
  BY DEF HInv
<1>2. ~ IsIn(j, table[j]) /\ KeyThere(j) # j /\ ProbeOK(j)
  BY NotThere
<1>3. ProbeOK(j)'
  <2>1. CASE UNCHANGED index
    BY <1>2, <2>1 DEF ProbeOK, Slot, Path, Capacity
  <2>2. CASE index'[j] = Slot(j) + 1 /\ KeyThere(j) # invalid_thread_id
    BY <1>1, <1>2, <2>2, ProbeNext
  <2> QED
    BY <2>1, <2>2
<1>4. \A h : IsIn(j, h)' = IsIn(j, h)
  BY DEF IsIn, Slots
<1>5. (~ IsIn(j, table[j]))'
  BY <1>2 DEF IsIn, Slots
<1>6. ThreadOK(j)'
  BY <1>1, <1>3, <1>4, <1>5 DEF ThreadOK, Probing, Entering
<1> QED
  BY <1>6, PrivateStep DEF Has

LEMMA CopyStep ==
  ASSUME HInv, NEW j \in Ids, Copy(j)
  PROVE  HInv'
<1>1. HashTypes /\ Len(inactive) \in Nat
  BY LenProperties DEF HInv, HashTypes
<1>2. /\ stage[j] = "copy"
      /\ UNCHANGED << implicitProducerHashCount, resizeInProgress, inactive, started >>
      /\ implicitProducerHashCount' \in Int
  BY <1>1 DEF Copy, HashTypes
<1>3. CASE KeyThere(j) \in {invalid_thread_id, invalid_thread_id2}
  <2>1. SetKey(j, j, producer[j]) /\ Finish(j, producer[j], "alive") /\ "alive" \in Finished
    BY <1>3 DEF Copy, Return, Finished
  <2> QED
    BY <1>2, <1>3, <2>1, EnterStep
<1>4. CASE KeyThere(j) \notin {invalid_thread_id, invalid_thread_id2}
  <2>1. /\ index' = [index EXCEPT ![j] = Slot(j) + 1]
        /\ UNCHANGED << tables, own, stage, main, table, newCount, producer >>
    BY <1>4 DEF Copy, NextSlot
  <2>2. PICK x \in Nat : x = Slot(j) + 1
    BY <1>2, NotThere
  <2>3. index' \in [Ids -> Nat] /\ index'[j] = x /\ \A i \in Ids \ {j} : index'[i] = index[i]
    BY <1>1, <2>1, <2>2 DEF HashTypes
  <2>4. HashTypes'
    BY <1>1, <1>2, <2>1, <2>3 DEF HashTypes
  <2>5. OnlyThread(j)
    BY <1>1, <1>2, <2>1, <2>3 DEF OnlyThread
  <2> QED
    BY <1>2, <1>4, <2>1, <2>2, <2>3, <2>4, <2>5, EnterNextStep
<1> QED
  BY <1>3, <1>4

LEMMA ReuseSlotStep ==
  ASSUME HInv, NEW j \in Ids, ReuseSlot(j)
  PROVE  HInv'
<1>1. HashTypes /\ Len(inactive) \in Nat
  BY LenProperties DEF HInv, HashTypes
<1>2. /\ stage[j] = "reuse"
      /\ UNCHANGED << implicitProducerHashCount, resizeInProgress, inactive, started >>
      /\ implicitProducerHashCount' \in Int
  BY <1>1 DEF ReuseSlot, HashTypes
<1>3. CASE KeyThere(j) = invalid_thread_id2
  <2>1. SetKey(j, j, producer[j]) /\ Finish(j, producer[j], "uncount") /\ "uncount" \in Finished
    BY <1>3 DEF ReuseSlot, Finished
  <2> QED
    BY <1>2, <1>3, <2>1, EnterStep
<1>4. CASE KeyThere(j) # invalid_thread_id2
  <2>1. /\ stage' = [stage EXCEPT ![j] = "fill"]
        /\ UNCHANGED << tables, own, main, table, index, newCount, producer >>
    BY <1>4 DEF ReuseSlot, StepTo, probe
  <2>2. /\ stage' \in [Ids -> HashStages] /\ stage'[j] = "fill"
        /\ \A i \in Ids \ {j} : stage'[i] = stage[i]
    BY <1>1, <2>1 DEF HashTypes, HashStages, Probing, Finished
  <2>3. HashTypes'
    BY <1>1, <1>2, <2>1, <2>2 DEF HashTypes
  <2>4. OnlyThread(j)
    BY <1>1, <1>2, <2>1, <2>2 DEF OnlyThread
  <2> QED
    BY <1>2, <2>1, <2>2, <2>3, <2>4, EnterNextStep
<1> QED
  BY <1>3, <1>4

LEMMA FillSlotStep ==
  ASSUME HInv, NEW j \in Ids, FillSlot(j)
  PROVE  HInv'
<1>1. HashTypes /\ Len(inactive) \in Nat
  BY LenProperties DEF HInv, HashTypes
<1>2. /\ stage[j] = "fill"
      /\ UNCHANGED << implicitProducerHashCount, resizeInProgress, inactive, started >>
      /\ implicitProducerHashCount' \in Int
  BY <1>1 DEF FillSlot, HashTypes
<1>3. CASE KeyThere(j) = invalid_thread_id
  <2>1. SetKey(j, j, producer[j]) /\ Finish(j, producer[j], "alive") /\ "alive" \in Finished
    BY <1>3 DEF FillSlot, Return, Finished
  <2> QED
    BY <1>2, <1>3, <2>1, EnterStep
<1>4. CASE KeyThere(j) # invalid_thread_id
  <2>1. /\ index' = [index EXCEPT ![j] = Slot(j) + 1]
        /\ stage' = [stage EXCEPT ![j] = "reuse"]
        /\ UNCHANGED << tables, own, main, table, newCount, producer >>
    BY <1>4 DEF FillSlot, NextSlot, StepTo
  <2>2. PICK x \in Nat : x = Slot(j) + 1
    BY <1>2, NotThere
  <2>3. index' \in [Ids -> Nat] /\ index'[j] = x /\ \A i \in Ids \ {j} : index'[i] = index[i]
    BY <1>1, <2>1, <2>2 DEF HashTypes
  <2>4. /\ stage' \in [Ids -> HashStages] /\ stage'[j] = "reuse"
        /\ \A i \in Ids \ {j} : stage'[i] = stage[i]
    BY <1>1, <2>1 DEF HashTypes, HashStages, Probing, Finished
  <2>5. HashTypes'
    BY <1>1, <1>2, <2>1, <2>3, <2>4 DEF HashTypes
  <2>6. OnlyThread(j)
    BY <1>1, <1>2, <2>1, <2>3, <2>4 DEF OnlyThread
  <2> QED
    BY <1>2, <1>4, <2>1, <2>2, <2>3, <2>4, <2>5, <2>6, EnterNextStep
<1> QED
  BY <1>3, <1>4

(* A thread that exits leaves its slot to others.                          *)
LEMMA LeaveSlotStep ==
  ASSUME HInv, NEW j \in Ids, LeaveSlot(j)
  PROVE  HInv'
<1>1. /\ HashTypes /\ KeysOK /\ ThreadOK(j) /\ HasOK /\ OneThreadEach
      /\ Len(inactive) \in Nat /\ Len(tables) \in Nat
  BY LenProperties DEF HInv, HashTypes
<1>2. /\ stage[j] = "exit" /\ KeyThere(j) = j
      /\ SetKey(j, invalid_thread_id2, tables[table[j]].value[Slot(j)])
      /\ UNCHANGED << implicitProducerHashCount, resizeInProgress, inactive, started, own, main,
                      table, index, newCount, producer >>
      /\ stage' = [stage EXCEPT ![j] = "older"]
  BY DEF LeaveSlot, StepTo, probe
<1>3. ProbeOK(j) /\ own[j] # 0
  BY <1>1, <1>2 DEF ThreadOK, Probing
<1>4. PICK t \in DOMAIN tables : t = table[j]
  BY <1>3 DEF ProbeOK
<1>5. PICK x \in Slots(t) : x = Slot(j) /\ tables[t].key[x] = j
  BY <1>1, <1>2, <1>3, <1>4, ProbeSees
<1>6. PICK v \in Nat : v = tables[t].value[x]
  BY <1>1, TableShape
<1>7. /\ SetKey(j, invalid_thread_id2, v)
      /\ invalid_thread_id2 \in Ids \union {invalid_thread_id, invalid_thread_id2}
  BY <1>2, <1>4, <1>5, <1>6
<1>8. /\ tables' \in Seq(Tables) /\ Len(tables') = Len(tables) /\ DOMAIN tables' = DOMAIN tables
      /\ tables'[t].key[x] = invalid_thread_id2
      /\ \A h \in DOMAIN tables :
           /\ DOMAIN tables'[h].key = Slots(h)
           /\ \A s \in Slots(h) : h # t \/ s # x =>
                /\ tables'[h].key[s] = tables[h].key[s]
                /\ tables'[h].value[s] = tables[h].value[s]
  BY <1>1, <1>3, <1>4, <1>5, <1>7, SetKeyEffect
<1>9. Evolves(j)
  BY <1>1, <1>5, <1>8 DEF Evolves, Slots
<1>10. /\ stage' \in [Ids -> HashStages] /\ stage'[j] = "older"
       /\ \A i \in Ids \ {j} : stage'[i] = stage[i]
  BY <1>1, <1>2 DEF HashTypes, HashStages, Finished
<1>11. HashTypes'
  BY <1>1, <1>2, <1>8, <1>10 DEF HashTypes
<1>12. OnlyThread(j)
  BY <1>1, <1>2, <1>10 DEF OnlyThread
<1>13. \A s \in Slots(t) : tables'[t].key[s] # j
  <2>1. \A s \in Slots(t) : tables[t].key[s] = j => s = x
    BY <1>1, <1>5 DEF KeysOK, KeyOK
  <2> QED
    BY <1>8, <2>1, HashAssumption
<1>14. \A h \in DOMAIN tables' : h >= t => ~ IsIn(j, h)'
  <2>1. ASSUME NEW h \in DOMAIN tables, h > t PROVE ~ IsIn(j, h)'
    <3>1. ~ IsIn(j, h)
      BY <1>1, <1>2, <1>4, <2>1 DEF ThreadOK
    <3> QED
      BY <1>8, <2>1, <3>1 DEF IsIn, Slots
  <2>2. ~ IsIn(j, t)'
    BY <1>8, <1>13 DEF IsIn, Slots
  <2>3. DOMAIN tables = 1 .. Len(tables)
    BY <1>1, LenProperties DEF HashTypes
  <2> QED
    BY <1>1, <1>8, <2>1, <2>2, <2>3
<1>15. ThreadOK(j)'
  BY <1>2, <1>3, <1>4, <1>8, <1>10, <1>14 DEF ThreadOK, Probing, Entering
<1>16. ASSUME NEW h \in DOMAIN tables', NEW s \in DOMAIN tables'[h].key, tables'[h].key[s] = j
       PROVE  KeyOK(j, h, s)'
  <2>1. h \in DOMAIN tables /\ s \in Slots(h) /\ h # t
    BY <1>8, <1>13, <1>16
  <2>2. \A r \in Slots(h) : /\ tables'[h].key[r] = tables[h].key[r]
                            /\ tables'[h].value[r] = tables[h].value[r]
    BY <1>8, <2>1
  <2>3. KeyOK(j, h, s)
    BY <1>1, <1>16, <2>1, <2>2 DEF KeysOK
  <2>4. PICK d \in Nat : /\ s = Path(j, h, d)
                         /\ \A e \in 0 .. d - 1 :
                              tables[h].key[Path(j, h, e)] # invalid_thread_id
    BY <2>3 DEF KeyOK
  <2>5. \A e \in 0 .. d - 1 : Path(j, h, e) \in Slots(h)
    BY <1>1, <2>1, PathInTable
  <2>6. \A e \in 0 .. d - 1 : tables'[h].key[Path(j, h, e)] # invalid_thread_id
    BY <2>2, <2>4, <2>5
  <2>7. Slots(h)' = Slots(h) /\ \A e : Path(j, h, e)' = Path(j, h, e)
    BY <1>1, <1>9, <2>1, Evolution
  <2> QED
    BY <1>2, <2>1, <2>2, <2>3, <2>4, <2>6, <2>7 DEF KeyOK
<1>17. OwnersOK(j)
  <2>1. Has(j)' = own[j] /\ Has(j) = own[j]
    BY <1>2, <1>3 DEF Has
  <2>2. own[j] \in 1 .. Len(inactive) /\ ~ inactive[own[j]]
    BY <1>1, <1>3, <2>1 DEF HasOK, OneThreadEach
  <2>3. \A i \in Ids \ {j} : Has(i) # own[j]
    BY <1>1, <1>3, <2>1 DEF OneThreadEach
  <2>4. \A i \in Ids \ {j} : Has(i) # 0 => ~ inactive[Has(i)]
    BY <1>1 DEF OneThreadEach
  <2> QED
    BY <1>2, <2>1, <2>2, <2>3, <2>4 DEF OwnersOK
<1> QED
  BY <1>9, <1>11, <1>12, <1>15, <1>16, <1>17, StepKeeps

-----------------------------------------------------------------------------
LEMMA HashInitially ==
  ASSUME HashInit
  PROVE  HInv
<1>1. InitialSize \in Nat \ {0}
  BY HashAssumption
<1>2. EmptyTable(InitialSize) \in Tables
  BY <1>1 DEF EmptyTable, Tables
<1>3. /\ tables \in Seq(Tables) /\ Len(tables) = 1 /\ DOMAIN tables = {1}
      /\ tables[1] = EmptyTable(InitialSize)
  BY <1>2 DEF HashInit
<1>4. inactive \in Seq(BOOLEAN) /\ Len(inactive) = 0
  BY DEF HashInit
<1>5. HashTypes
  <2>1. /\ own \in [Ids -> Nat] /\ stage \in [Ids -> HashStages]
        /\ main \in [Ids -> Nat] /\ table \in [Ids -> Nat] /\ index \in [Ids -> Nat]
        /\ newCount \in [Ids -> Int] /\ producer \in [Ids -> Nat]
    BY DEF HashInit, HashStages, Finished
  <2>2. resizeInProgress \in BOOLEAN
    BY DEF HashInit
  <2>3. implicitProducerHashCount \in Int /\ started \in Nat
    BY DEF HashInit
  <2> QED
    BY <1>3, <1>4, <2>1, <2>2, <2>3 DEF HashTypes
<1>6. KeysOK
  <2>1. \A s \in DOMAIN tables[1].key : tables[1].key[s] = invalid_thread_id
    BY <1>3 DEF EmptyTable
  <2> QED
    BY <1>3, <2>1, HashAssumption DEF KeysOK, Slots
<1>7. \A i \in Ids : ThreadOK(i)
  BY DEF HashInit, ThreadOK, Probing, Entering
<1>8. HasOK /\ OneThreadEach
  BY <1>4 DEF HashInit, HasOK, OneThreadEach, Has
<1> QED
  BY <1>3, <1>5, <1>6, <1>7, <1>8 DEF HInv

LEMMA HashNextStep ==
  ASSUME HInv, [HashNext]_hashVars
  PROVE  HInv'
<1>1. CASE UNCHANGED hashVars
  BY <1>1 DEF hashVars, HInv, HashTypes, KeysOK, KeyOK, ThreadOK, ProbeOK, HasOK, OneThreadEach,
     Has, IsIn, Slots, Path, Slot, Capacity
<1>2. ASSUME NEW j \in Ids,
             \/ ThreadStarts(j) \/ get_or_add_implicit_producer(j)
             \/ Found(j) \/ FoundInOlder(j) \/ LookOn(j) \/ LookInOlder(j) \/ Copy(j)
             \/ CountThread(j) \/ Grow(j) \/ Allocate(j) \/ NoMemory(j) \/ ReleaseResize(j)
             \/ ClearResize(j) \/ DoNotGrow(j) \/ Wait(j) \/ Search(j)
             \/ CreateProducer(j) \/ NoMemoryForProducer(j) \/ SkipProducer(j)
             \/ RecycleProducer(j) \/ ReuseSlot(j) \/ UncountThread(j) \/ FillSlot(j)
             \/ ThreadExits(j) \/ LeaveSlot(j) \/ PassSlot(j) \/ LeaveOlder(j) \/ MarkInactive(j)
      PROVE  HInv'
  BY <1>2, ThreadStartsStep, get_or_add_implicit_producerStep, FoundStep, FoundInOlderStep,
     LookOnStep, LookInOlderStep, CopyStep, CountThreadStep, GrowStep, AllocateStep,
     NoMemoryStep, FinishedStep, ClearResizeStep, DoNotGrowStep, WaitStep, SearchStep, CreateProducerStep,
     SkipProducerStep, RecycleProducerStep, ReuseSlotStep, FillSlotStep, ThreadExitsStep,
     LeaveSlotStep, PassSlotStep, LeaveOlderStep, MarkInactiveStep
<1> QED
  BY <1>1, <1>2 DEF HashNext, HashStep

THEOREM HashInvariance == HashSpec => []HInv
<1>1. HashInit => HInv
  BY HashInitially
<1>2. HInv /\ [HashNext]_hashVars => HInv'
  BY HashNextStep
<1> QED
  BY <1>1, <1>2, PTL DEF HashSpec

(* ImplicitProducer::enqueue is for one thread at a time: however many     *)
(* tables there are, whichever threads have the same hash and whoever had  *)
(* the producer before.                                                    *)
THEOREM ProducersAreNotShared == HashSpec => []OneThreadEach
<1>1. HInv => OneThreadEach
  BY DEF HInv
<1> QED
  BY <1>1, HashInvariance, PTL

(* The only call that sets own is the one that returns what was found.     *)
LEMMA OwnKept ==
  ASSUME HInv, [HashNext]_hashVars, NEW i \in Ids, own[i] # 0, stage'[i] # "dead"
  PROVE  own'[i] = own[i]
<1>1. HashTypes /\ KeysOK /\ ThreadOK(i)
  BY DEF HInv
<1>2. CASE UNCHANGED hashVars
  BY <1>2 DEF hashVars
<1>3. ASSUME NEW j \in Ids, NEW p \in Nat, NEW l \in Finished, Finish(j, p, l),
             j = i => p = own[i]
      PROVE  own'[i] = own[i]
  BY <1>1, <1>3 DEF Finish, HashTypes
<1>4. ASSUME NEW j \in Ids, Found(j) PROVE own'[i] = own[i]
  <2>1. HashTypes /\ KeysOK /\ ThreadOK(j)
    BY DEF HInv
  <2>2. ProbeOK(j) /\ table[j] \in DOMAIN tables /\ KeyThere(j) = j
    BY <1>4, <2>1 DEF Found, ThreadOK, ProbeOK, Probing
  <2>3. Slot(j) \in Slots(table[j]) /\ tables[table[j]].key[Slot(j)] = j
    BY <2>1, <2>2, ProbeSees
  <2>4. own[j] \in Nat /\ tables[table[j]].value[Slot(j)] = own[j]
    BY <2>1, <2>2, <2>3 DEF KeysOK, KeyOK, HashTypes
  <2>5. Finish(j, own[j], "alive") /\ "alive" \in Finished
    BY <1>4, <2>4 DEF Found, Return, Finished
  <2> QED
    BY <1>3, <2>4, <2>5
<1>5. ASSUME NEW j \in Ids, Copy(j) PROVE own'[i] = own[i]
  <2>1. HashTypes /\ ThreadOK(j)
    BY DEF HInv
  <2>2. producer[j] = own[j] /\ own[j] \in Nat
    BY <1>5, <2>1 DEF Copy, ThreadOK, HashTypes
  <2>3. UNCHANGED own \/ \E l \in Finished : Finish(j, own[j], l)
    BY <1>5, <2>2 DEF Copy, Return, Finished
  <2> QED
    BY <1>3, <2>2, <2>3
<1>6. ASSUME NEW j \in Ids,
             NoMemory(j) \/ NoMemoryForProducer(j) \/ ReuseSlot(j) \/ FillSlot(j)
      PROVE  own'[i] = own[i]
  <2>1. HashTypes /\ ThreadOK(j)
    BY DEF HInv
  <2>2. stage[j] \in Entering /\ own[j] = 0
    BY <1>6, <2>1 DEF NoMemory, NoMemoryForProducer, ReuseSlot, FillSlot, ThreadOK, Entering
  <2>3. producer[j] \in Nat /\ 0 \in Nat /\ j # i
    BY <2>1, <2>2 DEF HashTypes
  <2>4. UNCHANGED own \/ \E p \in Nat, l \in Finished : Finish(j, p, l)
    BY <1>6, <2>3 DEF NoMemory, NoMemoryForProducer, ReuseSlot, FillSlot, Return, Finished
  <2> QED
    BY <1>3, <2>3, <2>4
<1>7. ASSUME NEW j \in Ids, MarkInactive(j) PROVE own'[i] = own[i]
  <2>1. j # i
    BY <1>1, <1>7 DEF MarkInactive, StepTo, HashTypes
  <2> QED
    BY <1>1, <1>7, <2>1 DEF MarkInactive, HashTypes
<1>8. ASSUME NEW j \in Ids,
             \/ ThreadStarts(j) \/ get_or_add_implicit_producer(j)
             \/ FoundInOlder(j) \/ LookOn(j) \/ LookInOlder(j) \/ CountThread(j) \/ Grow(j)
             \/ Allocate(j) \/ ReleaseResize(j) \/ ClearResize(j) \/ DoNotGrow(j) \/ Wait(j)
             \/ Search(j) \/ CreateProducer(j) \/ SkipProducer(j) \/ RecycleProducer(j)
             \/ UncountThread(j) \/ ThreadExits(j) \/ LeaveSlot(j) \/ PassSlot(j) \/ LeaveOlder(j)
      PROVE  own'[i] = own[i]
  <2>1. UNCHANGED own
    BY <1>8 DEF ThreadStarts, get_or_add_implicit_producer, FoundInOlder, LookOn, LookInOlder,
       CountThread, Grow, Allocate, ReleaseResize, ClearResize, DoNotGrow, Wait, Search,
       CreateProducer, SkipProducer, RecycleProducer, UncountThread, ThreadExits, LeaveSlot, PassSlot, LeaveOlder, shared
  <2> QED
    BY <2>1
<1> QED
  BY <1>2, <1>4, <1>5, <1>6, <1>7, <1>8 DEF HashNext, HashStep

(* A thread's elements stay in one sub-queue and in order: each call gives *)
(* it the producer of the call before, also from a table that has grown,   *)
(* until it exits.                                                         *)
THEOREM ThreadsKeepTheirProducer == HashSpec => KeepsProducer
<1>1. HInv /\ [HashNext]_hashVars =>
        [\A i \in Ids : own[i] # 0 /\ stage'[i] # "dead" => own'[i] = own[i]]_hashVars
  BY OwnKept
<1> QED
  BY <1>1, HashInvariance, PTL DEF HashSpec, KeepsProducer

-----------------------------------------------------------------------------
(* How full a table can be.  A thread fills at most one empty slot of a    *)
(* table, because its id is in a table once until it exits, and never      *)
(* after it has begun to.                                                  *)
Filled(h) == { s \in Slots(h) : tables[h].key[s] # invalid_thread_id }
Living == { i \in Ids : stage[i] # "dead" }
Gone == {"dead", "exit", "older"}
MayFill(h) == { i \in Ids : stage[i] \notin Gone /\ ~ IsIn(i, h) }

FillInv ==
  /\ IsFiniteSet(Living) /\ Cardinality(Living) <= started
  /\ \A h \in DOMAIN tables : Cardinality(Filled(h)) + Cardinality(MayFill(h)) <= started

LEMMA FillFinite ==
  ASSUME HashTypes, FillInv, NEW h \in DOMAIN tables
  PROVE  /\ IsFiniteSet(Filled(h)) /\ Cardinality(Filled(h)) \in Nat
         /\ IsFiniteSet(MayFill(h)) /\ Cardinality(MayFill(h)) \in Nat
         /\ Cardinality(Filled(h)) <= Capacity(h) /\ started \in Nat
<1>1. Capacity(h) \in Nat \ {0} /\ Slots(h) = 0 .. Capacity(h) - 1
  BY TableShape
<1>2. 0 \in Int /\ Capacity(h) - 1 \in Int
  BY <1>1
<1>3. IsFiniteSet(Slots(h)) /\ Cardinality(Slots(h)) = Capacity(h)
  BY <1>1, <1>2, FS_Interval DEF Capacity, Slots
<1>4. Filled(h) \in SUBSET Slots(h) /\ MayFill(h) \in SUBSET Living
  BY DEF Filled, MayFill, Living, Gone
<1>5. IsFiniteSet(Filled(h)) /\ Cardinality(Filled(h)) <= Cardinality(Slots(h))
  BY <1>3, <1>4, FS_Subset
<1>6. IsFiniteSet(MayFill(h))
  BY <1>4, FS_Subset DEF FillInv
<1>7. Cardinality(Filled(h)) \in Nat /\ Cardinality(MayFill(h)) \in Nat
  BY <1>5, <1>6, FS_CardinalityType
<1> QED
  BY <1>3, <1>5, <1>6, <1>7 DEF HashTypes

(* A step of thread j that leaves the tables alone and starts nobody.      *)
QuietStep(j) ==
  /\ tables' = tables /\ started' = started
  /\ \A i \in Ids \ {j} : stage'[i] = stage[i]
  /\ stage[j] # "dead" /\ (stage'[j] \notin Gone => stage[j] \notin Gone)

LEMMA QuietFill ==
  ASSUME HashTypes, FillInv, NEW j \in Ids, QuietStep(j)
  PROVE  FillInv'
<1>1. Living' \in SUBSET Living /\ IsFiniteSet(Living)
  BY DEF QuietStep, Living, FillInv
<1>2. /\ IsFiniteSet(Living') /\ Cardinality(Living') <= Cardinality(Living)
      /\ Cardinality(Living') \in Nat /\ Cardinality(Living) \in Nat
  BY <1>1, FS_Subset, FS_CardinalityType
<1>3. started' = started /\ started \in Nat /\ Cardinality(Living) <= started
  BY DEF QuietStep, HashTypes, FillInv
<1>4. IsFiniteSet(Living)' /\ Cardinality(Living)' <= started'
  BY <1>2, <1>3
<1>5. ASSUME NEW h \in DOMAIN tables
      PROVE  Cardinality(Filled(h)') + Cardinality(MayFill(h)') <= started
  <2>1. Filled(h)' = Filled(h)
    BY DEF QuietStep, Filled, Slots
  <2>2. \A i \in Ids : IsIn(i, h)' = IsIn(i, h)
    BY DEF QuietStep, IsIn, Slots
  <2>3. MayFill(h)' \in SUBSET MayFill(h)
    BY <2>2 DEF QuietStep, MayFill
  <2>4. IsFiniteSet(MayFill(h)') /\ Cardinality(MayFill(h)') <= Cardinality(MayFill(h))
    BY <2>3, FillFinite, FS_Subset
  <2>5. Cardinality(MayFill(h)') \in Nat
    BY <2>4, FS_CardinalityType
  <2>6. /\ Cardinality(Filled(h)) + Cardinality(MayFill(h)) <= started
        /\ Cardinality(Filled(h)) \in Nat /\ Cardinality(MayFill(h)) \in Nat
    BY FillFinite DEF FillInv
  <2> QED
    BY <1>3, <2>1, <2>4, <2>5, <2>6
<1>6. DOMAIN tables' = DOMAIN tables
  BY DEF QuietStep
<1> QED
  BY <1>3, <1>4, <1>5, <1>6 DEF FillInv

LEMMA QuietActions ==
  ASSUME HInv, NEW j \in Ids,
         \/ get_or_add_implicit_producer(j)
         \/ Found(j) \/ FoundInOlder(j) \/ LookOn(j) \/ LookInOlder(j)
         \/ CountThread(j) \/ Grow(j) \/ NoMemory(j) \/ ReleaseResize(j) \/ ClearResize(j)
         \/ DoNotGrow(j) \/ Wait(j) \/ Search(j) \/ CreateProducer(j)
         \/ NoMemoryForProducer(j) \/ SkipProducer(j) \/ RecycleProducer(j) \/ UncountThread(j)
         \/ ThreadExits(j) \/ PassSlot(j) \/ LeaveOlder(j) \/ MarkInactive(j)
  PROVE  QuietStep(j)
<1>1. stage \in [Ids -> HashStages]
  BY DEF HInv, HashTypes
<1>2. ASSUME NEW l, tables' = tables, started' = started, stage' = [stage EXCEPT ![j] = l],
             stage[j] # "dead", l \notin Gone => stage[j] \notin Gone
      PROVE  QuietStep(j)
  BY <1>1, <1>2 DEF QuietStep
<1>3. CASE get_or_add_implicit_producer(j) \/ CountThread(j) \/ ReleaseResize(j) \/ UncountThread(j)
  BY <1>2, <1>3
  DEF get_or_add_implicit_producer, CountThread, ReleaseResize, UncountThread, StepTo, shared, Gone
<1>4. CASE Found(j) \/ NoMemory(j) \/ NoMemoryForProducer(j)
  BY <1>2, <1>4 DEF Found, NoMemory, NoMemoryForProducer, Return, Finish, StepTo, Gone
<1>5. CASE FoundInOlder(j) \/ ClearResize(j) \/ DoNotGrow(j) \/ Search(j)
  BY <1>2, <1>5 DEF FoundInOlder, ClearResize, DoNotGrow, Search, StepTo, shared, Gone
<1>6. CASE Wait(j) \/ CreateProducer(j) \/ RecycleProducer(j)
  BY <1>2, <1>6 DEF Wait, CreateProducer, RecycleProducer, StepTo, shared, Gone
<1>7. ASSUME UNCHANGED << tables, started, stage >>, stage[j] # "dead" PROVE QuietStep(j)
  BY <1>7 DEF QuietStep
<1>8. CASE LookOn(j) \/ LookInOlder(j) \/ SkipProducer(j)
  BY <1>7, <1>8 DEF LookOn, LookInOlder, SkipProducer, shared
<1>9. CASE ThreadExits(j)
  <2>1. PICK l \in {"dead", "exit"} : stage' = [stage EXCEPT ![j] = l]
    BY <1>9 DEF ThreadExits, StepTo
  <2> QED
    BY <1>2, <1>9, <2>1 DEF ThreadExits, shared, Gone
<1>10. CASE PassSlot(j)
  <2>1. stage' = [stage EXCEPT ![j] = "older"] \/ stage' = stage
    BY <1>10 DEF PassSlot, StepTo
  <2>2. stage[j] = "exit" /\ UNCHANGED << tables, started >>
    BY <1>10 DEF PassSlot, shared
  <2> QED
    BY <1>2, <1>7, <2>1, <2>2 DEF Gone
<1>11. CASE LeaveOlder(j) \/ MarkInactive(j)
  BY <1>2, <1>11 DEF LeaveOlder, MarkInactive, StepTo, shared, Gone
<1>12. CASE Grow(j)
  BY <1>2, <1>12 DEF Grow, StepTo, Gone
<1> QED
  BY <1>3, <1>4, <1>5, <1>6, <1>8, <1>9, <1>10, <1>11, <1>12

(* The other ids of a table whose one slot thread j writes.                *)
LEMMA SlotWritten ==
  ASSUME HashTypes, NEW j \in Ids, ProbeOK(j), NEW v \in Nat,
         NEW k \in {j, invalid_thread_id2}, SetKey(j, k, v), KeyThere(j) \notin Ids \ {j},
         \A i \in Ids \ {j} : stage'[i] = stage[i],
         NEW t \in DOMAIN tables, t = table[j], NEW x, x = Slot(j)
  PROVE  /\ DOMAIN tables' = DOMAIN tables /\ x \in Slots(t)
         /\ \A h \in DOMAIN tables :
              /\ MayFill(h)' \ {j} = MayFill(h) \ {j}
              /\ h # t => Filled(h)' = Filled(h) /\ IsIn(j, h)' = IsIn(j, h)
         /\ Filled(t)' = Filled(t) \union {x}
         /\ k = j => IsIn(j, t)'
<1>2. x \in Slots(t) /\ tables[t].key[x] \notin Ids \ {j}
  BY ProbeSees
<1>3. /\ DOMAIN tables' = DOMAIN tables /\ tables'[t].key[x] = k
      /\ \A h \in DOMAIN tables :
           /\ DOMAIN tables'[h].key = Slots(h)
           /\ \A s \in Slots(h) : h # t \/ s # x => tables'[h].key[s] = tables[h].key[s]
  <2>1. k \in Ids \union {invalid_thread_id, invalid_thread_id2}
    OBVIOUS
  <2> QED
    BY <1>2, <2>1, SetKeyEffect
<1>4. k \notin Ids \ {j} /\ k # invalid_thread_id
  BY HashAssumption
<1>5. ASSUME NEW h \in DOMAIN tables
      PROVE  Slots(h)' = Slots(h)
  BY <1>3 DEF Slots
<1>6. ASSUME NEW h \in DOMAIN tables, NEW i \in Ids \ {j}
      PROVE  i \in MayFill(h)' <=> i \in MayFill(h)
  <2>1. \A s \in Slots(h) : tables'[h].key[s] = i <=> tables[h].key[s] = i
    BY <1>2, <1>3, <1>4
  <2>2. IsIn(i, h)' <=> IsIn(i, h)
    BY <1>5, <2>1 DEF IsIn
  <2>3. stage'[i] = stage[i]
    OBVIOUS
  <2> QED
    BY <2>2, <2>3 DEF MayFill
<1>7. ASSUME NEW h \in DOMAIN tables PROVE MayFill(h)' \ {j} = MayFill(h) \ {j}
  BY <1>6 DEF MayFill
<1>8. ASSUME NEW h \in DOMAIN tables, h # t
      PROVE  Filled(h)' = Filled(h) /\ IsIn(j, h)' = IsIn(j, h)
  BY <1>3, <1>5, <1>8 DEF Filled, IsIn
<1>9. Filled(t)' = Filled(t) \union {x}
  BY <1>2, <1>3, <1>4, <1>5 DEF Filled
<1>10. k = j => IsIn(j, t)'
  BY <1>2, <1>3, <1>5 DEF IsIn
<1> QED
  BY <1>2, <1>3, <1>5, <1>7, <1>8, <1>9, <1>10

(* What is left of the invariant when the ids are counted.                 *)
LEMMA CountedFill ==
  ASSUME HashTypes, FillInv, NEW j \in Ids, DOMAIN tables' = DOMAIN tables,
         started' = started, stage[j] # "dead",
         \A i \in Ids \ {j} : stage'[i] = stage[i],
         \A h \in DOMAIN tables : Cardinality(Filled(h)') + Cardinality(MayFill(h)') <= started
  PROVE  FillInv'
<1>1. Living' \in SUBSET Living /\ IsFiniteSet(Living)
  BY DEF Living, FillInv
<1>2. /\ IsFiniteSet(Living') /\ Cardinality(Living') <= Cardinality(Living)
      /\ Cardinality(Living') \in Nat /\ Cardinality(Living) \in Nat
  BY <1>1, FS_Subset, FS_CardinalityType
<1>3. started' = started /\ started \in Nat /\ Cardinality(Living) <= started
  BY DEF HashTypes, FillInv
<1>4. IsFiniteSet(Living)' /\ Cardinality(Living)' <= started'
  BY <1>2, <1>3
<1> QED
  BY <1>3, <1>4 DEF FillInv

(* An id that is entered takes a slot, and is no longer about to.          *)
LEMMA EnterFill ==
  ASSUME HInv, FillInv, NEW j \in Ids, stage[j] \in {"copy", "reuse", "fill"},
         KeyThere(j) \in {invalid_thread_id, invalid_thread_id2},
         NEW l \in Finished, SetKey(j, j, producer[j]), Finish(j, producer[j], l), started' = started
  PROVE  FillInv'
<1>1. HashTypes /\ stage \in [Ids -> HashStages] /\ producer[j] \in Nat
  BY DEF HInv, HashTypes
<1>2. ProbeOK(j) /\ ~ IsIn(j, table[j]) /\ KeyThere(j) \notin Ids \ {j}
  BY NotThere, HashAssumption
<1>3. PICK t \in DOMAIN tables : t = table[j]
  BY <1>2 DEF ProbeOK
<1>4. PICK x : x = Slot(j)
  OBVIOUS
<1>5. stage'[j] = l /\ \A i \in Ids \ {j} : stage'[i] = stage[i]
  BY <1>1 DEF Finish, StepTo
<1>6. /\ DOMAIN tables' = DOMAIN tables
      /\ \A h \in DOMAIN tables :
           /\ MayFill(h)' \ {j} = MayFill(h) \ {j}
           /\ h # t => Filled(h)' = Filled(h) /\ IsIn(j, h)' = IsIn(j, h)
      /\ Filled(t)' = Filled(t) \union {x} /\ IsIn(j, t)'
  BY <1>1, <1>2, <1>3, <1>4, <1>5, SlotWritten
<1>7. ASSUME NEW h \in DOMAIN tables
      PROVE  Cardinality(Filled(h)') + Cardinality(MayFill(h)') <= started
  <2>1. /\ IsFiniteSet(Filled(h)) /\ IsFiniteSet(MayFill(h)) /\ started \in Nat
        /\ Cardinality(Filled(h)) \in Nat /\ Cardinality(MayFill(h)) \in Nat
        /\ Cardinality(Filled(h)) + Cardinality(MayFill(h)) <= started
    BY <1>1, FillFinite DEF FillInv
  <2>2. CASE h = t
    <3>1. j \in MayFill(h) /\ j \notin MayFill(h)'
      BY <1>2, <1>3, <1>6, <2>2 DEF MayFill, Gone
    <3>2. MayFill(h)' = MayFill(h) \ {j}
      BY <1>6, <3>1
    <3>3. Cardinality(MayFill(h)') = Cardinality(MayFill(h)) - 1
      BY <2>1, <3>1, <3>2, FS_RemoveElement
    <3>4. Cardinality(Filled(h)') \in {Cardinality(Filled(h)), Cardinality(Filled(h)) + 1}
      <4>1. Filled(h)' = Filled(h) \union {x}
        BY <1>6, <2>2
      <4>2. Cardinality(Filled(h) \union {x}) \in {Cardinality(Filled(h)), Cardinality(Filled(h)) + 1}
        BY <2>1, FS_AddElement
      <4> QED
        BY <4>1, <4>2
    <3> QED
      BY <2>1, <3>3, <3>4
  <2>3. CASE h # t
    <3>1. Filled(h)' = Filled(h) /\ IsIn(j, h)' = IsIn(j, h)
      BY <1>6, <2>3
    <3>2. stage[j] \notin Gone /\ stage'[j] \notin Gone
      BY <1>5 DEF Gone, Finished
    <3>3. j \in MayFill(h)' <=> j \in MayFill(h)
      BY <3>1, <3>2 DEF MayFill
    <3>4. MayFill(h)' = MayFill(h)
      BY <1>6, <3>3
    <3> QED
      BY <2>1, <3>1, <3>4
  <2> QED
    BY <2>2, <2>3
<1> QED
  BY <1>1, <1>5, <1>6, <1>7, CountedFill

(* A slot that is left stays filled.                                       *)
LEMMA LeaveFill ==
  ASSUME HInv, FillInv, NEW j \in Ids, LeaveSlot(j)
  PROVE  FillInv'
<1>1. HashTypes /\ stage \in [Ids -> HashStages] /\ ThreadOK(j)
  BY DEF HInv, HashTypes
<1>2. /\ stage[j] = "exit" /\ KeyThere(j) = j /\ started' = started
      /\ SetKey(j, invalid_thread_id2, tables[table[j]].value[Slot(j)])
      /\ stage' = [stage EXCEPT ![j] = "older"]
  BY DEF LeaveSlot, StepTo
<1>3. ProbeOK(j) /\ KeyThere(j) \notin Ids \ {j}
  BY <1>1, <1>2 DEF ThreadOK, Probing
<1>4. PICK t \in DOMAIN tables : t = table[j]
  BY <1>3 DEF ProbeOK
<1>5. PICK x \in Slots(t) : x = Slot(j) /\ tables[t].key[x] = j
  BY <1>1, <1>2, <1>3, <1>4, ProbeSees
<1>6. PICK v \in Nat : v = tables[t].value[x]
  BY <1>1, TableShape
<1>7. SetKey(j, invalid_thread_id2, v)
  BY <1>2, <1>4, <1>5, <1>6
<1>8. stage'[j] = "older" /\ \A i \in Ids \ {j} : stage'[i] = stage[i]
  BY <1>1, <1>2
<1>9. /\ DOMAIN tables' = DOMAIN tables
      /\ \A h \in DOMAIN tables :
           /\ MayFill(h)' \ {j} = MayFill(h) \ {j}
           /\ h # t => Filled(h)' = Filled(h)
      /\ Filled(t)' = Filled(t) \union {x}
  BY <1>1, <1>3, <1>4, <1>5, <1>7, <1>8, SlotWritten
<1>10. x \in Filled(t)
  BY <1>5, HashAssumption DEF Filled
<1>11. ASSUME NEW h \in DOMAIN tables
       PROVE  Cardinality(Filled(h)') + Cardinality(MayFill(h)') <= started
  <2>1. Filled(h)' = Filled(h)
    BY <1>9, <1>10
  <2>2. j \notin MayFill(h) /\ j \notin MayFill(h)'
    BY <1>2, <1>8 DEF MayFill, Gone
  <2>3. MayFill(h)' = MayFill(h)
    BY <1>9, <2>2
  <2> QED
    BY <2>1, <2>3 DEF FillInv
<1> QED
  BY <1>1, <1>2, <1>8, <1>9, <1>11, CountedFill

(* A thread that starts may fill a slot of each table.                     *)
LEMMA StartFill ==
  ASSUME HInv, FillInv, NEW j \in Ids, ThreadStarts(j)
  PROVE  FillInv'
<1>1. HashTypes /\ started \in Nat /\ stage \in [Ids -> HashStages]
  BY DEF HInv, HashTypes
<1>2. /\ stage[j] = "dead" /\ started' = started + 1 /\ UNCHANGED tables
      /\ stage' = [stage EXCEPT ![j] = "alive"]
  BY DEF ThreadStarts, StepTo
<1>3. stage'[j] = "alive" /\ \A i \in Ids \ {j} : stage'[i] = stage[i]
  BY <1>1, <1>2
<1>4. Living' = Living \union {j} /\ j \notin Living
  BY <1>2, <1>3 DEF Living
<1>5. IsFiniteSet(Living) /\ Cardinality(Living) \in Nat /\ Cardinality(Living) <= started
  BY FS_CardinalityType DEF FillInv
<1>6. IsFiniteSet(Living') /\ Cardinality(Living') = Cardinality(Living) + 1
  BY <1>4, <1>5, FS_AddElement
<1>7. ASSUME NEW h \in DOMAIN tables
      PROVE  Cardinality(Filled(h)') + Cardinality(MayFill(h)') <= started'
  <2>1. Filled(h)' = Filled(h)
    BY <1>2 DEF Filled, Slots
  <2>2. \A i \in Ids : IsIn(i, h)' = IsIn(i, h)
    BY <1>2 DEF IsIn, Slots
  <2>3. MayFill(h)' \in SUBSET (MayFill(h) \union {j})
    BY <1>3, <2>2 DEF MayFill
  <2>4. /\ IsFiniteSet(MayFill(h)) /\ Cardinality(MayFill(h)) \in Nat
        /\ Cardinality(Filled(h)) \in Nat
        /\ Cardinality(Filled(h)) + Cardinality(MayFill(h)) <= started
    BY <1>1, FillFinite DEF FillInv
  <2>5. /\ IsFiniteSet(MayFill(h) \union {j})
        /\ Cardinality(MayFill(h) \union {j}) \in
             {Cardinality(MayFill(h)), Cardinality(MayFill(h)) + 1}
    BY <2>4, FS_AddElement
  <2>6. IsFiniteSet(MayFill(h)') /\ Cardinality(MayFill(h)') <= Cardinality(MayFill(h) \union {j})
    BY <2>3, <2>5, FS_Subset
  <2>7. Cardinality(MayFill(h)') \in Nat
    BY <2>6, FS_CardinalityType
  <2> QED
    BY <1>1, <1>2, <2>1, <2>4, <2>5, <2>6, <2>7
<1>8. Cardinality(Living') <= started' /\ DOMAIN tables' = DOMAIN tables
  BY <1>1, <1>2, <1>5, <1>6
<1> QED
  BY <1>6, <1>7, <1>8 DEF FillInv

(* A new table is empty.                                                   *)
LEMMA AllocateFill ==
  ASSUME HInv, FillInv, NEW j \in Ids, Allocate(j)
  PROVE  FillInv'
<1>1. /\ HashTypes /\ stage \in [Ids -> HashStages] /\ Len(tables) \in Nat
      /\ DOMAIN tables = 1 .. Len(tables) /\ started \in Nat
  BY LenProperties DEF HInv, HashTypes
<1>2. PICK n \in NotCrowded(j) : tables' = Append(tables, EmptyTable(n))
  BY DEF Allocate
<1>3. PICK m \in Nat : m = Len(tables) + 1
  BY <1>1
<1>4. /\ DOMAIN tables' = DOMAIN tables \union {m} /\ tables'[m] = EmptyTable(n)
      /\ \A h \in DOMAIN tables : tables'[h] = tables[h]
  BY <1>1, <1>2, <1>3 DEF HashTypes
<1>5. /\ stage[j] = "allocate" /\ started' = started
      /\ stage'[j] = "clear" /\ \A i \in Ids \ {j} : stage'[i] = stage[i]
  BY <1>1 DEF Allocate, StepTo
<1>6. Living' = Living
  BY <1>5 DEF Living
<1>7. ASSUME NEW h \in DOMAIN tables
      PROVE  Cardinality(Filled(h)') + Cardinality(MayFill(h)') <= started
  <2>1. tables'[h] = tables[h]
    BY <1>4
  <2>2. Filled(h)' = Filled(h)
    BY <2>1 DEF Filled, Slots
  <2>3. \A i \in Ids : IsIn(i, h)' = IsIn(i, h)
    BY <2>1 DEF IsIn, Slots
  <2>4. MayFill(h)' = MayFill(h)
    BY <1>5, <2>3 DEF MayFill, Gone
  <2> QED
    BY <2>2, <2>4 DEF FillInv
<1>8. Cardinality(Filled(m)') + Cardinality(MayFill(m)') <= started
  <2>1. Filled(m)' = {}
    BY <1>4 DEF Filled, Slots, EmptyTable
  <2>2. MayFill(m)' \in SUBSET Living
    BY <1>5 DEF MayFill, Living, Gone
  <2>3. IsFiniteSet(Living) /\ Cardinality(Living) \in Nat /\ Cardinality(Living) <= started
    BY FS_CardinalityType DEF FillInv
  <2>4. IsFiniteSet(MayFill(m)') /\ Cardinality(MayFill(m)') <= Cardinality(Living)
    BY <2>2, <2>3, FS_Subset
  <2>5. Cardinality(MayFill(m)') \in Nat /\ Cardinality(Filled(m)') = 0
    BY <2>1, <2>4, FS_CardinalityType, FS_EmptySet
  <2> QED
    BY <1>1, <2>3, <2>4, <2>5
<1> QED
  BY <1>4, <1>5, <1>6, <1>7, <1>8 DEF FillInv

LEMMA FillInitially ==
  ASSUME HashInit
  PROVE  FillInv
<1>1. tables = << EmptyTable(InitialSize) >> /\ started = 0 /\ \A i \in Ids : stage[i] = "dead"
  BY DEF HashInit
<1>2. Living = {} /\ IsFiniteSet(Living) /\ Cardinality(Living) = 0
  BY <1>1, FS_EmptySet DEF Living
<1>3. DOMAIN tables = {1} /\ Filled(1) = {} /\ MayFill(1) = {}
  <2>1. DOMAIN tables = {1} /\ tables[1] = EmptyTable(InitialSize)
    BY <1>1
  <2> QED
    BY <1>1, <2>1 DEF Filled, MayFill, Slots, EmptyTable, Gone
<1>4. Cardinality(Filled(1)) = 0 /\ Cardinality(MayFill(1)) = 0
  BY <1>3, FS_EmptySet
<1> QED
  BY <1>1, <1>2, <1>3, <1>4 DEF FillInv

LEMMA FillNextStep ==
  ASSUME HInv, FillInv, [HashNext]_hashVars
  PROVE  FillInv'
<1>1. HashTypes
  BY DEF HInv
<1>2. CASE UNCHANGED hashVars
  BY <1>2 DEF hashVars, FillInv, Living, Filled, MayFill, IsIn, Slots
<1>3. ASSUME NEW j \in Ids, Copy(j) \/ ReuseSlot(j) \/ FillSlot(j) PROVE FillInv'
  <2>1. stage[j] \in {"copy", "reuse", "fill"} /\ started' = started
    BY <1>3 DEF Copy, ReuseSlot, FillSlot
  <2>2. CASE /\ KeyThere(j) \in {invalid_thread_id, invalid_thread_id2}
             /\ SetKey(j, j, producer[j])
             /\ \E l \in Finished : Finish(j, producer[j], l)
    BY <2>1, <2>2, EnterFill
  <2>3. CASE /\ UNCHANGED tables
             /\ UNCHANGED stage \/ \E l \in {"reuse", "fill"} : StepTo(j, l)
    <3>1. stage \in [Ids -> HashStages]
      BY <1>1 DEF HashTypes
    <3>2. stage'[j] \in {"copy", "reuse", "fill"} /\ \A i \in Ids \ {j} : stage'[i] = stage[i]
      BY <2>1, <2>3, <3>1 DEF StepTo
    <3>3. QuietStep(j)
      BY <2>1, <2>3, <3>2 DEF QuietStep, Gone
    <3> QED
      BY <1>1, <3>3, QuietFill
  <2>4. \/ /\ KeyThere(j) \in {invalid_thread_id, invalid_thread_id2}
           /\ SetKey(j, j, producer[j])
           /\ \E l \in Finished : Finish(j, producer[j], l)
        \/ /\ UNCHANGED tables
           /\ UNCHANGED stage \/ \E l \in {"reuse", "fill"} : StepTo(j, l)
    BY <1>3 DEF Copy, ReuseSlot, FillSlot, Return, Finished
  <2> QED
    BY <2>2, <2>3, <2>4
<1>4. ASSUME NEW j \in Ids,
             \/ get_or_add_implicit_producer(j)
             \/ Found(j) \/ FoundInOlder(j) \/ LookOn(j) \/ LookInOlder(j)
             \/ CountThread(j) \/ Grow(j) \/ NoMemory(j) \/ ReleaseResize(j) \/ ClearResize(j)
             \/ DoNotGrow(j) \/ Wait(j) \/ Search(j) \/ CreateProducer(j)
             \/ NoMemoryForProducer(j) \/ SkipProducer(j) \/ RecycleProducer(j) \/ UncountThread(j)
             \/ ThreadExits(j) \/ PassSlot(j) \/ LeaveOlder(j) \/ MarkInactive(j)
      PROVE  FillInv'
  BY <1>1, <1>4, QuietActions, QuietFill
<1> QED
  BY <1>2, <1>3, <1>4, StartFill, AllocateFill, LeaveFill DEF HashNext, HashStep

LEMMA FillInvariance == HashSpec => [](HInv /\ FillInv)
<1>1. HashInit => HInv /\ FillInv
  BY HashInitially, FillInitially
<1>2. HInv /\ FillInv /\ [HashNext]_hashVars => (HInv /\ FillInv)'
  BY HashNextStep, FillNextStep
<1> QED
  BY <1>1, <1>2, PTL DEF HashSpec

(* No table holds more ids and marks than threads have ever started, in    *)
(* whatever order they start, exit, fail and grow the table.               *)
TablesFillSlowly == \A h \in DOMAIN tables : Cardinality(Filled(h)) <= started

THEOREM FilledByThreads == HashSpec => []TablesFillSlowly
<1>1. HInv /\ FillInv => TablesFillSlowly
  <2> SUFFICES ASSUME HInv, FillInv, NEW h \in DOMAIN tables
               PROVE  Cardinality(Filled(h)) <= started
    BY DEF TablesFillSlowly
  <2>1. /\ Cardinality(Filled(h)) \in Nat /\ Cardinality(MayFill(h)) \in Nat /\ started \in Nat
        /\ Cardinality(Filled(h)) + Cardinality(MayFill(h)) <= started
    BY FillFinite DEF HInv, FillInv
  <2> QED
    BY <2>1
<1> QED
  BY <1>1, FillInvariance, PTL

-----------------------------------------------------------------------------
(* BlockPool: where every block is.  The list is a stack l of n blocks,    *)
(* its head on top.                                                        *)
IsStack(n, l) ==
  /\ freeListHead = IF n = 0 THEN null ELSE l[n]
  /\ \A k \in 1 .. n : freeListNext[l[k]] = IF k = 1 THEN null ELSE l[k - 1]
  /\ \A j, k \in 1 .. n : l[j] = l[k] => j = k

InStack(n, l, b) == \E k \in 1 .. n : l[k] = b

Early == {"top", "link", "one"}
Late == {"push", "defer"}
PoolStages ==
  {"ready", "array", "head", "refs", "hold", "next", "take", "taken", "letGo"}
    \union Early \union Late

Places == {"new", "used", "list", "taken", "early", "late", "deferred"}

(* A node's counter: a reference of each holder and one of the list, until *)
(* the taker drops it and from when the adder stores it, or the mark.      *)
RefsAt(p, holders) ==
  IF p \in {"new", "used"} THEN holders
  ELSE IF p \in {"list", "taken", "late"} THEN holders + 1
  ELSE SHOULD_BE_ON_FREELIST + holders

(* Block b is at place p and nowhere else.                                 *)
IsAt(n, l, b, p) ==
  /\ p = "new" <=> b > initialBlockPoolIndex
  /\ p = "used" <=> b \in used
  /\ p = "list" <=> InStack(n, l, b)
  /\ p = "taken" <=> Taking(b) # {}
  /\ p = "early" <=> \E t \in Adding(b) : at[t] \in Early
  /\ p = "late" <=> \E t \in Adding(b) : at[t] \in Late
  /\ \A t, u \in Adding(b) : t = u
  /\ \A t, u \in Taking(b) : t = u
  /\ freeListRefs[b] = RefsAt(p, Cardinality(Holding(b)))
  /\ p \in {"new", "early"} => Holding(b) = {}
  /\ p = "deferred" => Holding(b) # {}

MaybeNode == Nodes \union {null}

PoolTypes ==
  /\ initialBlockPoolIndex \in Nat /\ freeListHead \in MaybeNode
  /\ freeListRefs \in [Nodes -> Int] /\ freeListNext \in [Nodes -> MaybeNode]
  /\ used \in SUBSET Nodes /\ at \in [Users -> PoolStages]
  /\ head \in [Users -> MaybeNode] /\ refs \in [Users -> Int]
  /\ next \in [Users -> MaybeNode] /\ node \in [Users -> MaybeNode]

(* While a thread has a reference to a node nobody writes the node's next: *)
(* what the thread has read of it stays true, whatever happened to the     *)
(* head in between.                                                        *)
LocalsOK(t) ==
  /\ at[t] \in {"refs", "hold", "next", "take", "taken"} => head[t] \in Nodes
  /\ at[t] \in {"letGo"} \union Early \union Late => node[t] \in Nodes
  /\ at[t] = "hold" => Count(refs[t]) # 0
  /\ at[t] = "take" => next[t] = freeListNext[head[t]]
  /\ at[t] \in {"one", "push"} => next[t] = freeListNext[node[t]]

PoolInv ==
  /\ PoolTypes
  /\ \A t \in Users : LocalsOK(t)
  /\ \E n \in Nat : \E l \in [1 .. n -> Nodes], place \in [Nodes -> Places] :
       IsStack(n, l) /\ \A b \in Nodes : IsAt(n, l, b, place[b])

-----------------------------------------------------------------------------
LEMMA PoolConstants ==
  /\ initialBlockPoolSize \in Nat /\ SHOULD_BE_ON_FREELIST \in Nat
  /\ Nodes = 1 .. initialBlockPoolSize /\ null = 0 /\ null \notin Nodes
  /\ \A b \in Nodes : b \in Nat
  /\ IsFiniteSet(Users) /\ Cardinality(Users) \in Nat
  /\ Cardinality(Users) + 1 < SHOULD_BE_ON_FREELIST
BY PoolAssumption, FS_CardinalityType DEF Nodes, null

(* What thread t does leaves the other threads where they are.             *)
OnlyUser(t) ==
  \A u \in Users \ {t} :
    /\ at'[u] = at[u] /\ head'[u] = head[u] /\ refs'[u] = refs[u]
    /\ next'[u] = next[u] /\ node'[u] = node[u]

(* A step of thread t that is not about block b.                           *)
Untouched(t, b) ==
  /\ freeListRefs'[b] = freeListRefs[b] /\ (b \in used' <=> b \in used)
  /\ b > initialBlockPoolIndex' <=> b > initialBlockPoolIndex
  /\ t \in Holding(b)' <=> t \in Holding(b)
  /\ t \in Taking(b)' <=> t \in Taking(b)
  /\ t \in Adding(b)' <=> t \in Adding(b)
  /\ t \in Adding(b) => (at'[t] \in Early <=> at[t] \in Early)

(* The threads that have something to do with a block, after a step of t.  *)
LEMMA Others ==
  ASSUME NEW t \in Users, OnlyUser(t), NEW b
  PROVE  /\ \A u \in Users \ {t} : /\ u \in Holding(b)' <=> u \in Holding(b)
                                   /\ u \in Taking(b)' <=> u \in Taking(b)
                                   /\ u \in Adding(b)' <=> u \in Adding(b)
         /\ Holding(b) \subseteq Users /\ Holding(b)' \subseteq Users
         /\ Taking(b) \subseteq Users /\ Taking(b)' \subseteq Users
         /\ Adding(b) \subseteq Users /\ Adding(b)' \subseteq Users
BY DEF OnlyUser, Holding, Taking, Adding

LEMMA SoleAdder ==
  ASSUME NEW t \in Users, OnlyUser(t), NEW b,
         Holding(b) = {}, Taking(b) = {}, Adding(b) = {t},
         t \notin Holding(b)', t \notin Taking(b)', t \in Adding(b)'
  PROVE  Holding(b)' = {} /\ Taking(b)' = {} /\ Adding(b)' = {t}
<1>1. /\ \A u \in Users \ {t} : u \in Holding(b)' <=> u \in Holding(b)
      /\ \A u \in Users \ {t} : u \in Taking(b)' <=> u \in Taking(b)
      /\ \A u \in Users \ {t} : u \in Adding(b)' <=> u \in Adding(b)
  BY Others
<1>2. Holding(b)' \subseteq Users /\ Taking(b)' \subseteq Users /\ Adding(b)' \subseteq Users
  BY Others
<1>3. Holding(b)' = {} /\ Taking(b)' = {}
  BY <1>1, <1>2
<1>4. Adding(b)' = {t}
  BY <1>1, <1>2
<1> QED
  BY <1>3, <1>4

LEMMA Holders ==
  ASSUME NEW t \in Users, OnlyUser(t), NEW b
  PROVE  /\ Cardinality(Holding(b)) \in Nat /\ Cardinality(Holding(b)) <= Cardinality(Users)
         /\ Cardinality(Holding(b)) = 0 <=> Holding(b) = {}
         /\ (t \in Holding(b)' <=> t \in Holding(b)) => Holding(b)' = Holding(b)
         /\ t \in Holding(b)' /\ t \notin Holding(b) =>
              Cardinality(Holding(b)') = Cardinality(Holding(b)) + 1
         /\ t \notin Holding(b)' /\ t \in Holding(b) =>
              Cardinality(Holding(b)') = Cardinality(Holding(b)) - 1
<1>1. /\ \A u \in Users \ {t} : u \in Holding(b)' <=> u \in Holding(b)
      /\ Holding(b) \subseteq Users /\ Holding(b)' \subseteq Users
  BY Others
<1>2. IsFiniteSet(Holding(b)) /\ Cardinality(Holding(b)) <= Cardinality(Users)
  BY <1>1, PoolConstants, FS_Subset
<1>3. Cardinality(Holding(b)) \in Nat
  BY <1>2, FS_CardinalityType
<1>4. Cardinality(Holding(b)) = 0 <=> Holding(b) = {}
  BY <1>2, FS_EmptySet
<1>5. (t \in Holding(b)' <=> t \in Holding(b)) => Holding(b)' = Holding(b)
  BY <1>1
<1>6. ASSUME t \in Holding(b)', t \notin Holding(b)
      PROVE  Cardinality(Holding(b)') = Cardinality(Holding(b)) + 1
  <2>1. Holding(b)' = Holding(b) \union {t}
    BY <1>1, <1>6
  <2> QED
    BY <1>2, <1>6, <2>1, FS_AddElement
<1>7. ASSUME t \notin Holding(b)', t \in Holding(b)
      PROVE  Cardinality(Holding(b)') = Cardinality(Holding(b)) - 1
  <2>1. Holding(b)' = Holding(b) \ {t}
    BY <1>1, <1>7
  <2> QED
    BY <1>2, <1>7, <2>1, FS_RemoveElement
<1> QED
  BY <1>2, <1>3, <1>4, <1>5, <1>6, <1>7

LEMMA Stay ==
  ASSUME NEW t \in Users, OnlyUser(t), NEW b
  PROVE  /\ (t \in Holding(b)' <=> t \in Holding(b)) => Holding(b)' = Holding(b)
         /\ (t \in Taking(b)' <=> t \in Taking(b)) => Taking(b)' = Taking(b)
         /\ (t \in Adding(b)' <=> t \in Adding(b)) => Adding(b)' = Adding(b)
<1>1. (t \in Holding(b)' <=> t \in Holding(b)) => Holding(b)' = Holding(b)
  BY Others
<1>2. (t \in Taking(b)' <=> t \in Taking(b)) => Taking(b)' = Taking(b)
  BY Others
<1>3. (t \in Adding(b)' <=> t \in Adding(b)) => Adding(b)' = Adding(b)
  BY Others
<1> QED
  BY <1>1, <1>2, <1>3

LEMMA Elsewhere ==
  ASSUME NEW t \in Users, OnlyUser(t), NEW b, Untouched(t, b),
         NEW n, NEW l, NEW p, IsAt(n, l, b, p),
         NEW m, NEW k, InStack(m, k, b) <=> InStack(n, l, b),
         \A u \in Users : u \in Adding(b) => at[u] \in Early \union Late,
         \A u \in Users : u \in Adding(b)' => at'[u] \in Early \union Late
  PROVE  IsAt(m, k, b, p)'
<1>1. Holding(b)' = Holding(b)
  BY Holders DEF Untouched
<1>2. Taking(b)' = Taking(b) /\ Adding(b)' = Adding(b) /\ Adding(b) \subseteq Users
  BY Others, Stay DEF Untouched
<1>3. \A u \in Adding(b) : /\ at'[u] \in Early <=> at[u] \in Early
                           /\ at'[u] \in Late <=> at[u] \in Late
  BY <1>2 DEF OnlyUser, Untouched, Early, Late
<1>4. InStack(m, k, b)' <=> InStack(n, l, b)
  BY DEF InStack
<1>5. /\ freeListRefs'[b] = RefsAt(p, Cardinality(Holding(b)))
      /\ p = "new" <=> b > initialBlockPoolIndex'
      /\ p = "used" <=> b \in used'
      /\ p = "list" <=> InStack(m, k, b)'
      /\ p = "taken" <=> Taking(b)' # {}
  BY <1>2, <1>4 DEF IsAt, Untouched
<1>6. /\ p = "early" <=> \E u \in Adding(b)' : at'[u] \in Early
      /\ p = "late" <=> \E u \in Adding(b)' : at'[u] \in Late
      /\ \A u, v \in Adding(b)' : u = v
      /\ \A u, v \in Taking(b)' : u = v
  BY <1>2, <1>3 DEF IsAt
<1>7. /\ p \in {"new", "early"} => Holding(b)' = {}
      /\ p = "deferred" => Holding(b)' # {}
  BY <1>1 DEF IsAt
<1> QED
  BY <1>1, <1>5, <1>6, <1>7 DEF IsAt

(* A step of thread t about block x, which goes to place q.                *)
LEMMA PoolStep ==
  ASSUME NEW t \in Users, OnlyUser(t), PoolTypes', \A u \in Users : LocalsOK(u)',
         NEW n \in Nat, NEW l \in [1 .. n -> Nodes], NEW place \in [Nodes -> Places],
         \A b \in Nodes : IsAt(n, l, b, place[b]),
         NEW m \in Nat, NEW k \in [1 .. m -> Nodes], IsStack(m, k)',
         NEW x \in Nodes, NEW q \in Places, IsAt(m, k, x, q)',
         \A b \in Nodes \ {x} : Untouched(t, b) /\ (InStack(m, k, b) <=> InStack(n, l, b))
  PROVE  PoolInv'
<1> DEFINE to == [place EXCEPT ![x] = q]
<1>1. to \in [Nodes -> Places]
  OBVIOUS
<1>2. ASSUME NEW b \in Nodes PROVE IsAt(m, k, b, to[b])'
  <2>1. CASE b = x
    <3>1. to[b] = q
      BY <2>1
    <3> QED
      BY <2>1, <3>1 DEF IsAt
  <2>2. CASE b # x
    <3>1. /\ \A u \in Users : u \in Adding(b) => at[u] \in Early \union Late
          /\ \A u \in Users : u \in Adding(b)' => at'[u] \in Early \union Late
      BY DEF Adding, Early, Late
    <3>2. to[b] = place[b]
      BY <2>2
    <3>3. IsAt(m, k, b, place[b])'
      BY <2>2, <3>1, Elsewhere
    <3> QED
      BY <3>2, <3>3 DEF IsAt
  <2> QED
    BY <2>1, <2>2
<1> HIDE DEF to
<1>3. \A b \in Nodes : IsAt(m, k, b, to[b])'
  BY <1>2
<1> QED
  BY <1>1, <1>3 DEF PoolInv

(* A step that is about no block.                                          *)
LEMMA NoBlockStep ==
  ASSUME PoolInv, NEW t \in Users, OnlyUser(t), PoolTypes', \A u \in Users : LocalsOK(u)',
         UNCHANGED << freeListHead, freeListNext >>, \A b \in Nodes : Untouched(t, b)
  PROVE  PoolInv'
<1>0. PICK n \in Nat :
        \E l \in [1 .. n -> Nodes], place \in [Nodes -> Places] :
          IsStack(n, l) /\ \A b \in Nodes : IsAt(n, l, b, place[b])
  BY DEF PoolInv
<1>1. PICK l \in [1 .. n -> Nodes], place \in [Nodes -> Places] :
        IsStack(n, l) /\ \A b \in Nodes : IsAt(n, l, b, place[b])
  BY <1>0
<1>2. IsStack(n, l)'
  BY <1>1 DEF IsStack
<1>3. ASSUME NEW b \in Nodes PROVE IsAt(n, l, b, place[b])'
  <2>1. /\ \A u \in Users : u \in Adding(b) => at[u] \in Early \union Late
        /\ \A u \in Users : u \in Adding(b)' => at'[u] \in Early \union Late
    BY DEF Adding, Early, Late
  <2> QED
    BY <1>1, <2>1, Elsewhere
<1> QED
  BY <1>2, <1>3 DEF PoolInv

(* What the other threads have read of a next is still there.              *)
LEMMA LocalsStay ==
  ASSUME NEW t \in Users, OnlyUser(t), UNCHANGED freeListNext,
         NEW u \in Users \ {t}, LocalsOK(u)
  PROVE  LocalsOK(u)'
BY DEF OnlyUser, LocalsOK

LEMMA Roles ==
  ASSUME NEW t \in Users, NEW b
  PROVE  /\ t \in Holding(b) <=> \/ at[t] \in {"next", "take", "taken"} /\ head[t] = b
                                 \/ at[t] = "letGo" /\ node[t] = b
         /\ t \in Taking(b) <=> at[t] = "taken" /\ head[t] = b
         /\ t \in Adding(b) <=> at[t] \in Early \union Late /\ node[t] = b
         /\ t \in Holding(b)' <=> \/ at'[t] \in {"next", "take", "taken"} /\ head'[t] = b
                                  \/ at'[t] = "letGo" /\ node'[t] = b
         /\ t \in Taking(b)' <=> at'[t] = "taken" /\ head'[t] = b
         /\ t \in Adding(b)' <=> at'[t] \in Early \union Late /\ node'[t] = b
BY DEF Holding, Taking, Adding, Early, Late

(* The end of a loop's body.                                               *)
LEMMA Continued ==
  ASSUME PoolTypes, NEW t \in Users, NEW p \in PoolStages, NEW h \in MaybeNode,
         Continue(t, p, h)
  PROVE  /\ at' \in [Users -> PoolStages] /\ head' \in [Users -> MaybeNode]
         /\ refs' \in [Users -> Int] /\ next' \in [Users -> MaybeNode]
         /\ node' \in [Users -> MaybeNode]
         /\ at'[t] = p /\ head'[t] = h /\ next'[t] = null /\ node'[t] = null
         /\ OnlyUser(t)
<1>1. null \in MaybeNode
  BY DEF MaybeNode
<1> QED
  BY <1>1 DEF PoolTypes, Continue, Proceed, OnlyUser

LEMMA Looped ==
  ASSUME PoolTypes, NEW t \in Users, NEW h \in MaybeNode, Loop(t, h)
  PROVE  /\ at' \in [Users -> PoolStages] /\ head' \in [Users -> MaybeNode]
         /\ refs' \in [Users -> Int] /\ next' \in [Users -> MaybeNode]
         /\ node' \in [Users -> MaybeNode]
         /\ at'[t] \in {"ready", "refs"} /\ (at'[t] = "refs" => head'[t] \in Nodes)
         /\ OnlyUser(t)
<1>1. PICK p \in {"ready", "refs"} : p = IF h = null THEN "ready" ELSE "refs"
  OBVIOUS
<1>2. Continue(t, p, h) /\ p \in PoolStages
  BY <1>1 DEF Loop, PoolStages
<1>3. p = "refs" => h \in Nodes
  BY <1>1 DEF MaybeNode
<1>4. at'[t] = p /\ head'[t] = h
  BY <1>2, Continued
<1> QED
  BY <1>2, <1>3, <1>4, Continued

-----------------------------------------------------------------------------
(* The steps that only look.                                               *)
LEMMA InitialPoolStep ==
  ASSUME PoolInv, NEW t \in Users, try_get_block_from_initial_pool(t)
  PROVE  PoolInv'
<1>1. PoolTypes /\ \A u \in Users : LocalsOK(u)
  BY DEF PoolInv
<1>2. PICK p \in {"head", "array"} : at' = [at EXCEPT ![t] = p]
  BY DEF try_get_block_from_initial_pool, Proceed
<1>3. /\ at[t] = "ready" /\ at'[t] = p /\ at' \in [Users -> PoolStages]
      /\ UNCHANGED << initialBlockPoolIndex, freeListHead, freeListNext, freeListRefs, used,
                      head, refs, next, node >>
  BY <1>1, <1>2 DEF try_get_block_from_initial_pool, PoolTypes, PoolStages, list, locals
<1>4. OnlyUser(t)
  BY <1>1, <1>2, <1>3 DEF PoolTypes, OnlyUser
<1>5. PoolTypes'
  BY <1>1, <1>3 DEF PoolTypes
<1>6. \A b \in Nodes : Untouched(t, b)
  BY <1>3, Roles DEF Untouched, Early, Late
<1>7. LocalsOK(t)'
  BY <1>3 DEF LocalsOK, Early, Late
<1> QED
  BY <1>1, <1>3, <1>4, <1>5, <1>6, <1>7, LocalsStay, NoBlockStep

LEMMA LoadHeadStep ==
  ASSUME PoolInv, NEW t \in Users, LoadHead(t)
  PROVE  PoolInv'
<1>1. PoolTypes /\ (\A u \in Users : LocalsOK(u)) /\ freeListHead \in MaybeNode
  BY DEF PoolInv, PoolTypes
<1>2. /\ at[t] = "head" /\ Loop(t, freeListHead)
      /\ UNCHANGED << initialBlockPoolIndex, freeListHead, freeListNext, freeListRefs, used >>
  BY DEF LoadHead, list
<1>3. /\ OnlyUser(t) /\ at'[t] \in {"ready", "refs"} /\ (at'[t] = "refs" => head'[t] \in Nodes)
  BY <1>1, <1>2, Looped
<1>4. PoolTypes'
  BY <1>1, <1>2, Looped DEF PoolTypes
<1>5. \A b \in Nodes : Untouched(t, b)
  BY <1>2, <1>3, Roles DEF Untouched, Early, Late
<1>6. LocalsOK(t)'
  BY <1>3 DEF LocalsOK, Early, Late
<1> QED
  BY <1>1, <1>2, <1>3, <1>4, <1>5, <1>6, LocalsStay, NoBlockStep

LEMMA LoadRefsStep ==
  ASSUME PoolInv, NEW t \in Users, LoadRefs(t)
  PROVE  PoolInv'
<1>1. PoolTypes /\ (\A u \in Users : LocalsOK(u)) /\ null \in MaybeNode /\ head[t] \in Nodes
  BY DEF PoolInv, LoadRefs, LocalsOK, MaybeNode
<1>2. /\ at[t] = "refs"
      /\ UNCHANGED << initialBlockPoolIndex, freeListHead, freeListNext, freeListRefs, used >>
  BY <1>1 DEF LoadRefs, list
<1>3. /\ PoolTypes' /\ OnlyUser(t) /\ at'[t] \in {"head", "hold"}
      /\ at'[t] = "hold" => head'[t] = head[t] /\ refs'[t] = freeListRefs[head[t]]
                            /\ Count(freeListRefs[head[t]]) # 0
  <2>1. CASE Count(freeListRefs[head[t]]) = 0
    <3>1. Continue(t, "head", null) /\ "head" \in PoolStages
      BY <2>1 DEF LoadRefs, PoolStages
    <3>2. OnlyUser(t) /\ at'[t] = "head"
      BY <1>1, <3>1, Continued
    <3>3. PoolTypes'
      BY <1>1, <1>2, <3>1, Continued DEF PoolTypes
    <3> QED
      BY <3>2, <3>3
  <2>2. CASE Count(freeListRefs[head[t]]) # 0
    <3>1. PICK r \in Int : r = freeListRefs[head[t]]
      BY <1>1 DEF PoolTypes
    <3>2. /\ at' = [at EXCEPT ![t] = "hold"] /\ refs' = [refs EXCEPT ![t] = r]
          /\ UNCHANGED << head, next, node >>
      BY <2>2, <3>1 DEF LoadRefs, Proceed
    <3>3. /\ at' \in [Users -> PoolStages] /\ refs' \in [Users -> Int]
          /\ at'[t] = "hold" /\ refs'[t] = r
      BY <1>1, <3>2 DEF PoolTypes, PoolStages
    <3>4. OnlyUser(t)
      BY <1>1, <3>2 DEF PoolTypes, OnlyUser
    <3>5. PoolTypes'
      BY <1>1, <1>2, <3>2, <3>3 DEF PoolTypes
    <3> QED
      BY <2>2, <3>1, <3>2, <3>3, <3>4, <3>5
  <2> QED
    BY <2>1, <2>2
<1>4. \A b \in Nodes : Untouched(t, b)
  BY <1>2, <1>3, Roles DEF Untouched, Early, Late
<1>5. LocalsOK(t)'
  BY <1>1, <1>3 DEF LocalsOK, Early, Late, Count
<1> QED
  BY <1>1, <1>2, <1>3, <1>4, <1>5, LocalsStay, NoBlockStep

LEMMA LoadNextStep ==
  ASSUME PoolInv, NEW t \in Users, LoadNext(t)
  PROVE  PoolInv'
<1>1. PoolTypes /\ (\A u \in Users : LocalsOK(u)) /\ head[t] \in Nodes
  BY DEF PoolInv, LoadNext, LocalsOK
<1>2. PICK h \in MaybeNode : h = freeListNext[head[t]]
  BY <1>1 DEF PoolTypes
<1>3. /\ at[t] = "next" /\ at' = [at EXCEPT ![t] = "take"] /\ next' = [next EXCEPT ![t] = h]
      /\ UNCHANGED << initialBlockPoolIndex, freeListHead, freeListNext, freeListRefs, used,
                      head, refs, node >>
  BY <1>2 DEF LoadNext, Proceed, list
<1>4. /\ at' \in [Users -> PoolStages] /\ at'[t] = "take"
      /\ next' \in [Users -> MaybeNode] /\ next'[t] = h
  BY <1>1, <1>3 DEF PoolTypes, PoolStages
<1>5. OnlyUser(t)
  BY <1>1, <1>3 DEF PoolTypes, OnlyUser
<1>6. PoolTypes'
  BY <1>1, <1>3, <1>4 DEF PoolTypes
<1>7. \A b \in Nodes : Untouched(t, b)
  BY <1>3, <1>4, Roles DEF Untouched, Early, Late
<1>8. LocalsOK(t)'
  BY <1>1, <1>2, <1>3, <1>4 DEF LocalsOK, Early, Late
<1> QED
  BY <1>1, <1>3, <1>5, <1>6, <1>7, <1>8, LocalsStay, NoBlockStep

LEMMA LoadTopStep ==
  ASSUME PoolInv, NEW t \in Users, LoadTop(t)
  PROVE  PoolInv'
<1>1. PoolTypes /\ (\A u \in Users : LocalsOK(u)) /\ freeListHead \in MaybeNode
  BY DEF PoolInv, PoolTypes
<1>2. /\ at[t] = "top" /\ at' = [at EXCEPT ![t] = "link"]
      /\ next' = [next EXCEPT ![t] = freeListHead]
      /\ UNCHANGED << initialBlockPoolIndex, freeListHead, freeListNext, freeListRefs, used,
                      head, refs, node >>
  BY DEF LoadTop, Proceed, list
<1>3. at' \in [Users -> PoolStages] /\ at'[t] = "link" /\ next' \in [Users -> MaybeNode]
  BY <1>1, <1>2 DEF PoolTypes, PoolStages, Early
<1>4. OnlyUser(t)
  BY <1>1, <1>2 DEF PoolTypes, OnlyUser
<1>5. PoolTypes'
  BY <1>1, <1>2, <1>3 DEF PoolTypes
<1>6. \A b \in Nodes : Untouched(t, b)
  BY <1>2, <1>3, Roles DEF Untouched, Early, Late
<1>7. LocalsOK(t)'
  BY <1>1, <1>2, <1>3 DEF LocalsOK, Early, Late
<1> QED
  BY <1>1, <1>2, <1>4, <1>5, <1>6, <1>7, LocalsStay, NoBlockStep

-----------------------------------------------------------------------------
(* The steps that change a counter.                                        *)
LEMMA StackOf ==
  ASSUME PoolInv
  PROVE  /\ PoolTypes /\ \A u \in Users : LocalsOK(u)
         /\ \E n \in Nat : \E l \in [1 .. n -> Nodes], place \in [Nodes -> Places] :
              IsStack(n, l) /\ \A b \in Nodes : IsAt(n, l, b, place[b])
BY DEF PoolInv

LEMMA RefsStep ==
  ASSUME NEW t \in Users, OnlyUser(t), PoolTypes', \A u \in Users : LocalsOK(u), LocalsOK(t)',
         UNCHANGED << freeListHead, freeListNext >>,
         NEW n \in Nat, NEW l \in [1 .. n -> Nodes], NEW place \in [Nodes -> Places],
         IsStack(n, l), \A b \in Nodes : IsAt(n, l, b, place[b]),
         NEW x \in Nodes, NEW q \in Places, IsAt(n, l, x, q)',
         \A b \in Nodes \ {x} : Untouched(t, b)
  PROVE  PoolInv'
<1>1. IsStack(n, l)'
  BY DEF IsStack
<1>2. \A u \in Users : LocalsOK(u)'
  BY LocalsStay
<1> QED
  BY <1>1, <1>2, PoolStep

LEMMA FetchAddPoolIndexStep ==
  ASSUME PoolInv, NEW t \in Users, FetchAddPoolIndex(t)
  PROVE  PoolInv'
<1>1. PoolTypes /\ (\A u \in Users : LocalsOK(u)) /\ initialBlockPoolIndex \in Nat
  BY StackOf DEF PoolTypes
<1>2. PICK p \in {"ready", "head"} : at' = [at EXCEPT ![t] = p]
  BY DEF FetchAddPoolIndex, Proceed
<1>3. /\ at[t] = "array" /\ at'[t] = p /\ at' \in [Users -> PoolStages]
      /\ initialBlockPoolIndex' = initialBlockPoolIndex + 1
      /\ UNCHANGED << freeListHead, freeListNext, freeListRefs, head, refs, next, node >>
  BY <1>1, <1>2 DEF FetchAddPoolIndex, PoolTypes, PoolStages, list, locals
<1>4. OnlyUser(t)
  BY <1>1, <1>2, <1>3 DEF PoolTypes, OnlyUser
<1>5. LocalsOK(t)'
  BY <1>3 DEF LocalsOK, Early, Late
<1>6. \A b \in Nodes : /\ freeListRefs'[b] = freeListRefs[b]
                       /\ t \in Holding(b)' <=> t \in Holding(b)
                       /\ t \in Taking(b)' <=> t \in Taking(b)
                       /\ t \in Adding(b)' <=> t \in Adding(b)
                       /\ t \notin Adding(b)
  BY <1>3, Roles DEF Early, Late
<1>7. CASE initialBlockPoolIndex < initialBlockPoolSize
  <2>0. PICK n \in Nat :
          \E l \in [1 .. n -> Nodes], place \in [Nodes -> Places] :
            IsStack(n, l) /\ \A b \in Nodes : IsAt(n, l, b, place[b])
    BY StackOf
  <2>1. PICK l \in [1 .. n -> Nodes], place \in [Nodes -> Places] :
          IsStack(n, l) /\ \A b \in Nodes : IsAt(n, l, b, place[b])
    BY <2>0
  <2>2. PICK x \in Nodes : x = initialBlockPoolIndex + 1
    BY <1>1, <1>7, PoolConstants
  <2>3. used' = used \union {x}
    BY <1>7, <2>2 DEF FetchAddPoolIndex
  <2>4. PoolTypes'
    BY <1>1, <1>3, <2>3 DEF PoolTypes
  <2>5. IsAt(n, l, x, "new")
    <3>1. place[x] = "new"
      BY <1>1, <2>1, <2>2, PoolConstants DEF IsAt
    <3> QED
      BY <2>1, <3>1
  <2>6. Holding(x)' = Holding(x) /\ Taking(x)' = Taking(x) /\ Adding(x)' = Adding(x)
    BY <1>4, <1>6, Stay
  <2>7. Adding(x) = {} /\ Taking(x) = {} /\ Holding(x) = {} /\ ~ InStack(n, l, x)
    <3>1. \A u \in Adding(x) : at[u] \in Early \/ at[u] \in Late
      BY DEF Adding, Early, Late
    <3> QED
      BY <2>5, <3>1 DEF IsAt
  <2>8. IsAt(n, l, x, "used")'
    <3>1. ~ (x > initialBlockPoolIndex') /\ x \in used' /\ ~ InStack(n, l, x)'
      BY <1>1, <1>3, <2>2, <2>3, <2>7, PoolConstants DEF InStack
    <3>2. freeListRefs'[x] = RefsAt("used", Cardinality(Holding(x)'))
      BY <1>6, <2>5, <2>6 DEF IsAt, RefsAt
    <3> QED
      BY <2>6, <2>7, <3>1, <3>2 DEF IsAt
  <2>9. \A b \in Nodes \ {x} : Untouched(t, b)
    <3>1. \A b \in Nodes \ {x} : /\ b > initialBlockPoolIndex' <=> b > initialBlockPoolIndex
                                 /\ b \in used' <=> b \in used
      BY <1>1, <1>3, <2>2, <2>3, PoolConstants
    <3> QED
      BY <1>6, <3>1 DEF Untouched
  <2> QED
    BY <1>1, <1>3, <1>4, <1>5, <2>1, <2>4, <2>8, <2>9, RefsStep DEF Places
<1>8. CASE ~ (initialBlockPoolIndex < initialBlockPoolSize)
  <2>1. UNCHANGED used
    BY <1>8 DEF FetchAddPoolIndex
  <2>2. \A b \in Nodes : b > initialBlockPoolIndex' <=> b > initialBlockPoolIndex
    BY <1>1, <1>3, <1>8, PoolConstants
  <2>3. \A b \in Nodes : Untouched(t, b)
    BY <1>6, <2>1, <2>2 DEF Untouched
  <2>4. PoolTypes'
    BY <1>1, <1>3, <2>1 DEF PoolTypes
  <2> QED
    BY <1>1, <1>3, <1>4, <1>5, <2>3, <2>4, LocalsStay, NoBlockStep
<1> QED
  BY <1>7, <1>8

LEMMA HoldStep ==
  ASSUME PoolInv, NEW t \in Users, Hold(t)
  PROVE  PoolInv'
<1>1. /\ PoolTypes /\ (\A u \in Users : LocalsOK(u)) /\ null \in MaybeNode /\ at[t] = "hold"
      /\ Count(refs[t]) # 0
  BY StackOf DEF Hold, LocalsOK, MaybeNode
<1>2. UNCHANGED << initialBlockPoolIndex, freeListHead, freeListNext, used >>
  BY DEF Hold, list
<1>3. PICK x \in Nodes : x = head[t]
  BY <1>1 DEF LocalsOK
<1>4. CASE freeListRefs[x] # refs[t]
  <2>1. Continue(t, "head", null) /\ "head" \in PoolStages /\ UNCHANGED freeListRefs
    BY <1>3, <1>4 DEF Hold, PoolStages
  <2>2. OnlyUser(t) /\ at'[t] = "head"
    BY <1>1, <2>1, Continued
  <2>3. PoolTypes'
    BY <1>1, <1>2, <2>1, Continued DEF PoolTypes
  <2>4. \A b \in Nodes : Untouched(t, b)
    BY <1>1, <1>2, <2>1, <2>2, Roles DEF Untouched, Early, Late
  <2>5. LocalsOK(t)'
    BY <2>2 DEF LocalsOK, Early, Late
  <2> QED
    BY <1>1, <1>2, <2>2, <2>3, <2>4, <2>5, LocalsStay, NoBlockStep
<1>5. CASE freeListRefs[x] = refs[t]
  <2>0. PICK n \in Nat :
          \E l \in [1 .. n -> Nodes], place \in [Nodes -> Places] :
            IsStack(n, l) /\ \A b \in Nodes : IsAt(n, l, b, place[b])
    BY StackOf
  <2>1. PICK l \in [1 .. n -> Nodes], place \in [Nodes -> Places] :
          IsStack(n, l) /\ \A b \in Nodes : IsAt(n, l, b, place[b])
    BY <2>0
  <2>2. PICK r \in Int : r = freeListRefs[x] /\ Count(r) # 0
    BY <1>1, <1>5 DEF PoolTypes
  <2>3. freeListRefs' = [freeListRefs EXCEPT ![x] = r + 1] /\ Continue(t, "next", x)
    BY <1>3, <1>5, <2>2 DEF Hold
  <2>4. /\ freeListRefs' \in [Nodes -> Int] /\ freeListRefs'[x] = r + 1
        /\ \A b \in Nodes \ {x} : freeListRefs'[b] = freeListRefs[b]
    BY <1>1, <2>3 DEF PoolTypes
  <2>5. x \in MaybeNode /\ "next" \in PoolStages
    BY DEF MaybeNode, PoolStages
  <2>6. OnlyUser(t) /\ at'[t] = "next" /\ head'[t] = x
    BY <1>1, <2>3, <2>5, Continued
  <2>7. PoolTypes'
    BY <1>1, <1>2, <2>3, <2>4, <2>5, Continued DEF PoolTypes
  <2>8. ASSUME NEW b \in Nodes \ {x} PROVE Untouched(t, b)
    <3>1. t \notin Holding(b) /\ t \notin Taking(b) /\ t \notin Adding(b)
      BY <1>1, Roles DEF Early, Late
    <3>2. t \notin Holding(b)' /\ t \notin Taking(b)' /\ t \notin Adding(b)'
      BY <2>6, Roles DEF Early, Late
    <3> QED
      BY <1>2, <2>4, <3>1, <3>2 DEF Untouched
  <2>9. LocalsOK(t)'
    BY <2>6 DEF LocalsOK, Early, Late
  <2>10. PICK p \in Places : IsAt(n, l, x, p)
    BY <2>1
  <2>11. PICK h \in Nat : h = Cardinality(Holding(x))
    BY <2>6, Holders
  <2>12. /\ Cardinality(Holding(x)') = h + 1 /\ Holding(x)' # {}
         /\ h = 0 <=> Holding(x) = {}
    BY <1>1, <2>6, <2>11, Roles, Holders
  <2>13. p \notin {"new", "early"}
    <3>1. SHOULD_BE_ON_FREELIST % SHOULD_BE_ON_FREELIST = 0 /\ 0 % SHOULD_BE_ON_FREELIST = 0
      BY PoolConstants
    <3>2. p \in {"new", "early"} => r = 0 \/ r = SHOULD_BE_ON_FREELIST
      BY <2>2, <2>10, <2>11, <2>12, PoolConstants DEF IsAt, RefsAt
    <3> QED
      BY <2>2, <3>1, <3>2 DEF Count
  <2>14. RefsAt(p, h + 1) = r + 1
    <3>1. r = RefsAt(p, h)
      BY <2>2, <2>10, <2>11 DEF IsAt
    <3> QED
      BY <3>1, PoolConstants DEF RefsAt
  <2>15. Taking(x)' = Taking(x) /\ Adding(x)' = Adding(x)
    <3>1. t \notin Taking(x) /\ t \notin Taking(x)' /\ t \notin Adding(x) /\ t \notin Adding(x)'
      BY <1>1, <2>6, Roles DEF Early, Late
    <3> QED
      BY <2>6, <3>1, Stay
  <2>16. \A u \in Adding(x) : at'[u] = at[u]
    BY <1>1, <2>6, Others, Roles DEF OnlyUser, Early, Late
  <2>17. IsAt(n, l, x, p)'
    <3>1. /\ p = "early" <=> \E u \in Adding(x)' : at'[u] \in Early
          /\ p = "late" <=> \E u \in Adding(x)' : at'[u] \in Late
      BY <2>10, <2>15, <2>16 DEF IsAt
    <3>2. /\ p = "new" <=> x > initialBlockPoolIndex' /\ TRUE
          /\ p = "used" <=> x \in used'
          /\ p = "list" <=> InStack(n, l, x)'
          /\ p = "taken" <=> Taking(x)' # {}
      BY <1>2, <2>10, <2>15 DEF IsAt, InStack
    <3>3. freeListRefs'[x] = RefsAt(p, Cardinality(Holding(x)'))
      BY <2>4, <2>12, <2>14
    <3>4. /\ \A u, v \in Adding(x)' : u = v
          /\ \A u, v \in Taking(x)' : u = v
      BY <2>10, <2>15 DEF IsAt
    <3> QED
      BY <2>12, <2>13, <3>1, <3>2, <3>3, <3>4 DEF IsAt
  <2> QED
    BY <1>1, <1>2, <2>1, <2>6, <2>7, <2>8, <2>9, <2>17, RefsStep
<1> QED
  BY <1>4, <1>5

(* Who is at a block, by its place.                                        *)
LEMMA PlaceTells ==
  ASSUME NEW n, NEW l, NEW x, NEW p, IsAt(n, l, x, p)
  PROVE  /\ p \notin {"early", "late"} => Adding(x) = {}
         /\ p # "taken" => Taking(x) = {}
         /\ \A t \in Adding(x) :
              /\ Adding(x) = {t}
              /\ at[t] \in Early => p = "early"
              /\ at[t] \in Late => p = "late"
         /\ \A t \in Taking(x) : Taking(x) = {t} /\ p = "taken"
<1>1. \A t \in Adding(x) : at[t] \in Early \/ at[t] \in Late
  BY DEF Adding, Early, Late
<1>2. p \notin {"early", "late"} => Adding(x) = {}
  BY <1>1 DEF IsAt
<1>3. p # "taken" => Taking(x) = {}
  BY DEF IsAt
<1>4. ASSUME NEW t \in Adding(x)
      PROVE  /\ Adding(x) = {t}
             /\ at[t] \in Early => p = "early"
             /\ at[t] \in Late => p = "late"
  BY <1>4 DEF IsAt
<1>5. ASSUME NEW t \in Taking(x) PROVE Taking(x) = {t} /\ p = "taken"
  BY <1>5 DEF IsAt
<1> QED
  BY <1>2, <1>3, <1>4, <1>5

LEMMA TakenStep ==
  ASSUME PoolInv, NEW t \in Users, Taken(t)
  PROVE  PoolInv'
<1>1. /\ PoolTypes /\ (\A u \in Users : LocalsOK(u)) /\ null \in MaybeNode /\ at[t] = "taken"
  BY StackOf DEF Taken, MaybeNode
<1>2. UNCHANGED << initialBlockPoolIndex, freeListHead, freeListNext >>
  BY DEF Taken, list
<1>3. PICK x \in Nodes : x = head[t]
  BY <1>1 DEF LocalsOK
<1>4. PICK r \in Int : r = freeListRefs[x]
  BY <1>1 DEF PoolTypes
<1>5. /\ freeListRefs' = [freeListRefs EXCEPT ![x] = r - 2] /\ used' = used \union {x}
      /\ Loop(t, null)
  BY <1>3, <1>4 DEF Taken
<1>6. /\ freeListRefs' \in [Nodes -> Int] /\ freeListRefs'[x] = r - 2
      /\ \A b \in Nodes \ {x} : freeListRefs'[b] = freeListRefs[b]
  BY <1>1, <1>5 DEF PoolTypes
<1>7. OnlyUser(t) /\ at'[t] \in {"ready", "refs"} /\ (at'[t] = "refs" => head'[t] \in Nodes)
  BY <1>1, <1>5, Looped
<1>8. PoolTypes'
  <2>1. used' \in SUBSET Nodes
    BY <1>1, <1>5 DEF PoolTypes
  <2> QED
    BY <1>1, <1>2, <1>5, <1>6, <2>1, Looped DEF PoolTypes
<1>9. LocalsOK(t)'
  BY <1>7 DEF LocalsOK, Early, Late
<1>10. \A b \in Nodes \ {x} : Untouched(t, b)
  BY <1>1, <1>2, <1>3, <1>5, <1>6, <1>7, Roles DEF Untouched, Early, Late
<1>11. PICK n \in Nat :
         \E l \in [1 .. n -> Nodes], place \in [Nodes -> Places] :
           IsStack(n, l) /\ \A b \in Nodes : IsAt(n, l, b, place[b])
  BY StackOf
<1>12. PICK l \in [1 .. n -> Nodes], place \in [Nodes -> Places] :
         IsStack(n, l) /\ \A b \in Nodes : IsAt(n, l, b, place[b])
  BY <1>11
<1>13. PICK p \in Places : IsAt(n, l, x, p)
  BY <1>12
<1>14. PICK h \in Nat : h = Cardinality(Holding(x))
  BY <1>7, Holders
<1>15. p = "taken" /\ Taking(x) = {t} /\ Adding(x) = {} /\ r = h + 1
  <2>1. t \in Taking(x)
    BY <1>1, <1>3, Roles
  <2>2. p = "taken" /\ Taking(x) = {t}
    BY <1>13, <2>1, PlaceTells
  <2>3. Adding(x) = {}
    BY <1>13, <2>2, PlaceTells
  <2> QED
    BY <1>4, <1>13, <1>14, <2>2, <2>3 DEF IsAt, RefsAt
<1>16. Cardinality(Holding(x)') = h - 1
  BY <1>1, <1>3, <1>7, <1>14, Roles, Holders
<1>17. Taking(x)' = {} /\ Adding(x)' = {}
  BY <1>7, <1>15, Others, Roles DEF Early, Late
<1>18. IsAt(n, l, x, "used")'
  <2>1. ~ (x > initialBlockPoolIndex') /\ x \in used' /\ ~ InStack(n, l, x)'
    BY <1>2, <1>5, <1>13, <1>15 DEF IsAt, InStack
  <2>2. freeListRefs'[x] = RefsAt("used", Cardinality(Holding(x)'))
    BY <1>6, <1>15, <1>16 DEF RefsAt
  <2> QED
    BY <1>17, <2>1, <2>2 DEF IsAt
<1> QED
  BY <1>1, <1>2, <1>7, <1>8, <1>9, <1>10, <1>12, <1>18, RefsStep DEF Places

LEMMA LetGoStep ==
  ASSUME PoolInv, NEW t \in Users, LetGo(t)
  PROVE  PoolInv'
<1>1. /\ PoolTypes /\ (\A u \in Users : LocalsOK(u)) /\ at[t] = "letGo" /\ head[t] \in MaybeNode
  BY StackOf DEF LetGo, PoolTypes
<1>2. UNCHANGED << initialBlockPoolIndex, freeListHead, freeListNext, used >>
  BY DEF LetGo, list
<1>3. PICK x \in Nodes : x = node[t]
  BY <1>1 DEF LocalsOK
<1>4. PICK r \in Int : r = freeListRefs[x]
  BY <1>1 DEF PoolTypes
<1>5. freeListRefs' = [freeListRefs EXCEPT ![x] = r - 1]
  BY <1>3, <1>4 DEF LetGo
<1>6. /\ freeListRefs' \in [Nodes -> Int] /\ freeListRefs'[x] = r - 1
      /\ \A b \in Nodes \ {x} : freeListRefs'[b] = freeListRefs[b]
  BY <1>1, <1>5 DEF PoolTypes
<1>7. PICK n \in Nat :
         \E l \in [1 .. n -> Nodes], place \in [Nodes -> Places] :
           IsStack(n, l) /\ \A b \in Nodes : IsAt(n, l, b, place[b])
  BY StackOf
<1>8. PICK l \in [1 .. n -> Nodes], place \in [Nodes -> Places] :
         IsStack(n, l) /\ \A b \in Nodes : IsAt(n, l, b, place[b])
  BY <1>7
<1>9. PICK p \in Places : IsAt(n, l, x, p)
  BY <1>8
<1>10. t \in Holding(x) /\ t \notin Taking(x) /\ t \notin Adding(x)
  BY <1>1, <1>3, Roles DEF Early, Late
<1>11. CASE r = SHOULD_BE_ON_FREELIST + 1
  <2>1. at' = [at EXCEPT ![t] = "top"] /\ UNCHANGED << head, refs, next, node >>
    BY <1>3, <1>4, <1>11 DEF LetGo, LastToLetGo, Proceed, locals
  <2>2. at' \in [Users -> PoolStages] /\ at'[t] = "top" /\ OnlyUser(t)
    BY <1>1, <2>1 DEF PoolTypes, PoolStages, OnlyUser, Early
  <2>3. PoolTypes'
    BY <1>1, <1>2, <1>6, <2>1, <2>2 DEF PoolTypes
  <2>4. LocalsOK(t)'
    BY <1>3, <2>1, <2>2 DEF LocalsOK, Early, Late
  <2>5. \A b \in Nodes \ {x} : Untouched(t, b)
    BY <1>1, <1>2, <1>3, <1>6, <2>1, <2>2, Roles DEF Untouched, Early, Late
  <2>6. PICK h \in Nat : /\ h = Cardinality(Holding(x)) /\ h <= Cardinality(Users)
                         /\ h # 0 /\ Holding(x) # {}
    BY <1>10, <2>2, Holders
  <2>7. p = "deferred" /\ h = 1
    <3>1. p \notin {"new", "early"}
      BY <1>9, <2>6 DEF IsAt
    <3>2. r = RefsAt(p, h)
      BY <1>4, <1>9, <2>6 DEF IsAt
    <3> QED
      BY <1>11, <2>6, <3>1, <3>2, PoolConstants DEF RefsAt, Places
  <2>8. Taking(x) = {} /\ Adding(x) = {}
    BY <1>9, <2>7, PlaceTells
  <2>9. t \notin Holding(x)' /\ t \notin Taking(x)' /\ t \in Adding(x)'
    BY <1>3, <2>1, <2>2, Roles DEF Early, Late
  <2>10. Cardinality(Holding(x)') = 0
    <3>1. h = Cardinality(Holding(x)) /\ t \notin Holding(x)'
      BY <2>6, <2>9
    <3>2. Cardinality(Holding(x)') = h - 1
      BY <1>10, <2>2, <3>1, Holders
    <3> QED
      BY <2>7, <3>2
  <2>11. Holding(x)' = {}
    <3>1. Holding(x)' \subseteq Users
      BY <2>2, Others
    <3>2. IsFiniteSet(Holding(x)')
      BY <3>1, PoolConstants, FS_Subset
    <3> QED
      BY <2>10, <3>2, FS_EmptySet
  <2>12. Taking(x)' = {} /\ Adding(x)' = {t}
    BY <2>2, <2>8, <2>9, Others
  <2>13. IsAt(n, l, x, "early")'
    <3>1. ~ (x > initialBlockPoolIndex') /\ x \notin used' /\ ~ InStack(n, l, x)'
      BY <1>2, <1>9, <2>7 DEF IsAt, InStack
    <3>2. freeListRefs'[x] = RefsAt("early", Cardinality(Holding(x)'))
      BY <1>6, <1>11, <2>10, PoolConstants DEF RefsAt
    <3>3. at'[t] \in Early /\ at'[t] \notin Late
      BY <2>2 DEF Early, Late
    <3> QED
      BY <2>11, <2>12, <3>1, <3>2, <3>3 DEF IsAt
  <2> QED
    BY <1>1, <1>2, <1>8, <2>2, <2>3, <2>4, <2>5, <2>13, RefsStep DEF Places
<1>12. CASE r # SHOULD_BE_ON_FREELIST + 1
  <2>1. Loop(t, head[t])
    BY <1>3, <1>4, <1>12 DEF LetGo, LastToLetGo
  <2>2. OnlyUser(t) /\ at'[t] \in {"ready", "refs"} /\ (at'[t] = "refs" => head'[t] \in Nodes)
    BY <1>1, <2>1, Looped
  <2>3. PoolTypes'
    BY <1>1, <1>2, <1>6, <2>1, Looped DEF PoolTypes
  <2>4. LocalsOK(t)'
    BY <2>2 DEF LocalsOK, Early, Late
  <2>5. \A b \in Nodes \ {x} : Untouched(t, b)
    BY <1>1, <1>2, <1>3, <1>6, <2>2, Roles DEF Untouched, Early, Late
  <2>6. PICK h \in Nat : /\ h = Cardinality(Holding(x)) /\ h # 0 /\ Holding(x) # {}
    BY <1>10, <2>2, Holders
  <2>7. p \notin {"new", "early"} /\ r = RefsAt(p, h)
    BY <1>4, <1>9, <2>6 DEF IsAt
  <2>8. t \notin Holding(x)' /\ t \notin Taking(x)' /\ t \notin Adding(x)'
    BY <2>2, Roles DEF Early, Late
  <2>9. Cardinality(Holding(x)') = h - 1
    BY <1>10, <2>2, <2>6, <2>8, Holders
  <2>10. Taking(x)' = Taking(x) /\ Adding(x)' = Adding(x)
    BY <1>10, <2>2, <2>8, Stay
  <2>11. \A u \in Adding(x) : at'[u] = at[u]
    BY <1>10, <2>2, Others DEF OnlyUser
  <2>12. p = "deferred" => Holding(x)' # {}
    <3>1. p = "deferred" => h - 1 # 0
      BY <1>12, <2>6, <2>7, PoolConstants DEF RefsAt
    <3> QED
      BY <2>9, <3>1, FS_EmptySet
  <2>13. RefsAt(p, h - 1) = r - 1
    BY <2>6, <2>7, PoolConstants DEF RefsAt
  <2>14. IsAt(n, l, x, p)'
    <3>1. /\ p = "early" <=> \E u \in Adding(x)' : at'[u] \in Early
          /\ p = "late" <=> \E u \in Adding(x)' : at'[u] \in Late
      BY <1>9, <2>10, <2>11 DEF IsAt
    <3>2. /\ p = "new" <=> x > initialBlockPoolIndex' /\ TRUE
          /\ p = "used" <=> x \in used'
          /\ p = "list" <=> InStack(n, l, x)'
          /\ p = "taken" <=> Taking(x)' # {}
      BY <1>2, <1>9, <2>10 DEF IsAt, InStack
    <3>3. freeListRefs'[x] = RefsAt(p, Cardinality(Holding(x)'))
      BY <1>6, <2>9, <2>13
    <3>4. /\ \A u, v \in Adding(x)' : u = v
          /\ \A u, v \in Taking(x)' : u = v
      BY <1>9, <2>10 DEF IsAt
    <3> QED
      BY <2>7, <2>12, <3>1, <3>2, <3>3, <3>4 DEF IsAt
  <2> QED
    BY <1>1, <1>2, <1>8, <2>2, <2>3, <2>4, <2>5, <2>14, RefsStep
<1> QED
  BY <1>11, <1>12

LEMMA AddStep ==
  ASSUME PoolInv, NEW t \in Users, add(t)
  PROVE  PoolInv'
<1>1. PoolTypes /\ (\A u \in Users : LocalsOK(u)) /\ at[t] = "ready" /\ used \subseteq Nodes
  BY StackOf DEF add, PoolTypes
<1>2. UNCHANGED << initialBlockPoolIndex, freeListHead, freeListNext, head, refs, next >>
  BY DEF add, list
<1>3. PICK x \in used :
        /\ used' = used \ {x}
        /\ freeListRefs' = [freeListRefs EXCEPT ![x] = @ + SHOULD_BE_ON_FREELIST]
        /\ IF freeListRefs[x] = 0
           THEN Proceed(t, "top") /\ node' = [node EXCEPT ![t] = x]
           ELSE UNCHANGED << at, node >>
  BY DEF add
<1>4. PICK r \in Int : r = freeListRefs[x]
  BY <1>1 DEF PoolTypes
<1>5. /\ freeListRefs' \in [Nodes -> Int] /\ freeListRefs'[x] = r + SHOULD_BE_ON_FREELIST
      /\ \A b \in Nodes \ {x} : freeListRefs'[b] = freeListRefs[b]
      /\ x \in Nodes /\ x \in MaybeNode /\ used' \in SUBSET Nodes
  BY <1>1, <1>3, <1>4, PoolConstants DEF PoolTypes, MaybeNode
<1>6. PICK n \in Nat :
        \E l \in [1 .. n -> Nodes], place \in [Nodes -> Places] :
          IsStack(n, l) /\ \A b \in Nodes : IsAt(n, l, b, place[b])
  BY StackOf
<1>7. PICK l \in [1 .. n -> Nodes], place \in [Nodes -> Places] :
        IsStack(n, l) /\ \A b \in Nodes : IsAt(n, l, b, place[b])
  BY <1>6
<1>8. IsAt(n, l, x, "used")
  <2>1. place[x] = "used"
    BY <1>5, <1>7 DEF IsAt
  <2> QED
    BY <1>5, <1>7, <2>1
<1>9. /\ Adding(x) = {} /\ Taking(x) = {} /\ ~ InStack(n, l, x)
      /\ ~ (x > initialBlockPoolIndex) /\ r = Cardinality(Holding(x))
  <2>1. Adding(x) = {} /\ Taking(x) = {}
    BY <1>8, PlaceTells
  <2> QED
    BY <1>4, <1>8, <2>1 DEF IsAt, RefsAt
<1>10. ~ (x > initialBlockPoolIndex') /\ x \notin used' /\ ~ InStack(n, l, x)'
  BY <1>2, <1>3, <1>9 DEF InStack
<1>11. CASE r = 0
  <2>1. at' = [at EXCEPT ![t] = "top"] /\ node' = [node EXCEPT ![t] = x]
    BY <1>3, <1>4, <1>11 DEF Proceed
  <2>2. /\ at' \in [Users -> PoolStages] /\ node' \in [Users -> MaybeNode]
        /\ at'[t] = "top" /\ node'[t] = x /\ OnlyUser(t)
    BY <1>1, <1>2, <1>5, <2>1 DEF PoolTypes, PoolStages, OnlyUser, Early
  <2>3. PoolTypes'
    BY <1>1, <1>2, <1>5, <2>2 DEF PoolTypes
  <2>4. LocalsOK(t)'
    BY <1>5, <2>2 DEF LocalsOK, Early, Late
  <2>5. \A b \in Nodes \ {x} : Untouched(t, b)
    BY <1>1, <1>2, <1>3, <1>5, <2>2, Roles DEF Untouched, Early, Late
  <2>6. t \notin Holding(x) /\ t \notin Holding(x)' /\ t \notin Taking(x)' /\ t \in Adding(x)'
    BY <1>1, <2>2, Roles DEF Early, Late
  <2>7. Holding(x) = {} /\ Holding(x)' = {}
    BY <1>9, <1>11, <2>2, <2>6, Holders
  <2>8. Taking(x)' = {} /\ Adding(x)' = {t}
    BY <1>9, <2>2, <2>6, Others
  <2>9. freeListRefs'[x] = RefsAt("early", Cardinality(Holding(x)'))
    <3>1. Cardinality(Holding(x)') = 0
      BY <2>7, FS_EmptySet
    <3> QED
      BY <1>5, <1>11, <3>1, PoolConstants DEF RefsAt
  <2>10. at'[t] \in Early /\ at'[t] \notin Late
    BY <2>2 DEF Early, Late
  <2>11. IsAt(n, l, x, "early")'
    BY <1>10, <2>7, <2>8, <2>9, <2>10 DEF IsAt
  <2> QED
    BY <1>1, <1>2, <1>5, <1>7, <2>2, <2>3, <2>4, <2>5, <2>11, RefsStep DEF Places
<1>12. CASE r # 0
  <2>1. UNCHANGED << at, node >>
    BY <1>3, <1>4, <1>12
  <2>2. OnlyUser(t)
    BY <1>2, <2>1 DEF OnlyUser
  <2>3. PoolTypes'
    BY <1>1, <1>2, <1>5, <2>1 DEF PoolTypes
  <2>4. LocalsOK(t)'
    BY <1>1, <1>2, <2>1 DEF LocalsOK
  <2>5. \A b \in Nodes \ {x} : Untouched(t, b)
    BY <1>2, <1>3, <1>5, <2>1, Roles DEF Untouched
  <2>6. Holding(x)' = Holding(x) /\ Taking(x)' = {} /\ Adding(x)' = {}
    BY <1>2, <1>9, <2>1 DEF Holding, Taking, Adding
  <2>7. Holding(x)' # {}
    BY <1>9, <1>12, <2>2, <2>6, Holders
  <2>8. freeListRefs'[x] = RefsAt("deferred", Cardinality(Holding(x)'))
    <3>1. Cardinality(Holding(x)') = r
      BY <1>9, <2>6
    <3> QED
      BY <1>5, <3>1, PoolConstants DEF RefsAt
  <2>9. IsAt(n, l, x, "deferred")'
    BY <1>10, <2>6, <2>7, <2>8 DEF IsAt
  <2> QED
    BY <1>1, <1>2, <1>5, <1>7, <2>2, <2>3, <2>4, <2>5, <2>9, RefsStep DEF Places
<1> QED
  BY <1>11, <1>12

LEMMA StoreRefsStep ==
  ASSUME PoolInv, NEW t \in Users, StoreRefs(t)
  PROVE  PoolInv'
<1>1. PoolTypes /\ (\A u \in Users : LocalsOK(u)) /\ at[t] = "one"
  BY StackOf DEF StoreRefs
<1>2. UNCHANGED << initialBlockPoolIndex, freeListHead, freeListNext, used,
                   head, refs, next, node >>
  BY DEF StoreRefs, list, locals
<1>3. PICK x \in Nodes : x = node[t]
  BY <1>1 DEF LocalsOK, Early
<1>4. freeListRefs' = [freeListRefs EXCEPT ![x] = 1] /\ at' = [at EXCEPT ![t] = "push"]
  BY <1>3 DEF StoreRefs, Proceed
<1>5. /\ freeListRefs' \in [Nodes -> Int] /\ freeListRefs'[x] = 1
      /\ \A b \in Nodes \ {x} : freeListRefs'[b] = freeListRefs[b]
      /\ at' \in [Users -> PoolStages] /\ at'[t] = "push" /\ OnlyUser(t)
  BY <1>1, <1>2, <1>4 DEF PoolTypes, PoolStages, OnlyUser, Late
<1>6. PoolTypes'
  BY <1>1, <1>2, <1>5 DEF PoolTypes
<1>7. LocalsOK(t)'
  BY <1>1, <1>2, <1>3, <1>5 DEF LocalsOK, Early, Late
<1>8. \A b \in Nodes \ {x} : Untouched(t, b)
  BY <1>1, <1>2, <1>3, <1>5, Roles DEF Untouched, Early, Late
<1>9. PICK n \in Nat :
        \E l \in [1 .. n -> Nodes], place \in [Nodes -> Places] :
          IsStack(n, l) /\ \A b \in Nodes : IsAt(n, l, b, place[b])
  BY StackOf
<1>10. PICK l \in [1 .. n -> Nodes], place \in [Nodes -> Places] :
         IsStack(n, l) /\ \A b \in Nodes : IsAt(n, l, b, place[b])
  BY <1>9
<1>11. IsAt(n, l, x, "early")
  <2>1. t \in Adding(x) /\ at[t] \in Early
    BY <1>1, <1>3, Roles DEF Early
  <2>2. place[x] = "early"
    BY <1>10, <2>1 DEF IsAt
  <2> QED
    BY <1>10, <2>2
<1>12. Holding(x) = {} /\ Taking(x) = {} /\ Adding(x) = {t}
  <2>1. t \in Adding(x)
    BY <1>1, <1>3, Roles DEF Early
  <2>2. Taking(x) = {} /\ Adding(x) = {t}
    BY <1>11, <2>1, PlaceTells
  <2> QED
    BY <1>11, <2>2 DEF IsAt
<1>13. /\ t \notin Holding(x)' /\ t \notin Taking(x)' /\ t \in Adding(x)'
  BY <1>2, <1>3, <1>5, Roles DEF Early, Late
<1>14. Holding(x)' = {} /\ Taking(x)' = {} /\ Adding(x)' = {t}
  BY <1>5, <1>12, <1>13, SoleAdder
<1>15. IsAt(n, l, x, "late")'
  <2>1. ~ (x > initialBlockPoolIndex') /\ x \notin used' /\ ~ InStack(n, l, x)'
    BY <1>2, <1>11 DEF IsAt, InStack
  <2>2. freeListRefs'[x] = RefsAt("late", Cardinality(Holding(x)'))
    BY <1>5, <1>14, FS_EmptySet DEF RefsAt
  <2>3. at'[t] \notin Early /\ at'[t] \in Late
    BY <1>5 DEF Early, Late
  <2> QED
    BY <1>14, <2>1, <2>2, <2>3 DEF IsAt
<1> QED
  BY <1>1, <1>2, <1>5, <1>6, <1>7, <1>8, <1>10, <1>15, RefsStep DEF Places

LEMMA DeferStep ==
  ASSUME PoolInv, NEW t \in Users, Defer(t)
  PROVE  PoolInv'
<1>1. /\ PoolTypes /\ (\A u \in Users : LocalsOK(u)) /\ at[t] = "defer" /\ head[t] \in MaybeNode
  BY StackOf DEF Defer, PoolTypes
<1>2. UNCHANGED << initialBlockPoolIndex, freeListHead, freeListNext, used >>
  BY DEF Defer, list
<1>3. PICK x \in Nodes : x = node[t]
  BY <1>1 DEF LocalsOK, Late
<1>4. PICK r \in Int : r = freeListRefs[x]
  BY <1>1 DEF PoolTypes
<1>5. freeListRefs' = [freeListRefs EXCEPT ![x] = r + SHOULD_BE_ON_FREELIST - 1]
  BY <1>3, <1>4 DEF Defer
<1>6. /\ freeListRefs' \in [Nodes -> Int]
      /\ freeListRefs'[x] = r + SHOULD_BE_ON_FREELIST - 1
      /\ \A b \in Nodes \ {x} : freeListRefs'[b] = freeListRefs[b]
  BY <1>1, <1>5, PoolConstants DEF PoolTypes
<1>7. PICK n \in Nat :
        \E l \in [1 .. n -> Nodes], place \in [Nodes -> Places] :
          IsStack(n, l) /\ \A b \in Nodes : IsAt(n, l, b, place[b])
  BY StackOf
<1>8. PICK l \in [1 .. n -> Nodes], place \in [Nodes -> Places] :
        IsStack(n, l) /\ \A b \in Nodes : IsAt(n, l, b, place[b])
  BY <1>7
<1>9. t \in Adding(x) /\ t \notin Holding(x) /\ t \notin Taking(x) /\ at[t] \in Late
  BY <1>1, <1>3, Roles DEF Late
<1>10. IsAt(n, l, x, "late")
  <2>1. place[x] = "late"
    BY <1>8, <1>9 DEF IsAt
  <2> QED
    BY <1>8, <2>1
<1>11. Taking(x) = {} /\ Adding(x) = {t} /\ r = Cardinality(Holding(x)) + 1
  <2>1. Taking(x) = {} /\ Adding(x) = {t}
    BY <1>9, <1>10, PlaceTells
  <2> QED
    BY <1>4, <1>10, <2>1 DEF IsAt, RefsAt
<1>12. ~ (x > initialBlockPoolIndex') /\ x \notin used' /\ ~ InStack(n, l, x)'
  BY <1>2, <1>10 DEF IsAt, InStack
<1>13. CASE r = 1
  <2>1. at' = [at EXCEPT ![t] = "link"] /\ UNCHANGED << head, refs, next, node >>
    BY <1>3, <1>4, <1>13 DEF Defer, Proceed, locals
  <2>2. at' \in [Users -> PoolStages] /\ at'[t] = "link" /\ OnlyUser(t)
    BY <1>1, <2>1 DEF PoolTypes, PoolStages, OnlyUser, Early
  <2>3. PoolTypes'
    BY <1>1, <1>2, <1>6, <2>1, <2>2 DEF PoolTypes
  <2>4. LocalsOK(t)'
    BY <1>3, <2>1, <2>2 DEF LocalsOK, Early, Late
  <2>5. \A b \in Nodes \ {x} : Untouched(t, b)
    BY <1>1, <1>2, <1>3, <1>6, <2>1, <2>2, Roles DEF Untouched, Early, Late
  <2>6. t \notin Holding(x)' /\ t \notin Taking(x)' /\ t \in Adding(x)'
    BY <1>3, <2>1, <2>2, Roles DEF Early, Late
  <2>7. PICK h \in Nat : h = Cardinality(Holding(x)) /\ (h = 0 <=> Holding(x) = {})
    BY <2>2, Holders
  <2>8. Holding(x)' = {} /\ Taking(x)' = {} /\ Adding(x)' = {t}
    <3>1. Holding(x) = {}
      BY <1>11, <1>13, <2>7
    <3> QED
      BY <1>9, <1>11, <2>2, <2>6, <3>1, Others
  <2>9. freeListRefs'[x] = RefsAt("early", Cardinality(Holding(x)'))
    <3>1. Cardinality(Holding(x)') = 0
      BY <2>8, FS_EmptySet
    <3> QED
      BY <1>6, <1>13, <3>1, PoolConstants DEF RefsAt
  <2>10. at'[t] \in Early /\ at'[t] \notin Late
    BY <2>2 DEF Early, Late
  <2>11. IsAt(n, l, x, "early")'
    BY <1>12, <2>8, <2>9, <2>10 DEF IsAt
  <2> QED
    BY <1>1, <1>2, <1>8, <2>2, <2>3, <2>4, <2>5, <2>11, RefsStep DEF Places
<1>14. CASE r # 1
  <2>1. Loop(t, head[t])
    BY <1>3, <1>4, <1>14 DEF Defer
  <2>2. OnlyUser(t) /\ at'[t] \in {"ready", "refs"} /\ (at'[t] = "refs" => head'[t] \in Nodes)
    BY <1>1, <2>1, Looped
  <2>3. PoolTypes'
    BY <1>1, <1>2, <1>6, <2>1, Looped DEF PoolTypes
  <2>4. LocalsOK(t)'
    BY <2>2 DEF LocalsOK, Early, Late
  <2>5. \A b \in Nodes \ {x} : Untouched(t, b)
    BY <1>1, <1>2, <1>3, <1>6, <2>2, Roles DEF Untouched, Early, Late
  <2>6. t \notin Holding(x)' /\ t \notin Taking(x)' /\ t \notin Adding(x)'
    BY <2>2, Roles DEF Early, Late
  <2>7. PICK h \in Nat : h = Cardinality(Holding(x)) /\ (h = 0 <=> Holding(x) = {})
    BY <2>2, Holders
  <2>8. Holding(x)' = Holding(x) /\ Taking(x)' = {} /\ Adding(x)' = {}
    <3>1. Holding(x)' = Holding(x) /\ Taking(x)' = Taking(x)
      BY <1>9, <2>2, <2>6, Stay
    <3>2. Adding(x)' = {}
      BY <1>11, <2>2, <2>6, Others
    <3> QED
      BY <1>11, <3>1, <3>2
  <2>9. Holding(x)' # {}
    BY <1>11, <1>14, <2>7, <2>8
  <2>10. freeListRefs'[x] = RefsAt("deferred", Cardinality(Holding(x)'))
    <3>1. Cardinality(Holding(x)') = h /\ r = h + 1
      BY <1>11, <2>7, <2>8
    <3> QED
      BY <1>6, <3>1, PoolConstants DEF RefsAt
  <2>11. IsAt(n, l, x, "deferred")'
    BY <1>12, <2>8, <2>9, <2>10 DEF IsAt
  <2> QED
    BY <1>1, <1>2, <1>8, <2>2, <2>3, <2>4, <2>5, <2>11, RefsStep DEF Places
<1> QED
  BY <1>13, <1>14

-----------------------------------------------------------------------------
(* The steps that change the list.  Only the adder of a node that nobody   *)
(* has a reference to writes its next.                                     *)
LEMMA StoreNextStep ==
  ASSUME PoolInv, NEW t \in Users, StoreNext(t)
  PROVE  PoolInv'
<1>1. /\ PoolTypes /\ (\A u \in Users : LocalsOK(u)) /\ at[t] = "link" /\ next[t] \in MaybeNode
  BY StackOf DEF StoreNext, PoolTypes
<1>2. UNCHANGED << initialBlockPoolIndex, freeListHead, freeListRefs, used,
                   head, refs, next, node >>
  BY DEF StoreNext, locals
<1>3. PICK x \in Nodes : x = node[t]
  BY <1>1 DEF LocalsOK, Early
<1>4. /\ freeListNext' = [freeListNext EXCEPT ![x] = next[t]]
      /\ at' = [at EXCEPT ![t] = "one"]
  BY <1>3 DEF StoreNext, Proceed
<1>5. /\ freeListNext' \in [Nodes -> MaybeNode] /\ freeListNext'[x] = next[t]
      /\ \A b \in Nodes \ {x} : freeListNext'[b] = freeListNext[b]
      /\ at' \in [Users -> PoolStages] /\ at'[t] = "one" /\ OnlyUser(t)
  BY <1>1, <1>2, <1>4 DEF PoolTypes, PoolStages, OnlyUser, Early
<1>6. PoolTypes'
  BY <1>1, <1>2, <1>5 DEF PoolTypes
<1>7. \A b \in Nodes \ {x} : Untouched(t, b)
  BY <1>1, <1>2, <1>3, <1>5, Roles DEF Untouched, Early, Late
<1>8. PICK n \in Nat :
        \E l \in [1 .. n -> Nodes], place \in [Nodes -> Places] :
          IsStack(n, l) /\ \A b \in Nodes : IsAt(n, l, b, place[b])
  BY StackOf
<1>9. PICK l \in [1 .. n -> Nodes], place \in [Nodes -> Places] :
        IsStack(n, l) /\ \A b \in Nodes : IsAt(n, l, b, place[b])
  BY <1>8
<1>10. IsAt(n, l, x, "early") /\ Taking(x) = {} /\ Adding(x) = {t}
  <2>1. t \in Adding(x) /\ at[t] \in Early
    BY <1>1, <1>3, Roles DEF Early
  <2>2. place[x] = "early"
    BY <1>9, <2>1 DEF IsAt
  <2>3. IsAt(n, l, x, "early")
    BY <1>9, <2>2
  <2> QED
    BY <2>1, <2>3, PlaceTells
<1>11. Holding(x) = {} /\ ~ InStack(n, l, x)
  BY <1>10 DEF IsAt
<1>12. Holding(x)' = {} /\ Taking(x)' = {} /\ Adding(x)' = {t}
  <2>1. t \notin Holding(x)' /\ t \notin Taking(x)' /\ t \in Adding(x)'
    BY <1>2, <1>3, <1>5, Roles DEF Early, Late
  <2> QED
    BY <1>5, <1>10, <1>11, <2>1, Others
<1>13. IsAt(n, l, x, "early")'
  <2>1. ~ (x > initialBlockPoolIndex') /\ x \notin used' /\ ~ InStack(n, l, x)'
    BY <1>2, <1>10 DEF IsAt, InStack
  <2>2. freeListRefs'[x] = RefsAt("early", Cardinality(Holding(x)'))
    BY <1>2, <1>10, <1>11, <1>12 DEF IsAt
  <2>3. at'[t] \in Early /\ at'[t] \notin Late
    BY <1>5 DEF Early, Late
  <2> QED
    BY <1>12, <2>1, <2>2, <2>3 DEF IsAt
<1>14. IsStack(n, l)'
  <2>1. \A k \in 1 .. n : freeListNext'[l[k]] = freeListNext[l[k]]
    BY <1>5, <1>11 DEF InStack
  <2> QED
    BY <1>2, <1>9, <2>1 DEF IsStack
<1>15. ASSUME NEW u \in Users PROVE LocalsOK(u)'
  <2>1. CASE u = t
    BY <1>2, <1>3, <1>5, <2>1 DEF LocalsOK, Early, Late
  <2>2. CASE u # t
    <3>1. LocalsOK(u) /\ u \notin Holding(x) /\ u \notin Adding(x)
      BY <1>1, <1>10, <1>11, <2>2
    <3>2. at'[u] = at[u] /\ UNCHANGED << head, refs, next, node >>
      BY <1>2, <1>5, <2>2 DEF OnlyUser
    <3>3. at[u] = "take" => freeListNext'[head[u]] = freeListNext[head[u]]
      BY <1>5, <3>1, Roles DEF LocalsOK
    <3>4. at[u] \in {"one", "push"} => freeListNext'[node[u]] = freeListNext[node[u]]
      BY <1>5, <3>1, Roles DEF LocalsOK, Early, Late
    <3> QED
      BY <3>1, <3>2, <3>3, <3>4 DEF LocalsOK
  <2> QED
    BY <2>1, <2>2
<1> QED
  BY <1>2, <1>5, <1>6, <1>7, <1>9, <1>13, <1>14, <1>15, PoolStep DEF Places

LEMMA TakeHeadStep ==
  ASSUME PoolInv, NEW t \in Users, TakeHead(t)
  PROVE  PoolInv'
<1>1. /\ PoolTypes /\ (\A u \in Users : LocalsOK(u)) /\ null \in MaybeNode /\ at[t] = "take"
      /\ freeListHead \in MaybeNode /\ next[t] \in MaybeNode
  BY StackOf DEF TakeHead, MaybeNode, PoolTypes
<1>2. UNCHANGED << initialBlockPoolIndex, freeListNext, freeListRefs, used >>
  BY DEF TakeHead
<1>3. PICK x \in Nodes : x = head[t]
  BY <1>1 DEF LocalsOK
<1>4. CASE freeListHead # x
  <2>1. /\ at' = [at EXCEPT ![t] = "letGo"] /\ node' = [node EXCEPT ![t] = x]
        /\ head' = [head EXCEPT ![t] = freeListHead] /\ next' = [next EXCEPT ![t] = null]
        /\ UNCHANGED << freeListHead, refs >>
    BY <1>3, <1>4 DEF TakeHead, Proceed
  <2>2. /\ at' \in [Users -> PoolStages] /\ node' \in [Users -> MaybeNode]
        /\ head' \in [Users -> MaybeNode] /\ next' \in [Users -> MaybeNode]
        /\ at'[t] = "letGo" /\ node'[t] = x
    BY <1>1, <2>1 DEF PoolTypes, PoolStages, MaybeNode
  <2>3. OnlyUser(t)
    BY <1>1, <2>1 DEF PoolTypes, OnlyUser
  <2>4. PoolTypes'
    BY <1>1, <1>2, <2>1, <2>2 DEF PoolTypes
  <2>5. LocalsOK(t)'
    BY <2>2 DEF LocalsOK, Early, Late
  <2>6. \A b \in Nodes : Untouched(t, b)
    BY <1>1, <1>2, <1>3, <2>2, Roles DEF Untouched, Early, Late
  <2> QED
    BY <1>1, <1>2, <2>1, <2>3, <2>4, <2>5, <2>6, LocalsStay, NoBlockStep
<1>5. CASE freeListHead = x
  <2>0. PICK n \in Nat :
          \E l \in [1 .. n -> Nodes], place \in [Nodes -> Places] :
            IsStack(n, l) /\ \A b \in Nodes : IsAt(n, l, b, place[b])
    BY StackOf
  <2>1. PICK l \in [1 .. n -> Nodes], place \in [Nodes -> Places] :
          IsStack(n, l) /\ \A b \in Nodes : IsAt(n, l, b, place[b])
    BY <2>0
  <2>2. n # 0 /\ l[n] = x /\ n - 1 \in Nat /\ n \in 1 .. n
    BY <1>5, <2>1, PoolConstants DEF IsStack
  <2>3. freeListHead' = freeListNext[x] /\ Continue(t, "taken", x)
    BY <1>1, <1>3, <1>5 DEF TakeHead, LocalsOK
  <2>4. x \in MaybeNode /\ "taken" \in PoolStages /\ freeListNext[x] \in MaybeNode
    BY <1>1 DEF MaybeNode, PoolStages, PoolTypes
  <2>5. OnlyUser(t) /\ at'[t] = "taken" /\ head'[t] = x
    BY <1>1, <2>3, <2>4, Continued
  <2>6. PoolTypes'
    BY <1>1, <1>2, <2>3, <2>4, Continued DEF PoolTypes
  <2>7. LocalsOK(t)'
    BY <2>5 DEF LocalsOK, Early, Late
  <2>8. \A u \in Users : LocalsOK(u)'
    BY <1>1, <1>2, <2>5, <2>7, LocalsStay
  <2>9. \A b \in Nodes \ {x} : Untouched(t, b)
    BY <1>1, <1>2, <1>3, <2>5, Roles DEF Untouched, Early, Late
  <2>10. IsAt(n, l, x, "list")
    <3>1. place[x] = "list"
      BY <2>1, <2>2 DEF IsAt, InStack
    <3> QED
      BY <2>1, <3>1
  <2>11. PICK m \in Nat : m = n - 1 /\ n = m + 1
    BY <2>2
  <2>12. \A j \in 1 .. m : j \in 1 .. n /\ j # n
    BY <2>11
  <2>13. PICK k \in [1 .. m -> Nodes] : k = [j \in 1 .. m |-> l[j]]
    <3>1. [j \in 1 .. m |-> l[j]] \in [1 .. m -> Nodes]
      BY <2>12
    <3> QED
      BY <3>1
  <2>14. \A j \in 1 .. m : k[j] = l[j] /\ l[j] # x /\ j \in 1 .. n
    <3>1. \A i, j \in 1 .. n : l[i] = l[j] => i = j
      BY <2>1 DEF IsStack
    <3>2. \A j \in 1 .. m : l[j] # x
      BY <2>2, <2>12, <3>1
    <3> QED
      BY <2>12, <2>13, <3>2
  <2>15. \A j \in 1 .. n : j = n \/ j \in 1 .. m
    BY <2>11
  <2>16. IsStack(m, k)'
    <3>1. freeListHead' = IF m = 0 THEN null ELSE k[m]
      <4>1. freeListNext[x] = IF n = 1 THEN null ELSE l[n - 1]
        BY <2>1, <2>2 DEF IsStack
      <4> QED
        BY <2>3, <2>11, <2>14, <4>1
    <3>2. \A j \in 1 .. m : freeListNext'[k[j]] = IF j = 1 THEN null ELSE k[j - 1]
      <4>1. \A j \in 1 .. m : freeListNext[l[j]] = IF j = 1 THEN null ELSE l[j - 1]
        BY <2>1, <2>14 DEF IsStack
      <4>2. \A j \in 1 .. m : j # 1 => j - 1 \in 1 .. m
        OBVIOUS
      <4> QED
        BY <1>2, <2>14, <4>1, <4>2
    <3>3. \A i, j \in 1 .. m : k[i] = k[j] => i = j
      BY <2>1, <2>14 DEF IsStack
    <3> QED
      BY <3>1, <3>2, <3>3 DEF IsStack
  <2>17. \A b \in Nodes \ {x} : InStack(m, k, b) <=> InStack(n, l, b)
    BY <2>2, <2>14, <2>15 DEF InStack
  <2>18. ~ InStack(m, k, x)
    BY <2>14 DEF InStack
  <2>19. Taking(x) = {} /\ Adding(x) = {}
    BY <2>10, PlaceTells
  <2>20. /\ t \in Holding(x) /\ t \in Holding(x)' /\ t \in Taking(x)' /\ t \notin Adding(x)'
    BY <1>1, <1>3, <2>5, Roles DEF Early, Late
  <2>21. Holding(x)' = Holding(x) /\ Taking(x)' = {t} /\ Adding(x)' = {}
    <3>1. Holding(x)' = Holding(x)
      BY <2>5, <2>20, Stay
    <3>2. Taking(x)' = {t} /\ Adding(x)' = {}
      BY <2>5, <2>19, <2>20, Others
    <3> QED
      BY <3>1, <3>2
  <2>22. IsAt(m, k, x, "taken")'
    <3>1. ~ (x > initialBlockPoolIndex') /\ x \notin used' /\ ~ InStack(m, k, x)'
      BY <1>2, <2>10, <2>18 DEF IsAt, InStack
    <3>2. freeListRefs'[x] = RefsAt("taken", Cardinality(Holding(x)'))
      BY <1>2, <2>10, <2>21 DEF IsAt, RefsAt
    <3> QED
      BY <2>21, <3>1, <3>2 DEF IsAt
  <2> QED
    BY <2>1, <2>5, <2>6, <2>8, <2>9, <2>16, <2>17, <2>22, PoolStep DEF Places
<1> QED
  BY <1>4, <1>5

LEMMA PushStep ==
  ASSUME PoolInv, NEW t \in Users, Push(t)
  PROVE  PoolInv'
<1>1. /\ PoolTypes /\ (\A u \in Users : LocalsOK(u)) /\ at[t] = "push"
      /\ freeListHead \in MaybeNode /\ head[t] \in MaybeNode
  BY StackOf DEF Push, PoolTypes
<1>2. UNCHANGED << initialBlockPoolIndex, freeListNext, freeListRefs, used >>
  BY DEF Push
<1>3. PICK x \in Nodes : x = node[t]
  BY <1>1 DEF LocalsOK, Late
<1>4. CASE freeListHead # next[t]
  <2>1. /\ at' = [at EXCEPT ![t] = "defer"] /\ next' = [next EXCEPT ![t] = freeListHead]
        /\ UNCHANGED << freeListHead, head, refs, node >>
    BY <1>4 DEF Push, Proceed
  <2>2. /\ at' \in [Users -> PoolStages] /\ next' \in [Users -> MaybeNode]
        /\ at'[t] = "defer"
    BY <1>1, <2>1 DEF PoolTypes, PoolStages, Late
  <2>3. OnlyUser(t)
    BY <1>1, <2>1 DEF PoolTypes, OnlyUser
  <2>4. PoolTypes'
    BY <1>1, <1>2, <2>1, <2>2 DEF PoolTypes
  <2>5. LocalsOK(t)'
    BY <1>3, <2>1, <2>2 DEF LocalsOK, Early, Late
  <2>6. \A b \in Nodes : Untouched(t, b)
    BY <1>1, <1>2, <2>1, <2>2, Roles DEF Untouched, Early, Late
  <2> QED
    BY <1>1, <1>2, <2>1, <2>3, <2>4, <2>5, <2>6, LocalsStay, NoBlockStep
<1>5. CASE freeListHead = next[t]
  <2>0. PICK n \in Nat :
          \E l \in [1 .. n -> Nodes], place \in [Nodes -> Places] :
            IsStack(n, l) /\ \A b \in Nodes : IsAt(n, l, b, place[b])
    BY StackOf
  <2>1. PICK l \in [1 .. n -> Nodes], place \in [Nodes -> Places] :
          IsStack(n, l) /\ \A b \in Nodes : IsAt(n, l, b, place[b])
    BY <2>0
  <2>2. /\ freeListHead' = x /\ Loop(t, head[t]) /\ freeListNext[x] = freeListHead
    BY <1>1, <1>3, <1>5 DEF Push, LocalsOK
  <2>3. OnlyUser(t) /\ at'[t] \in {"ready", "refs"} /\ (at'[t] = "refs" => head'[t] \in Nodes)
    BY <1>1, <2>2, Looped
  <2>4. PoolTypes'
    <3>1. freeListHead' \in MaybeNode
      BY <2>2 DEF MaybeNode
    <3> QED
      BY <1>1, <1>2, <2>2, <3>1, Looped DEF PoolTypes
  <2>5. LocalsOK(t)'
    BY <2>3 DEF LocalsOK, Early, Late
  <2>6. \A u \in Users : LocalsOK(u)'
    BY <1>1, <1>2, <2>3, <2>5, LocalsStay
  <2>7. \A b \in Nodes \ {x} : Untouched(t, b)
    BY <1>1, <1>2, <1>3, <2>3, Roles DEF Untouched, Early, Late
  <2>8. t \in Adding(x) /\ t \notin Holding(x) /\ t \notin Taking(x) /\ at[t] \in Late
    BY <1>1, <1>3, Roles DEF Late
  <2>9. IsAt(n, l, x, "late")
    <3>1. place[x] = "late"
      BY <2>1, <2>8 DEF IsAt
    <3> QED
      BY <2>1, <3>1
  <2>10. Taking(x) = {} /\ Adding(x) = {t}
    BY <2>8, <2>9, PlaceTells
  <2>11. PICK m \in Nat : m = n + 1 /\ n = m - 1
    OBVIOUS
  <2>12. \A j \in 1 .. m : j = m \/ j \in 1 .. n
    BY <2>11
  <2>13. PICK k \in [1 .. m -> Nodes] : k = [j \in 1 .. m |-> IF j = m THEN x ELSE l[j]]
    <3>1. [j \in 1 .. m |-> IF j = m THEN x ELSE l[j]] \in [1 .. m -> Nodes]
      BY <2>12
    <3> QED
      BY <3>1
  <2>14. /\ m \in 1 .. m /\ m # 0 /\ k[m] = x
         /\ \A j \in 1 .. n : j \in 1 .. m /\ j # m /\ k[j] = l[j] /\ l[j] # x
    <3>1. \A j \in 1 .. n : l[j] # x
      BY <2>9 DEF IsAt, InStack
    <3>2. m \in 1 .. m /\ m # 0 /\ \A j \in 1 .. n : j \in 1 .. m /\ j # m
      BY <2>11
    <3> QED
      BY <2>13, <3>1, <3>2
  <2>15. IsStack(m, k)'
    <3>1. freeListHead' = IF m = 0 THEN null ELSE k[m]
      BY <2>2, <2>14
    <3>2. ASSUME NEW j \in 1 .. m
          PROVE  freeListNext'[k[j]] = IF j = 1 THEN null ELSE k[j - 1]
      <4>1. CASE j = m
        <5>1. freeListNext'[k[j]] = IF n = 0 THEN null ELSE l[n]
          BY <1>2, <2>1, <2>2, <2>14, <4>1 DEF IsStack
        <5>2. n = 0 <=> j = 1
          BY <2>11, <4>1
        <5>3. n # 0 => n \in 1 .. n /\ j - 1 = n
          BY <2>11, <4>1
        <5> QED
          BY <2>14, <5>1, <5>2, <5>3
      <4>2. CASE j \in 1 .. n
        <5>1. freeListNext'[k[j]] = IF j = 1 THEN null ELSE l[j - 1]
          BY <1>2, <2>1, <2>14, <4>2 DEF IsStack
        <5>2. j # 1 => j - 1 \in 1 .. n
          BY <4>2
        <5> QED
          BY <2>14, <5>1, <5>2
      <4> QED
        BY <2>12, <4>1, <4>2
    <3>3. \A i, j \in 1 .. m : k[i] = k[j] => i = j
      <4>1. \A i, j \in 1 .. n : l[i] = l[j] => i = j
        BY <2>1 DEF IsStack
      <4> QED
        BY <2>12, <2>14, <4>1
    <3> QED
      BY <3>1, <3>2, <3>3 DEF IsStack
  <2>16. \A b \in Nodes \ {x} : InStack(m, k, b) <=> InStack(n, l, b)
    BY <2>12, <2>14 DEF InStack
  <2>17. t \notin Holding(x)' /\ t \notin Taking(x)' /\ t \notin Adding(x)'
    BY <2>3, Roles DEF Early, Late
  <2>18. Holding(x)' = Holding(x) /\ Taking(x)' = {} /\ Adding(x)' = {}
    <3>1. Holding(x)' = Holding(x) /\ Taking(x)' = Taking(x)
      BY <2>3, <2>8, <2>17, Stay
    <3>2. Adding(x)' = {}
      BY <2>3, <2>10, <2>17, Others
    <3> QED
      BY <2>10, <3>1, <3>2
  <2>19. IsAt(m, k, x, "list")'
    <3>1. ~ (x > initialBlockPoolIndex') /\ x \notin used' /\ InStack(m, k, x)'
      BY <1>2, <2>9, <2>14 DEF IsAt, InStack
    <3>2. freeListRefs'[x] = RefsAt("list", Cardinality(Holding(x)'))
      BY <1>2, <2>9, <2>18 DEF IsAt, RefsAt
    <3> QED
      BY <2>18, <3>1, <3>2 DEF IsAt
  <2> QED
    BY <2>1, <2>3, <2>4, <2>6, <2>7, <2>15, <2>16, <2>19, PoolStep DEF Places
<1> QED
  BY <1>4, <1>5

-----------------------------------------------------------------------------
LEMMA PoolInvInit ==
  ASSUME PoolInit
  PROVE  PoolInv
<1>1. PoolTypes
  BY DEF PoolInit, PoolTypes, MaybeNode, PoolStages
<1>2. \A t \in Users : LocalsOK(t)
  BY DEF PoolInit, LocalsOK, Early, Late
<1>3. PICK n \in Nat : n = 0
  OBVIOUS
<1>4. PICK l \in [1 .. n -> Nodes] : TRUE
  <2>1. [k \in 1 .. n |-> k] \in [1 .. n -> Nodes]
    BY <1>3
  <2> QED
    BY <2>1
<1>5. PICK place \in [Nodes -> Places] : \A b \in Nodes : place[b] = "new"
  <2>1. [b \in Nodes |-> "new"] \in [Nodes -> Places]
    BY DEF Places
  <2> QED
    BY <2>1
<1>6. IsStack(n, l)
  BY <1>3 DEF IsStack, PoolInit
<1>7. ASSUME NEW b \in Nodes PROVE IsAt(n, l, b, place[b])
  <2>1. Holding(b) = {} /\ Taking(b) = {} /\ Adding(b) = {}
    BY DEF PoolInit, Holding, Taking, Adding
  <2>2. b > initialBlockPoolIndex /\ b \notin used /\ ~ InStack(n, l, b)
    BY <1>3, PoolConstants DEF PoolInit, InStack
  <2>3. freeListRefs[b] = RefsAt("new", Cardinality(Holding(b)))
    BY <2>1, FS_EmptySet DEF PoolInit, RefsAt
  <2> QED
    BY <1>5, <2>1, <2>2, <2>3 DEF IsAt
<1> QED
  BY <1>1, <1>2, <1>6, <1>7 DEF PoolInv

LEMMA PoolStutter ==
  ASSUME PoolInv, UNCHANGED poolVars
  PROVE  PoolInv'
<1>1. /\ PoolTypes' <=> PoolTypes
      /\ (\A t \in Users : LocalsOK(t)') <=> \A t \in Users : LocalsOK(t)
  BY DEF poolVars, PoolTypes, LocalsOK
<1>2. ASSUME NEW b PROVE Holding(b)' = Holding(b) /\ Taking(b)' = Taking(b)
                         /\ Adding(b)' = Adding(b)
  BY DEF poolVars, Holding, Taking, Adding
<1>3. ASSUME NEW n, NEW l, NEW b, NEW p, IsAt(n, l, b, p)
      PROVE  IsAt(n, l, b, p)'
  BY <1>2, <1>3 DEF IsAt, poolVars, InStack
<1>4. ASSUME NEW n, NEW l, IsStack(n, l)
      PROVE  IsStack(n, l)'
  BY <1>4 DEF IsStack, poolVars
<1>5. PICK n \in Nat :
        \E l \in [1 .. n -> Nodes], place \in [Nodes -> Places] :
          IsStack(n, l) /\ \A b \in Nodes : IsAt(n, l, b, place[b])
  BY StackOf
<1>6. PICK l \in [1 .. n -> Nodes], place \in [Nodes -> Places] :
        IsStack(n, l) /\ \A b \in Nodes : IsAt(n, l, b, place[b])
  BY <1>5
<1>7. IsStack(n, l)' /\ \A b \in Nodes : IsAt(n, l, b, place[b])'
  BY <1>3, <1>4, <1>6
<1> QED
  BY <1>1, <1>7 DEF PoolInv

LEMMA PoolInvNext ==
  ASSUME PoolInv, [PoolNext]_poolVars
  PROVE  PoolInv'
<1>1. ASSUME NEW t \in Users,
             \/ try_get_block_from_initial_pool(t) \/ FetchAddPoolIndex(t)
             \/ LoadHead(t) \/ LoadRefs(t) \/ Hold(t) \/ LoadNext(t) \/ TakeHead(t) \/ Taken(t)
             \/ LetGo(t) \/ add(t)
             \/ LoadTop(t) \/ StoreNext(t) \/ StoreRefs(t) \/ Push(t) \/ Defer(t)
      PROVE  PoolInv'
  BY <1>1, InitialPoolStep, FetchAddPoolIndexStep, LoadHeadStep, LoadRefsStep, HoldStep,
     LoadNextStep, TakeHeadStep, TakenStep, LetGoStep, AddStep, LoadTopStep, StoreNextStep,
     StoreRefsStep, PushStep, DeferStep
<1> QED
  BY <1>1, PoolStutter DEF PoolNext

LEMMA PoolInvariance == PoolSpec => []PoolInv
BY PoolInvInit, PoolInvNext, PTL DEF PoolSpec

-----------------------------------------------------------------------------
(* Walk goes down the stack.                                               *)
LEMMA LeastOne ==
  ASSUME NEW T, T \subseteq Nat, T # {}
  PROVE  \E x \in T : \A y \in T : ~ (y < x)
<1> DEFINE R == OpToRel(<, Nat)
<1>1. IsWellFoundedOn(R, Nat)
  BY NatLessThanWellFounded
<1>2. \A x, y \in Nat : x < y => << x, y >> \in R
  BY DEF OpToRel
<1> HIDE DEF R
<1>3. PICK x \in T : \A y \in T : ~ (<< y, x >> \in R)
  BY <1>1, WFMin
<1> QED
  BY <1>2, <1>3

LEMMA WalkOf ==
  ASSUME PoolTypes, NEW n \in Nat, NEW l \in [1 .. n -> Nodes], IsStack(n, l)
  PROVE  /\ DOMAIN Walk = 0 .. initialBlockPoolSize
         /\ \A k \in 0 .. initialBlockPoolSize : Walk[k] = IF k < n THEN l[n - k] ELSE null
<1> DEFINE D == 0 .. initialBlockPoolSize
           down(k) == IF k < n THEN l[n - k] ELSE null
           g == [k \in D |-> down(k)]
<1>1. /\ initialBlockPoolSize \in Nat /\ null \notin Nodes
      /\ \A k \in D : k \in Nat /\ (k # 0 => k - 1 \in D /\ k - 1 < k)
  BY PoolConstants
<1>2. \A k \in D : k < n => n - k \in 1 .. n /\ l[n - k] # null
  BY <1>1
<1>3. \A k \in D \ {0} : k - 1 < n =>
        freeListNext[l[n - (k - 1)]] = IF n - (k - 1) = 1 THEN null ELSE l[n - k]
  <2>1. \A k \in D \ {0} : k - 1 < n => n - (k - 1) \in 1 .. n /\ (n - (k - 1)) - 1 = n - k
    BY <1>1
  <2>2. \A j \in 1 .. n : freeListNext[l[j]] = IF j = 1 THEN null ELSE l[j - 1]
    BY DEF IsStack
  <2> QED
    BY <2>1, <2>2
<1>4. \A k \in D \ {0} :
        down(k) = IF down(k - 1) = null THEN null ELSE freeListNext[down(k - 1)]
  <2>1. SUFFICES ASSUME NEW k \in D \ {0}
        PROVE  down(k) = IF down(k - 1) = null THEN null ELSE freeListNext[down(k - 1)]
    OBVIOUS
  <2>2. CASE k - 1 < n
    <3>1. down(k - 1) = l[n - (k - 1)] /\ down(k - 1) # null
      BY <1>1, <1>2, <2>2
    <3>2. n - (k - 1) = 1 <=> ~ (k < n)
      BY <1>1, <2>2
    <3> QED
      BY <1>3, <2>2, <3>1, <3>2
  <2>3. CASE ~ (k - 1 < n)
    BY <1>1, <2>3
  <2> QED
    BY <2>2, <2>3
<1>5. down(0) = freeListHead
  <2>1. n # 0 => 0 < n
    OBVIOUS
  <2> QED
    BY <2>1 DEF IsStack
<1>6. \A k \in D : g[k] = down(k)
  OBVIOUS
<1> HIDE DEF down
<1>7. g = [k \in D |-> IF k = 0 THEN freeListHead
                       ELSE IF g[k - 1] = null THEN null ELSE freeListNext[g[k - 1]]]
  <2>1. \A k \in D : down(k) = IF k = 0 THEN freeListHead
                               ELSE IF g[k - 1] = null THEN null ELSE freeListNext[g[k - 1]]
    BY <1>1, <1>4, <1>5, <1>6
  <2> QED
    BY <2>1
<1>8. Walk = [k \in D |-> IF k = 0 THEN freeListHead
                          ELSE IF Walk[k - 1] = null THEN null ELSE freeListNext[Walk[k - 1]]]
  <2> HIDE DEF g
  <2> QED
    BY <1>7 DEF Walk
<1> HIDE DEF g, D
<1>9. DOMAIN Walk = D /\ \A k \in D :
        Walk[k] = IF k = 0 THEN freeListHead
                  ELSE IF Walk[k - 1] = null THEN null ELSE freeListNext[Walk[k - 1]]
  BY <1>8
<1>10. \A k \in D : Walk[k] = down(k)
  <2> DEFINE Bad == { k \in D : Walk[k] # down(k) }
  <2>1. SUFFICES ASSUME Bad # {} PROVE FALSE
    OBVIOUS
  <2>2. Bad \subseteq Nat
    BY <1>1
  <2> HIDE DEF Bad
  <2>3. PICK x \in Bad : \A y \in Bad : ~ (y < x)
    BY <2>1, <2>2, LeastOne
  <2>4. x \in D /\ Walk[x] # down(x)
    BY <2>3 DEF Bad
  <2>5. x # 0
    BY <1>5, <1>9, <2>4
  <2>6. x - 1 \in D /\ Walk[x - 1] = down(x - 1)
    BY <1>1, <2>3, <2>4, <2>5 DEF Bad
  <2> QED
    BY <1>4, <1>9, <2>4, <2>5, <2>6
<1> QED
  BY <1>9, <1>10 DEF down, D

LEMMA StackFits ==
  ASSUME NEW n \in Nat, NEW l \in [1 .. n -> Nodes], IsStack(n, l)
  PROVE  n <= initialBlockPoolSize
<1>1. IsFiniteSet(1 .. n) /\ Cardinality(1 .. n) = n
  BY FS_Interval
<1>2. IsFiniteSet(Nodes) /\ Cardinality(Nodes) = initialBlockPoolSize
  BY PoolConstants, FS_Interval
<1>3. SUFFICES ASSUME initialBlockPoolSize < n PROVE FALSE
  BY PoolConstants
<1>4. PICK i, j \in 1 .. n : i # j /\ l[i] = l[j]
  BY <1>1, <1>2, <1>3, FS_PigeonHole
<1> QED
  BY <1>4 DEF IsStack

LEMMA OnListOf ==
  ASSUME PoolTypes, NEW n \in Nat, NEW l \in [1 .. n -> Nodes], IsStack(n, l), NEW b \in Nodes
  PROVE  Cardinality(OnList(b)) = IF InStack(n, l, b) THEN 1 ELSE 0
<1>1. /\ DOMAIN Walk = 0 .. initialBlockPoolSize
      /\ \A k \in 0 .. initialBlockPoolSize : Walk[k] = IF k < n THEN l[n - k] ELSE null
  BY WalkOf
<1>2. \A k \in OnList(b) : k \in 0 .. n - 1 /\ n - k \in 1 .. n /\ l[n - k] = b
  <2>1. SUFFICES ASSUME NEW k \in OnList(b)
        PROVE  k \in 0 .. n - 1 /\ n - k \in 1 .. n /\ l[n - k] = b
    OBVIOUS
  <2>2. k \in 0 .. initialBlockPoolSize /\ Walk[k] = b
    BY <1>1 DEF OnList
  <2>3. k < n /\ l[n - k] = b
    BY <1>1, <2>2, PoolConstants
  <2> QED
    BY <2>2, <2>3, PoolConstants
<1>3. CASE InStack(n, l, b)
  <2>1. PICK j \in 1 .. n : l[j] = b
    BY <1>3 DEF InStack
  <2>2. PICK k \in 0 .. initialBlockPoolSize : k = n - j /\ k < n /\ n - k = j
    BY StackFits, PoolConstants
  <2>3. k \in OnList(b)
    BY <1>1, <2>1, <2>2 DEF OnList
  <2>4. \A i \in OnList(b) : i = k
    <3>1. \A i \in OnList(b) : n - i = j
      BY <1>2, <2>1 DEF IsStack
    <3> QED
      BY <1>2, <2>2, <3>1
  <2>5. OnList(b) = {k}
    BY <2>3, <2>4
  <2> QED
    BY <1>3, <2>5, FS_Singleton
<1>4. CASE ~ InStack(n, l, b)
  <2>1. OnList(b) = {}
    BY <1>2, <1>4 DEF InStack
  <2> QED
    BY <1>4, <2>1, FS_EmptySet
<1> QED
  BY <1>3, <1>4

LEMMA PoolInvPlaces ==
  ASSUME PoolInv
  PROVE  InOnePlace
<1>1. PICK n \in Nat :
        \E l \in [1 .. n -> Nodes], place \in [Nodes -> Places] :
          IsStack(n, l) /\ \A b \in Nodes : IsAt(n, l, b, place[b])
  BY StackOf
<1>2. PICK l \in [1 .. n -> Nodes], place \in [Nodes -> Places] :
        IsStack(n, l) /\ \A b \in Nodes : IsAt(n, l, b, place[b])
  BY <1>1
<1>3. SUFFICES ASSUME NEW b \in Nodes, b <= initialBlockPoolIndex
      PROVE  /\ Cardinality(OnList(b)) + Cardinality(Adding(b)) + Cardinality(Taking(b))
                  + (IF b \in used THEN 1 ELSE 0) + (IF Deferred(b) THEN 1 ELSE 0) = 1
             /\ Deferred(b) => Holding(b) # {}
             /\ Taking(b) # {} => ~ ShouldBeOnFreeList(freeListRefs[b])
  BY DEF InOnePlace
<1>4. PICK p \in Places : IsAt(n, l, b, p)
  BY <1>2
<1>5. p # "new"
  <2>1. initialBlockPoolIndex \in Nat
    BY StackOf DEF PoolTypes
  <2> QED
    BY <1>3, <1>4, <2>1, PoolConstants DEF IsAt
<1>6. Cardinality(OnList(b)) = IF p = "list" THEN 1 ELSE 0
  BY <1>2, <1>4, StackOf, OnListOf DEF IsAt
<1>7. Cardinality(Adding(b)) = IF p \in {"early", "late"} THEN 1 ELSE 0
  <2>1. CASE p \in {"early", "late"}
    <3>1. PICK t \in Adding(b) : TRUE
      BY <1>4, <2>1 DEF IsAt
    <3>2. Adding(b) = {t}
      BY <1>4, PlaceTells
    <3> QED
      BY <2>1, <3>2, FS_Singleton
  <2>2. CASE p \notin {"early", "late"}
    <3>1. Adding(b) = {}
      BY <1>4, <2>2, PlaceTells
    <3> QED
      BY <2>2, <3>1, FS_EmptySet
  <2> QED
    BY <2>1, <2>2
<1>8. Cardinality(Taking(b)) = IF p = "taken" THEN 1 ELSE 0
  <2>1. CASE p = "taken"
    <3>1. PICK t \in Taking(b) : TRUE
      BY <1>4, <2>1 DEF IsAt
    <3>2. Taking(b) = {t}
      BY <1>4, PlaceTells
    <3> QED
      BY <2>1, <3>2, FS_Singleton
  <2>2. CASE p # "taken"
    <3>1. Taking(b) = {}
      BY <1>4, <2>2, PlaceTells
    <3> QED
      BY <2>2, <3>1, FS_EmptySet
  <2> QED
    BY <2>1, <2>2
<1>9. PICK h \in Nat : h = Cardinality(Holding(b)) /\ h <= Cardinality(Users)
  <2>1. Holding(b) \subseteq Users
    BY DEF Holding
  <2>2. IsFiniteSet(Holding(b)) /\ Cardinality(Holding(b)) <= Cardinality(Users)
    BY <2>1, PoolConstants, FS_Subset
  <2> QED
    BY <2>2, FS_CardinalityType
<1>10. ShouldBeOnFreeList(freeListRefs[b]) <=> p \in {"early", "deferred"}
  <2>1. freeListRefs[b] = RefsAt(p, h)
    BY <1>4, <1>9 DEF IsAt
  <2>2. RefsAt(p, h) >= SHOULD_BE_ON_FREELIST <=> p \in {"early", "deferred"}
    BY <1>5, <1>9, PoolConstants DEF RefsAt, Places
  <2> QED
    BY <2>1, <2>2 DEF ShouldBeOnFreeList
<1>11. Deferred(b) <=> p = "deferred"
  <2>1. p = "early" => Adding(b) # {}
    BY <1>4 DEF IsAt
  <2>2. p = "deferred" => Adding(b) = {}
    BY <1>4, PlaceTells
  <2> QED
    BY <1>10, <2>1, <2>2 DEF Deferred
<1>12. (IF b \in used THEN 1 ELSE 0) = IF p = "used" THEN 1 ELSE 0
  BY <1>4 DEF IsAt
<1>13. Deferred(b) => Holding(b) # {}
  BY <1>4, <1>11 DEF IsAt
<1>14. Taking(b) # {} => ~ ShouldBeOnFreeList(freeListRefs[b])
  BY <1>4, <1>10 DEF IsAt
<1> QED
  BY <1>5, <1>6, <1>7, <1>8, <1>11, <1>12, <1>13, <1>14 DEF Places

(* However the threads interleave their accesses to the list's head and to *)
(* the counters, a block that was given out is in one place: with a user,  *)
(* once on the list, with one thread that adds or takes it, or left to be  *)
(* added by a thread that has a reference to it (FreeList, lines           *)
(* 1430-1546).                                                             *)
THEOREM BlocksInOnePlace == PoolSpec => []InOnePlace
BY PoolInvariance, PoolInvPlaces, PTL

=============================================================================
