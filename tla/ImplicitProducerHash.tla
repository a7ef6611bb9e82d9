------------------------ MODULE ImplicitProducerHash ------------------------
(***************************************************************************)
(* How the concurrent queue finds the sub-queue (ImplicitProducer) of the  *)
(* calling thread: a lock-free hash table from thread ids to producers     *)
(* that grows by chaining a larger table in front, and a list of producers *)
(* in which those of threads that have exited wait for a new owner.  The   *)
(* id of an exited thread may be that of a later one.                      *)
(*                                                                         *)
(* One action per atomic access, interleaved (see the README).             *)
(***************************************************************************)
EXTENDS Integers, Sequences, FiniteSets

CONSTANTS
  Ids,            \* thread ids
  hash_thread_id, \* [Ids -> Nat]
  InitialSize,    \* INITIAL_IMPLICIT_PRODUCER_HASH_SIZE
  MaxStarted,     \* bound: how many threads there are, an id may return
  invalid_thread_id, invalid_thread_id2

ASSUME HashAssumption ==
  /\ hash_thread_id \in [Ids -> Nat]
  /\ InitialSize \in Nat \ {0} /\ MaxStarted \in Nat
  /\ invalid_thread_id \notin Ids /\ invalid_thread_id2 \notin Ids
  /\ invalid_thread_id # invalid_thread_id2

VARIABLES
  tables,       \* the chain, oldest first: [key, value], functions of the slot
  implicitProducerHashCount,
  resizeInProgress,
  inactive,     \* producerListTail, oldest first: each producer's flag
  started,      \* how many threads have started
  own,          \* history: per id, the producer its thread got, or 0
  stage,           \* per id, where its thread is, and its locals:
  main, table, index, newCount, producer

hashVars == << tables, implicitProducerHashCount, resizeInProgress, inactive, started,
               own, stage, main, table, index, newCount, producer >>
shared == << tables, implicitProducerHashCount, resizeInProgress, inactive, started, own >>
probe == << main, table, index >>

Newest == Len(tables)
Capacity(h) == Cardinality(DOMAIN tables[h].key)
EmptyTable(n) == [ key |-> [s \in 0 .. n - 1 |-> invalid_thread_id],
                   value |-> [s \in 0 .. n - 1 |-> 0] ]

Slot(i) == index[i] % Capacity(table[i])
KeyThere(i) == tables[table[i]].key[Slot(i)]

StepTo(i, l) == stage' = [stage EXCEPT ![i] = l]
SetKey(i, k, v) ==
  tables' = [tables EXCEPT ![table[i]].key[Slot(i)] = k,
                           ![table[i]].value[Slot(i)] = v]
NextSlot(i) == index' = [index EXCEPT ![i] = Slot(i) + 1]
LookIn(i, h) ==
  /\ table' = [table EXCEPT ![i] = h]
  /\ index' = [index EXCEPT ![i] = hash_thread_id[i]]

\* The call has its result, producer p, and needs its locals no more.
Finish(i, p, l) ==
  /\ StepTo(i, l)
  /\ own' = [own EXCEPT ![i] = p]
  /\ main' = [main EXCEPT ![i] = 0] /\ table' = [table EXCEPT ![i] = 0]
  /\ index' = [index EXCEPT ![i] = 0]
  /\ newCount' = [newCount EXCEPT ![i] = 0] /\ producer' = [producer EXCEPT ![i] = 0]

Return(i, p) == Finish(i, p, "alive")

----------------------------------------------------------------------------
ThreadStarts(i) ==
  /\ stage[i] = "dead" /\ started < MaxStarted
  /\ started' = started + 1
  /\ StepTo(i, "alive")
  /\ UNCHANGED << tables, implicitProducerHashCount, resizeInProgress, inactive, own,
                  probe, newCount, producer >>

\* get_or_add_implicit_producer: look in every table, the newest first ...
get_or_add_implicit_producer(i) ==
  /\ stage[i] = "alive"
  /\ main' = [main EXCEPT ![i] = Newest]
  /\ LookIn(i, Newest)
  /\ StepTo(i, "look")
  /\ UNCHANGED << shared, newCount, producer >>

Found(i) ==
  /\ stage[i] = "look" /\ KeyThere(i) = i /\ table[i] = main[i]
  /\ Return(i, tables[table[i]].value[Slot(i)])
  /\ UNCHANGED << tables, implicitProducerHashCount, resizeInProgress, inactive, started >>

\* ... and enter what an older one has into the newest.
FoundInOlder(i) ==
  /\ stage[i] = "look" /\ KeyThere(i) = i /\ table[i] # main[i]
  /\ producer' = [producer EXCEPT ![i] = tables[table[i]].value[Slot(i)]]
  /\ LookIn(i, main[i])
  /\ StepTo(i, "copy")
  /\ UNCHANGED << shared, main, newCount >>

LookOn(i) ==
  /\ stage[i] = "look" /\ KeyThere(i) \notin {i, invalid_thread_id}
  /\ NextSlot(i)
  /\ UNCHANGED << shared, stage, main, table, newCount, producer >>

\* Mutant: only the newest table is searched.
SearchedNewest(i) == TRUE

SearchedAll(i) == table[i] = 1

LookInOlder(i) ==
  /\ stage[i] = "look" /\ KeyThere(i) = invalid_thread_id /\ ~ SearchedAll(i)
  /\ LookIn(i, table[i] - 1)
  /\ UNCHANGED << shared, stage, main, newCount, producer >>

Copy(i) ==
  /\ stage[i] = "copy"
  /\ IF KeyThere(i) \in {invalid_thread_id, invalid_thread_id2}
     THEN SetKey(i, i, producer[i]) /\ Return(i, producer[i])
     ELSE NextSlot(i) /\ UNCHANGED << tables, own, stage, main, table, newCount, producer >>
  /\ UNCHANGED << implicitProducerHashCount, resizeInProgress, inactive, started >>

\* Not there: the thread is new.
CountThread(i) ==
  /\ stage[i] = "look" /\ KeyThere(i) = invalid_thread_id /\ SearchedAll(i)
  /\ implicitProducerHashCount' = implicitProducerHashCount + 1
  /\ newCount' = [newCount EXCEPT ![i] = implicitProducerHashCount + 1]
  /\ StepTo(i, "grow")
  /\ UNCHANGED << tables, resizeInProgress, inactive, started, own, probe, producer >>

\* At half full, one thread adds a larger table.
Crowded(i, h) == newCount[i] >= Capacity(h) \div 2

\* test_and_set, and the newest table again.
Grow(i) ==
  /\ stage[i] = "grow" /\ Crowded(i, main[i]) /\ ~ resizeInProgress
  /\ resizeInProgress' = TRUE
  /\ main' = [main EXCEPT ![i] = Newest]
  /\ StepTo(i, IF Crowded(i, Newest) THEN "allocate" ELSE "clear")
  /\ UNCHANGED << tables, implicitProducerHashCount, inactive, started, own, table, index,
                  newCount, producer >>

\* Twice the size, and twice that, until it is not crowded.
Doublings(i) ==
  { n \in 1 .. 4 * Capacity(main[i]) * (newCount[i] + 1) :
      \E k \in 1 .. newCount[i] + 1 : n = Capacity(main[i]) * 2 ^ k }
NotCrowded(i) == { n \in Doublings(i) : newCount[i] < n \div 2 }

Allocate(i) ==
  /\ stage[i] = "allocate"
  /\ \E newCapacity \in NotCrowded(i) :
       /\ \A n \in NotCrowded(i) : newCapacity <= n
       /\ tables' = Append(tables, EmptyTable(newCapacity))
  /\ main' = [main EXCEPT ![i] = Newest + 1]
  /\ StepTo(i, "clear")
  /\ UNCHANGED << implicitProducerHashCount, resizeInProgress, inactive, started, own, table,
                  index, newCount, producer >>

\* malloc returns nullptr, and so does the call: the element is not enqueued.
NoMemory(i) ==
  /\ stage[i] = "allocate"
  /\ implicitProducerHashCount' = implicitProducerHashCount - 1
  /\ Finish(i, 0, "release")
  /\ UNCHANGED << tables, resizeInProgress, inactive, started >>

ReleaseResize(i) ==
  /\ stage[i] = "release"
  /\ resizeInProgress' = FALSE
  /\ StepTo(i, "alive")
  /\ UNCHANGED << tables, implicitProducerHashCount, inactive, started, own, probe, newCount,
                  producer >>

ClearResize(i) ==
  /\ stage[i] = "clear"
  /\ resizeInProgress' = FALSE
  /\ StepTo(i, "room")
  /\ UNCHANGED << tables, implicitProducerHashCount, inactive, started, own, probe, newCount,
                  producer >>

\* Someone else is at it, or there is no need.
DoNotGrow(i) ==
  /\ stage[i] = "grow" /\ (Crowded(i, main[i]) => resizeInProgress)
  /\ StepTo(i, "room")
  /\ UNCHANGED << shared, probe, newCount, producer >>

HasRoom(i) ==
  newCount[i] < (Capacity(main[i]) \div 2) + (Capacity(main[i]) \div 4)

\* Three quarters full: wait for the larger table.
Wait(i) ==
  /\ stage[i] = "room" /\ ~ HasRoom(i)
  /\ main' = [main EXCEPT ![i] = Newest]
  /\ StepTo(i, "grow")
  /\ UNCHANGED << shared, table, index, newCount, producer >>

\* recycle_or_create_producer: along the list, from its tail as it is now.
Search(i) ==
  /\ stage[i] = "room" /\ HasRoom(i)
  /\ producer' = [producer EXCEPT ![i] = Len(inactive)]
  /\ StepTo(i, "recycle")
  /\ UNCHANGED << shared, probe, newCount >>

\* The list has been searched: create a producer and push it.
CreateProducer(i) ==
  /\ stage[i] = "recycle" /\ producer[i] = 0
  /\ inactive' = Append(inactive, FALSE)
  /\ producer' = [producer EXCEPT ![i] = Len(inactive')]
  /\ LookIn(i, main[i])
  /\ StepTo(i, "reuse")
  /\ UNCHANGED << tables, implicitProducerHashCount, resizeInProgress, started, own, main,
                  newCount >>

NoMemoryForProducer(i) ==
  /\ stage[i] = "recycle" /\ producer[i] = 0
  /\ implicitProducerHashCount' = implicitProducerHashCount - 1
  /\ Return(i, 0)
  /\ UNCHANGED << tables, resizeInProgress, inactive, started >>

SkipProducer(i) ==
  /\ stage[i] = "recycle" /\ producer[i] # 0 /\ ~ inactive[producer[i]]
  /\ producer' = [producer EXCEPT ![i] = @ - 1]
  /\ UNCHANGED << shared, stage, probe, newCount >>

\* The compare-exchange from inactive to active, and the subscription to this thread's
\* exit.
RecycleProducer(i) ==
  /\ stage[i] = "recycle" /\ producer[i] # 0 /\ inactive[producer[i]]
  /\ inactive' = [inactive EXCEPT ![producer[i]] = FALSE]
  /\ LookIn(i, main[i])
  /\ StepTo(i, "reuse")
  /\ UNCHANGED << tables, implicitProducerHashCount, resizeInProgress, started, own, main,
                  newCount, producer >>

\* Enter it into main: first try to take over the slot of an exited thread, which is
\* counted already, then to take an empty one.
ReuseSlot(i) ==
  /\ stage[i] = "reuse"
  /\ IF KeyThere(i) = invalid_thread_id2
     THEN SetKey(i, i, producer[i]) /\ Finish(i, producer[i], "uncount")
     ELSE StepTo(i, "fill") /\ UNCHANGED << tables, own, probe, newCount, producer >>
  /\ UNCHANGED << implicitProducerHashCount, resizeInProgress, inactive, started >>

UncountThread(i) ==
  /\ stage[i] = "uncount"
  /\ implicitProducerHashCount' = implicitProducerHashCount - 1
  /\ StepTo(i, "alive")
  /\ UNCHANGED << tables, resizeInProgress, inactive, started, own, probe, newCount, producer >>

FillSlot(i) ==
  /\ stage[i] = "fill"
  /\ IF KeyThere(i) = invalid_thread_id
     THEN SetKey(i, i, producer[i]) /\ Return(i, producer[i])
     ELSE /\ NextSlot(i)
          /\ StepTo(i, "reuse")
          /\ UNCHANGED << tables, own, main, table, newCount, producer >>
  /\ UNCHANGED << implicitProducerHashCount, resizeInProgress, inactive, started >>

----------------------------------------------------------------------------
\* The thread exits; the notifier calls implicit_producer_thread_exited if it has a
\* producer.
ThreadExits(i) ==
  /\ stage[i] = "alive"
  /\ IF own[i] = 0
     THEN StepTo(i, "dead") /\ UNCHANGED << table, index >>
     ELSE StepTo(i, "exit") /\ LookIn(i, Newest)
  /\ UNCHANGED << shared, main, newCount, producer >>

\* Its slot in every table can be reused.
LeaveSlot(i) ==
  /\ stage[i] = "exit"
  /\ KeyThere(i) = i
  /\ SetKey(i, invalid_thread_id2, tables[table[i]].value[Slot(i)])
  /\ StepTo(i, "older")
  /\ UNCHANGED << implicitProducerHashCount, resizeInProgress, inactive, started, own, probe,
                  newCount, producer >>

PassSlot(i) ==
  /\ stage[i] = "exit" /\ KeyThere(i) # i
  /\ IF KeyThere(i) = invalid_thread_id
     THEN StepTo(i, "older") /\ UNCHANGED index
     ELSE NextSlot(i) /\ UNCHANGED stage
  /\ UNCHANGED << shared, main, table, newCount, producer >>

\* Mutant: the exiting thread leaves only the newest table.
LeftNewest(i) == TRUE

LeftAll(i) == table[i] = 1

LeaveOlder(i) ==
  /\ stage[i] = "older" /\ ~ LeftAll(i)
  /\ LookIn(i, table[i] - 1)
  /\ StepTo(i, "exit")
  /\ UNCHANGED << shared, main, newCount, producer >>

\* And its producer can be recycled.
MarkInactive(i) ==
  /\ stage[i] = "older" /\ LeftAll(i)
  /\ inactive' = [inactive EXCEPT ![own[i]] = TRUE]
  /\ own' = [own EXCEPT ![i] = 0]
  /\ table' = [table EXCEPT ![i] = 0] /\ index' = [index EXCEPT ![i] = 0]
  /\ StepTo(i, "dead")
  /\ UNCHANGED << tables, implicitProducerHashCount, resizeInProgress, started, main, newCount,
                  producer >>

----------------------------------------------------------------------------
HashInit ==
  /\ tables = << EmptyTable(InitialSize) >>
  /\ implicitProducerHashCount = 0 /\ resizeInProgress = FALSE
  /\ inactive = <<>>
  /\ started = 0 /\ own = [i \in Ids |-> 0]
  /\ stage = [i \in Ids |-> "dead"]
  /\ main = [i \in Ids |-> 0] /\ table = [i \in Ids |-> 0] /\ index = [i \in Ids |-> 0]
  /\ newCount = [i \in Ids |-> 0] /\ producer = [i \in Ids |-> 0]

HashStep(i) ==
  \/ ThreadStarts(i) \/ get_or_add_implicit_producer(i)
  \/ Found(i) \/ FoundInOlder(i) \/ LookOn(i) \/ LookInOlder(i) \/ Copy(i)
  \/ CountThread(i) \/ Grow(i) \/ Allocate(i) \/ NoMemory(i) \/ ReleaseResize(i)
  \/ ClearResize(i) \/ DoNotGrow(i) \/ Wait(i) \/ Search(i)
  \/ CreateProducer(i) \/ NoMemoryForProducer(i) \/ SkipProducer(i)
  \/ RecycleProducer(i) \/ ReuseSlot(i) \/ UncountThread(i) \/ FillSlot(i)
  \/ ThreadExits(i) \/ LeaveSlot(i) \/ PassSlot(i) \/ LeaveOlder(i) \/ MarkInactive(i)

HashNext == \E i \in Ids : HashStep(i)

HashSpec == HashInit /\ [][HashNext]_hashVars

----------------------------------------------------------------------------
\* The producer a thread has, or has just taken and is about to enter.
Has(i) == IF own[i] # 0 THEN own[i]
          ELSE IF stage[i] \in {"reuse", "fill"} THEN producer[i] ELSE 0

\* ImplicitProducer::enqueue is for one thread at a time: two living threads never have
\* the same producer, whichever tables they found it in and whoever had it before, and
\* what is marked for recycling belongs to nobody.
OneThreadEach ==
  \A i \in Ids : Has(i) # 0 =>
    /\ ~ inactive[Has(i)]
    /\ \A j \in Ids \ {i} : Has(j) # Has(i)

\* The elements of a thread keep their order only if it gets the same producer in every
\* call, also after the table has grown.
KeepsProducer ==
  [][ \A i \in Ids : own[i] # 0 /\ stage'[i] # "dead" => own'[i] = own[i] ]_hashVars

\* "Not an infinite loop because at least one slot is free in the hash table" (line 3412):
\* every table has a slot at which a probe for an id that is not there ends.
SlotFree ==
  \A h \in DOMAIN tables :
    \E s \in DOMAIN tables[h].key : tables[h].key[s] = invalid_thread_id
=============================================================================
