--------------------------- MODULE MatchingEngine ---------------------------
(***************************************************************************)
(* MatchingEngine and MarketRegistry: the map from symbols to processors,  *)
(* the calls that client threads make through it, the life of a processor  *)
(* object and its worker, and the order ids.                               *)
(*                                                                         *)
(* Nothing is locked and no call waits for another.  Each access to one of *)
(* the two maps is a step of its own, so two threads that both found       *)
(* nothing may both insert; within the access the map is taken to be       *)
(* atomic, which std::unordered_map does not promise to threads that       *)
(* change it.  A step through a pointer or an iterator to something that   *)
(* is gone, or any other that has no defined effect, sets crashed; the     *)
(* model says nothing of what follows.                                     *)
(***************************************************************************)
EXTENDS Naturals, Sequences, FiniteSets

CONSTANTS
  Symbols, Clients,
  Processors,   \* the processor objects that may be created
  MarketIds,    \* what the uninitialized market_id of a market may hold
  CounterSize,  \* 2^48: the counter's values that fit in an id
  MaxRequests,  \* bound: calls of submit_order and cancel_order
  Null

ASSUME EngineAssumption ==
  /\ CounterSize \in Nat \ {0} /\ MaxRequests \in Nat
  /\ Null \notin Processors /\ Null \notin Symbols

VARIABLES
  processors_,      \* the registry's map; Null where there is no entry
  object,           \* the life of each processor and its worker
  market_id,        \* the indeterminate value each market was created with
  market_counters_, \* per market id, the nodes of the map that hold its counter
  call,             \* what each client is in the middle of
  ids,              \* history: the ids handed out, in order
  requests,         \* how many calls of submit_order and cancel_order there were
  raced,            \* history: symbols of which two calls overlapped, one of them
                    \* create_market or remove_market
  crashed           \* the symbol of the call that had no defined effect, or Null

engineVars == << processors_, object, market_id, market_counters_, call, ids,
                 requests, raced, crashed >>

\* A processor is created without a worker, which start() gives it; after stop() the
\* worker ends, and after the destructor's join the object is gone.
ObjectStates == {"none", "created", "running", "stopping", "ended", "freed"}

\* A client at place l of a call for symbol s, with processor p (the one it looked up,
\* made or destroys) and counter node n in its hands.
At(l, s, p, n) == [ at |-> l, symbol |-> s, processor |-> p, node |-> n ]
Idle == At("idle", Null, Null, 0)

\* The processors that exist: their queue may be used.
Exists(p) == object[p] \in {"created", "running", "stopping", "ended"}

\* The places of submit_order and cancel_order, of create_market and of remove_market.
Requesting == {"read", "find", "insert", "add", "enqueue"}
Creating == {"put", "replace", "again", "start", "return"}
Removing == {"stop", "erase", "join", "dangling"}
Changing == Creating \union Removing

\* Client c enters a call for s, at place l.
Begin(c, l, s, p) ==
  /\ call[c] = Idle
  /\ call' = [call EXCEPT ![c] = At(l, s, p, 0)]
  /\ raced' = raced \union
       { t \in {s} : \E d \in Clients : /\ call[d].symbol = s
                                        /\ l \in Changing \/ call[d].at \in Changing }

\* It goes on to place l, with node n; or it is done.
GoOn(c, l, n) ==
  call' = [call EXCEPT ![c] = At(l, call[c].symbol, call[c].processor, n)]
Leave(c) == call' = [call EXCEPT ![c] = Idle]

Crash(c) == crashed' = call[c].symbol

Counting == << market_id, market_counters_, ids >>

----------------------------------------------------------------------------
\* MarketRegistry.

get_market_processor(s) == processors_[s]

\* Mutant: the worker is started before the processor is in the map.
create_market_started(c, s) ==
  /\ get_market_processor(s) = Null
  /\ \E p \in Processors :
       /\ object[p] = "none"
       /\ object' = [object EXCEPT ![p] = "running"]
       /\ Begin(c, "put", s, p)
  /\ UNCHANGED << processors_, Counting, requests, crashed >>

\* Throws when there is a market of that symbol, else makes a processor.  The market_id
\* that is passed is not stored: a new market has whatever its memory held (EngineInit).
create_market(c, s) ==
  /\ get_market_processor(s) = Null
  /\ \E p \in Processors :
       /\ object[p] = "none"
       /\ object' = [object EXCEPT ![p] = "created"]
       /\ Begin(c, "put", s, p)
  /\ UNCHANGED << processors_, Counting, requests, crashed >>

\* Mutant: stop() does not reach the worker.
NotStopped(p) == object

\* The destructor of a processor begins with stop().
Stopped(p) == [object EXCEPT ![p] = IF @ = "running" THEN "stopping" ELSE @]

\* The processor becomes the entry's.  One that another thread has put there in the
\* meantime is destroyed.
PutEntry(c) ==
  /\ call[c].at = "put"
  /\ LET s == call[c].symbol
         old == processors_[s]
     IN /\ processors_' = [processors_ EXCEPT ![s] = call[c].processor]
        /\ IF old = Null
           THEN GoOn(c, "again", 0) /\ UNCHANGED object
           ELSE /\ object' = Stopped(old)
                /\ call' = [call EXCEPT ![c] = At("replace", s, old, 0)]
  /\ UNCHANGED << Counting, requests, raced, crashed >>

\* processors_[symbol] once more; without an entry this is a null pointer.
FindAgain(c) ==
  /\ call[c].at = "again"
  /\ LET p == processors_[call[c].symbol] IN
       \/ p # Null /\ call' = [call EXCEPT ![c].at = "start", ![c].processor = p]
                   /\ UNCHANGED crashed
       \/ p = Null /\ Crash(c) /\ UNCHANGED call
  /\ UNCHANGED << processors_, object, Counting, requests, raced >>

\* A second worker for a processor that has one, which is not joined, ends the program.
start(c) ==
  /\ call[c].at = "start"
  /\ IF object[call[c].processor] = "created"
     THEN /\ object' = [object EXCEPT ![call[c].processor] = "running"]
          /\ GoOn(c, "return", 0) /\ UNCHANGED crashed
     ELSE Crash(c) /\ UNCHANGED << object, call >>
  /\ UNCHANGED << processors_, Counting, requests, raced >>

\* And once more, for the reference that is returned.
ReturnMarket(c) ==
  /\ call[c].at = "return"
  /\ IF processors_[call[c].symbol] # Null
     THEN Leave(c) /\ UNCHANGED crashed
     ELSE Crash(c) /\ UNCHANGED call
  /\ UNCHANGED << processors_, object, Counting, requests, raced >>

\* remove_market finds the entry, or returns false.
remove_market(c, s) ==
  /\ get_market_processor(s) # Null
  /\ Begin(c, "stop", s, get_market_processor(s))
  /\ UNCHANGED << processors_, object, Counting, requests, crashed >>

\* It stops the worker of the processor that the entry has now ...
StopProcessor(c) ==
  /\ call[c].at = "stop"
  /\ object' = Stopped(processors_[call[c].symbol])
  /\ GoOn(c, "erase", 0)
  /\ UNCHANGED << processors_, Counting, requests, raced, crashed >>

\* Mutant: remove_market destroys the processor and leaves the entry.
KeepEntry(c) ==
  /\ call[c].at = "erase"
  /\ GoOn(c, "join", 0)
  /\ UNCHANGED << processors_, object, Counting, requests, raced, crashed >>

\* ... and erases the entry, which takes it from other threads with an iterator to it.
\* The destructor stops the worker once more ...
EraseEntry(c) ==
  /\ call[c].at = "erase"
  /\ LET s == call[c].symbol IN
       /\ processors_' = [processors_ EXCEPT ![s] = Null]
       /\ object' = Stopped(processors_[s])
       /\ call' = [d \in Clients |->
            IF d = c THEN At("join", s, processors_[s], 0)
            ELSE IF call[d].symbol = s /\ call[d].at \in {"stop", "erase"}
                 THEN [call[d] EXCEPT !.at = "dangling"]
                 ELSE call[d]]
  /\ UNCHANGED << Counting, requests, raced, crashed >>

UseIterator(c) ==
  /\ call[c].at = "dangling"
  /\ Crash(c)
  /\ UNCHANGED << processors_, object, Counting, call, requests, raced >>

\* ... and joins it, if it was started, before the object goes.
DestroyProcessor(c) ==
  /\ call[c].at \in {"replace", "join"}
  /\ object[call[c].processor] \in {"created", "ended"}
  /\ object' = [object EXCEPT ![call[c].processor] = "freed"]
  /\ IF call[c].at = "replace" THEN GoOn(c, "again", 0) ELSE Leave(c)
  /\ UNCHANGED << processors_, Counting, requests, raced, crashed >>

----------------------------------------------------------------------------
\* MatchingEngine.

\* submit_order looks the processor up; an unknown market throws.
LookUp(c, s) ==
  /\ requests < MaxRequests
  /\ get_market_processor(s) # Null
  /\ Begin(c, "read", s, get_market_processor(s))
  /\ requests' = requests + 1
  /\ UNCHANGED << processors_, object, Counting, crashed >>

\* cancel_order looks it up too, and returns false without one.
cancel_order(c, s) ==
  /\ requests < MaxRequests
  /\ get_market_processor(s) # Null
  /\ Begin(c, "enqueue", s, get_market_processor(s))
  /\ requests' = requests + 1
  /\ UNCHANGED << processors_, object, Counting, crashed >>

\* get_market_id() on the pointer that was looked up ...
get_market_id(c) ==
  /\ call[c].at = "read"
  /\ IF Exists(call[c].processor)
     THEN GoOn(c, "find", 0) /\ UNCHANGED crashed
     ELSE Crash(c) /\ UNCHANGED call
  /\ UNCHANGED << processors_, object, Counting, requests, raced >>

\* ... gives the key of its counter, which does not change.
Key(p) == market_id[p]

\* generate_order_id, operator[]: find the counter ...
FindCounter(c) ==
  /\ call[c].at = "find"
  /\ \/ market_counters_[Key(call[c].processor)] = <<>> /\ GoOn(c, "insert", 0)
     \/ \E n \in DOMAIN market_counters_[Key(call[c].processor)] : GoOn(c, "add", n)
  /\ UNCHANGED << processors_, object, Counting, requests, raced, crashed >>

\* ... or insert one.
InsertCounter(c) ==
  /\ call[c].at = "insert"
  /\ LET k == Key(call[c].processor) IN
       /\ market_counters_' = [market_counters_ EXCEPT ![k] = Append(@, 0)]
       /\ GoOn(c, "add", Len(market_counters_[k]) + 1)
  /\ UNCHANGED << processors_, object, market_id, ids, requests, raced, crashed >>

\* Mutant: a load and a store, which another thread's store may undo.
LoadAndStore(c) ==
  /\ call[c].at = "add"
  /\ LET k == Key(call[c].processor)
         counter == market_counters_[k][call[c].node]
     IN /\ ids' = Append(ids, << k, counter % CounterSize >>)
        /\ \/ market_counters_' = [market_counters_ EXCEPT ![k][call[c].node] = @ + 1]
           \/ UNCHANGED market_counters_ /\ \E d \in Clients \ {c} : call[d].at = "add"
  /\ GoOn(c, "enqueue", 0)
  /\ UNCHANGED << processors_, object, market_id, requests, raced, crashed >>

\* Mutant: the counter is not cut to its 48 bits.
NoMask(counter) == counter

Mask(counter) == counter % CounterSize

\* fetch_add; the id has the market id in its upper and the counter in its lower bits.
FetchAdd(c) ==
  /\ call[c].at = "add"
  /\ LET k == Key(call[c].processor)
         counter == market_counters_[k][call[c].node]
     IN /\ ids' = Append(ids, << k, Mask(counter) >>)
        /\ market_counters_' = [market_counters_ EXCEPT ![k][call[c].node] = @ + 1]
  /\ GoOn(c, "enqueue", 0)
  /\ UNCHANGED << processors_, object, market_id, requests, raced, crashed >>

\* submit_event on the pointer that was looked up.
submit_event(c) ==
  /\ call[c].at = "enqueue"
  /\ IF Exists(call[c].processor)
     THEN Leave(c) /\ UNCHANGED crashed
     ELSE Crash(c) /\ UNCHANGED call
  /\ UNCHANGED << processors_, object, Counting, requests, raced >>

----------------------------------------------------------------------------
\* The worker sees running = false; what its queue still holds is dropped.
EndWorker(p) ==
  /\ object[p] = "stopping"
  /\ object' = [object EXCEPT ![p] = "ended"]
  /\ UNCHANGED << processors_, Counting, call, requests, raced, crashed >>

----------------------------------------------------------------------------
EngineInit ==
  /\ processors_ = [s \in Symbols |-> Null]
  /\ object = [p \in Processors |-> "none"]
  /\ market_id \in [Processors -> MarketIds]
  /\ market_counters_ = [m \in MarketIds |-> <<>>]
  /\ call = [c \in Clients |-> Idle]
  /\ ids = <<>> /\ requests = 0 /\ raced = {} /\ crashed = Null

\* The steps of a call under way.
Proceed(c) ==
  /\ crashed = Null
  /\ \/ get_market_id(c) \/ FindCounter(c) \/ InsertCounter(c) \/ FetchAdd(c)
     \/ submit_event(c)
     \/ PutEntry(c) \/ FindAgain(c) \/ start(c) \/ ReturnMarket(c)
     \/ StopProcessor(c) \/ EraseEntry(c) \/ UseIterator(c) \/ DestroyProcessor(c)

Enter(c) ==
  /\ crashed = Null
  /\ \E s \in Symbols :
       create_market(c, s) \/ remove_market(c, s) \/ LookUp(c, s) \/ cancel_order(c, s)

Worker(p) == crashed = Null /\ EndWorker(p)

EngineNext ==
  \/ \E c \in Clients : Enter(c) \/ Proceed(c)
  \/ \E p \in Processors : Worker(p)

EngineSpec == EngineInit /\ [][EngineNext]_engineVars

\* Threads go on with a call they have begun, and workers run.
FairEngineSpec ==
  /\ EngineSpec
  /\ \A c \in Clients : WF_engineVars(Proceed(c))
  /\ \A p \in Processors : WF_engineVars(Worker(p))

----------------------------------------------------------------------------
\* Types; the counters are what ids were made of.
EngineTypeOK ==
  /\ processors_ \in [Symbols -> Processors \union {Null}]
  /\ object \in [Processors -> ObjectStates]
  /\ market_id \in [Processors -> MarketIds]
  /\ market_counters_ \in [MarketIds -> Seq(Nat)]
  /\ \A c \in Clients :
       \/ call[c] = Idle
       \/ /\ call[c].at \in Requesting \union Changing
          /\ call[c].symbol \in Symbols /\ call[c].processor \in Processors
          /\ call[c].node \in Nat
  /\ ids \in Seq(MarketIds \X (0 .. CounterSize - 1))
  /\ raced \subseteq Symbols /\ crashed \in Symbols \union {Null}

\* Order ids are unique over all markets, removed ones included, although the market
\* ids are indeterminate and may coincide: the only ways to the same id twice are a
\* counter that two threads inserted at once, and one that ran over its 48 bits.
UniqueIds ==
  \A i, j \in DOMAIN ids : i # j /\ ids[i] = ids[j] =>
    LET nodes == market_counters_[ids[i][1]] IN
      Len(nodes) > 1 \/ \E n \in DOMAIN nodes : nodes[n] > CounterSize

\* What the registry asks of its callers, and no more: a call that uses a destroyed
\* processor, an iterator to an erased entry or a null pointer, or starts a worker
\* twice, is one for a symbol whose market was being created or removed while another
\* call for the same symbol was under way.  No call suffers from one for another symbol,
\* or from a market that came and went before it.
OnlyRacesCrash == crashed # Null => crashed \in raced

\* A worker that runs can be reached by exactly one symbol, or somebody is joining it
\* that raced with its start; and every entry leads to a processor that exists.
NoOrphans ==
  /\ \A p \in Processors : object[p] = "running" =>
       \/ Cardinality({s \in Symbols : processors_[s] = p}) = 1
       \/ \E c \in Clients : /\ call[c].at \in {"replace", "join"}
                              /\ call[c].processor = p /\ call[c].symbol \in raced
  /\ \A s \in Symbols : processors_[s] # Null => Exists(processors_[s])

\* Every call returns, unless it or another one raced; for remove_market this says the
\* join ends.
CallsReturn ==
  \A c \in Clients :
    call[c] # Idle ~> call[c] = Idle \/ crashed # Null \/ call[c].symbol \in raced
=============================================================================
