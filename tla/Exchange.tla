------------------------------ MODULE Exchange ------------------------------
(***************************************************************************)
(* The program around the publisher, as main.cpp builds and takes it down: *)
(* the publisher first, then the registry with a worker per market, then   *)
(* the listeners; when main returns the listeners go first, then the       *)
(* registry (each processor is stopped and joined), then the publisher.    *)
(*                                                                         *)
(* main.cpp subscribes once, before the first order; here the owner may    *)
(* subscribe at any time.  A market is its worker, the events in its queue *)
(* and the batches it publishes; MarketProcessor has the rest of it.       *)
(***************************************************************************)
EXTENDS MarketDataPublisher

CONSTANT MaxOrders  \* bound: events submitted to the markets

ASSUME ExchangeAssumption == MaxOrders \in Nat

VARIABLES
  main,     \* how far main has come
  running,  \* per market, the processor's flag
  worker,   \* per market, where its worker is
  inbox,    \* per market, how many events its queue holds
  submitted,\* history: how many events were submitted
  quiet,    \* history: main returned when nothing was under way
  misused   \* history: a listener was called after it was destroyed

exVars == << main, running, worker, inbox, submitted, quiet, misused >>
allVars == << pubVars, exVars >>

Markets == Publishers

ExchangeInit ==
  /\ PublisherInit
  /\ main = "trading"
  /\ running = [p \in Markets |-> TRUE]
  /\ worker = [p \in Markets |-> "top"]
  /\ inbox = [p \in Markets |-> 0] /\ submitted = 0
  /\ quiet = FALSE /\ misused = FALSE

----------------------------------------------------------------------------
\* The main thread.

Subscribe == main = "trading" /\ subscribe /\ UNCHANGED exVars

SubmitOrder(p) ==
  /\ main = "trading" /\ submitted < MaxOrders
  /\ submitted' = submitted + 1
  /\ inbox' = [inbox EXCEPT ![p] = @ + 1]
  /\ UNCHANGED << pubVars, main, running, worker, quiet, misused >>

\* The sleep is over and main returns: the engine and the listeners are destroyed.
DestroyListeners ==
  /\ main = "trading"
  /\ main' = "registry"
  /\ quiet' = /\ \A p \in Markets : inbox[p] = 0 /\ worker[p] # "publish"
              /\ \A t \in Producers : event_queue[t] = <<>>
              /\ thread \in {"top", "wait"}
  /\ UNCHANGED << pubVars, running, worker, inbox, submitted, misused >>

\* The registry's map destroys its processors: stop() ...
StopProcessor(p) ==
  /\ main = "registry" /\ running[p]
  /\ \A q \in Markets \ {p} : ~ running[q] => worker[q] = "ended"
  /\ running' = [running EXCEPT ![p] = FALSE]
  /\ UNCHANGED << pubVars, main, worker, inbox, submitted, quiet, misused >>

\* Mutant: the processors' destructors stop the workers and do not join them.
NoJoin ==
  /\ main = "registry"
  /\ \A p \in Markets : ~ running[p]
  /\ main' = "publisher"
  /\ UNCHANGED << pubVars, running, worker, inbox, submitted, quiet, misused >>

\* ... and join(), one processor after the other.
RegistryDestroyed ==
  /\ main = "registry"
  /\ \A p \in Markets : ~ running[p] /\ worker[p] = "ended"
  /\ main' = "publisher"
  /\ UNCHANGED << pubVars, running, worker, inbox, submitted, quiet, misused >>

DestroyPublisher ==
  /\ main = "publisher"
  /\ Destructor
  /\ main' = IF owner' = "destroyed" THEN "done" ELSE main
  /\ UNCHANGED << running, worker, inbox, submitted, quiet, misused >>

----------------------------------------------------------------------------
\* The worker of market p.

WorkerTop(p) ==
  /\ worker[p] = "top"
  /\ worker' = [worker EXCEPT ![p] = IF running[p] THEN "dequeue" ELSE "ended"]
  /\ UNCHANGED << pubVars, main, running, inbox, submitted, quiet, misused >>

WorkerSleeps(p) ==
  /\ worker[p] = "dequeue" /\ inbox[p] = 0
  /\ worker' = [worker EXCEPT ![p] = "top"]
  /\ UNCHANGED << pubVars, main, running, inbox, submitted, quiet, misused >>

\* An event has results to publish, once or, with the stop orders it triggers, more than
\* once, or has none; at the bound on batches it has no more.
GoOn(p) ==
  \E next \in {"publish", "top"} :
    /\ next = "publish" => published'[p] < MaxBatches
    /\ worker' = [worker EXCEPT ![p] = next]

HandleEvent(p) ==
  /\ worker[p] = "dequeue" /\ inbox[p] > 0
  /\ inbox' = [inbox EXCEPT ![p] = @ - 1]
  /\ UNCHANGED << pubVars, main, running, submitted, quiet, misused >>
  /\ GoOn(p)

HandleMarketEvents(p) ==
  /\ worker[p] = "publish"
  /\ publish(p)
  /\ UNCHANGED << main, running, inbox, submitted, quiet, misused >>
  /\ GoOn(p)

\* The publisher's worker; a listener that main has destroyed is called all the same.
PublisherStep ==
  /\ run
  /\ misused' = (misused \/ (main # "trading" /\ delivered' # delivered))
  /\ UNCHANGED << main, running, worker, inbox, submitted, quiet >>

MainStep ==
  \/ \E p \in Markets : StopProcessor(p)
  \/ RegistryDestroyed
  \/ DestroyPublisher

WorkerStep(p) ==
  WorkerTop(p) \/ WorkerSleeps(p) \/ HandleEvent(p) \/ HandleMarketEvents(p)

ExchangeNext ==
  /\ thread # "invalid"
  /\ \/ Subscribe
     \/ \E p \in Markets : SubmitOrder(p)
     \/ DestroyListeners
     \/ MainStep
     \/ \E p \in Markets : WorkerStep(p)
     \/ PublisherStep

ExchangeSpec == ExchangeInit /\ [][ExchangeNext]_allVars

\* Every thread is scheduled, and the destructors of main go on once it returns; when
\* it subscribes, submits or returns is left open.
FairExchangeSpec ==
  /\ ExchangeSpec
  /\ WF_allVars(thread # "invalid" /\ PublisherStep)
  /\ WF_allVars(thread # "invalid" /\ MainStep)
  /\ \A p \in Markets : WF_allVars(thread # "invalid" /\ WorkerStep(p))

----------------------------------------------------------------------------
\* The publisher is there for as long as a worker may publish: main destroys it after
\* every worker has ended, also the one that was in the middle of an event.
PublisherOutlivesWorkers ==
  owner # "alive" => \A p \in Markets : worker[p] = "ended"

\* If nothing was under way when main returned, no listener is called after it was
\* destroyed and no batch is lost.  (The sleep in main.cpp makes this likely.)
QuietShutdownIsSafe ==
  quiet => /\ ~ misused
           /\ owner = "destroyed" => \A p \in Markets : event_queue[p] = <<>>

\* main ends: each worker sees its flag wherever stop() caught it, and the publisher's
\* worker wakes up for the empty batch.
ShutdownCompletes ==
  main = "registry" ~> (main = "done" \/ thread = "invalid")
=============================================================================
