------------------------ MODULE MarketDataPublisher ------------------------
(***************************************************************************)
(* The market data feed: threads publish batches of events, one worker     *)
(* thread takes them out of a blocking queue and calls every listener.     *)
(*                                                                         *)
(* The queue keeps the order of each producing thread and no order between *)
(* threads (modules ImplicitProducer and BlockingConcurrentQueue), so it   *)
(* is one sequence per thread here.  A batch is the pair of its thread and *)
(* its number on that thread; its events do not matter.                    *)
(***************************************************************************)
EXTENDS Naturals, SequencesExt

CONSTANTS
  Publishers,   \* the threads that call publish: the workers of the markets
  Owner,        \* the thread that owns the publisher object and subscribes
  MaxBatches,   \* bound: batches published by one thread
  MaxListeners, \* bound: subscriptions
  Empty         \* the empty batch the destructor enqueues

ASSUME PublisherAssumption ==
  /\ Owner \notin Publishers
  /\ MaxBatches \in Nat /\ MaxListeners \in Nat
  /\ Empty \notin Publishers \X Nat

VARIABLES
  running_,
  event_queue,  \* per thread, the batches enqueued and not yet dequeued
  listeners_,   \* the vector: how many listeners, its capacity, its buffer
  thread,       \* where the worker is
  batch,        \* events_to_process
  iter,         \* the range-for's iterators: next, end, and their buffer
  owner,        \* where the owner is: "alive", or in the destructor
  published,    \* history: how many batches each thread published
  delivered     \* history: per subscription, the batches it was called with

pubVars == << running_, event_queue, listeners_, thread, batch, iter, owner,
              published, delivered >>

Producers == Publishers \union {Owner}
Batches == (Publishers \X (1 .. MaxBatches)) \union {Empty}

NoIter == [ next |-> 1, end |-> 0, buffer |-> 0 ]

----------------------------------------------------------------------------
\* Callers.

publish(p) ==
  /\ published[p] < MaxBatches
  /\ published' = [published EXCEPT ![p] = @ + 1]
  /\ event_queue' = [event_queue EXCEPT ![p] = Append(@, << p, published'[p] >>)]
  /\ UNCHANGED << running_, listeners_, thread, batch, iter, owner, delivered >>

\* push_back: when the vector is full its elements move to a new buffer of
\* twice the capacity, and iterators into the old one are invalid.
Grown(capacity) == IF capacity = 0 THEN 1 ELSE 2 * capacity

subscribe ==
  /\ owner = "alive"
  /\ listeners_.size < MaxListeners
  /\ LET full == listeners_.size = listeners_.capacity IN
       listeners_' =
         [ size |-> listeners_.size + 1,
           capacity |-> IF full THEN Grown(listeners_.capacity) ELSE listeners_.capacity,
           buffer |-> listeners_.buffer + (IF full THEN 1 ELSE 0) ]
  /\ delivered' = Append(delivered, <<>>)
  /\ UNCHANGED << running_, event_queue, thread, batch, iter, owner, published >>

\* The destructor, in its three steps.
ClearRunning ==
  /\ owner = "alive"
  /\ running_' = FALSE
  /\ owner' = "waking"
  /\ UNCHANGED << event_queue, listeners_, thread, batch, iter, published, delivered >>

\* Mutant: the destructor does not wake the worker.
NoWakeUp ==
  /\ owner = "waking"
  /\ owner' = "joining"
  /\ UNCHANGED << running_, event_queue, listeners_, thread, batch, iter,
                  published, delivered >>

EnqueueEmpty ==
  /\ owner = "waking"
  /\ event_queue' = [event_queue EXCEPT ![Owner] = Append(@, Empty)]
  /\ owner' = "joining"
  /\ UNCHANGED << running_, listeners_, thread, batch, iter, published, delivered >>

Join ==
  /\ owner = "joining" /\ thread = "ended"
  /\ owner' = "destroyed"
  /\ UNCHANGED << running_, event_queue, listeners_, thread, batch, iter,
                  published, delivered >>

----------------------------------------------------------------------------
\* The worker thread.

\* Mutant: the loop ends when it is told to stop and when it has nothing to do.
LoopTopIdle ==
  /\ thread = "top"
  /\ thread' = IF running_ /\ \E t \in Producers : event_queue[t] # <<>>
               THEN "wait" ELSE "ended"
  /\ UNCHANGED << running_, event_queue, listeners_, batch, iter, owner,
                  published, delivered >>

LoopCondition ==
  /\ thread = "top"
  /\ thread' = IF running_ THEN "wait" ELSE "ended"
  /\ UNCHANGED << running_, event_queue, listeners_, batch, iter, owner,
                  published, delivered >>

\* Mutant: a batch is read and stays in the queue.
wait_dequeue_copy ==
  /\ thread = "wait"
  /\ \E t \in Producers :
       /\ event_queue[t] # <<>>
       /\ batch' = Head(event_queue[t])
  /\ thread' = "check"
  /\ UNCHANGED << running_, event_queue, listeners_, iter, owner, published,
                  delivered >>

wait_dequeue ==
  /\ thread = "wait"
  /\ \E t \in Producers :
       /\ event_queue[t] # <<>>
       /\ batch' = Head(event_queue[t])
       /\ event_queue' = [event_queue EXCEPT ![t] = Tail(@)]
  /\ thread' = "check"
  /\ UNCHANGED << running_, listeners_, iter, owner, published, delivered >>

\* Mutant: no second look, so the batch that only wakes the worker is delivered.
NoCheckStop ==
  /\ thread = "check"
  /\ thread' = "notify"
  /\ iter' = [ next |-> 1, end |-> listeners_.size, buffer |-> listeners_.buffer ]
  /\ UNCHANGED << running_, event_queue, listeners_, batch, owner, published,
                  delivered >>

\* The second look at running_, then begin() and end() of the vector.
CheckStop ==
  /\ thread = "check"
  /\ IF ~ running_ /\ batch = Empty
     THEN thread' = "ended" /\ UNCHANGED iter
     ELSE /\ thread' = "notify"
          /\ iter' = [ next |-> 1, end |-> listeners_.size,
                       buffer |-> listeners_.buffer ]
  /\ UNCHANGED << running_, event_queue, listeners_, batch, owner, published,
                  delivered >>

\* Iterators into a buffer the vector has given up: the loop reads freed
\* memory, and nothing can be said of what follows.
ReadFreed ==
  /\ thread = "notify" /\ iter.next <= iter.end
  /\ iter.buffer # listeners_.buffer
  /\ thread' = "invalid"
  /\ UNCHANGED << running_, event_queue, listeners_, batch, iter, owner, published,
                  delivered >>

\* Mutant: the batch is moved into the first call, and the others get what is left.
NotifyMoving ==
  /\ thread = "notify" /\ iter.next <= iter.end
  /\ iter.buffer = listeners_.buffer
  /\ delivered' = [delivered EXCEPT ![iter.next] = Append(@, batch)]
  /\ iter' = [iter EXCEPT !.next = @ + 1]
  /\ batch' = Empty
  /\ UNCHANGED << running_, event_queue, listeners_, thread, owner, published >>

Notify ==
  /\ thread = "notify" /\ iter.next <= iter.end
  /\ iter.buffer = listeners_.buffer
  /\ delivered' = [delivered EXCEPT ![iter.next] = Append(@, batch)]
  /\ iter' = [iter EXCEPT !.next = @ + 1]
  /\ UNCHANGED << running_, event_queue, listeners_, thread, batch, owner, published >>

Clear ==
  /\ thread = "notify" /\ iter.next > iter.end
  /\ batch' = Empty /\ iter' = NoIter
  /\ thread' = "top"
  /\ UNCHANGED << running_, event_queue, listeners_, owner, published, delivered >>

----------------------------------------------------------------------------
PublisherInit ==
  /\ running_ = TRUE
  /\ event_queue = [t \in Producers |-> <<>>]
  /\ listeners_ = [ size |-> 0, capacity |-> 0, buffer |-> 0 ]
  /\ thread = "top" /\ batch = Empty /\ iter = NoIter
  /\ owner = "alive"
  /\ published = [p \in Publishers |-> 0]
  /\ delivered = <<>>

run == LoopCondition \/ wait_dequeue \/ CheckStop \/ ReadFreed \/ Notify \/ Clear

\* The publisher's destructor, the only code that ends the worker.
Destructor == ClearRunning \/ EnqueueEmpty \/ Join

\* The publisher by itself; Exchange says who calls it and when.
PublisherNext ==
  \/ \E p \in Publishers : publish(p)
  \/ subscribe
  \/ Destructor
  \/ run

PublisherSpec == PublisherInit /\ [][PublisherNext]_pubVars

----------------------------------------------------------------------------
\* Types of the variables.
PublisherTypeOK ==
  /\ running_ \in BOOLEAN
  /\ event_queue \in [Producers -> Seq(Batches)]
  /\ listeners_ \in [size : Nat, capacity : Nat, buffer : Nat]
  /\ listeners_.size <= listeners_.capacity
  /\ thread \in {"top", "wait", "check", "notify", "ended", "invalid"}
  /\ batch \in Batches
  /\ iter \in [next : Nat, end : Nat, buffer : Nat]
  /\ owner \in {"alive", "waking", "joining", "destroyed"}
  /\ published \in [Publishers -> Nat]
  /\ delivered \in Seq(Seq(Batches))

\* These calls give the batches of a thread in the order they were published, none
\* twice and none left out between two others: of two of a thread, the one just
\* before the later is the earlier or lies between them.
InOrder(heard) ==
  \A l \in DOMAIN heard :
    /\ heard[l] # Empty
    /\ \A k \in 1 .. l - 1 : heard[k][1] = heard[l][1] =>
         \E m \in k .. l - 1 : heard[m] = << heard[l][1], heard[l][2] - 1 >>

\* Each subscription is called with the batches of a thread in the order they
\* were published, none twice, none left out between two others, and never with
\* the empty batch that is only meant to wake the worker.
InOrderOnce == \A i \in DOMAIN delivered : InOrder(delivered[i])

\* All subscriptions see one feed: what a later one was called with is the end of
\* what an earlier one was called with, across batches of different threads and
\* listeners that subscribe in the middle; only the batch in hand may have come to
\* the earlier one alone.
OneFeed ==
  \A i, j \in DOMAIN delivered : i < j =>
    IsSuffix(delivered[j],
             IF thread \in {"notify", "invalid"} /\ i < iter.next /\ j >= iter.next
             THEN Front(delivered[i]) ELSE delivered[i])

Waits(p, n) == Contains(event_queue[p], << p, n >>)
Heard(i, p, n) == i \in DOMAIN delivered /\ Contains(delivered[i], << p, n >>)

\* Every batch that waits in the queue is delivered to everyone who has subscribed,
\* unless the publisher is destroyed first or a subscribe moved the vector under
\* the worker's loop.
Delivered ==
  \A p \in Publishers, n \in 1 .. MaxBatches, i \in 1 .. MaxListeners :
    (i \in DOMAIN delivered /\ Waits(p, n)) ~>
       (Heard(i, p, n) \/ ~ running_ \/ thread = "invalid")

\* README.md:15: subscribers get events.  A batch that was published to someone who
\* had subscribed is delivered, also when the publisher is destroyed later.
SubscribersGetEvents ==
  \A p \in Publishers, n \in 1 .. MaxBatches :
    (running_ /\ 1 \in DOMAIN delivered /\ Waits(p, n)) ~>
       (Heard(1, p, n) \/ thread = "invalid")
=============================================================================
