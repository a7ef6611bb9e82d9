----------------------- MODULE BlockingConcurrentQueue -----------------------
(***************************************************************************)
(* The queue the publisher's worker waits on: a concurrent queue and a     *)
(* semaphore with a permit for each element.  An enqueue puts its elements *)
(* in and then signals; a dequeue waits for permits and then takes as many *)
(* elements, trying again as long as the inner queue gives it none.        *)
(*                                                                         *)
(* The variants with tokens, moved elements and other timeouts change the  *)
(* inner call only.  The inner queue is the number of its elements: its    *)
(* try_dequeue may fail while there are some (ImplicitProducer shows how). *)
(***************************************************************************)
EXTENDS LightweightSemaphore

CONSTANTS MaxEnqueued, MaxCalls  \* bounds: elements and dequeue calls

VARIABLES
  inner,     \* how many elements the inner queue holds
  enqueued, calls

blockingVars == << semaVars, inner, enqueued, calls >>

BlockingInit ==
  SemaphoreInit /\ inner = 0 /\ enqueued = 0 /\ calls = 0

\* enqueue and try_enqueue (n = 1), enqueue_bulk: the elements are in the inner
\* queue before the signal.
enqueue(t, n) ==
  /\ at[t] = "idle" /\ enqueued + n <= MaxEnqueued
  /\ inner' = inner + n /\ enqueued' = enqueued + n
  /\ StartSignal(t, n)
  /\ UNCHANGED calls

\* try_dequeue and try_dequeue_bulk ("try"), wait_dequeue ("forever"),
\* wait_dequeue_timed and the bulk variants.
dequeue(t, max, p) ==
  /\ at[t] = "idle" /\ calls < MaxCalls
  /\ calls' = calls + 1
  /\ StartWait(t, max, p)
  /\ UNCHANGED << inner, enqueued >>

SemaphoreStep(t) ==
  /\ SignalAdd(t) \/ Post(t) \/ WaitStep(t)
  /\ UNCHANGED << inner, enqueued, calls >>

\* One permit, one element.
Take(t) ==
  /\ at[t] = "take" /\ got[t] > 0 /\ inner > 0
  /\ inner' = inner - 1
  /\ got' = [got EXCEPT ![t] = @ - 1]
  /\ UNCHANGED << m_count, m_sema, at, want, patience, left, enqueued, calls >>

Return(t) ==
  /\ at[t] = "take" /\ got[t] = 0
  /\ at' = [at EXCEPT ![t] = "idle"]
  /\ UNCHANGED << m_count, m_sema, want, patience, got, left, inner, enqueued, calls >>

Step(t) == SemaphoreStep(t) \/ Take(t) \/ Return(t)

BlockingNext ==
  \E t \in Threads :
    \/ \E n \in 1 .. MaxWant : enqueue(t, n)
    \/ \E max \in 1 .. MaxWant, p \in {"try", "timed", "forever"} : dequeue(t, max, p)
    \/ Step(t)

BlockingSpec == BlockingInit /\ [][BlockingNext]_blockingVars

\* A thread in a call is scheduled.
FairBlockingSpec == BlockingSpec /\ \A t \in Threads : WF_blockingVars(Step(t))

----------------------------------------------------------------------------
\* Every permit, granted or not, has its element: the elements are the permits in
\* the count, those signaled for waiting threads, those held, and those on their
\* way.  So a dequeue that has permits finds as many elements in the end.
PermitsBacked ==
  /\ inner = m_count + Cardinality(Waiting) + SumOver(got, Threads)
             + SumOver(left, { t \in Threads : at[t] = "signal" })
  /\ SumOver(got, Threads) <= inner

\* Calls return: one that does not wait forever always does, one that has a permit
\* does, and a thread does not sleep on while there are permits for all waiting.
DequeuesReturn ==
  /\ \A t \in Threads :
       (at[t] # "idle" /\ (patience[t] # "forever" \/ got[t] > 0)) ~> at[t] = "idle"
  /\ m_count >= 0 ~> (m_count < 0 \/ Waiting = {})
=============================================================================
