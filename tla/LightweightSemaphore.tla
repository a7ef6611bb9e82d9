------------------------ MODULE LightweightSemaphore ------------------------
(***************************************************************************)
(* moodycamel's semaphore: an atomic count, and a semaphore of the         *)
(* operating system that is used only to sleep.  A thread that finds no    *)
(* permit takes the count below zero and sleeps; signal adds to the count  *)
(* and then posts once for each sleeper its permits are for.               *)
(*                                                                         *)
(* A load that is followed by a compare-and-swap is one step here: the     *)
(* swap succeeds only if the value is still the one that was loaded, and   *)
(* the loops around it try again.  Giving up after m_maxSpins rounds is    *)
(* possible at any round.                                                  *)
(***************************************************************************)
EXTENDS Integers, FiniteSets

CONSTANTS Threads, MaxWant  \* bound: permits asked for or signaled by one call

ASSUME SemaphoreAssumption == IsFiniteSet(Threads) /\ MaxWant \in Nat \ {0}

VARIABLES
  m_count,   \* permits, less the threads that are registered as waiting
  m_sema,    \* the posts that no thread has taken yet
  at,        \* where each thread is
  want,      \* the most it wants; what tryWaitMany may still get
  patience,  \* whether its call blocks: "try", "timed" or "forever"
  got,       \* the permits its call has got
  left       \* what its signal still has to add or to post

semaVars == << m_count, m_sema, at, want, patience, got, left >>

Min2(a, b) == IF a < b THEN a ELSE b

\* Registered in m_count without a permit.
Registered == {"sleep", "undo", "undoTry"}
Waiting == { t \in Threads : at[t] \in Registered }

\* The sum of f over the threads of S, as the size of a set of tokens.
Tokens(f, S) == { x \in S \X (1 .. MaxWant) : x[2] <= f[x[1]] }
SumOver(f, S) == Cardinality(Tokens(f, S))

\* The call gets n more permits and goes on at l.
Grant(t, n, l) ==
  /\ got' = [got EXCEPT ![t] = @ + n]
  /\ at' = [at EXCEPT ![t] = l]

\* With one permit, waitMany asks for the rest without waiting.
Afterwards(t) == IF want[t] > 1 THEN "more" ELSE "take"

----------------------------------------------------------------------------
\* wait, tryWait, waitMany and tryWaitMany begin alike.
StartWait(t, max, p) ==
  /\ at' = [at EXCEPT ![t] = "try"]
  /\ want' = [want EXCEPT ![t] = max]
  /\ patience' = [patience EXCEPT ![t] = p]
  /\ UNCHANGED << m_count, m_sema, got, left >>

\* What tryWaitMany is called for.
Wanted(t) == IF at[t] = "more" THEN want[t] - 1 ELSE want[t]

\* Mutant: a load and a store, undone by the store of another thread.
TakeAndStore(t) ==
  /\ at[t] \in {"try", "spin", "more"} /\ m_count > 0
  /\ LET n == Min2(m_count, Wanted(t)) IN
       /\ \/ m_count' = m_count - n
          \/ UNCHANGED m_count /\ \E u \in Threads \ {t} : at[u] = "try"
       /\ Grant(t, n, "take")
  /\ UNCHANGED << m_sema, want, patience, left >>

\* As many permits as there are, at most those wanted.
TakeMany(t) ==
  /\ at[t] \in {"try", "spin", "more"} /\ m_count > 0
  /\ LET n == Min2(m_count, Wanted(t)) IN
       /\ m_count' = m_count - n
       /\ Grant(t, n, "take")
  /\ UNCHANGED << m_sema, want, patience, left >>

\* There are none: tryWait returns with what it has, wait begins to spin.
NoPermit(t) ==
  /\ at[t] \in {"try", "more"} /\ m_count <= 0
  /\ at' = [at EXCEPT ![t] = IF at[t] = "try" /\ patience[t] # "try" THEN "spin" ELSE "take"]
  /\ UNCHANGED << m_count, m_sema, want, patience, got, left >>

\* After the last round the count goes down whatever it is.
FetchSub(t) ==
  /\ at[t] = "spin"
  /\ m_count' = m_count - 1
  /\ IF m_count > 0
     THEN Grant(t, 1, Afterwards(t))
     ELSE at' = [at EXCEPT ![t] = "sleep"] /\ UNCHANGED got
  /\ UNCHANGED << m_sema, want, patience, left >>

\* m_sema.wait() or timed_wait() returns with a post.
Wake(t) ==
  /\ at[t] = "sleep" /\ m_sema > 0
  /\ m_sema' = m_sema - 1
  /\ Grant(t, 1, Afterwards(t))
  /\ UNCHANGED << m_count, want, patience, left >>

\* timed_wait() times out (at once if the timeout is 0): the count has to be put
\* right again.
TimedOut(t) ==
  /\ at[t] = "sleep" /\ patience[t] = "timed"
  /\ at' = [at EXCEPT ![t] = "undo"]
  /\ UNCHANGED << m_count, m_sema, want, patience, got, left >>

\* Mutant: the count is put right whether or not a signal has counted this thread.
GiveBackAlways(t) ==
  /\ at[t] = "undo"
  /\ m_count' = m_count + 1
  /\ at' = [at EXCEPT ![t] = "take"]
  /\ UNCHANGED << m_sema, want, patience, got, left >>

GiveBack(t) ==
  /\ at[t] = "undo" /\ m_count < 0
  /\ m_count' = m_count + 1
  /\ at' = [at EXCEPT ![t] = "take"]
  /\ UNCHANGED << m_sema, want, patience, got, left >>

\* At 0 and above the permits were signaled for this thread too: there is a post
\* for it or there will be.
CountedIn(t) ==
  /\ at[t] = "undo" /\ m_count >= 0
  /\ at' = [at EXCEPT ![t] = "undoTry"]
  /\ UNCHANGED << m_count, m_sema, want, patience, got, left >>

TryWaitPost(t) ==
  /\ at[t] = "undoTry"
  /\ IF m_sema > 0
     THEN m_sema' = m_sema - 1 /\ Grant(t, 1, Afterwards(t))
     ELSE at' = [at EXCEPT ![t] = "undo"] /\ UNCHANGED << m_sema, got >>
  /\ UNCHANGED << m_count, want, patience, left >>

----------------------------------------------------------------------------
StartSignal(t, count) ==
  /\ at' = [at EXCEPT ![t] = "signal"]
  /\ left' = [left EXCEPT ![t] = count]
  /\ UNCHANGED << m_count, m_sema, want, patience, got >>

\* Mutant: one post for a signal of any size that finds a sleeper.
ReleaseOne(count) == IF m_count < 0 THEN 1 ELSE 0

\* toRelease, cut at 0.
ToRelease(count) == IF m_count < 0 THEN Min2(0 - m_count, count) ELSE 0

SignalAdd(t) ==
  /\ at[t] = "signal"
  /\ m_count' = m_count + left[t]
  /\ left' = [left EXCEPT ![t] = ToRelease(left[t])]
  /\ at' = [at EXCEPT ![t] = IF ToRelease(left[t]) > 0 THEN "post" ELSE "idle"]
  /\ UNCHANGED << m_sema, want, patience, got >>

Post(t) ==
  /\ at[t] = "post"
  /\ m_sema' = m_sema + 1
  /\ left' = [left EXCEPT ![t] = @ - 1]
  /\ at' = [at EXCEPT ![t] = IF left[t] > 1 THEN "post" ELSE "idle"]
  /\ UNCHANGED << m_count, want, patience, got >>

----------------------------------------------------------------------------
SemaphoreInit ==
  /\ m_count = 0 /\ m_sema = 0
  /\ at = [t \in Threads |-> "idle"]
  /\ want = [t \in Threads |-> 0]
  /\ patience = [t \in Threads |-> "try"]
  /\ got = [t \in Threads |-> 0] /\ left = [t \in Threads |-> 0]

WaitStep(t) ==
  TakeMany(t) \/ NoPermit(t) \/ FetchSub(t) \/ Wake(t) \/ TimedOut(t)
    \/ GiveBack(t) \/ CountedIn(t) \/ TryWaitPost(t)

SemaphoreTypeOK ==
  /\ m_count \in Int /\ m_sema \in Nat
  /\ at \in [Threads -> {"idle", "try", "spin", "sleep", "undo", "undoTry", "more",
                         "take", "signal", "post"}]
  /\ want \in [Threads -> 0 .. MaxWant]
  /\ patience \in [Threads -> {"try", "timed", "forever"}]
  /\ got \in [Threads -> 0 .. MaxWant] /\ left \in [Threads -> 0 .. MaxWant]

\* No wake-up is lost and none is for nobody: the posts made and owed are exactly
\* the waiting threads whose permits have been signaled, in every state between a
\* signal's addition and its posts, a sleep and its timeout.
WakeUpsMatch ==
  m_sema + SumOver(left, { t \in Threads : at[t] = "post" })
    = Cardinality(Waiting) - (IF m_count < 0 THEN 0 - m_count ELSE 0)
=============================================================================
