--------------------------- MODULE SemaphoreProofs ---------------------------
(***************************************************************************)
(* Proofs about LightweightSemaphore and BlockingConcurrentQueue.  Both    *)
(* invariants are sums over the threads that every step changes at one     *)
(* thread only: the first lemmas say by how much.                          *)
(***************************************************************************)
EXTENDS BlockingConcurrentQueue, FiniteSetTheorems, TLAPS

Places == {"idle", "try", "spin", "sleep", "undo", "undoTry", "more", "take", "signal", "post"}

Posting == { t \in Threads : at[t] = "post" }
Adding == { t \in Threads : at[t] = "signal" }

(* The sums: threads registered as waiting, posts still to be made, permits *)
(* held by calls, and permits whose signal has not begun.                  *)
Sleepers == Cardinality(Waiting)
Posts == SumOver(left, Posting)
Held == SumOver(got, Threads)
Adds == SumOver(left, Adding)

Below(n) == IF n < 0 THEN 0 - n ELSE 0
PostsAt(l, e) == IF l = "post" THEN e ELSE 0
AddsAt(l, e) == IF l = "signal" THEN e ELSE 0
SleepsAt(l) == IF l \in Registered THEN 1 ELSE 0

(* What a thread at place l can have: wanted w, got g, to signal e.        *)
ThreadSound(l, w, g, e) ==
  /\ l \notin {"take", "more"} => g = 0
  /\ l \in {"try", "spin", "sleep", "undo", "undoTry"} => w > 0
  /\ l = "more" => g = 1 /\ w > 1
  /\ l = "post" => e > 0

SInv ==
  /\ SemaphoreTypeOK /\ inner \in Nat
  /\ \A t \in Threads : ThreadSound(at[t], want[t], got[t], left[t])
  /\ m_sema + Posts = Sleepers - Below(m_count)
  /\ inner = m_count + Sleepers + Held + Adds

----------------------------------------------------------------------------
(* The tokens of a finite sum are a finite set.                            *)
LEMMA TokensFinite ==
  ASSUME NEW f, NEW S \in SUBSET Threads
  PROVE  IsFiniteSet(Tokens(f, S)) /\ SumOver(f, S) \in Nat
<1>1. IsFiniteSet(S) /\ IsFiniteSet(1 .. MaxWant)
  BY SemaphoreAssumption, FS_Subset, FS_Interval
<1>2. IsFiniteSet(S \X (1 .. MaxWant))
  BY <1>1, FS_Product
<1>3. Tokens(f, S) \in SUBSET (S \X (1 .. MaxWant))
  BY DEF Tokens
<1> QED
  BY <1>2, <1>3, FS_Subset, FS_CardinalityType DEF SumOver

(* A sum is one thread's number and the sum over the others.               *)
LEMMA SumSplit ==
  ASSUME NEW f \in [Threads -> 0 .. MaxWant], NEW S \in SUBSET Threads, NEW t \in S
  PROVE  SumOver(f, S) = SumOver(f, S \ {t}) + f[t]
<1> DEFINE own == {t} \X (1 .. f[t])
           others == Tokens(f, S \ {t})
<1>1. f[t] \in 0 .. MaxWant /\ f[t] \in Nat
  BY SemaphoreAssumption
<1>2. IsFiniteSet(own) /\ Cardinality(own) = f[t]
  <2>1. IsFiniteSet({t}) /\ Cardinality({t}) = 1
    BY FS_Singleton
  <2>2. IsFiniteSet(1 .. f[t]) /\ Cardinality(1 .. f[t]) = f[t]
    BY <1>1, FS_Interval
  <2>3. Cardinality(own) = 1 * f[t] /\ IsFiniteSet(own)
    BY <2>1, <2>2, FS_Product
  <2> QED
    BY <1>1, <2>3
<1>3. IsFiniteSet(others) /\ Cardinality(others) \in Nat
  BY TokensFinite, FS_CardinalityType
<1>4. Tokens(f, S) = others \cup own
  <2>1. ASSUME NEW x \in Tokens(f, S) PROVE x \in others \cup own
    BY <1>1, <2>1 DEF Tokens
  <2>2. ASSUME NEW x \in others PROVE x \in Tokens(f, S)
    BY <2>2 DEF Tokens
  <2>3. ASSUME NEW x \in own PROVE x \in Tokens(f, S)
    <3>1. x \in S \X (1 .. MaxWant) /\ x[1] = t /\ x[2] \in 1 .. f[t]
      BY <1>1, <2>3, SemaphoreAssumption
    <3> QED
      BY <1>1, <3>1 DEF Tokens
  <2> QED
    BY <2>1, <2>2, <2>3
<1>5. others \cap own = {}
  BY DEF Tokens
<1> HIDE DEF own, others
<1>6. Cardinality(others \cup own) = Cardinality(others) + Cardinality(own)
  <2>1. Cardinality(others \cup own)
          = Cardinality(others) + Cardinality(own) - Cardinality(others \cap own)
    BY <1>2, <1>3, FS_Union
  <2>2. Cardinality(others \cap own) = 0
    BY <1>5, FS_EmptySet
  <2> QED
    BY <1>1, <1>2, <1>3, <2>1, <2>2
<1> QED
  BY <1>2, <1>4, <1>6 DEF SumOver, others

(* By how much a sum changes when one thread's number and place do.        *)
LEMMA SumStep ==
  ASSUME NEW f \in [Threads -> 0 .. MaxWant], NEW g \in [Threads -> 0 .. MaxWant],
         NEW S \in SUBSET Threads, NEW T \in SUBSET Threads, NEW t \in Threads,
         \A u \in Threads : u # t => (u \in S <=> u \in T) /\ f[u] = g[u]
  PROVE  /\ SumOver(f, S) \in Nat /\ SumOver(g, T) \in Nat
         /\ SumOver(g, T) - (IF t \in T THEN g[t] ELSE 0) = SumOver(f, S) - (IF t \in S THEN f[t] ELSE 0)
<1>1. /\ SumOver(f, S) \in Nat /\ SumOver(g, T) \in Nat
      /\ SumOver(f, S \ {t}) \in Nat /\ SumOver(g, T \ {t}) \in Nat
  BY TokensFinite
<1>2. SumOver(f, S \ {t}) = SumOver(g, T \ {t})
  <2>1. Tokens(f, S \ {t}) = Tokens(g, T \ {t})
    BY DEF Tokens
  <2> QED
    BY <2>1 DEF SumOver
<1>3. f[t] \in Nat /\ g[t] \in Nat
  BY SemaphoreAssumption
<1>4. SumOver(f, S) - (IF t \in S THEN f[t] ELSE 0) = SumOver(f, S \ {t})
  <2>1. CASE t \in S
    BY <1>1, <1>3, <2>1, SumSplit
  <2>2. CASE t \notin S
    <3>1. S \ {t} = S
      BY <2>2
    <3> QED
      BY <1>1, <2>2, <3>1
  <2> QED
    BY <2>1, <2>2
<1>5. SumOver(g, T) - (IF t \in T THEN g[t] ELSE 0) = SumOver(g, T \ {t})
  <2>1. CASE t \in T
    BY <1>1, <1>3, <2>1, SumSplit
  <2>2. CASE t \notin T
    <3>1. T \ {t} = T
      BY <2>2
    <3> QED
      BY <1>1, <2>2, <3>1
  <2> QED
    BY <2>1, <2>2
<1> QED
  BY <1>1, <1>2, <1>4, <1>5

(* The same for each of the four sums.                                     *)
LEMMA PostsStep ==
  ASSUME NEW t \in Threads, left \in [Threads -> 0 .. MaxWant],
         left' \in [Threads -> 0 .. MaxWant],
         \A u \in Threads : u # t => at'[u] = at[u] /\ left'[u] = left[u]
  PROVE  /\ Posts \in Nat /\ Posts' \in Nat
         /\ Posts' - PostsAt(at'[t], left'[t]) = Posts - PostsAt(at[t], left[t])
<1>1. /\ Posting \in SUBSET Threads /\ Posting' \in SUBSET Threads
      /\ \A u \in Threads : u # t => (u \in Posting <=> u \in Posting') /\ left[u] = left'[u]
      /\ (t \in Posting <=> at[t] = "post") /\ (t \in Posting' <=> at'[t] = "post")
  BY DEF Posting
<1>2. Posts' = SumOver(left', Posting')
  BY DEF Posts, SumOver, Tokens
<1>3. /\ SumOver(left, Posting) \in Nat /\ SumOver(left', Posting') \in Nat
      /\ SumOver(left', Posting') - (IF t \in Posting' THEN left'[t] ELSE 0)
           = SumOver(left, Posting) - (IF t \in Posting THEN left[t] ELSE 0)
  BY <1>1, SumStep
<1> QED
  BY <1>1, <1>2, <1>3 DEF Posts, PostsAt

LEMMA AddsStep ==
  ASSUME NEW t \in Threads, left \in [Threads -> 0 .. MaxWant],
         left' \in [Threads -> 0 .. MaxWant],
         \A u \in Threads : u # t => at'[u] = at[u] /\ left'[u] = left[u]
  PROVE  /\ Adds \in Nat /\ Adds' \in Nat
         /\ Adds' - AddsAt(at'[t], left'[t]) = Adds - AddsAt(at[t], left[t])
<1>1. /\ Adding \in SUBSET Threads /\ Adding' \in SUBSET Threads
      /\ \A u \in Threads : u # t => (u \in Adding <=> u \in Adding') /\ left[u] = left'[u]
      /\ (t \in Adding <=> at[t] = "signal") /\ (t \in Adding' <=> at'[t] = "signal")
  BY DEF Adding
<1>2. Adds' = SumOver(left', Adding')
  BY DEF Adds, SumOver, Tokens
<1>3. /\ SumOver(left, Adding) \in Nat /\ SumOver(left', Adding') \in Nat
      /\ SumOver(left', Adding') - (IF t \in Adding' THEN left'[t] ELSE 0)
           = SumOver(left, Adding) - (IF t \in Adding THEN left[t] ELSE 0)
  BY <1>1, SumStep
<1> QED
  BY <1>1, <1>2, <1>3 DEF Adds, AddsAt

LEMMA HeldStep ==
  ASSUME NEW t \in Threads, got \in [Threads -> 0 .. MaxWant],
         got' \in [Threads -> 0 .. MaxWant],
         \A u \in Threads : u # t => got'[u] = got[u]
  PROVE  Held \in Nat /\ Held' \in Nat /\ Held' - got'[t] = Held - got[t]
<1>1. Held' = SumOver(got', Threads)
  BY DEF Held, SumOver, Tokens
<1>2. Threads \in SUBSET Threads
  OBVIOUS
<1>3. /\ SumOver(got, Threads) \in Nat /\ SumOver(got', Threads) \in Nat
      /\ SumOver(got', Threads) - (IF t \in Threads THEN got'[t] ELSE 0)
           = SumOver(got, Threads) - (IF t \in Threads THEN got[t] ELSE 0)
  BY <1>2, SumStep
<1> QED
  BY <1>1, <1>3 DEF Held

LEMMA SleepersStep ==
  ASSUME NEW t \in Threads, \A u \in Threads : u # t => at'[u] = at[u]
  PROVE  /\ Sleepers \in Nat /\ Sleepers' \in Nat
         /\ Sleepers' - SleepsAt(at'[t]) = Sleepers - SleepsAt(at[t])
<1>1. /\ IsFiniteSet(Waiting) /\ IsFiniteSet(Waiting')
      /\ Sleepers \in Nat /\ Sleepers' \in Nat
  BY SemaphoreAssumption, FS_Subset, FS_CardinalityType DEF Waiting, Sleepers
<1>2. /\ Waiting \ {t} = Waiting' \ {t}
      /\ (t \in Waiting <=> at[t] \in Registered) /\ (t \in Waiting' <=> at'[t] \in Registered)
  BY DEF Waiting, Registered
<1>3. /\ Cardinality(Waiting \ {t}) = IF t \in Waiting THEN Sleepers - 1 ELSE Sleepers
      /\ Cardinality(Waiting' \ {t}) = IF t \in Waiting' THEN Sleepers' - 1 ELSE Sleepers'
  BY <1>1, FS_RemoveElement DEF Sleepers
<1>4. /\ Cardinality(Waiting \ {t}) = Sleepers - SleepsAt(at[t])
      /\ Cardinality(Waiting' \ {t}) = Sleepers' - SleepsAt(at'[t])
  BY <1>1, <1>2, <1>3 DEF SleepsAt
<1> QED
  BY <1>1, <1>2, <1>4

(* What a step of thread t, to place l with g permits and e to signal, has  *)
(* to add up to.                                                           *)
Moves(t, l, g, e) ==
  /\ at' = [at EXCEPT ![t] = l] /\ got' = [got EXCEPT ![t] = g]
  /\ left' = [left EXCEPT ![t] = e]
  /\ want' \in [Threads -> 0 .. MaxWant] /\ \A u \in Threads \ {t} : want'[u] = want[u]
  /\ patience' \in [Threads -> {"try", "timed", "forever"}]
  /\ ThreadSound(l, want'[t], g, e)
  /\ m_count' \in Int /\ m_sema' \in Nat /\ inner' \in Nat

AddsUp(t, l, g, e) ==
  /\ (m_sema' - m_sema) + (PostsAt(l, e) - PostsAt(at[t], left[t]))
       = (SleepsAt(l) - SleepsAt(at[t])) - (Below(m_count') - Below(m_count))
  /\ inner' - inner = (m_count' - m_count) + (SleepsAt(l) - SleepsAt(at[t]))
                        + (g - got[t]) + (AddsAt(l, e) - AddsAt(at[t], left[t]))

StepOf(t, l, g, e) == Moves(t, l, g, e) /\ AddsUp(t, l, g, e)

LEMMA StepAddsUp ==
  ASSUME SInv, NEW t \in Threads, NEW l \in Places, NEW g \in 0 .. MaxWant,
         NEW e \in 0 .. MaxWant, StepOf(t, l, g, e)
  PROVE  SInv'
<1>1. SemaphoreTypeOK'
  BY DEF SInv, SemaphoreTypeOK, Places, StepOf, Moves
<1>2. /\ at'[t] = l /\ got'[t] = g /\ left'[t] = e
      /\ \A u \in Threads : u # t =>
           at'[u] = at[u] /\ got'[u] = got[u] /\ left'[u] = left[u] /\ want'[u] = want[u]
      /\ ThreadSound(l, want'[t], g, e)
      /\ left \in [Threads -> 0 .. MaxWant] /\ got \in [Threads -> 0 .. MaxWant]
      /\ left' \in [Threads -> 0 .. MaxWant] /\ got' \in [Threads -> 0 .. MaxWant]
  BY DEF SInv, SemaphoreTypeOK, StepOf, Moves
<1>3. \A u \in Threads : ThreadSound(at'[u], want'[u], got'[u], left'[u])
  <2>1. ASSUME NEW u \in Threads PROVE ThreadSound(at'[u], want'[u], got'[u], left'[u])
    <3>1. CASE u = t
      BY <1>2, <3>1
    <3>2. CASE u # t
      BY <1>2, <3>2 DEF SInv
    <3> QED
      BY <3>1, <3>2
  <2> QED
    BY <2>1
<1>4. /\ Posts \in Int /\ Posts' \in Int
      /\ PostsAt(l, e) - PostsAt(at[t], left[t]) = Posts' - Posts
  <2>1. /\ Posts \in Nat /\ Posts' \in Nat
        /\ Posts' - PostsAt(l, e) = Posts - PostsAt(at[t], left[t])
    BY <1>2, PostsStep
  <2>2. PostsAt(l, e) \in Nat /\ PostsAt(at[t], left[t]) \in Nat
    BY <1>2, SemaphoreAssumption DEF PostsAt
  <2> QED
    BY <2>1, <2>2
<1>5. /\ Adds \in Int /\ Adds' \in Int
      /\ AddsAt(l, e) - AddsAt(at[t], left[t]) = Adds' - Adds
  <2>1. /\ Adds \in Nat /\ Adds' \in Nat
        /\ Adds' - AddsAt(l, e) = Adds - AddsAt(at[t], left[t])
    BY <1>2, AddsStep
  <2>2. AddsAt(l, e) \in Nat /\ AddsAt(at[t], left[t]) \in Nat
    BY <1>2, SemaphoreAssumption DEF AddsAt
  <2> QED
    BY <2>1, <2>2
<1>6. Held \in Int /\ Held' \in Int /\ g - got[t] = Held' - Held
  <2>1. Held \in Nat /\ Held' \in Nat /\ Held' - g = Held - got[t]
    BY <1>2, HeldStep
  <2>2. g \in Nat /\ got[t] \in Nat
    BY <1>2, SemaphoreAssumption
  <2> QED
    BY <2>1, <2>2
<1>7. /\ Sleepers \in Int /\ Sleepers' \in Int
      /\ SleepsAt(l) - SleepsAt(at[t]) = Sleepers' - Sleepers
  <2>1. /\ Sleepers \in Nat /\ Sleepers' \in Nat
        /\ Sleepers' - SleepsAt(l) = Sleepers - SleepsAt(at[t])
    BY <1>2, SleepersStep
  <2>2. SleepsAt(l) \in Nat /\ SleepsAt(at[t]) \in Nat
    BY DEF SleepsAt
  <2> QED
    BY <2>1, <2>2
<1>8. /\ m_count \in Int /\ m_sema \in Int /\ inner \in Int
      /\ m_count' \in Int /\ m_sema' \in Int /\ inner' \in Int
      /\ m_sema + Posts = Sleepers - Below(m_count)
      /\ inner = m_count + Sleepers + Held + Adds
  BY DEF SInv, SemaphoreTypeOK, StepOf, Moves
<1>9. Below(m_count) \in Int /\ Below(m_count') \in Int
  BY <1>8 DEF Below
<1>10. m_sema' + Posts' = Sleepers' - Below(m_count')
  <2>1. (m_sema' - m_sema) + (Posts' - Posts)
          = (Sleepers' - Sleepers) - (Below(m_count') - Below(m_count))
    BY <1>4, <1>7 DEF StepOf, AddsUp
  <2> DEFINE m0 == m_sema   m1 == m_sema'   p0 == Posts           p1 == Posts'
             s0 == Sleepers s1 == Sleepers' b0 == Below(m_count)  b1 == Below(m_count')
  <2>2. /\ m0 \in Int /\ p0 \in Int /\ s0 \in Int /\ b0 \in Int
        /\ m1 \in Int /\ p1 \in Int /\ s1 \in Int /\ b1 \in Int
    BY <1>4, <1>7, <1>8, <1>9
  <2>3. m0 + p0 = s0 - b0 /\ (m1 - m0) + (p1 - p0) = (s1 - s0) - (b1 - b0)
    BY <1>8, <2>1
  <2> HIDE DEF m0, m1, p0, p1, s0, s1, b0, b1
  <2>4. m1 + p1 = s1 - b1
    BY <2>2, <2>3
  <2> QED
    BY <2>4 DEF m1, p1, s1, b1
<1>11. inner' = m_count' + Sleepers' + Held' + Adds'
  <2>1. inner' - inner = (m_count' - m_count) + (Sleepers' - Sleepers) + (Held' - Held)
                           + (Adds' - Adds)
    BY <1>5, <1>6, <1>7 DEF StepOf, AddsUp
  <2> DEFINE i0 == inner  i1 == inner'  m0 == m_count   m1 == m_count'   h0 == Held  h1 == Held'
             a0 == Adds   a1 == Adds'   s0 == Sleepers  s1 == Sleepers'
  <2>2. /\ i0 \in Int /\ m0 \in Int /\ s0 \in Int /\ h0 \in Int /\ a0 \in Int
        /\ i1 \in Int /\ m1 \in Int /\ s1 \in Int /\ h1 \in Int /\ a1 \in Int
    BY <1>5, <1>6, <1>7, <1>8
  <2>3. i0 = m0 + s0 + h0 + a0 /\ i1 - i0 = (m1 - m0) + (s1 - s0) + (h1 - h0) + (a1 - a0)
    BY <1>8, <2>1
  <2> HIDE DEF i0, i1, m0, m1, s0, s1, h0, h1, a0, a1
  <2>4. i1 = m1 + s1 + h1 + a1
    BY <2>2, <2>3
  <2> QED
    BY <2>4 DEF i1, m1, s1, h1, a1
<1> QED
  BY <1>1, <1>3, <1>10, <1>11 DEF SInv, Below, StepOf, Moves

----------------------------------------------------------------------------
(* Each step of a thread adds up.                                          *)
LEMMA CallTypesOf ==
  ASSUME SInv, NEW t \in Threads
  PROVE  /\ m_count \in Int /\ m_sema \in Nat /\ inner \in Nat
         /\ at \in [Threads -> Places] /\ at[t] \in Places
         /\ want[t] \in 0 .. MaxWant /\ got[t] \in 0 .. MaxWant /\ left[t] \in 0 .. MaxWant
         /\ want[t] \in Nat /\ got[t] \in Nat /\ left[t] \in Nat /\ MaxWant \in Nat \ {0}
         /\ want \in [Threads -> 0 .. MaxWant] /\ got \in [Threads -> 0 .. MaxWant]
         /\ left \in [Threads -> 0 .. MaxWant]
         /\ patience \in [Threads -> {"try", "timed", "forever"}]
         /\ ThreadSound(at[t], want[t], got[t], left[t])
BY SemaphoreAssumption DEF SInv, SemaphoreTypeOK, Places

(* The steps that leave the counts and a thread's numbers as they are, from *)
(* one place without a share in the sums to another, or from one place of  *)
(* a waiting thread to another.                                            *)
LEMMA MoveInv ==
  ASSUME SInv, NEW t \in Threads, NEW l \in Places, at' = [at EXCEPT ![t] = l],
         UNCHANGED << m_count, m_sema, got, left, inner >>,
         at[t] \notin {"signal", "post"}, l \notin {"signal", "post"},
         at[t] \in Registered <=> l \in Registered,
         want' \in [Threads -> 0 .. MaxWant], \A u \in Threads \ {t} : want'[u] = want[u],
         patience' \in [Threads -> {"try", "timed", "forever"}],
         ThreadSound(l, want'[t], got[t], left[t])
  PROVE  SInv'
<1>1. got' = [got EXCEPT ![t] = got[t]] /\ left' = [left EXCEPT ![t] = left[t]]
  BY CallTypesOf
<1>2. /\ PostsAt(l, left[t]) = 0 /\ PostsAt(at[t], left[t]) = 0
      /\ AddsAt(l, left[t]) = 0 /\ AddsAt(at[t], left[t]) = 0
      /\ SleepsAt(l) = SleepsAt(at[t]) /\ SleepsAt(l) \in Nat
  BY DEF PostsAt, AddsAt, SleepsAt
<1>3. Below(m_count') = Below(m_count) /\ Below(m_count) \in Int
  BY CallTypesOf DEF Below
<1>4. StepOf(t, l, got[t], left[t])
  <2>1. Moves(t, l, got[t], left[t])
    BY <1>1, <1>2, <1>3, CallTypesOf DEF Moves
  <2>2. AddsUp(t, l, got[t], left[t])
    BY <1>1, <1>2, <1>3, CallTypesOf DEF AddsUp
  <2> QED
    BY <2>1, <2>2 DEF StepOf
<1> QED
  BY <1>4, CallTypesOf, StepAddsUp

LEMMA EnqueueInv ==
  ASSUME SInv, NEW t \in Threads, NEW n \in 1 .. MaxWant, enqueue(t, n)
  PROVE  SInv'
<1>1. /\ at[t] = "idle" /\ at' = [at EXCEPT ![t] = "signal"] /\ left' = [left EXCEPT ![t] = n]
      /\ inner' = inner + n /\ UNCHANGED << m_count, m_sema, want, patience, got >>
  BY DEF enqueue, StartSignal
<1>2. got[t] = 0 /\ got' = [got EXCEPT ![t] = 0] /\ n \in Nat
  BY <1>1, CallTypesOf DEF ThreadSound
<1>3. /\ PostsAt("signal", n) = 0 /\ PostsAt(at[t], left[t]) = 0
      /\ AddsAt("signal", n) = n /\ AddsAt(at[t], left[t]) = 0
      /\ SleepsAt("signal") = 0 /\ SleepsAt(at[t]) = 0
  BY <1>1 DEF PostsAt, AddsAt, SleepsAt, Registered
<1>4. Below(m_count') = Below(m_count) /\ Below(m_count) \in Int
  BY <1>1, CallTypesOf DEF Below
<1>5. ThreadSound("signal", want'[t], 0, n)
  BY DEF ThreadSound
<1>6. StepOf(t, "signal", 0, n)
  <2>1. Moves(t, "signal", 0, n)
    <3>1. m_count' \in Int /\ m_sema' \in Nat /\ inner' \in Nat
      BY <1>1, <1>2, <1>3, <1>4, <1>5, CallTypesOf
    <3>2. /\ want' \in [Threads -> 0 .. MaxWant]
          /\ patience' \in [Threads -> {"try", "timed", "forever"}]
      BY <1>1, <1>2, <1>3, <1>4, <1>5, CallTypesOf
    <3> QED
      BY <1>1, <1>2, <1>3, <1>4, <1>5, CallTypesOf, <3>1, <3>2 DEF Moves
  <2>2. AddsUp(t, "signal", 0, n)
    BY <1>1, <1>2, <1>3, <1>4, <1>5, CallTypesOf DEF AddsUp
  <2> QED
    BY <2>1, <2>2 DEF StepOf
<1> QED
  BY <1>2, <1>6, CallTypesOf, StepAddsUp DEF Places

LEMMA DequeueInv ==
  ASSUME SInv, NEW t \in Threads, NEW max \in 1 .. MaxWant,
         NEW p \in {"try", "timed", "forever"}, dequeue(t, max, p)
  PROVE  SInv'
<1>1. /\ at[t] = "idle" /\ at' = [at EXCEPT ![t] = "try"]
      /\ want' = [want EXCEPT ![t] = max] /\ patience' = [patience EXCEPT ![t] = p]
      /\ UNCHANGED << m_count, m_sema, got, left, inner >>
  BY DEF dequeue, StartWait
<1>2. got[t] = 0 /\ want'[t] = max /\ want' \in [Threads -> 0 .. MaxWant]
      /\ patience' \in [Threads -> {"try", "timed", "forever"}]
  BY <1>1, CallTypesOf DEF ThreadSound
<1>3. ThreadSound("try", want'[t], got[t], left[t])
  BY <1>2 DEF ThreadSound
<1> QED
  BY <1>1, <1>2, <1>3, MoveInv DEF Places, Registered

(* A grant of n permits, taken from the count or from a post.              *)
LEMMA GrantInv ==
  ASSUME SInv, NEW t \in Threads, NEW l \in Places, NEW n \in Nat, Grant(t, n, l),
         at[t] \notin {"signal", "post"}, l \in {"take", "more"}, got[t] + n <= MaxWant,
         l = "more" => got[t] = 0 /\ n = 1 /\ want[t] > 1,
         UNCHANGED << want, patience, left, inner >>, m_count' \in Int, m_sema' \in Nat,
         m_sema' + Below(m_count') = m_sema + Below(m_count) - SleepsAt(at[t]),
         m_count' = m_count - n + SleepsAt(at[t])
  PROVE  SInv'
<1>1. at' = [at EXCEPT ![t] = l] /\ got' = [got EXCEPT ![t] = got[t] + n]
  BY DEF Grant
<1>2. left' = [left EXCEPT ![t] = left[t]]
  BY CallTypesOf
<1>3. /\ PostsAt(l, left[t]) = 0 /\ PostsAt(at[t], left[t]) = 0
      /\ AddsAt(l, left[t]) = 0 /\ AddsAt(at[t], left[t]) = 0
      /\ SleepsAt(l) = 0 /\ SleepsAt(at[t]) \in Nat
  BY DEF PostsAt, AddsAt, SleepsAt, Registered
<1>4. Below(m_count') \in Int /\ Below(m_count) \in Int
  BY CallTypesOf DEF Below
<1>5. ThreadSound(l, want'[t], got[t] + n, left[t])
  BY CallTypesOf DEF ThreadSound
<1>6. got[t] + n \in 0 .. MaxWant
  BY CallTypesOf
<1>7. StepOf(t, l, got[t] + n, left[t])
  <2>1. Moves(t, l, got[t] + n, left[t])
    BY <1>1, <1>2, <1>3, <1>4, <1>5, CallTypesOf DEF Moves
  <2>2. AddsUp(t, l, got[t] + n, left[t])
    <3>1. (got[t] + n) - got[t] = n /\ inner' - inner = 0
      BY <1>1, <1>2, <1>3, <1>4, <1>5, CallTypesOf
    <3>2. m_sema' - m_sema = (0 - SleepsAt(at[t])) - (Below(m_count') - Below(m_count))
      BY <1>1, <1>2, <1>3, <1>4, <1>5, CallTypesOf
    <3>3. 0 = (m_count' - m_count) + (0 - SleepsAt(at[t])) + n
      BY <1>1, <1>2, <1>3, <1>4, <1>5, CallTypesOf
    <3>4. (m_sema' - m_sema) + (PostsAt(l, left[t]) - PostsAt(at[t], left[t]))
            = (SleepsAt(l) - SleepsAt(at[t])) - (Below(m_count') - Below(m_count))
      <4>1. m_sema' - m_sema \in Int
        BY CallTypesOf
      <4> QED
        BY <1>3, <3>2, <4>1
    <3>5. inner' - inner = (m_count' - m_count) + (SleepsAt(l) - SleepsAt(at[t]))
                            + ((got[t] + n) - got[t])
                            + (AddsAt(l, left[t]) - AddsAt(at[t], left[t]))
      <4>1. (m_count' - m_count) + (0 - SleepsAt(at[t])) + n \in Int
        BY <1>3, CallTypesOf
      <4> QED
        BY <1>3, <3>1, <3>3, <4>1
    <3> QED
      BY <3>4, <3>5 DEF AddsUp
  <2> QED
    BY <2>1, <2>2 DEF StepOf
<1> QED
  BY <1>6, <1>7, CallTypesOf, StepAddsUp

LEMMA WaitStepInv ==
  ASSUME SInv, NEW t \in Threads, WaitStep(t), UNCHANGED inner
  PROVE  SInv'
<1> USE CallTypesOf
<1>1. CASE TakeMany(t)
  <2> DEFINE n == Min2(m_count, Wanted(t))
  <2>1. /\ at[t] \in {"try", "spin", "more"} /\ m_count > 0 /\ m_count' = m_count - n
        /\ Grant(t, n, "take") /\ UNCHANGED << m_sema, want, patience, left >>
    BY <1>1 DEF TakeMany
  <2>2. n \in Nat /\ n <= m_count /\ got[t] + n <= MaxWant
    BY <2>1 DEF Min2, Wanted, ThreadSound
  <2>3. SleepsAt(at[t]) = 0 /\ Below(m_count') = 0 /\ Below(m_count) = 0
    BY <2>1, <2>2 DEF SleepsAt, Registered, Below
  <2> HIDE DEF n
  <2>4. m_count' \in Int /\ m_sema' \in Nat
    BY <2>1, <2>2
  <2> QED
    BY <2>1, <2>2, <2>3, <2>4, GrantInv DEF Places
<1>2. CASE NoPermit(t)
  <2>1. PICK l \in {"spin", "take"} : at' = [at EXCEPT ![t] = l] /\ (l = "spin" => at[t] = "try")
    BY <1>2 DEF NoPermit
  <2>2. at[t] \in {"try", "more"} /\ UNCHANGED << m_count, m_sema, want, patience, got, left >>
    BY <1>2 DEF NoPermit
  <2>3. ThreadSound(l, want'[t], got[t], left[t])
    BY <2>1, <2>2 DEF ThreadSound
  <2> QED
    BY <2>1, <2>2, <2>3, MoveInv DEF Places, Registered
<1>3. CASE FetchSub(t)
  <2>1. /\ at[t] = "spin" /\ m_count' = m_count - 1 /\ got[t] = 0 /\ want[t] > 0
        /\ UNCHANGED << m_sema, want, patience, left >>
    BY <1>3 DEF FetchSub, ThreadSound
  <2>2. CASE m_count > 0
    <3>1. /\ Grant(t, 1, Afterwards(t)) /\ Afterwards(t) \in {"take", "more"}
          /\ (Afterwards(t) = "more" => want[t] > 1)
      BY <1>3, <2>2 DEF FetchSub, Afterwards
    <3>2. SleepsAt(at[t]) = 0 /\ Below(m_count') = 0 /\ Below(m_count) = 0
      BY <2>1, <2>2 DEF SleepsAt, Registered, Below
    <3>3. m_count' \in Int /\ m_sema' \in Nat /\ got[t] + 1 <= MaxWant /\ 1 \in Nat
      BY <2>1
    <3> QED
      BY <2>1, <3>1, <3>2, <3>3, GrantInv DEF Places
  <2>3. CASE ~ (m_count > 0)
    <3>1. /\ at' = [at EXCEPT ![t] = "sleep"]
          /\ got' = [got EXCEPT ![t] = 0] /\ left' = [left EXCEPT ![t] = left[t]]
      BY <1>3, <2>1, <2>3 DEF FetchSub
    <3>2. /\ PostsAt("sleep", left[t]) = 0 /\ PostsAt(at[t], left[t]) = 0
          /\ AddsAt("sleep", left[t]) = 0 /\ AddsAt(at[t], left[t]) = 0
          /\ SleepsAt("sleep") = 1 /\ SleepsAt(at[t]) = 0
      BY <2>1 DEF PostsAt, AddsAt, SleepsAt, Registered
    <3>3. Below(m_count') = Below(m_count) + 1 /\ Below(m_count) \in Int /\ m_count' \in Int
      BY <2>1, <2>3 DEF Below
    <3>4. ThreadSound("sleep", want'[t], 0, left[t])
      BY <2>1 DEF ThreadSound
    <3>5. StepOf(t, "sleep", 0, left[t])
      <4>1. Moves(t, "sleep", 0, left[t])
        BY <2>1, <3>1, <3>2, <3>3, <3>4 DEF Moves
      <4>2. AddsUp(t, "sleep", 0, left[t])
        BY <2>1, <3>1, <3>2, <3>3, <3>4 DEF AddsUp
      <4> QED
        BY <4>1, <4>2 DEF StepOf
    <3> QED
      BY <3>5, StepAddsUp DEF Places
  <2> QED
    BY <2>2, <2>3
<1>4. CASE Wake(t) \/ (TryWaitPost(t) /\ m_sema > 0)
  <2>1. /\ at[t] \in Registered /\ m_sema > 0 /\ m_sema' = m_sema - 1
        /\ Grant(t, 1, Afterwards(t)) /\ UNCHANGED << m_count, want, patience, left >>
    BY <1>4 DEF Wake, TryWaitPost, Registered
  <2>2. /\ Afterwards(t) \in {"take", "more"} /\ (Afterwards(t) = "more" => want[t] > 1)
        /\ got[t] = 0
    BY <2>1 DEF Afterwards, ThreadSound, Registered
  <2>3. /\ SleepsAt(at[t]) = 1 /\ at[t] \notin {"signal", "post"}
        /\ Below(m_count') = Below(m_count) /\ Below(m_count) \in Int
    BY <2>1 DEF SleepsAt, Registered, Below
  <2>4. m_count' \in Int /\ m_sema' \in Nat /\ got[t] + 1 <= MaxWant /\ 1 \in Nat
    BY <2>1, <2>2
  <2>5. /\ m_sema' + Below(m_count') = m_sema + Below(m_count) - SleepsAt(at[t])
        /\ m_count' = m_count - 1 + SleepsAt(at[t])
    BY <2>1, <2>3
  <2> QED
    BY <2>1, <2>2, <2>3, <2>4, <2>5, GrantInv DEF Places
<1>5. CASE TimedOut(t) \/ CountedIn(t) \/ (TryWaitPost(t) /\ ~ (m_sema > 0))
  <2>1. PICK l \in {"undo", "undoTry"} : at' = [at EXCEPT ![t] = l]
    BY <1>5 DEF TimedOut, CountedIn, TryWaitPost
  <2>2. /\ at[t] \in Registered /\ UNCHANGED << m_count, m_sema, want, patience, got, left >>
    BY <1>5 DEF TimedOut, CountedIn, TryWaitPost, Registered
  <2>3. ThreadSound(l, want'[t], got[t], left[t])
    BY <2>2 DEF ThreadSound, Registered
  <2>4. /\ l \in Places /\ l \notin {"signal", "post"} /\ l \in Registered
        /\ at[t] \notin {"signal", "post"}
    BY <2>2 DEF Places, Registered
  <2>5. /\ want' \in [Threads -> 0 .. MaxWant] /\ \A u \in Threads \ {t} : want'[u] = want[u]
        /\ patience' \in [Threads -> {"try", "timed", "forever"}]
    BY <2>2 DEF SemaphoreTypeOK
  <2> QED
    BY <2>1, <2>2, <2>3, <2>4, <2>5, MoveInv
<1>6. CASE GiveBack(t)
  <2>1. /\ at[t] = "undo" /\ m_count < 0 /\ m_count' = m_count + 1 /\ got[t] = 0
        /\ at' = [at EXCEPT ![t] = "take"] /\ UNCHANGED << m_sema, want, patience, got, left >>
    BY <1>6 DEF GiveBack, ThreadSound
  <2>2. got' = [got EXCEPT ![t] = 0] /\ left' = [left EXCEPT ![t] = left[t]]
    BY <2>1
  <2>3. /\ PostsAt("take", left[t]) = 0 /\ PostsAt(at[t], left[t]) = 0
        /\ AddsAt("take", left[t]) = 0 /\ AddsAt(at[t], left[t]) = 0
        /\ SleepsAt("take") = 0 /\ SleepsAt(at[t]) = 1
    BY <2>1 DEF PostsAt, AddsAt, SleepsAt, Registered
  <2>4. Below(m_count') = Below(m_count) - 1 /\ Below(m_count) \in Int /\ m_count' \in Int
    BY <2>1 DEF Below
  <2>5. ThreadSound("take", want'[t], 0, left[t])
    BY DEF ThreadSound
  <2>6. StepOf(t, "take", 0, left[t])
    <3>1. Moves(t, "take", 0, left[t])
      BY <2>1, <2>2, <2>3, <2>4, <2>5 DEF Moves
    <3>2. AddsUp(t, "take", 0, left[t])
      BY <2>1, <2>2, <2>3, <2>4, <2>5 DEF AddsUp
    <3> QED
      BY <3>1, <3>2 DEF StepOf
  <2> QED
    BY <2>6, StepAddsUp DEF Places
<1> QED
  BY <1>1, <1>2, <1>3, <1>4, <1>5, <1>6 DEF WaitStep

LEMMA SignalInv ==
  ASSUME SInv, NEW t \in Threads, SignalAdd(t) \/ Post(t), UNCHANGED inner
  PROVE  SInv'
<1> USE CallTypesOf
<1>1. CASE SignalAdd(t)
  <2> DEFINE r == ToRelease(left[t])
             l == IF r > 0 THEN "post" ELSE "idle"
  <2>1. /\ at[t] = "signal" /\ m_count' = m_count + left[t] /\ got[t] = 0
        /\ left' = [left EXCEPT ![t] = r] /\ at' = [at EXCEPT ![t] = l]
        /\ UNCHANGED << m_sema, want, patience, got >>
    BY <1>1 DEF SignalAdd, ThreadSound
  <2>2. r \in 0 .. MaxWant /\ Below(m_count') = Below(m_count) - r /\ Below(m_count) \in Int
    BY <2>1 DEF ToRelease, Min2, Below
  <2>3. l \in Places /\ ThreadSound(l, want'[t], 0, r) /\ got' = [got EXCEPT ![t] = 0]
    BY <2>1 DEF Places, ThreadSound
  <2>4. /\ PostsAt(l, r) = r /\ PostsAt(at[t], left[t]) = 0
        /\ AddsAt(l, r) = 0 /\ AddsAt(at[t], left[t]) = left[t]
        /\ SleepsAt(l) = 0 /\ SleepsAt(at[t]) = 0
    BY <2>1, <2>2 DEF PostsAt, AddsAt, SleepsAt, Registered
  <2> HIDE DEF r, l
  <2>5. StepOf(t, l, 0, r)
    <3>1. Moves(t, l, 0, r)
      <4>1. m_count' \in Int /\ m_sema' \in Nat /\ inner' \in Nat
        BY <2>1, <2>2, <2>3, <2>4
      <4>2. /\ want' \in [Threads -> 0 .. MaxWant]
            /\ patience' \in [Threads -> {"try", "timed", "forever"}]
        BY <2>1, <2>2, <2>3, <2>4
      <4> QED
        BY <2>1, <2>2, <2>3, <2>4, <4>1, <4>2 DEF Moves
    <3>2. AddsUp(t, l, 0, r)
      BY <2>1, <2>2, <2>3, <2>4 DEF AddsUp
    <3> QED
      BY <3>1, <3>2 DEF StepOf
  <2> QED
    BY <2>2, <2>3, <2>5, StepAddsUp
<1>2. CASE Post(t)
  <2> DEFINE l == IF left[t] > 1 THEN "post" ELSE "idle"
  <2>1. /\ at[t] = "post" /\ m_sema' = m_sema + 1 /\ got[t] = 0 /\ left[t] > 0
        /\ left' = [left EXCEPT ![t] = left[t] - 1] /\ at' = [at EXCEPT ![t] = l]
        /\ UNCHANGED << m_count, want, patience, got >>
    BY <1>2 DEF Post, ThreadSound
  <2>2. left[t] - 1 \in 0 .. MaxWant /\ Below(m_count') = Below(m_count) /\ Below(m_count) \in Int
    BY <2>1 DEF Below
  <2>3. l \in Places /\ ThreadSound(l, want'[t], 0, left[t] - 1) /\ got' = [got EXCEPT ![t] = 0]
    BY <2>1 DEF Places, ThreadSound
  <2>4. /\ PostsAt(l, left[t] - 1) = left[t] - 1 /\ PostsAt(at[t], left[t]) = left[t]
        /\ AddsAt(l, left[t] - 1) = 0 /\ AddsAt(at[t], left[t]) = 0
        /\ SleepsAt(l) = 0 /\ SleepsAt(at[t]) = 0
    BY <2>1, <2>2 DEF PostsAt, AddsAt, SleepsAt, Registered
  <2> HIDE DEF l
  <2>5. StepOf(t, l, 0, left[t] - 1)
    <3>1. Moves(t, l, 0, left[t] - 1)
      <4>1. m_count' \in Int /\ m_sema' \in Nat /\ inner' \in Nat
        BY <2>1, <2>2, <2>3, <2>4
      <4>2. /\ want' \in [Threads -> 0 .. MaxWant]
            /\ patience' \in [Threads -> {"try", "timed", "forever"}]
        BY <2>1, <2>2, <2>3, <2>4
      <4> QED
        BY <2>1, <2>2, <2>3, <2>4, <4>1, <4>2 DEF Moves
    <3>2. AddsUp(t, l, 0, left[t] - 1)
      BY <2>1, <2>2, <2>3, <2>4 DEF AddsUp
    <3> QED
      BY <3>1, <3>2 DEF StepOf
  <2> QED
    BY <2>2, <2>3, <2>5, StepAddsUp
<1> QED
  BY <1>1, <1>2

LEMMA TakeInv ==
  ASSUME SInv, NEW t \in Threads, Take(t)
  PROVE  SInv'
<1> USE CallTypesOf
<1>1. /\ at[t] = "take" /\ got[t] > 0 /\ inner > 0 /\ inner' = inner - 1
      /\ got' = [got EXCEPT ![t] = got[t] - 1]
      /\ UNCHANGED << m_count, m_sema, at, want, patience, left >>
  BY DEF Take
<1>2. at' = [at EXCEPT ![t] = "take"] /\ left' = [left EXCEPT ![t] = left[t]]
  BY <1>1
<1>3. /\ PostsAt("take", left[t]) = 0 /\ PostsAt(at[t], left[t]) = 0
      /\ AddsAt("take", left[t]) = 0 /\ AddsAt(at[t], left[t]) = 0
      /\ SleepsAt("take") = 0 /\ SleepsAt(at[t]) = 0
  BY <1>1 DEF PostsAt, AddsAt, SleepsAt, Registered
<1>4. Below(m_count') = Below(m_count) /\ Below(m_count) \in Int
  BY <1>1 DEF Below
<1>5. ThreadSound("take", want'[t], got[t] - 1, left[t]) /\ got[t] - 1 \in 0 .. MaxWant
  BY <1>1 DEF ThreadSound
<1>6. StepOf(t, "take", got[t] - 1, left[t])
  <2>1. Moves(t, "take", got[t] - 1, left[t])
    <3>1. m_count' \in Int /\ m_sema' \in Nat /\ inner' \in Nat
      BY <1>1, <1>2, <1>3, <1>4, <1>5
    <3>2. /\ want' \in [Threads -> 0 .. MaxWant]
          /\ patience' \in [Threads -> {"try", "timed", "forever"}]
      BY <1>1, <1>2, <1>3, <1>4, <1>5
    <3> QED
      BY <1>1, <1>2, <1>3, <1>4, <1>5, <3>1, <3>2 DEF Moves
  <2>2. AddsUp(t, "take", got[t] - 1, left[t])
    BY <1>1, <1>2, <1>3, <1>4, <1>5 DEF AddsUp
  <2> QED
    BY <2>1, <2>2 DEF StepOf
<1> QED
  BY <1>5, <1>6, StepAddsUp DEF Places

LEMMA ReturnInv ==
  ASSUME SInv, NEW t \in Threads, Return(t)
  PROVE  SInv'
<1>1. /\ at[t] = "take" /\ got[t] = 0 /\ at' = [at EXCEPT ![t] = "idle"]
      /\ UNCHANGED << m_count, m_sema, want, patience, got, left, inner >>
  BY DEF Return
<1>2. ThreadSound("idle", want'[t], got[t], left[t])
  BY <1>1 DEF ThreadSound
<1> QED
  BY <1>1, <1>2, CallTypesOf, MoveInv DEF Places, Registered

----------------------------------------------------------------------------
(* The invariant of the semaphore and the queue.                           *)
THEOREM BlockingInvariance == BlockingSpec => []SInv
<1>1. BlockingInit => SInv
  <2> SUFFICES ASSUME BlockingInit PROVE SInv
    OBVIOUS
  <2>1. SemaphoreTypeOK /\ inner = 0 /\ m_count = 0 /\ m_sema = 0
        /\ \A t \in Threads : at[t] = "idle" /\ got[t] = 0
    BY SemaphoreAssumption DEF BlockingInit, SemaphoreInit, SemaphoreTypeOK
  <2>2. \A t \in Threads : ThreadSound(at[t], want[t], got[t], left[t])
    BY <2>1 DEF ThreadSound
  <2>3. Waiting = {} /\ Tokens(left, Posting) = {} /\ Tokens(left, Adding) = {}
        /\ Tokens(got, Threads) = {}
    BY <2>1 DEF Waiting, Registered, Tokens, Posting, Adding
  <2>4. Posts = 0 /\ Sleepers = 0 /\ Held = 0 /\ Adds = 0
    BY <2>3, FS_EmptySet DEF Posts, Sleepers, Held, Adds, SumOver
  <2> QED
    BY <2>1, <2>2, <2>4 DEF SInv, Below
<1>2. SInv /\ [BlockingNext]_blockingVars => SInv'
  <2> SUFFICES ASSUME SInv, [BlockingNext]_blockingVars PROVE SInv'
    OBVIOUS
  <2>1. CASE BlockingNext
    <3>1. ASSUME NEW t \in Threads, NEW n \in 1 .. MaxWant, enqueue(t, n) PROVE SInv'
      BY <3>1, EnqueueInv
    <3>2. ASSUME NEW t \in Threads, NEW max \in 1 .. MaxWant,
                 NEW p \in {"try", "timed", "forever"}, dequeue(t, max, p)
          PROVE  SInv'
      BY <3>2, DequeueInv
    <3>3. ASSUME NEW t \in Threads, Step(t) PROVE SInv'
      BY <3>3, WaitStepInv, SignalInv, TakeInv, ReturnInv DEF Step, SemaphoreStep
    <3> QED
      BY <2>1, <3>1, <3>2, <3>3 DEF BlockingNext
  <2>2. CASE UNCHANGED blockingVars
    BY <2>2 DEF blockingVars, semaVars, SInv, SemaphoreTypeOK, Posts, Sleepers, Held, Adds,
                SumOver, Tokens, Posting, Adding, Waiting
  <2> QED
    BY <2>1, <2>2
<1> QED
  BY <1>1, <1>2, PTL DEF BlockingSpec

(* The posts made and owed are exactly the waiting threads whose permits   *)
(* have been signaled (wait, timed wait and signal).                       *)
THEOREM WakeUps == BlockingSpec => []WakeUpsMatch
<1>1. SInv => WakeUpsMatch
  BY DEF SInv, WakeUpsMatch, Posts, Posting, Sleepers, Below
<1> QED
  BY <1>1, BlockingInvariance, PTL

(* Every permit has its element, so a dequeue finds as many elements as it *)
(* has permits.                                                            *)
THEOREM Permits == BlockingSpec => []PermitsBacked
<1>1. SInv => PermitsBacked
  <2> SUFFICES ASSUME SInv PROVE PermitsBacked
    OBVIOUS
  <2>1. Posts \in Nat /\ Adds \in Nat /\ Held \in Nat
    BY TokensFinite DEF Posts, Adds, Held, Posting, Adding
  <2>2. Sleepers \in Nat
    BY SemaphoreAssumption, FS_Subset, FS_CardinalityType DEF Waiting, Sleepers
  <2>3. /\ m_count \in Int /\ m_sema \in Nat
        /\ m_sema + Posts = Sleepers - Below(m_count)
        /\ inner = m_count + Sleepers + Held + Adds
    BY DEF SInv, SemaphoreTypeOK
  <2>4. Held <= inner
    BY <2>1, <2>2, <2>3 DEF Below
  <2> QED
    BY <2>3, <2>4 DEF PermitsBacked, Held, Adds, Adding, Sleepers
<1> QED
  BY <1>1, BlockingInvariance, PTL
=============================================================================
