-------------------------- MODULE PublisherProofs --------------------------
(***************************************************************************)
(* Proofs about MarketDataPublisher: what the listeners are told; and      *)
(* about Exchange: the order in which main takes the program down, and     *)
(* what is still under way at each of its steps.                           *)
(***************************************************************************)
EXTENDS Exchange, SequenceTheorems, TLAPS

(* How many batches of thread p have been taken out of the queue.          *)
Taken(p) == published[p] - Len(event_queue[p])

(* The queue of a thread holds its last batches, in order; that of the     *)
(* owner holds empty ones, and only once the worker is told to stop.       *)
QueuesOK ==
  /\ \A p \in Publishers :
       /\ Taken(p) \in Nat
       /\ \A k \in DOMAIN event_queue[p] : event_queue[p][k] = << p, Taken(p) + k >>
  /\ \A k \in DOMAIN event_queue[Owner] : event_queue[Owner][k] = Empty
  /\ event_queue[Owner] # <<>> \/ owner # "alive" => ~ running_

InLoop == thread \in {"notify", "invalid"}

(* The batch in hand is the last one taken out; the empty one is never     *)
(* passed on.                                                              *)
BatchOK ==
  /\ thread = "check" \/ InLoop =>
       \/ batch = Empty
       \/ \E p \in Publishers : batch = << p, Taken(p) >>
  /\ thread = "check" /\ batch = Empty => ~ running_
  /\ InLoop => batch # Empty

(* While the loop is under way the listeners up to next have been told of  *)
(* the batch in hand, and those that came after it began of nothing.       *)
LoopOK ==
  /\ Len(delivered) = listeners_.size
  /\ InLoop =>
       /\ iter.next \in 1 .. iter.end + 1 /\ iter.end <= listeners_.size
       /\ \A i \in DOMAIN delivered : i > iter.end => delivered[i] = <<>>
       /\ \A i \in 1 .. iter.next - 1 :
            delivered[i] # <<>> /\ delivered[i][Len(delivered[i])] = batch

(* The batch in hand is one of p that listener i has not been told of.     *)
Untold(i, p) ==
  /\ (thread = "check" /\ batch # Empty) \/ (InLoop /\ i >= iter.next)
  /\ batch[1] = p

(* The number of the last batch of p that listener i could have heard of.  *)
Expected(i, p) == IF Untold(i, p) THEN Taken(p) - 1 ELSE Taken(p)

(* Who has heard of a thread has heard of that batch.                      *)
HeardOK ==
  \A i \in DOMAIN delivered, p \in Publishers : \A k \in DOMAIN delivered[i] :
    delivered[i][k][1] = p =>
      \E m \in k .. Len(delivered[i]) : delivered[i][m] = << p, Expected(i, p) >>

(* s is the end of the first n elements of t.                              *)
EndsWith(s, t, n) ==
  /\ n \in 0 .. Len(t) /\ Len(s) <= n
  /\ \A k \in DOMAIN s : s[k] = t[n - Len(s) + k]

(* Only listener i has been told of the batch in hand.                     *)
Between(i, j) == InLoop /\ i < iter.next /\ j >= iter.next

FeedOK ==
  \A i, j \in DOMAIN delivered : i < j =>
    EndsWith(delivered[j], delivered[i],
             IF Between(i, j) THEN Len(delivered[i]) - 1 ELSE Len(delivered[i]))

PubInv ==
  /\ PublisherTypeOK /\ QueuesOK /\ BatchOK /\ LoopOK
  /\ HeardOK /\ FeedOK /\ InOrderOnce

-----------------------------------------------------------------------------
LEMMA SuffixEnds ==
  ASSUME NEW S, NEW s \in Seq(S), NEW t \in Seq(S)
  PROVE  /\ EndsWith(s, t, Len(t)) => IsSuffix(s, t)
         /\ t # <<>> /\ EndsWith(s, t, Len(t) - 1) => IsSuffix(s, Front(t))
<1>1. ASSUME NEW u \in Seq(S), Len(s) <= Len(u),
             \A k \in 1 .. Len(s) : s[k] = u[Len(u) - Len(s) + k]
      PROVE  IsSuffix(s, u)
  <2> DEFINE n == Len(s)
             m == Len(u)
             rs == Reverse(s)
             ru == Reverse(u)
  <2>1. n \in Nat /\ m \in Nat /\ n <= m
    BY <1>1, LenProperties
  <2>2. rs \in [1 .. n -> S] /\ ru \in [1 .. m -> S]
    <3>1. \A i \in 1 .. n : s[(n - i) + 1] \in S
      BY <2>1, ElementOfSeq
    <3>2. \A i \in 1 .. m : u[(m - i) + 1] \in S
      BY <2>1, ElementOfSeq
    <3> QED
      BY <3>1, <3>2 DEF Reverse
  <2>3. /\ rs \in Seq(S) /\ Len(rs) = n /\ ru \in Seq(S) /\ Len(ru) = m
    <3>1. rs \in Seq(S) /\ ru \in Seq(S)
      BY <2>1, <2>2, SeqDef
    <3> QED
      BY <2>1, <2>2, <3>1, LenProperties
  <2>4. \A i \in 1 .. n : rs[i] = ru[i]
    <3> SUFFICES ASSUME NEW i \in 1 .. n PROVE rs[i] = ru[i]
      OBVIOUS
    <3>1. rs[i] = s[(n - i) + 1] /\ ru[i] = u[(m - i) + 1]
      BY <2>1 DEF Reverse
    <3>2. (n - i) + 1 \in 1 .. n /\ m - n + ((n - i) + 1) = (m - i) + 1
      BY <2>1
    <3>3. s[(n - i) + 1] = u[m - n + ((n - i) + 1)]
      BY <1>1, <3>2
    <3> QED
      BY <3>1, <3>2, <3>3
  <2> HIDE DEF rs, ru, n, m
  <2>5. ASSUME NEW q \in Seq(S), n <= Len(q)
        PROVE  /\ SubSeq(q, 1, n) \in Seq(S) /\ Len(SubSeq(q, 1, n)) = n
               /\ \A i \in 1 .. n : SubSeq(q, 1, n)[i] = q[i]
    <3>1. \A i \in 1 .. n : q[i] \in S
      BY <2>1, <2>5, ElementOfSeq, LenProperties
    <3> QED
      BY <2>1, <3>1, SubSeqProperties
  <2>6. SubSeq(rs, 1, n) = SubSeq(ru, 1, n)
    <3>1. \A i \in 1 .. n : SubSeq(rs, 1, n)[i] = SubSeq(ru, 1, n)[i]
      BY <2>1, <2>3, <2>4, <2>5
    <3> QED
      BY <2>1, <2>3, <2>5, <3>1, SeqEqual
  <2> QED
    BY <2>1, <2>3, <2>6 DEF IsSuffix, IsPrefix, rs, ru
<1>2. EndsWith(s, t, Len(t)) => IsSuffix(s, t)
  BY <1>1, LenProperties DEF EndsWith
<1>3. ASSUME t # <<>>, EndsWith(s, t, Len(t) - 1)
      PROVE  IsSuffix(s, Front(t))
  <2> DEFINE n == Len(t) - 1
  <2>1. n \in Nat /\ 1 \in Int /\ n \in Int
    BY <1>3, EmptySeq
  <2>2. \A i \in 1 .. n : t[i] \in S
    BY <2>1, LenProperties, ElementOfSeq
  <2>3. /\ Len(s) \in Nat /\ DOMAIN s = 1 .. Len(s) /\ Len(s) <= n
        /\ \A k \in 1 .. Len(s) : s[k] = t[n - Len(s) + k]
    BY <1>3, LenProperties DEF EndsWith
  <2>4. Front(t) = SubSeq(t, 1, n)
    BY DEF Front
  <2> HIDE DEF n
  <2>5. /\ SubSeq(t, 1, n) \in Seq(S) /\ Len(SubSeq(t, 1, n)) = n
        /\ \A i \in 1 .. n : SubSeq(t, 1, n)[i] = t[i]
    BY <2>1, <2>2, SubSeqProperties
  <2>6. ASSUME NEW k \in 1 .. Len(s)
        PROVE  s[k] = Front(t)[n - Len(s) + k]
    <3>1. n - Len(s) + k \in 1 .. n
      BY <2>1, <2>3
    <3> QED
      BY <2>3, <2>4, <2>5, <3>1
  <2> QED
    BY <1>1, <2>3, <2>4, <2>5, <2>6
<1> QED
  BY <1>2, <1>3

LEMMA EndsGrow ==
  ASSUME NEW S, NEW s \in Seq(S), NEW t \in Seq(S), NEW b \in S
  PROVE  /\ EndsWith(<<>>, t, Len(t))
         /\ t # <<>> => EndsWith(<<>>, t, Len(t) - 1)
         /\ EndsWith(s, t, Len(t)) => EndsWith(s, Append(t, b), Len(Append(t, b)) - 1)
         /\ t # <<>> /\ t[Len(t)] = b /\ EndsWith(s, t, Len(t) - 1) =>
              EndsWith(Append(s, b), t, Len(t))
<1>1. /\ Len(s) \in Nat /\ Len(t) \in Nat /\ DOMAIN s = 1 .. Len(s)
      /\ t # <<>> => Len(t) >= 1
  BY LenProperties, EmptySeq
<1>2. Len(<<>>) = 0 /\ DOMAIN <<>> = {}
  BY EmptySeq, LenProperties
<1>3. /\ Len(Append(t, b)) = Len(t) + 1 /\ Len(Append(s, b)) = Len(s) + 1
      /\ \A k \in 1 .. Len(t) : Append(t, b)[k] = t[k]
      /\ \A k \in 1 .. Len(s) : Append(s, b)[k] = s[k]
      /\ Append(s, b)[Len(s) + 1] = b
      /\ DOMAIN Append(s, b) = 1 .. Len(s) + 1
  BY AppendProperties, LenProperties
<1>4. EndsWith(<<>>, t, Len(t)) /\ (t # <<>> => EndsWith(<<>>, t, Len(t) - 1))
  BY <1>1, <1>2 DEF EndsWith
<1>5. ASSUME EndsWith(s, t, Len(t))
      PROVE  EndsWith(s, Append(t, b), Len(Append(t, b)) - 1)
  BY <1>1, <1>3, <1>5 DEF EndsWith
<1>6. ASSUME t # <<>>, t[Len(t)] = b, EndsWith(s, t, Len(t) - 1)
      PROVE  EndsWith(Append(s, b), t, Len(t))
  <2>1. /\ Len(s) <= Len(t) - 1
        /\ \A k \in 1 .. Len(s) : s[k] = t[Len(t) - 1 - Len(s) + k]
    BY <1>1, <1>6 DEF EndsWith
  <2>2. ASSUME NEW k \in 1 .. Len(s) + 1
        PROVE  Append(s, b)[k] = t[Len(t) - (Len(s) + 1) + k]
    <3>1. CASE k = Len(s) + 1
      <4>1. Len(t) - (Len(s) + 1) + k = Len(t)
        BY <1>1, <3>1
      <4> QED
        BY <1>3, <1>6, <3>1, <4>1
    <3>2. CASE k \in 1 .. Len(s)
      <4>1. Len(t) - (Len(s) + 1) + k = Len(t) - 1 - Len(s) + k
        BY <1>1, <3>2
      <4> QED
        BY <1>3, <2>1, <3>2, <4>1
    <3> QED
      BY <1>1, <3>1, <3>2
  <2> QED
    BY <1>1, <1>3, <2>1, <2>2 DEF EndsWith
<1> QED
  BY <1>4, <1>5, <1>6
-----------------------------------------------------------------------------
(* What the invariant says of the types of the queues and the calls.       *)
LEMMA QueueTypes ==
  ASSUME PublisherTypeOK
  PROVE  /\ Owner \in Producers /\ Owner \notin Publishers
         /\ Publishers \subseteq Producers
         /\ \A t \in Producers :
              /\ event_queue[t] \in Seq(Batches) /\ Len(event_queue[t]) \in Nat
              /\ DOMAIN event_queue[t] = 1 .. Len(event_queue[t])
         /\ \A p \in Publishers : published[p] \in Nat /\ Taken(p) \in Int
         /\ Len(delivered) \in Nat /\ DOMAIN delivered = 1 .. Len(delivered)
         /\ \A i \in DOMAIN delivered :
              /\ delivered[i] \in Seq(Batches) /\ Len(delivered[i]) \in Nat
              /\ DOMAIN delivered[i] = 1 .. Len(delivered[i])
<1>1. /\ Owner \in Producers /\ Owner \notin Publishers
      /\ Publishers \subseteq Producers
  BY PublisherAssumption DEF Producers
<1>2. ASSUME NEW t \in Producers
      PROVE  /\ event_queue[t] \in Seq(Batches) /\ Len(event_queue[t]) \in Nat
             /\ DOMAIN event_queue[t] = 1 .. Len(event_queue[t])
  <2>1. event_queue[t] \in Seq(Batches)
    BY DEF PublisherTypeOK
  <2> QED
    BY <2>1, LenProperties
<1>3. Len(delivered) \in Nat /\ DOMAIN delivered = 1 .. Len(delivered)
  BY LenProperties DEF PublisherTypeOK
<1>4. ASSUME NEW i \in DOMAIN delivered
      PROVE  /\ delivered[i] \in Seq(Batches) /\ Len(delivered[i]) \in Nat
             /\ DOMAIN delivered[i] = 1 .. Len(delivered[i])
  <2>1. delivered[i] \in Seq(Batches)
    BY <1>3, ElementOfSeq DEF PublisherTypeOK
  <2> QED
    BY <2>1, LenProperties
<1>5. \A p \in Publishers : published[p] \in Nat /\ Taken(p) \in Int
  BY <1>1, <1>2 DEF PublisherTypeOK, Taken
<1> QED
  BY <1>1, <1>2, <1>3, <1>4, <1>5

(* Steps that call no listener.                                            *)
LEMMA CallsSame ==
  ASSUME PubInv, delivered' = delivered,
         \A i \in DOMAIN delivered, p \in Publishers :
           delivered[i] = <<>> \/ Expected(i, p)' = Expected(i, p),
         \A i, j \in DOMAIN delivered : i < j =>
           (delivered[j] = <<>> /\ ~ Between(i, j)') \/ Between(i, j)' = Between(i, j)
  PROVE  HeardOK' /\ FeedOK' /\ InOrderOnce'
<1>1. HeardOK'
  <2>1. DOMAIN <<>> = {}
    BY EmptySeq, LenProperties
  <2>2. ASSUME NEW i \in DOMAIN delivered, NEW p \in Publishers,
               NEW k \in DOMAIN delivered[i], delivered[i][k][1] = p
        PROVE  \E m \in k .. Len(delivered[i]) :
                 delivered[i][m] = << p, Expected(i, p)' >>
    <3>1. delivered[i] # <<>>
      BY <2>1
    <3>2. Expected(i, p)' = Expected(i, p)
      BY <3>1
    <3>3. \E m \in k .. Len(delivered[i]) : delivered[i][m] = << p, Expected(i, p) >>
      BY <2>2 DEF PubInv, HeardOK
    <3> QED
      BY <3>2, <3>3
  <2> QED
    BY <2>2 DEF HeardOK
<1>2. FeedOK'
  <2> SUFFICES ASSUME NEW i \in DOMAIN delivered, NEW j \in DOMAIN delivered, i < j
               PROVE  EndsWith(delivered[j], delivered[i],
                               IF Between(i, j)' THEN Len(delivered[i]) - 1
                               ELSE Len(delivered[i]))
    BY DEF FeedOK, EndsWith
  <2>1. EndsWith(<<>>, delivered[i], Len(delivered[i]))
    <3>1. PublisherTypeOK
      BY DEF PubInv
    <3>2. delivered[i] \in Seq(Batches) /\ Empty \in Batches /\ <<>> \in Seq(Batches)
      BY <3>1, QueueTypes, EmptySeq DEF Batches
    <3> QED
      BY <3>2, EndsGrow
  <2> QED
    BY <2>1 DEF PubInv, FeedOK
<1>3. InOrderOnce'
  BY DEF PubInv, InOrderOnce
<1> QED
  BY <1>1, <1>2, <1>3

LEMMA PublisherInitially ==
  ASSUME PublisherInit
  PROVE  PubInv
<1>1. <<>> \in Seq(Batches) /\ <<>> \in Seq(Seq(Batches)) /\ Len(<<>>) = 0
      /\ DOMAIN <<>> = {}
  BY EmptySeq, LenProperties
<1>2. PublisherTypeOK
  BY <1>1 DEF PublisherInit, PublisherTypeOK, NoIter, Batches
<1>3. QueuesOK
  BY <1>1, PublisherAssumption DEF PublisherInit, QueuesOK, Taken, Producers
<1>4. BatchOK /\ LoopOK
  BY <1>1 DEF PublisherInit, BatchOK, LoopOK, InLoop
<1>5. HeardOK /\ FeedOK /\ InOrderOnce
  BY <1>1 DEF PublisherInit, HeardOK, FeedOK, InOrderOnce
<1> QED
  BY <1>2, <1>3, <1>4, <1>5 DEF PubInv

LEMMA PublishStep ==
  ASSUME PubInv, NEW p \in Publishers, publish(p)
  PROVE  PubInv'
<1> DEFINE b == << p, published[p] + 1 >>
<1>1. PublisherTypeOK /\ QueuesOK /\ BatchOK /\ LoopOK
  BY DEF PubInv
<1>2. /\ p \in Producers /\ p # Owner
      /\ event_queue[p] \in Seq(Batches) /\ Len(event_queue[p]) \in Nat
      /\ published[p] \in Nat
  BY <1>1, QueueTypes
<1>3. /\ published' = [published EXCEPT ![p] = @ + 1]
      /\ published' \in [Publishers -> Nat] /\ published'[p] = published[p] + 1
      /\ \A q \in Publishers : q # p => published'[q] = published[q]
  BY <1>1, <1>2 DEF publish, PublisherTypeOK
<1>4. b \in Batches
  BY <1>2, PublisherAssumption DEF publish, Batches
<1>5. /\ event_queue' \in [Producers -> Seq(Batches)]
      /\ event_queue'[p] = Append(event_queue[p], b)
      /\ \A t \in Producers : t # p => event_queue'[t] = event_queue[t]
  <2> HIDE DEF b
  <2>1. event_queue' = [event_queue EXCEPT ![p] = Append(@, b)]
    BY <1>3 DEF publish, b
  <2>2. Append(event_queue[p], b) \in Seq(Batches)
    BY <1>2, <1>4, AppendProperties
  <2> QED
    BY <1>1, <1>2, <2>1, <2>2 DEF PublisherTypeOK
<1>6. PublisherTypeOK'
  BY <1>1, <1>3, <1>5 DEF PublisherTypeOK, publish
<1>7. /\ Len(event_queue'[p]) = Len(event_queue[p]) + 1
      /\ DOMAIN event_queue'[p] = 1 .. Len(event_queue[p]) + 1
      /\ \A k \in 1 .. Len(event_queue[p]) : event_queue'[p][k] = event_queue[p][k]
      /\ event_queue'[p][Len(event_queue[p]) + 1] = b
  <2> HIDE DEF b
  <2> QED
    BY <1>2, <1>4, <1>5, AppendProperties, LenProperties
<1>8. \A q \in Publishers : Taken(q)' = Taken(q)
  <2>1. Taken(p)' = Taken(p)
    BY <1>2, <1>3, <1>7 DEF Taken
  <2>2. ASSUME NEW q \in Publishers, q # p PROVE Taken(q)' = Taken(q)
    BY <1>1, <1>3, <1>5, <2>2, QueueTypes DEF Taken
  <2> QED
    BY <2>1, <2>2
<1>9. QueuesOK'
  <2>1. ASSUME NEW q \in Publishers
        PROVE  /\ Taken(q)' \in Nat
               /\ \A k \in DOMAIN event_queue'[q] :
                    event_queue'[q][k] = << q, Taken(q) + k >>
    <3>1. CASE q # p
      BY <1>1, <1>5, <1>8, <3>1, QueueTypes DEF QueuesOK
    <3>2. CASE q = p
      <4>1. Taken(p) + (Len(event_queue[p]) + 1) = published[p] + 1
        BY <1>2 DEF Taken
      <4>2. DOMAIN event_queue[p] = 1 .. Len(event_queue[p])
        BY <1>1, <1>2, QueueTypes
      <4>3. \A k \in 1 .. Len(event_queue[p]) : event_queue'[p][k] = << p, Taken(p) + k >>
        BY <1>1, <1>7, <4>2 DEF QueuesOK
      <4>4. event_queue'[p][Len(event_queue[p]) + 1] = << p, Taken(p) + (Len(event_queue[p]) + 1) >>
        BY <1>7, <4>1
      <4>5. \A k \in 1 .. Len(event_queue[p]) + 1 :
              k \in 1 .. Len(event_queue[p]) \/ k = Len(event_queue[p]) + 1
        BY <1>2
      <4>6. Taken(p)' \in Nat
        BY <1>1, <1>8 DEF QueuesOK
      <4> QED
        BY <1>7, <3>2, <4>3, <4>4, <4>5, <4>6
    <3> QED
      BY <3>1, <3>2
  <2>2. \A q \in Publishers :
          /\ Taken(q)' \in Nat
          /\ \A k \in DOMAIN event_queue'[q] :
               event_queue'[q][k] = << q, Taken(q)' + k >>
    BY <1>8, <2>1
  <2>3. event_queue'[Owner] = event_queue[Owner] /\ UNCHANGED << running_, owner >>
    BY <1>1, <1>2, <1>5, QueueTypes DEF publish
  <2> QED
    BY <1>1, <2>2, <2>3 DEF QueuesOK
<1>10. BatchOK' /\ LoopOK'
  BY <1>1, <1>8 DEF publish, BatchOK, LoopOK, InLoop
<1>11. HeardOK' /\ FeedOK' /\ InOrderOnce'
  BY <1>8, CallsSame DEF publish, Expected, Untold, Between, InLoop
<1> QED
  BY <1>6, <1>9, <1>10, <1>11 DEF PubInv

LEMMA SubscribeStep ==
  ASSUME PubInv, subscribe
  PROVE  PubInv'
<1> DEFINE n == Len(delivered) + 1
<1>1. PublisherTypeOK /\ QueuesOK /\ BatchOK /\ LoopOK /\ HeardOK /\ FeedOK /\ InOrderOnce
  BY DEF PubInv
<1>2. /\ UNCHANGED << running_, event_queue, thread, batch, iter, owner, published >>
      /\ delivered' = Append(delivered, <<>>)
      /\ listeners_'.size = listeners_.size + 1
  BY DEF subscribe
<1>3. /\ <<>> \in Seq(Batches) /\ Len(<<>>) = 0 /\ DOMAIN <<>> = {}
      /\ Empty \in Batches
  BY EmptySeq, LenProperties DEF Batches
<1>4. /\ delivered \in Seq(Seq(Batches)) /\ Len(delivered) \in Nat
      /\ DOMAIN delivered = 1 .. Len(delivered)
      /\ listeners_ \in [size : Nat, capacity : Nat, buffer : Nat]
      /\ listeners_.size <= listeners_.capacity
      /\ Len(delivered) = listeners_.size
  BY <1>1, QueueTypes DEF PublisherTypeOK, LoopOK
<1>5. /\ delivered' \in Seq(Seq(Batches)) /\ Len(delivered') = n
      /\ DOMAIN delivered' = 1 .. n
      /\ \A i \in 1 .. Len(delivered) : delivered'[i] = delivered[i]
      /\ delivered'[n] = <<>>
  BY <1>2, <1>3, <1>4, AppendProperties, LenProperties
<1>6. \A i \in DOMAIN delivered' : i \in DOMAIN delivered \/ i = n
  BY <1>4, <1>5
<1>7. PublisherTypeOK'
  <2>1. /\ listeners_' \in [size : Nat, capacity : Nat, buffer : Nat]
        /\ listeners_'.size <= listeners_'.capacity
    BY <1>4 DEF subscribe, Grown
  <2> QED
    BY <1>1, <1>2, <1>5, <2>1 DEF PublisherTypeOK
<1>8. \A p \in Publishers : Taken(p)' = Taken(p)
  BY <1>2 DEF Taken
<1>9. QueuesOK' /\ BatchOK'
  BY <1>1, <1>2, <1>8 DEF QueuesOK, BatchOK, InLoop, Taken
<1>10. LoopOK'
  <2>1. Len(delivered') = listeners_'.size
    BY <1>2, <1>4, <1>5
  <2>2. ASSUME InLoop
        PROVE  /\ iter.next \in 1 .. iter.end + 1 /\ iter.end <= listeners_'.size
               /\ \A i \in DOMAIN delivered' : i > iter.end => delivered'[i] = <<>>
               /\ \A i \in 1 .. iter.next - 1 :
                    delivered'[i] # <<>> /\ delivered'[i][Len(delivered'[i])] = batch
    <3>1. /\ iter.next \in 1 .. iter.end + 1 /\ iter.end <= listeners_.size
          /\ \A i \in DOMAIN delivered : i > iter.end => delivered[i] = <<>>
          /\ \A i \in 1 .. iter.next - 1 :
               delivered[i] # <<>> /\ delivered[i][Len(delivered[i])] = batch
      BY <1>1, <2>2 DEF LoopOK
    <3>2. iter.next \in Nat /\ iter.end \in Nat
      BY <1>1 DEF PublisherTypeOK
    <3>3. \A i \in 1 .. iter.next - 1 : i \in 1 .. Len(delivered)
      BY <1>4, <3>1, <3>2
    <3>4. \A i \in 1 .. iter.next - 1 :
            delivered'[i] # <<>> /\ delivered'[i][Len(delivered'[i])] = batch
      BY <1>5, <3>1, <3>3
    <3>5. \A i \in DOMAIN delivered' : i > iter.end => delivered'[i] = <<>>
      BY <1>4, <1>5, <1>6, <3>1
    <3>6. iter.end <= listeners_'.size
      BY <1>2, <1>4, <3>1, <3>2
    <3> QED
      BY <3>1, <3>4, <3>5, <3>6
  <2> QED
    BY <1>2, <2>1, <2>2 DEF LoopOK, InLoop
<1>11. \A i, p : Expected(i, p)' = Expected(i, p)
  BY <1>2 DEF Expected, Untold, InLoop, Taken
<1>12. HeardOK'
  <2>1. ASSUME NEW i \in DOMAIN delivered', NEW p \in Publishers,
               NEW k \in DOMAIN delivered'[i], delivered'[i][k][1] = p
        PROVE  \E m \in k .. Len(delivered'[i]) :
                 delivered'[i][m] = << p, Expected(i, p) >>
    <3>1. i \in DOMAIN delivered /\ delivered'[i] = delivered[i]
      BY <1>3, <1>4, <1>5, <1>6
    <3>2. k \in DOMAIN delivered[i] /\ delivered[i][k][1] = p
      BY <2>1, <3>1
    <3>3. HeardOK
      BY <1>1
    <3>4. \E m \in k .. Len(delivered[i]) : delivered[i][m] = << p, Expected(i, p) >>
      BY <3>1, <3>2, <3>3 DEF HeardOK
    <3> QED
      BY <3>1, <3>4
  <2> QED
    BY <1>11, <2>1 DEF HeardOK
<1>13. FeedOK'
  <2>1. ASSUME NEW i \in DOMAIN delivered', NEW j \in DOMAIN delivered', i < j
        PROVE  EndsWith(delivered'[j], delivered'[i],
                        IF Between(i, j) THEN Len(delivered'[i]) - 1 ELSE Len(delivered'[i]))
    <3>1. i \in DOMAIN delivered /\ delivered'[i] = delivered[i]
      BY <1>4, <1>5, <1>6, <2>1
    <3>2. CASE j \in DOMAIN delivered
      <4>1. delivered'[j] = delivered[j]
        BY <1>4, <1>5, <3>2
      <4> QED
        BY <1>1, <2>1, <3>1, <3>2, <4>1 DEF FeedOK
    <3>3. CASE j = n
      <4>1. delivered'[j] = <<>>
        BY <1>5, <3>3
      <4>2. delivered[i] \in Seq(Batches)
        BY <1>1, <3>1, QueueTypes
      <4>3. Between(i, j) => delivered[i] # <<>>
        BY <1>1, <1>4, <3>1 DEF Between, LoopOK, PublisherTypeOK
      <4>4. /\ EndsWith(<<>>, delivered[i], Len(delivered[i]))
            /\ delivered[i] # <<>> => EndsWith(<<>>, delivered[i], Len(delivered[i]) - 1)
        BY <1>3, <4>2, EndsGrow
      <4> QED
        BY <3>1, <4>1, <4>3, <4>4
    <3> QED
      BY <1>6, <3>2, <3>3
  <2>2. \A i, j : Between(i, j)' = Between(i, j)
    BY <1>2 DEF Between, InLoop
  <2> QED
    BY <2>1, <2>2 DEF FeedOK, EndsWith
<1>14. InOrderOnce'
  <2>1. InOrderOnce
    BY <1>1
  <2>2. \A i \in DOMAIN delivered' :
          delivered'[i] = <<>> \/ (i \in DOMAIN delivered /\ delivered'[i] = delivered[i])
    BY <1>4, <1>5, <1>6
  <2>3. InOrder(<<>>)
    BY <1>3 DEF InOrder
  <2> QED
    BY <2>1, <2>2, <2>3 DEF InOrderOnce
<1> QED
  BY <1>7, <1>9, <1>10, <1>12, <1>13, <1>14 DEF PubInv

\* The steps of the destructor and those of the worker that change no more than
\* where it is.
LEMMA DestructorStep ==
  ASSUME PubInv, Destructor
  PROVE  PubInv'
<1>1. PublisherTypeOK /\ QueuesOK /\ BatchOK /\ LoopOK
  BY DEF PubInv
<1>2. UNCHANGED << listeners_, thread, batch, iter, published, delivered >>
  BY DEF Destructor, ClearRunning, EnqueueEmpty, Join
<1>3. CASE ClearRunning \/ Join
  <2>1. /\ UNCHANGED event_queue
        /\ owner' \in {"alive", "waking", "joining", "destroyed"}
    BY <1>3 DEF ClearRunning, Join
  <2>2. running_' = FALSE
    <3>1. ASSUME ClearRunning PROVE running_' = FALSE
      BY <3>1 DEF ClearRunning
    <3>2. ASSUME Join PROVE running_' = FALSE
      <4>1. running_ \in BOOLEAN /\ ~ running_
        BY <1>1, <3>2 DEF Join, PublisherTypeOK, QueuesOK
      <4>2. running_' = running_
        BY <3>2 DEF Join
      <4> QED
        BY <4>1, <4>2
    <3> QED
      BY <1>3, <3>1, <3>2
  <2>3. PublisherTypeOK'
    BY <1>1, <1>2, <2>1, <2>2 DEF PublisherTypeOK
  <2>4. QueuesOK' /\ BatchOK' /\ LoopOK'
    BY <1>1, <1>2, <2>1, <2>2 DEF QueuesOK, BatchOK, LoopOK, InLoop, Taken
  <2>5. HeardOK' /\ FeedOK' /\ InOrderOnce'
    BY <1>2, <2>1, CallsSame DEF Expected, Untold, Between, InLoop, Taken
  <2> QED
    BY <2>3, <2>4, <2>5 DEF PubInv
<1>4. CASE EnqueueEmpty
  <2>1. /\ event_queue[Owner] \in Seq(Batches) /\ Empty \in Batches
        /\ Owner \in Producers /\ Owner \notin Publishers /\ Publishers \subseteq Producers
    BY <1>1, QueueTypes DEF Batches
  <2>2. /\ event_queue' = [event_queue EXCEPT ![Owner] = Append(@, Empty)]
        /\ UNCHANGED running_ /\ owner' = "joining" /\ ~ running_
    BY <1>1, <1>4 DEF EnqueueEmpty, QueuesOK
  <2>3. Append(event_queue[Owner], Empty) \in Seq(Batches)
    BY <2>1, AppendProperties
  <2>4. /\ event_queue' \in [Producers -> Seq(Batches)]
        /\ event_queue'[Owner] = Append(event_queue[Owner], Empty)
        /\ \A p \in Publishers : event_queue'[p] = event_queue[p]
    BY <1>1, <2>1, <2>2, <2>3 DEF PublisherTypeOK
  <2>5. PublisherTypeOK'
    BY <1>1, <1>2, <2>2, <2>4 DEF PublisherTypeOK
  <2>6. \A p \in Publishers : Taken(p)' = Taken(p)
    BY <1>2, <2>4 DEF Taken
  <2>7. \A k \in DOMAIN event_queue'[Owner] : event_queue'[Owner][k] = Empty
    <3>1. DOMAIN event_queue[Owner] = 1 .. Len(event_queue[Owner])
      BY <1>1, <2>1, QueueTypes
    <3>2. \A k \in 1 .. Len(event_queue[Owner]) : event_queue[Owner][k] = Empty
      BY <1>1, <3>1 DEF QueuesOK
    <3> QED
      BY <2>1, <2>3, <2>4, <3>2, AppendProperties, LenProperties
  <2>8. QueuesOK'
    BY <1>1, <2>2, <2>4, <2>6, <2>7 DEF QueuesOK
  <2>9. BatchOK' /\ LoopOK'
    BY <1>1, <1>2, <2>2, <2>6 DEF BatchOK, LoopOK, InLoop
  <2>10. HeardOK' /\ FeedOK' /\ InOrderOnce'
    BY <1>2, <2>6, CallsSame DEF Expected, Untold, Between, InLoop
  <2> QED
    BY <2>5, <2>8, <2>9, <2>10 DEF PubInv
<1> QED
  BY <1>3, <1>4 DEF Destructor

LEMMA ConditionStep ==
  ASSUME PubInv, LoopCondition \/ ReadFreed
  PROVE  PubInv'
<1>1. PublisherTypeOK /\ QueuesOK /\ BatchOK /\ LoopOK
  BY DEF PubInv
<1>2. /\ UNCHANGED << running_, event_queue, listeners_, batch, iter, owner, published,
                      delivered >>
      /\ \/ thread = "top" /\ thread' \in {"wait", "ended"}
         \/ thread = "notify" /\ thread' = "invalid"
  BY DEF LoopCondition, ReadFreed
<1>3. InLoop' = InLoop /\ thread # "check" /\ thread' # "check"
  BY <1>2 DEF InLoop
<1>4. PublisherTypeOK'
  BY <1>1, <1>2 DEF PublisherTypeOK
<1>5. QueuesOK' /\ BatchOK' /\ LoopOK'
  BY <1>1, <1>2, <1>3 DEF QueuesOK, BatchOK, LoopOK, Taken
<1>6. HeardOK' /\ FeedOK' /\ InOrderOnce'
  BY <1>2, <1>3, CallsSame DEF Expected, Untold, Between, Taken
<1> QED
  BY <1>4, <1>5, <1>6 DEF PubInv

LEMMA CheckStep ==
  ASSUME PubInv, CheckStop
  PROVE  PubInv'
<1>1. PublisherTypeOK /\ QueuesOK /\ BatchOK /\ LoopOK
  BY DEF PubInv
<1>2. /\ UNCHANGED << running_, event_queue, listeners_, batch, owner, published,
                      delivered >>
      /\ thread = "check" /\ ~ InLoop
  BY DEF CheckStop, InLoop
<1>3. \A p \in Publishers : Taken(p)' = Taken(p)
  BY <1>2 DEF Taken
<1>4. QueuesOK'
  BY <1>1, <1>2 DEF QueuesOK, Taken
<1>5. CASE ~ running_ /\ batch = Empty
  <2>1. thread' = "ended" /\ UNCHANGED iter /\ ~ InLoop'
    BY <1>5 DEF CheckStop, InLoop
  <2>2. PublisherTypeOK'
    BY <1>1, <1>2, <2>1 DEF PublisherTypeOK
  <2>3. BatchOK' /\ LoopOK'
    BY <1>1, <1>2, <2>1 DEF BatchOK, LoopOK
  <2>4. HeardOK' /\ FeedOK' /\ InOrderOnce'
    BY <1>2, <1>3, <1>5, <2>1, CallsSame DEF Expected, Untold, Between
  <2> QED
    BY <1>4, <2>2, <2>3, <2>4 DEF PubInv
<1>6. CASE ~ (~ running_ /\ batch = Empty)
  <2>1. /\ thread' = "notify" /\ InLoop' /\ batch # Empty
        /\ iter' = [ next |-> 1, end |-> listeners_.size, buffer |-> listeners_.buffer ]
    BY <1>1, <1>2, <1>6 DEF CheckStop, InLoop, BatchOK
  <2>2. /\ iter'.next = 1 /\ iter'.end = listeners_.size /\ listeners_.size \in Nat
        /\ Len(delivered) = listeners_.size /\ DOMAIN delivered = 1 .. listeners_.size
    BY <1>1, <2>1, QueueTypes DEF PublisherTypeOK, LoopOK
  <2>3. PublisherTypeOK'
    BY <1>1, <1>2, <2>1 DEF PublisherTypeOK
  <2>4. BatchOK' /\ LoopOK'
    BY <1>1, <1>2, <1>3, <2>1, <2>2 DEF BatchOK, LoopOK
  <2>5. HeardOK' /\ FeedOK' /\ InOrderOnce'
    BY <1>2, <1>3, <2>1, <2>2, CallsSame DEF Expected, Untold, Between
  <2> QED
    BY <1>4, <2>3, <2>4, <2>5 DEF PubInv
<1> QED
  BY <1>5, <1>6

LEMMA DequeueStep ==
  ASSUME PubInv, wait_dequeue
  PROVE  PubInv'
<1>1. PublisherTypeOK /\ QueuesOK /\ BatchOK /\ LoopOK
  BY DEF PubInv
<1>2. /\ UNCHANGED << running_, listeners_, iter, owner, published, delivered >>
      /\ thread = "wait" /\ thread' = "check" /\ ~ InLoop /\ ~ InLoop'
  BY DEF wait_dequeue, InLoop
<1>3. PICK t \in Producers :
        /\ event_queue[t] # <<>>
        /\ batch' = Head(event_queue[t])
        /\ event_queue' = [event_queue EXCEPT ![t] = Tail(@)]
  BY DEF wait_dequeue
<1>4. /\ event_queue[t] \in Seq(Batches) /\ Len(event_queue[t]) \in Nat
      /\ DOMAIN event_queue[t] = 1 .. Len(event_queue[t])
      /\ Publishers \subseteq Producers /\ Owner \notin Publishers /\ Owner \in Producers
  BY <1>1, QueueTypes
<1>5. Len(event_queue[t]) >= 1 /\ 1 \in DOMAIN event_queue[t]
  BY <1>3, <1>4, EmptySeq
<1>6. /\ Tail(event_queue[t]) \in Seq(Batches)
      /\ Len(Tail(event_queue[t])) = Len(event_queue[t]) - 1
      /\ \A k \in 1 .. Len(event_queue[t]) - 1 : Tail(event_queue[t])[k] = event_queue[t][k + 1]
      /\ DOMAIN Tail(event_queue[t]) = 1 .. Len(event_queue[t]) - 1
      /\ batch' \in Batches /\ batch' = event_queue[t][1]
  <2>1. /\ Tail(event_queue[t]) \in Seq(Batches) /\ Head(event_queue[t]) \in Batches
        /\ Len(Tail(event_queue[t])) = Len(event_queue[t]) - 1
        /\ \A k \in 1 .. Len(event_queue[t]) - 1 :
             Tail(event_queue[t])[k] = event_queue[t][k + 1]
    BY <1>3, <1>4, HeadTailProperties
  <2>2. Head(event_queue[t]) = event_queue[t][1]
    OBVIOUS
  <2> QED
    BY <1>3, <2>1, <2>2, LenProperties
<1>7. /\ event_queue' \in [Producers -> Seq(Batches)]
      /\ event_queue'[t] = Tail(event_queue[t])
      /\ \A u \in Producers : u # t => event_queue'[u] = event_queue[u]
  BY <1>1, <1>3, <1>6 DEF PublisherTypeOK
<1>8. PublisherTypeOK'
  BY <1>1, <1>2, <1>6, <1>7 DEF PublisherTypeOK
<1>9. \A p \in Publishers : p # t => Taken(p)' = Taken(p)
  BY <1>2, <1>4, <1>7 DEF Taken
<1>10. CASE t = Owner
  <2>1. batch' = Empty /\ ~ running_
    BY <1>1, <1>3, <1>5, <1>6, <1>10 DEF QueuesOK
  <2>2. \A p \in Publishers : Taken(p)' = Taken(p) /\ event_queue'[p] = event_queue[p]
    BY <1>4, <1>7, <1>9, <1>10
  <2>3. \A k \in DOMAIN event_queue'[Owner] : event_queue'[Owner][k] = Empty
    <3>1. \A k \in 1 .. Len(event_queue[t]) - 1 : k + 1 \in DOMAIN event_queue[t]
      BY <1>4
    <3> QED
      BY <1>1, <1>6, <1>7, <1>10, <3>1 DEF QueuesOK
  <2>4. QueuesOK'
    BY <1>1, <1>2, <2>1, <2>2, <2>3 DEF QueuesOK
  <2>5. BatchOK' /\ LoopOK'
    BY <1>1, <1>2, <2>1 DEF BatchOK, LoopOK
  <2>6. HeardOK' /\ FeedOK' /\ InOrderOnce'
    BY <1>2, <2>1, <2>2, CallsSame DEF Expected, Untold, Between
  <2> QED
    BY <1>8, <2>4, <2>5, <2>6 DEF PubInv
<1>11. CASE t \in Publishers
  <2>1. Taken(t) \in Nat /\ published[t] \in Nat
    BY <1>1, <1>11, QueueTypes DEF QueuesOK
  <2>2. Taken(t)' = Taken(t) + 1
    BY <1>2, <1>4, <1>6, <1>7, <2>1 DEF Taken
  <2>3. batch' = << t, Taken(t)' >>
    BY <1>1, <1>5, <1>6, <1>11, <2>2 DEF QueuesOK
  <2>4. batch'[1] = t /\ batch' # Empty
    BY <1>11, <2>1, <2>2, <2>3, PublisherAssumption
  <2>5. \A k \in DOMAIN event_queue'[t] : event_queue'[t][k] = << t, Taken(t)' + k >>
    <3>1. ASSUME NEW k \in 1 .. Len(event_queue[t]) - 1
          PROVE  Tail(event_queue[t])[k] = << t, Taken(t)' + k >>
      <4>1. k + 1 \in DOMAIN event_queue[t] /\ Taken(t) + (k + 1) = Taken(t)' + k
        BY <1>4, <2>1, <2>2
      <4>2. event_queue[t][k + 1] = << t, Taken(t) + (k + 1) >>
        BY <1>1, <1>11, <4>1 DEF QueuesOK
      <4> QED
        BY <1>6, <4>1, <4>2
    <3> QED
      BY <1>6, <1>7, <3>1
  <2>6. QueuesOK'
    <3>1. ASSUME NEW p \in Publishers
          PROVE  /\ Taken(p)' \in Nat
                 /\ \A k \in DOMAIN event_queue'[p] : event_queue'[p][k] = << p, Taken(p)' + k >>
      <4>1. CASE p = t
        BY <2>1, <2>2, <2>5, <4>1
      <4>2. CASE p # t
        <5>1. event_queue'[p] = event_queue[p] /\ Taken(p)' = Taken(p)
          BY <1>4, <1>7, <1>9, <4>2
        <5> QED
          BY <1>1, <5>1 DEF QueuesOK
      <4> QED
        BY <4>1, <4>2
    <3>2. event_queue'[Owner] = event_queue[Owner]
      BY <1>4, <1>7, <1>11
    <3> QED
      BY <1>1, <1>2, <3>1, <3>2 DEF QueuesOK
  <2>7. BatchOK' /\ LoopOK'
    BY <1>1, <1>2, <1>11, <2>3, <2>4 DEF BatchOK, LoopOK
  <2>8. ASSUME NEW i \in DOMAIN delivered, NEW p \in Publishers
        PROVE  Expected(i, p)' = Expected(i, p)
    <3>1. Expected(i, p) = Taken(p)
      BY <1>2 DEF Expected, Untold
    <3>2. CASE p = t
      <4>1. Expected(i, p)' = Taken(p)' - 1
        BY <1>2, <2>4, <3>2 DEF Expected, Untold
      <4> QED
        BY <2>1, <2>2, <3>1, <3>2, <4>1
    <3>3. CASE p # t
      <4>1. Expected(i, p)' = Taken(p)'
        BY <1>2, <2>4, <3>3 DEF Expected, Untold
      <4> QED
        BY <1>9, <3>1, <3>3, <4>1
    <3> QED
      BY <3>2, <3>3
  <2>9. HeardOK' /\ FeedOK' /\ InOrderOnce'
    BY <1>2, <2>8, CallsSame DEF Between
  <2> QED
    BY <1>8, <2>6, <2>7, <2>9 DEF PubInv
<1> QED
  BY <1>10, <1>11 DEF Producers

LEMMA ClearStep ==
  ASSUME PubInv, Clear
  PROVE  PubInv'
<1>1. PublisherTypeOK /\ QueuesOK /\ BatchOK /\ LoopOK
  BY DEF PubInv
<1>2. /\ UNCHANGED << running_, event_queue, listeners_, owner, published, delivered >>
      /\ thread = "notify" /\ thread' = "top" /\ InLoop /\ ~ InLoop'
      /\ iter.next > iter.end /\ batch' = Empty /\ iter' = NoIter
  BY DEF Clear, InLoop
<1>3. PublisherTypeOK'
  BY <1>1, <1>2 DEF PublisherTypeOK, Batches, NoIter
<1>4. QueuesOK' /\ BatchOK' /\ LoopOK'
  BY <1>1, <1>2 DEF QueuesOK, BatchOK, LoopOK, Taken
<1>5. iter.next = iter.end + 1 /\ \A i \in DOMAIN delivered : i > iter.end => delivered[i] = <<>>
  BY <1>1, <1>2 DEF LoopOK, PublisherTypeOK
<1>6. /\ DOMAIN delivered = 1 .. Len(delivered) /\ Len(delivered) \in Nat
      /\ iter.end \in Nat
  BY <1>1, QueueTypes DEF PublisherTypeOK
<1>7. \A i \in DOMAIN delivered : delivered[i] = <<>> \/ ~ (i >= iter.next)
  BY <1>5, <1>6
<1>8. HeardOK' /\ FeedOK' /\ InOrderOnce'
  BY <1>2, <1>7, CallsSame DEF Expected, Untold, Between, Taken
<1> QED
  BY <1>3, <1>4, <1>8 DEF PubInv

LEMMA NotifyStep ==
  ASSUME PubInv, Notify
  PROVE  PubInv'
<1>0. PICK c \in Nat : c = iter.next
  BY DEF PubInv, PublisherTypeOK
<1> DEFINE d == delivered[c]
           e == Append(d, batch)
<1>1. PublisherTypeOK /\ QueuesOK /\ BatchOK /\ LoopOK /\ HeardOK /\ FeedOK /\ InOrderOnce
  BY DEF PubInv
<1>2. /\ UNCHANGED << running_, event_queue, listeners_, thread, batch, owner, published >>
      /\ thread = "notify" /\ InLoop /\ InLoop' /\ iter.next <= iter.end
      /\ delivered' = [delivered EXCEPT ![c] = e]
      /\ iter' = [iter EXCEPT !.next = @ + 1]
  BY <1>0 DEF Notify, InLoop
<1>3. /\ iter \in [next : Nat, end : Nat, buffer : Nat] /\ batch \in Batches
      /\ listeners_.size \in Nat /\ delivered \in Seq(Seq(Batches))
  BY <1>1 DEF PublisherTypeOK
<1>4. /\ Len(delivered) \in Nat /\ DOMAIN delivered = 1 .. Len(delivered)
      /\ \A i \in DOMAIN delivered :
           /\ delivered[i] \in Seq(Batches) /\ Len(delivered[i]) \in Nat
           /\ DOMAIN delivered[i] = 1 .. Len(delivered[i])
  BY <1>1, QueueTypes
<1>5. /\ c \in DOMAIN delivered /\ c \in Nat /\ Len(delivered) = listeners_.size
      /\ iter.end <= listeners_.size
  BY <1>0, <1>1, <1>2, <1>3, <1>4 DEF LoopOK
<1>6. /\ iter'.next = c + 1 /\ iter'.end = iter.end
      /\ iter' \in [next : Nat, end : Nat, buffer : Nat]
  BY <1>0, <1>2, <1>3
<1>7. /\ d \in Seq(Batches) /\ Len(d) \in Nat /\ DOMAIN d = 1 .. Len(d)
      /\ e \in Seq(Batches) /\ Len(e) = Len(d) + 1 /\ DOMAIN e = 1 .. Len(d) + 1
      /\ \A k \in 1 .. Len(d) : e[k] = d[k]
      /\ e[Len(d) + 1] = batch /\ e # <<>>
  <2>1. d \in Seq(Batches) /\ Len(d) \in Nat /\ DOMAIN d = 1 .. Len(d)
    BY <1>4, <1>5
  <2> HIDE DEF d
  <2> QED
    BY <1>3, <2>1, AppendProperties, LenProperties, EmptySeq
<1> HIDE DEF d, e
<1>8. /\ delivered' \in Seq(Seq(Batches)) /\ DOMAIN delivered' = DOMAIN delivered
      /\ Len(delivered') = Len(delivered)
      /\ delivered'[c] = e
      /\ \A i \in DOMAIN delivered : i # c => delivered'[i] = delivered[i]
  <2>1. c \in 1 .. Len(delivered)
    BY <1>4, <1>5
  <2>2. /\ delivered' \in Seq(Seq(Batches)) /\ Len(delivered') = Len(delivered)
        /\ \A i \in 1 .. Len(delivered) : delivered'[i] = IF i = c THEN e ELSE delivered[i]
    BY <1>2, <1>3, <1>7, <2>1, ExceptSeq
  <2> QED
    BY <1>4, <2>1, <2>2, LenProperties
<1>9. PublisherTypeOK'
  BY <1>1, <1>2, <1>6, <1>8 DEF PublisherTypeOK
<1>10. PICK p \in Publishers : batch = << p, Taken(p) >>
  BY <1>1, <1>2 DEF BatchOK
<1>11. batch[1] = p /\ batch[2] = Taken(p) /\ batch # Empty /\ Taken(p) \in Nat
  BY <1>1, <1>2, <1>10 DEF BatchOK, QueuesOK
<1>12. \A q : Taken(q)' = Taken(q)
  BY <1>2 DEF Taken
<1>13. QueuesOK' /\ BatchOK'
  BY <1>1, <1>2, <1>12 DEF QueuesOK, BatchOK
<1>14. LoopOK'
  <2>1. Len(delivered') = listeners_'.size
    BY <1>1, <1>2, <1>8 DEF LoopOK
  <2>2. c + 1 \in 1 .. iter.end + 1 /\ iter.end <= listeners_.size
    BY <1>0, <1>1, <1>2, <1>3, <1>5 DEF LoopOK
  <2>3. \A i \in DOMAIN delivered : i > iter.end => delivered'[i] = <<>>
    BY <1>0, <1>1, <1>2, <1>3, <1>4, <1>5, <1>8 DEF LoopOK
  <2>4. ASSUME NEW i \in 1 .. c
        PROVE  delivered'[i] # <<>> /\ delivered'[i][Len(delivered'[i])] = batch
    <3>1. CASE i = c
      BY <1>7, <1>8, <3>1
    <3>2. CASE i # c
      <4>1. i \in 1 .. c - 1 /\ i \in DOMAIN delivered
        BY <1>4, <1>5, <3>2
      <4>2. delivered[i] # <<>> /\ delivered[i][Len(delivered[i])] = batch
        BY <1>0, <1>1, <1>2, <4>1 DEF LoopOK
      <4> QED
        BY <1>8, <3>2, <4>1, <4>2
    <3> QED
      BY <3>1, <3>2
  <2>5. (c + 1) - 1 = c
    BY <1>5
  <2> QED
    BY <1>2, <1>6, <1>8, <2>1, <2>2, <2>3, <2>4, <2>5 DEF LoopOK
<1>15. /\ Untold(c, p) /\ ~ Untold(c, p)'
       /\ \A q \in Publishers : q # p => ~ Untold(c, q) /\ ~ Untold(c, q)'
       /\ \A q \in Publishers, i \in DOMAIN delivered :
            i # c => Untold(i, q)' = Untold(i, q)
  BY <1>0, <1>2, <1>4, <1>5, <1>6, <1>11 DEF Untold
<1>16. \A k \in 1 .. Len(d) : d[k][1] = p =>
         \E m \in k .. Len(d) : d[m] = << p, Taken(p) - 1 >>
  <2>1. Expected(c, p) = Taken(p) - 1
    BY <1>15 DEF Expected
  <2>2. /\ HeardOK /\ c \in DOMAIN delivered /\ delivered[c] = d
        /\ DOMAIN d = 1 .. Len(d)
    BY <1>1, <1>5, <1>7 DEF d
  <2>3. ASSUME NEW k \in 1 .. Len(d), d[k][1] = p
        PROVE  \E m \in k .. Len(d) : d[m] = << p, Expected(c, p) >>
    BY <2>2, <2>3 DEF HeardOK
  <2> QED
    BY <2>1, <2>3
<1>17. HeardOK'
  <2>1. ASSUME NEW i \in DOMAIN delivered, NEW q \in Publishers,
               NEW k \in DOMAIN delivered'[i], delivered'[i][k][1] = q
        PROVE  \E m \in k .. Len(delivered'[i]) :
                 delivered'[i][m] = << q, Expected(i, q)' >>
    <3>1. CASE i # c
      <4>1. delivered'[i] = delivered[i] /\ Expected(i, q)' = Expected(i, q)
        BY <1>8, <1>12, <1>15, <3>1 DEF Expected
      <4>2. \E m \in k .. Len(delivered[i]) : delivered[i][m] = << q, Expected(i, q) >>
        <5>1. HeardOK /\ k \in DOMAIN delivered[i] /\ delivered[i][k][1] = q
          BY <1>1, <2>1, <4>1
        <5> QED
          BY <5>1 DEF HeardOK
      <4> QED
        BY <4>1, <4>2
    <3>2. CASE i = c /\ q = p
      <4>1. Expected(i, q)' = Taken(p)
        BY <1>12, <1>15, <3>2 DEF Expected
      <4>2. Len(d) + 1 \in k .. Len(d) + 1
        BY <1>7, <1>8, <3>2
      <4> QED
        BY <1>7, <1>8, <1>10, <3>2, <4>1, <4>2
    <3>3. CASE i = c /\ q # p
      <4>1. Expected(i, q)' = Taken(q) /\ Expected(i, q) = Taken(q)
        BY <1>12, <1>15, <3>3 DEF Expected
      <4>2. k \in 1 .. Len(d) /\ d[k][1] = q
        BY <1>7, <1>8, <1>11, <2>1, <3>3
      <4>3. PICK m \in k .. Len(d) : d[m] = << q, Expected(i, q) >>
        BY <1>1, <1>5, <1>7, <3>3, <4>2 DEF HeardOK, d
      <4>4. m \in k .. Len(d) + 1 /\ m \in 1 .. Len(d)
        BY <1>7, <4>2
      <4> QED
        BY <1>7, <1>8, <3>3, <4>1, <4>3, <4>4
    <3> QED
      BY <3>1, <3>2, <3>3
  <2> QED
    BY <1>8, <2>1 DEF HeardOK
<1>18. InOrderOnce'
  <2>1. InOrder(e)
    <3> SUFFICES ASSUME NEW l \in 1 .. Len(d) + 1
                 PROVE  /\ e[l] # Empty
                        /\ \A k \in 1 .. l - 1 : e[k][1] = e[l][1] =>
                             \E m \in k .. l - 1 : e[m] = << e[l][1], e[l][2] - 1 >>
      BY <1>7 DEF InOrder
    <3>1. CASE l = Len(d) + 1
      <4>1. e[l] = batch /\ l - 1 = Len(d)
        BY <1>7, <3>1
      <4>2. ASSUME NEW k \in 1 .. Len(d), e[k][1] = p
            PROVE  \E m \in k .. Len(d) : e[m] = << p, Taken(p) - 1 >>
        <5>1. PICK m \in k .. Len(d) : d[m] = << p, Taken(p) - 1 >>
          BY <1>7, <1>16, <4>2
        <5>2. m \in 1 .. Len(d)
          BY <1>7
        <5> QED
          BY <1>7, <5>1, <5>2
      <4> QED
        BY <1>11, <4>1, <4>2
    <3>2. CASE l \in 1 .. Len(d)
      <4>1. /\ d[l] # Empty
            /\ \A k \in 1 .. l - 1 : d[k][1] = d[l][1] =>
                 \E m \in k .. l - 1 : d[m] = << d[l][1], d[l][2] - 1 >>
        BY <1>1, <1>5, <1>7, <3>2 DEF InOrderOnce, InOrder, d
      <4>2. \A k \in 1 .. l : e[k] = d[k]
        BY <1>7, <3>2
      <4>3. e[l] = d[l] /\ \A k \in 1 .. l - 1 : e[k] = d[k] /\ \A m \in k .. l - 1 : e[m] = d[m]
        BY <1>7, <3>2, <4>2
      <4>4. ASSUME NEW k \in 1 .. l - 1, e[k][1] = e[l][1]
            PROVE  \E m \in k .. l - 1 : e[m] = << e[l][1], e[l][2] - 1 >>
        <5>1. d[k][1] = d[l][1]
          BY <4>3, <4>4
        <5>2. PICK m \in k .. l - 1 : d[m] = << d[l][1], d[l][2] - 1 >>
          BY <4>1, <5>1
        <5>3. e[m] = d[m] /\ e[l] = d[l]
          BY <4>3
        <5> QED
          BY <5>2, <5>3
      <4> QED
        BY <4>1, <4>3, <4>4
    <3> QED
      <4>1. l = Len(d) + 1 \/ l \in 1 .. Len(d)
        BY <1>7
      <4> QED
        BY <3>1, <3>2, <4>1
  <2> QED
    BY <1>1, <1>8, <2>1 DEF InOrderOnce
<1>19. FeedOK'
  <2>1. ASSUME NEW i \in DOMAIN delivered, NEW j \in DOMAIN delivered, i < j
        PROVE  EndsWith(delivered'[j], delivered'[i],
                        IF Between(i, j)' THEN Len(delivered'[i]) - 1 ELSE Len(delivered'[i]))
    <3>1. EndsWith(delivered[j], delivered[i],
                   IF Between(i, j) THEN Len(delivered[i]) - 1 ELSE Len(delivered[i]))
      BY <1>1, <2>1 DEF FeedOK
    <3>2. CASE i = c
      <4>1. ~ Between(i, j) /\ Between(i, j)' /\ delivered'[j] = delivered[j]
        BY <1>0, <1>2, <1>4, <1>5, <1>6, <1>8, <2>1, <3>2 DEF Between
      <4>2. EndsWith(delivered[j], d, Len(d))
        BY <3>1, <3>2, <4>1 DEF d
      <4>3. EndsWith(delivered[j], e, Len(e) - 1)
        BY <1>3, <1>4, <1>7, <4>2, EndsGrow DEF e
      <4> QED
        BY <1>8, <3>2, <4>1, <4>3
    <3>3. CASE j = c
      <4>1. Between(i, j) /\ ~ Between(i, j)' /\ delivered'[i] = delivered[i]
        BY <1>0, <1>2, <1>4, <1>5, <1>6, <1>8, <2>1, <3>3 DEF Between
      <4>2. delivered[i] # <<>> /\ delivered[i][Len(delivered[i])] = batch
        BY <1>0, <1>1, <1>2, <1>4, <1>5, <2>1, <3>3 DEF LoopOK
      <4>3. EndsWith(d, delivered[i], Len(delivered[i]) - 1)
        BY <3>1, <3>3, <4>1 DEF d
      <4>4. EndsWith(e, delivered[i], Len(delivered[i]))
        BY <1>3, <1>4, <1>7, <4>2, <4>3, EndsGrow DEF e
      <4> QED
        BY <1>8, <3>3, <4>1, <4>4
    <3>4. CASE i # c /\ j # c
      <4>1. Between(i, j)' = Between(i, j)
        BY <1>0, <1>2, <1>4, <1>5, <1>6, <3>4 DEF Between
      <4>2. delivered'[i] = delivered[i] /\ delivered'[j] = delivered[j]
        BY <1>8, <3>4
      <4> QED
        BY <3>1, <4>1, <4>2
    <3> QED
      BY <3>2, <3>3, <3>4
  <2> QED
    BY <1>8, <2>1 DEF FeedOK
<1> QED
  BY <1>9, <1>13, <1>14, <1>17, <1>18, <1>19 DEF PubInv
-----------------------------------------------------------------------------
(* What was checked on a small instance holds for any number of threads,   *)
(* batches and listeners.                                                  *)
LEMMA PublisherNextStep ==
  ASSUME PubInv, [PublisherNext]_pubVars
  PROVE  PubInv'
<1>1. CASE \E p \in Publishers : publish(p)
  BY <1>1, PublishStep
<1>2. CASE subscribe
  BY <1>2, SubscribeStep
<1>3. CASE Destructor
  BY <1>3, DestructorStep
<1>4. CASE run
  BY <1>4, ConditionStep, DequeueStep, CheckStep, NotifyStep, ClearStep DEF run
<1>5. CASE UNCHANGED pubVars
  <2>1. PublisherTypeOK' /\ QueuesOK' /\ BatchOK' /\ LoopOK'
    BY <1>5 DEF PubInv, PublisherTypeOK, QueuesOK, BatchOK, LoopOK, InLoop, Taken, pubVars
  <2>2. HeardOK' /\ FeedOK' /\ InOrderOnce'
    BY <1>5, CallsSame DEF Expected, Untold, Between, InLoop, Taken, pubVars
  <2> QED
    BY <2>1, <2>2 DEF PubInv
<1> QED
  BY <1>1, <1>2, <1>3, <1>4, <1>5 DEF PublisherNext

LEMMA PublisherInvariance == PublisherSpec => []PubInv
<1>1. PublisherInit => PubInv
  BY PublisherInitially
<1>2. PubInv /\ [PublisherNext]_pubVars => PubInv'
  BY PublisherNextStep
<1> QED
  BY <1>1, <1>2, PTL DEF PublisherSpec

LEMMA OneFeedHolds ==
  ASSUME PubInv
  PROVE  OneFeed
<1> SUFFICES ASSUME NEW i \in DOMAIN delivered, NEW j \in DOMAIN delivered, i < j
             PROVE  IsSuffix(delivered[j],
                             IF Between(i, j) THEN Front(delivered[i]) ELSE delivered[i])
  BY DEF OneFeed, Between, InLoop
<1>1. /\ PublisherTypeOK /\ LoopOK
      /\ EndsWith(delivered[j], delivered[i],
                  IF Between(i, j) THEN Len(delivered[i]) - 1 ELSE Len(delivered[i]))
  BY DEF PubInv, FeedOK
<1>2. delivered[i] \in Seq(Batches) /\ delivered[j] \in Seq(Batches)
  BY <1>1, QueueTypes
<1>3. Between(i, j) => delivered[i] # <<>>
  <2>1. DOMAIN delivered = 1 .. Len(delivered) /\ iter.next \in Nat
    BY <1>1, QueueTypes DEF PublisherTypeOK
  <2> QED
    BY <1>1, <2>1 DEF Between, LoopOK
<1> QED
  BY <1>1, <1>2, <1>3, SuffixEnds

\* No listener is called twice with a batch, out of the order of its thread, with a
\* batch left out, or with the empty one that wakes the worker: run (MarketEvent.hpp)
\* passes on what it takes out of the queue once, before it takes out the next.
THEOREM ListenersHearInOrder == PublisherSpec => []InOrderOnce
<1>1. PubInv => InOrderOnce
  BY DEF PubInv
<1> QED
  BY <1>1, PublisherInvariance, PTL

\* All listeners see one feed, whenever they subscribed: the loop of run calls them
\* in the order of the vector, and a subscription only adds to its end.
THEOREM ListenersShareOneFeed == PublisherSpec => []OneFeed
<1>1. PubInv => OneFeed
  BY OneFeedHolds
<1> QED
  BY <1>1, PublisherInvariance, PTL

-----------------------------------------------------------------------------
(* The program.                                                            *)
WorkerPlaces == {"top", "dequeue", "publish", "ended"}

(* The publisher's destructor begins after the registry's has joined every *)
(* worker; the history variable quiet says that main has returned.         *)
TakenDown ==
  /\ worker \in [Markets -> WorkerPlaces] /\ running \in [Markets -> BOOLEAN]
  /\ main \in {"trading", "registry", "publisher", "done"}
  /\ owner # "alive" => main \in {"publisher", "done"}
  /\ main \in {"publisher", "done"} => \A p \in Markets : worker[p] = "ended"
  /\ quiet \in BOOLEAN /\ (quiet => main # "trading")

(* When nothing was under way nothing begins, except that the worker wakes *)
(* up for the empty batch and ends.                                        *)
StaysQuiet ==
  quiet =>
    /\ \A p \in Markets : inbox[p] = 0 /\ worker[p] # "publish" /\ event_queue[p] = <<>>
    /\ thread \in {"top", "wait", "check", "ended"}
    /\ thread = "check" => ~ running_ /\ batch = Empty
    /\ event_queue[Owner] \in {<<>>, <<Empty>>}
    /\ event_queue[Owner] # <<>> => ~ running_
    /\ owner = "waking" => ~ running_ /\ event_queue[Owner] = <<>>
    /\ ~ misused

XInv ==
  /\ TakenDown /\ StaysQuiet
  /\ (main = "trading" => ~ misused)
  /\ inbox \in [Markets -> Nat] /\ event_queue = [t \in Producers |-> event_queue[t]]
  /\ (owner = "alive" => event_queue[Owner] = <<>>)

----------------------------------------------------------------------------
LEMMA ExchangeInitInv == ExchangeInit => XInv
<1> SUFFICES ASSUME ExchangeInit PROVE XInv
  OBVIOUS
<1> USE DEF ExchangeInit, PublisherInit
<1>1. TakenDown
  BY DEF TakenDown, WorkerPlaces
<1>2. StaysQuiet
  BY DEF StaysQuiet
<1>3. inbox \in [Markets -> Nat]
  OBVIOUS
<1>4. event_queue[Owner] = <<>> /\ event_queue = [t \in Producers |-> event_queue[t]]
  BY DEF Producers
<1> QED
  BY <1>1, <1>2, <1>3, <1>4 DEF XInv

(* Queues of one batch.                                                    *)
LEMMA OneBatch ==
  ASSUME NEW b
  PROVE  Append(<<>>, b) = << b >> /\ Head(<< b >>) = b /\ Tail(<< b >>) = <<>>
OBVIOUS

(* What main does while it trades.                                         *)
LEMMA TradingInv ==
  ASSUME XInv, Subscribe \/ (\E p \in Markets : SubmitOrder(p)) \/ DestroyListeners
  PROVE  XInv'
<1>1. CASE Subscribe
  BY <1>1 DEF Subscribe, subscribe, exVars, XInv, TakenDown, StaysQuiet, Markets
<1>2. ASSUME NEW p \in Markets, SubmitOrder(p) PROVE XInv'
  BY <1>2 DEF SubmitOrder, pubVars, XInv, TakenDown, StaysQuiet, Markets
<1>3. CASE DestroyListeners
  <2>1. /\ main = "trading" /\ main' = "registry" /\ owner = "alive" /\ ~ misused
        /\ UNCHANGED << event_queue, thread, running_, batch, owner, running, worker, inbox,
                        misused >>
    BY <1>3 DEF DestroyListeners, pubVars, XInv, TakenDown
  <2>2. quiet' = /\ \A p \in Markets : inbox[p] = 0 /\ worker[p] # "publish"
                 /\ \A t \in Producers : event_queue[t] = <<>>
                 /\ thread \in {"top", "wait"}
    BY <1>3 DEF DestroyListeners
  <2>3. StaysQuiet'
    BY <2>1, <2>2 DEF StaysQuiet, Producers, Markets
  <2>4. TakenDown'
    BY <2>1, <2>2 DEF XInv, TakenDown
  <2> QED
    BY <2>1, <2>3, <2>4 DEF XInv
<1> QED
  BY <1>1, <1>2, <1>3

(* The destructors of the registry and of the publisher.                   *)
LEMMA DestructorsInv ==
  ASSUME XInv, MainStep
  PROVE  XInv'
<1>1. ASSUME NEW p \in Markets, StopProcessor(p) PROVE XInv'
  BY <1>1 DEF StopProcessor, pubVars, XInv, TakenDown, StaysQuiet
<1>2. CASE RegistryDestroyed
  BY <1>2 DEF RegistryDestroyed, pubVars, XInv, TakenDown, StaysQuiet
<1>3. CASE DestroyPublisher /\ ClearRunning
  <2>1. /\ main = "publisher" /\ owner = "alive" /\ owner' = "waking" /\ running_' = FALSE
        /\ main' = main
        /\ UNCHANGED << event_queue, thread, batch, running, worker, inbox, quiet, misused >>
    BY <1>3 DEF DestroyPublisher, ClearRunning
  <2>2. TakenDown'
    BY <2>1 DEF XInv, TakenDown
  <2>3. StaysQuiet'
    BY <2>1 DEF XInv, StaysQuiet
  <2> QED
    BY <2>1, <2>2, <2>3 DEF XInv
<1>4. CASE DestroyPublisher /\ Join
  <2>1. /\ main = "publisher" /\ main' = "done" /\ owner = "joining" /\ owner' = "destroyed"
        /\ UNCHANGED << running_, event_queue, thread, batch, running, worker, inbox, quiet,
                        misused >>
    BY <1>4 DEF DestroyPublisher, Join
  <2>2. TakenDown'
    BY <2>1 DEF XInv, TakenDown
  <2>3. StaysQuiet'
    BY <2>1 DEF XInv, StaysQuiet
  <2> QED
    BY <2>1, <2>2, <2>3 DEF XInv
<1>5. CASE DestroyPublisher /\ EnqueueEmpty
  <2>1. /\ main = "publisher" /\ main' = "publisher" /\ owner = "waking" /\ owner' = "joining"
        /\ event_queue' = [event_queue EXCEPT ![Owner] = Append(@, Empty)]
        /\ UNCHANGED << running_, thread, batch, running, worker, inbox, quiet, misused >>
    BY <1>5 DEF DestroyPublisher, EnqueueEmpty
  <2>2. /\ event_queue'[Owner] = Append(event_queue[Owner], Empty)
        /\ \A p \in Markets : event_queue'[p] = event_queue[p]
        /\ event_queue' = [t \in Producers |-> event_queue'[t]]
    BY <2>1, PublisherAssumption DEF XInv, Producers, Markets
  <2>3. quiet => event_queue'[Owner] = << Empty >> /\ ~ running_
    BY <2>1, <2>2, OneBatch DEF XInv, StaysQuiet
  <2>4. StaysQuiet'
    BY <2>1, <2>2, <2>3 DEF XInv, StaysQuiet
  <2>5. TakenDown'
    BY <2>1 DEF XInv, TakenDown
  <2> QED
    BY <2>1, <2>2, <2>4, <2>5 DEF XInv
<1> QED
  BY <1>1, <1>2, <1>3, <1>4, <1>5 DEF MainStep, DestroyPublisher, Destructor

(* The workers of the markets.                                             *)
LEMMA MarketWorkersInv ==
  ASSUME XInv, NEW p \in Markets, WorkerStep(p)
  PROVE  XInv'
<1>1. CASE WorkerTop(p) \/ WorkerSleeps(p)
  <2>1. PICK l \in WorkerPlaces \ {"publish"} :
          worker' = [worker EXCEPT ![p] = l] /\ (worker[p] # "ended")
    BY <1>1 DEF WorkerTop, WorkerSleeps, WorkerPlaces
  <2>2. UNCHANGED << pubVars, main, running, inbox, quiet, misused >>
    BY <1>1 DEF WorkerTop, WorkerSleeps
  <2> QED
    BY <2>1, <2>2 DEF pubVars, XInv, TakenDown, StaysQuiet
<1>2. CASE HandleEvent(p)
  <2>1. PICK l \in {"publish", "top"} : worker' = [worker EXCEPT ![p] = l]
    BY <1>2 DEF HandleEvent, GoOn
  <2>2. /\ worker[p] = "dequeue" /\ inbox[p] > 0 /\ inbox' = [inbox EXCEPT ![p] = inbox[p] - 1]
        /\ UNCHANGED << pubVars, main, running, quiet, misused >>
    BY <1>2 DEF HandleEvent
  <2>3. ~ quiet /\ main \in {"trading", "registry"} /\ inbox' \in [Markets -> Nat]
    <3>1. inbox[p] \in Nat /\ inbox[p] > 0 /\ worker[p] = "dequeue"
      BY <2>2 DEF XInv
    <3>2. ~ quiet
      <4>1. inbox[p] # 0
        BY <3>1
      <4> QED
        BY <4>1 DEF XInv, TakenDown, StaysQuiet
    <3>3. main \in {"trading", "registry"}
      BY <3>1 DEF XInv, TakenDown
    <3>4. inbox' \in [Markets -> Nat]
      BY <2>2, <3>1 DEF XInv
    <3> QED
      BY <3>2, <3>3, <3>4
  <2>4. TakenDown'
    BY <2>1, <2>2, <2>3 DEF pubVars, XInv, TakenDown, WorkerPlaces
  <2> QED
    BY <2>2, <2>3, <2>4 DEF pubVars, XInv, StaysQuiet
<1>3. CASE HandleMarketEvents(p)
  <2>1. PICK l \in {"publish", "top"} : worker' = [worker EXCEPT ![p] = l]
    BY <1>3 DEF HandleMarketEvents, GoOn
  <2>2. /\ worker[p] = "publish"
        /\ event_queue' = [event_queue EXCEPT ![p] = Append(@, << p, published'[p] >>)]
        /\ UNCHANGED << main, running, inbox, quiet, misused, running_, thread, batch, owner >>
    BY <1>3 DEF HandleMarketEvents, publish
  <2>3. ~ quiet /\ main \in {"trading", "registry"}
    BY <2>2 DEF XInv, TakenDown, StaysQuiet
  <2>4. /\ event_queue'[Owner] = event_queue[Owner]
        /\ event_queue' = [t \in Producers |-> event_queue'[t]]
    BY <2>2, PublisherAssumption DEF XInv, Producers, Markets
  <2>5. TakenDown'
    BY <2>1, <2>2, <2>3 DEF XInv, TakenDown, WorkerPlaces
  <2> QED
    BY <2>2, <2>3, <2>4, <2>5 DEF XInv, StaysQuiet
<1> QED
  BY <1>1, <1>2, <1>3 DEF WorkerStep

(* The publisher's worker.                                                 *)
LEMMA PublisherWorkerInv ==
  ASSUME XInv, PublisherStep
  PROVE  XInv'
<1>1. /\ run /\ UNCHANGED << main, running, worker, inbox, quiet, owner, running_ >>
      /\ misused' = (misused \/ (main # "trading" /\ delivered' # delivered))
  BY DEF PublisherStep, run, LoopCondition, wait_dequeue, CheckStop, ReadFreed, Notify, Clear
<1>2. TakenDown' /\ (main' = "trading" => ~ misused') /\ inbox' \in [Markets -> Nat]
  BY <1>1 DEF XInv, TakenDown
<1>3. CASE wait_dequeue
  <2>1. /\ thread = "wait" /\ thread' = "check" /\ delivered' = delivered
        /\ \E t \in Producers :
             /\ event_queue[t] # <<>>
             /\ batch' = Head(event_queue[t])
             /\ event_queue' = [event_queue EXCEPT ![t] = Tail(@)]
    BY <1>3 DEF wait_dequeue
  <2>2. PICK t \in Producers : /\ event_queue[t] # <<>>
                               /\ batch' = Head(event_queue[t])
                               /\ event_queue' = [event_queue EXCEPT ![t] = Tail(@)]
    BY <2>1
  <2>3. /\ event_queue'[t] = Tail(event_queue[t])
        /\ \A u \in Producers : u # t => event_queue'[u] = event_queue[u]
        /\ event_queue' = [u \in Producers |-> event_queue'[u]]
    BY <2>2 DEF XInv
  <2>4. quiet => t = Owner /\ event_queue[t] = << Empty >> /\ ~ running_
    BY <2>2 DEF XInv, StaysQuiet, Producers, Markets
  <2>5. quiet => batch' = Empty /\ event_queue'[Owner] = <<>>
    BY <2>2, <2>3, <2>4, OneBatch
  <2>6. StaysQuiet'
    BY <1>1, <2>1, <2>3, <2>4, <2>5, PublisherAssumption
       DEF XInv, StaysQuiet, Producers, Markets
  <2>7. owner = "alive" => event_queue'[Owner] = <<>>
    BY <2>2, <2>3 DEF XInv, Producers
  <2> QED
    BY <1>1, <1>2, <2>3, <2>6, <2>7 DEF XInv
<1>4. CASE LoopCondition \/ CheckStop
  BY <1>1, <1>2, <1>4 DEF LoopCondition, CheckStop, XInv, StaysQuiet
<1>5. CASE ReadFreed \/ Notify \/ Clear
  BY <1>1, <1>2, <1>5 DEF ReadFreed, Notify, Clear, XInv, StaysQuiet
<1> QED
  BY <1>1, <1>3, <1>4, <1>5 DEF run

(* The invariant of the program's end.                                     *)
THEOREM ExchangeInvariance == ExchangeSpec => []XInv
<1>1. XInv /\ [ExchangeNext]_allVars => XInv'
  <2> SUFFICES ASSUME XInv, [ExchangeNext]_allVars PROVE XInv'
    OBVIOUS
  <2>1. CASE ExchangeNext
    BY <2>1, TradingInv, DestructorsInv, MarketWorkersInv, PublisherWorkerInv DEF ExchangeNext
  <2>2. CASE UNCHANGED allVars
    BY <2>2 DEF allVars, pubVars, exVars, XInv, TakenDown, StaysQuiet
  <2> QED
    BY <2>1, <2>2
<1> QED
  BY <1>1, ExchangeInitInv, PTL DEF ExchangeSpec

(* No worker of a market calls publish once the publisher's destructor has *)
(* begun (main.cpp declares the publisher before the registry).            *)
THEOREM OutlivesWorkers == ExchangeSpec => []PublisherOutlivesWorkers
<1>1. XInv => PublisherOutlivesWorkers
  BY DEF XInv, TakenDown, PublisherOutlivesWorkers
<1> QED
  BY <1>1, ExchangeInvariance, PTL

(* If nothing was under way when main returned, the listeners are left     *)
(* alone and no batch is lost, although they are destroyed first.          *)
THEOREM QuietEnd == ExchangeSpec => []QuietShutdownIsSafe
<1>1. XInv => QuietShutdownIsSafe
  BY DEF XInv, StaysQuiet, QuietShutdownIsSafe, Markets
<1> QED
  BY <1>1, ExchangeInvariance, PTL

(* main only decides when the publisher is called: all it does to the      *)
(* publisher is what the publisher's own next-state relation allows.       *)
THEOREM ExchangeIsAPublisher == ExchangeSpec => PublisherSpec
<1>1. ExchangeInit => PublisherInit
  BY DEF ExchangeInit
<1>2. [ExchangeNext]_allVars => [PublisherNext]_pubVars
  <2> SUFFICES ASSUME [ExchangeNext]_allVars PROVE [PublisherNext]_pubVars
    OBVIOUS
  <2>1. CASE Subscribe \/ DestroyPublisher \/ PublisherStep
    BY <2>1 DEF Subscribe, DestroyPublisher, PublisherStep, PublisherNext
  <2>2. CASE \E p \in Markets : HandleMarketEvents(p)
    BY <2>2 DEF HandleMarketEvents, PublisherNext, Markets
  <2>3. CASE \/ DestroyListeners \/ RegistryDestroyed
             \/ \E p \in Markets : \/ SubmitOrder(p) \/ StopProcessor(p) \/ WorkerTop(p)
                                   \/ WorkerSleeps(p) \/ HandleEvent(p)
    BY <2>3 DEF DestroyListeners, RegistryDestroyed, SubmitOrder, StopProcessor, WorkerTop,
                WorkerSleeps, HandleEvent
  <2>4. CASE UNCHANGED allVars
    BY <2>4 DEF allVars
  <2> QED
    BY <2>1, <2>2, <2>3, <2>4 DEF ExchangeNext, MainStep, WorkerStep
<1> QED
  BY <1>1, <1>2, PTL DEF ExchangeSpec, PublisherSpec

\* The listeners of the whole program, while it runs and while main takes it down,
\* are called in order, once, and with one feed.
THEOREM ListenersOfTheProgram == ExchangeSpec => [](InOrderOnce /\ OneFeed)
BY ExchangeIsAPublisher, ListenersHearInOrder, ListenersShareOneFeed, PTL
=============================================================================
