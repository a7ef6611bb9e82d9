---------------------------- MODULE MarketProofs ----------------------------
(***************************************************************************)
(* Proofs about Market.  BooksInv, the conjunction of the invariants the runs  *)
(* check and of CallOK, is inductive; the lemmas show that each operation  *)
(* preserves it.  Lists change in two ways only, by a node dropped         *)
(* (DropNode, for fills and cancels) and by a node appended (RestNode), so *)
(* those two lemmas carry the argument about the books.                    *)
(***************************************************************************)
EXTENDS Market, SequenceTheorems, FiniteSetTheorems, WellFoundedInduction, TLAPS

(* RemoveAt drops one element and closes the gap. *)
LEMMA RemoveAtProperties ==
  ASSUME NEW S, NEW q \in Seq(S), NEW i \in 1 .. Len(q)
  PROVE  /\ RemoveAt(q, i) \in Seq(S)
         /\ Len(RemoveAt(q, i)) = Len(q) - 1
         /\ \A k \in 1 .. Len(q) - 1 :
              RemoveAt(q, i)[k] = IF k < i THEN q[k] ELSE q[k + 1]
<1> DEFINE a == SubSeq(q, 1, i - 1)
           b == SubSeq(q, i + 1, Len(q))
<1>0. Len(q) \in Nat /\ i \in Int
  BY LenProperties
<1>1. a \in Seq(S) /\ Len(a) = i - 1 /\ \A k \in 1 .. i - 1 : a[k] = q[k]
  BY <1>0, ElementOfSeq, SubSeqProperties
<1>2. /\ b \in Seq(S) /\ Len(b) = Len(q) - i
      /\ \A k \in 1 .. Len(q) - i : b[k] = q[i + k]
  BY <1>0, ElementOfSeq, SubSeqProperties
<1>3. RemoveAt(q, i) = a \o b
  BY DEF RemoveAt
<1> HIDE DEF a, b
<1>4. /\ a \o b \in Seq(S)
      /\ Len(a \o b) = Len(a) + Len(b)
      /\ \A k \in 1 .. Len(a) + Len(b) :
           (a \o b)[k] = IF k <= Len(a) THEN a[k] ELSE b[k - Len(a)]
  BY <1>1, <1>2, ConcatProperties
<1>5. Len(a) + Len(b) = Len(q) - 1
  BY <1>0, <1>1, <1>2
<1>6. ASSUME NEW k \in 1 .. Len(q) - 1
      PROVE  (a \o b)[k] = IF k < i THEN q[k] ELSE q[k + 1]
  <2>1. CASE k < i
    BY <1>0, <1>1, <1>4, <1>5, <2>1
  <2>2. CASE ~ (k < i)
    <3>1. (a \o b)[k] = b[k - (i - 1)] /\ k - (i - 1) \in 1 .. Len(q) - i
      BY <1>0, <1>1, <1>4, <1>5, <2>2
    <3> QED
      BY <1>0, <1>2, <2>2, <3>1
  <2> QED
    BY <2>1, <2>2
<1> QED
  BY <1>3, <1>4, <1>5, <1>6

(* r is the list q without its d-th element.                               *)
Dropped(q, d, r) ==
  /\ r \in Seq(OrderIds)
  /\ Len(r) = Len(q) - 1
  /\ \A k \in 1 .. Len(q) - 1 : r[k] = IF k < d THEN q[k] ELSE q[k + 1]

(* k is the one place of o in the list q.                                  *)
OnlyAt(q, o, k) == k \in DOMAIN q /\ \A j \in DOMAIN q : q[j] = o <=> j = k

(* What the books' invariants become when the lists do not change.         *)
LEMMA KeepBooks ==
  ASSUME BooksInv, UNCHANGED << levels, queue >>,
         \A o \in OrderIds : Rests(o) <=> Rests(o)',
         \A o \in OrderIds : Rests(o) =>
           /\ o # taker'
           /\ orders'[o].side = orders[o].side
           /\ orders'[o].price = orders[o].price
           /\ orders'[o].type = orders[o].type
           /\ orders'[o].tif = orders[o].tif
           /\ orders'[o].remaining > 0
           /\ orders'[o].status \in {"New", "PartiallyFilled"}
  PROVE  NoEmptyLevel' /\ NodesLive' /\ IteratorsValid' /\ Uncrossed'
<1>1. NoEmptyLevel' /\ Uncrossed'
  BY DEF BooksInv, NoEmptyLevel, Uncrossed
<1>2. ASSUME NEW s \in Sides, NEW p \in Prices, NEW i \in DOMAIN queue[s][p]
      PROVE  queue[s][p][i] \in OrderIds /\ Rests(queue[s][p][i])
  BY DEF BooksInv, TypeOK, NodesLive, Rests
<1>3. NodesLive'
  BY <1>2 DEF BooksInv, NodesLive, Rests, Exists
<1>4. IteratorsValid'
  <2> SUFFICES ASSUME NEW o \in OrderIds, Rests(o)'
               PROVE  /\ orders'[o].price \in Prices
                      /\ \E i : OnlyAt(queue'[orders'[o].side][orders'[o].price], o, i)
    BY DEF IteratorsValid, Rests, OnlyAt, Exists
  <2>1. Rests(o) /\ orders'[o].side = orders[o].side /\ orders'[o].price = orders[o].price
    OBVIOUS
  <2>2. /\ orders[o].price \in Prices
        /\ \E i : OnlyAt(queue[orders[o].side][orders[o].price], o, i)
    BY <2>1 DEF BooksInv, IteratorsValid, Rests, OnlyAt
  <2> QED
    BY <2>1, <2>2
<1> QED
  BY <1>1, <1>3, <1>4

(* Dropping the one node of an order leaves the nodes of all the others.   *)
LEMMA DroppedNodes ==
  ASSUME NEW q \in Seq(OrderIds), NEW d \in DOMAIN q, NEW r,
         Dropped(q, d, r), OnlyAt(q, q[d], d)
  PROVE  /\ \A i \in DOMAIN r : \E j \in DOMAIN q : r[i] = q[j] /\ q[j] # q[d]
         /\ \A o, k : OnlyAt(q, o, k) /\ o # q[d] => \E i : OnlyAt(r, o, i)
<1>0. Len(q) \in Nat /\ DOMAIN q = 1 .. Len(q) /\ d \in 1 .. Len(q)
  BY LenProperties
<1>1. DOMAIN r = 1 .. Len(q) - 1
  BY LenProperties DEF Dropped
<1>2. ASSUME NEW i \in 1 .. Len(q) - 1
      PROVE  \E j \in 1 .. Len(q) : r[i] = q[j] /\ q[j] # q[d]
  <2>0. i \in 1 .. Len(q) /\ i + 1 \in 1 .. Len(q)
    BY <1>0
  <2>1. CASE i < d
    <3>1. r[i] = q[i] /\ i # d
      BY <1>0, <2>1 DEF Dropped
    <3> QED
      BY <1>0, <2>0, <3>1 DEF OnlyAt
  <2>2. CASE ~ (i < d)
    <3>1. r[i] = q[i + 1] /\ i + 1 # d
      BY <1>0, <2>2 DEF Dropped
    <3> QED
      BY <1>0, <2>0, <3>1 DEF OnlyAt
  <2> QED
    BY <2>1, <2>2
<1>3. ASSUME NEW o, NEW k, OnlyAt(q, o, k), o # q[d]
      PROVE  \E i : OnlyAt(r, o, i)
  <2>1. k \in 1 .. Len(q) /\ k # d
    BY <1>0, <1>3 DEF OnlyAt
  <2> DEFINE i == IF k < d THEN k ELSE k - 1
  <2>2. i \in 1 .. Len(q) - 1
    BY <1>0, <2>1
  <2>3. ASSUME NEW j \in 1 .. Len(q) - 1
        PROVE  r[j] = o <=> j = i
    <3>1. j \in 1 .. Len(q) /\ j + 1 \in 1 .. Len(q)
      BY <1>0
    <3>2. q[j] = o <=> j = k
      BY <1>0, <1>3, <3>1 DEF OnlyAt
    <3>3. q[j + 1] = o <=> j + 1 = k
      BY <1>0, <1>3, <3>1 DEF OnlyAt
    <3>4. r[j] = IF j < d THEN q[j] ELSE q[j + 1]
      BY DEF Dropped
    <3>5. CASE j < d
      <4>1. j = k <=> j = i
        BY <1>0, <2>1, <3>5
      <4> QED
        BY <3>2, <3>4, <3>5, <4>1
    <3>6. CASE ~ (j < d)
      <4>1. j + 1 = k <=> j = i
        BY <1>0, <2>1, <3>6
      <4> QED
        BY <3>3, <3>4, <3>6, <4>1
    <3> QED
      BY <3>5, <3>6
  <2> QED
    BY <1>1, <2>2, <2>3 DEF OnlyAt
<1> QED
  BY <1>0, <1>1, <1>2, <1>3

(* The books' invariants, as facts about one node and about one iterator.  *)
LEMMA Nodes ==
  ASSUME BooksInv, NEW s \in Sides, NEW p \in Prices, NEW i \in DOMAIN queue[s][p]
  PROVE  LET o == queue[s][p][i] IN
         /\ o \in OrderIds
         /\ Rests(o)
         /\ o # taker
         /\ orders[o].side = s /\ orders[o].price = p
         /\ OnlyAt(queue[s][p], o, i)
<1>1. queue[s][p] \in Seq(OrderIds)
  BY DEF BooksInv, TypeOK
<1>2. queue[s][p][i] \in OrderIds
  BY <1>1, ElementOfSeq, LenProperties
<1> DEFINE o == queue[s][p][i]
<1>3. Rests(o) /\ o # taker /\ orders[o].side = s /\ orders[o].price = p
  BY DEF BooksInv, NodesLive, Rests
<1>4. Exists(o) /\ orders[o].book_it
  BY <1>3 DEF Rests
<1>5. IteratorsValid
  BY DEF BooksInv
<1> HIDE DEF o
<1>6. LET l == queue[orders[o].side][orders[o].price] IN
        \E k \in DOMAIN l : \A j \in DOMAIN l : l[j] = o <=> j = k
  <2>1. o \in OrderIds
    BY <1>2 DEF o
  <2> QED
    BY <1>4, <1>5, <2>1 DEF IteratorsValid
<1>7. queue[orders[o].side][orders[o].price] = queue[s][p]
  BY <1>3 DEF o
<1> HIDE DEF o
<1>8. \E k \in DOMAIN queue[s][p] : \A j \in DOMAIN queue[s][p] :
        queue[s][p][j] = o <=> j = k
  BY <1>6, <1>7
<1>9. PICK k \in DOMAIN queue[s][p] : \A j \in DOMAIN queue[s][p] :
        queue[s][p][j] = o <=> j = k
  BY <1>8
<1>10. queue[s][p][i] = o /\ i = k
  BY <1>9 DEF o
<1>11. OnlyAt(queue[s][p], o, i)
  BY <1>9, <1>10 DEF OnlyAt
<1> QED
  BY <1>2, <1>3, <1>11 DEF o

(* Dropping the node of an order whose iterator is reset with it preserves *)
(* the books' invariants: this is what a fill and a cancel do.             *)
LEMMA DropNode ==
  ASSUME BooksInv,
         NEW s \in Sides, NEW p \in Prices, NEW d \in DOMAIN queue[s][p], NEW r,
         Dropped(queue[s][p], d, r),
         SetLevel(s, p, r),
         taker' = taker,
         orders'[queue[s][p][d]] # Null /\ ~ orders'[queue[s][p][d]].book_it,
         taker # Null => ~ orders'[taker].book_it,
         \A o \in OrderIds \ {queue[s][p][d], taker} : orders'[o] = orders[o]
  PROVE  /\ levels' \in [Sides -> SUBSET Prices]
         /\ queue' \in [Sides -> [Prices -> Seq(OrderIds)]]
         /\ NoEmptyLevel' /\ NodesLive' /\ IteratorsValid' /\ Uncrossed'
<1> DEFINE q == queue[s][p]
           m == q[d]
<1>0. q \in Seq(OrderIds) /\ r \in Seq(OrderIds)
  BY DEF BooksInv, TypeOK, Dropped
<1>1. /\ levels' \in [Sides -> SUBSET Prices]
      /\ queue' \in [Sides -> [Prices -> Seq(OrderIds)]]
      /\ \A t \in Sides : levels'[t] \subseteq levels[t]
      /\ queue'[s][p] = r
      /\ p \in levels'[s] <=> p \in levels[s] /\ r # <<>>
  BY <1>0 DEF SetLevel, BooksInv, TypeOK
<1>2. ASSUME NEW t \in Sides, NEW u \in Prices, ~ (t = s /\ u = p)
      PROVE  queue'[t][u] = queue[t][u] /\ (u \in levels'[t] <=> u \in levels[t])
  BY <1>2 DEF SetLevel, BooksInv, TypeOK
<1>3. m \in OrderIds /\ m # taker /\ OnlyAt(q, m, d)
      /\ orders[m].side = s /\ orders[m].price = p
  BY Nodes
<1>4. /\ \A i \in DOMAIN r : \E j \in DOMAIN q : r[i] = q[j] /\ q[j] # m
      /\ \A o, k : OnlyAt(q, o, k) /\ o # m => \E i : OnlyAt(r, o, i)
  BY <1>0, <1>3, DroppedNodes
<1>5. NoEmptyLevel'
  <2> SUFFICES ASSUME NEW t \in Sides, NEW u \in Prices
               PROVE  u \in levels'[t] <=> queue'[t][u] # <<>>
    BY DEF NoEmptyLevel
  <2>1. CASE t = s /\ u = p
    <3>1. q # <<>>
      BY <1>0, EmptySeq
    <3> QED
      BY <1>1, <2>1, <3>1 DEF BooksInv, NoEmptyLevel
  <2>2. CASE ~ (t = s /\ u = p)
    BY <1>2, <2>2 DEF BooksInv, NoEmptyLevel
  <2> QED
    BY <2>1, <2>2
<1>6. Uncrossed'
  BY <1>1 DEF BooksInv, Uncrossed, Sides
<1>7. ASSUME NEW t \in Sides, NEW u \in Prices, NEW i \in DOMAIN queue'[t][u]
      PROVE  \E j \in DOMAIN queue[t][u] :
               queue'[t][u][i] = queue[t][u][j] /\ queue[t][u][j] # m
  <2>1. CASE t = s /\ u = p
    BY <1>1, <1>4, <2>1
  <2>2. CASE ~ (t = s /\ u = p)
    <3>1. i \in DOMAIN queue[t][u] /\ queue'[t][u][i] = queue[t][u][i]
      BY <1>2, <2>2
    <3>2. queue[t][u][i] # m
      BY <1>3, <2>2, <3>1, Nodes
    <3> QED
      BY <3>1, <3>2
  <2> QED
    BY <2>1, <2>2
<1>8. NodesLive'
  <2> SUFFICES ASSUME NEW t \in Sides, NEW u \in Prices, NEW i \in DOMAIN queue'[t][u]
               PROVE  LET o == queue'[t][u][i] IN
                        /\ orders'[o] # Null
                        /\ o # taker'
                        /\ orders'[o].side = t /\ orders'[o].price = u
                        /\ orders'[o].type = "Limit" /\ orders'[o].tif # "IOC"
                        /\ orders'[o].remaining > 0
                        /\ orders'[o].book_it
                        /\ orders'[o].status \in {"New", "PartiallyFilled"}
    BY DEF NodesLive, Exists
  <2>1. PICK j \in DOMAIN queue[t][u] :
               queue'[t][u][i] = queue[t][u][j] /\ queue[t][u][j] # m
    BY <1>7
  <2>2. queue[t][u][j] \in OrderIds /\ queue[t][u][j] # taker
    BY Nodes
  <2>3. orders'[queue[t][u][j]] = orders[queue[t][u][j]]
    BY <2>1, <2>2
  <2> QED
    BY <2>1, <2>2, <2>3 DEF BooksInv, NodesLive, Exists
<1>9. IteratorsValid'
  <2> SUFFICES ASSUME NEW o \in OrderIds, Rests(o)'
               PROVE  /\ orders'[o].price \in Prices
                      /\ \E i : OnlyAt(queue'[orders'[o].side][orders'[o].price], o, i)
    BY DEF IteratorsValid, Rests, OnlyAt, Exists
  <2>1. o # m /\ o # taker
    BY OrdersAssumption DEF Rests, Exists
  <2>2. orders'[o] = orders[o] /\ Rests(o)
    BY <2>1 DEF Rests, Exists
  <2> DEFINE t == orders[o].side
             u == orders[o].price
  <2>3. t \in Sides /\ u \in Prices /\ \E k : OnlyAt(queue[t][u], o, k)
    BY <2>2 DEF BooksInv, TypeOK, IteratorsValid, Rests, Exists, Order, OnlyAt
  <2>4. CASE t = s /\ u = p
    BY <1>1, <1>4, <2>1, <2>2, <2>3, <2>4
  <2>5. CASE ~ (t = s /\ u = p)
    BY <1>2, <2>2, <2>3, <2>5
  <2> QED
    BY <2>4, <2>5
<1> QED
  BY <1>1, <1>5, <1>6, <1>8, <1>9

-----------------------------------------------------------------------------
(* The sums.  A sum of ints over a finite set is the number of its tokens. *)
Tokens(f, S) == { t \in S \X (1 .. MaxInt) : t[2] <= f[t[1]] }

(* The function by which the library computes a sum over S.                *)
IsSum(f, S, h) ==
  h = [s \in SUBSET S |->
         IF s = {} THEN 0
         ELSE f[CHOOSE x \in s : TRUE] + h[s \ {CHOOSE x \in s : TRUE}]]

LEMMA Least ==
  ASSUME NEW T, T \subseteq Nat, T # {}
  PROVE  \E x \in T : \A y \in T : ~ (y < x)
<1> DEFINE R == OpToRel(<, Nat)
<1>1. IsWellFoundedOn(R, Nat)
  BY NatLessThanWellFounded
<1>2. \A x, y \in Nat : x < y => << x, y >> \in R
  BY DEF OpToRel
<1> HIDE DEF R
<1>3. PICK x \in T : \A y \in T : ~ (<< y, x >> \in R)
  BY <1>1, WFMin
<1> QED
  BY <1>2, <1>3

LEMMA TokensFinite ==
  ASSUME NEW f, NEW S, IsFiniteSet(S)
  PROVE  IsFiniteSet(Tokens(f, S)) /\ Cardinality(Tokens(f, S)) \in Nat
<1>1. IsFiniteSet(1 .. MaxInt)
  BY OrdersAssumption, FS_Interval
<1>2. IsFiniteSet(S \X (1 .. MaxInt))
  BY <1>1, FS_Product
<1>3. Tokens(f, S) \in SUBSET (S \X (1 .. MaxInt))
  BY DEF Tokens
<1> QED
  BY <1>2, <1>3, FS_Subset, FS_CardinalityType

LEMMA TokensSplit ==
  ASSUME NEW f, NEW S, IsFiniteSet(S), NEW x \in S, f[x] \in 0 .. MaxInt
  PROVE  Cardinality(Tokens(f, S)) = f[x] + Cardinality(Tokens(f, S \ {x}))
<1>0. PICK n \in 0 .. MaxInt : n = f[x]
  OBVIOUS
<1> DEFINE units == 1 .. n
           own == {x} \X units
           others == Tokens(f, S \ {x})
<1>1. IsFiniteSet(own) /\ Cardinality(own) = n
  <2>1. IsFiniteSet({x}) /\ Cardinality({x}) = 1
    BY FS_Singleton
  <2>2. n \in Int /\ n >= 0
    BY OrdersAssumption
  <2>3. IsFiniteSet(units) /\ Cardinality(units) = n
    BY <2>2, FS_Interval
  <2> HIDE DEF units
  <2>4. Cardinality({x} \X units) = Cardinality({x}) * Cardinality(units)
        /\ IsFiniteSet({x} \X units)
    BY <2>1, <2>3, FS_Product
  <2> QED
    BY <2>1, <2>2, <2>3, <2>4
<1>2. IsFiniteSet(S \ {x})
  BY FS_Subset
<1>3. IsFiniteSet(others) /\ Cardinality(others) \in Nat
  BY <1>2, TokensFinite
<1>4. Tokens(f, S) = others \cup own
  <2>1. ASSUME NEW t \in Tokens(f, S) PROVE t \in others \cup own
    BY <1>0, <2>1 DEF Tokens
  <2>2. ASSUME NEW t \in others PROVE t \in Tokens(f, S)
    BY <2>2 DEF Tokens
  <2>3. ASSUME NEW t \in own PROVE t \in Tokens(f, S)
    <3>1. t \in S \X (1 .. MaxInt) /\ t[1] = x /\ t[2] \in 1 .. f[x]
      BY <1>0, <2>3, OrdersAssumption
    <3> QED
      BY <3>1 DEF Tokens
  <2> QED
    BY <2>1, <2>2, <2>3
<1>5. others \cap own = {}
  BY DEF Tokens
<1> HIDE DEF own, others
<1>6. Cardinality(others \cup own) = Cardinality(others) + Cardinality(own)
  <2>1. Cardinality(others \cup own)
          = Cardinality(others) + Cardinality(own) - Cardinality(others \cap own)
    BY <1>1, <1>3, FS_Union
  <2>2. Cardinality(others \cap own) = 0
    BY <1>5, FS_EmptySet
  <2> QED
    BY <1>1, <1>3, <2>1, <2>2
<1> QED
  BY <1>0, <1>1, <1>3, <1>4, <1>6 DEF others

LEMMA SumFunctionUnfolds ==
  ASSUME NEW f, NEW S, NEW g, IsSum(f, S, g)
  PROVE  \E h : IsSum(f, S, h) /\ SumFunctionOnSet(f, S) = h[S]
<1> DEFINE h == CHOOSE h : IsSum(f, S, h)
<1>1. IsSum(f, S, h)
  OBVIOUS
<1>2. SumFunctionOnSet(f, S) = h[S]
  BY DEF SumFunctionOnSet, FoldFunctionOnSet, MapThenFoldSet, IsSum
<1> QED
  BY <1>1, <1>2

LEMMA SumCounts ==
  ASSUME NEW f, NEW S, IsFiniteSet(S), \A x \in S : f[x] \in 0 .. MaxInt
  PROVE  SumFunctionOnSet(f, S) = Cardinality(Tokens(f, S))
<1> DEFINE g == [s \in SUBSET S |-> Cardinality(Tokens(f, s))]
           one(s) == CHOOSE x \in s : TRUE
<1>1. \A s \in SUBSET S : IsFiniteSet(s)
  BY FS_Subset
<1>2. \A s \in SUBSET S : s # {} => one(s) \in s /\ s \ {one(s)} \in SUBSET S
  OBVIOUS
<1>3. g[{}] = 0
  <2>1. Tokens(f, {}) = {}
    BY DEF Tokens
  <2> QED
    BY <2>1, FS_EmptySet
<1> HIDE DEF one
<1>4. ASSUME NEW s \in SUBSET S, s # {}
      PROVE  g[s] = f[one(s)] + g[s \ {one(s)}]
  <2>1. one(s) \in s /\ s \ {one(s)} \in SUBSET S /\ IsFiniteSet(s)
    BY <1>1, <1>2, <1>4
  <2>2. f[one(s)] \in 0 .. MaxInt
    BY <2>1
  <2>3. Cardinality(Tokens(f, s)) = f[one(s)] + Cardinality(Tokens(f, s \ {one(s)}))
    BY <2>1, <2>2, TokensSplit
  <2> QED
    BY <2>1, <2>3
<1>5. IsSum(f, S, g)
  <2>1. \A s \in SUBSET S : Cardinality(Tokens(f, s)) =
          IF s = {} THEN 0 ELSE f[one(s)] + g[s \ {one(s)}]
    BY <1>3, <1>4
  <2> QED
    BY <2>1 DEF IsSum, one
<1>6. PICK h : IsSum(f, S, h) /\ SumFunctionOnSet(f, S) = h[S]
  BY <1>5, SumFunctionUnfolds
<1> HIDE DEF g
<1>7. \A s \in SUBSET S : h[s] = IF s = {} THEN 0 ELSE f[one(s)] + h[s \ {one(s)}]
  BY <1>6 DEF IsSum, one
<1>8. h[S] = g[S]
  <2> DEFINE Bad == { n \in Nat : \E s \in SUBSET S : Cardinality(s) = n /\ h[s] # g[s] }
  <2>1. SUFFICES ASSUME h[S] # g[S] PROVE FALSE
    OBVIOUS
  <2>2. Bad \subseteq Nat /\ Bad # {}
    BY <2>1, FS_CardinalityType
  <2>3. PICK n \in Bad : \A m \in Bad : ~ (m < n)
    <3> HIDE DEF Bad
    <3> QED
      BY <2>2, Least
  <2>4. PICK s \in SUBSET S : Cardinality(s) = n /\ h[s] # g[s]
    OBVIOUS
  <2>5. s # {}
    BY <1>3, <1>7, <2>4
  <2>6. one(s) \in s /\ s \ {one(s)} \in SUBSET S /\ IsFiniteSet(s)
    BY <1>1, <1>2, <2>5
  <2>7. Cardinality(s \ {one(s)}) = n - 1 /\ n - 1 \in Nat
    <3>1. Cardinality(s \ {one(s)}) = n - 1 /\ Cardinality(s \ {one(s)}) \in Nat
      BY <2>4, <2>6, FS_RemoveElement, FS_CardinalityType
    <3> QED
      BY <3>1
  <2>8. h[s \ {one(s)}] = g[s \ {one(s)}]
    BY <2>3, <2>6, <2>7
  <2> QED
    BY <1>4, <1>7, <2>4, <2>5, <2>8
<1> QED
  BY <1>6, <1>8 DEF g

(* What the proofs use of sums.                                            *)
LEMMA SumNothing == ASSUME NEW f PROVE SumFunctionOnSet(f, {}) = 0
<1>1. Tokens(f, {}) = {} /\ IsFiniteSet({})
  BY FS_EmptySet DEF Tokens
<1> QED
  BY <1>1, SumCounts, FS_EmptySet

LEMMA SumNat ==
  ASSUME NEW f, NEW S, IsFiniteSet(S), \A x \in S : f[x] \in 0 .. MaxInt
  PROVE  SumFunctionOnSet(f, S) \in Nat
BY SumCounts, TokensFinite

LEMMA SumOneMore ==
  ASSUME NEW f, NEW g, NEW S, NEW x, IsFiniteSet(S), x \notin S,
         \A y \in S : f[y] \in 0 .. MaxInt /\ g[y] = f[y], g[x] \in 0 .. MaxInt
  PROVE  SumFunctionOnSet(g, S \cup {x}) = SumFunctionOnSet(f, S) + g[x]
<1>1. IsFiniteSet(S \cup {x}) /\ (S \cup {x}) \ {x} = S
  BY FS_AddElement
<1>2. SumFunctionOnSet(g, S \cup {x}) = Cardinality(Tokens(g, S \cup {x}))
  BY <1>1, SumCounts
<1>3. Cardinality(Tokens(g, S \cup {x})) = g[x] + Cardinality(Tokens(g, S))
  BY <1>1, TokensSplit
<1>4. Tokens(g, S) = Tokens(f, S)
  BY DEF Tokens
<1>5. SumFunctionOnSet(f, S) = Cardinality(Tokens(f, S)) /\ SumFunctionOnSet(f, S) \in Nat
  BY SumCounts, SumNat
<1> QED
  BY <1>2, <1>3, <1>4, <1>5

LEMMA SumSame ==
  ASSUME NEW f, NEW g, NEW S, IsFiniteSet(S), \A y \in S : f[y] \in 0 .. MaxInt /\ g[y] = f[y]
  PROVE  SumFunctionOnSet(g, S) = SumFunctionOnSet(f, S)
<1>1. Tokens(g, S) = Tokens(f, S)
  BY DEF Tokens
<1> QED
  BY <1>1, SumCounts

-----------------------------------------------------------------------------
LEMMA InitInv == MarketInit => IInv
<1> SUFFICES ASSUME MarketInit PROVE IInv
  OBVIOUS
<1>1. TypeOK
  <2>1. <<>> \in Seq(OrderIds) /\ <<>> \in Seq(MarketEvent)
    BY EmptySeq
  <2>2. queue \in [Sides -> [Prices -> Seq(OrderIds)]]
    BY <2>1 DEF MarketInit
  <2>3. 0 \in 0 .. MaxInt
    BY OrdersAssumption
  <2> QED
    BY <2>1, <2>2, <2>3 DEF MarketInit, TypeOK
<1>2. NoEmptyLevel /\ NodesLive /\ Uncrossed
  BY DEF MarketInit, NoEmptyLevel, NodesLive, Uncrossed, Sides
<1>3. IteratorsValid /\ CallOK /\ Accounting /\ StatusAgrees
  BY DEF MarketInit, IteratorsValid, CallOK, Accounting, StatusAgrees, Exists
<1>4. taker = Null
  BY DEF MarketInit
<1> QED
  BY <1>1, <1>2, <1>3, <1>4 DEF IInv, BooksInv

(* A table of orders stays one when one order is entered or updated.       *)
LEMMA OrderExcept ==
  ASSUME TypeOK, NEW o \in OrderIds, NEW ord \in Order,
         orders' = [orders EXCEPT ![o] = ord]
  PROVE  /\ orders' \in [OrderIds -> Order \cup {Null}]
         /\ orders'[o] = ord
         /\ \A x \in OrderIds : x # o => orders'[x] = orders[x]
BY DEF TypeOK

(* An order whose iterator is set is a live limit order.                   *)
LEMMA RestsLive ==
  ASSUME BooksInv, NEW o \in OrderIds, Rests(o)
  PROVE  /\ o # taker
         /\ orders[o].side \in Sides /\ orders[o].price \in Prices
         /\ \E i : OnlyAt(queue[orders[o].side][orders[o].price], o, i)
         /\ orders[o].type = "Limit" /\ orders[o].tif # "IOC"
         /\ orders[o].remaining > 0
         /\ orders[o].status \in {"New", "PartiallyFilled"}
<1>1. orders[o] \in Order /\ orders[o].side \in Sides /\ orders[o].price \in Prices
  BY DEF BooksInv, TypeOK, IteratorsValid, Rests, Exists, Order
<1>2. PICK i : OnlyAt(queue[orders[o].side][orders[o].price], o, i)
  BY DEF BooksInv, IteratorsValid, Rests, OnlyAt
<1> QED
  BY <1>1, <1>2 DEF BooksInv, NodesLive, OnlyAt

(* An order object is put in the place of one that is in no book, and may  *)
(* become the order of a call.                                             *)
LEMMA ReplaceOrder ==
  ASSUME BooksInv, taker = Null,
         NEW o \in OrderIds, NEW ord \in Order, ~ Rests(o), ~ ord.book_it,
         orders' = [orders EXCEPT ![o] = ord],
         taker' \in {Null, o}, events' \in Seq(MarketEvent),
         UNCHANGED << levels, queue, last_price, is_active, crashed, executed >>,
         executed[o] <= ord.quantity,
         \/ ord.status = "Canceled" /\ ord.remaining = 0
         \/ executed[o] + ord.remaining = ord.quantity,
         taker' = o =>
           /\ ord.type \in {"Limit", "Market"}
           /\ ord.type = "Limit" => ord.price \in ValidPrices
           /\ ord.type = "Market" => ord.price = Null
           /\ executed[o] + ord.remaining = ord.quantity
  PROVE  BooksInv'
<1>1. ord # Null /\ o # Null
  BY NullAssumption, OrdersAssumption
<1>2. /\ orders' \in [OrderIds -> Order \cup {Null}]
      /\ orders'[o] = ord
      /\ \A x \in OrderIds : x # o => orders'[x] = orders[x]
  BY OrderExcept DEF BooksInv
<1>3. TypeOK'
  BY <1>2 DEF BooksInv, TypeOK
<1>4. NoEmptyLevel' /\ NodesLive' /\ IteratorsValid' /\ Uncrossed'
  <2>1. ASSUME NEW x \in OrderIds
        PROVE  Rests(x) <=> Rests(x)'
    BY <1>1, <1>2 DEF Rests, Exists
  <2>2. ASSUME NEW x \in OrderIds, Rests(x)
        PROVE  /\ x # taker'
               /\ orders'[x] = orders[x]
               /\ orders[x].remaining > 0
               /\ orders[x].status \in {"New", "PartiallyFilled"}
    <3>1. x # o
      BY <2>2
    <3> QED
      BY <1>2, <2>2, <3>1, RestsLive, OrdersAssumption
  <2> QED
    BY <2>1, <2>2, KeepBooks
<1>5. CallOK'
  BY <1>1, <1>2 DEF CallOK, Exists
<1>6. Accounting'
  BY <1>1, <1>2 DEF BooksInv, Accounting, Exists
<1> QED
  BY <1>3, <1>4, <1>5, <1>6 DEF BooksInv

(* The entry of process_order.  The order object may have been there       *)
(* before, as a stop order is that is triggered.                           *)
LEMMA EntryBooks ==
  ASSUME BooksInv, NEW o \in OrderIds, NEW ord \in Order, ~ Rests(o),
         ord.remaining = ord.quantity, ~ ord.book_it, executed[o] = 0,
         process_order(o, ord)
  PROVE  BooksInv'
<1>1. ord.quantity \in Int /\ 0 <= ord.quantity
  BY OrdersAssumption DEF Order
<1>2. executed[o] <= ord.quantity /\ executed[o] + ord.remaining = ord.quantity
  BY <1>1
<1>3. /\ taker = Null /\ taker' \in {Null, o} /\ events' \in Seq(MarketEvent)
      /\ orders' = [orders EXCEPT ![o] = ord]
      /\ UNCHANGED << levels, queue, last_price, is_active, crashed, executed >>
      /\ taker' = o => ~ Throws(ord)
  BY EmptySeq, OrdersAssumption DEF process_order
<1>4. ~ Throws(ord) =>
        /\ ord.type \in {"Limit", "Market"}
        /\ ord.type = "Limit" => ord.price \in ValidPrices
        /\ ord.type = "Market" => ord.price = Null
  BY DEF Throws, is_valid_price
<1> QED
  BY <1>2, <1>3, <1>4, ReplaceOrder

LEMMA EntryInv ==
  ASSUME IInv, NEW o \in OrderIds, NEW ord \in NewOrders, orders[o] = Null,
         process_order(o, ord)
  PROVE  IInv'
<1>1. /\ ord \in Order /\ ord.quantity \in 1 .. MaxInt
      /\ ord.remaining = ord.quantity /\ ord.status = "New" /\ ~ ord.book_it
  BY NewOrdersAssumption DEF Order
<1>2. /\ orders'[o] = ord
      /\ \A x \in OrderIds : x # o => orders'[x] = orders[x]
  BY DEF process_order, IInv, BooksInv, TypeOK
<1>3. taker' \in {Null, o} /\ executed' = executed /\ executed[o] = 0 /\ taker = Null
  BY DEF process_order, IInv, BooksInv, Accounting, Exists
<1>4. BooksInv'
  BY <1>1, <1>3, EntryBooks DEF IInv, Rests, Exists
<1>5. StatusAgrees'
  <2> SUFFICES ASSUME NEW x \in OrderIds, orders'[x] # Null, x # taker'
               PROVE  /\ orders'[x].status = "Filled" <=> executed'[x] = orders'[x].quantity
                      /\ orders'[x].status = "PartiallyFilled" =>
                           /\ orders'[x].remaining > 0
                           /\ orders'[x].type = "Limit" => executed'[x] > 0
                      /\ orders'[x].status = "New" => executed'[x] = 0
    BY DEF StatusAgrees, Exists
  <2>1. CASE x = o
    BY <1>1, <1>2, <1>3, <2>1
  <2>2. CASE x # o
    BY <1>2, <1>3, <2>2, OrdersAssumption DEF IInv, StatusAgrees, Exists
  <2> QED
    BY <2>1, <2>2
<1>6. taker' # Null => orders'[taker'].status = "New"
  BY <1>1, <1>2, <1>3
<1> QED
  BY <1>4, <1>5, <1>6 DEF IInv

LEMMA SwitchBooks ==
  ASSUME BooksInv, is_active' \in BOOLEAN,
         UNCHANGED << orders, levels, queue, last_price, taker, events, crashed,
                      executed >>
  PROVE  BooksInv'
<1>1. TypeOK' /\ NoEmptyLevel' /\ Uncrossed'
  BY DEF BooksInv, TypeOK, NoEmptyLevel, Uncrossed
<1>2. NodesLive'
  BY DEF BooksInv, NodesLive, Exists
<1>3. IteratorsValid'
  BY DEF BooksInv, IteratorsValid, Exists
<1>4. CallOK' /\ Accounting'
  BY DEF BooksInv, CallOK, Accounting, Exists
<1> QED
  BY <1>1, <1>2, <1>3, <1>4 DEF BooksInv

LEMMA SwitchInv ==
  ASSUME IInv, is_active' \in BOOLEAN,
         UNCHANGED << orders, levels, queue, last_price, taker, events, crashed,
                      executed >>
  PROVE  IInv'
BY SwitchBooks DEF IInv, StatusAgrees, Exists

-----------------------------------------------------------------------------
(* What a trade of quantity n at price p, for the order m at the head of    *)
(* the list there, does to the taker, to m and to the other orders.        *)
TradeFacts(s, p, m, n) ==
  /\ 1 \in DOMAIN queue[s][p] /\ m = queue[s][p][1]
  /\ taker \in OrderIds /\ m \in OrderIds /\ m # taker /\ Rests(m)
  /\ orders[taker] \in Order /\ orders[m] \in Order
  /\ n \in Int /\ 0 < n /\ n <= MaxInt
  /\ n <= orders[taker].remaining /\ n <= orders[m].remaining
  /\ n \in {orders[taker].remaining, orders[m].remaining}
  /\ orders' \in [OrderIds -> Order \cup {Null}]
  /\ \A o \in {m, taker} :
       /\ orders'[o] # Null
       /\ orders'[o].remaining = orders[o].remaining - n
       /\ orders'[o].quantity = orders[o].quantity
       /\ orders'[o].type = orders[o].type
       /\ orders'[o].tif = orders[o].tif
       /\ orders'[o].side = orders[o].side
       /\ orders'[o].price = orders[o].price
       /\ orders'[o].stop_price = orders[o].stop_price
       /\ executed'[o] = executed[o] + n
  /\ orders'[taker].status = orders[taker].status
  /\ orders'[taker].book_it = orders[taker].book_it
  /\ orders'[m].status = IF orders[m].remaining = n THEN "Filled"
                                                    ELSE "PartiallyFilled"
  /\ orders'[m].book_it <=> orders[m].remaining # n
  /\ \A o \in OrderIds \ {m, taker} :
       orders'[o] = orders[o] /\ executed'[o] = executed[o]
  /\ \E f : executed' = [o \in OrderIds |-> f[o]]
  /\ SetLevel(s, p, IF orders[m].remaining = n THEN Tail(queue[s][p])
                                               ELSE queue[s][p])
  /\ events' \in Seq(MarketEvent)
  /\ events' = events \o << make_trade(taker, m, p, n) >>
                     \o (IF orders[m].remaining = n THEN << make_filled(m) >> ELSE <<>>)

LEMMA TradeEffect ==
  ASSUME BooksInv, taker # Null, orders[taker].remaining > 0,
         NEW s \in Sides, NEW p \in levels[s], Trade(s, p)
  PROVE  \E m, n : TradeFacts(s, p, m, n)
<1> DEFINE q == queue[s][p]
           m == q[1]
           n == Lesser(orders[taker].remaining, orders[m].remaining)
<1>1. p \in Prices /\ q \in Seq(OrderIds) /\ q # <<>>
  BY DEF BooksInv, TypeOK, NoEmptyLevel
<1>2. 1 \in DOMAIN q /\ Head(q) = m
  BY <1>1, EmptySeq, LenProperties, HeadTailProperties
<1>3. m \in OrderIds /\ m # taker /\ Rests(m)
  BY <1>1, <1>2, Nodes
<1>4. taker \in OrderIds /\ orders[taker] \in Order /\ orders[m] \in Order
  BY <1>3 DEF BooksInv, TypeOK, CallOK, Rests, Exists
<1>5. orders[m].remaining > 0
  BY <1>3, RestsLive
<1>6. /\ orders[m].remaining \in Int /\ orders[taker].remaining \in Int
      /\ orders[m].remaining <= MaxInt /\ orders[taker].remaining <= MaxInt
      /\ MaxInt \in Int
  BY <1>4, OrdersAssumption DEF Order
<1>7. /\ n \in Int /\ 0 < n /\ n <= MaxInt
      /\ n <= orders[taker].remaining /\ n <= orders[m].remaining
      /\ n \in {orders[taker].remaining, orders[m].remaining}
  BY <1>5, <1>6 DEF Lesser
<1>8. /\ orders' = [orders EXCEPT
            ![taker].remaining = @ - n,
            ![m] = [orders[m] EXCEPT
              !.remaining = @ - n,
              !.status = IF orders[m].remaining = n THEN "Filled"
                                                    ELSE "PartiallyFilled",
              !.book_it = @ /\ ~ (orders[m].remaining = n)]]
      /\ executed' = [executed EXCEPT ![taker] = @ + n, ![m] = @ + n]
      /\ events' = events \o << make_trade(taker, m, p, n) >>
                          \o (IF orders[m].remaining = n
                              THEN << make_filled(m) >> ELSE <<>>)
      /\ SetLevel(s, p, IF orders[m].remaining = n THEN Tail(q) ELSE q)
  BY <1>2 DEF Trade
<1> HIDE DEF n, m, q
<1> DEFINE done == orders[m].remaining = n
           status == IF done THEN "Filled" ELSE "PartiallyFilled"
           newTaker == [orders[taker] EXCEPT !.remaining = @ - n]
           newMatch == [orders[m] EXCEPT !.remaining = @ - n,
                                         !.status = status,
                                         !.book_it = @ /\ ~ done]
<1>9. newTaker \in Order
  <2>1. orders[taker].remaining - n \in 0 .. MaxInt
    BY <1>6, <1>7
  <2> QED
    BY <1>4, <2>1 DEF Order
<1>10. newMatch \in Order
  <2>1. orders[m].remaining - n \in 0 .. MaxInt
    BY <1>6, <1>7
  <2>2. (orders[m].book_it /\ ~ done) \in BOOLEAN
    OBVIOUS
  <2>3. status \in OrderStatuses
    BY DEF OrderStatuses
  <2> HIDE DEF done, status
  <2> QED
    BY <1>4, <2>1, <2>2, <2>3 DEF Order
<1>11. orders \in [OrderIds -> Order \cup {Null}] /\ executed \in [OrderIds -> 0 .. MaxInt]
  BY DEF BooksInv, TypeOK
<1>12. orders' = [orders EXCEPT ![taker] = newTaker, ![m] = newMatch]
  BY <1>8 DEF newTaker, newMatch
<1> HIDE DEF newTaker, newMatch
<1>13. /\ orders' \in [OrderIds -> Order \cup {Null}]
       /\ orders'[taker] = newTaker /\ orders'[m] = newMatch
       /\ \A o \in OrderIds \ {m, taker} : orders'[o] = orders[o]
  BY <1>3, <1>4, <1>9, <1>10, <1>11, <1>12
<1>14. /\ executed'[taker] = executed[taker] + n
       /\ executed'[m] = executed[m] + n
       /\ \A o \in OrderIds \ {m, taker} : executed'[o] = executed[o]
       /\ \E f : executed' = [o \in OrderIds |-> f[o]]
  <2>1. executed' = [o \in OrderIds |-> executed'[o]]
    BY <1>8, <1>11
  <2> QED
    BY <1>3, <1>4, <1>8, <1>11, <2>1
<1>15. newTaker # Null /\ newMatch # Null
  BY <1>9, <1>10, NullAssumption
<1>16. /\ newTaker.remaining = orders[taker].remaining - n
       /\ newTaker.quantity = orders[taker].quantity
       /\ newTaker.type = orders[taker].type
       /\ newTaker.tif = orders[taker].tif
       /\ newTaker.side = orders[taker].side
       /\ newTaker.price = orders[taker].price
       /\ newTaker.stop_price = orders[taker].stop_price
       /\ newTaker.status = orders[taker].status
       /\ newTaker.book_it = orders[taker].book_it
  BY <1>4 DEF newTaker, Order
<1>17. /\ newMatch.remaining = orders[m].remaining - n
       /\ newMatch.quantity = orders[m].quantity
       /\ newMatch.type = orders[m].type
       /\ newMatch.tif = orders[m].tif
       /\ newMatch.side = orders[m].side
       /\ newMatch.price = orders[m].price
       /\ newMatch.stop_price = orders[m].stop_price
       /\ newMatch.status = status
       /\ newMatch.book_it = (orders[m].book_it /\ ~ done)
  BY <1>4 DEF newMatch, Order
<1>18. orders[m].book_it
  BY <1>3 DEF Rests
<1>19. events' \in Seq(MarketEvent)
  <2>1. n \in 0 .. MaxInt
    BY <1>6, <1>7
  <2>2. make_trade(taker, m, p, n) \in MarketEvent /\ make_filled(m) \in MarketEvent
    BY <1>1, <1>3, <1>4, <2>1 DEF make_trade, make_filled, MarketEvent
  <2>3. /\ << make_trade(taker, m, p, n) >> \in Seq(MarketEvent)
        /\ << make_filled(m) >> \in Seq(MarketEvent)
        /\ <<>> \in Seq(MarketEvent)
    BY <2>2, EmptySeq
  <2>4. events \in Seq(MarketEvent)
    BY DEF BooksInv, TypeOK
  <2>5. events \o << make_trade(taker, m, p, n) >> \in Seq(MarketEvent)
    BY <2>3, <2>4, ConcatProperties
  <2> QED
    BY <1>8, <2>3, <2>5, ConcatProperties
<1>20. m = queue[s][p][1] /\ q = queue[s][p]
  BY DEF m, q
<1>21. /\ orders'[m] # Null
       /\ orders'[m].remaining = orders[m].remaining - n
       /\ orders'[m].quantity = orders[m].quantity
       /\ orders'[m].type = orders[m].type
       /\ orders'[m].tif = orders[m].tif
       /\ orders'[m].side = orders[m].side
       /\ orders'[m].price = orders[m].price
       /\ orders'[m].stop_price = orders[m].stop_price
       /\ executed'[m] = executed[m] + n
  BY <1>13, <1>14, <1>15, <1>17
<1>22. /\ orders'[taker] # Null
       /\ orders'[taker].remaining = orders[taker].remaining - n
       /\ orders'[taker].quantity = orders[taker].quantity
       /\ orders'[taker].type = orders[taker].type
       /\ orders'[taker].tif = orders[taker].tif
       /\ orders'[taker].side = orders[taker].side
       /\ orders'[taker].price = orders[taker].price
       /\ orders'[taker].stop_price = orders[taker].stop_price
       /\ executed'[taker] = executed[taker] + n
       /\ orders'[taker].status = orders[taker].status
       /\ orders'[taker].book_it = orders[taker].book_it
  BY <1>13, <1>14, <1>15, <1>16
<1>23. \A o \in {m, taker} :
         /\ orders'[o] # Null
         /\ orders'[o].remaining = orders[o].remaining - n
         /\ orders'[o].quantity = orders[o].quantity
         /\ orders'[o].type = orders[o].type
         /\ orders'[o].tif = orders[o].tif
         /\ orders'[o].side = orders[o].side
         /\ orders'[o].price = orders[o].price
         /\ orders'[o].stop_price = orders[o].stop_price
         /\ executed'[o] = executed[o] + n
  BY <1>21, <1>22
<1>24. orders'[m].status = IF orders[m].remaining = n THEN "Filled" ELSE "PartiallyFilled"
  BY <1>13, <1>17 DEF status, done
<1>25. orders'[m].book_it <=> orders[m].remaining # n
  BY <1>13, <1>17, <1>18 DEF done
<1>26. \A o \in OrderIds \ {m, taker} : orders'[o] = orders[o] /\ executed'[o] = executed[o]
  BY <1>13, <1>14
<1>27. 1 \in DOMAIN queue[s][p] /\ m = queue[s][p][1]
  BY <1>2, <1>20
<1>28. SetLevel(s, p, IF orders[m].remaining = n THEN Tail(queue[s][p]) ELSE queue[s][p])
  BY <1>8, <1>20
<1>29. orders' \in [OrderIds -> Order \cup {Null}] /\ (\E f : executed' = [o \in OrderIds |-> f[o]])
  BY <1>13, <1>14
<1>30. TradeFacts(s, p, m, n)
  BY <1>3, <1>4, <1>7, <1>8, <1>19, <1>22, <1>23, <1>24, <1>25, <1>26, <1>27, <1>28, <1>29
     DEF TradeFacts
<1> QED
  BY <1>30

LEMMA MatchBooks ==
  ASSUME BooksInv, taker # Null, Match
  PROVE  BooksInv'
<1>0. taker \in OrderIds /\ orders[taker].remaining > 0
  BY DEF BooksInv, TypeOK, Match, CanMatch
<1> DEFINE s == Opposite(orders[taker].side)
<1>1. s \in Sides
  BY DEF Opposite, Sides
<1>2. PICK p \in levels[s] : Trade(s, p)
  BY DEF Match
<1>3. PICK m, n : TradeFacts(s, p, m, n)
  BY <1>0, <1>1, <1>2, TradeEffect
<1> DEFINE q == queue[s][p]
           done == orders[m].remaining = n
<1>4. p \in Prices /\ q \in Seq(OrderIds)
  BY <1>1 DEF BooksInv, TypeOK
<1>5. taker' = taker /\ last_price' = p /\ UNCHANGED << is_active, crashed >>
  BY <1>2 DEF Match, Trade
<1> HIDE DEF s
<1>6. /\ ~ Rests(taker) /\ ~ orders[taker].book_it
      /\ executed[taker] + orders[taker].remaining = orders[taker].quantity
  BY <1>0 DEF BooksInv, CallOK, Rests
<1>7. /\ taker \in OrderIds /\ m \in OrderIds /\ m # taker /\ Rests(m)
      /\ n \in Int /\ 0 < n /\ n <= MaxInt /\ MaxInt \in Int
      /\ n <= orders[taker].remaining /\ n <= orders[m].remaining
      /\ \A o \in {m, taker} :
           /\ orders[o] # Null
           /\ orders[o].quantity \in Int /\ orders[o].quantity <= MaxInt
           /\ orders[o].remaining \in Int
           /\ executed[o] \in Int /\ 0 <= executed[o]
           /\ executed[o] + orders[o].remaining = orders[o].quantity
  <2>1. orders[m] # Null /\ orders[m].status # "Canceled" /\ orders[taker] # Null
    BY <1>3, RestsLive, NullAssumption DEF TradeFacts, Rests, Exists
  <2>2. ASSUME NEW o \in {m, taker}
        PROVE  /\ orders[o].quantity \in Int /\ orders[o].quantity <= MaxInt
               /\ orders[o].remaining \in Int
               /\ executed[o] \in Int /\ 0 <= executed[o]
               /\ executed[o] + orders[o].remaining = orders[o].quantity
    <3>1. o \in OrderIds /\ orders[o] \in Order /\ orders[o] # Null
          /\ (o = taker \/ orders[o].status # "Canceled")
      BY <1>3, <2>1 DEF TradeFacts
    <3>2. executed[o] \in 0 .. MaxInt
      BY <3>1 DEF BooksInv, TypeOK
    <3> QED
      BY <1>6, <3>1, <3>2, OrdersAssumption DEF BooksInv, Accounting, Exists, Order
  <2>3. /\ taker \in OrderIds /\ m \in OrderIds /\ m # taker /\ Rests(m)
        /\ n \in Int /\ 0 < n /\ n <= MaxInt
        /\ n <= orders[taker].remaining /\ n <= orders[m].remaining
    BY <1>3 DEF TradeFacts
  <2>4. MaxInt \in Int
    BY OrdersAssumption
  <2> QED
    BY <2>1, <2>2, <2>3, <2>4
<1>8. /\ \A o \in {m, taker} :
           /\ orders'[o] # Null
           /\ orders'[o].remaining = orders[o].remaining - n
           /\ orders'[o].quantity = orders[o].quantity
           /\ orders'[o].type = orders[o].type
           /\ orders'[o].tif = orders[o].tif
           /\ orders'[o].side = orders[o].side
           /\ orders'[o].price = orders[o].price
           /\ executed'[o] = executed[o] + n
      /\ orders'[taker].status = orders[taker].status
      /\ orders'[taker].book_it = orders[taker].book_it
      /\ orders'[m].status = IF done THEN "Filled" ELSE "PartiallyFilled"
      /\ orders'[m].book_it <=> ~ done
      /\ \A o \in OrderIds \ {m, taker} :
           orders'[o] = orders[o] /\ executed'[o] = executed[o]
  BY <1>3 DEF TradeFacts
<1>9. /\ levels' \in [Sides -> SUBSET Prices]
      /\ queue' \in [Sides -> [Prices -> Seq(OrderIds)]]
      /\ NoEmptyLevel' /\ NodesLive' /\ IteratorsValid' /\ Uncrossed'
  <2>0. 1 \in DOMAIN q /\ m = q[1]
    BY <1>3 DEF TradeFacts
  <2>1. CASE done
    <3>1. Dropped(q, 1, Tail(q))
      BY <1>4, <2>0, HeadTailProperties, LenProperties, EmptySeq DEF Dropped
    <3>2. SetLevel(s, p, Tail(q))
      BY <1>3, <2>1 DEF TradeFacts
    <3>3. /\ orders'[m] # Null /\ ~ orders'[m].book_it /\ ~ orders'[taker].book_it
          /\ \A o \in OrderIds \ {m, taker} : orders'[o] = orders[o]
      BY <1>6, <1>8, <2>1
    <3> QED
      BY <1>1, <1>4, <1>5, <2>0, <3>1, <3>2, <3>3, DropNode
  <2>2. CASE ~ done
    <3>1. UNCHANGED << levels, queue >>
      <4>1. SetLevel(s, p, q)
        BY <1>3, <2>2 DEF TradeFacts
      <4>2. q # <<>>
        BY <2>0, EmptySeq
      <4> QED
        BY <1>1, <1>4, <4>1, <4>2 DEF SetLevel, BooksInv, TypeOK
    <3>2. ASSUME NEW x \in OrderIds
          PROVE  Rests(x) <=> Rests(x)'
      <4>1. CASE x = m
        BY <1>7, <1>8, <2>2, <4>1 DEF Rests, Exists
      <4>2. CASE x = taker
        BY <1>7, <1>8, <4>2 DEF Rests, Exists
      <4>3. CASE x \notin {m, taker}
        BY <1>8, <4>3 DEF Rests, Exists
      <4> QED
        BY <4>1, <4>2, <4>3
    <3>3. ASSUME NEW x \in OrderIds, Rests(x)
          PROVE  /\ x # taker'
                 /\ orders'[x].side = orders[x].side
                 /\ orders'[x].price = orders[x].price
                 /\ orders'[x].type = orders[x].type
                 /\ orders'[x].tif = orders[x].tif
                 /\ orders'[x].remaining > 0
                 /\ orders'[x].status \in {"New", "PartiallyFilled"}
      <4>1. x # taker' /\ x # taker
        BY <1>5, <3>3, RestsLive
      <4>2. CASE x = m
        <5>0. orders[m].remaining \in Int /\ n \in Int /\ n <= orders[m].remaining
          BY <1>7
        <5>1. orders[m].remaining - n > 0
          BY <2>2, <5>0
        <5> QED
          BY <1>8, <2>2, <4>1, <4>2, <5>1
      <4>3. CASE x # m
        BY <1>8, <3>3, <4>1, <4>3, RestsLive
      <4> QED
        BY <4>1, <4>2, <4>3
    <3> QED
      BY <3>1, <3>2, <3>3, KeepBooks DEF BooksInv, TypeOK
  <2> QED
    BY <2>1, <2>2
<1> HIDE DEF done, q
<1>10. ASSUME NEW x \in {m, taker}
       PROVE  /\ executed'[x] \in 0 .. MaxInt
              /\ executed'[x] <= orders'[x].quantity
              /\ executed'[x] + orders'[x].remaining = orders'[x].quantity
  <2>1. /\ executed[x] + n \in 0 .. MaxInt
        /\ executed[x] + n <= orders[x].quantity
        /\ executed[x] + n + (orders[x].remaining - n) = orders[x].quantity
    BY <1>7
  <2> QED
    BY <1>8, <2>1
<1>11. Accounting'
  <2> SUFFICES ASSUME NEW x \in OrderIds
               PROVE  IF orders'[x] = Null THEN executed'[x] = 0
                      ELSE /\ executed'[x] <= orders'[x].quantity
                           /\ \/ orders'[x].status = "Canceled" /\ orders'[x].remaining = 0
                              \/ executed'[x] + orders'[x].remaining = orders'[x].quantity
    BY DEF Accounting, Exists
  <2>1. CASE x \in {m, taker}
    BY <1>8, <1>10, <2>1
  <2>2. CASE x \notin {m, taker}
    BY <1>8, <2>2 DEF BooksInv, Accounting, Exists
  <2> QED
    BY <2>1, <2>2
<1>12. TypeOK'
  <2>1. last_price' \in Prices /\ taker' \in OrderIds
    BY <1>4, <1>5, <1>7
  <2>2. executed' \in [OrderIds -> 0 .. MaxInt]
    <3>1. executed \in [OrderIds -> 0 .. MaxInt]
      BY DEF BooksInv, TypeOK
    <3>2. ASSUME NEW x \in OrderIds
          PROVE  executed'[x] \in 0 .. MaxInt
      BY <1>8, <1>10, <3>1
    <3>3. PICK f : executed' = [o \in OrderIds |-> f[o]]
      BY <1>3 DEF TradeFacts
    <3> QED
      BY <3>2, <3>3
  <2>3. events' \in Seq(MarketEvent) /\ orders' \in [OrderIds -> Order \cup {Null}]
    BY <1>3 DEF TradeFacts
  <2> QED
    BY <1>5, <1>9, <2>1, <2>2, <2>3 DEF BooksInv, TypeOK
<1>13. CallOK'
  BY <1>5, <1>8, <1>10 DEF BooksInv, CallOK, Exists
<1> QED
  BY <1>9, <1>11, <1>12, <1>13 DEF BooksInv

LEMMA MatchInv ==
  ASSUME IInv, taker # Null, Match
  PROVE  IInv'
<1>1. orders[taker].remaining > 0 /\ Opposite(orders[taker].side) \in Sides /\ taker' = taker
  BY DEF Match, CanMatch, Opposite, Sides
<1>2. PICK p \in levels[Opposite(orders[taker].side)] :
        Trade(Opposite(orders[taker].side), p)
  BY DEF Match
<1>3. PICK m, n : TradeFacts(Opposite(orders[taker].side), p, m, n)
  BY <1>1, <1>2, TradeEffect DEF IInv
<1>4. /\ m \in OrderIds /\ n \in Int /\ 0 < n
      /\ n <= orders[m].remaining
      /\ orders'[m].remaining = orders[m].remaining - n
      /\ orders'[m].quantity = orders[m].quantity
      /\ orders'[m].type = orders[m].type
      /\ executed'[m] = executed[m] + n
      /\ orders'[m].status = IF orders[m].remaining = n THEN "Filled"
                                                        ELSE "PartiallyFilled"
      /\ orders'[taker].status = orders[taker].status
      /\ \A x \in OrderIds \ {m, taker} :
           orders'[x] = orders[x] /\ executed'[x] = executed[x]
  BY <1>3 DEF TradeFacts
<1>5. /\ orders[m].remaining \in Int /\ orders[m].quantity \in Int
      /\ executed[m] \in Int /\ 0 <= executed[m]
      /\ executed[m] + orders[m].remaining = orders[m].quantity
  <2>1. orders[m] # Null /\ orders[m] \in Order /\ orders[m].status # "Canceled"
    BY <1>3, RestsLive DEF TradeFacts, Rests, Exists, IInv
  <2>2. executed[m] \in 0 .. MaxInt
    BY <1>4 DEF IInv, BooksInv, TypeOK
  <2> QED
    BY <1>4, <2>1, <2>2, OrdersAssumption DEF IInv, BooksInv, Accounting, Exists, Order
<1>6. StatusAgrees'
  <2> SUFFICES ASSUME NEW x \in OrderIds, orders'[x] # Null, x # taker
               PROVE  /\ orders'[x].status = "Filled" <=> executed'[x] = orders'[x].quantity
                      /\ orders'[x].status = "PartiallyFilled" =>
                           /\ orders'[x].remaining > 0
                           /\ orders'[x].type = "Limit" => executed'[x] > 0
                      /\ orders'[x].status = "New" => executed'[x] = 0
    BY <1>1 DEF StatusAgrees, Exists
  <2>1. CASE x = m
    <3>1. executed[m] + n = orders[m].quantity <=> orders[m].remaining = n
      BY <1>4, <1>5
    <3>2. orders[m].remaining # n => orders[m].remaining - n > 0
      BY <1>4, <1>5
    <3>3. executed[m] + n > 0
      BY <1>4, <1>5
    <3> QED
      BY <1>4, <2>1, <3>1, <3>2, <3>3
  <2>2. CASE x # m
    BY <1>4, <2>2 DEF IInv, StatusAgrees, Exists
  <2> QED
    BY <2>1, <2>2
<1> QED
  BY <1>1, <1>4, <1>6, MatchBooks DEF IInv

-----------------------------------------------------------------------------
(* Adding a new order at the end of a list keeps the nodes of the others.  *)
LEMMA AppendedNodes ==
  ASSUME NEW q \in Seq(OrderIds), NEW o \in OrderIds, \A i \in DOMAIN q : q[i] # o
  PROVE  /\ Append(q, o) \in Seq(OrderIds) /\ Append(q, o) # <<>>
         /\ \A i \in DOMAIN Append(q, o) :
              \/ Append(q, o)[i] = o
              \/ i \in DOMAIN q /\ Append(q, o)[i] = q[i]
         /\ \E k : OnlyAt(Append(q, o), o, k)
         /\ \A x, k : OnlyAt(q, x, k) /\ x # o => OnlyAt(Append(q, o), x, k)
<1> DEFINE r == Append(q, o)
           n == Len(q)
<1>1. /\ r \in Seq(OrderIds) /\ r # <<>>
      /\ n \in Nat /\ DOMAIN q = 1 .. n /\ Len(r) = n + 1 /\ DOMAIN r = 1 .. n + 1
      /\ \A i \in 1 .. n : r[i] = q[i]
      /\ r[n + 1] = o
  BY AppendProperties, LenProperties
<1> HIDE DEF r, n
<1>2. ASSUME NEW i \in 1 .. n + 1
      PROVE  i = n + 1 \/ i \in 1 .. n
  BY <1>1
<1>3. n + 1 \in 1 .. n + 1 /\ n + 1 \notin 1 .. n
  BY <1>1
<1>4. \A i \in DOMAIN r : r[i] = o \/ (i \in DOMAIN q /\ r[i] = q[i])
  BY <1>1, <1>2
<1>5. OnlyAt(r, o, n + 1)
  BY <1>1, <1>2, <1>3 DEF OnlyAt
<1>6. ASSUME NEW x, NEW k, OnlyAt(q, x, k), x # o
      PROVE  OnlyAt(r, x, k)
  <2>1. k \in 1 .. n /\ k \in 1 .. n + 1 /\ k # n + 1
    BY <1>1, <1>6 DEF OnlyAt
  <2> QED
    BY <1>1, <1>2, <1>6, <2>1 DEF OnlyAt
<1> QED
  BY <1>1, <1>4, <1>5, <1>6 DEF r

(* Resting the order being processed preserves the books' invariants.      *)
LEMMA RestNode ==
  ASSUME BooksInv, taker \in OrderIds, taker' = Null,
         NEW s \in Sides, NEW p \in Prices,
         s = orders[taker].side, p = orders[taker].price,
         ~ CanMatch, orders[taker].remaining > 0,
         orders[taker].type = "Limit", orders[taker].tif # "IOC",
         add_order(taker, s, p),
         orders'[taker] # Null, orders'[taker].book_it,
         orders'[taker].side = s, orders'[taker].price = p,
         orders'[taker].type = "Limit", orders'[taker].tif # "IOC",
         orders'[taker].remaining > 0,
         orders'[taker].status \in {"New", "PartiallyFilled"},
         \A o \in OrderIds \ {taker} : orders'[o] = orders[o]
  PROVE  /\ levels' \in [Sides -> SUBSET Prices]
         /\ queue' \in [Sides -> [Prices -> Seq(OrderIds)]]
         /\ NoEmptyLevel' /\ NodesLive' /\ IteratorsValid' /\ Uncrossed'
<1> DEFINE q == queue[s][p]
           r == Append(q, taker)
<1>1. q \in Seq(OrderIds) /\ \A i \in DOMAIN q : q[i] # taker
  BY Nodes DEF BooksInv, TypeOK
<1>2. /\ r \in Seq(OrderIds) /\ r # <<>>
      /\ \A i \in DOMAIN r : r[i] = taker \/ (i \in DOMAIN q /\ r[i] = q[i])
      /\ \E k : OnlyAt(r, taker, k)
      /\ \A x, k : OnlyAt(q, x, k) /\ x # taker => OnlyAt(r, x, k)
  BY <1>1, AppendedNodes
<1> HIDE DEF r
<1>3. /\ levels' \in [Sides -> SUBSET Prices]
      /\ queue' \in [Sides -> [Prices -> Seq(OrderIds)]]
      /\ queue'[s][p] = r
      /\ levels'[s] = levels[s] \cup {p}
      /\ \A t \in Sides : t # s => levels'[t] = levels[t]
  BY <1>2 DEF add_order, BooksInv, TypeOK, r
<1>4. ASSUME NEW t \in Sides, NEW u \in Prices, ~ (t = s /\ u = p)
      PROVE  queue'[t][u] = queue[t][u] /\ (u \in levels'[t] <=> u \in levels[t])
  BY <1>4 DEF add_order, BooksInv, TypeOK
<1>5. NoEmptyLevel'
  <2> SUFFICES ASSUME NEW t \in Sides, NEW u \in Prices
               PROVE  u \in levels'[t] <=> queue'[t][u] # <<>>
    BY DEF NoEmptyLevel
  <2>1. CASE t = s /\ u = p
    BY <1>2, <1>3, <2>1
  <2>2. CASE ~ (t = s /\ u = p)
    BY <1>4, <2>2 DEF BooksInv, NoEmptyLevel
  <2> QED
    BY <2>1, <2>2
<1>6. Uncrossed'
  <2>1. /\ levels \in [Sides -> SUBSET Prices] /\ Prices \subseteq Int
        /\ \A b \in levels["Buy"], a \in levels["Sell"] : b < a
    BY OrdersAssumption DEF BooksInv, TypeOK, Uncrossed
  <2>2. \A u \in levels[Opposite(s)] : ~ Reaches(orders[taker], u)
    BY DEF CanMatch
  <2>3. CASE s = "Buy"
    <3>1. \A a \in levels["Sell"] : p < a
      BY <2>1, <2>2, <2>3 DEF Opposite, Reaches, Sides
    <3> QED
      BY <1>3, <2>1, <2>3, <3>1 DEF Uncrossed, Sides
  <2>4. CASE s = "Sell"
    <3>1. \A b \in levels["Buy"] : b < p
      BY <2>1, <2>2, <2>4 DEF Opposite, Reaches, Sides
    <3> QED
      BY <1>3, <2>1, <2>4, <3>1 DEF Uncrossed, Sides
  <2> QED
    BY <2>3, <2>4 DEF Sides
<1>7. ASSUME NEW t \in Sides, NEW u \in Prices, NEW i \in DOMAIN queue'[t][u]
      PROVE  \/ queue'[t][u][i] = taker /\ t = s /\ u = p
             \/ i \in DOMAIN queue[t][u] /\ queue'[t][u][i] = queue[t][u][i]
  BY <1>2, <1>3, <1>4
<1>8. NodesLive'
  <2> SUFFICES ASSUME NEW t \in Sides, NEW u \in Prices, NEW i \in DOMAIN queue'[t][u]
               PROVE  LET o == queue'[t][u][i] IN
                        /\ orders'[o] # Null
                        /\ o # taker'
                        /\ orders'[o].side = t /\ orders'[o].price = u
                        /\ orders'[o].type = "Limit" /\ orders'[o].tif # "IOC"
                        /\ orders'[o].remaining > 0
                        /\ orders'[o].book_it
                        /\ orders'[o].status \in {"New", "PartiallyFilled"}
    BY DEF NodesLive, Exists
  <2>1. CASE queue'[t][u][i] = taker /\ t = s /\ u = p
    BY <2>1, OrdersAssumption
  <2>2. CASE i \in DOMAIN queue[t][u] /\ queue'[t][u][i] = queue[t][u][i]
    <3>1. queue[t][u][i] \in OrderIds /\ queue[t][u][i] # taker
      BY <2>2, Nodes
    <3> QED
      BY <2>2, <3>1, OrdersAssumption DEF BooksInv, NodesLive, Exists
  <2> QED
    BY <1>7, <2>1, <2>2
<1>9. IteratorsValid'
  <2> SUFFICES ASSUME NEW o \in OrderIds, Rests(o)'
               PROVE  /\ orders'[o].price \in Prices
                      /\ \E i : OnlyAt(queue'[orders'[o].side][orders'[o].price], o, i)
    BY DEF IteratorsValid, Rests, OnlyAt, Exists
  <2>1. CASE o = taker
    BY <1>2, <1>3, <2>1
  <2>2. CASE o # taker
    <3>1. orders'[o] = orders[o] /\ Rests(o)
      BY <2>2 DEF Rests, Exists
    <3> DEFINE t == orders[o].side
               u == orders[o].price
    <3>2. t \in Sides /\ u \in Prices /\ \E k : OnlyAt(queue[t][u], o, k)
      BY <3>1, RestsLive
    <3>3. CASE t = s /\ u = p
      <4>1. PICK k : OnlyAt(q, o, k)
        BY <3>2, <3>3
      <4>2. OnlyAt(queue'[t][u], o, k)
        BY <1>2, <1>3, <2>2, <3>3, <4>1
      <4> QED
        BY <3>1, <3>2, <4>2
    <3>4. CASE ~ (t = s /\ u = p)
      BY <1>4, <3>1, <3>2, <3>4
    <3> QED
      BY <3>3, <3>4
  <2> QED
    BY <2>1, <2>2
<1> QED
  BY <1>3, <1>5, <1>6, <1>8, <1>9

LEMMA FinishBooks ==
  ASSUME BooksInv, taker # Null, NEW rests \in BOOLEAN,
         NEW status \in {"New", "PartiallyFilled", "Filled"},
         Finish(status, rests),
         rests => /\ orders[taker].type = "Limit" /\ orders[taker].tif # "IOC"
                  /\ orders[taker].remaining # 0 /\ status # "Filled"
  PROVE  BooksInv'
<1> DEFINE done == [orders[taker] EXCEPT !.status = status, !.book_it = @ \/ rests]
<1>1. /\ taker \in OrderIds /\ orders[taker] \in Order /\ orders[taker] # Null
      /\ ~ orders[taker].book_it
      /\ orders[taker].remaining \in Int /\ 0 <= orders[taker].remaining
      /\ orders[taker].quantity \in Int /\ 0 < orders[taker].quantity
      /\ orders \in [OrderIds -> Order \cup {Null}]
      /\ executed \in [OrderIds -> 0 .. MaxInt]
      /\ executed[taker] \in Int /\ 0 <= executed[taker]
  BY OrdersAssumption DEF BooksInv, TypeOK, CallOK, Exists, Order
<1>2. executed[taker] + orders[taker].remaining = orders[taker].quantity
  BY DEF BooksInv, CallOK
<1>3. done \in Order /\ done # Null
  <2>1. status \in OrderStatuses /\ (orders[taker].book_it \/ rests) \in BOOLEAN
    BY DEF OrderStatuses
  <2>2. done \in Order
    BY <1>1, <2>1 DEF Order
  <2> QED
    BY <2>2, NullAssumption
<1>4. /\ done.quantity = orders[taker].quantity
      /\ done.remaining = orders[taker].remaining
      /\ done.price = orders[taker].price /\ done.side = orders[taker].side
      /\ done.type = orders[taker].type /\ done.tif = orders[taker].tif
      /\ done.status = status
      /\ done.book_it = rests
  BY <1>1 DEF Order
<1>5. orders' = [orders EXCEPT ![taker] = done]
  BY DEF Finish
<1> HIDE DEF done
<1>6. /\ orders' \in [OrderIds -> Order \cup {Null}]
      /\ orders'[taker] = done
      /\ \A o \in OrderIds \ {taker} : orders'[o] = orders[o]
  BY <1>1, <1>3, <1>5
<1>7. /\ ~ CanMatch /\ taker' = Null
      /\ UNCHANGED << last_price, is_active, crashed, executed >>
  BY DEF Finish
<1>8. /\ levels' \in [Sides -> SUBSET Prices]
      /\ queue' \in [Sides -> [Prices -> Seq(OrderIds)]]
      /\ NoEmptyLevel' /\ NodesLive' /\ IteratorsValid' /\ Uncrossed'
  <2>1. CASE rests
    <3> DEFINE s == orders[taker].side
               p == orders[taker].price
    <3>1. orders[taker].type = "Limit" /\ orders[taker].tif # "IOC"
          /\ orders[taker].remaining > 0
      BY <1>1, <2>1
    <3>2. s \in Sides /\ p \in Prices
      BY <1>1, <3>1, OrdersAssumption DEF BooksInv, CallOK, Order
    <3>3. add_order(taker, s, p)
      BY <2>1 DEF Finish
    <3>4. /\ orders'[taker] # Null /\ orders'[taker].book_it
          /\ orders'[taker].side = s /\ orders'[taker].price = p
          /\ orders'[taker].type = "Limit" /\ orders'[taker].tif # "IOC"
          /\ orders'[taker].remaining > 0
          /\ orders'[taker].status \in {"New", "PartiallyFilled"}
      BY <1>3, <1>4, <1>6, <2>1, <3>1
    <3> HIDE DEF s, p
    <3>5. s = orders[taker].side /\ p = orders[taker].price
      BY DEF s, p
    <3> QED
      BY <1>1, <1>6, <1>7, <3>1, <3>2, <3>3, <3>4, <3>5, RestNode
  <2>2. CASE ~ rests
    <3>1. UNCHANGED << levels, queue >>
      BY <2>2 DEF Finish
    <3>2. ASSUME NEW x \in OrderIds
          PROVE  Rests(x) <=> Rests(x)'
      <4>1. CASE x = taker
        BY <1>1, <1>4, <1>6, <2>2, <4>1 DEF Rests, Exists
      <4>2. CASE x # taker
        BY <1>6, <4>2 DEF Rests, Exists
      <4> QED
        BY <4>1, <4>2
    <3>3. ASSUME NEW x \in OrderIds, Rests(x)
          PROVE  /\ x # taker' /\ orders'[x] = orders[x]
                 /\ orders[x].remaining > 0
                 /\ orders[x].status \in {"New", "PartiallyFilled"}
      <4>1. x # taker /\ x # taker'
        BY <1>7, <3>3, RestsLive, OrdersAssumption
      <4> QED
        BY <1>6, <3>3, <4>1, RestsLive
    <3> QED
      BY <3>1, <3>2, <3>3, KeepBooks DEF BooksInv, TypeOK
  <2> QED
    BY <2>1, <2>2
<1>9. TypeOK'
  <2>1. events' \in Seq(MarketEvent)
    <3>1. make_filled(taker) \in MarketEvent /\ events \in Seq(MarketEvent)
      BY <1>1 DEF make_filled, MarketEvent, BooksInv, TypeOK
    <3>2. Append(events, make_filled(taker)) \in Seq(MarketEvent)
      BY <3>1, AppendProperties
    <3> QED
      BY <3>1, <3>2 DEF Finish
  <2> QED
    BY <1>6, <1>7, <1>8, <2>1 DEF BooksInv, TypeOK
<1>10. CallOK'
  BY <1>7 DEF CallOK
<1>11. Accounting'
  <2> SUFFICES ASSUME NEW x \in OrderIds
               PROVE  IF orders'[x] = Null THEN executed'[x] = 0
                      ELSE /\ executed'[x] <= orders'[x].quantity
                           /\ \/ orders'[x].status = "Canceled" /\ orders'[x].remaining = 0
                              \/ executed'[x] + orders'[x].remaining = orders'[x].quantity
    BY DEF Accounting, Exists
  <2>1. CASE x = taker
    BY <1>1, <1>2, <1>3, <1>4, <1>6, <1>7, <2>1
  <2>2. CASE x # taker
    BY <1>6, <1>7, <2>2 DEF BooksInv, Accounting, Exists
  <2> QED
    BY <2>1, <2>2
<1> QED
  BY <1>8, <1>9, <1>10, <1>11 DEF BooksInv

LEMMA FinishInv ==
  ASSUME IInv, taker # Null, NEW rests \in BOOLEAN,
         NEW status \in {"New", "PartiallyFilled", "Filled"},
         Finish(status, rests),
         status = "Filled" <=> orders[taker].remaining = 0,
         status = "New" => orders[taker].remaining = orders[taker].quantity,
         status = "PartiallyFilled" /\ orders[taker].type = "Limit" =>
           orders[taker].remaining < orders[taker].quantity,
         rests => /\ orders[taker].type = "Limit" /\ orders[taker].tif # "IOC"
                  /\ orders[taker].remaining # 0
  PROVE  IInv'
<1>1. /\ taker \in OrderIds /\ orders[taker] \in Order
      /\ orders[taker].remaining \in Int /\ 0 <= orders[taker].remaining
      /\ orders[taker].quantity \in Int
      /\ executed[taker] \in Int
      /\ executed[taker] + orders[taker].remaining = orders[taker].quantity
  BY OrdersAssumption DEF IInv, BooksInv, TypeOK, CallOK, Exists, Order
<1>2. /\ orders'[taker].status = status
      /\ orders'[taker].quantity = orders[taker].quantity
      /\ orders'[taker].remaining = orders[taker].remaining
      /\ orders'[taker].type = orders[taker].type
      /\ \A x \in OrderIds : x # taker => orders'[x] = orders[x]
      /\ executed' = executed /\ taker' = Null
  BY <1>1 DEF Finish, IInv, BooksInv, TypeOK, Order
<1>3. StatusAgrees'
  <2> SUFFICES ASSUME NEW x \in OrderIds, orders'[x] # Null
               PROVE  /\ orders'[x].status = "Filled" <=> executed'[x] = orders'[x].quantity
                      /\ orders'[x].status = "PartiallyFilled" =>
                           /\ orders'[x].remaining > 0
                           /\ orders'[x].type = "Limit" => executed'[x] > 0
                      /\ orders'[x].status = "New" => executed'[x] = 0
    BY DEF StatusAgrees, Exists
  <2>1. CASE x = taker
    <3>1. /\ status = "Filled" <=> executed[taker] = orders[taker].quantity
          /\ status = "PartiallyFilled" =>
               /\ orders[taker].remaining > 0
               /\ orders[taker].type = "Limit" => executed[taker] > 0
          /\ status = "New" => executed[taker] = 0
      BY <1>1
    <3> QED
      BY <1>2, <2>1, <3>1
  <2>2. CASE x # taker
    BY <1>2, <2>2 DEF IInv, StatusAgrees, Exists
  <2> QED
    BY <2>1, <2>2
<1> QED
  BY <1>2, <1>3, FinishBooks DEF IInv

(* The statuses the ends of the four functions choose.                     *)
LEMMA LimitStatus ==
  ASSUME BooksInv, taker # Null, FinishLimit
  PROVE  \E status \in {"New", "PartiallyFilled", "Filled"}, rests \in BOOLEAN :
           /\ Finish(status, rests)
           /\ rests => orders[taker].remaining # 0 /\ orders[taker].tif # "IOC"
           /\ status = "Filled" <=> orders[taker].remaining = 0
           /\ status = "New" => orders[taker].remaining = orders[taker].quantity
           /\ status = "PartiallyFilled" => orders[taker].remaining < orders[taker].quantity
<1> DEFINE ord == orders[taker]
           status == CASE ord.remaining = 0 -> "Filled"
                       [] ord.remaining \in 1 .. ord.quantity - 1 -> "PartiallyFilled"
                       [] OTHER -> "New"
           rests == ord.remaining # 0 /\ ord.tif # "IOC"
<1>1. /\ ord.remaining \in Int /\ 0 <= ord.remaining
      /\ ord.quantity \in Int /\ 0 < ord.quantity
      /\ ord.remaining <= ord.quantity
  <2>1. taker \in OrderIds /\ ord \in Order
        /\ executed[taker] + ord.remaining = ord.quantity
    BY DEF BooksInv, TypeOK, CallOK, Exists
  <2>2. executed[taker] \in Int /\ 0 <= executed[taker]
    BY <2>1, OrdersAssumption DEF BooksInv, TypeOK
  <2>3. ord.remaining \in Int /\ 0 <= ord.remaining /\ ord.quantity \in Int
        /\ 0 < ord.quantity
    BY <2>1, OrdersAssumption DEF Order
  <2> QED
    BY <2>1, <2>2, <2>3
<1>2. Finish(status, rests)
  BY DEF FinishLimit
<1>3. /\ status \in {"New", "PartiallyFilled", "Filled"}
      /\ status = "Filled" <=> ord.remaining = 0
      /\ status = "New" => ord.remaining = ord.quantity
      /\ status = "PartiallyFilled" => ord.remaining < ord.quantity
  <2>1. CASE ord.remaining = 0
    <3>1. status = "Filled"
      BY <2>1
    <3> QED
      BY <2>1, <3>1
  <2>2. CASE ord.remaining # 0 /\ ord.remaining < ord.quantity
    <3>1. status = "PartiallyFilled"
      BY <1>1, <2>2
    <3> QED
      BY <2>2, <3>1
  <2>3. CASE ord.remaining # 0 /\ ~ (ord.remaining < ord.quantity)
    <3>1. status = "New"
      BY <1>1, <2>3
    <3> QED
      BY <1>1, <2>3, <3>1
  <2> QED
    BY <2>1, <2>2, <2>3
<1>4. rests \in BOOLEAN /\ (rests => ord.remaining # 0 /\ ord.tif # "IOC")
  OBVIOUS
<1> HIDE DEF status, rests
<1> QED
  BY <1>2, <1>3, <1>4

LEMMA MarketStatus ==
  ASSUME BooksInv, taker # Null, FinishMarket
  PROVE  \E status \in {"PartiallyFilled", "Filled"} :
           /\ Finish(status, FALSE)
           /\ status = "Filled" <=> orders[taker].remaining = 0
<1> DEFINE status == IF orders[taker].remaining > 0 THEN "PartiallyFilled" ELSE "Filled"
<1>1. orders[taker].remaining \in Int /\ 0 <= orders[taker].remaining
  BY OrdersAssumption DEF BooksInv, TypeOK, CallOK, Exists, Order
<1>2. /\ status \in {"PartiallyFilled", "Filled"}
      /\ status = "Filled" <=> orders[taker].remaining = 0
  BY <1>1
<1>3. Finish(status, FALSE)
  BY DEF FinishMarket
<1> HIDE DEF status
<1> QED
  BY <1>2, <1>3

(* One step of a call of process_order.                                    *)
ProcessStep ==
  \/ process_limit_buy_order \/ process_limit_sell_order
  \/ process_market_buy_order \/ process_market_sell_order

LEMMA ProcessCases ==
  ASSUME BooksInv, ProcessStep
  PROVE  /\ taker # Null
         /\ \/ Match
            \/ \E status \in {"New", "PartiallyFilled", "Filled"}, rests \in BOOLEAN :
                 /\ Finish(status, rests)
                 /\ rests => /\ orders[taker].type = "Limit" /\ orders[taker].tif # "IOC"
                             /\ orders[taker].remaining # 0 
                 /\ status = "Filled" <=> orders[taker].remaining = 0
                 /\ status = "New" => orders[taker].remaining = orders[taker].quantity
                 /\ status = "PartiallyFilled" /\ orders[taker].type = "Limit" =>
                      orders[taker].remaining < orders[taker].quantity
<1>1. /\ taker # Null
      /\ \/ Match
         \/ orders[taker].type = "Limit" /\ FinishLimit
         \/ orders[taker].type = "Market" /\ FinishMarket
  BY DEF ProcessStep, process_limit_buy_order, process_limit_sell_order,
     process_market_buy_order, process_market_sell_order, Processing
<1>2. CASE orders[taker].type = "Limit" /\ FinishLimit
  BY <1>1, <1>2, LimitStatus
<1>3. CASE orders[taker].type = "Market" /\ FinishMarket
  <2>1. PICK status \in {"PartiallyFilled", "Filled"} :
           /\ Finish(status, FALSE)
           /\ status = "Filled" <=> orders[taker].remaining = 0
    BY <1>1, <1>3, MarketStatus
  <2> QED
    BY <1>1, <1>3, <2>1
<1> QED
  BY <1>1, <1>2, <1>3

LEMMA ProcessBooks ==
  ASSUME BooksInv, ProcessStep
  PROVE  BooksInv'
<1>1. taker # Null
  BY ProcessCases
<1>2. CASE Match
  BY <1>1, <1>2, MatchBooks
<1>3. CASE \E status \in {"New", "PartiallyFilled", "Filled"}, rests \in BOOLEAN :
                 /\ Finish(status, rests)
                 /\ rests => /\ orders[taker].type = "Limit" /\ orders[taker].tif # "IOC"
                             /\ orders[taker].remaining # 0 
                 /\ status = "Filled" <=> orders[taker].remaining = 0
  BY <1>1, <1>3, FinishBooks
<1> QED
  BY <1>2, <1>3, ProcessCases

LEMMA ProcessInv ==
  ASSUME IInv, ProcessStep
  PROVE  IInv'
BY ProcessCases, MatchInv, FinishInv DEF IInv

LEMMA CancelBooks ==
  ASSUME BooksInv, NEW o \in OrderIds, orders[o] # Null, cancel_order(o)
  PROVE  BooksInv'
<1>1. /\ taker = Null /\ taker' = Null /\ events' = <<>>
      /\ UNCHANGED << last_price, is_active, executed >>
  BY DEF cancel_order
<1>2. CASE UNCHANGED << orders, levels, queue >>
  <2>1. TypeOK'
    <3>1. crashed' \in BOOLEAN
      BY DEF cancel_order, BooksInv, TypeOK
    <3> QED
      BY <1>1, <1>2, <3>1, EmptySeq DEF BooksInv, TypeOK
  <2>2. NoEmptyLevel' /\ NodesLive' /\ IteratorsValid' /\ Uncrossed'
    <3>1. \A x \in OrderIds : Rests(x) <=> Rests(x)'
      BY <1>2 DEF Rests, Exists
    <3> QED
      BY <1>1, <1>2, <3>1, RestsLive, KeepBooks
  <2>3. CallOK' /\ Accounting'
    BY <1>1, <1>2 DEF BooksInv, CallOK, Accounting, Exists
  <2> QED
    BY <2>1, <2>2, <2>3 DEF BooksInv
<1>3. CASE ~ UNCHANGED << orders, levels, queue >>
  <2> DEFINE s == orders[o].side
             p == orders[o].price
             canceled == [orders[o] EXCEPT !.status = "Canceled", !.book_it = FALSE,
                                           !.remaining = 0]
  <2>1. /\ orders[o].book_it
        /\ EraseNode(o, s, p)
        /\ orders' = [orders EXCEPT ![o].status = "Canceled", ![o].book_it = FALSE,
                                    ![o].remaining = 0]
        /\ crashed' = crashed
    BY <1>3 DEF cancel_order
  <2>2. /\ Rests(o) /\ orders[o] \in Order
        /\ orders \in [OrderIds -> Order \cup {Null}]
        /\ s \in Sides /\ p \in Prices
    BY <2>1, RestsLive DEF Rests, Exists, BooksInv, TypeOK
  <2>3. canceled \in Order /\ canceled # Null
    <3>1. 0 \in 0 .. MaxInt /\ "Canceled" \in OrderStatuses
      BY OrdersAssumption DEF OrderStatuses
    <3>2. canceled \in Order
      BY <2>2, <3>1 DEF Order
    <3> QED
      BY <3>2, NullAssumption
  <2>4. /\ canceled.status = "Canceled" /\ canceled.remaining = 0
        /\ ~ canceled.book_it /\ canceled.quantity = orders[o].quantity
    BY <2>2 DEF Order
  <2>5. orders' = [orders EXCEPT ![o] = canceled]
    BY <2>1
  <2> HIDE DEF canceled
  <2>6. /\ orders' \in [OrderIds -> Order \cup {Null}]
        /\ orders'[o] = canceled
        /\ \A x \in OrderIds \ {o} : orders'[x] = orders[x]
    BY <2>2, <2>3, <2>5
  <2> DEFINE q == queue[s][p]
  <2>7. PICK d \in DOMAIN q : q[d] = o /\ SetLevel(s, p, RemoveAt(q, d))
    BY <2>1 DEF EraseNode
  <2>8. Dropped(q, d, RemoveAt(q, d))
    <3>1. q \in Seq(OrderIds) /\ d \in 1 .. Len(q)
      BY <2>2, LenProperties DEF BooksInv, TypeOK
    <3> QED
      BY <3>1, RemoveAtProperties DEF Dropped
  <2> HIDE DEF s, p
  <2>9. /\ levels' \in [Sides -> SUBSET Prices]
        /\ queue' \in [Sides -> [Prices -> Seq(OrderIds)]]
        /\ NoEmptyLevel' /\ NodesLive' /\ IteratorsValid' /\ Uncrossed'
    BY <1>1, <2>2, <2>3, <2>4, <2>6, <2>7, <2>8, DropNode
  <2>10. TypeOK'
    BY <1>1, <2>1, <2>6, <2>9, EmptySeq DEF BooksInv, TypeOK
  <2>11. CallOK'
    BY <1>1 DEF CallOK
  <2>12. /\ executed[o] \in Int /\ orders[o].quantity \in Int
         /\ orders[o].remaining \in Int /\ orders[o].remaining > 0
         /\ executed[o] + orders[o].remaining = orders[o].quantity
    <3>1. orders[o].remaining > 0 /\ orders[o].status # "Canceled"
      BY <2>2, RestsLive
    <3>2. executed[o] \in 0 .. MaxInt
      BY DEF BooksInv, TypeOK
    <3> QED
      BY <2>2, <3>1, <3>2, OrdersAssumption DEF BooksInv, Accounting, Exists, Order
  <2>13. executed[o] <= orders[o].quantity /\ executed[o] # orders[o].quantity
    BY <2>12
  <2>14. Accounting'
    <3> SUFFICES ASSUME NEW x \in OrderIds
                 PROVE  IF orders'[x] = Null THEN executed'[x] = 0
                        ELSE /\ executed'[x] <= orders'[x].quantity
                             /\ \/ orders'[x].status = "Canceled" /\ orders'[x].remaining = 0
                                \/ executed'[x] + orders'[x].remaining = orders'[x].quantity
      BY DEF Accounting, Exists
    <3>1. CASE x = o
      BY <1>1, <2>3, <2>4, <2>6, <2>13, <3>1
    <3>2. CASE x # o
      BY <1>1, <2>6, <3>2 DEF BooksInv, Accounting, Exists
    <3> QED
      BY <3>1, <3>2
  <2> QED
    BY <2>9, <2>10, <2>11, <2>14 DEF BooksInv
<1> QED
  BY <1>2, <1>3

LEMMA CancelInv ==
  ASSUME IInv, NEW o \in OrderIds, orders[o] # Null, cancel_order(o)
  PROVE  IInv'
<1>1. taker = Null /\ taker' = Null /\ executed' = executed
  BY DEF cancel_order
<1>2. BooksInv'
  BY CancelBooks DEF IInv
<1>3. CASE orders' = orders
  BY <1>1, <1>2, <1>3 DEF IInv, StatusAgrees, Exists
<1>4. CASE orders' # orders
  <2>1. Rests(o) /\ orders[o] \in Order
    BY <1>4 DEF cancel_order, Rests, Exists, IInv, BooksInv, TypeOK
  <2>2. /\ orders'[o].status = "Canceled" /\ orders'[o].quantity = orders[o].quantity
        /\ \A x \in OrderIds : x # o => orders'[x] = orders[x]
    BY <1>4, <2>1 DEF cancel_order, IInv, BooksInv, TypeOK, Order
  <2>3. executed[o] # orders[o].quantity
    <3>1. orders[o].remaining > 0 /\ orders[o].status # "Canceled"
      BY <2>1, RestsLive DEF IInv
    <3>2. executed[o] \in 0 .. MaxInt
      BY DEF IInv, BooksInv, TypeOK
    <3> QED
      BY <2>1, <3>1, <3>2, OrdersAssumption DEF IInv, BooksInv, Accounting, Exists, Rests, Order
  <2>4. StatusAgrees'
    BY <1>1, <2>2, <2>3 DEF IInv, StatusAgrees, Exists
  <2> QED
    BY <1>1, <1>2, <2>4 DEF IInv
<1> QED
  BY <1>3, <1>4

(* IInv is inductive, so it holds in every reachable state: the two books  *)
(* hold exactly the live orders, every iterator is valid, the market is    *)
(* never crossed, and an order's trades, remaining quantity and status     *)
(* agree.                                                                  *)
THEOREM Invariance == MarketSpec => []IInv
<1>1. MarketInit => IInv
  BY InitInv
<1>2. IInv /\ [MarketNext]_marketVars => IInv'
  <2> SUFFICES ASSUME IInv, [MarketNext]_marketVars
               PROVE  IInv'
    OBVIOUS
  <2>1. CASE \E o \in OrderIds, ord \in NewOrders :
               orders[o] = Null /\ process_order(o, ord)
    BY <2>1, EntryInv
  <2>2. CASE ProcessStep
    BY <2>2, ProcessInv
  <2>3. CASE \E o \in OrderIds : orders[o] # Null /\ cancel_order(o)
    BY <2>3, CancelInv
  <2>4. CASE activate
    BY <2>4, SwitchInv DEF activate
  <2>5. CASE deactivate
    BY <2>5, SwitchInv DEF deactivate
  <2>6. CASE UNCHANGED marketVars
    BY <2>6, SwitchInv DEF marketVars, IInv, BooksInv, TypeOK
  <2> QED
    BY <2>1, <2>2, <2>3, <2>4, <2>5, <2>6 DEF MarketNext, ProcessStep
<1> QED
  BY <1>1, <1>2, PTL DEF MarketSpec

-----------------------------------------------------------------------------
(* The parts of IInv that the runs check, one theorem each.                *)

(* The variables keep their types: in particular no order's remaining or   *)
(* executed quantity leaves 0 .. MaxInt, whatever is matched with what.    *)
THEOREM TypeCorrectness == MarketSpec => []TypeOK
BY Invariance, PTL DEF IInv, BooksInv

(* No level is empty: front() of the first level, which get_best_order and *)
(* the matching loops call, is defined.                                    *)
THEOREM LevelsHold == MarketSpec => []NoEmptyLevel
BY Invariance, PTL DEF IInv, BooksInv

(* Every node of a list is a live order of that side and price, and not    *)
(* the order being matched: nothing that is filled or canceled trades.     *)
THEOREM NodesAreLive == MarketSpec => []NodesLive
BY Invariance, PTL DEF IInv, BooksInv

(* Every iterator an order keeps points at the order's one node, so        *)
(* list::erase through a set iterator is defined and removes that order.   *)
THEOREM BookIntegrity == MarketSpec => []IteratorsValid
BY Invariance, PTL DEF IInv, BooksInv

(* The best bid is below the best ask in every state, also in the middle   *)
(* of a matching loop.                                                     *)
THEOREM NeverCrossed == MarketSpec => []Uncrossed
BY Invariance, PTL DEF IInv, BooksInv

(* Trades account for what an order has lost of its quantity.              *)
THEOREM FillsAddUp == MarketSpec => []Accounting
BY Invariance, PTL DEF IInv, BooksInv

(* An order's status says which part of it was filled.                     *)
THEOREM StatusTells == MarketSpec => []StatusAgrees
BY Invariance, PTL DEF IInv

(* No step changes a filled or canceled order.                             *)
LEMMA FinalStep ==
  ASSUME IInv, [MarketNext]_marketVars,
         NEW o \in OrderIds, Exists(o), orders[o].status \in {"Filled", "Canceled"}
  PROVE  orders'[o] = orders[o]
<1>1. CASE \E x \in OrderIds, ord \in NewOrders :
             orders[x] = Null /\ process_order(x, ord)
  BY <1>1 DEF Exists, process_order, IInv, BooksInv, TypeOK
<1>2. ASSUME taker # Null, Match
      PROVE  orders'[o] = orders[o]
  <2>1. Opposite(orders[taker].side) \in Sides /\ orders[taker].remaining > 0
    BY <1>2 DEF Opposite, Sides, Match, CanMatch
  <2>2. PICK p \in levels[Opposite(orders[taker].side)] :
          Trade(Opposite(orders[taker].side), p)
    BY <1>2 DEF Match
  <2>3. PICK m, n : TradeFacts(Opposite(orders[taker].side), p, m, n)
    BY <1>2, <2>1, <2>2, TradeEffect DEF IInv
  <2>4. o # m /\ o # taker
    BY <1>2, <2>3, RestsLive DEF TradeFacts, IInv
  <2> QED
    BY <2>3, <2>4 DEF TradeFacts
<1>3. ASSUME taker # Null, NEW status, NEW rests, Finish(status, rests)
      PROVE  orders'[o] = orders[o]
  BY <1>3 DEF Finish, IInv, BooksInv, TypeOK
<1>4. CASE \/ process_limit_buy_order \/ process_limit_sell_order
           \/ process_market_buy_order \/ process_market_sell_order
  BY <1>2, <1>3, <1>4 DEF process_limit_buy_order, process_limit_sell_order,
     process_market_buy_order, process_market_sell_order, Processing, FinishLimit,
     FinishMarket
<1>5. CASE \E x \in OrderIds : orders[x] # Null /\ cancel_order(x)
  <2>1. PICK x \in OrderIds : orders[x] # Null /\ cancel_order(x)
    BY <1>5
  <2>2. CASE orders' = orders
    BY <2>2
  <2>3. CASE orders' # orders
    <3>1. orders[x].book_it
      BY <2>1, <2>3 DEF cancel_order
    <3>2. o # x
      BY <2>1, <3>1, RestsLive DEF IInv, Rests, Exists
    <3> QED
      BY <2>1, <2>3, <3>2 DEF cancel_order, IInv, BooksInv, TypeOK
  <2> QED
    BY <2>2, <2>3
<1>6. CASE activate \/ deactivate \/ UNCHANGED marketVars
  BY <1>6 DEF activate, deactivate, marketVars
<1> QED
  BY <1>1, <1>4, <1>5, <1>6 DEF MarketNext

(* A filled or canceled order is never touched again, by matching or by a  *)
(* late or repeated cancel.                                                *)
THEOREM Finality == MarketSpec => FinalStatesAreFinal
<1>1. IInv /\ [MarketNext]_marketVars =>
        [ \A o \in OrderIds :
            Exists(o) /\ orders[o].status \in {"Filled", "Canceled"} =>
              orders'[o] = orders[o] ]_marketVars
  BY FinalStep
<1> QED
  BY <1>1, Invariance, PTL DEF MarketSpec, FinalStatesAreFinal

-----------------------------------------------------------------------------
(* The event vector.  FilledNow(o): the current or last call reports o as  *)
(* filled.  TradedNow: the sum of the quantities of its trades.            *)
FilledNow(o) == \E j \in DOMAIN events \ Trades : events[j].order_id = o
TradedNow == SumFunction([i \in Trades |-> events[i].executed_qty])

(* What EventsAccount says of the trade i, and that its orders exist.      *)
TradeSound(i) ==
  LET e == events[i]
      t == orders[e.order_id]
      m == orders[e.counterparty_id]
  IN /\ e.order_id \in OrderIds /\ e.counterparty_id \in OrderIds
     /\ e.order_id # e.counterparty_id
     /\ t # Null /\ m # Null
     /\ t.side # m.side
     /\ e.executed_price = m.price
     /\ t.price # Null =>
          IF t.side = "Buy" THEN m.price <= t.price ELSE m.price >= t.price
     /\ m.remaining = 0 <=> FilledNow(e.counterparty_id)
     /\ taker = Null /\ t.remaining = 0 => FilledNow(e.order_id)

(* Trades come at prices that get worse, if they change.                   *)
PricesWorsen ==
  \A i, j \in Trades : j < i =>
    ~ Better(orders[events[i].counterparty_id].side,
             events[i].executed_price, events[j].executed_price)

(* The inductive invariant adds to EventsAccount what a call knows while   *)
(* it is under way: all trades are the taker's, no level is left with a    *)
(* price better than one already traded at, and the orders reported as     *)
(* filled have nothing left.                                               *)
EventsInv ==
  /\ taker # Null => executed[taker] = TradedNow
  /\ \A i \in Trades : TradeSound(i)
  /\ PricesWorsen
  /\ \A j \in DOMAIN events \ Trades :
       LET o == events[j].order_id IN
       o \in OrderIds /\ o # taker /\ orders[o] # Null /\ orders[o].remaining = 0
  /\ taker # Null =>
       \A i \in Trades :
         LET side == Opposite(orders[taker].side) IN
         /\ events[i].order_id = taker
         /\ \A p \in levels[side] : ~ Better(side, p, events[i].executed_price)

LEMMA EventsInvAccounts == EventsInv => EventsAccount
<1> SUFFICES ASSUME EventsInv PROVE EventsAccount
  OBVIOUS
<1>1. ASSUME NEW i \in Trades, NEW j \in Trades, j < i
      PROVE  ~ Better(orders[events[i].counterparty_id].side,
                      orders[events[i].counterparty_id].price,
                      events[j].executed_price)
  BY <1>1 DEF EventsInv, PricesWorsen, TradeSound
<1> QED
  BY <1>1 DEF EventsInv, EventsAccount, TradeSound, TradedNow, FilledNow

(* The trades of a call are finitely many, and their quantities are ints.  *)
LEMMA TradesFinite ==
  ASSUME events \in Seq(MarketEvent)
  PROVE  /\ IsFiniteSet(Trades)
         /\ Trades \subseteq 1 .. Len(events)
         /\ \A i \in Trades : events[i].executed_qty \in 0 .. MaxInt
<1>1. Len(events) \in Nat /\ DOMAIN events = 1 .. Len(events)
  BY LenProperties
<1>2. Trades \subseteq 1 .. Len(events) /\ IsFiniteSet(1 .. Len(events))
  BY <1>1, FS_Interval DEF Trades
<1>3. ASSUME NEW i \in Trades PROVE events[i].executed_qty \in 0 .. MaxInt
  <2>1. events[i] \in MarketEvent /\ events[i].type = "Trade"
    BY ElementOfSeq, <1>1 DEF Trades
  <2> QED
    BY <2>1 DEF MarketEvent
<1> QED
  BY <1>2, <1>3, FS_Subset

(* Before the first trade of a call, and after a call that makes none.     *)
LEMMA NoEvents ==
  ASSUME events' = <<>>, taker' # Null => executed'[taker'] = 0
  PROVE  EventsInv'
<1>1. Trades' = {} /\ DOMAIN events' = {}
  BY EmptySeq DEF Trades
<1>2. TradedNow' = 0
  <2> DEFINE f == [i \in Trades' |-> events'[i].executed_qty]
  <2>1. DOMAIN f = {}
    BY <1>1
  <2>2. TradedNow' = SumFunctionOnSet(f, DOMAIN f)
    BY DEF TradedNow, SumFunction
  <2> QED
    BY <2>1, <2>2, SumNothing
<1> QED
  BY <1>1, <1>2 DEF EventsInv, PricesWorsen

(* What a step that adds no event keeps.                                   *)
LEMMA SameEvents ==
  ASSUME EventsInv, UNCHANGED << orders, levels, taker, events, executed >>
  PROVE  EventsInv'
BY DEF EventsInv, PricesWorsen, TradeSound, FilledNow, Trades, TradedNow, Better

(* One trade e, and a Filled event f when c, at the end of the vector.     *)
LEMMA MoreEvents ==
  ASSUME events \in Seq(MarketEvent), NEW e, NEW f, NEW c \in BOOLEAN,
         e.type = "Trade", f.type = "FilledOrder", 
         e \in MarketEvent, f \in MarketEvent,
         events' = events \o << e >> \o (IF c THEN << f >> ELSE <<>>)
  PROVE  LET n == Len(events) IN
         /\ n \in Nat
         /\ DOMAIN events = 1 .. n
         /\ Trades' = Trades \cup {n + 1}
         /\ \A i \in 1 .. n : events'[i] = events[i]
         /\ events'[n + 1] = e
         /\ DOMAIN events' \ Trades' =
              (DOMAIN events \ Trades) \cup (IF c THEN {n + 2} ELSE {})
         /\ c => events'[n + 2] = f
<1> DEFINE n == Len(events)
           a == events \o << e >>
<1>1. n \in Nat /\ DOMAIN events = 1 .. n
  BY LenProperties
<1>2. /\ a \in Seq(MarketEvent) /\ Len(a) = n + 1
      /\ \A i \in 1 .. n : a[i] = events[i]
      /\ a[n + 1] = e
  <2>1. << e >> \in Seq(MarketEvent) /\ Len(<< e >>) = 1 /\ << e >>[1] = e
    OBVIOUS
  <2>2. /\ a \in Seq(MarketEvent) /\ Len(a) = n + 1
        /\ \A i \in 1 .. n + 1 : a[i] = IF i <= n THEN events[i] ELSE << e >>[i - n]
    BY <2>1, ConcatProperties
  <2>3. ASSUME NEW i \in 1 .. n PROVE a[i] = events[i]
    <3>1. i \in 1 .. n + 1 /\ i <= n
      BY <1>1
    <3> QED
      BY <2>2, <3>1
  <2>4. a[n + 1] = e
    <3>1. n + 1 \in 1 .. n + 1 /\ ~ (n + 1 <= n) /\ (n + 1) - n = 1
      BY <1>1
    <3>2. a[n + 1] = << e >>[(n + 1) - n]
      BY <2>2, <3>1
    <3> QED
      BY <2>1, <3>1, <3>2
  <2> QED
    BY <2>2, <2>3, <2>4
<1> HIDE DEF n, a
<1>3. /\ ~ c => events' = a \o <<>>
      /\ c => events' = a \o << f >>
  BY DEF a
<1>4. /\ DOMAIN events' = 1 .. (IF c THEN n + 2 ELSE n + 1)
      /\ \A i \in 1 .. n + 1 : events'[i] = a[i]
      /\ c => events'[n + 2] = f
  <2>1. CASE c
    <3>1. << f >> \in Seq(MarketEvent) /\ Len(<< f >>) = 1 /\ << f >>[1] = f
      OBVIOUS
    <3>2. /\ events' \in Seq(MarketEvent) /\ Len(events') = n + 2
          /\ \A i \in 1 .. n + 2 :
               events'[i] = IF i <= n + 1 THEN a[i] ELSE << f >>[i - (n + 1)]
      <4>1. /\ a \o << f >> \in Seq(MarketEvent)
            /\ Len(a \o << f >>) = Len(a) + Len(<< f >>)
            /\ \A i \in 1 .. Len(a) + Len(<< f >>) :
                 (a \o << f >>)[i] = IF i <= Len(a) THEN a[i] ELSE << f >>[i - Len(a)]
        BY <1>2, <3>1, ConcatProperties
      <4>2. Len(a) + Len(<< f >>) = n + 2
        BY <1>1, <1>2, <3>1
      <4> QED
        BY <1>2, <1>3, <2>1, <4>1, <4>2
    <3>3. ASSUME NEW i \in 1 .. n + 1 PROVE events'[i] = a[i]
      <4>1. i \in 1 .. n + 2 /\ i <= n + 1
        BY <1>1
      <4> QED
        BY <3>2, <4>1
    <3>4. events'[n + 2] = f
      <4>1. n + 2 \in 1 .. n + 2 /\ ~ (n + 2 <= n + 1) /\ (n + 2) - (n + 1) = 1
        BY <1>1
      <4> QED
        BY <3>1, <3>2, <4>1
    <3>5. DOMAIN events' = 1 .. n + 2
      BY <3>2, LenProperties
    <3> QED
      BY <2>1, <3>3, <3>4, <3>5
  <2>2. CASE ~ c
    <3>1. events' = a
      BY <1>2, <1>3, <2>2, ConcatEmptySeq
    <3> QED
      BY <1>2, <2>2, <3>1, LenProperties
  <2> QED
    BY <2>1, <2>2
<1>5. /\ \A i \in 1 .. n : events'[i] = events[i]
      /\ events'[n + 1] = e
  <2>1. n + 1 \in 1 .. n + 1 /\ \A i \in 1 .. n : i \in 1 .. n + 1
    BY <1>1
  <2>2. ASSUME NEW i \in 1 .. n PROVE events'[i] = events[i]
    BY <1>2, <1>4, <2>1
  <2>3. events'[n + 1] = e
    BY <1>2, <1>4, <2>1
  <2> QED
    BY <2>2, <2>3
<1>6. Trades' = Trades \cup {n + 1}
  <2>1. ASSUME NEW i \in Trades' PROVE i \in Trades \cup {n + 1}
    <3>1. i \in DOMAIN events' /\ events'[i].type = "Trade"
      BY DEF Trades
    <3>2. i # n + 2 \/ ~ c
      BY <1>4, <3>1
    <3>3. i \in 1 .. n \/ i = n + 1
      BY <1>1, <1>4, <3>1, <3>2
    <3> QED
      BY <1>1, <1>5, <3>1, <3>3 DEF Trades
  <2>2. ASSUME NEW i \in Trades PROVE i \in Trades'
    <3>1. i \in 1 .. n /\ events[i].type = "Trade"
      BY <1>1 DEF Trades
    <3>2. i \in DOMAIN events'
      BY <1>1, <1>4, <3>1
    <3> QED
      BY <1>5, <3>1, <3>2 DEF Trades
  <2>3. n + 1 \in Trades'
    <3>1. n + 1 \in DOMAIN events'
      BY <1>1, <1>4
    <3> QED
      BY <1>5, <3>1 DEF Trades
  <2> QED
    BY <2>1, <2>2, <2>3
<1>7. DOMAIN events' \ Trades' = (DOMAIN events \ Trades) \cup (IF c THEN {n + 2} ELSE {})
  <2>1. Trades \subseteq 1 .. n
    BY <1>1 DEF Trades
  <2>2. CASE c
    <3>1. DOMAIN events' = 1 .. n \cup {n + 1, n + 2}
      BY <1>1, <1>4, <2>2
    <3>2. n + 1 \notin 1 .. n /\ n + 2 \notin 1 .. n /\ n + 1 # n + 2
      BY <1>1
    <3> QED
      BY <1>1, <1>6, <2>1, <2>2, <3>1, <3>2
  <2>3. CASE ~ c
    <3>1. DOMAIN events' = 1 .. n \cup {n + 1}
      BY <1>1, <1>4, <2>3
    <3>2. n + 1 \notin 1 .. n
      BY <1>1
    <3> QED
      BY <1>1, <1>6, <2>1, <2>3, <3>1, <3>2
  <2> QED
    BY <2>2, <2>3
<1> QED
  BY <1>1, <1>4, <1>5, <1>6, <1>7 DEF n

(* A trade: the vector gets the trade, and the resting order's Filled event *)
(* when the trade fills it.                                                 *)
TradeAppended(m, p, n) ==
  LET k == Len(events)
      done == orders[m].remaining = n
  IN
  /\ k \in Nat /\ DOMAIN events = 1 .. k
  /\ Trades' = Trades \cup {k + 1}
  /\ \A i \in 1 .. k : events'[i] = events[i]
  /\ events'[k + 1] = make_trade(taker, m, p, n)
  /\ DOMAIN events' \ Trades' =
       (DOMAIN events \ Trades) \cup (IF done THEN {k + 2} ELSE {})
  /\ done => events'[k + 2] = make_filled(m)

LEMMA TradeAppends ==
  ASSUME BooksInv, NEW s, NEW p \in Prices, NEW m, NEW n, TradeFacts(s, p, m, n)
  PROVE  TradeAppended(m, p, n)
<1>0. n \in 0 .. MaxInt
  <2>1. n \in Int /\ 0 < n /\ n <= MaxInt
    BY DEF TradeFacts
  <2> QED
    BY <2>1, OrdersAssumption
<1>1. n \in 0 .. MaxInt /\ events \in Seq(MarketEvent) /\ taker \in OrderIds /\ m \in OrderIds
  BY <1>0 DEF BooksInv, TypeOK, TradeFacts
<1> DEFINE done == orders[m].remaining = n
           e == make_trade(taker, m, p, n)
           f == make_filled(m)
<1>2. e \in MarketEvent /\ f \in MarketEvent
      /\ e.type = "Trade" /\ f.type = "FilledOrder"
  BY <1>1 DEF make_trade, make_filled, MarketEvent
<1>3. events' = events \o << e >> \o (IF done THEN << f >> ELSE <<>>)
  BY DEF TradeFacts
<1>4. done \in BOOLEAN
  OBVIOUS
<1> HIDE DEF e, f, done
<1>5. LET k == Len(events) IN
      /\ k \in Nat /\ DOMAIN events = 1 .. k
      /\ Trades' = Trades \cup {k + 1}
      /\ \A i \in 1 .. k : events'[i] = events[i]
      /\ events'[k + 1] = e
      /\ DOMAIN events' \ Trades' =
           (DOMAIN events \ Trades) \cup (IF done THEN {k + 2} ELSE {})
      /\ done => events'[k + 2] = f
  BY <1>1, <1>2, <1>3, <1>4, MoreEvents
<1> QED
  BY <1>5 DEF e, f, done, TradeAppended

LEMMA MatchEvents ==
  ASSUME BooksInv, EventsInv, taker # Null, Match
  PROVE  EventsInv'
<1>0. taker \in OrderIds /\ orders[taker].remaining > 0 /\ taker' = taker
  BY DEF BooksInv, TypeOK, Match, CanMatch
<1>1. PICK s \in Sides : s = Opposite(orders[taker].side)
  BY DEF Opposite, Sides
<1>2. PICK p \in levels[s] : IsBest(s, p) /\ Trade(s, p)
  BY <1>1 DEF Match
<1>3. PICK m, n : TradeFacts(s, p, m, n)
  BY <1>0, <1>1, <1>2, TradeEffect
<1>4. p \in Prices /\ Prices \subseteq Int /\ levels[s] \subseteq Int
  BY <1>1, OrdersAssumption DEF BooksInv, TypeOK
<1> DEFINE done == orders[m].remaining = n
           e == make_trade(taker, m, p, n)
           f == make_filled(m)
           k == Len(events)
<1>5. /\ taker \in OrderIds /\ m \in OrderIds /\ m # taker
      /\ n \in Int /\ 0 < n /\ n <= MaxInt
      /\ orders[m] # Null /\ orders[taker] # Null
      /\ orders[m].remaining \in Int /\ orders[taker].remaining \in Int
      /\ orders[m].remaining > 0
      /\ orders[m].price = p /\ orders[m].side = s
  <2>1. orders[m] \in Order /\ orders[taker] \in Order /\ Rests(m)
        /\ m = queue[s][p][1] /\ 1 \in DOMAIN queue[s][p] 
    BY <1>3 DEF TradeFacts
  <2>2. orders[m].price = p /\ orders[m].side = s
    <3>1. LET o == queue[s][p][1] IN orders[o].side = s /\ orders[o].price = p
      BY <1>4, <2>1, Nodes
    <3> QED
      BY <2>1, <3>1
  <2>3. orders[m].remaining > 0
    <3>1. m \in OrderIds
      BY <1>3 DEF TradeFacts
    <3> QED
      BY <2>1, <3>1, RestsLive
  <2>4. orders[m].remaining \in Int /\ orders[taker].remaining \in Int
    BY <2>1, OrdersAssumption DEF Order
  <2> QED
    BY <1>3, <2>1, <2>2, <2>3, <2>4, NullAssumption DEF TradeFacts
<1>6. /\ \A o \in OrderIds : /\ (orders'[o] # Null <=> orders[o] # Null)
                             /\ orders'[o].side = orders[o].side
                             /\ orders'[o].price = orders[o].price
      /\ \A o \in OrderIds \ {m, taker} : orders'[o].remaining = orders[o].remaining
      /\ orders'[m].remaining = 0 <=> done
      /\ executed'[taker] = executed[taker] + n
  <2>1. \A o \in {m, taker} : /\ orders'[o] # Null
                              /\ orders'[o].remaining = orders[o].remaining - n
                              /\ orders'[o].side = orders[o].side
                              /\ orders'[o].price = orders[o].price
                              /\ executed'[o] = executed[o] + n
    BY <1>3 DEF TradeFacts
  <2>2. \A o \in OrderIds \ {m, taker} : orders'[o] = orders[o]
    BY <1>3 DEF TradeFacts
  <2>3. orders'[m].remaining = 0 <=> done
    BY <1>5, <2>1
  <2> QED
    BY <1>5, <2>1, <2>2, <2>3
<1>7. /\ k \in Nat /\ DOMAIN events = 1 .. k
      /\ Trades' = Trades \cup {k + 1}
      /\ \A i \in 1 .. k : events'[i] = events[i]
      /\ events'[k + 1] = e
      /\ DOMAIN events' \ Trades' =
           (DOMAIN events \ Trades) \cup (IF done THEN {k + 2} ELSE {})
      /\ done => events'[k + 2] = f
  <2> HIDE DEF done, e, f, k
  <2>1. TradeAppended(m, p, n)
    BY <1>3, <1>4, TradeAppends
  <2> QED
    BY <2>1 DEF TradeAppended, done, e, f, k
<1>8. /\ e.order_id = taker /\ e.counterparty_id = m
      /\ e.executed_price = p /\ e.executed_qty = n
      /\ f.order_id = m
  BY DEF make_trade, make_filled
<1>9. /\ IsFiniteSet(Trades) /\ Trades \subseteq 1 .. k
      /\ \A i \in Trades : events[i].executed_qty \in 0 .. MaxInt
  BY TradesFinite DEF BooksInv, TypeOK
<1>10. levels'[s] \subseteq levels[s]
  BY <1>1, <1>3 DEF TradeFacts, SetLevel, BooksInv, TypeOK
<1>11. s = Opposite(orders'[taker].side) /\ orders[taker].side # s
  BY <1>1, <1>5, <1>6 DEF Opposite
<1>12. orders[taker].price # Null =>
         IF orders[taker].side = "Buy" THEN p <= orders[taker].price
                                       ELSE p >= orders[taker].price
  <2>1. PICK u \in levels[s] : Reaches(orders[taker], u)
    BY <1>1 DEF Match, CanMatch
  <2>2. orders[taker].price # Null => orders[taker].type = "Limit"
    BY DEF BooksInv, CallOK
  <2>3. /\ orders[taker].price # Null => orders[taker].price \in Int
        /\ orders[taker].side \in Sides
    BY <1>3, <1>4 DEF TradeFacts, Order
  <2>4. u \in Int /\ p \in Int /\ ~ Better(s, u, p)
    BY <1>2, <1>4 DEF IsBest
  <2> QED
    BY <1>1, <2>1, <2>2, <2>3, <2>4 DEF Reaches, Better, Opposite, Sides
<1> HIDE DEF done, e, f, k
<1>13. \A o : FilledNow(o)' <=> FilledNow(o) \/ (done /\ o = m)
  <2>1. ASSUME NEW o, FilledNow(o)' PROVE FilledNow(o) \/ (done /\ o = m)
    <3>1. PICK j \in DOMAIN events' \ Trades' : events'[j].order_id = o
      BY <2>1 DEF FilledNow
    <3>2. CASE j \in DOMAIN events \ Trades
      BY <1>7, <3>1, <3>2 DEF FilledNow
    <3>3. CASE done /\ j = k + 2
      BY <1>7, <1>8, <3>1, <3>3
    <3> QED
      BY <1>7, <3>1, <3>2, <3>3
  <2>2. ASSUME NEW o, FilledNow(o) PROVE FilledNow(o)'
    <3>1. PICK j \in DOMAIN events \ Trades : events[j].order_id = o
      BY <2>2 DEF FilledNow
    <3>2. j \in DOMAIN events' \ Trades' /\ events'[j] = events[j]
      BY <1>7, <3>1
    <3> QED
      BY <3>1, <3>2 DEF FilledNow
  <2>3. ASSUME done PROVE FilledNow(m)'
    <3>1. k + 2 \in DOMAIN events' \ Trades' /\ events'[k + 2].order_id = m
      BY <1>7, <1>8, <2>3
    <3> QED
      BY <3>1 DEF FilledNow
  <2> QED
    BY <2>1, <2>2, <2>3
<1>14. executed'[taker] = TradedNow'
  <2> DEFINE g == [i \in Trades |-> events[i].executed_qty]
             h == [i \in Trades' |-> events'[i].executed_qty]
  <2>1. k + 1 \notin Trades
    BY <1>7, <1>9
  <2>2. \A i \in Trades : g[i] \in 0 .. MaxInt /\ h[i] = g[i]
    BY <1>7, <1>9
  <2>3. h[k + 1] = n /\ n \in 0 .. MaxInt
    BY <1>5, <1>7, <1>8
  <2>4. DOMAIN g = Trades /\ DOMAIN h = Trades \cup {k + 1}
    BY <1>7
  <2>5. TradedNow = SumFunctionOnSet(g, DOMAIN g) /\ TradedNow' = SumFunctionOnSet(h, DOMAIN h)
    BY DEF TradedNow, SumFunction
  <2> HIDE DEF g, h
  <2>6. SumFunctionOnSet(h, Trades \cup {k + 1}) = SumFunctionOnSet(g, Trades) + h[k + 1]
    <3>1. IsFiniteSet(Trades) /\ h[k + 1] \in 0 .. MaxInt
      BY <1>9, <2>3
    <3> QED
      BY <2>1, <2>2, <3>1, SumOneMore
  <2>7. executed[taker] = TradedNow
    BY DEF EventsInv
  <2> QED
    BY <1>6, <2>3, <2>4, <2>5, <2>6, <2>7
<1>15. ASSUME NEW i \in Trades' PROVE TradeSound(i)'
  <2>1. CASE i \in Trades
    <3>1. /\ i \in 1 .. k /\ events'[i] = events[i] /\ TradeSound(i)
          /\ events[i].order_id = taker
      BY <1>7, <1>9, <2>1 DEF EventsInv
    <3>2. PICK c \in OrderIds : c = events[i].counterparty_id /\ c # taker
      BY <3>1 DEF TradeSound
    <3>3. orders'[c].remaining = 0 <=> FilledNow(c)'
      <4>1. CASE c = m
        <5>1. ~ FilledNow(m)
          BY <1>5 DEF EventsInv, FilledNow
        <5> QED
          BY <1>6, <1>13, <4>1, <5>1
      <4>2. CASE c # m
        <5>1. orders'[c].remaining = orders[c].remaining /\ (FilledNow(c)' <=> FilledNow(c))
          BY <1>6, <1>13, <3>2, <4>2
        <5> QED
          BY <3>1, <3>2, <5>1 DEF TradeSound
      <4> QED
        BY <4>1, <4>2
    <3>4. /\ orders'[c] # Null /\ orders'[c].side = orders[c].side
          /\ orders'[c].price = orders[c].price
          /\ orders'[taker] # Null /\ orders'[taker].side = orders[taker].side
          /\ orders'[taker].price = orders[taker].price
      BY <1>5, <1>6, <3>1, <3>2 DEF TradeSound
    <3>5. taker' # Null
      BY <1>0
    <3> QED
      BY <3>1, <3>2, <3>3, <3>4, <3>5 DEF TradeSound
  <2>2. CASE i = k + 1
    <3>1. /\ events'[i].order_id = taker /\ events'[i].counterparty_id = m
          /\ events'[i].executed_price = p
      BY <1>7, <1>8, <2>2
    <3>2. orders'[m].remaining = 0 <=> FilledNow(m)'
      <4>1. ~ FilledNow(m)
        BY <1>5 DEF EventsInv, FilledNow
      <4> QED
        BY <1>6, <1>13, <4>1
    <3>3. /\ orders'[m] # Null /\ orders'[m].side = s /\ orders'[m].price = p
          /\ orders'[taker] # Null /\ orders'[taker].side = orders[taker].side
          /\ orders'[taker].price = orders[taker].price
      BY <1>5, <1>6
    <3>4. taker' # Null
      BY <1>0
    <3> QED
      BY <1>5, <1>11, <1>12, <3>1, <3>2, <3>3, <3>4 DEF TradeSound
  <2> QED
    BY <1>7, <2>1, <2>2
<1>16. \A j \in Trades : ~ Better(s, p, events[j].executed_price)
  BY <1>1, <1>2 DEF EventsInv
<1>17. PricesWorsen'
  <2> SUFFICES ASSUME NEW i \in Trades', NEW j \in Trades', j < i
               PROVE  ~ Better(orders'[events'[i].counterparty_id].side,
                               events'[i].executed_price, events'[j].executed_price)
    BY DEF PricesWorsen, Better
  <2>1. j \in Trades
    BY <1>7, <1>9
  <2>2. events'[j] = events[j]
    BY <1>7, <1>9, <2>1
  <2>3. CASE i \in Trades
    <3>1. events'[i] = events[i] /\ events[i].counterparty_id \in OrderIds
      BY <1>7, <1>9, <2>3 DEF EventsInv, TradeSound
    <3>2. ~ Better(orders[events[i].counterparty_id].side,
                   events[i].executed_price, events[j].executed_price)
      BY <2>1, <2>3 DEF EventsInv, PricesWorsen
    <3> QED
      BY <1>6, <2>2, <3>1, <3>2
  <2>4. CASE i = k + 1
    <3>1. /\ events'[i].counterparty_id = m /\ events'[i].executed_price = p
          /\ orders'[m].side = s
      BY <1>5, <1>6, <1>7, <1>8, <2>4
    <3> QED
      BY <1>16, <2>1, <2>2, <3>1
  <2> QED
    BY <1>7, <2>3, <2>4
<1>18. ASSUME NEW j \in DOMAIN events' \ Trades'
       PROVE  LET o == events'[j].order_id IN
              /\ o \in OrderIds /\ o # taker'
              /\ orders'[o] # Null /\ orders'[o].remaining = 0
  <2>1. CASE j \in DOMAIN events \ Trades
    <3> DEFINE o == events[j].order_id
    <3>1. events'[j] = events[j]
      BY <1>7, <2>1
    <3>2. o \in OrderIds /\ o # taker /\ orders[o] # Null /\ orders[o].remaining = 0
      BY <2>1 DEF EventsInv
    <3>3. o # m
      BY <1>5, <3>2
    <3> QED
      BY <1>0, <1>6, <3>1, <3>2, <3>3
  <2>2. CASE done /\ j = k + 2
    <3>1. events'[j].order_id = m
      BY <1>7, <1>8, <2>2
    <3> QED
      BY <1>0, <1>5, <1>6, <2>2, <3>1
  <2> QED
    BY <1>7, <2>1, <2>2
<1>19. ASSUME NEW i \in Trades'
       PROVE  /\ events'[i].order_id = taker
              /\ \A u \in levels'[s] : ~ Better(s, u, events'[i].executed_price)
  <2>1. CASE i \in Trades
    <3>1. events'[i] = events[i]
      BY <1>7, <1>9, <2>1
    <3> QED
      BY <1>1, <1>10, <2>1, <3>1 DEF EventsInv
  <2>2. CASE i = k + 1
    <3>1. events'[i].order_id = taker /\ events'[i].executed_price = p
      BY <1>7, <1>8, <2>2
    <3> QED
      BY <1>2, <1>10, <3>1 DEF IsBest
  <2> QED
    BY <1>7, <2>1, <2>2
<1> QED
  BY <1>0, <1>11, <1>14, <1>15, <1>17, <1>18, <1>19 DEF EventsInv

(* The end of a call: a taker that has nothing left is reported as filled. *)
FinishAppended(done) ==
  LET k == Len(events) IN
  /\ k \in Nat /\ DOMAIN events = 1 .. k
  /\ Trades' = Trades /\ Trades \subseteq 1 .. k
  /\ \A i \in 1 .. k : events'[i] = events[i]
  /\ DOMAIN events' \ Trades' =
       (DOMAIN events \ Trades) \cup (IF done THEN {k + 1} ELSE {})
  /\ done => events'[k + 1].type = "FilledOrder" /\ events'[k + 1].order_id = taker

LEMMA FinishAppends ==
  ASSUME events \in Seq(MarketEvent), taker \in OrderIds,
         NEW status, NEW rests, Finish(status, rests)
  PROVE  FinishAppended(status = "Filled")
<1> DEFINE f == make_filled(taker)
           k == Len(events)
           done == status = "Filled"
<1>1. /\ k \in Nat /\ DOMAIN events = 1 .. k
      /\ DOMAIN events' = 1 .. (IF done THEN k + 1 ELSE k)
      /\ \A i \in 1 .. k : events'[i] = events[i]
      /\ done => events'[k + 1] = f
  <2>1. events \in Seq(MarketEvent) /\ f \in MarketEvent
    BY DEF make_filled, MarketEvent
  <2>2. events' = IF done THEN Append(events, f) ELSE events
    BY DEF Finish
  <2>3. k \in Nat /\ DOMAIN events = 1 .. k
    BY <2>1, LenProperties
  <2> HIDE DEF f, done, k
  <2>4. CASE done
    <3>1. /\ Append(events, f) \in Seq(MarketEvent) /\ Len(Append(events, f)) = k + 1
          /\ \A i \in 1 .. k : Append(events, f)[i] = events[i]
          /\ Append(events, f)[k + 1] = f
      BY <2>1, AppendProperties DEF k
    <3> QED
      BY <2>2, <2>3, <2>4, <3>1, LenProperties
  <2>5. CASE ~ done
    BY <2>2, <2>3, <2>5
  <2> QED
    BY <2>3, <2>4, <2>5
<1>2. f.type = "FilledOrder" /\ f.order_id = taker
  BY DEF make_filled
<1> HIDE DEF f, k, done
<1>3. Trades' = Trades /\ Trades \subseteq 1 .. k
  <2>1. Trades \subseteq 1 .. k
    BY <1>1 DEF Trades
  <2>2. ASSUME NEW i \in Trades' PROVE i \in Trades
    <3>1. i \in DOMAIN events' /\ events'[i].type = "Trade"
      BY DEF Trades
    <3>2. i \in 1 .. k
      BY <1>1, <1>2, <3>1
    <3> QED
      BY <1>1, <3>1, <3>2 DEF Trades
  <2>3. ASSUME NEW i \in Trades PROVE i \in Trades'
    <3>1. i \in 1 .. k /\ events[i].type = "Trade"
      BY <1>1 DEF Trades
    <3>2. i \in DOMAIN events'
      BY <1>1, <3>1
    <3> QED
      BY <1>1, <3>1, <3>2 DEF Trades
  <2> QED
    BY <2>1, <2>2, <2>3
<1>4. DOMAIN events' \ Trades' = (DOMAIN events \ Trades) \cup (IF done THEN {k + 1} ELSE {})
  <2>1. k + 1 \notin Trades
    BY <1>1, <1>3
  <2>2. CASE done
    <3>1. DOMAIN events' = 1 .. k \cup {k + 1}
      BY <1>1, <2>2
    <3> QED
      BY <1>1, <1>3, <2>1, <2>2, <3>1
  <2>3. CASE ~ done
    BY <1>1, <1>3, <2>3
  <2> QED
    BY <2>2, <2>3
<1> QED
  BY <1>1, <1>2, <1>3, <1>4 DEF k, done, FinishAppended

LEMMA FinishEvents ==
  ASSUME BooksInv, EventsInv, taker # Null, NEW status \in {"New", "PartiallyFilled", "Filled"},
         NEW rests \in BOOLEAN, Finish(status, rests),
         status = "Filled" <=> orders[taker].remaining = 0
  PROVE  EventsInv'
<1> DEFINE k == Len(events)
           done == status = "Filled"
<1>1. /\ taker \in OrderIds /\ taker' = Null /\ orders[taker] # Null
      /\ orders \in [OrderIds -> Order \cup {Null}]
  BY DEF Finish, BooksInv, TypeOK, CallOK, Exists
<1>0. PICK t \in OrderIds : t = taker
  BY <1>1
<1>2. \A o \in OrderIds : /\ (orders'[o] # Null <=> orders[o] # Null)
                          /\ orders'[o].side = orders[o].side
                          /\ orders'[o].price = orders[o].price
                          /\ orders'[o].remaining = orders[o].remaining
  <2> DEFINE new == [orders[taker] EXCEPT !.status = status, !.book_it = @ \/ rests]
  <2>1. orders' = [orders EXCEPT ![taker] = new]
    BY DEF Finish
  <2>2. orders[taker] \in Order
    BY <1>1
  <2>3. /\ new.side = orders[taker].side /\ new.price = orders[taker].price
        /\ new.remaining = orders[taker].remaining
    BY <2>2 DEF Order
  <2>4. new # Null
    <3>1. new \in Order
      BY <2>2 DEF Order, OrderStatuses
    <3> QED
      BY <3>1, NullAssumption
  <2> HIDE DEF new
  <2> QED
    BY <1>1, <2>1, <2>3, <2>4
<1>3. /\ k \in Nat /\ DOMAIN events = 1 .. k
      /\ Trades' = Trades /\ Trades \subseteq 1 .. k
      /\ \A i \in 1 .. k : events'[i] = events[i]
      /\ DOMAIN events' \ Trades' =
           (DOMAIN events \ Trades) \cup (IF done THEN {k + 1} ELSE {})
      /\ done => events'[k + 1].order_id = taker
  BY <1>1, FinishAppends DEF FinishAppended, BooksInv, TypeOK
<1>4. done <=> orders[taker].remaining = 0
  OBVIOUS
<1> HIDE DEF k, done
<1>5. \A o : FilledNow(o)' <=> FilledNow(o) \/ (done /\ o = t)
  <2>1. ASSUME NEW o, FilledNow(o)' PROVE FilledNow(o) \/ (done /\ o = t)
    <3>1. PICK j \in DOMAIN events' \ Trades' : events'[j].order_id = o
      BY <2>1 DEF FilledNow
    <3>2. CASE j \in DOMAIN events \ Trades
      BY <1>3, <3>1, <3>2 DEF FilledNow
    <3>3. CASE done /\ j = k + 1
      BY <1>0, <1>3, <3>1, <3>3
    <3> QED
      BY <1>3, <3>1, <3>2, <3>3
  <2>2. ASSUME NEW o, FilledNow(o) PROVE FilledNow(o)'
    <3>1. PICK j \in DOMAIN events \ Trades : events[j].order_id = o
      BY <2>2 DEF FilledNow
    <3>2. j \in DOMAIN events' \ Trades' /\ events'[j] = events[j]
      BY <1>3, <3>1
    <3> QED
      BY <3>1, <3>2 DEF FilledNow
  <2>3. ASSUME done PROVE FilledNow(t)'
    <3>1. k + 1 \in DOMAIN events' \ Trades' /\ events'[k + 1].order_id = t
      BY <1>0, <1>3, <2>3
    <3> QED
      BY <3>1 DEF FilledNow
  <2> QED
    BY <2>1, <2>2, <2>3
<1>6. ASSUME NEW i \in Trades' PROVE TradeSound(i)'
  <2>1. /\ i \in Trades /\ events'[i] = events[i] /\ TradeSound(i)
        /\ events[i].order_id = taker
    BY <1>3 DEF EventsInv
  <2>2. PICK c \in OrderIds : c = events[i].counterparty_id /\ c # taker
    BY <2>1 DEF TradeSound
  <2>3. orders'[c].remaining = 0 <=> FilledNow(c)'
    BY <1>0, <1>2, <1>5, <2>1, <2>2 DEF TradeSound
  <2>4. orders'[t].remaining = 0 => FilledNow(t)'
    BY <1>0, <1>2, <1>4, <1>5
  <2>5. /\ orders'[c] # Null /\ orders'[c].side = orders[c].side
        /\ orders'[c].price = orders[c].price
        /\ orders'[taker] # Null /\ orders'[taker].side = orders[taker].side
        /\ orders'[taker].price = orders[taker].price
    BY <1>1, <1>2, <2>1, <2>2 DEF TradeSound
  <2> QED
    BY <1>0, <2>1, <2>2, <2>3, <2>4, <2>5 DEF TradeSound
<1>7. PricesWorsen'
  <2> SUFFICES ASSUME NEW i \in Trades', NEW j \in Trades', j < i
               PROVE  ~ Better(orders'[events'[i].counterparty_id].side,
                               events'[i].executed_price, events'[j].executed_price)
    BY DEF PricesWorsen, Better
  <2>1. /\ i \in Trades /\ j \in Trades /\ events'[i] = events[i] /\ events'[j] = events[j]
        /\ events[i].counterparty_id \in OrderIds
    BY <1>3 DEF EventsInv, TradeSound
  <2>2. ~ Better(orders[events[i].counterparty_id].side,
                 events[i].executed_price, events[j].executed_price)
    BY <2>1 DEF EventsInv, PricesWorsen
  <2> QED
    BY <1>2, <2>1, <2>2
<1>8. ASSUME NEW j \in DOMAIN events' \ Trades'
       PROVE  LET o == events'[j].order_id IN
              /\ o \in OrderIds /\ o # taker'
              /\ orders'[o] # Null /\ orders'[o].remaining = 0
  <2>1. CASE j \in DOMAIN events \ Trades
    <3>1. events'[j] = events[j]
      BY <1>3, <2>1
    <3> QED
      BY <1>1, <1>2, <2>1, <3>1, OrdersAssumption DEF EventsInv
  <2>2. CASE done /\ j = k + 1
    <3>1. events'[j].order_id = taker
      BY <1>3, <2>2
    <3> QED
      BY <1>1, <1>2, <1>4, <2>2, <3>1, OrdersAssumption
  <2> QED
    BY <1>3, <2>1, <2>2
<1> QED
  BY <1>1, <1>6, <1>7, <1>8 DEF EventsInv

(* The steps of the market.                                                *)
LEMMA ProcessEvents ==
  ASSUME BooksInv, EventsInv, ProcessStep
  PROVE  EventsInv'
<1>1. taker # Null
  BY ProcessCases
<1>2. CASE Match
  BY <1>1, <1>2, MatchEvents
<1>3. CASE \E status \in {"New", "PartiallyFilled", "Filled"}, rests \in BOOLEAN :
             /\ Finish(status, rests)
             /\ status = "Filled" <=> orders[taker].remaining = 0
  BY <1>1, <1>3, FinishEvents
<1> QED
  BY <1>2, <1>3, ProcessCases

LEMMA EntryEvents ==
  ASSUME NEW o \in OrderIds, NEW ord, executed[o] = 0, process_order(o, ord)
  PROVE  EventsInv'
BY NoEvents DEF process_order

(* The vector a call returns is a complete account of the call: the        *)
(* quantities of its trades add up to what the taker traded, no trade is   *)
(* at a price worse than either limit or after one at a worse price, and   *)
(* a Filled event is there for exactly the orders that it filled.          *)
THEOREM CallsAccountedFor == MarketSpec => []EventsAccount
<1>1. MarketInit => EventsInv
  <2> SUFFICES ASSUME MarketInit PROVE EventsInv
    OBVIOUS
  <2>1. events = <<>> /\ taker = Null
    BY DEF MarketInit
  <2>2. Trades = {} /\ DOMAIN events = {}
    BY <2>1 DEF Trades
  <2> QED
    BY <2>1, <2>2 DEF EventsInv, PricesWorsen
<1>2. IInv /\ EventsInv /\ [MarketNext]_marketVars => EventsInv'
  <2> SUFFICES ASSUME IInv, EventsInv, [MarketNext]_marketVars
               PROVE  EventsInv'
    OBVIOUS
  <2>1. CASE \E o \in OrderIds, ord \in NewOrders :
               orders[o] = Null /\ process_order(o, ord)
    <3>1. PICK o \in OrderIds, ord \in NewOrders : orders[o] = Null /\ process_order(o, ord)
      BY <2>1
    <3>2. executed[o] = 0
      BY <3>1 DEF IInv, BooksInv, Accounting, Exists
    <3> QED
      BY <3>1, <3>2, EntryEvents
  <2>2. CASE ProcessStep
    BY <2>2, ProcessEvents DEF IInv
  <2>3. CASE \E o \in OrderIds : orders[o] # Null /\ cancel_order(o)
    <3>1. events' = <<>> /\ taker' = Null
      BY <2>3 DEF cancel_order
    <3> QED
      BY <3>1, NoEvents
  <2>4. CASE activate \/ deactivate \/ UNCHANGED marketVars
    <3>1. UNCHANGED << orders, levels, taker, events, executed >>
      BY <2>4 DEF activate, deactivate, marketVars
    <3> QED
      BY <3>1, SameEvents
  <2> QED
    BY <2>1, <2>2, <2>3, <2>4 DEF MarketNext, ProcessStep
<1> QED
  BY <1>1, <1>2, EventsInvAccounts, Invariance, PTL DEF MarketSpec
-----------------------------------------------------------------------------
(* Fill or kill.  What validate_fulfillment adds up, and what the opposite *)
(* side could really deliver, are sums over the same orders: each order in *)
(* reach has one node, and what it has left is part of its quantity.       *)
NodesFor(ord) ==
  UNION { {p} \X DOMAIN queue[Opposite(ord.side)][p] :
            p \in { p \in levels[Opposite(ord.side)] : Reaches(ord, p) } }

AtNode(ord, n) == queue[Opposite(ord.side)][n[1]][n[2]]
QuantityFor(ord) == [n \in NodesFor(ord) |-> orders[AtNode(ord, n)].quantity]

RestingFor(ord) == { o \in OrderIds : /\ Rests(o)
                                      /\ orders[o].side = Opposite(ord.side)
                                      /\ Reaches(ord, orders[o].price) }
RemainingFor(ord) == [o \in RestingFor(ord) |-> orders[o].remaining]

LEMMA Sums ==
  ASSUME NEW ord
  PROVE  /\ validate_fulfillment(ord) <=>
              Wrap(SumFunctionOnSet(QuantityFor(ord), NodesFor(ord))) >= ord.quantity
         /\ Available(ord) = SumFunctionOnSet(RemainingFor(ord), RestingFor(ord))
<1>1. DOMAIN QuantityFor(ord) = NodesFor(ord) /\ DOMAIN RemainingFor(ord) = RestingFor(ord)
  BY DEF QuantityFor, RemainingFor
<1>2. validate_fulfillment(ord) <=> Wrap(SumFunction(QuantityFor(ord))) >= ord.quantity
  BY DEF validate_fulfillment, QuantityFor, NodesFor, AtNode
<1>3. Available(ord) = SumFunction(RemainingFor(ord))
  BY DEF Available, RemainingFor, RestingFor
<1> QED
  BY <1>1, <1>2, <1>3 DEF SumFunction

LEMMA OneNodeEach ==
  ASSUME BooksInv, NEW ord \in Order
  PROVE  /\ \A n \in NodesFor(ord) :
              /\ AtNode(ord, n) \in OrderIds /\ Rests(AtNode(ord, n))
              /\ QuantityFor(ord)[n] = orders[AtNode(ord, n)].quantity
         /\ \A m, n \in NodesFor(ord) : AtNode(ord, m) = AtNode(ord, n) => m = n
         /\ \A o \in RestingFor(ord) : \E n \in NodesFor(ord) : AtNode(ord, n) = o
<1>1. PICK s \in Sides : s = Opposite(ord.side)
  BY DEF Opposite, Sides
<1>2. levels[s] \subseteq Prices
  BY DEF BooksInv, TypeOK
<1>3. ASSUME NEW n \in NodesFor(ord)
      PROVE  /\ n = << n[1], n[2] >> /\ n[1] \in Prices /\ n[2] \in DOMAIN queue[s][n[1]]
             /\ AtNode(ord, n) = queue[s][n[1]][n[2]]
  BY <1>1, <1>2 DEF NodesFor, AtNode
<1>4. ASSUME NEW n \in NodesFor(ord)
      PROVE  /\ AtNode(ord, n) \in OrderIds /\ Rests(AtNode(ord, n))
             /\ orders[AtNode(ord, n)].price = n[1]
             /\ OnlyAt(queue[s][n[1]], AtNode(ord, n), n[2])
  BY <1>3, Nodes
<1>5. ASSUME NEW m \in NodesFor(ord), NEW n \in NodesFor(ord), AtNode(ord, m) = AtNode(ord, n)
      PROVE  m = n
  <2>1. m[1] = n[1]
    BY <1>4, <1>5
  <2>2. m[2] = n[2]
    BY <1>3, <1>4, <1>5, <2>1 DEF OnlyAt
  <2> QED
    BY <1>3, <2>1, <2>2
<1>6. ASSUME NEW o \in RestingFor(ord) PROVE \E n \in NodesFor(ord) : AtNode(ord, n) = o
  <2>1. o \in OrderIds /\ Rests(o) /\ orders[o].side = s /\ Reaches(ord, orders[o].price)
    BY <1>1 DEF RestingFor
  <2>2. PICK p \in Prices : p = orders[o].price /\ Reaches(ord, p)
    BY <2>1, RestsLive
  <2>3. PICK i : OnlyAt(queue[s][p], o, i)
    BY <2>1, <2>2, RestsLive
  <2>4. i \in DOMAIN queue[s][p] /\ queue[s][p][i] = o
    BY <2>3 DEF OnlyAt
  <2>5. queue[s][p] # <<>>
    BY <2>4
  <2>6. p \in levels[s]
    BY <2>5 DEF BooksInv, NoEmptyLevel
  <2>7. << p, i >> \in NodesFor(ord)
    BY <1>1, <2>2, <2>4, <2>6 DEF NodesFor
  <2>8. AtNode(ord, << p, i >>) = o
    BY <1>1, <2>4 DEF AtNode
  <2> QED
    BY <2>7, <2>8
<1>7. \A n \in NodesFor(ord) : QuantityFor(ord)[n] = orders[AtNode(ord, n)].quantity
  BY DEF QuantityFor
<1> QED
  BY <1>4, <1>5, <1>6, <1>7

(* No sum of ints overflows if all quantities together fit into an int.    *)
AllFit(q) ==
  /\ IsFiniteSet(OrderIds) /\ q \in 1 .. MaxInt
  /\ Cardinality(OrderIds) * q <= MaxInt
  /\ \A o \in OrderIds : Exists(o) => orders[o].quantity <= q

LEMMA FiniteSums ==
  ASSUME BooksInv, NEW ord \in Order, IsFiniteSet(OrderIds)
  PROVE  /\ IsFiniteSet(NodesFor(ord)) /\ IsFiniteSet(RestingFor(ord))
         /\ \A n \in NodesFor(ord) : QuantityFor(ord)[n] \in 0 .. MaxInt
         /\ \A o \in RestingFor(ord) : RemainingFor(ord)[o] \in 0 .. MaxInt
<1>1. IsFiniteSet(RestingFor(ord))
  BY FS_Subset DEF RestingFor
<1> DEFINE f == [n \in NodesFor(ord) |-> AtNode(ord, n)]
<1>2. f \in Injection(NodesFor(ord), OrderIds)
  BY OneNodeEach DEF Injection, IsInjective
<1> HIDE DEF f
<1>3. IsFiniteSet(NodesFor(ord))
  BY <1>2, FS_Injection
<1>4. ASSUME NEW n \in NodesFor(ord) PROVE QuantityFor(ord)[n] \in 0 .. MaxInt
  <2>1. PICK o \in OrderIds : o = AtNode(ord, n) /\ Rests(o)
    BY OneNodeEach
  <2>2. orders[o] \in Order
    BY <2>1 DEF BooksInv, TypeOK, Rests, Exists
  <2>3. orders[o].quantity \in 0 .. MaxInt
    BY <2>2, OrdersAssumption DEF Order
  <2> QED
    BY <2>1, <2>3, OneNodeEach
<1>5. ASSUME NEW o \in RestingFor(ord) PROVE RemainingFor(ord)[o] \in 0 .. MaxInt
  <2>1. o \in OrderIds /\ orders[o] # Null
    BY DEF RestingFor, Rests, Exists
  <2>2. orders[o] \in Order
    BY <2>1 DEF BooksInv, TypeOK
  <2> QED
    BY <2>2 DEF RemainingFor, Order
<1> QED
  BY <1>1, <1>3, <1>4, <1>5

(* The sum in the code is at least what is available ...                   *)
LEMMA CountsEnough ==
  ASSUME BooksInv, NEW ord \in Order, IsFiniteSet(OrderIds)
  PROVE  SumFunctionOnSet(RemainingFor(ord), RestingFor(ord))
           <= SumFunctionOnSet(QuantityFor(ord), NodesFor(ord))
<1> DEFINE left == Tokens(RemainingFor(ord), RestingFor(ord))
           all  == Tokens(QuantityFor(ord), NodesFor(ord))
           node(o) == CHOOSE n \in NodesFor(ord) : AtNode(ord, n) = o
           f == [t \in left |-> << node(t[1]), t[2] >>]
<1>1. /\ IsFiniteSet(left) /\ IsFiniteSet(all)
      /\ SumFunctionOnSet(RemainingFor(ord), RestingFor(ord)) = Cardinality(left)
      /\ SumFunctionOnSet(QuantityFor(ord), NodesFor(ord)) = Cardinality(all)
  BY FiniteSums, SumCounts, TokensFinite
<1>2. ASSUME NEW o \in RestingFor(ord) PROVE node(o) \in NodesFor(ord) /\ AtNode(ord, node(o)) = o
  BY OneNodeEach
<1> HIDE DEF node
<1>3. ASSUME NEW t \in left
      PROVE  /\ t = << t[1], t[2] >> /\ t[1] \in RestingFor(ord) /\ t[2] \in 1 .. MaxInt
             /\ << node(t[1]), t[2] >> \in all
  <2>1. /\ t = << t[1], t[2] >> /\ t[1] \in RestingFor(ord) /\ t[2] \in 1 .. MaxInt
        /\ t[2] <= RemainingFor(ord)[t[1]]
    BY DEF Tokens
  <2>2. PICK o \in RestingFor(ord) : o = t[1]
    BY <2>1
  <2>3. PICK k \in 1 .. MaxInt : k = t[2] /\ k <= RemainingFor(ord)[o]
    BY <2>1, <2>2
  <2>4. o \in OrderIds /\ orders[o] # Null /\ RemainingFor(ord)[o] = orders[o].remaining
    BY DEF RestingFor, Rests, Exists, RemainingFor
  <2>5. orders[o].remaining <= orders[o].quantity
    <3>1. orders[o] \in Order /\ executed[o] \in 0 .. MaxInt
      BY <2>4 DEF BooksInv, TypeOK
    <3>2. /\ orders[o].remaining \in Int /\ orders[o].quantity \in Int /\ executed[o] \in Int
          /\ 0 <= executed[o] /\ 0 <= orders[o].quantity
      BY <3>1, OrdersAssumption DEF Order
    <3>3. \/ orders[o].remaining = 0
          \/ executed[o] + orders[o].remaining = orders[o].quantity
      BY <2>4 DEF BooksInv, Accounting, Exists
    <3> QED
      BY <3>2, <3>3
  <2>6. orders[o].remaining \in Int /\ orders[o].quantity \in Int
    BY <2>4, OrdersAssumption DEF BooksInv, TypeOK, Order
  <2>7. k <= orders[o].quantity
    BY <2>3, <2>4, <2>5, <2>6
  <2>8. PICK n \in NodesFor(ord) : n = node(o) /\ QuantityFor(ord)[n] = orders[o].quantity
    BY <1>2, OneNodeEach
  <2>9. << n, k >> \in all
    BY <2>7, <2>8 DEF Tokens
  <2> QED
    BY <2>1, <2>2, <2>3, <2>8, <2>9
<1>4. ASSUME NEW t \in left, NEW u \in left, << node(t[1]), t[2] >> = << node(u[1]), u[2] >>
      PROVE  t = u
  <2>1. node(t[1]) = node(u[1]) /\ t[2] = u[2]
    BY <1>4
  <2>2. t[1] = u[1]
    BY <1>2, <1>3, <2>1
  <2> QED
    BY <1>3, <2>1, <2>2
<1> HIDE DEF left, all
<1>5. f \in Injection(left, all)
  BY <1>3, <1>4 DEF Injection, IsInjective
<1> HIDE DEF f
<1>6. Cardinality(left) <= Cardinality(all)
  BY <1>1, <1>5, FS_Injection
<1> QED
  BY <1>1, <1>6

(* ... and does not wrap around.                                           *)
LEMMA SumFits ==
  ASSUME BooksInv, NEW ord \in Order, NEW q, AllFit(q)
  PROVE  SumFunctionOnSet(QuantityFor(ord), NodesFor(ord)) \in 0 .. MaxInt
<1> DEFINE all  == Tokens(QuantityFor(ord), NodesFor(ord))
           room == OrderIds \X (1 .. q)
           f == [t \in all |-> << AtNode(ord, t[1]), t[2] >>]
<1>1. IsFiniteSet(OrderIds) /\ q \in 1 .. MaxInt /\ Cardinality(OrderIds) * q <= MaxInt
  BY DEF AllFit
<1>2. /\ IsFiniteSet(all) /\ Cardinality(all) \in Nat
      /\ SumFunctionOnSet(QuantityFor(ord), NodesFor(ord)) = Cardinality(all)
  BY <1>1, FiniteSums, SumCounts, TokensFinite
<1>3. IsFiniteSet(room) /\ Cardinality(room) <= MaxInt
  <2>1. 1 \in Int /\ q \in Int /\ 1 <= q
    BY <1>1
  <2>2. IsFiniteSet(1 .. q) /\ Cardinality(1 .. q) = q - 1 + 1
    BY <2>1, FS_Interval
  <2>3. Cardinality(1 .. q) = q
    BY <2>1, <2>2
  <2> QED
    BY <1>1, <2>2, <2>3, FS_Product
<1>4. ASSUME NEW t \in all
      PROVE  /\ t = << t[1], t[2] >> /\ t[1] \in NodesFor(ord)
             /\ << AtNode(ord, t[1]), t[2] >> \in room
  <2>1. /\ t = << t[1], t[2] >> /\ t[1] \in NodesFor(ord) /\ t[2] \in 1 .. MaxInt
        /\ t[2] <= QuantityFor(ord)[t[1]]
    BY DEF Tokens
  <2>2. PICK n \in NodesFor(ord) : n = t[1]
    BY <2>1
  <2>3. PICK k \in 1 .. MaxInt : k = t[2] /\ k <= QuantityFor(ord)[n]
    BY <2>1, <2>2
  <2>4. PICK o \in OrderIds : /\ o = AtNode(ord, n) /\ Rests(o)
                              /\ QuantityFor(ord)[n] = orders[o].quantity
    BY OneNodeEach
  <2>5. orders[o].quantity <= q /\ orders[o].quantity \in Int
    BY <2>4, OrdersAssumption DEF AllFit, Rests, Exists, BooksInv, TypeOK, Order
  <2>6. k \in 1 .. q
    BY <1>1, <2>3, <2>4, <2>5
  <2> QED
    BY <2>1, <2>2, <2>3, <2>4, <2>6
<1>5. ASSUME NEW t \in all, NEW u \in all,
             << AtNode(ord, t[1]), t[2] >> = << AtNode(ord, u[1]), u[2] >>
      PROVE  t = u
  <2>1. AtNode(ord, t[1]) = AtNode(ord, u[1]) /\ t[2] = u[2]
    BY <1>5
  <2>2. t[1] = u[1]
    BY <1>4, <2>1, OneNodeEach
  <2> QED
    BY <1>4, <2>1, <2>2
<1> HIDE DEF all, room
<1>6. f \in Injection(all, room)
  BY <1>4, <1>5 DEF Injection, IsInjective
<1> HIDE DEF f
<1>7. Cardinality(all) <= Cardinality(room) /\ Cardinality(room) \in Nat
  BY <1>3, <1>6, FS_Injection, FS_CardinalityType
<1> QED
  BY <1>2, <1>3, <1>7, OrdersAssumption

LEMMA WrapFits == ASSUME NEW n \in 0 .. MaxInt PROVE Wrap(n) = n
<1>1. PICK m \in Nat \ {0} : m = MaxInt
  BY OrdersAssumption
<1>2. n + m + 1 \in 0 .. (2 * m + 2) - 1 /\ 2 * m + 2 \in Nat \ {0}
  BY <1>1
<1>3. ASSUME NEW k \in Nat \ {0}, NEW r \in 0 .. k - 1 PROVE r % k = r
  BY <1>3
<1>4. (n + m + 1) % (2 * m + 2) = n + m + 1
  BY <1>2, <1>3
<1>5. Wrap(n) = (n + m + 1) - (m + 1)
  BY <1>1, <1>4 DEF Wrap
<1> QED
  BY <1>1, <1>5

LEMMA KilledForWant ==
  ASSUME BooksInv, NEW ord \in Order, NEW q, AllFit(q), ~ validate_fulfillment(ord)
  PROVE  Available(ord) < ord.quantity
<1>1. PICK n \in 0 .. MaxInt : n = SumFunctionOnSet(QuantityFor(ord), NodesFor(ord))
  BY SumFits
<1>2. ~ (n >= ord.quantity)
  BY <1>1, Sums, WrapFits
<1>3. Available(ord) <= n /\ Available(ord) \in Nat
  <2>1. IsFiniteSet(OrderIds)
    BY DEF AllFit
  <2>2. Available(ord) = SumFunctionOnSet(RemainingFor(ord), RestingFor(ord))
    BY Sums
  <2> QED
    BY <1>1, <2>1, <2>2, CountsEnough, FiniteSums, SumNat
<1>4. ord.quantity \in Int
  BY DEF Order
<1> QED
  BY <1>1, <1>2, <1>3, <1>4

(* Only process_order brings an order, and no step changes a quantity.     *)
LEMMA OrdersStep ==
  ASSUME IInv, [MarketNext]_marketVars, NEW o \in OrderIds
  PROVE  \/ orders[o] = Null /\ \E ord \in NewOrders : process_order(o, ord)
         \/ /\ Exists(o)' <=> Exists(o)
            /\ Exists(o) => orders'[o].quantity = orders[o].quantity
<1>0. TypeOK /\ BooksInv
  BY DEF IInv, BooksInv
<1>1. ASSUME NEW x \in OrderIds, NEW ord \in NewOrders, orders[x] = Null, process_order(x, ord)
      PROVE  \/ orders[o] = Null /\ \E new \in NewOrders : process_order(o, new)
             \/ orders'[o] = orders[o]
  <2>1. CASE x = o
    BY <1>1, <2>1
  <2>2. CASE x # o
    BY <1>0, <1>1, <2>2 DEF process_order, TypeOK
  <2> QED
    BY <2>1, <2>2
<1>2. ASSUME taker # Null, Match
      PROVE  /\ orders[o] # Null <=> orders'[o] # Null
             /\ orders'[o].quantity = orders[o].quantity
  <2>1. Opposite(orders[taker].side) \in Sides /\ orders[taker].remaining > 0
    BY <1>2 DEF Opposite, Sides, Match, CanMatch
  <2>2. PICK p \in levels[Opposite(orders[taker].side)] :
          Trade(Opposite(orders[taker].side), p)
    BY <1>2 DEF Match
  <2>3. PICK m, n : TradeFacts(Opposite(orders[taker].side), p, m, n)
    BY <1>0, <1>2, <2>1, <2>2, TradeEffect
  <2>4. CASE o \in {m, taker}
    <3>1. /\ orders[o] \in Order /\ orders'[o] # Null
          /\ orders'[o].quantity = orders[o].quantity
      BY <2>3, <2>4 DEF TradeFacts
    <3> QED
      BY <3>1, NullAssumption
  <2>5. CASE o \notin {m, taker}
    BY <2>3, <2>5 DEF TradeFacts
  <2> QED
    BY <2>4, <2>5
<1>3. ASSUME NEW x \in OrderIds, Exists(x), NEW ord \in Order, ord.quantity = orders[x].quantity,
             orders' = [orders EXCEPT ![x] = ord]
      PROVE  /\ orders[o] # Null <=> orders'[o] # Null
             /\ orders[o] # Null => orders'[o].quantity = orders[o].quantity
  BY <1>0, <1>3, NullAssumption DEF TypeOK, Exists
<1>4. ASSUME NEW status \in {"New", "PartiallyFilled", "Filled"}, NEW rests \in BOOLEAN,
             taker # Null, Finish(status, rests)
      PROVE  /\ orders[o] # Null <=> orders'[o] # Null
             /\ orders[o] # Null => orders'[o].quantity = orders[o].quantity
  <2>1. PICK x \in OrderIds : x = taker /\ Exists(x) /\ orders[x] \in Order
    BY <1>0, <1>4 DEF BooksInv, TypeOK, CallOK, Exists
  <2> DEFINE ord == [orders[x] EXCEPT !.status = status, !.book_it = @ \/ rests]
  <2>2. ord \in Order /\ ord.quantity = orders[x].quantity
    <3>1. status \in OrderStatuses /\ (orders[x].book_it \/ rests) \in BOOLEAN
      BY DEF OrderStatuses
    <3> QED
      BY <2>1, <3>1 DEF Order
  <2>3. orders' = [orders EXCEPT ![x] = ord]
    BY <1>0, <1>4, <2>1 DEF Finish, TypeOK
  <2> QED
    BY <1>3, <2>1, <2>2, <2>3
<1>5. CASE ProcessStep
  <2>1. taker # Null
    BY <1>0, <1>5, ProcessCases
  <2> QED
    BY <1>0, <1>2, <1>4, <1>5, <2>1, ProcessCases DEF Exists
<1>6. CASE \E x \in OrderIds : orders[x] # Null /\ cancel_order(x)
  <2>1. PICK x \in OrderIds : orders[x] # Null /\ cancel_order(x)
    BY <1>6
  <2>2. CASE orders' = orders
    BY <2>2 DEF Exists
  <2>3. CASE orders' # orders
    <3>1. orders[x] \in Order
      BY <1>0, <2>1 DEF TypeOK
    <3> DEFINE ord == [orders[x] EXCEPT !.status = "Canceled", !.book_it = FALSE, !.remaining = 0]
    <3>2. ord \in Order /\ ord.quantity = orders[x].quantity
      <4>1. "Canceled" \in OrderStatuses /\ 0 \in 0 .. MaxInt
        BY OrdersAssumption DEF OrderStatuses
      <4> QED
        BY <3>1, <4>1 DEF Order
    <3>3. orders' = [orders EXCEPT ![x] = ord]
      BY <1>0, <2>1, <2>3, <3>1 DEF cancel_order, TypeOK
    <3> QED
      BY <1>3, <2>1, <3>2, <3>3 DEF Exists
  <2> QED
    BY <2>2, <2>3
<1>7. CASE activate \/ deactivate \/ UNCHANGED marketVars
  BY <1>7 DEF activate, deactivate, marketVars, Exists
<1>8. CASE \E x \in OrderIds, ord \in NewOrders : orders[x] = Null /\ process_order(x, ord)
  <2>1. \/ orders[o] = Null /\ \E new \in NewOrders : process_order(o, new)
        \/ orders'[o] = orders[o]
    BY <1>1, <1>8
  <2> QED
    BY <2>1 DEF Exists
<1> QED
  BY <1>5, <1>6, <1>7, <1>8 DEF MarketNext, ProcessStep

(* A fill-or-kill limit order is killed only if the orders in reach could  *)
(* not fill it, even though the code adds up whole quantities, not what is *)
(* left of them.  The sum is an int: the hypothesis, under which it cannot *)
(* overflow, says that the orders a market ever sees add up to an int.     *)
THEOREM KilledOnlyForWant ==
  ASSUME IsFiniteSet(OrderIds), NEW q \in 1 .. MaxInt,
         \A ord \in NewOrders : ord.quantity <= q,
         Cardinality(OrderIds) * q <= MaxInt
  PROVE  MarketSpec => NoFalseKill
<1> DEFINE Bounded == \A o \in OrderIds : Exists(o) => orders[o].quantity <= q
<1>1. MarketInit => Bounded
  BY DEF MarketInit, Exists
<1>2. IInv /\ Bounded /\ [MarketNext]_marketVars => Bounded'
  <2> SUFFICES ASSUME IInv, Bounded, [MarketNext]_marketVars, NEW o \in OrderIds, Exists(o)'
               PROVE  orders'[o].quantity <= q
    BY DEF Exists
  <2>1. CASE orders[o] = Null /\ \E ord \in NewOrders : process_order(o, ord)
    <3>1. PICK ord \in NewOrders : process_order(o, ord)
      BY <2>1
    <3>2. orders'[o] = ord
      BY <3>1 DEF process_order, IInv, BooksInv, TypeOK
    <3> QED
      BY <3>2
  <2>2. CASE Exists(o) /\ orders'[o].quantity = orders[o].quantity
    BY <2>2
  <2> QED
    BY <2>1, <2>2, OrdersStep
<1>3. IInv /\ Bounded /\ [MarketNext]_marketVars =>
        [ \A o \in OrderIds :
            (Exists(o)' /\ ~ Exists(o) /\ taker' = Null) =>
              LET ord == orders'[o] IN
              ord.tif = "FOK" /\ ~ Throws(ord) => Available(ord) < ord.quantity ]_marketVars
  <2> SUFFICES ASSUME IInv, Bounded, [MarketNext]_marketVars,
                      NEW o \in OrderIds, Exists(o)', ~ Exists(o), taker' = Null,
                      NEW ord, ord = orders'[o], ord.tif = "FOK", ~ Throws(ord)
               PROVE  Available(ord) < ord.quantity
    OBVIOUS
  <2>1. PICK new \in NewOrders : process_order(o, new)
    BY OrdersStep
  <2>2. ord = new /\ ord \in Order
    BY <2>1, NewOrdersAssumption DEF process_order, IInv, BooksInv, TypeOK
  <2>3. Killed(ord)
    BY <2>1, <2>2, OrdersAssumption DEF process_order
  <2>4. ~ validate_fulfillment(ord)
    BY <2>3 DEF Killed
  <2>5. AllFit(q)
    BY DEF AllFit
  <2> QED
    BY <2>2, <2>4, <2>5, KilledForWant DEF IInv
<1> HIDE DEF Bounded
<1>4. MarketSpec => []Bounded
  BY <1>1, <1>2, Invariance, PTL DEF MarketSpec
<1> QED
  BY <1>3, <1>4, Invariance, PTL DEF MarketSpec, NoFalseKill
=============================================================================
