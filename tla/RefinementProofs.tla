-------------------------- MODULE RefinementProofs --------------------------
(***************************************************************************)
(* Market implements PriceTimeBook, for every set of orders, prices and    *)
(* quantities.  The books change the priority of the orders in two ways    *)
(* only: a node dropped from a list takes its order out of it, and a node  *)
(* appended enters its order behind all that are as good.  Each of the     *)
(* market's steps is then one of the abstract book's, or none.             *)
(***************************************************************************)
EXTENDS MarketRefinement, MarketProofs

(* a comes before b in the list l.                                         *)
Before(l, a, b) == \E i, j \in DOMAIN l : i < j /\ l[i] = a /\ l[j] = b

(* Dropping the one node of an order leaves the order of all the others.   *)
LEMMA DroppedOrder ==
  ASSUME NEW q \in Seq(OrderIds), NEW d \in DOMAIN q, NEW r,
         Dropped(q, d, r), OnlyAt(q, q[d], d), NEW a, NEW b
  PROVE  Before(r, a, b) <=> Before(q, a, b) /\ a # q[d] /\ b # q[d]
<1>0. Len(q) \in Nat /\ DOMAIN q = 1 .. Len(q) /\ d \in 1 .. Len(q)
  BY LenProperties
<1>1. DOMAIN r = 1 .. Len(q) - 1
  BY LenProperties DEF Dropped
<1>2. \A k \in 1 .. Len(q) - 1 : r[k] = IF k < d THEN q[k] ELSE q[k + 1]
  BY DEF Dropped
<1>3. \A k \in 1 .. Len(q) : q[k] = q[d] <=> k = d
  BY <1>0 DEF OnlyAt
<1>4. ASSUME Before(r, a, b)
      PROVE  Before(q, a, b) /\ a # q[d] /\ b # q[d]
  <2>1. PICK i, j \in 1 .. Len(q) - 1 : i < j /\ r[i] = a /\ r[j] = b
    BY <1>1, <1>4 DEF Before
  <2> DEFINE k == IF i < d THEN i ELSE i + 1
             l == IF j < d THEN j ELSE j + 1
  <2>2. k \in 1 .. Len(q) /\ l \in 1 .. Len(q) /\ k < l /\ k # d /\ l # d
    BY <1>0, <2>1
  <2>3. q[k] = a /\ q[l] = b
    BY <1>2, <2>1
  <2> HIDE DEF k, l
  <2> QED
    BY <1>0, <1>3, <2>2, <2>3 DEF Before
<1>5. ASSUME Before(q, a, b), a # q[d], b # q[d]
      PROVE  Before(r, a, b)
  <2>1. PICK i, j \in 1 .. Len(q) : i < j /\ q[i] = a /\ q[j] = b
    BY <1>0, <1>5 DEF Before
  <2>2. i # d /\ j # d
    BY <1>5, <2>1
  <2> DEFINE k == IF i < d THEN i ELSE i - 1
             l == IF j < d THEN j ELSE j - 1
  <2>3. k \in 1 .. Len(q) - 1 /\ l \in 1 .. Len(q) - 1 /\ k < l
    BY <1>0, <2>1, <2>2
  <2>4. r[k] = q[i] /\ r[l] = q[j]
    <3>1. /\ k < d => k = i
          /\ ~ (k < d) => k + 1 = i
          /\ l < d => l = j
          /\ ~ (l < d) => l + 1 = j
      BY <1>0, <2>1, <2>2
    <3> HIDE DEF k, l
    <3> QED
      BY <1>2, <2>3, <3>1
  <2> HIDE DEF k, l
  <2> QED
    BY <1>1, <2>1, <2>3, <2>4 DEF Before
<1> QED
  BY <1>4, <1>5

(* A node appended comes after every other one.                            *)
LEMMA AppendedOrder ==
  ASSUME NEW q \in Seq(OrderIds), NEW o \in OrderIds, \A i \in DOMAIN q : q[i] # o,
         NEW a, NEW b
  PROVE  Before(Append(q, o), a, b) <=>
           Before(q, a, b) \/ (b = o /\ \E i \in DOMAIN q : q[i] = a)
<1> DEFINE r == Append(q, o)
           n == Len(q)
<1>1. /\ n \in Nat /\ DOMAIN q = 1 .. n /\ DOMAIN r = 1 .. n + 1
      /\ \A i \in 1 .. n : r[i] = q[i]
      /\ r[n + 1] = o
  BY AppendProperties, LenProperties
<1> HIDE DEF r, n
<1>2. ASSUME Before(r, a, b)
      PROVE  Before(q, a, b) \/ (b = o /\ \E i \in DOMAIN q : q[i] = a)
  <2>1. PICK i, j \in 1 .. n + 1 : i < j /\ r[i] = a /\ r[j] = b
    BY <1>1, <1>2 DEF Before
  <2>2. i \in 1 .. n /\ q[i] = a
    BY <1>1, <2>1
  <2>3. CASE j = n + 1
    BY <1>1, <2>1, <2>2, <2>3
  <2>4. CASE j \in 1 .. n
    BY <1>1, <2>1, <2>2, <2>4 DEF Before
  <2> QED
    BY <1>1, <2>3, <2>4
<1>3. ASSUME Before(q, a, b)
      PROVE  Before(r, a, b)
  <2>1. PICK i, j \in 1 .. n : i < j /\ q[i] = a /\ q[j] = b
    BY <1>1, <1>3 DEF Before
  <2>2. i \in 1 .. n + 1 /\ j \in 1 .. n + 1
    BY <1>1
  <2> QED
    BY <1>1, <2>1, <2>2 DEF Before
<1>4. ASSUME NEW i \in DOMAIN q, q[i] = a, b = o
      PROVE  Before(r, a, b)
  <2>1. i \in 1 .. n + 1 /\ n + 1 \in 1 .. n + 1 /\ i < n + 1
    BY <1>1
  <2> QED
    BY <1>1, <1>4, <2>1 DEF Before
<1> QED
  BY <1>2, <1>3, <1>4 DEF r

-----------------------------------------------------------------------------
(* Who is ahead of whom are two orders of one list, and not both ways.     *)
LEMMA AheadNodes ==
  ASSUME BooksInv, NEW a, NEW b, Ahead(a, b)
  PROVE  /\ a \in OrderIds /\ b \in OrderIds /\ a # b
         /\ Rests(a) /\ Rests(b)
         /\ orders[a].side = orders[b].side /\ orders[a].price = orders[b].price
         /\ ~ Ahead(b, a)
<1>1. PICK s \in Sides, p \in Prices : \E i, j \in DOMAIN queue[s][p] :
        i < j /\ queue[s][p][i] = a /\ queue[s][p][j] = b
  BY DEF Ahead
<1>2. PICK i \in DOMAIN queue[s][p], j \in DOMAIN queue[s][p] :
        i < j /\ queue[s][p][i] = a /\ queue[s][p][j] = b
  BY <1>1
<1>3. DOMAIN queue[s][p] \subseteq Int
  BY LenProperties DEF BooksInv, TypeOK
<1>4. /\ a \in OrderIds /\ Rests(a) /\ orders[a].side = s /\ orders[a].price = p
      /\ OnlyAt(queue[s][p], a, i)
      /\ b \in OrderIds /\ Rests(b) /\ orders[b].side = s /\ orders[b].price = p
      /\ OnlyAt(queue[s][p], b, j)
  BY <1>2, Nodes
<1>5. i \in Int /\ j \in Int /\ i # j
  BY <1>2, <1>3
<1>6. a # b
  BY <1>4, <1>5 DEF OnlyAt
<1>7. ASSUME Ahead(b, a) PROVE FALSE
  <2>1. PICK t \in Sides, u \in Prices : \E k, l \in DOMAIN queue[t][u] :
          k < l /\ queue[t][u][k] = b /\ queue[t][u][l] = a
    BY <1>7 DEF Ahead
  <2>2. PICK k \in DOMAIN queue[t][u], l \in DOMAIN queue[t][u] :
          k < l /\ queue[t][u][k] = b /\ queue[t][u][l] = a
    BY <2>1
  <2>3. orders[a].side = t /\ orders[a].price = u
    BY <2>2, Nodes
  <2>4. t = s /\ u = p
    BY <1>4, <2>3
  <2>5. k = j /\ l = i
    BY <1>4, <2>2, <2>4 DEF OnlyAt
  <2> QED
    BY <1>2, <1>5, <2>2, <2>5
<1> QED
  BY <1>4, <1>6, <1>7

(* What a dropped node does to the lists.                                  *)
LEMMA AheadDrop ==
  ASSUME BooksInv,
         NEW s \in Sides, NEW p \in Prices, NEW d \in DOMAIN queue[s][p], NEW r,
         Dropped(queue[s][p], d, r), SetLevel(s, p, r),
         NEW a, NEW b
  PROVE  Ahead(a, b)' <=> Ahead(a, b) /\ queue[s][p][d] \notin {a, b}
<1> DEFINE q == queue[s][p]
           m == q[d]
<1>1. q \in Seq(OrderIds) /\ OnlyAt(q, m, d) /\ orders[m].side = s /\ orders[m].price = p
  BY Nodes DEF BooksInv, TypeOK
<1>2. /\ queue'[s][p] = r
      /\ \A t \in Sides, u \in Prices : ~ (t = s /\ u = p) => queue'[t][u] = queue[t][u]
  BY DEF SetLevel, BooksInv, TypeOK
<1>3. Before(r, a, b) <=> Before(q, a, b) /\ a # m /\ b # m
  BY <1>1, DroppedOrder
<1>4. ASSUME NEW t \in Sides, NEW u \in Prices, ~ (t = s /\ u = p), Before(queue[t][u], a, b)
      PROVE  a # m /\ b # m
  <2>1. PICK i \in DOMAIN queue[t][u], j \in DOMAIN queue[t][u] :
          queue[t][u][i] = a /\ queue[t][u][j] = b
    BY <1>4 DEF Before
  <2>2. orders[a].side = t /\ orders[a].price = u /\ orders[b].side = t /\ orders[b].price = u
    BY <2>1, Nodes
  <2> QED
    BY <1>1, <1>4, <2>2
<1> HIDE DEF q, m
<1>5. ASSUME NEW t \in Sides, NEW u \in Prices
      PROVE  Before(queue'[t][u], a, b) <=> Before(queue[t][u], a, b) /\ a # m /\ b # m
  <2>1. CASE t = s /\ u = p
    BY <1>2, <1>3, <2>1 DEF q
  <2>2. CASE ~ (t = s /\ u = p)
    BY <1>2, <1>4, <2>2
  <2> QED
    BY <2>1, <2>2
<1>6. /\ Ahead(a, b) <=> \E t \in Sides, u \in Prices : Before(queue[t][u], a, b)
      /\ Ahead(a, b)' <=> \E t \in Sides, u \in Prices : Before(queue'[t][u], a, b)
  BY DEF Ahead, Before
<1>7. Ahead(a, b)' <=> Ahead(a, b) /\ a # m /\ b # m
  BY <1>5, <1>6
<1> QED
  BY <1>7 DEF m, q

(* What an appended node does to the lists.                                *)
LEMMA AheadAppend ==
  ASSUME BooksInv, taker \in OrderIds, NEW s \in Sides, NEW p \in Prices,
         add_order(taker, s, p), NEW a, NEW b
  PROVE  Ahead(a, b)' <=>
           \/ Ahead(a, b)
           \/ b = taker /\ \E i \in DOMAIN queue[s][p] : queue[s][p][i] = a
<1> DEFINE q == queue[s][p]
           Joins == b = taker /\ \E i \in DOMAIN q : q[i] = a
<1>1. q \in Seq(OrderIds) /\ \A i \in DOMAIN q : q[i] # taker
  BY Nodes DEF BooksInv, TypeOK
<1>2. /\ queue'[s][p] = Append(q, taker)
      /\ \A t \in Sides, u \in Prices : ~ (t = s /\ u = p) => queue'[t][u] = queue[t][u]
  BY DEF add_order, BooksInv, TypeOK
<1>3. Before(Append(q, taker), a, b) <=> Before(q, a, b) \/ Joins
  BY <1>1, AppendedOrder
<1> HIDE DEF q, Joins
<1>4. ASSUME NEW t \in Sides, NEW u \in Prices
      PROVE  Before(queue'[t][u], a, b) <=>
               Before(queue[t][u], a, b) \/ (t = s /\ u = p /\ Joins)
  <2>1. CASE t = s /\ u = p
    BY <1>2, <1>3, <2>1 DEF q
  <2>2. CASE ~ (t = s /\ u = p)
    BY <1>2, <2>2
  <2> QED
    BY <2>1, <2>2
<1>5. /\ Ahead(a, b) <=> \E t \in Sides, u \in Prices : Before(queue[t][u], a, b)
      /\ Ahead(a, b)' <=> \E t \in Sides, u \in Prices : Before(queue'[t][u], a, b)
  BY DEF Ahead, Before
<1>6. Ahead(a, b)' <=> Ahead(a, b) \/ Joins
  BY <1>4, <1>5
<1> QED
  BY <1>6 DEF Joins, q

-----------------------------------------------------------------------------
(* The resting orders and the taker, as the abstract book sees them.       *)
LEMMA Offers ==
  ASSUME BooksInv
  PROVE  /\ \A r \in Resting :
              /\ r \in OrderIds /\ r # taker /\ Rests(r) /\ Quoted[r] = Offer(r)
              /\ orders[r].side \in Sides /\ orders[r].price \in Prices
              /\ orders[r].remaining \in Int /\ orders[r].remaining > 0
              /\ orders[r].price \in levels[orders[r].side]
         /\ taker # Null =>
              /\ taker \in OrderIds /\ Quoted[taker] = Offer(taker)
              /\ orders[taker] \in Order /\ orders[taker].side \in Sides
              /\ orders[taker].remaining \in Int /\ orders[taker].remaining >= 0
<1>1. ASSUME NEW r \in Resting
      PROVE  /\ r \in OrderIds /\ r # taker /\ Rests(r) /\ Quoted[r] = Offer(r)
             /\ orders[r].side \in Sides /\ orders[r].price \in Prices
             /\ orders[r].remaining \in Int /\ orders[r].remaining > 0
             /\ orders[r].price \in levels[orders[r].side]
  <2>1. r \in OrderIds /\ Rests(r)
    BY DEF Resting
  <2>2. /\ r # taker
        /\ orders[r].side \in Sides /\ orders[r].price \in Prices
        /\ orders[r].remaining > 0
        /\ \E i : OnlyAt(queue[orders[r].side][orders[r].price], r, i)
    BY <2>1, RestsLive
  <2>3. orders[r].remaining \in Int
    BY <2>1, OrdersAssumption DEF Rests, Exists, BooksInv, TypeOK, Order
  <2>4. queue[orders[r].side][orders[r].price] # <<>>
    BY <2>2, EmptySeq DEF OnlyAt
  <2>5. orders[r].price \in levels[orders[r].side]
    BY <2>2, <2>4 DEF BooksInv, NoEmptyLevel
  <2>6. Quoted[r] = Offer(r)
    BY <2>1 DEF Quoted, InMarket, Rests
  <2> QED
    BY <2>1, <2>2, <2>3, <2>5, <2>6
<1>2. ASSUME taker # Null
      PROVE  /\ taker \in OrderIds /\ Quoted[taker] = Offer(taker)
             /\ orders[taker] \in Order /\ orders[taker].side \in Sides
             /\ orders[taker].remaining \in Int /\ orders[taker].remaining >= 0
  <2>1. taker \in OrderIds /\ Exists(taker) /\ orders[taker] \in Order
    BY <1>2 DEF BooksInv, TypeOK, CallOK, Exists
  <2> QED
    BY <2>1, OrdersAssumption DEF Quoted, InMarket, Order
<1> QED
  BY <1>1, <1>2

(* A price in reach is one that crosses.                                   *)
LEMMA ReachesCrosses ==
  ASSUME BooksInv, taker # Null, NEW p \in Prices
  PROVE  Reaches(orders[taker], p) <=>
           (orders[taker].price # Null =>
              ~ Better(Opposite(orders[taker].side), orders[taker].price, p))
<1>1. orders[taker].type \in {"Limit", "Market"}
      /\ (orders[taker].type = "Limit" => orders[taker].price \in Prices)
      /\ (orders[taker].type = "Market" => orders[taker].price = Null)
      /\ orders[taker].side \in Sides
  BY Offers, OrdersAssumption DEF BooksInv, CallOK
<1>2. \A u \in Prices : u \in Int /\ u # Null
  BY OrdersAssumption
<1> QED
  BY <1>1, <1>2 DEF Reaches, Better, Opposite, Sides

-----------------------------------------------------------------------------
(* Neither orders nor lists change for the orders that rest.               *)
LEMMA PriorityKeep ==
  ASSUME BooksInv, queue' = queue, Resting' = Resting,
         \A o \in Resting : /\ orders'[o].side = orders[o].side
                            /\ orders'[o].price = orders[o].price
  PROVE  Priority' = Priority
<1>1. \A a, b : Ahead(a, b)' <=> Ahead(a, b)
  BY DEF Ahead
<1>2. \A a, b \in Resting : Precedes(a, b)' <=> Precedes(a, b)
  BY <1>1 DEF Precedes
<1> QED
  BY <1>2 DEF Priority

(* An order that leaves the book leaves its place in the order.            *)
LEMMA PriorityDrop ==
  ASSUME BooksInv,
         NEW s \in Sides, NEW p \in Prices, NEW d \in DOMAIN queue[s][p], NEW r,
         Dropped(queue[s][p], d, r), SetLevel(s, p, r),
         Resting' = Resting \ {queue[s][p][d]},
         \A o \in Resting' : /\ orders'[o].side = orders[o].side
                             /\ orders'[o].price = orders[o].price
  PROVE  Priority' = Book!Without(queue[s][p][d])
<1> DEFINE m == queue[s][p][d]
<1>1. \A a, b : Ahead(a, b)' <=> Ahead(a, b) /\ m \notin {a, b}
  BY AheadDrop
<1> HIDE DEF m
<1>2. Resting' = Resting \ {m}
  BY DEF m
<1>3. \A a, b \in Resting' : Precedes(a, b)' <=> Precedes(a, b)
  BY <1>1, <1>2 DEF Precedes
<1>4. Priority' = { pair \in Priority : m \notin {pair[1], pair[2]} }
  <2>1. ASSUME NEW z
        PROVE  z \in Priority' <=> z \in Priority /\ m \notin {z[1], z[2]}
    <3>1. z \in Priority' <=> /\ z \in Resting' \X Resting'
                              /\ orders'[z[1]].side = orders'[z[2]].side
                              /\ Precedes(z[1], z[2])'
      BY DEF Priority
    <3>2. z \in Priority <=> /\ z \in Resting \X Resting
                             /\ orders[z[1]].side = orders[z[2]].side
                             /\ Precedes(z[1], z[2])
      BY DEF Priority
    <3>3. z \in Resting' \X Resting' <=>
            z \in Resting \X Resting /\ m \notin {z[1], z[2]}
      BY <1>2
    <3>4. z \in Resting' \X Resting' => z[1] \in Resting' /\ z[2] \in Resting'
      OBVIOUS
    <3> QED
      BY <1>3, <3>1, <3>2, <3>3, <3>4
  <2> QED
    BY <2>1
<1> QED
  BY <1>4 DEF Book!Without, m

-----------------------------------------------------------------------------
(* A table that differs from the quotes in one place.                      *)
LEMMA OneQuote ==
  ASSUME NEW o \in OrderIds,
         \A x \in OrderIds \ {o} : Quoted'[x] = Quoted[x]
  PROVE  Quoted' = [Quoted EXCEPT ![o] = Quoted'[o]]
<1>1. /\ Quoted = [x \in OrderIds |-> Quoted[x]]
      /\ Quoted' = [x \in OrderIds |-> Quoted'[x]]
  BY DEF Quoted
<1> QED
  BY <1>1

(* Steps that no client can see.                                           *)
LEMMA Unseen ==
  ASSUME BooksInv, UNCHANGED << queue, taker, last_price >>,
         \A x \in OrderIds : InMarket(x)' <=> InMarket(x),
         \A x \in OrderIds : InMarket(x) => orders'[x] = orders[x]
  PROVE  UNCHANGED Book!bookVars
<1>1. Quoted' = Quoted
  BY DEF Quoted, Offer
<1>2. \A x \in OrderIds : Rests(x)' <=> Rests(x)
  <2> SUFFICES ASSUME NEW x \in OrderIds
               PROVE  Rests(x)' <=> Rests(x)
    OBVIOUS
  <2>1. CASE InMarket(x)
    BY <2>1 DEF InMarket, Rests, Exists
  <2>2. CASE ~ InMarket(x)
    BY <2>2 DEF InMarket, Rests, Exists
  <2> QED
    BY <2>1, <2>2
<1>3. Resting' = Resting
  BY <1>2 DEF Resting
<1>4. \A x \in Resting : orders'[x] = orders[x]
  BY DEF Resting, InMarket, Rests
<1>5. Priority' = Priority
  BY <1>3, <1>4, PriorityKeep
<1> QED
  BY <1>1, <1>3, <1>5 DEF Book!bookVars

(* A call is made: the order arrives, or it is refused and changes nothing. *)
LEMMA EntryImplements ==
  ASSUME BooksInv, NEW o \in OrderIds, NEW ord \in Order, ~ ord.book_it,
         ~ InMarket(o), process_order(o, ord)
  PROVE  Book!BookNext \/ UNCHANGED Book!bookVars
<1>1. ord # Null
  BY NullAssumption
<1>2. /\ orders'[o] = ord
      /\ \A x \in OrderIds : x # o => orders'[x] = orders[x]
      /\ taker = Null /\ taker' \in {Null, o} /\ o # Null
      /\ UNCHANGED << queue, last_price >>
  BY OrdersAssumption DEF process_order, BooksInv, TypeOK
<1>3. ASSUME NEW x \in OrderIds, x # o
      PROVE  InMarket(x)' <=> InMarket(x)
  BY <1>2, <1>3, OrdersAssumption DEF InMarket, Exists
<1>4. ~ InMarket(o) /\ (InMarket(o)' <=> taker' = o)
  BY <1>1, <1>2 DEF InMarket, Exists
<1>5. CASE taker' = Null
  BY <1>2, <1>3, <1>4, <1>5, Unseen DEF InMarket, Exists
<1>6. CASE taker' = o
  <2>1. \A x \in OrderIds \ {o} : Quoted'[x] = Quoted[x]
    BY <1>2, <1>3 DEF Quoted, Offer
  <2>2. Quoted[o] = Null /\ Quoted'[o] = Offer(o)'
    BY <1>4, <1>6 DEF Quoted
  <2>3. Offer(o)' \in Book!Quote
    <3>1. ord.side \in {"Buy", "Sell"} /\ ord.price \in Prices \union {Null}
          /\ ord.remaining \in Nat
      BY <1>1, OrdersAssumption DEF Order, Sides
    <3> QED
      BY <1>2, <3>1 DEF Offer, Book!Quote
  <2>4. Resting' = Resting /\ \A x \in Resting : orders'[x] = orders[x]
    BY <1>1, <1>2, <1>4 DEF InMarket, Resting, Rests, Exists
  <2>5. Priority' = Priority
    BY <1>2, <2>4, PriorityKeep
  <2>6. Book!Arrive(o)
    BY <1>2, <1>6, <2>1, <2>2, <2>3, <2>4, <2>5, OneQuote DEF Book!Arrive
  <2> QED
    BY <2>6 DEF Book!BookNext
<1> QED
  BY <1>2, <1>5, <1>6

(* An order is withdrawn, or the request changes nothing.                  *)
LEMMA CancelImplements ==
  ASSUME BooksInv, NEW o \in OrderIds, orders[o] # Null, cancel_order(o)
  PROVE  Book!BookNext \/ UNCHANGED Book!bookVars
<1>1. taker = Null /\ UNCHANGED << taker, last_price >> /\ o # taker
  BY OrdersAssumption DEF cancel_order
<1>2. CASE UNCHANGED << orders, levels, queue >>
  BY <1>1, <1>2, Unseen DEF InMarket, Exists
<1>3. CASE ~ UNCHANGED << orders, levels, queue >>
  <2> DEFINE s == orders[o].side
             p == orders[o].price
             q == queue[s][p]
  <2>1. /\ orders[o].book_it /\ EraseNode(o, s, p)
        /\ orders' = [orders EXCEPT ![o].status = "Canceled", ![o].book_it = FALSE,
                                    ![o].remaining = 0]
    BY <1>3 DEF cancel_order
  <2>2. /\ Rests(o) /\ o \in Resting /\ s \in Sides /\ p \in Prices
        /\ orders[o] \in Order
    BY <2>1, RestsLive DEF Resting, Rests, Exists, BooksInv, TypeOK
  <2>3. ~ orders'[o].book_it /\ \A x \in OrderIds \ {o} : orders'[x] = orders[x]
    BY <2>1, <2>2 DEF BooksInv, TypeOK, Order
  <2>4. PICK d \in DOMAIN q : q[d] = o /\ SetLevel(s, p, RemoveAt(q, d))
    BY <2>1 DEF EraseNode
  <2>5. Dropped(q, d, RemoveAt(q, d))
    <3>1. q \in Seq(OrderIds) /\ d \in 1 .. Len(q)
      BY <2>2, LenProperties DEF BooksInv, TypeOK
    <3> QED
      BY <3>1, RemoveAtProperties DEF Dropped
  <2>6. Resting' = Resting \ {o}
    BY <2>3 DEF Resting, Rests, Exists
  <2> HIDE DEF s, p
  <2>7. Priority' = Book!Without(o)
    <3>1. \A x \in Resting' : orders'[x].side = orders[x].side
                              /\ orders'[x].price = orders[x].price
      BY <2>3, <2>6 DEF Resting
    <3>2. Priority' = Book!Without(q[d])
      BY <2>2, <2>4, <2>5, <2>6, <3>1, PriorityDrop
    <3> QED
      BY <2>4, <3>2
  <2>8. Quoted'[o] = Null /\ \A x \in OrderIds \ {o} : Quoted'[x] = Quoted[x]
    BY <1>1, <2>3 DEF Quoted, InMarket, Exists, Offer
  <2>9. Book!Withdraw(o)
    BY <1>1, <2>2, <2>6, <2>7, <2>8, OneQuote DEF Book!Withdraw
  <2> QED
    BY <2>9 DEF Book!BookNext
<1> QED
  BY <1>2, <1>3

(* The head of the best level of the other side is first in priority.      *)
LEMMA FirstInPriority ==
  ASSUME BooksInv, NEW s \in Sides, NEW p \in levels[s], IsBest(s, p),
         NEW m, 1 \in DOMAIN queue[s][p], m = queue[s][p][1],
         NEW r \in Resting, r # m, orders[r].side = s
  PROVE  << m, r >> \in Priority
<1> DEFINE u == orders[r].price
<1>1. /\ r \in OrderIds /\ Rests(r) /\ u \in Prices /\ u \in levels[s] /\ p \in Prices
      /\ p \in Int /\ u \in Int
  BY Offers, OrdersAssumption DEF BooksInv, TypeOK
<1>2. /\ m \in OrderIds /\ Rests(m) /\ orders[m].side = s /\ orders[m].price = p
  BY <1>1, Nodes
<1>3. m \in Resting
  BY <1>2 DEF Resting
<1>4. CASE u = p
  <2>1. PICK i : OnlyAt(queue[s][p], r, i)
    BY <1>1, <1>4, RestsLive
  <2>2. i \in DOMAIN queue[s][p] /\ queue[s][p][i] = r /\ i # 1
    BY <2>1 DEF OnlyAt
  <2>3. i \in Nat /\ 1 < i
    BY <1>1, <2>2, LenProperties DEF BooksInv, TypeOK
  <2>4. Ahead(m, r)
    BY <1>1, <2>2, <2>3 DEF Ahead
  <2> QED
    BY <1>2, <1>3, <2>4 DEF Priority, Precedes
<1>5. CASE u # p
  <2>1. Better(s, p, u)
    BY <1>1, <1>5 DEF IsBest, Better
  <2> QED
    BY <1>2, <1>3, <2>1 DEF Priority, Precedes
<1> QED
  BY <1>4, <1>5

(* The tail of a list is the list without its head.                        *)
LEMMA TailDropped ==
  ASSUME NEW q \in Seq(OrderIds), 1 \in DOMAIN q
  PROVE  Dropped(q, 1, Tail(q))
<1>1. q # <<>>
  BY EmptySeq
<1>2. /\ Tail(q) \in Seq(OrderIds) /\ Len(Tail(q)) = Len(q) - 1
      /\ \A k \in 1 .. Len(Tail(q)) : Tail(q)[k] = q[k + 1]
  BY <1>1, HeadTailProperties
<1>3. \A k \in 1 .. Len(q) - 1 : ~ (k < 1)
  BY LenProperties
<1> QED
  BY <1>2, <1>3 DEF Dropped

(* One iteration of the matching loop is a trade with the first in         *)
(* priority.                                                               *)
LEMMA MatchImplements ==
  ASSUME BooksInv, taker # Null, Match
  PROVE  Book!BookNext
<1> DEFINE s == Opposite(orders[taker].side)
<1>1. /\ s \in Sides /\ s # orders[taker].side
      /\ \A t \in Sides : t # orders[taker].side => t = s
      /\ orders[taker].remaining > 0
  BY Offers DEF Opposite, Sides, Match, CanMatch
<1>2. PICK p \in levels[s] : IsBest(s, p) /\ Trade(s, p)
  BY DEF Match
<1>3. PICK m, n : TradeFacts(s, p, m, n)
  BY <1>1, <1>2, TradeEffect
<1>4. taker' = taker /\ last_price' = p /\ p \in Prices
  BY <1>1, <1>2 DEF Match, Trade, BooksInv, TypeOK
<1>5. PICK u \in levels[s] : Reaches(orders[taker], u)
  BY DEF Match, CanMatch
<1>6. Reaches(orders[taker], p)
  <2>1. u \in Prices /\ ~ Better(s, u, p)
    BY <1>1, <1>2, <1>5 DEF IsBest, BooksInv, TypeOK
  <2>2. \A v \in Prices : v \in Int
    BY OrdersAssumption
  <2>3. orders[taker].type = "Limit" => orders[taker].price \in Prices
    BY OrdersAssumption DEF BooksInv, CallOK
  <2> QED
    BY <1>1, <1>4, <1>5, <2>1, <2>2, <2>3, Offers DEF Reaches, Better, Opposite, Sides
<1> HIDE DEF s
<1>7. /\ 1 \in DOMAIN queue[s][p] /\ m = queue[s][p][1]
      /\ taker \in OrderIds /\ m \in OrderIds /\ m # taker /\ Rests(m)
      /\ orders[m].side = s /\ orders[m].price = p
      /\ queue[s][p] \in Seq(OrderIds)
  <2>1. /\ 1 \in DOMAIN queue[s][p] /\ m = queue[s][p][1]
        /\ taker \in OrderIds /\ m \in OrderIds /\ m # taker /\ Rests(m)
    BY <1>3 DEF TradeFacts
  <2>2. queue[s][p] \in Seq(OrderIds)
    BY <1>1, <1>4 DEF BooksInv, TypeOK
  <2>3. orders[m].side = s /\ orders[m].price = p
    BY <1>1, <1>4, <2>1, Nodes
  <2> QED
    BY <2>1, <2>2, <2>3
<1>8. m \in Resting
  BY <1>7 DEF Resting
<1>9. /\ Quoted[taker] = Offer(taker) /\ Quoted[m] = Offer(m)
      /\ orders[taker].remaining \in Int
      /\ orders[m].remaining \in Int /\ orders[m].remaining > 0
  BY <1>8, Offers
<1>10. m \in Book!Opposing /\ \A r \in Book!Opposing : r \in Resting /\ orders[r].side = s
  <2>1. ASSUME NEW r \in Resting
        PROVE  Quoted[r].side = orders[r].side /\ orders[r].side \in Sides
    <3>1. Quoted[r] = Offer(r) /\ orders[r].side \in Sides
      BY Offers
    <3> QED
      BY <3>1 DEF Offer
  <2>2. Quoted[taker].side = orders[taker].side
    BY <1>9 DEF Offer
  <2> QED
    BY <1>1, <1>7, <1>8, <2>1, <2>2 DEF Book!Opposing, Book!SameSide
<1>11. Book!Crosses(m)
  <2>1. orders[taker].price # Null => ~ Better(s, orders[taker].price, p)
    BY <1>4, <1>6, ReachesCrosses DEF s
  <2> QED
    BY <1>7, <1>9, <2>1 DEF Book!Crosses, Book!BetterPrice, Better, Offer
<1>12. \A r \in Book!Opposing \ {m} : << m, r >> \in Priority
  BY <1>1, <1>2, <1>7, <1>10, FirstInPriority
<1>13. Quoted[taker].left > 0 /\ Quoted[m].limit = p
  BY <1>1, <1>7, <1>9 DEF Offer
<1>14. /\ n \in {orders[taker].remaining, orders[m].remaining}
       /\ n <= orders[taker].remaining /\ n <= orders[m].remaining
       /\ \A o \in {m, taker} :
            /\ orders'[o] # Null
            /\ orders'[o].remaining = orders[o].remaining - n
            /\ orders'[o].side = orders[o].side
            /\ orders'[o].price = orders[o].price
       /\ orders'[m].book_it <=> orders[m].remaining # n
       /\ orders'[taker].book_it = orders[taker].book_it
       /\ \A o \in OrderIds \ {m, taker} : orders'[o] = orders[o]
       /\ SetLevel(s, p, IF orders[m].remaining = n THEN Tail(queue[s][p])
                                                    ELSE queue[s][p])
  BY <1>3 DEF TradeFacts
<1>15. ~ Rests(taker) /\ Exists(taker) /\ ~ orders[taker].book_it
  BY DEF BooksInv, CallOK, Rests
<1>16. /\ Quoted'[taker] = [Quoted[taker] EXCEPT !.left = Quoted[taker].left - n]
       /\ \A o \in OrderIds \ {m, taker} : Quoted'[o] = Quoted[o]
  <2>1. Quoted'[taker] = Offer(taker)'
    BY <1>4, <1>7, <1>14 DEF Quoted, InMarket, Exists
  <2>2. Offer(taker)' = [Offer(taker) EXCEPT !.left = Offer(taker).left - n]
    BY <1>4, <1>14 DEF Offer
  <2> QED
    BY <1>4, <1>9, <1>14, <2>1, <2>2 DEF Quoted, InMarket, Exists, Offer
<1>17. \A x \in OrderIds \ {m} : Rests(x)' <=> Rests(x)
  BY <1>14, <1>15 DEF Rests, Exists
<1>18. CASE orders[m].remaining # n
  <2>1. /\ n = orders[taker].remaining
        /\ Quoted[taker].left < Quoted[m].left
        /\ Quoted[taker].left = n
    BY <1>9, <1>14, <1>18 DEF Offer
  <2>2. Quoted'[m] = [Quoted[m] EXCEPT !.left = Quoted[m].left - n]
    <3>1. Quoted'[m] = Offer(m)'
      BY <1>7, <1>14, <1>18 DEF Quoted, InMarket, Exists
    <3> QED
      BY <1>9, <1>14, <3>1 DEF Offer
  <2>3. Resting' = Resting
    BY <1>7, <1>14, <1>17, <1>18 DEF Resting, Rests, Exists
  <2>4. queue' = queue
    BY <1>14, <1>18 DEF SetLevel, BooksInv, TypeOK
  <2>5. Priority' = Priority
    BY <1>14, <2>3, <2>4, PriorityKeep DEF Resting
  <2>6. Quoted' = [Quoted EXCEPT ![taker].left = 0,
                                 ![m].left = @ - Quoted[taker].left]
    <3>1. /\ Quoted = [x \in OrderIds |-> Quoted[x]]
          /\ Quoted' = [x \in OrderIds |-> Quoted'[x]]
      BY DEF Quoted
    <3>2. Quoted'[taker] = [Quoted[taker] EXCEPT !.left = 0]
      BY <1>9, <1>16, <2>1
    <3> QED
      BY <1>7, <1>16, <2>1, <2>2, <3>1, <3>2
  <2>7. Book!Execute(m)
    BY <1>4, <1>10, <1>11, <1>12, <1>13, <2>1, <2>3, <2>5, <2>6
       DEF Book!Execute
  <2> QED
    BY <1>7, <2>7 DEF Book!BookNext
<1>19. CASE orders[m].remaining = n
  <2>1. /\ ~ (Quoted[taker].left < Quoted[m].left)
        /\ Quoted[m].left = n
    BY <1>9, <1>14, <1>19 DEF Offer
  <2>2. Quoted'[m] = Null
    BY <1>4, <1>7, <1>14, <1>19 DEF Quoted, InMarket
  <2>3. Resting' = Resting \ {m}
    BY <1>14, <1>17, <1>19 DEF Resting, Rests
  <2>4. Dropped(queue[s][p], 1, Tail(queue[s][p]))
    BY <1>7, TailDropped
  <2>5. \A x \in Resting' : orders'[x].side = orders[x].side
                            /\ orders'[x].price = orders[x].price
    BY <1>14, <2>3 DEF Resting
  <2>6. Priority' = Book!Without(m)
    BY <1>1, <1>4, <1>7, <1>14, <1>19, <2>3, <2>4, <2>5, PriorityDrop
  <2>7. Quoted' = [Quoted EXCEPT ![taker].left = @ - Quoted[m].left, ![m] = Null]
    <3>1. /\ Quoted = [x \in OrderIds |-> Quoted[x]]
          /\ Quoted' = [x \in OrderIds |-> Quoted'[x]]
      BY DEF Quoted
    <3> QED
      BY <1>7, <1>16, <2>1, <2>2, <3>1
  <2>8. Book!Execute(m)
    BY <1>4, <1>10, <1>11, <1>12, <1>13, <2>1, <2>3, <2>6, <2>7
       DEF Book!Execute
  <2> QED
    BY <1>7, <2>8 DEF Book!BookNext
<1> QED
  BY <1>18, <1>19

(* When the loop ends nothing is left to trade, whatever the loop saw.     *)
LEMMA NothingToTrade ==
  ASSUME BooksInv, taker # Null, ~ CanMatch
  PROVE  ~ Book!CanTrade
<1> SUFFICES ASSUME Book!CanTrade
             PROVE  CanMatch
  OBVIOUS
<1>1. PICK o \in Book!Opposing : Book!Crosses(o)
  BY DEF Book!CanTrade
<1>2. o \in Resting /\ Quoted[o].side # Quoted[taker].side /\ Quoted[taker].left > 0
  BY DEF Book!Opposing, Book!SameSide, Book!CanTrade
<1>3. /\ Quoted[o] = Offer(o) /\ orders[o].side \in Sides /\ orders[o].price \in Prices
      /\ orders[o].price \in levels[orders[o].side]
  BY <1>2, Offers
<1>4. Quoted[taker] = Offer(taker) /\ orders[taker].side \in Sides
  BY Offers
<1>5. orders[o].side = Opposite(orders[taker].side) /\ orders[taker].remaining > 0
  BY <1>2, <1>3, <1>4 DEF Offer, Opposite, Sides
<1>6. orders[taker].price # Null =>
        ~ Better(Opposite(orders[taker].side), orders[taker].price, orders[o].price)
  BY <1>1, <1>3, <1>4, <1>5 DEF Book!Crosses, Book!BetterPrice, Better, Offer
<1>7. Reaches(orders[taker], orders[o].price)
  BY <1>3, <1>6, ReachesCrosses
<1> QED
  BY <1>3, <1>5, <1>7 DEF CanMatch

(* The order that comes to rest is behind all that are as good, and ahead  *)
(* of the others.                                                          *)
LEMMA PriorityRest ==
  ASSUME BooksInv, taker # Null, orders[taker].price \in Prices,
         add_order(taker, orders[taker].side, orders[taker].price),
         Resting' = Resting \cup {taker},
         \A o \in Resting' : /\ orders'[o].side = orders[o].side
                             /\ orders'[o].price = orders[o].price,
         NEW a \in Resting', NEW b \in Resting'
  PROVE  << a, b >> \in Priority' <=>
           \/ << a, b >> \in Priority
           \/ /\ a = taker /\ b \in Resting /\ orders[b].side = orders[a].side
              /\ Better(orders[b].side, orders[a].price, orders[b].price)
           \/ /\ b = taker /\ a \in Resting /\ orders[a].side = orders[b].side
              /\ ~ Better(orders[a].side, orders[b].price, orders[a].price)
<1> DEFINE s == orders[taker].side
           p == orders[taker].price
<1>1. /\ taker \in OrderIds /\ s \in Sides /\ p \in Int
      /\ ~ Rests(taker) /\ taker \notin Resting
  BY Offers, OrdersAssumption DEF BooksInv, CallOK, Rests
<1>2. Ahead(a, b)' <=> \/ Ahead(a, b)
                       \/ b = taker /\ \E i \in DOMAIN queue[s][p] : queue[s][p][i] = a
  BY <1>1, AheadAppend
<1>3. Ahead(a, b) => a \in Resting /\ b \in Resting
  BY AheadNodes DEF Resting
<1>4. << a, b >> \in Priority' <=>
        orders[a].side = orders[b].side
        /\ (Better(orders[a].side, orders[a].price, orders[b].price) \/ Ahead(a, b)')
  BY DEF Priority, Precedes
<1>5. << a, b >> \in Priority <=>
        /\ a \in Resting /\ b \in Resting /\ orders[a].side = orders[b].side
        /\ (Better(orders[a].side, orders[a].price, orders[b].price) \/ Ahead(a, b))
  BY DEF Priority, Precedes
<1>6. CASE a # taker /\ b # taker
  BY <1>2, <1>4, <1>5, <1>6
<1>7. CASE a = taker /\ b # taker
  BY <1>1, <1>2, <1>3, <1>4, <1>5, <1>7
<1>8. CASE a # taker /\ b = taker
  <2>1. a \in Resting /\ a \in OrderIds /\ Rests(a) /\ orders[a].price \in Int
    BY <1>8, Offers, OrdersAssumption
  <2>2. (\E i \in DOMAIN queue[s][p] : queue[s][p][i] = a) <=>
          orders[a].side = s /\ orders[a].price = p
    <3>1. ASSUME NEW i \in DOMAIN queue[s][p], queue[s][p][i] = a
          PROVE  orders[a].side = s /\ orders[a].price = p
      BY <1>1, <3>1, Nodes
    <3>2. ASSUME orders[a].side = s, orders[a].price = p
          PROVE  \E i \in DOMAIN queue[s][p] : queue[s][p][i] = a
      <4>1. PICK i : OnlyAt(queue[orders[a].side][orders[a].price], a, i)
        BY <2>1, RestsLive
      <4> QED
        BY <3>2, <4>1 DEF OnlyAt
    <3> QED
      BY <3>1, <3>2
  <2>3. Better(orders[a].side, orders[a].price, p) \/ orders[a].price = p
          <=> ~ Better(orders[a].side, p, orders[a].price)
    BY <1>1, <2>1 DEF Better
  <2> QED
    BY <1>1, <1>2, <1>3, <1>4, <1>5, <1>8, <2>1, <2>2, <2>3
<1>9. CASE a = taker /\ b = taker
  <2>1. ~ Better(s, p, p)
    BY <1>1 DEF Better
  <2>2. ~ \E i \in DOMAIN queue[s][p] : queue[s][p][i] = taker
    BY <1>1, Nodes
  <2> QED
    BY <1>1, <1>2, <1>3, <1>4, <1>5, <1>9, <2>1, <2>2
<1> QED
  BY <1>6, <1>7, <1>8, <1>9

(* After the loop the order rests or leaves.                               *)
LEMMA FinishImplements ==
  ASSUME BooksInv, taker # Null, NEW status \in OrderStatuses, NEW rests \in BOOLEAN,
         Finish(status, rests),
         rests => orders[taker].type = "Limit" /\ orders[taker].remaining # 0
  PROVE  Book!BookNext
<1>1. /\ taker' = Null /\ last_price' = last_price
      /\ ~ CanMatch /\ ~ Book!CanTrade
  BY NothingToTrade DEF Finish
<1>2. /\ taker \in OrderIds /\ orders[taker] \in Order /\ ~ orders[taker].book_it
      /\ Exists(taker) /\ ~ Rests(taker) /\ taker \notin Resting
  BY Offers DEF BooksInv, CallOK, Rests
<1>3. /\ orders'[taker] # Null
      /\ orders'[taker].side = orders[taker].side
      /\ orders'[taker].price = orders[taker].price
      /\ orders'[taker].remaining = orders[taker].remaining
      /\ orders'[taker].book_it = rests
      /\ \A x \in OrderIds \ {taker} : orders'[x] = orders[x]
  <2> DEFINE rec == [orders[taker] EXCEPT !.status = status, !.book_it = @ \/ rests]
  <2>1. orders' = [orders EXCEPT ![taker] = rec]
    BY DEF Finish
  <2>2. /\ rec.side = orders[taker].side /\ rec.price = orders[taker].price
        /\ rec.remaining = orders[taker].remaining /\ rec.book_it = rests
        /\ rec.quantity = orders[taker].quantity
    BY <1>2 DEF Order
  <2>3. orders'[taker] = rec /\ \A x \in OrderIds \ {taker} : orders'[x] = orders[x]
    BY <1>2, <2>1 DEF BooksInv, TypeOK
  <2>4. rec # Null
    <3>1. (orders[taker].book_it \/ rests) \in BOOLEAN
      OBVIOUS
    <3>2. rec \in Order
      BY <1>2, <3>1 DEF Order
    <3> QED
      BY <3>2, NullAssumption
  <2> HIDE DEF rec
  <2> QED
    BY <2>2, <2>3, <2>4
<1>4. \A x \in OrderIds \ {taker} : Quoted'[x] = Quoted[x] /\ (Rests(x)' <=> Rests(x))
  BY <1>1, <1>3, OrdersAssumption DEF Quoted, InMarket, Offer, Exists, Rests
<1>5. Quoted[taker] = Offer(taker) /\ orders[taker].remaining \in Int
      /\ orders[taker].remaining >= 0
  BY Offers
<1>6. CASE rests
  <2>1. Quoted'[taker] = Quoted[taker]
    BY <1>2, <1>3, <1>5, <1>6 DEF Quoted, InMarket, Exists, Offer
  <2>2. Quoted' = Quoted
    <3>1. /\ Quoted = [x \in OrderIds |-> Quoted[x]]
          /\ Quoted' = [x \in OrderIds |-> Quoted'[x]]
      BY DEF Quoted
    <3> QED
      BY <1>4, <2>1, <3>1
  <2>3. Resting' = Resting \cup {taker}
    BY <1>2, <1>3, <1>4, <1>6 DEF Resting, Rests, Exists
  <2>4. /\ add_order(taker, orders[taker].side, orders[taker].price)
        /\ orders[taker].price \in Prices /\ orders[taker].price # Null
        /\ Quoted[taker].left > 0 /\ Quoted[taker].limit # Null
    BY <1>5, <1>6, OrdersAssumption DEF Finish, BooksInv, CallOK, Offer
  <2>5. \A x \in Resting' : orders'[x].side = orders[x].side
                            /\ orders'[x].price = orders[x].price
    BY <1>3, <2>3 DEF Resting
  <2> DEFINE behind == { r \in Book!SameSide(taker) :
                 Book!BetterPrice(Quoted[r].side, Quoted[taker].limit, Quoted[r].limit) }
             new == Priority \union ({taker} \X behind)
                             \union ((Book!SameSide(taker) \ behind) \X {taker})
  <2>6. /\ \A r : r \in Book!SameSide(taker) <=>
                    r \in Resting /\ orders[r].side = orders[taker].side
        /\ \A r : r \in behind <=>
                    /\ r \in Resting /\ orders[r].side = orders[taker].side
                    /\ Better(orders[r].side, orders[taker].price, orders[r].price)
    <3>1. ASSUME NEW r \in Resting
          PROVE  Quoted[r].side = orders[r].side /\ Quoted[r].limit = orders[r].price
      <4>1. Quoted[r] = Offer(r)
        BY Offers
      <4> QED
        BY <4>1 DEF Offer
    <3>2. Quoted[taker].side = orders[taker].side /\ Quoted[taker].limit = orders[taker].price
      BY <1>5 DEF Offer
    <3> QED
      BY <3>1, <3>2 DEF Book!SameSide, Book!BetterPrice, Better
  <2> HIDE DEF behind
  <2>7. ASSUME NEW a, NEW b
        PROVE  << a, b >> \in Priority' <=> << a, b >> \in new
    <3>1. CASE a \in Resting' /\ b \in Resting'
      <4>1. << a, b >> \in new <=>
              \/ << a, b >> \in Priority
              \/ a = taker /\ b \in behind
              \/ b = taker /\ a \in Book!SameSide(taker) \ behind
        OBVIOUS
      <4>2. << a, b >> \in Priority' <=>
              \/ << a, b >> \in Priority
              \/ /\ a = taker /\ b \in Resting /\ orders[b].side = orders[a].side
                 /\ Better(orders[b].side, orders[a].price, orders[b].price)
              \/ /\ b = taker /\ a \in Resting /\ orders[a].side = orders[b].side
                 /\ ~ Better(orders[a].side, orders[b].price, orders[a].price)
        BY <2>3, <2>4, <2>5, <3>1, PriorityRest
      <4> QED
        BY <2>6, <4>1, <4>2
    <3>2. CASE ~ (a \in Resting' /\ b \in Resting')
      BY <2>3, <2>6, <3>2 DEF Priority
    <3> QED
      BY <3>1, <3>2
  <2>8. Priority' = new
    <3>1. \A z \in Priority' : z = << z[1], z[2] >>
      BY DEF Priority
    <3>2. \A z \in new : z = << z[1], z[2] >>
      BY DEF Priority
    <3> HIDE DEF new
    <3> QED
      BY <2>7, <3>1, <3>2
  <2>9. Book!Rest
    BY <1>1, <2>2, <2>3, <2>4, <2>8 DEF Book!Rest, behind
  <2> QED
    BY <2>9 DEF Book!BookNext
<1>7. CASE ~ rests
  <2>1. Quoted'[taker] = Null
    BY <1>1, <1>2, <1>3, <1>7, OrdersAssumption DEF Quoted, InMarket
  <2>2. Resting' = Resting
    BY <1>2, <1>3, <1>4, <1>7 DEF Resting, Rests
  <2>3. queue' = queue
    BY <1>7 DEF Finish
  <2>4. Priority' = Priority
    BY <1>2, <1>3, <2>2, <2>3, PriorityKeep DEF Resting
  <2>5. Book!Leave
    BY <1>1, <1>2, <1>4, <2>1, <2>2, <2>4, OneQuote DEF Book!Leave
  <2> QED
    BY <2>5 DEF Book!BookNext
<1> QED
  BY <1>6, <1>7

(* The four process_..._order functions.                                   *)
LEMMA ProcessImplements ==
  ASSUME BooksInv, ProcessStep
  PROVE  Book!BookNext
<1>1. taker # Null
  BY ProcessCases
<1>2. CASE Match
  BY <1>1, <1>2, MatchImplements
<1>3. ASSUME NEW status \in {"New", "PartiallyFilled", "Filled"}, NEW rests \in BOOLEAN,
             Finish(status, rests),
             rests => /\ orders[taker].type = "Limit" /\ orders[taker].tif # "IOC"
                      /\ orders[taker].remaining # 0
      PROVE  Book!BookNext
  BY <1>1, <1>3, FinishImplements DEF OrderStatuses
<1> QED
  BY <1>2, <1>3, ProcessCases

(* Each step of the market is one of the abstract book, or none.           *)
LEMMA StepImplements ==
  ASSUME IInv, [MarketNext]_marketVars
  PROVE  [Book!BookNext]_(Book!bookVars)
<1>0. BooksInv
  BY DEF IInv
<1>1. ASSUME NEW o \in OrderIds, NEW ord \in NewOrders, orders[o] = Null,
             process_order(o, ord)
      PROVE  Book!BookNext \/ UNCHANGED Book!bookVars
  <2>1. o # taker
    BY <1>1, OrdersAssumption DEF process_order
  <2> QED
    BY <1>0, <1>1, <2>1, EntryImplements, NewOrdersAssumption DEF InMarket, Exists
<1>2. CASE ProcessStep
  BY <1>0, <1>2, ProcessImplements
<1>3. CASE \E o \in OrderIds : orders[o] # Null /\ cancel_order(o)
  BY <1>0, <1>3, CancelImplements
<1>4. CASE activate \/ deactivate \/ UNCHANGED marketVars
  <2>1. UNCHANGED << orders, queue, taker, last_price >>
    BY <1>4 DEF activate, deactivate, marketVars
  <2> QED
    BY <1>0, <2>1, Unseen DEF InMarket, Exists
<1> QED
  BY <1>1, <1>2, <1>3, <1>4 DEF MarketNext, ProcessStep

(* The market starts as an empty book.                                     *)
LEMMA StartImplements == MarketInit => Book!BookInit
<1> SUFFICES ASSUME MarketInit
             PROVE  Book!BookInit
  OBVIOUS
<1>1. \A o \in OrderIds : ~ Exists(o)
  BY DEF MarketInit, Exists
<1>2. Resting = {} /\ Quoted = [o \in OrderIds |-> Null]
  BY <1>1 DEF Resting, Rests, Quoted, InMarket
<1>3. Priority = {}
  BY <1>2 DEF Priority
<1> QED
  BY <1>2, <1>3 DEF Book!BookInit, MarketInit

(* The market keeps its promise to its clients, for every set of orders,   *)
(* prices and quantities and every sequence of calls: an incoming order    *)
(* trades with the first in price-time priority, at that order's price,    *)
(* and nothing but its own call puts an order into the book or another's   *)
(* trade or its own cancel takes it out.                                   *)
THEOREM Refinement == MarketSpec => ImplementsBook
<1>1. MarketInit => Book!BookInit
  BY StartImplements
<1>2. IInv /\ [MarketNext]_marketVars => [Book!BookNext]_(Book!bookVars)
  BY StepImplements
<1> QED
  BY <1>1, <1>2, Invariance, PTL DEF MarketSpec, ImplementsBook, Book!BookSpec

-----------------------------------------------------------------------------
(* A step that can change a list or make a trade, or one that cannot.      *)
BooksStep ==
  \/ ProcessStep
  \/ \E o \in OrderIds : orders[o] # Null /\ cancel_order(o)
  \/ UNCHANGED << queue, executed >>

(* No step puts an order ahead of another, except the taker at the end of  *)
(* a list.                                                                 *)
LEMMA AheadStep ==
  ASSUME BooksInv, BooksStep, NEW a, NEW b, Ahead(a, b)'
  PROVE  Ahead(a, b) \/ (b = taker /\ taker # Null)
<1>1. CASE queue' = queue
  BY <1>1 DEF Ahead
<1>2. ASSUME taker # Null, Match
      PROVE  Ahead(a, b)
  <2> DEFINE s == Opposite(orders[taker].side)
  <2>1. s \in Sides /\ orders[taker].remaining > 0
    BY <1>2 DEF Opposite, Sides, Match, CanMatch
  <2>2. PICK p \in levels[s] : Trade(s, p)
    BY <1>2 DEF Match
  <2>3. PICK m, n : TradeFacts(s, p, m, n)
    BY <1>2, <2>1, <2>2, TradeEffect
  <2> HIDE DEF s
  <2>4. p \in Prices /\ queue[s][p] \in Seq(OrderIds) /\ 1 \in DOMAIN queue[s][p]
    BY <2>1, <2>3 DEF TradeFacts, BooksInv, TypeOK
  <2>5. CASE orders[m].remaining = n
    <3>1. SetLevel(s, p, Tail(queue[s][p]))
      BY <2>3, <2>5 DEF TradeFacts
    <3> QED
      BY <2>1, <2>4, <3>1, TailDropped, AheadDrop
  <2>6. CASE orders[m].remaining # n
    <3>1. SetLevel(s, p, queue[s][p])
      BY <2>3, <2>6 DEF TradeFacts
    <3> QED
      BY <1>1, <3>1, <2>1, <2>4, AheadNodes DEF SetLevel, BooksInv, TypeOK, Ahead
  <2> QED
    BY <2>5, <2>6
<1>3. ASSUME taker # Null, NEW status, NEW rests,
             rests => orders[taker].type = "Limit", Finish(status, rests)
      PROVE  Ahead(a, b) \/ b = taker
  <2>1. CASE ~ rests
    BY <1>1, <1>3, <2>1 DEF Finish, Ahead
  <2>2. CASE rests
    <3>1. /\ taker \in OrderIds /\ orders[taker].side \in Sides
          /\ orders[taker].price \in Prices
          /\ add_order(taker, orders[taker].side, orders[taker].price)
      BY <1>3, <2>2, Offers, OrdersAssumption DEF Finish, BooksInv, CallOK
    <3> QED
      BY <3>1, AheadAppend
  <2> QED
    BY <2>1, <2>2
<1>4. CASE ProcessStep
  BY <1>2, <1>3, <1>4, ProcessCases
<1>5. CASE \E o \in OrderIds : orders[o] # Null /\ cancel_order(o)
  <2>1. PICK o \in OrderIds : orders[o] # Null /\ cancel_order(o)
    BY <1>5
  <2>2. CASE queue' # queue
    <3> DEFINE s == orders[o].side
               p == orders[o].price
    <3>1. orders[o].book_it /\ EraseNode(o, s, p)
      BY <2>1, <2>2 DEF cancel_order
    <3>2. s \in Sides /\ p \in Prices
      BY <2>1, <3>1, RestsLive DEF Rests, Exists
    <3> HIDE DEF s, p
    <3>3. PICK d \in DOMAIN queue[s][p] : SetLevel(s, p, RemoveAt(queue[s][p], d))
      BY <3>1 DEF EraseNode
    <3>4. queue[s][p] \in Seq(OrderIds) /\ d \in 1 .. Len(queue[s][p])
      BY <3>2, LenProperties DEF BooksInv, TypeOK
    <3>5. Dropped(queue[s][p], d, RemoveAt(queue[s][p], d))
      BY <3>4, RemoveAtProperties DEF Dropped
    <3> QED
      BY <3>2, <3>3, <3>5, AheadDrop
  <2> QED
    BY <1>1, <2>2
<1> QED
  BY <1>1, <1>4, <1>5 DEF BooksStep

(* A resting order trades only when it is the first of its side.           *)
LEMMA FirstTrades ==
  ASSUME BooksInv, BooksStep,
         NEW o \in OrderIds, Rests(o), executed'[o] # executed[o],
         NEW other \in OrderIds, Rests(other), other # o
  PROVE  /\ orders[other].side = orders[o].side =>
              ~ Better(orders[o].side, orders[other].price, orders[o].price)
         /\ ~ Ahead(other, o)
<1>1. taker # Null /\ Match
  <2>1. ~ (\E x \in OrderIds : orders[x] # Null /\ cancel_order(x))
    BY DEF cancel_order
  <2>2. ~ (\E status, rests : Finish(status, rests))
    BY DEF Finish
  <2> QED
    BY <2>1, <2>2, ProcessCases DEF BooksStep
<1> DEFINE s == Opposite(orders[taker].side)
<1>2. s \in Sides /\ orders[taker].remaining > 0
  BY <1>1 DEF Opposite, Sides, Match, CanMatch
<1>3. PICK p \in levels[s] : IsBest(s, p) /\ Trade(s, p)
  BY <1>1 DEF Match
<1>4. PICK m, n : TradeFacts(s, p, m, n)
  BY <1>1, <1>2, <1>3, TradeEffect
<1> HIDE DEF s
<1>5. p \in Prices /\ 1 \in DOMAIN queue[s][p] /\ m = queue[s][p][1] /\ ~ Rests(taker)
  BY <1>1, <1>2, <1>4 DEF TradeFacts, BooksInv, TypeOK, CallOK, Rests
<1>6. o = m
  BY <1>4, <1>5 DEF TradeFacts
<1>7. orders[o].side = s
  BY <1>2, <1>5, <1>6, Nodes
<1>8. other \in Resting /\ o \in Resting
  BY DEF Resting
<1>9. /\ orders[other].price \in Int /\ orders[o].price \in Int
  BY <1>8, Offers, OrdersAssumption
<1>10. CASE orders[other].side = s
  <2>1. Better(s, orders[o].price, orders[other].price) \/ Ahead(o, other)
    BY <1>2, <1>3, <1>5, <1>6, <1>7, <1>8, <1>10, FirstInPriority DEF Priority, Precedes
  <2>2. Ahead(o, other) => orders[o].price = orders[other].price /\ ~ Ahead(other, o)
    BY AheadNodes
  <2>3. Ahead(other, o) => orders[o].price = orders[other].price
    BY AheadNodes
  <2> QED
    BY <1>7, <1>9, <2>1, <2>2, <2>3 DEF Better
<1>11. CASE orders[other].side # s
  BY <1>7, <1>11, AheadNodes
<1> QED
  BY <1>10, <1>11

(* What PriceTimePriority says of a step.                                  *)
FairStep ==
  /\ \A o \in OrderIds : Rests(o) /\ executed'[o] # executed[o] =>
       \A other \in OrderIds : Rests(other) /\ other # o =>
         /\ orders[other].side = orders[o].side =>
              ~ Better(orders[o].side, orders[other].price, orders[o].price)
         /\ ~ Ahead(other, o)
  /\ \A a, b \in OrderIds :
       /\ Ahead(a, b) => ~ Ahead(b, a)'
       /\ Rests(a) /\ ~ Rests(b) => ~ Ahead(b, a)'

LEMMA StepIsFair ==
  ASSUME BooksInv, BooksStep
  PROVE  FairStep
<1>1. taker # Null => ~ Rests(taker)
  BY DEF BooksInv, CallOK, Rests
<1>2. ASSUME NEW a \in OrderIds, NEW b \in OrderIds
      PROVE  /\ Ahead(a, b) => ~ Ahead(b, a)'
             /\ Rests(a) /\ ~ Rests(b) => ~ Ahead(b, a)'
  <2>1. Ahead(b, a)' => Ahead(b, a) \/ (a = taker /\ taker # Null)
    BY AheadStep
  <2>2. Ahead(a, b) => Rests(a) /\ ~ Ahead(b, a)
    BY AheadNodes
  <2>3. Ahead(b, a) => Rests(b)
    BY AheadNodes
  <2> QED
    BY <1>1, <2>1, <2>2, <2>3
<1> QED
  BY <1>2, FirstTrades DEF FairStep

(* Price-time priority: the first of a side trades first, and an order     *)
(* that rests is never overtaken at its price, however many orders arrive, *)
(* trade in part and are canceled around it.                               *)
THEOREM TimePriority == MarketSpec => PriceTimePriority
<1>1. IInv /\ [MarketNext]_marketVars => [FairStep]_marketVars
  <2> SUFFICES ASSUME IInv, [MarketNext]_marketVars
               PROVE  FairStep
    OBVIOUS
  <2>1. BooksStep
    BY DEF BooksStep, MarketNext, ProcessStep, process_order, activate, deactivate,
           marketVars
  <2> QED
    BY <2>1, StepIsFair DEF IInv
<1> QED
  BY <1>1, Invariance, PTL DEF MarketSpec, PriceTimePriority, FairStep
=============================================================================
