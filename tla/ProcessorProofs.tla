-------------------------- MODULE ProcessorProofs --------------------------
(***************************************************************************)
(* Proofs about MarketProcessor.  BooksInv, the part of the market's       *)
(* invariant that reads no status but that of resting orders, survives     *)
(* what the worker does to orders outside the market; for that a triggered *)
(* stop order has to be one that never was in a book, which StopsHeld says *)
(* of every node that check_stop_orders still has to visit.  PInv is the   *)
(* inductive invariant.  It needs OnTick: with an off-tick stop-limit      *)
(* order the run stop_reprocessed shows what goes wrong.                   *)
(***************************************************************************)
EXTENDS MarketProcessor, RefinementProofs

-----------------------------------------------------------------------------
(* What a factory returns for a submission it does not refuse.             *)
LEMMA MadeOrder ==
  ASSUME NEW r \in Submissions, ~ Rejected(r)
  PROVE  /\ MakeOrder(r) \in Order /\ MakeOrder(r) # Null
         /\ MakeOrder(r).remaining = MakeOrder(r).quantity
         /\ MakeOrder(r).quantity \in Nat
         /\ MakeOrder(r).status = "New" /\ ~ MakeOrder(r).book_it
         /\ IsStop(MakeOrder(r)) => MakeOrder(r).stop_price \in Prices
         /\ ~ IsStop(MakeOrder(r)) => MakeOrder(r).stop_price = Null
         /\ MakeOrder(r).type = "Stop" => MakeOrder(r).price = Null
         /\ OnTick /\ MakeOrder(r).type = "StopLimit" =>
              MakeOrder(r).price \in ValidPrices
<1>1. /\ r.type \in OrderTypes /\ r.quantity \in -(MaxInt + 1) .. MaxInt
      /\ r.price \in Prices \cup {Null} /\ r.stop_price \in Prices \cup {Null}
      /\ r.side \in Sides /\ r.tif \in TimesInForce
  BY ProcessorAssumption
<1> DEFINE price == IF r.type \in {"Limit", "StopLimit"} THEN r.price ELSE Null
           stop_price == IF r.type \in {"Stop", "StopLimit"} THEN r.stop_price ELSE Null
<1>2. MakeOrder(r) = NewOrder(r.type, r.quantity, price, stop_price, r.side, r.tif)
  BY <1>1 DEF OrderTypes, MakeOrder, make_limit_order, make_market_order,
     make_stop_order, make_stop_limit_order
<1>3. price \in Prices \cup {Null} /\ stop_price \in Prices \cup {Null}
  BY <1>1
<1>4. /\ r.type = "StopLimit" => r.price # Null /\ price = r.price
      /\ r.type \in {"Stop", "StopLimit"} => stop_price # Null
      /\ r.type \notin {"Stop", "StopLimit"} => stop_price = Null
      /\ r.type = "Stop" => price = Null
      /\ validate(MakeOrder(r))
  BY DEF Rejected
<1> HIDE DEF price, stop_price
<1> DEFINE ord == NewOrder(r.type, r.quantity, price, stop_price, r.side, r.tif)
<1>5. /\ ord.quantity = r.quantity /\ ord.remaining = r.quantity
      /\ ord.price = price /\ ord.stop_price = stop_price
      /\ ord.type = r.type /\ ord.status = "New" /\ ord.book_it = FALSE
  BY DEF NewOrder
<1>6. r.quantity \in 1 .. MaxInt
  BY <1>1, <1>2, <1>4, <1>5, OrdersAssumption DEF validate
<1>7. ord \in Order
  <2>1. r.quantity \in 0 .. MaxInt /\ "New" \in OrderStatuses
    BY <1>6, OrdersAssumption DEF OrderStatuses
  <2> QED
    BY <1>1, <1>3, <1>6, <2>1 DEF NewOrder, Order
<1>8. ord # Null
  BY <1>7, NullAssumption
<1> HIDE DEF ord
<1>9. MakeOrder(r) = ord
  BY <1>2 DEF ord
<1> QED
  BY <1>3, <1>4, <1>5, <1>6, <1>7, <1>8, <1>9, OrdersAssumption DEF IsStop, OnTick

-----------------------------------------------------------------------------
(* What every step but the entry of an order leaves of an order: its       *)
(* existence, kind and prices, and all but the status of one that waits.   *)
Kept(o) ==
  /\ Exists(o)' <=> Exists(o)
  /\ Exists(o) => /\ orders'[o].type = orders[o].type
                  /\ orders'[o].side = orders[o].side
                  /\ orders'[o].stop_price = orders[o].stop_price
                  /\ orders'[o].price = orders[o].price
  /\ Waiting(o) => /\ orders'[o].remaining = orders[o].remaining
                   /\ orders'[o].quantity = orders[o].quantity
                   /\ orders'[o].book_it = orders[o].book_it
                   /\ executed'[o] = executed[o]

(* Neither resting nor being processed.                                    *)
LEMMA WaitingApart ==
  ASSUME BooksInv, NEW o \in OrderIds, Waiting(o)
  PROVE  ~ Rests(o) /\ o # taker /\ orders[o] \in Order
<1>1. orders[o] \in Order /\ orders[o].type \notin {"Limit", "Market"}
  BY DEF Waiting, IsStop, BooksInv, TypeOK, Exists
<1>2. ~ Rests(o)
  BY <1>1, RestsLive
<1>3. o # taker
  BY <1>1, OrdersAssumption DEF BooksInv, CallOK
<1> QED
  BY <1>1, <1>2, <1>3

(* What a step of process_order does to the orders.                        *)
LEMMA ProcessFrame ==
  ASSUME BooksInv, ProcessStep
  PROVE  /\ taker \in OrderIds /\ Exists(taker) /\ ~ Rests(taker)
         /\ \A o \in OrderIds : Kept(o)
         /\ \A o \in OrderIds :
              /\ Rests(o)' => Rests(o) \/ o = taker
              /\ ~ Rests(o) /\ o # taker => orders'[o] = orders[o]
                                            /\ executed'[o] = executed[o]
         /\ is_active' = is_active
         /\ \/ taker' = Null /\ last_price' = last_price
            \/ /\ taker' = taker /\ last_price' \in Prices
               /\ orders'[taker].status = orders[taker].status
<1>1. taker \in OrderIds /\ Exists(taker) /\ ~ Rests(taker) /\ orders[taker] \in Order
      /\ ~ IsStop(orders[taker]) /\ taker # Null
  BY ProcessCases DEF BooksInv, TypeOK, CallOK, Rests, Exists, IsStop
<1>2. CASE Match
  <2> DEFINE s == Opposite(orders[taker].side)
  <2>1. s \in Sides /\ orders[taker].remaining > 0
    BY <1>2 DEF Opposite, Sides, Match, CanMatch
  <2>2. PICK p \in levels[s] : Trade(s, p)
    BY <1>2 DEF Match
  <2>3. PICK m, n : TradeFacts(s, p, m, n)
    BY <1>1, <2>1, <2>2, TradeEffect
  <2>4. last_price' \in Prices /\ taker' = taker /\ is_active' = is_active
    BY <1>2, <2>1, <2>2 DEF Match, Trade, BooksInv, TypeOK
  <2> HIDE DEF s
  <2>5. /\ m \in OrderIds /\ Rests(m)
        /\ \A o \in {m, taker} :
             /\ orders'[o] # Null
             /\ orders'[o].type = orders[o].type
             /\ orders'[o].side = orders[o].side
             /\ orders'[o].stop_price = orders[o].stop_price
             /\ orders'[o].price = orders[o].price
        /\ orders'[taker].status = orders[taker].status
        /\ \A o \in OrderIds \ {m, taker} :
             orders'[o] = orders[o] /\ executed'[o] = executed[o]
    BY <2>3 DEF TradeFacts
  <2>6. \A o \in {m, taker} : Exists(o) /\ ~ Waiting(o)
    BY <1>1, <2>5, WaitingApart DEF Rests, Exists, Waiting
  <2>7. ASSUME NEW o \in OrderIds
        PROVE  Kept(o)
    <3>1. CASE o \in {m, taker}
      BY <2>5, <2>6, <3>1 DEF Kept, Exists
    <3>2. CASE o \notin {m, taker}
      BY <2>5, <3>2 DEF Kept, Exists
    <3> QED
      BY <3>1, <3>2
  <2>8. ASSUME NEW o \in OrderIds
        PROVE  /\ Rests(o)' => Rests(o) \/ o = taker
               /\ ~ Rests(o) /\ o # taker => orders'[o] = orders[o]
                                             /\ executed'[o] = executed[o]
    BY <2>5 DEF Rests, Exists
  <2> QED
    BY <1>1, <2>4, <2>5, <2>7, <2>8
<1>3. ASSUME NEW status \in {"New", "PartiallyFilled", "Filled"}, NEW rests \in BOOLEAN,
             Finish(status, rests)
      PROVE  /\ \A o \in OrderIds : Kept(o)
             /\ \A o \in OrderIds :
                  /\ Rests(o)' => Rests(o) \/ o = taker
                  /\ ~ Rests(o) /\ o # taker => orders'[o] = orders[o]
                                                /\ executed'[o] = executed[o]
             /\ is_active' = is_active /\ taker' = Null /\ last_price' = last_price
  <2> DEFINE done == [orders[taker] EXCEPT !.status = status, !.book_it = @ \/ rests]
  <2>1. /\ orders' = [orders EXCEPT ![taker] = done]
        /\ executed' = executed /\ is_active' = is_active
        /\ taker' = Null /\ last_price' = last_price
    BY <1>3 DEF Finish
  <2>2. /\ done.type = orders[taker].type /\ done.side = orders[taker].side
        /\ done.stop_price = orders[taker].stop_price /\ done.price = orders[taker].price
        /\ DOMAIN done = DOMAIN orders[taker] /\ done.quantity = orders[taker].quantity
    BY <1>1 DEF Order
  <2>3. done # Null
    <3>1. status \in OrderStatuses /\ (orders[taker].book_it \/ rests) \in BOOLEAN
      BY DEF OrderStatuses
    <3>2. done \in Order
      BY <1>1, <3>1 DEF Order
    <3> QED
      BY <3>2, NullAssumption
  <2> HIDE DEF done
  <2>4. orders'[taker] = done /\ \A o \in OrderIds : o # taker => orders'[o] = orders[o]
    BY <1>1, <2>1 DEF BooksInv, TypeOK
  <2>5. ASSUME NEW o \in OrderIds
        PROVE  Kept(o)
    BY <1>1, <2>1, <2>2, <2>3, <2>4 DEF Kept, Exists, Waiting
  <2> QED
    BY <2>1, <2>4, <2>5 DEF Rests, Exists
<1> QED
  BY <1>1, <1>2, <1>3, ProcessCases
-----------------------------------------------------------------------------
(* The node at place i of the list at price p has been visited.            *)
HadTurn(s, p, i) == check.level = p /\ check.side = s /\ i < check.next

(* An order enters that is no stop order.                                  *)
Entered(o) == ~ Exists(o) /\ ~ Waiting(o)' /\ orders'[o].stop_price = Null

LEMMA KeptWaits ==
  ASSUME NEW o, Kept(o)
  PROVE  /\ Waiting(o)' <=> Waiting(o)
         /\ Waiting(o) => \A p : StopReached(orders'[o], p) <=> StopReached(orders[o], p)
BY DEF Kept, Waiting, Exists, IsStop, StopReached

(* Nodes of the two maps are orders.                                       *)
LEMMA StopNodes ==
  ASSUME PInv, NEW s \in Sides, NEW p \in Prices, NEW i \in DOMAIN stop_orders[s][p]
  PROVE  LET o == stop_orders[s][p][i] IN
         /\ o \in OrderIds /\ Exists(o)
         /\ orders[o].side = s /\ orders[o].stop_price = p
         /\ Waiting(o) <=> ~ HadTurn(s, p, i)
         /\ stop_orders[s][p] \in Seq(OrderIds)
<1>1. stop_orders[s][p] \in Seq(OrderIds)
  BY DEF PInv, ProcessorTypeOK
<1>2. stop_orders[s][p][i] \in OrderIds
  BY <1>1, ElementOfSeq, LenProperties
<1> QED
  BY <1>1, <1>2 DEF PInv, StopsHeld, HadTurn

(* A waiting order has one node.                                           *)
LEMMA WaitingNode ==
  ASSUME PInv, NEW o \in OrderIds, Waiting(o)
  PROVE  /\ orders[o] \in Order
         /\ orders[o].side \in Sides /\ orders[o].stop_price \in Prices
         /\ \E i : OnlyAt(stop_orders[orders[o].side][orders[o].stop_price], o, i)
         /\ ~ orders[o].book_it /\ executed[o] = 0
<1>1. orders[o] \in Order /\ orders[o].side \in Sides /\ orders[o].stop_price \in Prices
  BY WaitingApart DEF PInv, WaitingOK, Order
<1>2. LET list == stop_orders[orders[o].side][orders[o].stop_price] IN
        /\ \E i \in DOMAIN list : \A j \in DOMAIN list : list[j] = o <=> j = i
        /\ ~ orders[o].book_it /\ executed[o] = 0
  BY DEF PInv, StopsHeld
<1> QED
  BY <1>1, <1>2 DEF OnlyAt

(* What a step that visits no stop order leaves of the invariants about    *)
(* them.                                                                   *)
LEMMA StopsFrame ==
  ASSUME PInv, \A o \in OrderIds : Kept(o) \/ Entered(o),
         stop_orders' = stop_orders, reached \subseteq reached',
         \A s \in Sides, p \in Prices : \A i \in DOMAIN stop_orders[s][p] :
           HadTurn(s, p, i)' <=> HadTurn(s, p, i)
  PROVE  /\ WaitingOK' /\ StopsHeld' /\ TriggeredByTrade'
         /\ \A p : Seen(p) => \A o \in OrderIds :
              Waiting(o)' /\ StopReached(orders'[o], p) => o \in reached'
<1>1. ASSUME NEW o \in OrderIds, Waiting(o)'
      PROVE  Kept(o) /\ Waiting(o)
  BY <1>1, KeptWaits DEF Entered
<1>2. ASSUME NEW o \in OrderIds, Exists(o)
      PROVE  Kept(o) /\ (Waiting(o)' <=> Waiting(o))
  BY <1>2, KeptWaits DEF Entered
<1>3. WaitingOK'
  BY <1>1 DEF PInv, WaitingOK, Kept, Waiting
<1>4. StopsHeld'
  <2>1. ASSUME NEW o \in OrderIds, Waiting(o)'
        PROVE  LET list == stop_orders'[orders'[o].side][orders'[o].stop_price] IN
               /\ \E i \in DOMAIN list : \A j \in DOMAIN list : list[j] = o <=> j = i
               /\ ~ orders'[o].book_it /\ executed'[o] = 0
    <3>1. Kept(o) /\ Waiting(o) /\ Exists(o)
      BY <1>1, <2>1 DEF Waiting
    <3>2. /\ \E i : OnlyAt(stop_orders[orders[o].side][orders[o].stop_price], o, i)
          /\ ~ orders[o].book_it /\ executed[o] = 0
      BY <3>1, WaitingNode
    <3> QED
      BY <3>1, <3>2 DEF Kept, OnlyAt
  <2>2. ASSUME NEW s \in Sides, NEW p \in Prices, NEW i \in DOMAIN stop_orders'[s][p]
        PROVE  \E o \in OrderIds :
                 /\ o = stop_orders'[s][p][i]
                 /\ Exists(o)' /\ orders'[o].side = s /\ orders'[o].stop_price = p
                 /\ Waiting(o)' <=> ~ HadTurn(s, p, i)'
    <3>1. PICK o \in OrderIds : o = stop_orders[s][p][i]
      BY StopNodes
    <3>2. /\ Exists(o) /\ orders[o].side = s /\ orders[o].stop_price = p
          /\ Waiting(o) <=> ~ HadTurn(s, p, i)
      BY <3>1, StopNodes
    <3>3. Kept(o) /\ (Waiting(o)' <=> Waiting(o)) /\ (HadTurn(s, p, i)' <=> HadTurn(s, p, i))
      BY <1>2, <3>2
    <3> QED
      BY <3>1, <3>2, <3>3 DEF Kept
  <2> QED
    BY <2>1, <2>2 DEF StopsHeld, HadTurn, Exists, Waiting
<1>5. TriggeredByTrade'
  <2> SUFFICES ASSUME NEW o \in OrderIds, Exists(o)', orders'[o].stop_price # Null,
                      ~ IsStop(orders'[o])
               PROVE  o \in reached'
    BY DEF TriggeredByTrade
  <2>1. Kept(o)
    BY DEF Entered
  <2> QED
    BY <2>1 DEF Kept, PInv, TriggeredByTrade, Exists, IsStop
<1>6. ASSUME NEW p, Seen(p), NEW o \in OrderIds, Waiting(o)', StopReached(orders'[o], p)
      PROVE  o \in reached'
  BY <1>1, <1>6, KeptWaits DEF Seen
<1> QED
  BY <1>3, <1>4, <1>5, <1>6

-----------------------------------------------------------------------------
(* The ids of the events that stay in the queue.                           *)
LEMMA IdsKeep ==
  ASSUME PInv, UNCHANGED << inbox, submitted >>,
         \A o \in OrderIds : Exists(o)' => Exists(o)
  PROVE  IdsFresh'
<1>1. ASSUME NEW c \in Clients, NEW i \in DOMAIN inbox[c]
      PROVE  inbox[c][i].order_id \in OrderIds
  <2>1. inbox[c][i] \in Event
    BY ElementOfSeq, LenProperties DEF PInv, ProcessorTypeOK
  <2> QED
    BY <2>1 DEF Event
<1> QED
  BY <1>1 DEF PInv, IdsFresh, Exists

(* The event taken out of the queue.                                       *)
LEMMA Dequeued ==
  ASSUME PInv, NEW c \in Clients, NEW type \in {"AddOrder", "CancelOrder"},
         Dequeue(c, type)
  PROVE  LET ev == Head(inbox[c]) IN
         /\ ev = inbox[c][1] /\ 1 \in DOMAIN inbox[c] /\ inbox[c] \in Seq(Event)
         /\ ev.type = type /\ ev.order_id \in OrderIds
         /\ type = "AddOrder" => /\ ev.order \in Submissions
                                 /\ ev.order_id \in submitted /\ ~ Exists(ev.order_id)
         /\ worker = "dequeue" /\ check = NoCheck /\ taker = Null
         /\ inbox' \in [Clients -> Seq(Event)]
<1>1. inbox[c] \in Seq(Event) /\ inbox[c] # <<>> /\ Head(inbox[c]).type = type
  BY DEF PInv, ProcessorTypeOK, Dequeue
<1>2. Head(inbox[c]) = inbox[c][1] /\ Head(inbox[c]) \in Event /\ Tail(inbox[c]) \in Seq(Event)
      /\ 1 \in DOMAIN inbox[c]
  BY <1>1, HeadTailProperties, LenProperties, EmptySeq
<1>3. Head(inbox[c]).order_id \in OrderIds
      /\ (type = "AddOrder" => Head(inbox[c]).order \in Submissions)
  BY <1>1, <1>2 DEF Event
<1>4. type = "AddOrder" => /\ Head(inbox[c]).order_id \in submitted
                           /\ ~ Exists(Head(inbox[c]).order_id)
  BY <1>1, <1>2 DEF PInv, IdsFresh
<1>5. worker = "dequeue" /\ check = NoCheck /\ taker = Null
  BY DEF Dequeue, PInv, WorkerOK
<1>6. inbox' \in [Clients -> Seq(Event)]
  BY <1>2 DEF Dequeue, PInv, ProcessorTypeOK
<1> QED
  BY <1>1, <1>2, <1>3, <1>4, <1>5, <1>6

(* Taking an event out, and using its id if it is a new order's.           *)
LEMMA IdsDequeue ==
  ASSUME PInv, NEW c \in Clients, NEW type \in {"AddOrder", "CancelOrder"},
         Dequeue(c, type), submitted' = submitted,
         \A o \in OrderIds : Exists(o)' =>
           Exists(o) \/ (type = "AddOrder" /\ o = Head(inbox[c]).order_id)
  PROVE  IdsFresh'
<1> DEFINE ev == Head(inbox[c])
<1>1. /\ ev = inbox[c][1] /\ 1 \in DOMAIN inbox[c] /\ inbox[c] \in Seq(Event)
      /\ ev.type = type /\ ev.order_id \in OrderIds
      /\ type = "AddOrder" => ev.order_id \in submitted
  BY Dequeued
<1>2. ASSUME NEW d \in Clients, NEW j \in DOMAIN inbox'[d]
      PROVE  \E k \in DOMAIN inbox[d] :
               /\ inbox'[d][j] = inbox[d][k]
               /\ k = IF d = c THEN j + 1 ELSE j
               /\ ~ (d = c /\ k = 1)
               /\ inbox[d][k].order_id \in OrderIds
               /\ j \in Nat
  <2>0. inbox[d] \in Seq(Event)
    BY DEF PInv, ProcessorTypeOK
  <2>1. CASE d = c
    <3>1. inbox'[d] = Tail(inbox[c]) /\ inbox[c] # <<>>
      BY <2>1 DEF Dequeue, PInv, ProcessorTypeOK
    <3>2. /\ Tail(inbox[c]) \in Seq(Event) /\ Len(Tail(inbox[c])) = Len(inbox[c]) - 1
          /\ \A k \in 1 .. Len(Tail(inbox[c])) : Tail(inbox[c])[k] = inbox[c][k + 1]
          /\ Len(inbox[c]) \in Nat
      BY <1>1, <3>1, HeadTailProperties, LenProperties
    <3>3. j \in 1 .. Len(inbox[c]) - 1
      BY <3>1, <3>2, LenProperties
    <3>4. j + 1 \in DOMAIN inbox[c] /\ j + 1 # 1 /\ inbox'[d][j] = inbox[d][j + 1]
      BY <1>1, <2>1, <3>1, <3>2, <3>3, LenProperties
    <3>5. inbox[d][j + 1] \in Event
      BY <2>0, <2>1, <3>4, ElementOfSeq, LenProperties
    <3> QED
      BY <2>1, <3>3, <3>4, <3>5 DEF Event
  <2>2. CASE d # c
    <3>1. inbox'[d] = inbox[d]
      BY <2>2 DEF Dequeue, PInv, ProcessorTypeOK
    <3>2. inbox[d][j] \in Event /\ j \in Nat
      BY <2>0, <3>1, ElementOfSeq, LenProperties
    <3> QED
      BY <2>2, <3>1, <3>2 DEF Event
  <2> QED
    BY <2>1, <2>2
<1>3. \A o \in OrderIds : Exists(o)' => o \in submitted'
  BY <1>1 DEF PInv, IdsFresh
<1>4. ASSUME NEW d \in Clients, NEW j \in DOMAIN inbox'[d],
             inbox'[d][j].type = "AddOrder"
      PROVE  \E o \in OrderIds :
               /\ o = inbox'[d][j].order_id
               /\ o \in submitted' /\ ~ Exists(o)'
               /\ \A e \in Clients : \A k \in DOMAIN inbox'[e] :
                    inbox'[e][k].type = "AddOrder" /\ inbox'[e][k].order_id = o =>
                      e = d /\ k = j
  <2>1. PICK m \in DOMAIN inbox[d] :
          /\ inbox'[d][j] = inbox[d][m] /\ m = (IF d = c THEN j + 1 ELSE j)
          /\ ~ (d = c /\ m = 1) /\ inbox[d][m].order_id \in OrderIds /\ j \in Nat
    BY <1>2
  <2>2. PICK o \in OrderIds : o = inbox[d][m].order_id
    BY <2>1
  <2>3. /\ o \in submitted /\ ~ Exists(o)
        /\ \A e \in Clients : \A k \in DOMAIN inbox[e] :
             inbox[e][k].type = "AddOrder" /\ inbox[e][k].order_id = o => e = d /\ k = m
    BY <1>4, <2>1, <2>2 DEF PInv, IdsFresh
  <2>4. type = "AddOrder" => ev.order_id # o
    BY <1>1, <2>1, <2>3
  <2>5. ~ Exists(o)'
    BY <2>3, <2>4
  <2>6. ASSUME NEW e \in Clients, NEW k \in DOMAIN inbox'[e],
               inbox'[e][k].type = "AddOrder", inbox'[e][k].order_id = o
        PROVE  e = d /\ k = j
    <3>1. PICK n \in DOMAIN inbox[e] :
            /\ inbox'[e][k] = inbox[e][n] /\ n = (IF e = c THEN k + 1 ELSE k) /\ k \in Nat
      BY <1>2
    <3>2. e = d /\ n = m
      BY <2>3, <2>6, <3>1
    <3> QED
      BY <2>1, <3>1, <3>2
  <2> QED
    BY <2>1, <2>2, <2>3, <2>5, <2>6
<1> QED
  BY <1>3, <1>4 DEF IdsFresh, Exists

(* Putting an event into the queue.                                        *)
LEMMA IdsAppend ==
  ASSUME PInv, NEW c \in Clients, NEW ev \in Event, submit_event(c, ev),
         orders' = orders, submitted \subseteq submitted',
         ev.type = "AddOrder" => ev.order_id \notin submitted
                                 /\ ev.order_id \in submitted'
  PROVE  IdsFresh' /\ inbox' \in [Clients -> Seq(Event)]
<1>1. /\ inbox \in [Clients -> Seq(Event)]
      /\ inbox' = [inbox EXCEPT ![c] = Append(inbox[c], ev)]
      /\ ev.order_id \in OrderIds
  BY DEF submit_event, PInv, ProcessorTypeOK, Event
<1>2. ASSUME NEW d \in Clients, NEW j \in DOMAIN inbox'[d]
      PROVE  \/ /\ j \in DOMAIN inbox[d] /\ inbox'[d][j] = inbox[d][j]
                /\ inbox[d][j].order_id \in OrderIds
             \/ d = c /\ j = Len(inbox[c]) + 1 /\ inbox'[d][j] = ev
  <2>1. CASE d = c
    <3>1. /\ inbox'[d] = Append(inbox[c], ev) /\ inbox[c] \in Seq(Event)
          /\ Len(inbox[c]) \in Nat /\ DOMAIN inbox[c] = 1 .. Len(inbox[c])
      BY <1>1, <2>1, LenProperties
    <3>2. /\ DOMAIN inbox'[d] = 1 .. Len(inbox[c]) + 1
          /\ \A k \in 1 .. Len(inbox[c]) : inbox'[d][k] = inbox[c][k]
          /\ inbox'[d][Len(inbox[c]) + 1] = ev
      BY <3>1, AppendProperties, LenProperties
    <3>3. j \in 1 .. Len(inbox[c]) \/ j = Len(inbox[c]) + 1
      BY <3>1, <3>2
    <3>4. j \in 1 .. Len(inbox[c]) => inbox[c][j] \in Event
      BY <3>1, ElementOfSeq, LenProperties
    <3> QED
      BY <2>1, <3>1, <3>2, <3>3, <3>4 DEF Event
  <2>2. CASE d # c
    <3>1. inbox'[d] = inbox[d] /\ inbox[d] \in Seq(Event)
      BY <1>1, <2>2
    <3>2. inbox[d][j] \in Event
      BY <3>1, ElementOfSeq, LenProperties
    <3> QED
      BY <3>1, <3>2 DEF Event
  <2> QED
    BY <2>1, <2>2
<1>3. \A o \in OrderIds : Exists(o)' => o \in submitted /\ o \in submitted'
  BY DEF PInv, IdsFresh, Exists
<1>4. ASSUME NEW d \in Clients, NEW j \in DOMAIN inbox'[d],
             inbox'[d][j].type = "AddOrder"
      PROVE  \E o \in OrderIds :
               /\ o = inbox'[d][j].order_id
               /\ o \in submitted' /\ ~ Exists(o)'
               /\ \A e \in Clients : \A k \in DOMAIN inbox'[e] :
                    inbox'[e][k].type = "AddOrder" /\ inbox'[e][k].order_id = o =>
                      e = d /\ k = j
  <2>1. PICK o \in OrderIds : o = inbox'[d][j].order_id
    BY <1>1, <1>2
  <2>2. CASE /\ j \in DOMAIN inbox[d] /\ inbox'[d][j] = inbox[d][j]
    <3>1. /\ o \in submitted /\ ~ Exists(o)
          /\ \A e \in Clients : \A k \in DOMAIN inbox[e] :
               inbox[e][k].type = "AddOrder" /\ inbox[e][k].order_id = o => e = d /\ k = j
      BY <1>4, <2>1, <2>2 DEF PInv, IdsFresh
    <3>2. ~ Exists(o)' /\ o \in submitted' /\ (ev.type = "AddOrder" => ev.order_id # o)
      BY <3>1 DEF Exists
    <3>3. ASSUME NEW e \in Clients, NEW k \in DOMAIN inbox'[e],
                 inbox'[e][k].type = "AddOrder", inbox'[e][k].order_id = o
          PROVE  e = d /\ k = j
      BY <1>2, <3>1, <3>2, <3>3
    <3> QED
      BY <2>1, <3>2, <3>3
  <2>3. CASE d = c /\ j = Len(inbox[c]) + 1 /\ inbox'[d][j] = ev
    <3>1. o = ev.order_id /\ o \notin submitted /\ o \in submitted'
      BY <1>4, <2>1, <2>3
    <3>2. ~ Exists(o)'
      BY <1>3, <3>1
    <3>3. ASSUME NEW e \in Clients, NEW k \in DOMAIN inbox[e],
                 inbox[e][k].type = "AddOrder"
          PROVE  inbox[e][k].order_id # o
      BY <3>1, <3>3 DEF PInv, IdsFresh
    <3>4. ASSUME NEW e \in Clients, NEW k \in DOMAIN inbox'[e],
                 inbox'[e][k].type = "AddOrder", inbox'[e][k].order_id = o
          PROVE  e = d /\ k = j
      BY <1>2, <2>3, <3>3, <3>4
    <3> QED
      BY <2>1, <3>1, <3>2, <3>4
  <2> QED
    BY <1>2, <2>2, <2>3
<1>5. inbox' \in [Clients -> Seq(Event)]
  BY <1>1, AppendProperties
<1> QED
  BY <1>3, <1>4, <1>5 DEF IdsFresh, Exists

-----------------------------------------------------------------------------
(* The steps that leave the orders and the books alone.                    *)
LEMMA Quiet ==
  ASSUME PInv, UNCHANGED << orders, levels, queue, last_price, taker, events, crashed,
                            executed, stop_orders, reached >>,
         is_active' = is_active,
         \A s \in Sides, p \in Prices : \A i \in DOMAIN stop_orders[s][p] :
           HadTurn(s, p, i)' <=> HadTurn(s, p, i)
  PROVE  /\ BooksInv' /\ WaitingOK' /\ StopsHeld' /\ TriggeredByTrade'
         /\ \A p : Seen(p) => \A o \in OrderIds :
              Waiting(o)' /\ StopReached(orders'[o], p) => o \in reached'
<1>1. BooksInv'
  BY SwitchBooks DEF PInv, BooksInv, TypeOK
<1>2. \A o \in OrderIds : Kept(o)
  BY DEF Kept, Exists
<1> QED
  BY <1>1, <1>2, StopsFrame

(* Those of them after which the worker is where it was.                   *)
LEMMA ClientStep ==
  ASSUME PInv, UNCHANGED << marketVars, worker, canceling, prevltp, stop_orders,
                            check, published, reached >>,
         inbox' \in [Clients -> Seq(Event)], submitted' \subseteq OrderIds,
         cancels' \in 0 .. MaxCancels, running' \in BOOLEAN, IdsFresh'
  PROVE  PInv'
<1>1. /\ BooksInv' /\ WaitingOK' /\ StopsHeld' /\ TriggeredByTrade'
      /\ \A p : Seen(p) => \A o \in OrderIds :
           Waiting(o)' /\ StopReached(orders'[o], p) => o \in reached'
  BY Quiet DEF marketVars, HadTurn
<1>2. ProcessorTypeOK' /\ WorkerOK'
  BY <1>1 DEF PInv, ProcessorTypeOK, BooksInv, WorkerOK, marketVars, Exists, Rests
<1>3. PricesSeen'
  <2>1. /\ last_price' = last_price /\ prevltp' = prevltp /\ worker' = worker
        /\ check' = check /\ LastPriceOrZero' = LastPriceOrZero
    BY DEF marketVars, LastPriceOrZero
  <2>2. /\ worker = "adding" /\ LastPriceOrZero # prevltp => Seen(last_price)
        /\ worker = "stops" => Seen(check.ltp)
    BY DEF PInv, PricesSeen
  <2> QED
    BY <1>1, <2>1, <2>2 DEF PInv, PricesSeen, Seen
<1> QED
  BY <1>1, <1>2, <1>3 DEF PInv

LEMMA SubmitInv ==
  ASSUME PInv, NEW c \in Clients, NEW o \in OrderIds, NEW r \in Submissions,
         SubmitOrder(c, o, r)
  PROVE  PInv'
<1> DEFINE ev == [type |-> "AddOrder", order_id |-> o, order |-> r]
<1>1. ev \in Event /\ ev.type = "AddOrder" /\ ev.order_id = o
  BY DEF Event
<1>2. submit_event(c, ev) /\ o \notin submitted /\ submitted' = submitted \cup {o}
      /\ orders' = orders
  BY DEF SubmitOrder, marketVars
<1> HIDE DEF ev
<1>3. IdsFresh' /\ inbox' \in [Clients -> Seq(Event)]
  BY <1>1, <1>2, IdsAppend
<1> QED
  BY <1>3, ClientStep DEF SubmitOrder, PInv, ProcessorTypeOK

LEMMA RequestInv ==
  ASSUME PInv, NEW c \in Clients, NEW o \in OrderIds, RequestCancel(c, o)
  PROVE  PInv'
<1> DEFINE ev == [type |-> "CancelOrder", order_id |-> o]
<1>1. ev \in Event /\ ev.type # "AddOrder"
  BY DEF Event
<1>2. submit_event(c, ev) /\ submitted' = submitted /\ orders' = orders
  BY DEF RequestCancel, marketVars
<1> HIDE DEF ev
<1>3. IdsFresh' /\ inbox' \in [Clients -> Seq(Event)]
  BY <1>1, <1>2, IdsAppend
<1>4. cancels' \in 0 .. MaxCancels
  BY ProcessorAssumption DEF RequestCancel, PInv, ProcessorTypeOK
<1> QED
  BY <1>3, <1>4, ClientStep DEF RequestCancel, PInv, ProcessorTypeOK

LEMMA StopInv ==
  ASSUME PInv, stop
  PROVE  PInv'
<1>1. IdsFresh'
  BY IdsKeep DEF stop, marketVars, Exists
<1> QED
  BY <1>1, ClientStep DEF stop, PInv, ProcessorTypeOK

(* The steps of the loop itself, and those that refuse an event.           *)
LEMMA LoopStep ==
  ASSUME PInv, UNCHANGED << marketVars, submitted, cancels, running, canceling,
                            prevltp, stop_orders, check, published, reached >>,
         worker \in {"loop", "dequeue"}, worker' \in {"loop", "dequeue", "exited"},
         inbox' \in [Clients -> Seq(Event)], IdsFresh'
  PROVE  PInv'
<1>1. BooksInv' /\ WaitingOK' /\ StopsHeld' /\ TriggeredByTrade'
  BY Quiet DEF marketVars, HadTurn
<1>2. ProcessorTypeOK' /\ WorkerOK'
  BY <1>1 DEF PInv, ProcessorTypeOK, BooksInv, WorkerOK, WorkerStates, marketVars,
     Exists, Rests
<1>3. check' = check /\ check = NoCheck
  BY DEF PInv, WorkerOK
<1>4. PricesSeen'
  BY <1>3 DEF PInv, PricesSeen, NoCheck, marketVars
<1> QED
  BY <1>1, <1>2, <1>4 DEF PInv

LEMMA LoopTopInv ==
  ASSUME PInv, LoopTop \/ Idle
  PROVE  PInv'
<1>1. IdsFresh'
  BY IdsKeep DEF LoopTop, Idle, marketVars, Exists
<1> QED
  BY <1>1, LoopStep DEF LoopTop, Idle, PInv, ProcessorTypeOK

LEMMA RefuseInv ==
  ASSUME PInv, NEW c \in Clients, RejectAdd(c) \/ CancelUnknown(c)
  PROVE  PInv'
<1>1. PICK type \in {"AddOrder", "CancelOrder"} : Dequeue(c, type)
  BY DEF RejectAdd, CancelUnknown
<1>2. worker = "dequeue" /\ inbox' \in [Clients -> Seq(Event)]
  BY <1>1, Dequeued
<1>3. submitted' = submitted /\ \A o \in OrderIds : Exists(o)' => Exists(o)
  BY DEF RejectAdd, CancelUnknown, marketVars, Exists
<1>4. IdsFresh'
  BY <1>1, <1>3, IdsDequeue
<1> QED
  BY <1>2, <1>4, LoopStep DEF RejectAdd, CancelUnknown

-----------------------------------------------------------------------------
(* What the worker does after a new order has been processed: the changed  *)
(* price is one that waiting stop orders have seen.                        *)
LEMMA AfterAddInv ==
  ASSUME PInv, AfterAdd
  PROVE  PInv'
<1>1. check = NoCheck /\ worker = "adding" /\ taker = Null
  BY DEF AfterAdd, PInv, WorkerOK
<1>2. /\ UNCHANGED << marketVars, inbox, submitted, cancels, running, canceling,
                      stop_orders, published, reached >>
      /\ prevltp' = 0
      /\ \/ worker' = "loop" /\ check' = check
         \/ /\ worker' = "stops" /\ check' = [NoCheck EXCEPT !.ltp = last_price]
            /\ LastPriceOrZero # prevltp
  BY DEF AfterAdd
<1>3. /\ check'.level = Null /\ check'.next = 1 /\ check'.side = "Buy"
      /\ check'.ltp \in {Null, last_price}
      /\ check' \in [ side : Sides, level : Prices \cup {Null}, next : Nat \ {0},
                      ltp : Prices \cup {Null} ]
  BY <1>1, <1>2 DEF NoCheck, Sides, PInv, ProcessorTypeOK, TypeOK
<1>4. \A s \in Sides, p \in Prices : \A i : ~ HadTurn(s, p, i) /\ ~ HadTurn(s, p, i)'
  BY <1>1, <1>3, OrdersAssumption DEF HadTurn, NoCheck
<1>5. /\ BooksInv' /\ WaitingOK' /\ StopsHeld' /\ TriggeredByTrade'
      /\ \A p : Seen(p) => \A o \in OrderIds :
           Waiting(o)' /\ StopReached(orders'[o], p) => o \in reached'
  BY <1>2, <1>4, Quiet DEF marketVars
<1>6. ProcessorTypeOK'
  BY <1>2, <1>3, <1>5, OrdersAssumption
     DEF PInv, ProcessorTypeOK, BooksInv, WorkerStates
<1>7. WorkerOK'
  BY <1>1, <1>2 DEF PInv, WorkerOK, marketVars
<1>8. IdsFresh'
  BY <1>2, IdsKeep DEF marketVars, Exists
<1>9. PricesSeen'
  <2>1. CASE worker' = "loop"
    BY <1>2, <1>3, <2>1 DEF PricesSeen
  <2>2. CASE worker' = "stops"
    <3>1. LastPriceOrZero # prevltp /\ check'.ltp = last_price
      BY <1>2, <2>2 DEF NoCheck
    <3>2. Seen(last_price) /\ last_price \in Prices
      BY <1>1, <3>1 DEF PInv, PricesSeen, LastPriceOrZero, ProcessorTypeOK, TypeOK
    <3>3. \A o \in OrderIds :
            Waiting(o)' /\ StopReached(orders'[o], last_price) => o \in reached'
      BY <1>5, <3>2
    <3> QED
      BY <1>2, <1>3, <2>2, <3>1, <3>2, <3>3 DEF PricesSeen, Seen
  <2> QED
    BY <1>2, <2>1, <2>2
<1> QED
  BY <1>5, <1>6, <1>7, <1>8, <1>9 DEF PInv

(* The walk enters a level that the captured price has reached.            *)
LEMMA NextLevelInv ==
  ASSUME PInv, NextLevel
  PROVE  PInv'
<1>1. /\ worker = "stops" /\ taker = Null /\ check.level = Null
      /\ check.side \in Sides /\ check.ltp \in Prices /\ Seen(check.ltp)
      /\ check \in [ side : Sides, level : Prices \cup {Null}, next : Nat \ {0},
                     ltp : Prices \cup {Null} ]
  BY DEF NextLevel, Checking, PInv, PricesSeen, ProcessorTypeOK
<1>2. /\ UNCHANGED << marketVars, inbox, submitted, cancels, running, canceling,
                      prevltp, stop_orders, published, reached >>
      /\ \/ worker' = worker
            /\ \E p \in TriggeredLevel(check.side) :
                 check' = [check EXCEPT !.level = p, !.next = 1]
         \/ worker' = worker /\ check' = [check EXCEPT !.side = "Sell"]
         \/ worker' = "loop" /\ check' = NoCheck
  BY DEF NextLevel
<1>3. /\ check' \in [ side : Sides, level : Prices \cup {Null}, next : Nat \ {0},
                      ltp : Prices \cup {Null} ]
      /\ check'.level = Null \/ check'.next = 1
      /\ check'.level # Null =>
           /\ check'.ltp \in Prices
           /\ IF check'.side = "Buy" THEN check'.ltp >= check'.level
                                     ELSE check'.ltp <= check'.level
      /\ worker' = worker => check'.ltp = check.ltp
  <2>1. ASSUME NEW p \in TriggeredLevel(check.side),
               check' = [check EXCEPT !.level = p, !.next = 1]
        PROVE  <1>3!1 /\ <1>3!2 /\ <1>3!3 /\ <1>3!4
    <3>1. /\ p \in Prices
          /\ IF check.side = "Buy" THEN check.ltp >= p ELSE check.ltp <= p
      BY DEF TriggeredLevel
    <3>2. /\ check'.level = p /\ check'.next = 1
          /\ check'.side = check.side /\ check'.ltp = check.ltp
      BY <1>1, <2>1
    <3>3. check' \in [ side : Sides, level : Prices \cup {Null}, next : Nat \ {0},
                       ltp : Prices \cup {Null} ]
      <4>1. p \in Prices \cup {Null} /\ 1 \in Nat \ {0}
        BY <3>1
      <4>2. check \in [ side : Sides, level : Prices \cup {Null}, next : Nat \ {0},
                        ltp : Prices \cup {Null} ]
        BY <1>1
      <4> QED
        BY <2>1, <4>1, <4>2
    <3> QED
      BY <1>1, <3>1, <3>2, <3>3
  <2>2. ASSUME check' = [check EXCEPT !.side = "Sell"]
        PROVE  <1>3!1 /\ <1>3!2 /\ <1>3!3 /\ <1>3!4
    BY <1>1, <2>2 DEF Sides
  <2>3. ASSUME worker' = "loop", check' = NoCheck
        PROVE  <1>3!1 /\ <1>3!2 /\ <1>3!3 /\ <1>3!4
    BY <1>1, <2>3 DEF Sides, NoCheck
  <2> QED
    BY <1>2, <2>1, <2>2, <2>3
<1>4. ASSUME NEW s \in Sides, NEW p \in Prices, NEW i \in DOMAIN stop_orders[s][p]
      PROVE  ~ HadTurn(s, p, i) /\ ~ HadTurn(s, p, i)'
  <2>1. i \in Nat /\ i >= 1
    BY LenProperties DEF PInv, ProcessorTypeOK
  <2> QED
    BY <1>1, <1>3, <2>1, OrdersAssumption DEF HadTurn
<1>5. /\ BooksInv' /\ WaitingOK' /\ StopsHeld' /\ TriggeredByTrade'
      /\ \A p : Seen(p) => \A o \in OrderIds :
           Waiting(o)' /\ StopReached(orders'[o], p) => o \in reached'
  BY <1>2, <1>4, Quiet DEF marketVars
<1>6. ProcessorTypeOK'
  BY <1>1, <1>2, <1>3, <1>5 DEF PInv, ProcessorTypeOK, BooksInv, WorkerStates
<1>7. WorkerOK'
  BY <1>1, <1>2 DEF PInv, WorkerOK, marketVars
<1>8. IdsFresh'
  BY <1>2, IdsKeep DEF marketVars, Exists
<1>9. PricesSeen'
  <2>1. worker' = "stops" => /\ check'.ltp = check.ltp
                             /\ \A o \in OrderIds : Waiting(o)' /\ StopReached(orders'[o], check'.ltp)
                                                      => o \in reached'
    BY <1>1, <1>2, <1>3, <1>5
  <2>2. last_price' = last_price /\ prevltp' = prevltp /\ worker' # "adding"
    BY <1>1, <1>2 DEF marketVars
  <2> QED
    BY <1>1, <1>3, <2>1, <2>2 DEF PInv, PricesSeen, Seen
<1> QED
  BY <1>5, <1>6, <1>7, <1>8, <1>9 DEF PInv

(* A level is erased when all its nodes have had their turn.               *)
LEMMA EraseLevelInv ==
  ASSUME PInv, EraseLevel
  PROVE  PInv'
<1> DEFINE s == check.side
           p == check.level
<1>1. /\ worker = "stops" /\ taker = Null
      /\ s \in Sides /\ p \in Prices /\ check.ltp \in Prices /\ Seen(check.ltp)
      /\ check \in [ side : Sides, level : Prices \cup {Null}, next : Nat \ {0},
                     ltp : Prices \cup {Null} ]
      /\ check.next > Len(stop_orders[s][p])
      /\ stop_orders \in [Sides -> [Prices -> Seq(OrderIds)]]
  BY DEF EraseLevel, Checking, PInv, PricesSeen, ProcessorTypeOK
<1>2. /\ UNCHANGED << marketVars, inbox, submitted, cancels, running, worker, canceling,
                      prevltp, published, reached >>
      /\ stop_orders' = [stop_orders EXCEPT ![s][p] = <<>>]
      /\ check' = [check EXCEPT !.level = Null, !.next = 1]
  BY DEF EraseLevel
<1>3. check'.level = Null /\ check'.ltp = check.ltp
  BY <1>1, <1>2
<1>4. check' \in [ side : Sides, level : Prices \cup {Null}, next : Nat \ {0},
                   ltp : Prices \cup {Null} ]
  <2>1. Null \in Prices \cup {Null} /\ 1 \in Nat \ {0}
    OBVIOUS
  <2> QED
    BY <1>1, <1>2, <2>1
<1>5. /\ stop_orders' \in [Sides -> [Prices -> Seq(OrderIds)]]
      /\ stop_orders'[s][p] = <<>>
      /\ \A t \in Sides, u \in Prices :
           ~ (t = s /\ u = p) => stop_orders'[t][u] = stop_orders[t][u]
  <2>1. stop_orders' \in [Sides -> [Prices -> Seq(OrderIds)]]
    BY <1>1, <1>2, EmptySeq
  <2> QED
    BY <1>1, <1>2, <2>1
<1> HIDE DEF s, p
<1>6. ASSUME NEW o \in OrderIds, Waiting(o)
      PROVE  stop_orders'[orders[o].side][orders[o].stop_price] =
             stop_orders[orders[o].side][orders[o].stop_price]
  <2>1. /\ orders[o].side \in Sides /\ orders[o].stop_price \in Prices
        /\ \E i : OnlyAt(stop_orders[orders[o].side][orders[o].stop_price], o, i)
    BY <1>6, WaitingNode
  <2>2. ASSUME orders[o].side = s, orders[o].stop_price = p
        PROVE  FALSE
    <3>1. PICK i : OnlyAt(stop_orders[s][p], o, i)
      BY <2>1, <2>2
    <3>2. i \in DOMAIN stop_orders[s][p] /\ stop_orders[s][p][i] = o
      BY <3>1 DEF OnlyAt
    <3>3. ~ HadTurn(s, p, i)
      BY <1>1, <1>6, <3>2, StopNodes
    <3>4. stop_orders[s][p] \in Seq(OrderIds)
      BY <1>1
    <3>5. i \in 1 .. Len(stop_orders[s][p]) /\ Len(stop_orders[s][p]) \in Nat
      BY <3>2, <3>4, LenProperties
    <3> QED
      BY <1>1, <3>3, <3>5 DEF HadTurn, s, p
  <2> QED
    BY <1>5, <2>1, <2>2
<1>7. BooksInv'
  BY <1>2, SwitchBooks DEF PInv, BooksInv, TypeOK, marketVars
<1>8. /\ orders' = orders /\ executed' = executed /\ reached' = reached
      /\ \A o : (Waiting(o)' <=> Waiting(o)) /\ (Exists(o)' <=> Exists(o))
  BY <1>2 DEF marketVars, Waiting, Exists
<1>9. StopsHeld'
  <2>1. ASSUME NEW o \in OrderIds, Waiting(o)'
        PROVE  LET list == stop_orders'[orders'[o].side][orders'[o].stop_price] IN
               /\ \E i \in DOMAIN list : \A j \in DOMAIN list : list[j] = o <=> j = i
               /\ ~ orders'[o].book_it /\ executed'[o] = 0
    BY <1>6, <1>8, <2>1 DEF PInv, StopsHeld
  <2>2. ASSUME NEW t \in Sides, NEW u \in Prices, NEW i \in DOMAIN stop_orders'[t][u]
        PROVE  \E o \in OrderIds :
                 /\ o = stop_orders'[t][u][i]
                 /\ Exists(o)' /\ orders'[o].side = t /\ orders'[o].stop_price = u
                 /\ Waiting(o)' <=> ~ HadTurn(t, u, i)'
    <3>1. ~ (t = s /\ u = p) /\ stop_orders'[t][u] = stop_orders[t][u]
      BY <1>5, EmptySeq, LenProperties
    <3>2. ~ HadTurn(t, u, i) /\ ~ HadTurn(t, u, i)'
      BY <1>3, <3>1, OrdersAssumption DEF HadTurn, s, p
    <3> QED
      BY <1>8, <3>1, <3>2, StopNodes
  <2> QED
    BY <2>1, <2>2 DEF StopsHeld, HadTurn, Exists, Waiting
<1>10. ProcessorTypeOK'
  BY <1>2, <1>4, <1>5, <1>7 DEF PInv, ProcessorTypeOK, BooksInv
<1>11. WorkerOK'
  BY <1>1, <1>2 DEF PInv, WorkerOK, marketVars
<1>12. IdsFresh'
  BY <1>2, IdsKeep DEF marketVars, Exists
<1>13. WaitingOK' /\ TriggeredByTrade'
  BY <1>8 DEF PInv, WaitingOK, TriggeredByTrade
<1>14. PricesSeen'
  BY <1>1, <1>2, <1>3, <1>8 DEF PInv, PricesSeen, Seen, marketVars
<1> QED
  BY <1>7, <1>9, <1>10, <1>11, <1>12, <1>13, <1>14 DEF PInv

-----------------------------------------------------------------------------
(* A stop order is put into the maps, and nowhere else.                    *)
LEMMA AddStopInv ==
  ASSUME PInv, OnTick, NEW c \in Clients, AddStop(c)
  PROVE  PInv'
<1>1. PICK r \in Submissions, o \in OrderIds :
        /\ Dequeue(c, "AddOrder")
        /\ r = Head(inbox[c]).order /\ o = Head(inbox[c]).order_id
        /\ o \in submitted /\ ~ Exists(o)
        /\ check = NoCheck /\ taker = Null /\ inbox' \in [Clients -> Seq(Event)]
        /\ ~ Rejected(r)
  BY Dequeued DEF AddStop
<1> DEFINE ord == MakeOrder(r)
           s == ord.side
           p == ord.stop_price
<1>2. /\ IsStop(ord)
      /\ orders' = [orders EXCEPT ![o] = ord]
      /\ stop_orders' = [stop_orders EXCEPT ![s][p] = Append(@, o)]
      /\ worker' = "loop"
      /\ UNCHANGED << levels, queue, last_price, is_active, taker, events, crashed,
                      executed, submitted, cancels, running, canceling, prevltp,
                      check, published, reached >>
  BY <1>1 DEF AddStop
<1>3. /\ ord \in Order /\ ord # Null
      /\ ord.remaining = ord.quantity /\ ord.quantity \in Nat
      /\ ~ ord.book_it /\ s \in Sides /\ p \in Prices
      /\ ord.type = "Stop" => ord.price = Null
      /\ ord.type = "StopLimit" => ord.price \in ValidPrices
  BY <1>1, <1>2, MadeOrder DEF Order
<1> HIDE DEF ord, s, p
<1>4. /\ ~ Rests(o) /\ executed[o] = 0
      /\ orders'[o] = ord /\ \A x \in OrderIds : x # o => orders'[x] = orders[x]
  BY <1>1, <1>2 DEF Rests, PInv, BooksInv, Accounting, TypeOK
<1>5. BooksInv'
  <2>1. executed[o] <= ord.quantity /\ executed[o] + ord.remaining = ord.quantity
    BY <1>3, <1>4
  <2>2. taker' = Null /\ taker' # o /\ events' \in Seq(MarketEvent)
    BY <1>1, <1>2, OrdersAssumption DEF PInv, BooksInv, TypeOK
  <2> QED
    BY <1>1, <1>2, <1>3, <1>4, <2>1, <2>2, ReplaceOrder DEF PInv
<1>6. /\ stop_orders \in [Sides -> [Prices -> Seq(OrderIds)]]
      /\ stop_orders'[s][p] = Append(stop_orders[s][p], o)
      /\ \A t \in Sides, u \in Prices :
           ~ (t = s /\ u = p) => stop_orders'[t][u] = stop_orders[t][u]
  BY <1>2, <1>3 DEF PInv, ProcessorTypeOK
<1>7. /\ \A i \in DOMAIN stop_orders[s][p] : stop_orders[s][p][i] # o
      /\ stop_orders[s][p] \in Seq(OrderIds)
  BY <1>1, <1>3, <1>6, StopNodes
<1>8. /\ stop_orders' \in [Sides -> [Prices -> Seq(OrderIds)]]
      /\ \A i \in DOMAIN stop_orders'[s][p] :
           \/ stop_orders'[s][p][i] = o
           \/ i \in DOMAIN stop_orders[s][p]
              /\ stop_orders'[s][p][i] = stop_orders[s][p][i]
      /\ \E k : OnlyAt(stop_orders'[s][p], o, k)
      /\ \A x, k : OnlyAt(stop_orders[s][p], x, k) /\ x # o =>
                     OnlyAt(stop_orders'[s][p], x, k)
  <2>1. /\ Append(stop_orders[s][p], o) \in Seq(OrderIds)
        /\ \A i \in DOMAIN Append(stop_orders[s][p], o) :
             \/ Append(stop_orders[s][p], o)[i] = o
             \/ i \in DOMAIN stop_orders[s][p]
                /\ Append(stop_orders[s][p], o)[i] = stop_orders[s][p][i]
        /\ \E k : OnlyAt(Append(stop_orders[s][p], o), o, k)
        /\ \A x, k : OnlyAt(stop_orders[s][p], x, k) /\ x # o =>
                       OnlyAt(Append(stop_orders[s][p], o), x, k)
    BY <1>7, AppendedNodes
  <2>2. stop_orders' \in [Sides -> [Prices -> Seq(OrderIds)]]
    BY <1>2, <1>3, <1>6, <2>1
  <2> QED
    BY <1>6, <2>1, <2>2
<1>9. \A t \in Sides, u \in Prices : \A i : ~ HadTurn(t, u, i) /\ ~ HadTurn(t, u, i)'
  BY <1>1, <1>2, OrdersAssumption DEF HadTurn, NoCheck
<1>10. \A x \in OrderIds : x # o => (Waiting(x)' <=> Waiting(x)) /\ (Exists(x)' <=> Exists(x))
  BY <1>4 DEF Waiting, Exists
<1>11. Waiting(o)' /\ Exists(o)'
  BY <1>2, <1>3, <1>4 DEF Waiting, Exists
<1>12. StopsHeld'
  <2>1. ASSUME NEW x \in OrderIds, Waiting(x)'
        PROVE  /\ \E i : OnlyAt(stop_orders'[orders'[x].side][orders'[x].stop_price], x, i)
               /\ ~ orders'[x].book_it /\ executed'[x] = 0
    <3>1. CASE x = o
      BY <1>2, <1>3, <1>4, <1>8, <3>1 DEF s, p
    <3>2. CASE x # o
      <4>1. /\ orders[x].side \in Sides /\ orders[x].stop_price \in Prices
            /\ \E i : OnlyAt(stop_orders[orders[x].side][orders[x].stop_price], x, i)
            /\ ~ orders[x].book_it /\ executed[x] = 0
        BY <1>10, <2>1, <3>2, WaitingNode
      <4>2. orders'[x] = orders[x] /\ executed'[x] = executed[x]
        BY <1>2, <1>4, <3>2
      <4>3. PICK i : OnlyAt(stop_orders[orders[x].side][orders[x].stop_price], x, i)
        BY <4>1
      <4>4. OnlyAt(stop_orders'[orders[x].side][orders[x].stop_price], x, i)
        BY <1>6, <1>8, <3>2, <4>1, <4>3
      <4> QED
        BY <4>1, <4>2, <4>4
    <3> QED
      BY <3>1, <3>2
  <2>2. ASSUME NEW t \in Sides, NEW u \in Prices, NEW i \in DOMAIN stop_orders'[t][u]
        PROVE  \E x \in OrderIds :
                 /\ x = stop_orders'[t][u][i]
                 /\ Exists(x)' /\ orders'[x].side = t /\ orders'[x].stop_price = u
                 /\ Waiting(x)' <=> ~ HadTurn(t, u, i)'
    <3>1. CASE t = s /\ u = p /\ stop_orders'[s][p][i] = o
      BY <1>4, <1>9, <1>11, <3>1 DEF s, p
    <3>2. CASE i \in DOMAIN stop_orders[t][u]
               /\ stop_orders'[t][u][i] = stop_orders[t][u][i]
      <4>1. PICK x \in OrderIds : x = stop_orders[t][u][i]
        BY <3>2, StopNodes
      <4>2. /\ Exists(x) /\ orders[x].side = t /\ orders[x].stop_price = u
            /\ Waiting(x) <=> ~ HadTurn(t, u, i)
        BY <3>2, <4>1, StopNodes
      <4>3. x # o
        BY <1>1, <4>2
      <4> QED
        BY <1>4, <1>9, <1>10, <3>2, <4>1, <4>2, <4>3
    <3> QED
      BY <1>6, <1>8, <3>1, <3>2
  <2> QED
    BY <2>1, <2>2 DEF StopsHeld, HadTurn, Exists, Waiting, OnlyAt
<1>13. ProcessorTypeOK'
  BY <1>1, <1>2, <1>5, <1>8 DEF PInv, ProcessorTypeOK, BooksInv, WorkerStates
<1>14. WorkerOK'
  BY <1>1, <1>2 DEF PInv, WorkerOK
<1>15. IdsFresh'
  BY <1>1, <1>2, <1>10, IdsDequeue
<1>16. WaitingOK'
  <2>1. ASSUME NEW x \in OrderIds, Waiting(x)'
        PROVE  /\ orders'[x].stop_price \in Prices
               /\ orders'[x].remaining = orders'[x].quantity /\ executed'[x] = 0
               /\ IF orders'[x].type = "Stop" THEN orders'[x].price = Null
                                              ELSE orders'[x].price \in ValidPrices
    <3>1. CASE x = o
      BY <1>2, <1>3, <1>4, <3>1 DEF p, IsStop
    <3>2. CASE x # o
      BY <1>2, <1>4, <1>10, <2>1, <3>2 DEF PInv, WaitingOK
    <3> QED
      BY <3>1, <3>2
  <2> QED
    BY <2>1 DEF WaitingOK, Waiting, Exists
<1>17. TriggeredByTrade'
  <2> SUFFICES ASSUME NEW x \in OrderIds, Exists(x)', orders'[x].stop_price # Null,
                      ~ IsStop(orders'[x])
               PROVE  x \in reached'
    BY DEF TriggeredByTrade
  <2> QED
    BY <1>2, <1>4, <1>10 DEF PInv, TriggeredByTrade
<1>18. PricesSeen'
  BY <1>1, <1>2 DEF PInv, PricesSeen, NoCheck
<1> QED
  BY <1>5, <1>12, <1>13, <1>14, <1>15, <1>16, <1>17, <1>18 DEF PInv

(* An order that is no stop order enters the market.                       *)
LEMMA AddAndProcessInv ==
  ASSUME PInv, OnTick, NEW c \in Clients, AddAndProcess(c)
  PROVE  PInv'
<1>1. PICK r \in Submissions, o \in OrderIds :
        /\ Dequeue(c, "AddOrder")
        /\ r = Head(inbox[c]).order /\ o = Head(inbox[c]).order_id
        /\ o \in submitted /\ ~ Exists(o)
        /\ check = NoCheck /\ taker = Null /\ inbox' \in [Clients -> Seq(Event)]
        /\ ~ Rejected(r)
  BY Dequeued DEF AddAndProcess
<1> DEFINE ord == MakeOrder(r)
<1>2. /\ ~ IsStop(ord)
      /\ process_order(o, ord)
      /\ \/ worker' = "loop" /\ Throws(ord)
         \/ worker' = "adding" /\ prevltp' = LastPriceOrZero
      /\ prevltp' \in {0, LastPriceOrZero}
      /\ UNCHANGED << submitted, cancels, running, canceling, stop_orders, check,
                      published, reached >>
  BY <1>1 DEF AddAndProcess
<1>3. /\ ord \in Order /\ ord # Null
      /\ ord.remaining = ord.quantity /\ ord.status = "New"
      /\ ~ ord.book_it /\ ord.stop_price = Null
  BY <1>1, <1>2, MadeOrder
<1> HIDE DEF ord
<1>4. ~ Rests(o) /\ executed[o] = 0
  BY <1>1 DEF Rests, PInv, BooksInv, Accounting
<1>5. BooksInv'
  BY <1>2, <1>3, <1>4, EntryBooks DEF PInv
<1>6. /\ orders' = [orders EXCEPT ![o] = ord]
      /\ taker' \in {Null, o} /\ (taker' # Null => ~ Throws(ord))
      /\ UNCHANGED << last_price, is_active, executed >>
  BY <1>2 DEF process_order
<1>7. orders'[o] = ord /\ \A x \in OrderIds : x # o => orders'[x] = orders[x]
  BY <1>6 DEF PInv, BooksInv, TypeOK
<1>8. Entered(o) /\ \A x \in OrderIds : x # o => Kept(x)
  BY <1>1, <1>2, <1>3, <1>6, <1>7 DEF Entered, Kept, Waiting, Exists
<1>9. \A t \in Sides, u \in Prices : \A i : HadTurn(t, u, i)' <=> HadTurn(t, u, i)
  BY <1>2 DEF HadTurn
<1>10. WaitingOK' /\ StopsHeld' /\ TriggeredByTrade'
  BY <1>2, <1>8, <1>9, StopsFrame
<1>11. LastPriceOrZero \in Prices \cup {0} /\ LastPriceOrZero' = LastPriceOrZero
  BY <1>6 DEF LastPriceOrZero, PInv, BooksInv, TypeOK
<1>12. ProcessorTypeOK'
  BY <1>1, <1>2, <1>5, <1>11 DEF PInv, ProcessorTypeOK, BooksInv, WorkerStates
<1>13. WorkerOK'
  BY <1>1, <1>2, <1>3, <1>6, <1>7 DEF PInv, WorkerOK
<1>14. IdsFresh'
  BY <1>1, <1>2, <1>7, IdsDequeue DEF Exists
<1>15. PricesSeen'
  BY <1>1, <1>2, <1>6, <1>11 DEF PricesSeen, NoCheck, LastPriceOrZero
<1> QED
  BY <1>5, <1>10, <1>12, <1>13, <1>14, <1>15 DEF PInv

(* A trade shows its price to every stop order that is waiting.            *)
LEMMA MatchStepInv ==
  ASSUME PInv, MatchStep
  PROVE  PInv'
<1>1. /\ ProcessStep /\ BooksInv
      /\ worker \in {"adding", "stops"}
      /\ published' = (IF taker' = Null THEN Published ELSE published)
      /\ reached' = IF taker' = Null THEN reached
                    ELSE reached \cup
                      { o \in OrderIds : Waiting(o) /\ StopReached(orders[o], last_price') }
      /\ UNCHANGED << inbox, submitted, cancels, running, worker, canceling, prevltp,
                      stop_orders, check >>
  BY DEF MatchStep, ProcessStep, PInv
<1>2. BooksInv'
  BY <1>1, ProcessBooks
<1>3. /\ taker \in OrderIds
      /\ \A o \in OrderIds : Kept(o)
      /\ is_active' = is_active
      /\ \/ taker' = Null /\ last_price' = last_price
         \/ /\ taker' = taker /\ last_price' \in Prices
            /\ orders'[taker].status = orders[taker].status
  BY <1>1, ProcessFrame
<1>4. reached \subseteq reached' /\ reached' \subseteq OrderIds
  BY <1>1 DEF PInv, ProcessorTypeOK
<1>5. \A t \in Sides, u \in Prices : \A i : HadTurn(t, u, i)' <=> HadTurn(t, u, i)
  BY <1>1 DEF HadTurn
<1>6. /\ WaitingOK' /\ StopsHeld' /\ TriggeredByTrade'
      /\ \A p : Seen(p) => \A o \in OrderIds :
           Waiting(o)' /\ StopReached(orders'[o], p) => o \in reached'
  BY <1>1, <1>3, <1>4, <1>5, StopsFrame
<1>7. DOMAIN published' = OrderIds
  BY <1>1 DEF Published, PInv, ProcessorTypeOK
<1>8. ProcessorTypeOK'
  BY <1>1, <1>2, <1>4, <1>7 DEF PInv, ProcessorTypeOK, BooksInv
<1>9. WorkerOK'
  <2>1. Exists(taker)
    BY <1>1, ProcessFrame
  <2>2. orders'[taker].stop_price = orders[taker].stop_price
    BY <1>3, <2>1 DEF Kept
  <2> QED
    BY <1>1, <1>3, <2>2, OrdersAssumption DEF PInv, WorkerOK
<1>10. IdsFresh'
  BY <1>1, <1>3, IdsKeep DEF Kept
<1>11. PricesSeen'
  <2>1. last_price' = Null => prevltp' = 0
    BY <1>1, <1>3, OrdersAssumption DEF PInv, PricesSeen
  <2>2. worker' = "adding" /\ LastPriceOrZero' # prevltp' =>
          \A o \in OrderIds :
            Waiting(o)' /\ StopReached(orders'[o], last_price') => o \in reached'
    <3>1. CASE taker' = Null /\ last_price' = last_price
      BY <1>1, <1>6, <3>1 DEF PInv, PricesSeen, LastPriceOrZero
    <3>2. CASE taker' = taker /\ taker' # Null
      <4>1. ASSUME NEW o \in OrderIds, Waiting(o)', StopReached(orders'[o], last_price')
            PROVE  o \in reached'
        <5>1. Waiting(o) /\ StopReached(orders[o], last_price')
          BY <1>3, <4>1, KeptWaits
        <5> QED
          BY <1>1, <3>2, <5>1
      <4> QED
        BY <4>1
    <3> QED
      BY <1>3, <3>1, <3>2, OrdersAssumption
  <2>3. worker' = "stops" =>
          /\ check'.ltp \in Prices
          /\ \A o \in OrderIds :
               Waiting(o)' /\ StopReached(orders'[o], check'.ltp) => o \in reached'
    BY <1>1, <1>6 DEF PInv, PricesSeen
  <2> QED
    BY <1>1, <2>1, <2>2, <2>3 DEF PInv, PricesSeen, Seen
<1> QED
  BY <1>2, <1>6, <1>8, <1>9, <1>10, <1>11 DEF PInv

(* The next order of the level being walked: it waits, so it is in no book *)
(* and untouched, and under OnTick process_order does not refuse it.       *)
LEMMA Triggered ==
  ASSUME PInv, TriggerStop
  PROVE  \E o \in OrderIds :
           /\ o = stop_orders[check.side][check.level][check.next]
           /\ check.side \in Sides /\ check.level \in Prices
           /\ check.next \in DOMAIN stop_orders[check.side][check.level]
           /\ Waiting(o) /\ Exists(o) /\ o \in reached
           /\ orders[o].side = check.side /\ orders[o].stop_price = check.level
           /\ ~ Rests(o) /\ orders[o] \in Order
           /\ Converted(orders[o]) \in Order
           /\ Converted(orders[o]).remaining = Converted(orders[o]).quantity
           /\ ~ Converted(orders[o]).book_it /\ executed[o] = 0
           /\ Converted(orders[o]).stop_price = orders[o].stop_price
           /\ ~ IsStop(Converted(orders[o])) /\ Converted(orders[o]) # Null
           /\ ~ Throws(Converted(orders[o]))
           /\ process_order(o, Converted(orders[o]))
           /\ worker' = worker /\ check' = [check EXCEPT !.next = @ + 1]
<1> DEFINE s == check.side
           p == check.level
<1>1. /\ s \in Sides /\ p \in Prices /\ check.next \in Nat \ {0}
      /\ check.next <= Len(stop_orders[s][p])
      /\ stop_orders[s][p] \in Seq(OrderIds)
      /\ worker = "stops"
  BY DEF TriggerStop, Checking, PInv, ProcessorTypeOK
<1>2. check.next \in DOMAIN stop_orders[s][p]
  BY <1>1, LenProperties
<1> HIDE DEF s, p
<1>3. PICK o \in OrderIds : o = stop_orders[s][p][check.next]
  BY <1>1, <1>2, StopNodes
<1>4. Exists(o) /\ orders[o].side = s /\ orders[o].stop_price = p /\ Waiting(o)
  <2>1. ~ HadTurn(s, p, check.next)
    BY <1>1 DEF HadTurn
  <2> QED
    BY <1>1, <1>2, <1>3, <2>1, StopNodes
<1>5. ~ Rests(o) /\ orders[o] \in Order /\ ~ orders[o].book_it /\ executed[o] = 0
  BY <1>4, WaitingApart, WaitingNode DEF PInv
<1>6. /\ orders[o].remaining = orders[o].quantity
      /\ orders[o].type \in {"Stop", "StopLimit"}
      /\ IF orders[o].type = "Stop" THEN orders[o].price = Null
                                    ELSE orders[o].price \in ValidPrices
  BY <1>4 DEF PInv, WaitingOK, Waiting, IsStop
<1> DEFINE ord == Converted(orders[o])
<1>7. /\ ord.type = (IF orders[o].type = "Stop" THEN "Market" ELSE "Limit")
      /\ ord.remaining = orders[o].remaining /\ ord.quantity = orders[o].quantity
      /\ ord.price = orders[o].price /\ ord.stop_price = orders[o].stop_price
      /\ ord.book_it = orders[o].book_it
  BY <1>5 DEF Converted, Order
<1>8. ord \in Order /\ ord # Null
  <2>1. "Market" \in OrderTypes /\ "Limit" \in OrderTypes
    BY DEF OrderTypes
  <2>2. ord \in Order
    BY <1>5, <2>1 DEF Converted, Order
  <2> QED
    BY <2>2, NullAssumption
<1>9. /\ process_order(o, ord)
      /\ IF Throws(ord)
         THEN worker' = "loop" /\ check' = NoCheck
         ELSE UNCHANGED worker /\ check' = [check EXCEPT !.next = @ + 1]
  BY <1>3 DEF TriggerStop, s, p
<1> HIDE DEF ord
<1>10. ~ Throws(ord)
  BY <1>6, <1>7, OrdersAssumption DEF Throws, is_valid_price, PInv, WorkerOK
<1>11. o \in reached
  <2>1. StopReached(orders[o], check.ltp) /\ Seen(check.ltp)
    BY <1>1, <1>4, OrdersAssumption DEF StopReached, PInv, PricesSeen, s, p
  <2> QED
    BY <1>4, <2>1 DEF Seen
<1>12. ~ IsStop(ord)
  BY <1>7 DEF IsStop
<1> QED
  BY <1>1, <1>2, <1>3, <1>4, <1>5, <1>6, <1>7, <1>8, <1>9, <1>10, <1>11, <1>12
     DEF ord, s, p

LEMMA TriggerStopInv ==
  ASSUME PInv, TriggerStop
  PROVE  PInv'
<1> DEFINE s == check.side
           p == check.level
<1>1. PICK o \in OrderIds :
        /\ o = stop_orders[s][p][check.next]
        /\ s \in Sides /\ p \in Prices
        /\ check.next \in DOMAIN stop_orders[s][p]
        /\ Waiting(o) /\ Exists(o) /\ o \in reached
        /\ orders[o].side = s /\ orders[o].stop_price = p
        /\ ~ Rests(o) /\ orders[o] \in Order
        /\ Converted(orders[o]) \in Order
        /\ Converted(orders[o]).remaining = Converted(orders[o]).quantity
        /\ ~ Converted(orders[o]).book_it /\ executed[o] = 0
        /\ Converted(orders[o]).stop_price = orders[o].stop_price
        /\ ~ IsStop(Converted(orders[o])) /\ Converted(orders[o]) # Null
        /\ ~ Throws(Converted(orders[o]))
        /\ process_order(o, Converted(orders[o]))
        /\ worker' = worker /\ check' = [check EXCEPT !.next = @ + 1]
  BY Triggered
<1> DEFINE ord == Converted(orders[o])
<1> HIDE DEF ord
<1>2. /\ UNCHANGED << inbox, submitted, cancels, running, canceling, prevltp,
                      stop_orders, published, reached >>
      /\ worker = "stops"
  BY DEF TriggerStop, Checking
<1>3. /\ orders' = [orders EXCEPT ![o] = ord]
      /\ taker' \in {Null, o}
      /\ UNCHANGED << last_price, is_active, executed >>
  BY <1>1 DEF process_order, ord
<1>4. /\ orders'[o] = ord /\ \A x \in OrderIds : x # o => orders'[x] = orders[x]
      /\ executed' = executed
  BY <1>3 DEF PInv, BooksInv, TypeOK
<1>5. BooksInv'
  BY <1>1, EntryBooks DEF PInv
<1>6. \A x \in OrderIds : x # o => (Waiting(x)' <=> Waiting(x)) /\ (Exists(x)' <=> Exists(x))
  BY <1>4 DEF Waiting, Exists
<1>7. Exists(o)' /\ ~ Waiting(o)' /\ ord.stop_price = p
  BY <1>1, <1>4 DEF Waiting, Exists, ord
<1>8. ord.side = orders[o].side
  BY <1>1 DEF ord, Converted, Order
<1>9. /\ check \in [ side : Sides, level : Prices \cup {Null}, next : Nat \ {0},
                     ltp : Prices \cup {Null} ]
      /\ check'.side = s /\ check'.level = p /\ check'.ltp = check.ltp
      /\ check'.next = check.next + 1 /\ check.next \in Nat
  BY <1>1 DEF PInv, ProcessorTypeOK
<1>10. check' \in [ side : Sides, level : Prices \cup {Null}, next : Nat \ {0},
                    ltp : Prices \cup {Null} ]
  <2>1. check.next + 1 \in Nat \ {0}
    BY <1>9
  <2>2. check' = [check EXCEPT !.next = check.next + 1]
    BY <1>1
  <2> QED
    BY <1>9, <2>1, <2>2
<1> HIDE DEF s, p
<1>11. ASSUME NEW t \in Sides, NEW u \in Prices, NEW i \in DOMAIN stop_orders[t][u]
       PROVE  /\ HadTurn(t, u, i)' <=> HadTurn(t, u, i) \/ (t = s /\ u = p /\ i = check.next)
              /\ i \in Nat
  <2>1. i \in Nat
    BY LenProperties DEF PInv, ProcessorTypeOK
  <2> QED
    BY <1>9, <2>1 DEF HadTurn, s, p
<1>12. StopsHeld'
  <2>1. ASSUME NEW x \in OrderIds, Waiting(x)'
        PROVE  /\ \E i : OnlyAt(stop_orders'[orders'[x].side][orders'[x].stop_price], x, i)
               /\ ~ orders'[x].book_it /\ executed'[x] = 0
    <3>1. x # o /\ Waiting(x) /\ orders'[x] = orders[x]
      BY <1>4, <1>6, <1>7, <2>1
    <3> QED
      BY <1>2, <1>4, <3>1, WaitingNode
  <2>2. ASSUME NEW t \in Sides, NEW u \in Prices, NEW i \in DOMAIN stop_orders'[t][u]
        PROVE  \E x \in OrderIds :
                 /\ x = stop_orders'[t][u][i]
                 /\ Exists(x)' /\ orders'[x].side = t /\ orders'[x].stop_price = u
                 /\ Waiting(x)' <=> ~ HadTurn(t, u, i)'
    <3>1. PICK x \in OrderIds : x = stop_orders[t][u][i] /\ i \in DOMAIN stop_orders[t][u]
      BY <1>2, StopNodes
    <3>2. /\ Exists(x) /\ orders[x].side = t /\ orders[x].stop_price = u
          /\ Waiting(x) <=> ~ HadTurn(t, u, i)
      BY <3>1, StopNodes
    <3>3. CASE x = o
      <4>1. t = s /\ u = p
        BY <1>1, <3>2, <3>3 DEF s, p
      <4>2. PICK k : OnlyAt(stop_orders[s][p], o, k)
        BY <1>1, WaitingNode DEF s, p
      <4>3. i = check.next
        BY <1>1, <3>1, <3>3, <4>1, <4>2 DEF OnlyAt, s, p
      <4>4. HadTurn(t, u, i)'
        BY <1>11, <3>1, <4>1, <4>3
      <4> QED
        BY <1>2, <1>4, <1>7, <1>8, <3>1, <3>2, <3>3, <4>1, <4>4
    <3>4. CASE x # o
      <4>1. ~ (t = s /\ u = p /\ i = check.next)
        BY <1>1, <3>1, <3>4 DEF s, p
      <4>2. HadTurn(t, u, i)' <=> HadTurn(t, u, i)
        BY <1>11, <3>1, <4>1
      <4> QED
        BY <1>2, <1>4, <1>6, <3>1, <3>2, <3>4, <4>2
    <3> QED
      BY <3>3, <3>4
  <2> QED
    BY <2>1, <2>2 DEF StopsHeld, HadTurn, Exists, Waiting, OnlyAt
<1>13. ProcessorTypeOK'
  BY <1>1, <1>2, <1>5, <1>10 DEF PInv, ProcessorTypeOK, BooksInv
<1>14. WorkerOK'
  <2>1. worker' = "stops" /\ is_active'
    BY <1>1, <1>2, <1>3 DEF PInv, WorkerOK
  <2>2. taker' = Null \/ orders'[taker'].stop_price # Null
    BY <1>1, <1>3, <1>4, <1>7, OrdersAssumption
  <2> QED
    BY <2>1, <2>2 DEF WorkerOK
<1>15. IdsFresh'
  BY <1>1, <1>2, <1>6, IdsKeep
<1>16. WaitingOK'
  <2>1. ASSUME NEW x \in OrderIds, Waiting(x)'
        PROVE  Waiting(x) /\ orders'[x] = orders[x]
    BY <1>4, <1>6, <1>7, <2>1
  <2> QED
    BY <1>4, <2>1 DEF PInv, WaitingOK, Waiting
<1>17. TriggeredByTrade'
  <2> SUFFICES ASSUME NEW x \in OrderIds, Exists(x)', orders'[x].stop_price # Null,
                      ~ IsStop(orders'[x])
               PROVE  x \in reached'
    BY DEF TriggeredByTrade
  <2> QED
    BY <1>1, <1>2, <1>4, <1>6 DEF PInv, TriggeredByTrade
<1>18. PricesSeen'
  <2>1. ASSUME NEW x \in OrderIds, Waiting(x)', StopReached(orders'[x], check.ltp)
        PROVE  x \in reached'
    <3>1. Waiting(x) /\ orders'[x] = orders[x]
      BY <1>4, <1>6, <1>7, <2>1
    <3> QED
      BY <1>2, <2>1, <3>1 DEF PInv, PricesSeen, Seen
  <2>2. /\ check'.ltp = check.ltp /\ check'.side = check.side /\ check'.level = check.level
        /\ last_price' = last_price /\ prevltp' = prevltp /\ worker' = "stops"
    BY <1>1, <1>2, <1>3, <1>9 DEF s, p
  <2>3. check.ltp \in Prices /\ (check.level # Null =>
          IF check.side = "Buy" THEN check.ltp >= check.level ELSE check.ltp <= check.level)
        /\ (last_price = Null => prevltp = 0)
    BY <1>2 DEF PInv, PricesSeen
  <2> QED
    BY <2>1, <2>2, <2>3 DEF PricesSeen, Seen
<1> QED
  BY <1>5, <1>12, <1>13, <1>14, <1>15, <1>16, <1>17, <1>18 DEF PInv

-----------------------------------------------------------------------------
(* What cancel_order leaves alone; it always leaves the order out of the   *)
(* books, unless it throws.                                                *)
LEMMA CancelFrame ==
  ASSUME BooksInv, NEW o \in OrderIds, Exists(o), cancel_order(o)
  PROVE  /\ \A x \in OrderIds : Kept(x)
         /\ \A x \in OrderIds : Rests(x)' => Rests(x)
         /\ ~ CancelThrows(o) => ~ Rests(o)'
         /\ taker = Null /\ taker' = Null
         /\ UNCHANGED << last_price, is_active, executed >>
<1>1. /\ taker = Null /\ taker' = Null
      /\ UNCHANGED << last_price, is_active, executed >>
  BY DEF cancel_order
<1>2. CASE orders' = orders
  <2>1. (\A x \in OrderIds : Kept(x)) /\ (\A x \in OrderIds : Rests(x)' => Rests(x))
    BY <1>1, <1>2 DEF Kept, Exists, Rests
  <2>2. ASSUME Rests(o), ~ CancelThrows(o), ~ orders[o].book_it \/ ~ LevelFound(o)
        PROVE  FALSE
    <3>1. PICK i : OnlyAt(queue[orders[o].side][orders[o].price], o, i)
      BY <2>2, RestsLive
    <3>2. /\ orders[o].side \in Sides /\ orders[o].price \in Prices
          /\ queue[orders[o].side][orders[o].price] \in Seq(OrderIds)
      BY <2>2, RestsLive DEF BooksInv, TypeOK
    <3>3. queue[orders[o].side][orders[o].price] # <<>>
      BY <3>1, <3>2, EmptySeq, LenProperties DEF OnlyAt
    <3>4. orders[o].price \in levels[orders[o].side]
      BY <3>2, <3>3 DEF BooksInv, NoEmptyLevel
    <3> QED
      BY <2>2, <3>4 DEF LevelFound, Rests
  <2>3. ASSUME Rests(o), ~ CancelThrows(o)
        PROVE  FALSE
    <3>1. orders[o].type # "Market" /\ orders[o] \in Order /\ orders[o].book_it
      BY <2>3, RestsLive DEF Rests, BooksInv, TypeOK, Exists
    <3>2. orders' = [orders EXCEPT ![o].status = "Canceled", ![o].book_it = FALSE,
                                   ![o].remaining = 0]
      BY <2>2, <2>3, <3>1 DEF cancel_order
    <3>3. orders'[o].book_it = FALSE
      BY <3>1, <3>2 DEF BooksInv, TypeOK, Order
    <3> QED
      BY <1>2, <3>1, <3>3
  <2> QED
    BY <1>1, <2>1, <2>3
<1>3. CASE orders' # orders
  <2> DEFINE canceled == [orders[o] EXCEPT !.status = "Canceled", !.book_it = FALSE,
                                           !.remaining = 0]
  <2>1. orders' = [orders EXCEPT ![o].status = "Canceled", ![o].book_it = FALSE,
                                 ![o].remaining = 0]
        /\ orders[o].book_it
    BY <1>3 DEF cancel_order
  <2>2. Rests(o) /\ orders[o] \in Order /\ orders \in [OrderIds -> Order \cup {Null}]
    BY <2>1 DEF Rests, Exists, BooksInv, TypeOK
  <2>3. canceled \in Order /\ canceled # Null
    <3>1. 0 \in 0 .. MaxInt /\ "Canceled" \in OrderStatuses
      BY OrdersAssumption DEF OrderStatuses
    <3>2. canceled \in Order
      BY <2>2, <3>1 DEF Order
    <3> QED
      BY <3>2, NullAssumption
  <2>4. /\ canceled.type = orders[o].type /\ canceled.side = orders[o].side
        /\ canceled.price = orders[o].price /\ ~ canceled.book_it
        /\ canceled.stop_price = orders[o].stop_price
    BY <2>2 DEF Order
  <2>5. orders' = [orders EXCEPT ![o] = canceled]
    BY <2>1
  <2> HIDE DEF canceled
  <2>6. orders'[o] = canceled /\ \A x \in OrderIds : x # o => orders'[x] = orders[x]
    BY <2>2, <2>5
  <2>7. ~ Waiting(o)
    BY <2>2, WaitingApart
  <2>8. \A x \in OrderIds : Kept(x)
    BY <1>1, <2>2, <2>3, <2>4, <2>6, <2>7 DEF Kept, Exists, Rests
  <2>9. ~ Rests(o)' /\ \A x \in OrderIds : Rests(x)' => Rests(x)
    BY <2>4, <2>6 DEF Rests, Exists
  <2> QED
    BY <1>1, <2>8, <2>9
<1> QED
  BY <1>2, <1>3

LEMMA HandleCancelInv ==
  ASSUME PInv, NEW c \in Clients, HandleCancel(c)
  PROVE  PInv'
<1>1. PICK o \in OrderIds :
        /\ Dequeue(c, "CancelOrder")
        /\ o = Head(inbox[c]).order_id
        /\ check = NoCheck /\ inbox' \in [Clients -> Seq(Event)]
        /\ Exists(o)
  BY Dequeued DEF HandleCancel
<1>2. /\ cancel_order(o)
      /\ \/ worker' = "loop" /\ canceling' = Null
         \/ worker' = "marking" /\ canceling' = o /\ ~ CancelThrows(o)
      /\ UNCHANGED << submitted, cancels, running, prevltp, stop_orders, check,
                      published, reached >>
  BY <1>1 DEF HandleCancel
<1>3. /\ \A x \in OrderIds : Kept(x)
      /\ ~ CancelThrows(o) => ~ Rests(o)'
      /\ taker = Null /\ taker' = Null
      /\ UNCHANGED << last_price, is_active, executed >>
  BY <1>1, <1>2, CancelFrame DEF PInv
<1>4. BooksInv'
  BY <1>1, <1>2, CancelBooks DEF PInv, Exists
<1>5. \A t \in Sides, u \in Prices : \A i : HadTurn(t, u, i)' <=> HadTurn(t, u, i)
  BY <1>2 DEF HadTurn
<1>6. WaitingOK' /\ StopsHeld' /\ TriggeredByTrade'
  BY <1>2, <1>3, <1>5, StopsFrame
<1>7. ProcessorTypeOK'
  BY <1>1, <1>2, <1>4 DEF PInv, ProcessorTypeOK, BooksInv, WorkerStates
<1>8. WorkerOK'
  <2>1. worker' = "marking" => canceling' = o /\ Exists(o)' /\ ~ Rests(o)'
    BY <1>1, <1>2, <1>3 DEF Kept
  <2> QED
    BY <1>1, <1>2, <1>3, <2>1 DEF PInv, WorkerOK, Exists, Rests
<1>9. IdsFresh'
  BY <1>1, <1>2, <1>3, IdsDequeue DEF Kept
<1>10. PricesSeen'
  BY <1>1, <1>2, <1>3 DEF PInv, PricesSeen, NoCheck
<1> QED
  BY <1>4, <1>6, <1>7, <1>8, <1>9, <1>10 DEF PInv

(* Overwriting the status harms no book: the order is in none.             *)
LEMMA MarkCanceledInv ==
  ASSUME PInv, MarkCanceled
  PROVE  PInv'
<1>1. PICK o \in OrderIds : o = canceling /\ Exists(o) /\ ~ Rests(o)
  BY DEF MarkCanceled, PInv, WorkerOK
<1>2. /\ worker = "marking" /\ taker = Null /\ check = NoCheck
      /\ orders' = [orders EXCEPT ![o].status = "Canceled"]
      /\ worker' = "loop" /\ canceling' = Null
      /\ UNCHANGED << levels, queue, last_price, is_active, taker, events, crashed,
                      executed, inbox, submitted, cancels, running, prevltp,
                      stop_orders, check, published, reached >>
  BY <1>1 DEF MarkCanceled, PInv, WorkerOK
<1> DEFINE ord == [orders[o] EXCEPT !.status = "Canceled"]
<1>3. orders[o] \in Order /\ ~ orders[o].book_it
  BY <1>1 DEF PInv, BooksInv, TypeOK, Exists, Rests
<1>4. /\ ord.type = orders[o].type /\ ord.side = orders[o].side
      /\ ord.price = orders[o].price /\ ord.stop_price = orders[o].stop_price
      /\ ord.remaining = orders[o].remaining /\ ord.quantity = orders[o].quantity
      /\ ord.book_it = orders[o].book_it /\ ord.status = "Canceled"
  BY <1>3 DEF Order
<1>5. ord \in Order /\ ord # Null
  <2>1. "Canceled" \in OrderStatuses
    BY DEF OrderStatuses
  <2>2. ord \in Order
    BY <1>3, <2>1 DEF Order
  <2> QED
    BY <2>2, NullAssumption
<1>6. orders' = [orders EXCEPT ![o] = ord]
  BY <1>2
<1> HIDE DEF ord
<1>7. orders'[o] = ord /\ \A x \in OrderIds : x # o => orders'[x] = orders[x]
  BY <1>6 DEF PInv, BooksInv, TypeOK
<1>8. BooksInv'
  <2>1. /\ executed[o] <= ord.quantity
        /\ \/ ord.status = "Canceled" /\ ord.remaining = 0
           \/ executed[o] + ord.remaining = ord.quantity
    BY <1>1, <1>4 DEF PInv, BooksInv, Accounting
  <2>2. taker' \in {Null, o} /\ taker' # o /\ events' \in Seq(MarketEvent)
    BY <1>2, OrdersAssumption DEF PInv, BooksInv, TypeOK
  <2> QED
    BY <1>1, <1>2, <1>3, <1>4, <1>5, <1>6, <2>1, <2>2, ReplaceOrder DEF PInv
<1>9. \A x \in OrderIds : Kept(x)
  BY <1>1, <1>2, <1>4, <1>5, <1>7 DEF Kept, Exists
<1>10. \A t \in Sides, u \in Prices : \A i : HadTurn(t, u, i)' <=> HadTurn(t, u, i)
  BY <1>2 DEF HadTurn
<1>11. WaitingOK' /\ StopsHeld' /\ TriggeredByTrade'
  BY <1>2, <1>9, <1>10, StopsFrame
<1>12. ProcessorTypeOK'
  BY <1>2, <1>8 DEF PInv, ProcessorTypeOK, BooksInv, WorkerStates
<1>13. WorkerOK'
  BY <1>2 DEF PInv, WorkerOK
<1>14. IdsFresh'
  BY <1>2, <1>9, IdsKeep DEF Kept
<1>15. PricesSeen'
  BY <1>2 DEF PInv, PricesSeen, NoCheck
<1> QED
  BY <1>8, <1>11, <1>12, <1>13, <1>14, <1>15 DEF PInv

-----------------------------------------------------------------------------
LEMMA ProcessorInitInv == ProcessorInit => PInv
<1> SUFFICES ASSUME ProcessorInit PROVE PInv
  OBVIOUS
<1>1. BooksInv /\ TypeOK
  BY InitInv DEF ProcessorInit, IInv, BooksInv
<1>2. /\ \A o \in OrderIds : ~ Exists(o) /\ ~ Waiting(o)
      /\ is_active /\ taker = Null /\ last_price = Null
  BY DEF ProcessorInit, MarketInit, Exists, Waiting
<1>3. /\ inbox = [c \in Clients |-> <<>>] /\ submitted = {} /\ cancels = 0
      /\ running = TRUE /\ worker = "loop" /\ canceling = Null /\ prevltp = 0
      /\ stop_orders = [s \in Sides |-> [p \in Prices |-> <<>>]]
      /\ check = NoCheck /\ published = [o \in OrderIds |-> [traded |-> 0, fills |-> 0]]
      /\ reached = {}
  BY DEF ProcessorInit
<1>4. check \in [ side : Sides, level : Prices \cup {Null}, next : Nat \ {0},
                  ltp : Prices \cup {Null} ] /\ check.level = Null
  BY <1>3 DEF NoCheck, Sides
<1>5. ProcessorTypeOK
  <2>1. 0 \in 0 .. MaxCancels
    BY ProcessorAssumption
  <2>2. inbox \in [Clients -> Seq(Event)]
        /\ stop_orders \in [Sides -> [Prices -> Seq(OrderIds)]]
    BY <1>3, EmptySeq
  <2> QED
    BY <1>1, <1>3, <1>4, <2>1, <2>2 DEF ProcessorTypeOK, WorkerStates
<1>6. WorkerOK
  BY <1>2, <1>3 DEF WorkerOK
<1>7. IdsFresh
  <2>1. \A c \in Clients : inbox[c] = <<>>
    BY <1>3
  <2>2. \A c \in Clients : DOMAIN inbox[c] = {}
    BY <2>1, EmptySeq, LenProperties
  <2> QED
    BY <1>2, <2>2 DEF IdsFresh
<1>8. StopsHeld
  <2>1. \A s \in Sides, p \in Prices : stop_orders[s][p] = <<>>
    BY <1>3
  <2>2. \A s \in Sides, p \in Prices : DOMAIN stop_orders[s][p] = {}
    BY <2>1, EmptySeq, LenProperties
  <2> QED
    BY <1>2, <2>2 DEF StopsHeld
<1>9. WaitingOK /\ TriggeredByTrade
  BY <1>2 DEF WaitingOK, TriggeredByTrade
<1>10. PricesSeen
  BY <1>3, <1>4 DEF PricesSeen
<1> QED
  BY <1>1, <1>5, <1>6, <1>7, <1>8, <1>9, <1>10 DEF PInv

(* PInv is inductive when no submission has an off-tick stop-limit price.  *)
LEMMA ProcessorStepInv ==
  ASSUME PInv, OnTick, [ProcessorNext]_allVars
  PROVE  PInv'
<1>1. CASE UNCHANGED allVars
  <2>1. IdsFresh'
    BY <1>1, IdsKeep DEF allVars, marketVars, processorVars, Exists
  <2> QED
    BY <1>1, <2>1, ClientStep DEF allVars, processorVars, PInv, ProcessorTypeOK
<1>2. ASSUME NEW c \in Clients, NEW o \in OrderIds, NEW r \in Submissions,
             SubmitOrder(c, o, r)
      PROVE  PInv'
  BY <1>2, SubmitInv
<1>3. ASSUME NEW c \in Clients, NEW o \in OrderIds, RequestCancel(c, o)
      PROVE  PInv'
  BY <1>3, RequestInv
<1>4. CASE stop
  BY <1>4, StopInv
<1>5. CASE LoopTop \/ Idle
  BY <1>5, LoopTopInv
<1>6. ASSUME NEW c \in Clients, RejectAdd(c) \/ CancelUnknown(c)
      PROVE  PInv'
  BY <1>6, RefuseInv
<1>7. ASSUME NEW c \in Clients, AddStop(c)
      PROVE  PInv'
  BY <1>7, AddStopInv
<1>8. ASSUME NEW c \in Clients, AddAndProcess(c)
      PROVE  PInv'
  BY <1>8, AddAndProcessInv
<1>9. CASE MatchStep
  BY <1>9, MatchStepInv
<1>10. CASE AfterAdd
  BY <1>10, AfterAddInv
<1>11. CASE NextLevel
  BY <1>11, NextLevelInv
<1>12. CASE TriggerStop
  BY <1>12, TriggerStopInv
<1>13. CASE EraseLevel
  BY <1>13, EraseLevelInv
<1>14. ASSUME NEW c \in Clients, HandleCancel(c)
       PROVE  PInv'
  BY <1>14, HandleCancelInv
<1>15. CASE MarkCanceled
  BY <1>15, MarkCanceledInv
<1> QED
  BY <1>1, <1>2, <1>3, <1>4, <1>5, <1>6, <1>7, <1>8, <1>9, <1>10, <1>11, <1>12,
     <1>13, <1>14, <1>15 DEF ProcessorNext, Work

LEMMA ProcessorInvariance ==
  ASSUME OnTick
  PROVE  ProcessorSpec => []PInv
<1>1. PInv /\ [ProcessorNext]_allVars => PInv'
  BY ProcessorStepInv
<1> QED
  BY <1>1, ProcessorInitInv, PTL DEF ProcessorSpec

-----------------------------------------------------------------------------
(* Results, for the submissions that OnTick admits.                        *)

(* The books and the iterators stay sound under what the worker does to    *)
(* orders outside the market's functions: MarkCanceled overwrites a        *)
(* status, check_stop_orders a type.                                       *)
THEOREM BooksStaySound ==
  ASSUME OnTick
  PROVE  ProcessorSpec => []BooksSound
<1>1. PInv => BooksSound
  BY DEF PInv, BooksInv, BooksSound
<1> QED
  BY <1>1, ProcessorInvariance, PTL

(* Until it is triggered a stop order is where check_stop_orders looks for *)
(* it, once, and nowhere else; and what it finds there is still waiting.   *)
THEOREM StopsAreHeld ==
  ASSUME OnTick
  PROVE  ProcessorSpec => []StopsHeld
<1>1. PInv => StopsHeld
  BY DEF PInv
<1> QED
  BY <1>1, ProcessorInvariance, PTL

(* No stop order enters the market before a trade has reached its price.   *)
THEOREM StopsWait ==
  ASSUME OnTick
  PROVE  ProcessorSpec => []TriggeredByTrade
<1>1. PInv => TriggeredByTrade
  BY DEF PInv
<1> QED
  BY <1>1, ProcessorInvariance, PTL

LEMMA CanceledStep ==
  ASSUME PInv, [ProcessorNext]_allVars, NEW o \in OrderIds,
         Exists(o), orders[o].status = "Canceled", orders[o].stop_price = Null
  PROVE  ~ Rests(o)' /\ executed'[o] = executed[o]
<1>1. BooksInv /\ ~ Rests(o)
  BY RestsLive DEF PInv
<1>2. o # taker
  BY OrdersAssumption DEF PInv, WorkerOK
<1>3. CASE UNCHANGED << orders, executed >>
  BY <1>1, <1>3 DEF Rests, Exists
<1>4. CASE MatchStep
  <2>1. ProcessStep
    BY <1>4 DEF MatchStep, ProcessStep
  <2>2. Rests(o)' => Rests(o) \/ o = taker
    BY <1>1, <2>1, ProcessFrame
  <2>3. executed'[o] = executed[o]
    BY <1>1, <1>2, <2>1, ProcessFrame
  <2> QED
    BY <1>1, <1>2, <2>2, <2>3
<1>5. ASSUME NEW c \in Clients, HandleCancel(c)
      PROVE  ~ Rests(o)' /\ executed'[o] = executed[o]
  <2>1. PICK x \in OrderIds : Exists(x) /\ cancel_order(x)
    BY <1>5, Dequeued DEF HandleCancel
  <2> QED
    BY <1>1, <2>1, CancelFrame
<1>6. ASSUME NEW c \in Clients, AddAndProcess(c) \/ AddStop(c)
      PROVE  ~ Rests(o)' /\ executed'[o] = executed[o]
  <2>1. PICK x \in OrderIds : ~ Exists(x) /\ x = Head(inbox[c]).order_id
    BY <1>6, Dequeued DEF AddAndProcess, AddStop
  <2>2. executed' = executed /\ \E ord : orders' = [orders EXCEPT ![x] = ord]
    BY <1>6, <2>1 DEF AddAndProcess, AddStop, process_order
  <2>3. orders'[o] = orders[o]
    BY <2>1, <2>2 DEF PInv, BooksInv, TypeOK
  <2> QED
    BY <1>1, <2>2, <2>3 DEF Rests, Exists
<1>7. CASE TriggerStop
  <2>1. PICK x \in OrderIds :
          /\ orders[x].stop_price \in Prices /\ process_order(x, Converted(orders[x]))
    BY <1>7, Triggered
  <2>2. x # o
    BY <2>1, OrdersAssumption
  <2>3. executed' = executed /\ orders'[o] = orders[o]
    BY <2>1, <2>2 DEF process_order, PInv, BooksInv, TypeOK
  <2> QED
    BY <1>1, <2>3 DEF Rests, Exists
<1>8. CASE MarkCanceled
  <2>1. PICK x \in OrderIds :
          /\ x = canceling /\ Exists(x) /\ ~ Rests(x)
          /\ orders' = [orders EXCEPT ![x].status = "Canceled"] /\ executed' = executed
    BY <1>8 DEF MarkCanceled, PInv, WorkerOK
  <2>2. orders'[o].book_it = orders[o].book_it
    <3>1. orders \in [OrderIds -> Order \cup {Null}] /\ orders[o] \in Order
      BY DEF PInv, BooksInv, TypeOK, Exists
    <3> QED
      BY <2>1, <3>1 DEF Order
  <2> QED
    BY <1>1, <2>1, <2>2 DEF Rests, Exists
<1>9. ASSUME ~ MatchStep, ~ TriggerStop, ~ MarkCanceled,
             \A c \in Clients : ~ HandleCancel(c) /\ ~ AddAndProcess(c) /\ ~ AddStop(c)
      PROVE  UNCHANGED << orders, executed >>
  BY <1>9 DEF ProcessorNext, Work, allVars, marketVars, SubmitOrder, RequestCancel, stop,
     LoopTop, Idle, RejectAdd, AfterAdd, NextLevel, EraseLevel, CancelUnknown
<1> QED
  BY <1>3, <1>4, <1>5, <1>6, <1>7, <1>8, <1>9

(* What the worker marks canceled stays out of the books and never trades, *)
(* whatever cancel_order made of the request.                              *)
THEOREM CanceledStaysOut ==
  ASSUME OnTick
  PROVE  ProcessorSpec => CanceledIsOut
<1>1. PInv /\ [ProcessorNext]_allVars =>
        [ \A o \in OrderIds :
            (Exists(o) /\ orders[o].status = "Canceled" /\ orders[o].stop_price = Null) =>
              ~ Rests(o)' /\ executed'[o] = executed[o] ]_allVars
  BY CanceledStep
<1> QED
  BY <1>1, ProcessorInvariance, PTL DEF ProcessorSpec, CanceledIsOut

-----------------------------------------------------------------------------
(* The steps of the worker that enter, overwrite or cancel an order, those *)
(* of a call, and the rest.                                                *)
LEMMA ProcessorCases ==
  ASSUME PInv, OnTick, [ProcessorNext]_allVars
  PROVE  \/ ProcessStep
         \/ \E o \in OrderIds : orders[o] # Null /\ cancel_order(o)
         \/ \E o \in OrderIds, ord \in Order :
              /\ ~ ord.book_it /\ ~ InMarket(o)
              /\ process_order(o, ord)
         \/ \E o \in OrderIds : \E ord :
              /\ ord # Null => ~ ord.book_it
              /\ orders' = [orders EXCEPT ![o] = ord] /\ ~ InMarket(o) /\ o # taker'
              /\ UNCHANGED << queue, taker, last_price, executed >>
         \/ UNCHANGED << orders, queue, taker, last_price, executed >>
<1>1. CASE MatchStep
  BY <1>1 DEF MatchStep, ProcessStep
<1>2. ASSUME NEW c \in Clients, HandleCancel(c)
      PROVE  \E o \in OrderIds : orders[o] # Null /\ cancel_order(o)
  BY <1>2, Dequeued DEF HandleCancel, Exists
<1>3. ASSUME NEW c \in Clients, AddAndProcess(c)
      PROVE  \E o \in OrderIds, ord \in Order :
               /\ ~ ord.book_it /\ ~ InMarket(o)
               /\ process_order(o, ord)
  <2>1. /\ Head(inbox[c]).order_id \in OrderIds /\ ~ Exists(Head(inbox[c]).order_id)
        /\ Head(inbox[c]).order \in Submissions
        /\ ~ Rejected(Head(inbox[c]).order)
        /\ process_order(Head(inbox[c]).order_id, MakeOrder(Head(inbox[c]).order))
    BY <1>3, Dequeued DEF AddAndProcess
  <2> QED
    BY <2>1, MadeOrder DEF InMarket
<1>4. CASE TriggerStop
  <2>1. PICK o \in OrderIds :
          /\ ~ Rests(o) /\ Converted(orders[o]) \in Order
          /\ ~ Converted(orders[o]).book_it /\ process_order(o, Converted(orders[o]))
    BY <1>4, Triggered
  <2>2. ~ InMarket(o)
    BY <2>1, OrdersAssumption DEF InMarket, Rests, process_order
  <2> QED
    BY <2>1, <2>2
<1>5. ASSUME NEW c \in Clients, AddStop(c)
      PROVE  \E o \in OrderIds : \E ord :
               /\ ord # Null => ~ ord.book_it
               /\ orders' = [orders EXCEPT ![o] = ord] /\ ~ InMarket(o) /\ o # taker'
               /\ UNCHANGED << queue, taker, last_price, executed >>
  <2>1. /\ Head(inbox[c]).order_id \in OrderIds /\ ~ Exists(Head(inbox[c]).order_id)
        /\ Head(inbox[c]).order \in Submissions /\ taker = Null
        /\ ~ Rejected(Head(inbox[c]).order)
    BY <1>5, Dequeued DEF AddStop
  <2>2. /\ orders' = [orders EXCEPT ![Head(inbox[c]).order_id] =
                        MakeOrder(Head(inbox[c]).order)]
        /\ UNCHANGED << queue, taker, last_price, executed >>
    BY <1>5 DEF AddStop
  <2>3. ~ InMarket(Head(inbox[c]).order_id) /\ Head(inbox[c]).order_id # taker'
    BY <2>1, <2>2, OrdersAssumption DEF InMarket
  <2> QED
    BY <2>1, <2>2, <2>3, MadeOrder
<1>6. CASE MarkCanceled
  <2>1. PICK x \in OrderIds :
          /\ Exists(x) /\ ~ Rests(x) /\ taker = Null
          /\ orders' = [orders EXCEPT ![x].status = "Canceled"]
          /\ UNCHANGED << queue, taker, last_price, executed >>
    BY <1>6 DEF MarkCanceled, PInv, WorkerOK
  <2> DEFINE ord == [orders[x] EXCEPT !.status = "Canceled"]
  <2>2. ~ ord.book_it
    BY <2>1 DEF Rests, PInv, BooksInv, TypeOK, Exists, Order
  <2>3. orders' = [orders EXCEPT ![x] = ord]
    BY <2>1
  <2>4. ~ InMarket(x) /\ x # taker'
    BY <2>1, OrdersAssumption DEF InMarket, Rests
  <2> QED
    BY <2>1, <2>2, <2>3, <2>4
<1>7. ASSUME ~ MatchStep, ~ TriggerStop, ~ MarkCanceled,
             \A c \in Clients : ~ HandleCancel(c) /\ ~ AddAndProcess(c) /\ ~ AddStop(c)
      PROVE  UNCHANGED << orders, queue, taker, last_price, executed >>
  BY <1>7 DEF ProcessorNext, Work, allVars, marketVars, SubmitOrder, RequestCancel, stop,
     LoopTop, Idle, RejectAdd, AfterAdd, NextLevel, EraseLevel, CancelUnknown
<1> QED
  BY <1>1, <1>2, <1>3, <1>4, <1>5, <1>6, <1>7

LEMMA ProcessorStepImplements ==
  ASSUME PInv, OnTick, [ProcessorNext]_allVars
  PROVE  [Book!BookNext]_(Book!bookVars)
<1>0. BooksInv
  BY DEF PInv
<1>1. CASE ProcessStep
  BY <1>0, <1>1, ProcessImplements
<1>2. CASE \E o \in OrderIds : orders[o] # Null /\ cancel_order(o)
  BY <1>0, <1>2, CancelImplements
<1>3. ASSUME NEW o \in OrderIds, NEW ord \in Order, ~ ord.book_it, ~ InMarket(o),
             process_order(o, ord)
      PROVE  Book!BookNext \/ UNCHANGED Book!bookVars
  BY <1>0, <1>3, EntryImplements
<1>4. ASSUME NEW o \in OrderIds, NEW ord,
             ord # Null => ~ ord.book_it,
             orders' = [orders EXCEPT ![o] = ord], ~ InMarket(o), o # taker',
             UNCHANGED << queue, taker, last_price, executed >>
      PROVE  UNCHANGED Book!bookVars
  <2>1. orders'[o] = ord /\ \A x \in OrderIds : x # o => orders'[x] = orders[x]
    BY <1>0, <1>4 DEF BooksInv, TypeOK
  <2>2. ~ InMarket(o)'
    BY <1>4, <2>1 DEF InMarket, Exists
  <2>3. ASSUME NEW x \in OrderIds
        PROVE  (InMarket(x)' <=> InMarket(x)) /\ (InMarket(x) => orders'[x] = orders[x])
    BY <1>4, <2>1, <2>2 DEF InMarket, Exists
  <2> QED
    BY <1>0, <1>4, <2>3, Unseen
<1>5. CASE UNCHANGED << orders, queue, taker, last_price, executed >>
  BY <1>0, <1>5, Unseen DEF InMarket, Exists
<1> QED
  BY <1>1, <1>2, <1>3, <1>4, <1>5, ProcessorCases

(* A market keeps its promise to its clients also when it is driven by the *)
(* worker: what arrives from the queue or is triggered arrives as any      *)
(* order, and the status that the worker overwrites is nothing a client of *)
(* the book can see.                                                       *)
THEOREM ProcessorKeepsThePromise ==
  ASSUME OnTick
  PROVE  ProcessorSpec => ImplementsBook
<1>1. ProcessorInit => Book!BookInit
  BY StartImplements DEF ProcessorInit
<1>2. PInv /\ [ProcessorNext]_allVars => [Book!BookNext]_(Book!bookVars)
  BY ProcessorStepImplements
<1> QED
  BY <1>1, <1>2, ProcessorInvariance, PTL DEF ProcessorSpec, ImplementsBook, Book!BookSpec

(* Price-time priority among all orders, those triggered by a stop price   *)
(* included.                                                               *)
THEOREM ProcessorTimePriority ==
  ASSUME OnTick
  PROVE  ProcessorSpec => PriceTimePriority
<1>1. PInv /\ [ProcessorNext]_allVars => [FairStep]_marketVars
  <2> SUFFICES ASSUME PInv, [ProcessorNext]_allVars
               PROVE  FairStep
    OBVIOUS
  <2>1. BooksStep
    BY ProcessorCases DEF BooksStep, process_order
  <2> QED
    BY <2>1, StepIsFair DEF PInv
<1> QED
  BY <1>1, ProcessorInvariance, PTL DEF ProcessorSpec, PriceTimePriority, FairStep

-----------------------------------------------------------------------------
(* The publisher's feed.  What the vector of the call under way says about *)
(* the order o, as a trader of either side and as an order reported filled. *)
About(o) == { i \in Trades : o \in {events[i].order_id, events[i].counterparty_id} }
FilledAbout(o) == { j \in DOMAIN events \ Trades : events[j].order_id = o }
TradedIn(o) == SumFunction([i \in About(o) |-> events[i].executed_qty])

Completed(o) == Exists(o) /\ executed[o] = orders[o].quantity /\ o # taker

(* FeedComplete speaks of the moments between calls.  While a call is under *)
(* way its vector makes up for what is not handed on yet, and the taker is *)
(* not reported as filled before the call ends.                            *)
FeedInv ==
  \A o \in OrderIds :
    /\ published[o].traded \in Nat /\ published[o].fills \in Nat
    /\ executed[o] = published[o].traded + (IF taker = Null THEN 0 ELSE TradedIn(o))
    /\ (IF Completed(o) THEN 1 ELSE 0)
         = published[o].fills + (IF taker = Null THEN 0 ELSE Cardinality(FilledAbout(o)))

LEMMA FeedInvCompletes ==
  ASSUME TypeOK, FeedInv
  PROVE  FeedComplete
<1> SUFFICES ASSUME taker = Null, NEW o \in OrderIds
             PROVE  /\ published[o].traded = executed[o]
                    /\ published[o].fills =
                         IF Exists(o) /\ executed[o] = orders[o].quantity THEN 1 ELSE 0
  BY DEF FeedComplete
<1>1. o # taker
  BY OrdersAssumption
<1> QED
  BY <1>1 DEF FeedInv, Completed

LEMMA FeedFinite ==
  ASSUME events \in Seq(MarketEvent), NEW o
  PROVE  /\ IsFiniteSet(About(o)) /\ About(o) \subseteq 1 .. Len(events)
         /\ \A i \in About(o) : events[i].executed_qty \in 0 .. MaxInt
         /\ TradedIn(o) \in Nat
         /\ IsFiniteSet(FilledAbout(o)) /\ FilledAbout(o) \subseteq 1 .. Len(events)
         /\ Cardinality(FilledAbout(o)) \in Nat
<1>1. /\ IsFiniteSet(About(o)) /\ About(o) \subseteq 1 .. Len(events)
      /\ \A i \in About(o) : events[i].executed_qty \in 0 .. MaxInt
  <2>1. About(o) \subseteq Trades
    BY DEF About
  <2> QED
    BY <2>1, TradesFinite, FS_Subset
<1>2. IsFiniteSet(FilledAbout(o)) /\ FilledAbout(o) \subseteq 1 .. Len(events)
  <2>1. Len(events) \in Nat /\ DOMAIN events = 1 .. Len(events)
    BY LenProperties
  <2>2. FilledAbout(o) \subseteq 1 .. Len(events) /\ IsFiniteSet(1 .. Len(events))
    BY <2>1, FS_Interval DEF FilledAbout
  <2> QED
    BY <2>2, FS_Subset
<1>3. TradedIn(o) \in Nat
  <2> DEFINE f == [i \in About(o) |-> events[i].executed_qty]
  <2>1. DOMAIN f = About(o) /\ \A i \in About(o) : f[i] \in 0 .. MaxInt
    BY <1>1
  <2>2. TradedIn(o) = SumFunctionOnSet(f, DOMAIN f)
    BY DEF TradedIn, SumFunction
  <2> HIDE DEF f
  <2> QED
    BY <1>1, <2>1, <2>2, SumNat
<1> QED
  BY <1>1, <1>2, <1>3, FS_CardinalityType

(* The sum stays when the vector says no more about o.                     *)
LEMMA NothingTold ==
  ASSUME events \in Seq(MarketEvent), NEW o,
         About(o)' = About(o), \A i \in About(o) : events'[i] = events[i]
  PROVE  TradedIn(o)' = TradedIn(o)
<1> DEFINE f == [i \in About(o) |-> events[i].executed_qty]
           g == [i \in About(o)' |-> events'[i].executed_qty]
<1>1. /\ DOMAIN f = About(o) /\ DOMAIN g = About(o)
      /\ \A i \in About(o) : f[i] \in 0 .. MaxInt /\ g[i] = f[i]
  BY FeedFinite
<1>2. TradedIn(o) = SumFunctionOnSet(f, DOMAIN f) /\ TradedIn(o)' = SumFunctionOnSet(g, DOMAIN g)
  BY DEF TradedIn, SumFunction
<1> HIDE DEF f, g
<1>3. IsFiniteSet(About(o))
  BY FeedFinite
<1>4. SumFunctionOnSet(g, About(o)) = SumFunctionOnSet(f, About(o))
  BY <1>1, <1>3, SumSame
<1> QED
  BY <1>1, <1>2, <1>4

(* A trade is told to both its orders, and its Filled event to one.        *)
LEMMA TradeTold ==
  ASSUME events \in Seq(MarketEvent), NEW p, NEW m, NEW n \in 0 .. MaxInt,
         TradeAppended(m, p, n), NEW o
  PROVE  /\ TradedIn(o)' = TradedIn(o) + (IF o \in {taker, m} THEN n ELSE 0)
         /\ Cardinality(FilledAbout(o)') =
              Cardinality(FilledAbout(o)) + (IF orders[m].remaining = n /\ o = m THEN 1 ELSE 0)
<1> DEFINE k == Len(events)
           done == orders[m].remaining = n
<1>1. /\ k \in Nat /\ DOMAIN events = 1 .. k
      /\ Trades' = Trades \cup {k + 1}
      /\ \A i \in 1 .. k : events'[i] = events[i]
      /\ events'[k + 1].order_id = taker /\ events'[k + 1].counterparty_id = m
      /\ events'[k + 1].executed_qty = n
      /\ DOMAIN events' \ Trades' =
           (DOMAIN events \ Trades) \cup (IF done THEN {k + 2} ELSE {})
      /\ done => events'[k + 2].order_id = m
  BY DEF TradeAppended, make_trade, make_filled
<1>2. /\ IsFiniteSet(About(o)) /\ About(o) \subseteq 1 .. k
      /\ \A i \in About(o) : events[i].executed_qty \in 0 .. MaxInt
      /\ TradedIn(o) \in Nat
      /\ IsFiniteSet(FilledAbout(o)) /\ FilledAbout(o) \subseteq 1 .. k
      /\ Cardinality(FilledAbout(o)) \in Nat
  BY FeedFinite
<1>3. done \in BOOLEAN /\ Trades \subseteq 1 .. k
  BY TradesFinite
<1> HIDE DEF k, done
<1>4. About(o)' = About(o) \cup (IF o \in {taker, m} THEN {k + 1} ELSE {})
  <2>1. ASSUME NEW i
        PROVE  i \in About(o)' <=> i \in About(o) \/ (o \in {taker, m} /\ i = k + 1)
    <3>1. CASE i \in Trades
      <4>1. events'[i] = events[i] /\ i # k + 1 /\ i \in Trades'
        BY <1>1, <1>3, <3>1
      <4> QED
        BY <3>1, <4>1 DEF About
    <3>2. CASE i = k + 1
      <4>1. i \in Trades' /\ i \notin Trades
        BY <1>1, <1>3, <3>2
      <4> QED
        BY <1>1, <3>2, <4>1 DEF About
    <3>3. CASE i \notin Trades /\ i # k + 1
      BY <1>1, <3>3 DEF About
    <3> QED
      BY <3>1, <3>2, <3>3
  <2> QED
    BY <2>1
<1>5. FilledAbout(o)' = FilledAbout(o) \cup (IF done /\ o = m THEN {k + 2} ELSE {})
  <2>1. ASSUME NEW j
        PROVE  j \in FilledAbout(o)' <=> j \in FilledAbout(o) \/ (done /\ o = m /\ j = k + 2)
    <3>1. CASE j \in DOMAIN events \ Trades
      <4>1. events'[j] = events[j] /\ j # k + 2 /\ j \in DOMAIN events' \ Trades'
        BY <1>1, <3>1
      <4> QED
        BY <3>1, <4>1 DEF FilledAbout
    <3>2. CASE done /\ j = k + 2
      <4>1. j \in DOMAIN events' \ Trades' /\ j \notin DOMAIN events
        BY <1>1, <3>2
      <4> QED
        BY <1>1, <3>2, <4>1 DEF FilledAbout
    <3>3. CASE j \notin DOMAIN events \ Trades /\ ~ (done /\ j = k + 2)
      <4>1. j \notin DOMAIN events' \ Trades'
        BY <1>1, <3>3
      <4> QED
        BY <3>3, <4>1 DEF FilledAbout
    <3> QED
      BY <3>1, <3>2, <3>3
  <2> QED
    BY <2>1
<1>6. TradedIn(o)' = TradedIn(o) + (IF o \in {taker, m} THEN n ELSE 0)
  <2>1. CASE o \in {taker, m}
    <3> DEFINE f == [i \in About(o) |-> events[i].executed_qty]
               g == [i \in About(o)' |-> events'[i].executed_qty]
    <3>1. /\ DOMAIN f = About(o) /\ DOMAIN g = About(o) \cup {k + 1}
          /\ \A i \in About(o) : f[i] \in 0 .. MaxInt /\ g[i] = f[i]
          /\ g[k + 1] = n
      BY <1>1, <1>2, <1>4, <2>1
    <3>2. /\ TradedIn(o) = SumFunctionOnSet(f, DOMAIN f)
          /\ TradedIn(o)' = SumFunctionOnSet(g, DOMAIN g)
      BY DEF TradedIn, SumFunction
    <3> HIDE DEF f, g
    <3>3. k + 1 \notin About(o)
      BY <1>1, <1>2
    <3>4. SumFunctionOnSet(g, About(o) \cup {k + 1}) = SumFunctionOnSet(f, About(o)) + g[k + 1]
      <4>1. g[k + 1] \in 0 .. MaxInt /\ IsFiniteSet(About(o))
        BY <1>2, <3>1
      <4> QED
        BY <3>1, <3>3, <4>1, SumOneMore
    <3> QED
      BY <2>1, <3>1, <3>2, <3>4
  <2>2. CASE o \notin {taker, m}
    <3>1. About(o)' = About(o) /\ \A i \in About(o) : events'[i] = events[i]
      BY <1>1, <1>2, <1>4, <2>2
    <3>2. TradedIn(o)' = TradedIn(o)
      BY <3>1, NothingTold
    <3> QED
      BY <1>2, <2>2, <3>2
  <2> QED
    BY <2>1, <2>2
<1>7. Cardinality(FilledAbout(o)') =
        Cardinality(FilledAbout(o)) + (IF done /\ o = m THEN 1 ELSE 0)
  <2>1. CASE done /\ o = m
    <3>1. k + 2 \notin FilledAbout(o)
      BY <1>1, <1>2
    <3>2. FilledAbout(o)' = FilledAbout(o) \cup {k + 2}
      BY <1>5, <2>1
    <3>3. Cardinality(FilledAbout(o) \cup {k + 2}) = Cardinality(FilledAbout(o)) + 1
      BY <1>2, <3>1, FS_AddElement
    <3> QED
      BY <2>1, <3>2, <3>3
  <2>2. CASE ~ (done /\ o = m)
    <3>1. FilledAbout(o)' = FilledAbout(o)
      BY <1>5, <2>2
    <3> QED
      BY <1>2, <2>2, <3>1
  <2> QED
    BY <2>1, <2>2
<1> QED
  BY <1>6, <1>7 DEF done

(* The end of a call tells of no trade, and of the taker when it is filled. *)
LEMMA FinishTold ==
  ASSUME events \in Seq(MarketEvent), NEW done \in BOOLEAN, FinishAppended(done), NEW o
  PROVE  /\ TradedIn(o)' = TradedIn(o)
         /\ Cardinality(FilledAbout(o)') =
              Cardinality(FilledAbout(o)) + (IF done /\ o = taker THEN 1 ELSE 0)
<1> DEFINE k == Len(events)
<1>0. PICK t : t = taker
  OBVIOUS
<1>1. /\ k \in Nat /\ DOMAIN events = 1 .. k
      /\ Trades' = Trades /\ Trades \subseteq 1 .. k
      /\ \A i \in 1 .. k : events'[i] = events[i]
      /\ DOMAIN events' \ Trades' =
           (DOMAIN events \ Trades) \cup (IF done THEN {k + 1} ELSE {})
      /\ done => events'[k + 1].order_id = t
  BY <1>0 DEF FinishAppended
<1>2. /\ IsFiniteSet(FilledAbout(o)) /\ FilledAbout(o) \subseteq 1 .. k
      /\ Cardinality(FilledAbout(o)) \in Nat
  BY FeedFinite
<1> HIDE DEF k
<1>3. \A i \in Trades : events'[i] = events[i]
  BY <1>1
<1>4. About(o)' = About(o) /\ About(o) \subseteq Trades
  BY <1>1, <1>3 DEF About
<1>5. TradedIn(o)' = TradedIn(o)
  BY <1>3, <1>4, NothingTold
<1>6. FilledAbout(o)' = FilledAbout(o) \cup (IF done /\ o = t THEN {k + 1} ELSE {})
  <2>1. ASSUME NEW j
        PROVE  j \in FilledAbout(o)' <=> j \in FilledAbout(o) \/ (done /\ o = t /\ j = k + 1)
    <3>1. CASE j \in DOMAIN events \ Trades
      <4>1. events'[j] = events[j] /\ j # k + 1 /\ j \in DOMAIN events' \ Trades'
        BY <1>1, <3>1
      <4> QED
        BY <3>1, <4>1 DEF FilledAbout
    <3>2. CASE done /\ j = k + 1
      <4>1. j \in DOMAIN events' \ Trades' /\ j \notin DOMAIN events
        BY <1>1, <3>2
      <4> QED
        BY <1>1, <3>2, <4>1 DEF FilledAbout
    <3>3. CASE j \notin DOMAIN events \ Trades /\ ~ (done /\ j = k + 1)
      <4>1. j \notin DOMAIN events' \ Trades'
        BY <1>1, <3>3
      <4> QED
        BY <3>3, <4>1 DEF FilledAbout
    <3> QED
      BY <3>1, <3>2, <3>3
  <2> QED
    BY <2>1
<1>7. CASE done /\ o = t
  <2>1. k + 1 \notin FilledAbout(o)
    BY <1>1, <1>2
  <2>2. FilledAbout(o)' = FilledAbout(o) \cup {k + 1}
    BY <1>6, <1>7
  <2>3. Cardinality(FilledAbout(o) \cup {k + 1}) = Cardinality(FilledAbout(o)) + 1
    BY <1>2, <2>1, FS_AddElement
  <2> QED
    BY <1>0, <1>5, <1>7, <2>2, <2>3
<1>8. CASE ~ (done /\ o = t)
  <2>1. FilledAbout(o)' = FilledAbout(o)
    BY <1>6, <1>8
  <2> QED
    BY <1>0, <1>2, <1>5, <1>8, <2>1
<1> QED
  BY <1>7, <1>8

LEMMA MatchFeed ==
  ASSUME BooksInv, FeedInv, taker # Null, Match, published' = published
  PROVE  FeedInv'
<1>0. PICK t \in OrderIds : t = taker
  BY DEF BooksInv, TypeOK
<1>1. orders[taker].remaining > 0 /\ taker' = taker
  BY DEF Match, CanMatch
<1>2. PICK s \in Sides : s = Opposite(orders[taker].side)
  BY DEF Opposite, Sides
<1>3. PICK p \in levels[s] : Trade(s, p)
  BY <1>2 DEF Match
<1>4. PICK m, n : TradeFacts(s, p, m, n)
  BY <1>1, <1>2, <1>3, TradeEffect
<1>5. p \in Prices
  BY DEF BooksInv, TypeOK
<1>6. TradeAppended(m, p, n)
  BY <1>4, <1>5, TradeAppends
<1>7. /\ m \in OrderIds /\ m # t /\ Rests(m) /\ n \in 0 .. MaxInt /\ n > 0
      /\ orders[m] \in Order /\ orders[m] # Null
      /\ orders'[m] # Null /\ orders'[m].quantity = orders[m].quantity
      /\ executed'[m] = executed[m] + n /\ executed'[t] = executed[t] + n
      /\ \A o \in OrderIds \ {m, t} : orders'[o] = orders[o] /\ executed'[o] = executed[o]
  <2>1. n \in Int /\ 0 < n /\ n <= MaxInt
    BY <1>4 DEF TradeFacts
  <2>2. n \in 0 .. MaxInt
    BY <2>1, OrdersAssumption
  <2> QED
    BY <1>0, <1>4, <2>1, <2>2, NullAssumption DEF TradeFacts
<1>8. events \in Seq(MarketEvent) /\ \A o \in OrderIds : executed[o] \in Nat
  BY OrdersAssumption DEF BooksInv, TypeOK
<1>9. ~ Completed(m) /\ (Completed(m)' <=> orders[m].remaining = n)
  <2>1. orders[m].remaining > 0 /\ orders[m].status # "Canceled"
    BY <1>7, RestsLive
  <2>2. executed[m] + orders[m].remaining = orders[m].quantity
    BY <1>7, <2>1 DEF BooksInv, Accounting, Exists
  <2>3. orders[m].remaining \in Int /\ orders[m].quantity \in Int
    BY <1>7, OrdersAssumption DEF Order
  <2>4. executed[m] # orders[m].quantity
    BY <1>7, <1>8, <2>1, <2>2, <2>3
  <2>5. executed'[m] = orders'[m].quantity <=> orders[m].remaining = n
    BY <1>7, <1>8, <2>2, <2>3
  <2> QED
    BY <1>0, <1>1, <1>7, <2>4, <2>5 DEF Completed, Exists
<1>10. ASSUME NEW o \in OrderIds
       PROVE  /\ TradedIn(o) \in Nat /\ Cardinality(FilledAbout(o)) \in Nat
              /\ TradedIn(o)' = TradedIn(o) + (IF o \in {t, m} THEN n ELSE 0)
              /\ Cardinality(FilledAbout(o)') =
                   Cardinality(FilledAbout(o))
                   + (IF orders[m].remaining = n /\ o = m THEN 1 ELSE 0)
  BY <1>0, <1>6, <1>7, <1>8, FeedFinite, TradeTold
<1> SUFFICES ASSUME NEW o \in OrderIds
             PROVE  /\ published[o].traded \in Nat /\ published[o].fills \in Nat
                    /\ executed'[o] = published[o].traded + TradedIn(o)'
                    /\ (IF Completed(o)' THEN 1 ELSE 0)
                         = published[o].fills + Cardinality(FilledAbout(o)')
  BY <1>1 DEF FeedInv
<1>11. /\ published[o].traded \in Nat /\ published[o].fills \in Nat
       /\ executed[o] = published[o].traded + TradedIn(o)
       /\ (IF Completed(o) THEN 1 ELSE 0) = published[o].fills + Cardinality(FilledAbout(o))
  BY DEF FeedInv
<1>12. CASE o = m
  BY <1>7, <1>9, <1>10, <1>11, <1>12
<1>13. CASE o # m
  <2>1. Completed(o)' <=> Completed(o)
    BY <1>0, <1>1, <1>7, <1>13 DEF Completed, Exists
  <2>2. executed'[o] = executed[o] + (IF o \in {t, m} THEN n ELSE 0)
    BY <1>7, <1>8, <1>13
  <2> QED
    BY <1>7, <1>10, <1>11, <1>13, <2>1, <2>2
<1> QED
  BY <1>12, <1>13

(* What run() hands to the publisher when a call returns.                  *)
LEMMA HandedOn ==
  ASSUME events' \in Seq(MarketEvent), NEW o
  PROVE  TradesOf(o) = About(o)' /\ FillsOf(o) = FilledAbout(o)'
<1>1. ASSUME NEW i \in DOMAIN events'
      PROVE  events'[i].type = "FilledOrder" <=> events'[i].type # "Trade"
  <2>1. events'[i] \in MarketEvent
    BY ElementOfSeq, LenProperties
  <2> QED
    BY <2>1 DEF MarketEvent
<1>2. Trades' = { i \in DOMAIN events' : events'[i].type = "Trade" }
  BY DEF Trades
<1> QED
  BY <1>1, <1>2 DEF TradesOf, FillsOf, About, FilledAbout

LEMMA FinishFeed ==
  ASSUME BooksInv, events' \in Seq(MarketEvent), FeedInv, taker # Null,
         NEW status \in {"New", "PartiallyFilled", "Filled"}, NEW rests \in BOOLEAN,
         Finish(status, rests), status = "Filled" <=> orders[taker].remaining = 0,
         published' = Published
  PROVE  FeedInv'
<1> DEFINE done == status = "Filled"
           ord == [orders[taker] EXCEPT !.status = status, !.book_it = @ \/ rests]
<1>0. PICK t \in OrderIds : t = taker
  BY DEF BooksInv, TypeOK
<1>1. taker' = Null /\ executed' = executed /\ orders' = [orders EXCEPT ![taker] = ord]
  BY DEF Finish
<1>2. /\ events \in Seq(MarketEvent) /\ orders[t] \in Order /\ orders[t] # Null
      /\ \A o \in OrderIds : executed[o] \in Nat
      /\ executed[t] + orders[t].remaining = orders[t].quantity
      /\ orders[t].remaining \in Int /\ orders[t].quantity \in Int
  <2>1. orders[t] \in Order /\ orders[t] # Null
    BY <1>0 DEF BooksInv, TypeOK, CallOK, Exists
  <2>2. orders[t].remaining \in Int /\ orders[t].quantity \in Int
    BY <2>1, OrdersAssumption DEF Order
  <2> QED
    BY <1>0, <2>1, <2>2, OrdersAssumption DEF BooksInv, TypeOK, CallOK
<1>3. ord \in Order /\ ord.quantity = orders[t].quantity
  BY <1>0, <1>2 DEF Order, OrderStatuses
<1>4. done \in BOOLEAN /\ (done <=> orders[t].remaining = 0)
  BY <1>0
<1>5. FinishAppended(done)
  BY <1>0, <1>2, FinishAppends
<1> HIDE DEF done, ord
<1>6. /\ orders'[t] # Null /\ orders'[t].quantity = orders[t].quantity
      /\ \A o \in OrderIds : o # t => orders'[o] = orders[o]
  BY <1>0, <1>1, <1>3, OrderExcept, NullAssumption DEF BooksInv
<1> SUFFICES ASSUME NEW o \in OrderIds
             PROVE  /\ published'[o].traded \in Nat /\ published'[o].fills \in Nat
                    /\ executed'[o] = published'[o].traded + 0
                    /\ (IF Completed(o)' THEN 1 ELSE 0) = published'[o].fills + 0
  BY <1>1 DEF FeedInv
<1>7. /\ TradedIn(o) \in Nat /\ Cardinality(FilledAbout(o)) \in Nat
      /\ TradedIn(o)' = TradedIn(o)
      /\ Cardinality(FilledAbout(o)') =
           Cardinality(FilledAbout(o)) + (IF done /\ o = t THEN 1 ELSE 0)
  BY <1>0, <1>2, <1>4, <1>5, FeedFinite, FinishTold
<1>8. /\ published[o].traded \in Nat /\ published[o].fills \in Nat
      /\ executed[o] = published[o].traded + TradedIn(o)
      /\ (IF Completed(o) THEN 1 ELSE 0) = published[o].fills + Cardinality(FilledAbout(o))
  BY DEF FeedInv
<1>9. /\ published'[o].traded = published[o].traded + TradedIn(o)'
      /\ published'[o].fills = published[o].fills + Cardinality(FilledAbout(o)')
  <2>1. TradesOf(o) = About(o)' /\ FillsOf(o) = FilledAbout(o)'
    BY HandedOn
  <2>2. /\ published'[o].traded = published[o].traded
              + SumFunction([i \in TradesOf(o) |-> events'[i].executed_qty])
        /\ published'[o].fills = published[o].fills + Cardinality(FillsOf(o))
    BY DEF Published
  <2> QED
    BY <2>1, <2>2 DEF TradedIn
<1>10. Completed(o)' <=> Exists(o)' /\ executed[o] = orders'[o].quantity
  BY <1>1, OrdersAssumption DEF Completed
<1>11. published'[o].traded \in Nat /\ executed'[o] = published'[o].traded
  BY <1>1, <1>7, <1>8, <1>9
<1>12. (IF Completed(o)' THEN 1 ELSE 0) = published'[o].fills
  <2>1. CASE o = t
    <3>1. ~ Completed(o)
      BY <1>0, <2>1 DEF Completed
    <3>2. published[o].fills = 0 /\ Cardinality(FilledAbout(o)) = 0
      BY <1>7, <1>8, <3>1
    <3>3. Completed(o)' <=> done
      BY <1>2, <1>4, <1>6, <1>10, <2>1 DEF Exists
    <3>4. published'[o].fills = IF done THEN 1 ELSE 0
      BY <1>7, <1>9, <2>1, <3>2
    <3> QED
      BY <3>3, <3>4
  <2>2. CASE o # t
    <3>1. Completed(o)' <=> Completed(o)
      BY <1>0, <1>6, <1>10, <2>2 DEF Completed, Exists
    <3>2. published'[o].fills = published[o].fills + Cardinality(FilledAbout(o))
      BY <1>7, <1>9, <2>2
    <3> QED
      BY <1>8, <3>1, <3>2
  <2> QED
    BY <2>1, <2>2
<1>13. published'[o].fills \in Nat
  BY <1>12
<1> QED
  BY <1>11, <1>12, <1>13

(* An order object enters the market; a call for it may begin.             *)
LEMMA EntryFeed ==
  ASSUME BooksInv, FeedInv, NEW o \in OrderIds, NEW ord \in Order, executed[o] = 0,
         process_order(o, ord), published' = published
  PROVE  FeedInv'
<1>1. /\ taker = Null /\ taker' \in {Null, o}
      /\ orders' = [orders EXCEPT ![o] = ord]
      /\ events' = <<>> /\ executed' = executed
  BY DEF process_order
<1>2. /\ orders'[o] = ord
      /\ \A x \in OrderIds : x # o => orders'[x] = orders[x]
  BY <1>1, OrderExcept DEF BooksInv
<1>3. ~ Completed(o) /\ ~ Completed(o)'
  <2>1. orders[o] # Null => orders[o].quantity # 0
    BY OrdersAssumption DEF BooksInv, TypeOK, Order
  <2>2. ord.quantity # 0
    BY OrdersAssumption DEF Order
  <2> QED
    BY <1>1, <1>2, <2>1, <2>2 DEF Completed, Exists
<1>4. ASSUME NEW x \in OrderIds
      PROVE  Completed(x)' <=> Completed(x)
  BY <1>1, <1>2, <1>3, OrdersAssumption DEF Completed, Exists
<1>5. ASSUME NEW x \in OrderIds
      PROVE  TradedIn(x)' = 0 /\ Cardinality(FilledAbout(x)') = 0
  <2>1. DOMAIN events' = {}
    BY <1>1, EmptySeq
  <2>2. About(x)' = {} /\ FilledAbout(x)' = {}
    BY <2>1 DEF About, FilledAbout, Trades
  <2> DEFINE f == [i \in About(x)' |-> events'[i].executed_qty]
  <2>3. DOMAIN f = {}
    BY <2>2
  <2>4. TradedIn(x)' = SumFunctionOnSet(f, DOMAIN f)
    BY DEF TradedIn, SumFunction
  <2> HIDE DEF f
  <2> QED
    BY <2>2, <2>3, <2>4, SumNothing, FS_EmptySet
<1> SUFFICES ASSUME NEW x \in OrderIds
             PROVE  /\ published[x].traded \in Nat /\ published[x].fills \in Nat
                    /\ executed[x] = published[x].traded + 0
                    /\ (IF Completed(x) THEN 1 ELSE 0) = published[x].fills + 0
  BY <1>1, <1>4, <1>5 DEF FeedInv
<1> QED
  BY <1>1 DEF FeedInv

(* Between calls orders are added to the stop orders, marked and canceled. *)
LEMMA IdleFeed ==
  ASSUME FeedInv, taker = Null, taker' = Null, UNCHANGED << executed, published >>,
         \A o \in OrderIds : Completed(o)' <=> Completed(o)
  PROVE  FeedInv'
BY DEF FeedInv

(* An order that keeps its quantity.                                       *)
LEMMA SameQuantity ==
  ASSUME TypeOK, taker = Null, taker' = Null, executed' = executed, NEW x \in OrderIds,
         Exists(x), NEW ord \in Order, ord.quantity = orders[x].quantity,
         orders' = [orders EXCEPT ![x] = ord]
  PROVE  \A o \in OrderIds : Completed(o)' <=> Completed(o)
<1>1. /\ orders'[x] = ord /\ ord # Null
      /\ \A o \in OrderIds : o # x => orders'[o] = orders[o]
  BY OrderExcept, NullAssumption
<1> QED
  BY <1>1 DEF Completed, Exists

LEMMA FeedStep ==
  ASSUME PInv, FeedInv, OnTick, [ProcessorNext]_allVars
  PROVE  FeedInv'
<1>1. BooksInv /\ TypeOK
  BY DEF PInv, BooksInv
<1>2. CASE UNCHANGED << orders, taker, events, executed, published >>
  <2>1. \A o \in OrderIds : Completed(o)' <=> Completed(o)
    BY <1>2 DEF Completed, Exists
  <2>2. Trades' = Trades
    BY <1>2 DEF Trades
  <2>3. ASSUME NEW o \in OrderIds
        PROVE  TradedIn(o)' = TradedIn(o) /\ FilledAbout(o)' = FilledAbout(o)
    BY <1>2, <2>2 DEF TradedIn, About, FilledAbout
  <2> QED
    BY <1>2, <2>1, <2>3 DEF FeedInv
<1>3. CASE MatchStep
  <2>1. /\ ProcessStep
        /\ published' = IF taker' = Null THEN Published ELSE published
    BY <1>3 DEF MatchStep, ProcessStep
  <2>2. taker # Null
    BY <1>1, <2>1, ProcessCases
  <2>3. CASE Match
    <3>1. taker' # Null
      BY <2>2, <2>3 DEF Match
    <3> QED
      BY <1>1, <2>1, <2>2, <2>3, <3>1, MatchFeed
  <2>4. ASSUME NEW status \in {"New", "PartiallyFilled", "Filled"}, NEW rests \in BOOLEAN,
               Finish(status, rests), status = "Filled" <=> orders[taker].remaining = 0
        PROVE  FeedInv'
    <3>1. taker' = Null
      BY <2>4 DEF Finish
    <3>2. events' \in Seq(MarketEvent)
      BY <1>1, <2>1, ProcessBooks DEF BooksInv, TypeOK
    <3> QED
      BY <1>1, <2>1, <2>2, <2>4, <3>1, <3>2, FinishFeed
  <2> QED
    BY <1>1, <2>1, <2>3, <2>4, ProcessCases
<1>4. ASSUME NEW c \in Clients, HandleCancel(c)
      PROVE  FeedInv'
  <2>1. PICK x \in OrderIds : Exists(x) /\ cancel_order(x)
    BY <1>4, Dequeued DEF HandleCancel
  <2>2. taker = Null /\ taker' = Null /\ executed' = executed /\ published' = published
    BY <1>4, <2>1 DEF cancel_order, HandleCancel
  <2>3. CASE orders' = orders
    BY <2>2, <2>3, IdleFeed DEF Completed, Exists
  <2>4. CASE orders' # orders
    <3> DEFINE ord == [orders[x] EXCEPT !.status = "Canceled", !.book_it = FALSE,
                                        !.remaining = 0]
    <3>1. orders' = [orders EXCEPT ![x] = ord]
      BY <2>1, <2>4 DEF cancel_order
    <3>2. ord \in Order /\ ord.quantity = orders[x].quantity
      <4>1. orders[x] \in Order /\ "Canceled" \in OrderStatuses /\ 0 \in 0 .. MaxInt
        BY <1>1, <2>1, OrdersAssumption DEF TypeOK, Exists, OrderStatuses
      <4> QED
        BY <4>1 DEF Order
    <3> HIDE DEF ord
    <3> QED
      BY <1>1, <2>1, <2>2, <3>1, <3>2, SameQuantity, IdleFeed
  <2> QED
    BY <2>3, <2>4
<1>5. ASSUME NEW c \in Clients, AddAndProcess(c)
      PROVE  FeedInv'
  <2>1. PICK o \in OrderIds : o = Head(inbox[c]).order_id /\ ~ Exists(o)
    BY <1>5, Dequeued DEF AddAndProcess
  <2>2. PICK r \in Submissions : r = Head(inbox[c]).order /\ ~ Rejected(r)
    BY <1>5, Dequeued DEF AddAndProcess
  <2>3. process_order(o, MakeOrder(r)) /\ published' = published
    BY <1>5, <2>1, <2>2 DEF AddAndProcess
  <2>4. MakeOrder(r) \in Order
    BY <2>2, MadeOrder
  <2>5. executed[o] = 0
    BY <1>1, <2>1 DEF BooksInv, Accounting
  <2> QED
    BY <1>1, <2>3, <2>4, <2>5, EntryFeed
<1>6. ASSUME NEW c \in Clients, AddStop(c)
      PROVE  FeedInv'
  <2>1. PICK o \in OrderIds : o = Head(inbox[c]).order_id /\ ~ Exists(o) /\ taker = Null
    BY <1>6, Dequeued DEF AddStop
  <2>2. PICK r \in Submissions : r = Head(inbox[c]).order /\ ~ Rejected(r)
    BY <1>6, Dequeued DEF AddStop
  <2>3. /\ orders' = [orders EXCEPT ![o] = MakeOrder(r)]
        /\ UNCHANGED << taker, executed, published >>
    BY <1>6, <2>1, <2>2 DEF AddStop
  <2>4. MakeOrder(r) \in Order
    BY <2>2, MadeOrder
  <2> DEFINE ord == MakeOrder(r)
  <2> HIDE DEF ord
  <2>5. /\ orders'[o] = ord /\ ord.quantity # 0
        /\ \A x \in OrderIds : x # o => orders'[x] = orders[x]
    <3>1. ord.quantity # 0
      BY <2>4, OrdersAssumption DEF Order, ord
    <3> QED
      BY <1>1, <2>3, <2>4, <3>1, OrderExcept DEF ord
  <2>6. executed[o] = 0
    BY <1>1, <2>1 DEF BooksInv, Accounting
  <2>7. \A x \in OrderIds : Completed(x)' <=> Completed(x)
    BY <2>1, <2>3, <2>5, <2>6 DEF Completed, Exists
  <2> QED
    BY <2>1, <2>3, <2>7, IdleFeed
<1>7. CASE TriggerStop
  <2>1. PICK o \in OrderIds :
          /\ Converted(orders[o]) \in Order /\ executed[o] = 0
          /\ process_order(o, Converted(orders[o]))
    BY <1>7, Triggered
  <2>2. published' = published
    BY <1>7 DEF TriggerStop
  <2>3. PICK ord \in Order : ord = Converted(orders[o])
    BY <2>1
  <2> QED
    BY <1>1, <2>1, <2>2, <2>3, EntryFeed
<1>8. CASE MarkCanceled
  <2>1. PICK x \in OrderIds :
          /\ x = canceling /\ Exists(x) /\ taker = Null
          /\ orders' = [orders EXCEPT ![x].status = "Canceled"]
          /\ UNCHANGED << taker, executed, published >>
    BY <1>8 DEF MarkCanceled, PInv, WorkerOK
  <2> DEFINE ord == [orders[x] EXCEPT !.status = "Canceled"]
  <2>2. ord \in Order /\ ord.quantity = orders[x].quantity
    <3>1. orders[x] \in Order /\ "Canceled" \in OrderStatuses
      BY <1>1, <2>1 DEF TypeOK, Exists, OrderStatuses
    <3> QED
      BY <3>1 DEF Order
  <2>3. orders' = [orders EXCEPT ![x] = ord]
    BY <2>1
  <2> HIDE DEF ord
  <2> QED
    BY <1>1, <2>1, <2>2, <2>3, SameQuantity, IdleFeed
<1>9. ASSUME ~ MatchStep, ~ TriggerStop, ~ MarkCanceled,
             \A c \in Clients : ~ HandleCancel(c) /\ ~ AddAndProcess(c) /\ ~ AddStop(c)
      PROVE  UNCHANGED << orders, taker, events, executed, published >>
  BY <1>9 DEF ProcessorNext, Work, allVars, marketVars, processorVars, SubmitOrder,
     RequestCancel, stop, LoopTop, Idle, RejectAdd, AfterAdd, NextLevel, EraseLevel,
     CancelUnknown
<1> QED
  BY <1>2, <1>3, <1>4, <1>5, <1>6, <1>7, <1>8, <1>9

(* The events the worker hands to the publisher account for every fill of  *)
(* every order, the takers' and the resting orders', and say once of each  *)
(* order that trades completed that it is filled: nothing is lost or told  *)
(* twice over orders of several calls, cancels and triggered stops.        *)
THEOREM FeedIsComplete ==
  ASSUME OnTick
  PROVE  ProcessorSpec => []FeedComplete
<1>1. ProcessorInit => FeedInv
  <2> SUFFICES ASSUME ProcessorInit PROVE FeedInv
    OBVIOUS
  <2>1. taker = Null
    BY DEF ProcessorInit, MarketInit
  <2>2. \A o \in OrderIds : executed[o] = 0 /\ ~ Completed(o)
    BY DEF ProcessorInit, MarketInit, Completed, Exists
  <2>3. ASSUME NEW o \in OrderIds
        PROVE  published[o].traded = 0 /\ published[o].fills = 0
    BY DEF ProcessorInit
  <2>4. ASSUME NEW o \in OrderIds
        PROVE  /\ published[o].traded \in Nat /\ published[o].fills \in Nat
               /\ executed[o] = published[o].traded + 0
               /\ (IF Completed(o) THEN 1 ELSE 0) = published[o].fills + 0
    BY <2>2, <2>3
  <2> QED
    BY <2>1, <2>4 DEF FeedInv
<1>2. PInv /\ FeedInv /\ [ProcessorNext]_allVars => FeedInv'
  BY FeedStep
<1>3. PInv /\ FeedInv => FeedComplete
  BY FeedInvCompletes DEF PInv, BooksInv
<1> QED
  BY <1>1, <1>2, <1>3, ProcessorInvariance, PTL DEF ProcessorSpec
=============================================================================
