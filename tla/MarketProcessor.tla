-------------------------- MODULE MarketProcessor --------------------------
(***************************************************************************)
(* MarketProcessor: the thread that owns one market (MarketProcessor.cpp). *)
(*                                                                         *)
(* Clients enqueue AddOrder and CancelOrder events; the worker dequeues    *)
(* one at a time and handles it, which includes the stop orders that a     *)
(* trade triggers.  An exception of a handler is caught by run() and ends  *)
(* the handling of that event where it is.                                 *)
(*                                                                         *)
(* The queue is moodycamel::ConcurrentQueue: events of one thread come out *)
(* in the order they went in, events of different threads in any order.    *)
(***************************************************************************)
EXTENDS Market

CONSTANTS
  Clients,      \* the threads that call MatchingEngine
  Submissions,  \* the arguments a client may give to submit_order
  MaxPending,   \* bound: events waiting in the queue
  MaxCancels    \* bound: cancel requests in a behaviour

\* The arguments of submit_order have their types; nothing else is checked
\* before the event is handled.
ASSUME ProcessorAssumption ==
  /\ Submissions \subseteq
       [ type : OrderTypes, quantity : -(MaxInt + 1) .. MaxInt,
         price : Prices \cup {Null}, stop_price : Prices \cup {Null},
         side : Sides, tif : TimesInForce ]
  /\ MaxPending \in Nat /\ MaxCancels \in Nat

VARIABLES
  inbox,        \* [Clients -> Seq(Event)]: the queue, one part per producer
  submitted,    \* the ids handed out by generate_order_id
  cancels,      \* number of cancel requests made
  running,
  worker,       \* where the worker thread is
  canceling,    \* the order a cancel event names, while worker = "marking"
  prevltp,      \* prevltp of handle_event, 0 outside
  stop_orders,  \* [Sides -> [Prices -> Seq(OrderIds)]]: the two maps of lists
  check,        \* the locals of check_stop_orders
  published,    \* history: per order, what was handed to the publisher
  reached       \* history: stop orders whose price a later trade has reached

processorVars == << inbox, submitted, cancels, running, worker, canceling,
                    prevltp, stop_orders, check, published, reached >>

allVars == << marketVars, processorVars >>

Event ==
  [ type : {"AddOrder"}, order_id : OrderIds, order : Submissions ]
  \cup [ type : {"CancelOrder"}, order_id : OrderIds ]

WorkerStates == {"loop", "dequeue", "adding", "stops", "marking", "exited"}

\* The side whose map is walked, the level price_level points at (Null at the
\* head of the while loop), the position in its list, and the captured price.
NoCheck == [ side |-> "Buy", level |-> Null, next |-> 1, ltp |-> Null ]

-----------------------------------------------------------------------------
(* Clients. *)

submit_event(c, ev) ==
  /\ FoldFunction(LAMBDA q, n : Len(q) + n, 0, inbox) < MaxPending
  /\ inbox' = [inbox EXCEPT ![c] = Append(@, ev)]

\* MatchingEngine::submit_order: the event carries a fresh id.
SubmitOrder(c, o, r) ==
  /\ o \notin submitted
  /\ submit_event(c, [type |-> "AddOrder", order_id |-> o, order |-> r])
  /\ submitted' = submitted \cup {o}
  /\ UNCHANGED << marketVars, cancels, running, worker, canceling, prevltp,
                  stop_orders, check, published, reached >>

\* MatchingEngine::cancel_order: any client that knows the id may ask.
RequestCancel(c, o) ==
  /\ o \in submitted
  /\ cancels < MaxCancels
  /\ submit_event(c, [type |-> "CancelOrder", order_id |-> o])
  /\ cancels' = cancels + 1
  /\ UNCHANGED << marketVars, submitted, running, worker, canceling, prevltp,
                  stop_orders, check, published, reached >>

stop ==
  /\ running
  /\ running' = FALSE
  /\ UNCHANGED << marketVars, inbox, submitted, cancels, worker, canceling,
                  prevltp, stop_orders, check, published, reached >>

-----------------------------------------------------------------------------
(* The loop of run(). *)

LoopTop ==
  /\ ~ crashed
  /\ worker = "loop"
  /\ worker' = IF running THEN "dequeue" ELSE "exited"
  /\ UNCHANGED << marketVars, inbox, submitted, cancels, running, canceling,
                  prevltp, stop_orders, check, published, reached >>

QueueEmpty == \A c \in Clients : inbox[c] = <<>>

\* Mutant: wait_dequeue, which blocks while the queue is empty.
IdleBlocked ==
  /\ worker = "dequeue" /\ QueueEmpty
  /\ UNCHANGED allVars

\* try_dequeue finds nothing: sleep and look again.
Idle ==
  /\ ~ crashed
  /\ worker = "dequeue" /\ QueueEmpty
  /\ worker' = "loop"
  /\ UNCHANGED << marketVars, inbox, submitted, cancels, running, canceling,
                  prevltp, stop_orders, check, published, reached >>

\* try_dequeue takes the oldest event of some producer.
Dequeue(c, type) ==
  /\ ~ crashed
  /\ worker = "dequeue"
  /\ inbox[c] # <<>>
  /\ Head(inbox[c]).type = type
  /\ inbox' = [inbox EXCEPT ![c] = Tail(@)]

-----------------------------------------------------------------------------
(* handle_event: AddOrder. *)

\* order_type.value() and the factory it selects.
MakeOrder(r) ==
  CASE r.type = "Limit"     -> make_limit_order(r.quantity, r.price, r.side, r.tif)
    [] r.type = "Market"    -> make_market_order(r.quantity, r.side, r.tif)
    [] r.type = "Stop"      -> make_stop_order(r.quantity, r.stop_price, r.side, r.tif)
    [] r.type = "StopLimit" ->
         make_stop_limit_order(r.quantity, r.price, r.stop_price, r.side, r.tif)

\* price.value() or stop_price.value() throws, or the factory does.
Rejected(r) ==
  \/ r.type \in {"Limit", "StopLimit"} /\ r.price = Null
  \/ r.type \in {"Stop", "StopLimit"} /\ r.stop_price = Null
  \/ ~ validate(MakeOrder(r))

IsStop(ord) == ord.type \in {"Stop", "StopLimit"}

\* last_price.value_or(0.0)
LastPriceOrZero == IF last_price = Null THEN 0 ELSE last_price

\* Mutant: the exception ends the thread.
RejectAndDie(c) ==
  /\ Dequeue(c, "AddOrder")
  /\ Rejected(Head(inbox[c]).order)
  /\ worker' = "exited"
  /\ UNCHANGED << marketVars, submitted, cancels, running, canceling, prevltp,
                  stop_orders, check, published, reached >>

RejectAdd(c) ==
  /\ Dequeue(c, "AddOrder")
  /\ Rejected(Head(inbox[c]).order)
  /\ worker' = "loop"
  /\ UNCHANGED << marketVars, submitted, cancels, running, canceling, prevltp,
                  stop_orders, check, published, reached >>

\* A stop order goes to the back of its list; nothing is matched.
AddStop(c) ==
  /\ Dequeue(c, "AddOrder")
  /\ ~ Rejected(Head(inbox[c]).order)
  /\ LET o   == Head(inbox[c]).order_id
         ord == MakeOrder(Head(inbox[c]).order)
     IN /\ IsStop(ord)
        /\ orders' = [orders EXCEPT ![o] = ord]
        /\ stop_orders' = [stop_orders EXCEPT
                             ![ord.side][ord.stop_price] = Append(@, o)]
  /\ worker' = "loop"
  /\ UNCHANGED << levels, queue, last_price, is_active, taker, events, crashed,
                  executed, submitted, cancels, running, canceling, prevltp,
                  check, published, reached >>

\* process_order is entered, or throws.
AddAndProcess(c) ==
  /\ Dequeue(c, "AddOrder")
  /\ ~ Rejected(Head(inbox[c]).order)
  /\ LET o   == Head(inbox[c]).order_id
         ord == MakeOrder(Head(inbox[c]).order)
     IN /\ ~ IsStop(ord)
        /\ process_order(o, ord)
        /\ worker' = IF Throws(ord) THEN "loop" ELSE "adding"
        /\ prevltp' = IF Throws(ord) THEN 0 ELSE LastPriceOrZero
  /\ UNCHANGED << submitted, cancels, running, canceling, stop_orders, check,
                  published, reached >>

\* Mutant: only the order that came in is told of its trades.
TradesTakenBy(o) ==
  { i \in DOMAIN events' : events'[i].type = "Trade" /\ events'[i].order_id = o }

\* The Trade events of a returned vector that are about o, and the Filled ones.
TradesOf(o) ==
  { i \in DOMAIN events' :
      /\ events'[i].type = "Trade"
      /\ o \in { events'[i].order_id, events'[i].counterparty_id } }

FillsOf(o) ==
  { i \in DOMAIN events' :
      events'[i].type = "FilledOrder" /\ events'[i].order_id = o }

\* handle_market_events(events), when process_order returns.
Published ==
  [ o \in OrderIds |->
      [ traded |-> published[o].traded
                   + SumFunction([i \in TradesOf(o) |-> events'[i].executed_qty]),
        fills  |-> published[o].fills + Cardinality(FillsOf(o)) ] ]

\* Whether a trade at price p reaches the stop price of ord.
StopReached(ord, p) ==
  IF ord.side = "Buy" THEN p >= ord.stop_price ELSE p <= ord.stop_price

Waiting(o) == Exists(o) /\ IsStop(orders[o])

\* One step of a process_order call made by the worker.
MatchStep ==
  /\ worker \in {"adding", "stops"}
  /\ \/ process_limit_buy_order
     \/ process_limit_sell_order
     \/ process_market_buy_order
     \/ process_market_sell_order
  /\ published' = IF taker' = Null THEN Published ELSE published
  /\ reached' = IF taker' = Null THEN reached
                ELSE reached \cup
                     { o \in OrderIds : Waiting(o) /\ StopReached(orders[o], last_price') }
  /\ UNCHANGED << inbox, submitted, cancels, running, worker, canceling, prevltp,
                  stop_orders, check >>

\* Back in handle_event: check the stop orders if the last price has changed.
AfterAdd ==
  /\ ~ crashed
  /\ worker = "adding" /\ taker = Null
  /\ IF LastPriceOrZero # prevltp
     THEN worker' = "stops" /\ check' = [NoCheck EXCEPT !.ltp = last_price]
     ELSE worker' = "loop" /\ UNCHANGED check
  /\ prevltp' = 0
  /\ UNCHANGED << marketVars, inbox, submitted, cancels, running, canceling,
                  stop_orders, published, reached >>

-----------------------------------------------------------------------------
(* check_stop_orders.  Both maps are ordered like the book of their side:  *)
(* std::greater for buys, std::less for sells.                             *)

\* Mutant: the level is entered whatever its price.
FirstLevel(side) ==
  { p \in Prices :
      /\ stop_orders[side][p] # <<>>
      /\ \A q \in Prices : stop_orders[side][q] # <<>> => ~ Better(side, q, p) }

\* begin() of the map, if its price passes the test of the while loop.
TriggeredLevel(side) ==
  { p \in Prices :
      /\ stop_orders[side][p] # <<>>
      /\ \A q \in Prices : stop_orders[side][q] # <<>> => ~ Better(side, q, p)
      /\ IF side = "Buy" THEN check.ltp >= p ELSE check.ltp <= p }

Checking == ~ crashed /\ worker = "stops" /\ taker = Null

\* The head of a while loop: enter a level, go on to the sell side, or return.
NextLevel ==
  /\ Checking
  /\ check.level = Null
  /\ IF TriggeredLevel(check.side) # {}
     THEN /\ \E p \in TriggeredLevel(check.side) :
               check' = [check EXCEPT !.level = p, !.next = 1]
          /\ UNCHANGED worker
     ELSE IF check.side = "Buy"
     THEN check' = [check EXCEPT !.side = "Sell"] /\ UNCHANGED worker
     ELSE check' = NoCheck /\ worker' = "loop"
  /\ UNCHANGED << marketVars, inbox, submitted, cancels, running, canceling,
                  prevltp, stop_orders, published, reached >>

\* The type the order at hand gets before it is processed.
Converted(ord) ==
  [ord EXCEPT !.type = IF ord.type = "Stop" THEN "Market" ELSE "Limit"]

\* The next order of the level is processed.  An exception leaves the level in
\* the map, and the order with its new type in the level.
TriggerStop ==
  /\ Checking
  /\ check.level # Null
  /\ LET list == stop_orders[check.side][check.level]
         o    == list[check.next]
         ord  == Converted(orders[o])
     IN /\ check.next <= Len(list)
        /\ process_order(o, ord)
        /\ IF Throws(ord)
           THEN worker' = "loop" /\ check' = NoCheck
           ELSE UNCHANGED worker /\ check' = [check EXCEPT !.next = @ + 1]
  /\ UNCHANGED << inbox, submitted, cancels, running, canceling, prevltp,
                  stop_orders, published, reached >>

\* Mutant: the level stays in the map.
LeaveLevel ==
  /\ Checking
  /\ check.level # Null
  /\ check.next > Len(stop_orders[check.side][check.level])
  /\ check' = [check EXCEPT !.level = Null, !.next = 1]
  /\ UNCHANGED << marketVars, inbox, submitted, cancels, running, worker,
                  canceling, prevltp, stop_orders, published, reached >>

EraseLevel ==
  /\ Checking
  /\ check.level # Null
  /\ check.next > Len(stop_orders[check.side][check.level])
  /\ stop_orders' = [stop_orders EXCEPT ![check.side][check.level] = <<>>]
  /\ check' = [check EXCEPT !.level = Null, !.next = 1]
  /\ UNCHANGED << marketVars, inbox, submitted, cancels, running, worker,
                  canceling, prevltp, published, reached >>

-----------------------------------------------------------------------------
(* handle_event: CancelOrder. *)

\* The id is not in orders_local_.
CancelUnknown(c) ==
  /\ Dequeue(c, "CancelOrder")
  /\ ~ Exists(Head(inbox[c]).order_id)
  /\ worker' = "loop"
  /\ UNCHANGED << marketVars, submitted, cancels, running, canceling, prevltp,
                  stop_orders, check, published, reached >>

\* Mutant: the order is marked only.
SkipCancel(c) ==
  /\ Dequeue(c, "CancelOrder")
  /\ Exists(Head(inbox[c]).order_id)
  /\ worker' = "marking"
  /\ canceling' = Head(inbox[c]).order_id
  /\ UNCHANGED << marketVars, submitted, cancels, running, prevltp, stop_orders,
                  check, published, reached >>

\* The market cancels the order, cannot cancel it, or throws.
HandleCancel(c) ==
  /\ Dequeue(c, "CancelOrder")
  /\ LET o == Head(inbox[c]).order_id
     IN /\ Exists(o)
        /\ cancel_order(o)
        /\ worker' = IF CancelThrows(o) THEN "loop" ELSE "marking"
        /\ canceling' = IF CancelThrows(o) THEN Null ELSE o
  /\ UNCHANGED << submitted, cancels, running, prevltp, stop_orders, check,
                  published, reached >>

\* Whatever cancel_order returned, the status becomes Canceled.
MarkCanceled ==
  /\ ~ crashed
  /\ worker = "marking"
  /\ orders' = [orders EXCEPT ![canceling].status = "Canceled"]
  /\ worker' = "loop"
  /\ canceling' = Null
  /\ UNCHANGED << levels, queue, last_price, is_active, taker, events, crashed,
                  executed, inbox, submitted, cancels, running, prevltp,
                  stop_orders, check, published, reached >>

-----------------------------------------------------------------------------
ProcessorInit ==
  /\ MarketInit
  /\ inbox = [c \in Clients |-> <<>>]
  /\ submitted = {}
  /\ cancels = 0
  /\ running = TRUE
  /\ worker = "loop"
  /\ canceling = Null
  /\ prevltp = 0
  /\ stop_orders = [s \in Sides |-> [p \in Prices |-> <<>>]]
  /\ check = NoCheck
  /\ published = [o \in OrderIds |-> [traded |-> 0, fills |-> 0]]
  /\ reached = {}

\* The worker's own steps; the rest are its clients'.
Work ==
  \/ LoopTop
  \/ Idle
  \/ \E c \in Clients : RejectAdd(c)
  \/ \E c \in Clients : AddStop(c)
  \/ \E c \in Clients : AddAndProcess(c)
  \/ MatchStep
  \/ AfterAdd
  \/ NextLevel
  \/ TriggerStop
  \/ EraseLevel
  \/ \E c \in Clients : CancelUnknown(c)
  \/ \E c \in Clients : HandleCancel(c)
  \/ MarkCanceled

ProcessorNext ==
  \/ \E c \in Clients, o \in OrderIds, r \in Submissions : SubmitOrder(c, o, r)
  \/ \E c \in Clients, o \in OrderIds : RequestCancel(c, o)
  \/ stop
  \/ Work

ProcessorSpec == ProcessorInit /\ [][ProcessorNext]_allVars

\* The operating system keeps running the worker thread.
FairProcessorSpec == ProcessorSpec /\ WF_allVars(Work)

-----------------------------------------------------------------------------
(* Properties. *)

\* The variables have their types (which values are published, FeedComplete says).
ProcessorTypeOK ==
  /\ TypeOK
  /\ inbox \in [Clients -> Seq(Event)]
  /\ submitted \subseteq OrderIds
  /\ cancels \in 0 .. MaxCancels
  /\ running \in BOOLEAN
  /\ worker \in WorkerStates
  /\ canceling \in OrderIds \cup {Null}
  /\ prevltp \in Prices \cup {0}
  /\ stop_orders \in [Sides -> [Prices -> Seq(OrderIds)]]
  /\ check \in [ side : Sides, level : Prices \cup {Null}, next : Nat \ {0},
                 ltp : Prices \cup {Null} ]
  /\ DOMAIN published = OrderIds
  /\ reached \subseteq OrderIds

\* An event about o is waiting in the queue.
Pending(o) == \E c \in Clients : \E i \in DOMAIN inbox[c] : inbox[c][i].order_id = o

\* A stop order is where check_stop_orders looks for it, once, until it is
\* triggered: it is in no book and has not traded.  A node of the two maps is
\* such an order, unless it is one of the level being walked that has had its turn.
StopsHeld ==
  /\ \A o \in OrderIds : Waiting(o) =>
       LET list == stop_orders[orders[o].side][orders[o].stop_price] IN
       /\ \E i \in DOMAIN list : \A j \in DOMAIN list : list[j] = o <=> j = i
       /\ ~ orders[o].book_it /\ executed[o] = 0
  /\ \A s \in Sides, p \in Prices : \A i \in DOMAIN stop_orders[s][p] :
       LET o == stop_orders[s][p][i] IN
       /\ Exists(o) /\ orders[o].side = s /\ orders[o].stop_price = p
       /\ Waiting(o) <=> ~ (check.level = p /\ check.side = s /\ i < check.next)

\* The types hold and the books stay sound under everything the worker does to
\* orders outside the market's own functions: it overwrites the status of canceled
\* orders and the type of triggered ones, and passes the same order object in
\* again.  The submissions of the run are on the tick; see LimitHasPrice for others.
BooksSound == /\ ProcessorTypeOK
              /\ NoEmptyLevel
              /\ NodesLive
              /\ IteratorsValid
              /\ Uncrossed
              /\ Accounting

\* Stop orders trade only after a trade, made while they were waiting, at or
\* through their stop price.
TriggeredByTrade ==
  \A o \in OrderIds :
    Exists(o) /\ orders[o].stop_price # Null /\ ~ IsStop(orders[o]) => o \in reached

\* Between calls the events handed to the publisher account for every fill of
\* every order, and report a completed order once.
FeedComplete ==
  taker = Null => \A o \in OrderIds :
    /\ published[o].traded = executed[o]
    /\ published[o].fills =
         IF Exists(o) /\ executed[o] = orders[o].quantity THEN 1 ELSE 0

\* Once an order without stop price is marked canceled it is in no book and
\* never trades again.
CanceledIsOut ==
  [][ \A o \in OrderIds :
        (Exists(o) /\ orders[o].status = "Canceled" /\ orders[o].stop_price = Null) =>
          ~ Rests(o)' /\ executed'[o] = executed[o] ]_allVars

\* No submission names a stop-limit price that the market would refuse later.
OnTick ==
  \A r \in Submissions :
    r.type = "StopLimit" => r.price \in ValidPrices \cup {Null}

\* The further parts of the inductive invariant, which needs OnTick.
\* Where the worker is says what its locals hold and which call is under way.
WorkerOK ==
  /\ is_active
  /\ taker # Null => worker \in {"adding", "stops"}
  /\ taker # Null /\ orders[taker].stop_price = Null => orders[taker].status = "New"
  /\ worker # "stops" => check = NoCheck
  /\ worker = "marking" =>
       canceling \in OrderIds /\ Exists(canceling) /\ ~ Rests(canceling)

\* An AddOrder event is the only one with its id, and the id is not in use.
IdsFresh ==
  /\ \A o \in OrderIds : Exists(o) => o \in submitted
  /\ \A c \in Clients : \A i \in DOMAIN inbox[c] :
       LET ev == inbox[c][i] IN
       ev.type = "AddOrder" =>
         /\ ev.order_id \in submitted /\ ~ Exists(ev.order_id)
         /\ \A d \in Clients : \A j \in DOMAIN inbox[d] :
              inbox[d][j].type = "AddOrder" /\ inbox[d][j].order_id = ev.order_id =>
                d = c /\ j = i

\* A waiting stop order is as its factory made it, up to its status.
WaitingOK ==
  \A o \in OrderIds : Waiting(o) =>
    /\ orders[o].stop_price \in Prices
    /\ orders[o].remaining = orders[o].quantity /\ executed[o] = 0
    /\ IF orders[o].type = "Stop" THEN orders[o].price = Null
                                  ELSE orders[o].price \in ValidPrices

\* A trade at price p has been seen by every waiting stop order it reaches.
Seen(p) == \A o \in OrderIds : Waiting(o) /\ StopReached(orders[o], p) => o \in reached

PricesSeen ==
  /\ last_price = Null => prevltp = 0
  /\ worker = "adding" /\ LastPriceOrZero # prevltp => Seen(last_price)
  /\ worker = "stops" => check.ltp \in Prices /\ Seen(check.ltp)
  /\ check.level # Null =>
       IF check.side = "Buy" THEN check.ltp >= check.level ELSE check.ltp <= check.level

PInv == /\ BooksInv
        /\ ProcessorTypeOK
        /\ WorkerOK
        /\ IdsFresh
        /\ WaitingOK
        /\ StopsHeld
        /\ PricesSeen
        /\ TriggeredByTrade

\* Every event in the queue is handled, unless the processor is stopped or the
\* process dies.
RequestsServed ==
  \A o \in OrderIds : Pending(o) ~> (~ Pending(o) \/ ~ running \/ crashed)

\* After stop() the worker ends, so the join in the destructor returns.
WorkerEnds == ~ running ~> (worker = "exited" \/ crashed)

\* README.md:14 lists stop and stop-limit orders among the supported types: when
\* the worker is done with an event, no stop order is still waiting although a
\* trade has reached its stop price.
NoMissedTrigger ==
  worker = "loop" => \A o \in OrderIds : Waiting(o) => o \notin reached

\* Order.cpp:216 says that a limit order must have a price.
LimitHasPrice ==
  \A o \in OrderIds : Exists(o) /\ orders[o].type = "Limit" => orders[o].price # Null

=============================================================================
