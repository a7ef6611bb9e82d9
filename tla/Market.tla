------------------------------- MODULE Market -------------------------------
(***************************************************************************)
(* One market: the two order books (BuyBook, SellBook) and the matching of *)
(* an incoming order against them (Market.cpp).                            *)
(*                                                                         *)
(* A call of process_order is a sequence of steps of one thread: the entry *)
(* checks, then one step per iteration of the matching loop, then the code *)
(* after the loop.  The variable taker names the order being processed     *)
(* while a call is under way, so no other operation comes in between.      *)
(* cancel_order is a single step.                                          *)
(***************************************************************************)
EXTENDS Orders, Sequences, FiniteSetsExt, SequencesExt

CONSTANT NewOrders   \* the order objects a caller may pass to process_order

ASSUME NewOrdersAssumption ==
  \A ord \in NewOrders : /\ ord \in Order
                         /\ validate(ord)
                         /\ ord.remaining = ord.quantity
                         /\ ord.status = "New"
                         /\ ~ord.book_it

VARIABLES
  orders,      \* [OrderIds -> Order or Null]: the order objects that exist
  levels,      \* [Sides -> SUBSET Prices]: the keys of each book's map
  queue,       \* [Sides -> [Prices -> Seq(OrderIds)]]: the list at each key
  last_price,  \* price of the last trade, or Null
  is_active,
  taker,       \* the order process_order is working on, or Null
  events,      \* the vector the current or last call returns
  crashed,     \* the process died on a dereference of a null iterator
  executed     \* history: quantity reported in Trade events, per order

marketVars == << orders, levels, queue, last_price, is_active, taker, events,
                 crashed, executed >>

(***************************************************************************)
(* Market events (MarketEvent.hpp), with the fields the makers used by     *)
(* Market.cpp fill in.                                                     *)
(***************************************************************************)
make_trade(id, counterparty, price, qty) ==
  [ type |-> "Trade", order_id |-> id, counterparty_id |-> counterparty,
    executed_price |-> price, executed_qty |-> qty ]

make_filled(id) == [ type |-> "FilledOrder", order_id |-> id ]

MarketEvent ==
  [ type : {"Trade"}, order_id : OrderIds, counterparty_id : OrderIds,
    executed_price : Prices, executed_qty : 0 .. MaxInt ]
  \cup [ type : {"FilledOrder"}, order_id : OrderIds ]

-----------------------------------------------------------------------------
(* The books.  A price is a key of a book's map iff it is in levels. *)

\* The comparator of the map: std::greater for bids, std::less for asks.
Better(side, p, q) == IF side = "Buy" THEN p > q ELSE p < q

\* Mutant: the map is walked from its other end.
IsWorst(side, p) == /\ p \in levels[side]
                    /\ \A q \in levels[side] : ~ Better(side, p, q)

\* orders_.begin(): the level the loops visit first.
IsBest(side, p) == /\ p \in levels[side]
                   /\ \A q \in levels[side] : ~ Better(side, q, p)

\* Mutant: push_front.
add_order_front(o, side, price) ==
  /\ levels' = [levels EXCEPT ![side] = @ \cup {price}]
  /\ queue' = [queue EXCEPT ![side][price] = << o >> \o @]

\* BuyBook::add_order and SellBook::add_order (order.book_it is set by Rest).
add_order(o, side, price) ==
  /\ levels' = [levels EXCEPT ![side] = @ \cup {price}]
  /\ queue' = [queue EXCEPT ![side][price] = Append(@, o)]

\* Mutant: the empty level is not erased.
KeepLevel(side, price, q) ==
  /\ queue' = [queue EXCEPT ![side][price] = q]
  /\ UNCHANGED levels

\* Leaves the list q at a level, and erases the level when q is empty.
SetLevel(side, price, q) ==
  /\ queue' = [queue EXCEPT ![side][price] = q]
  /\ levels' = [levels EXCEPT ![side] = IF q = <<>> THEN @ \ {price} ELSE @]

\* Mutant: the first node of the level is erased.
EraseFirst(o, side, price) == SetLevel(side, price, Tail(queue[side][price]))

\* list::erase(book_it): the iterator points at the node pushed last for o.
EraseNode(o, side, price) ==
  LET q == queue[side][price] IN
  \E i \in DOMAIN q :
    /\ q[i] = o
    /\ \A j \in DOMAIN q : q[j] = o => j <= i
    /\ SetLevel(side, price, RemoveAt(q, i))

-----------------------------------------------------------------------------
(* Entry of process_order. *)

is_valid_price(price) == price \in ValidPrices

\* Mutant: an order does not trade at its own limit.
ReachesStrictly(ord, p) ==
  ord.type = "Limit" =>
    IF ord.side = "Buy" THEN ord.price > p ELSE ord.price < p

\* Whether the incoming order ord may trade at price p.
Reaches(ord, p) ==
  ord.type = "Limit" =>
    IF ord.side = "Buy" THEN ord.price >= p ELSE ord.price <= p

\* An int sum wraps around past MaxInt.
Wrap(n) == ((n + MaxInt + 1) % (2 * MaxInt + 2)) - (MaxInt + 1)

\* Mutant: only the best price in reach is counted.
validate_fulfillment_best(ord) ==
  LET side == Opposite(ord.side)
      best == { p \in levels[side] : Reaches(ord, p) /\ IsBest(side, p) }
      nodes == UNION { {p} \X DOMAIN queue[side][p] : p \in best }
      quantityAt == [n \in nodes |-> orders[queue[side][n[1]][n[2]]].quantity]
  IN SumFunction(quantityAt) >= ord.quantity

\* Adds up the quantity (not the remaining quantity) of every order in reach.
validate_fulfillment(ord) ==
  LET side == Opposite(ord.side)
      inReach == { p \in levels[side] : Reaches(ord, p) }
      nodes == UNION { {p} \X DOMAIN queue[side][p] : p \in inReach }
      quantityAt == [n \in nodes |-> orders[queue[side][n[1]][n[2]]].quantity]
  IN Wrap(SumFunction(quantityAt)) >= ord.quantity

\* The exceptions process_order throws before it changes anything.
Throws(ord) ==
  \/ ~ is_active
  \/ ord.type \notin {"Limit", "Market"}
  \/ ord.type = "Limit" /\ (ord.price = Null \/ ~ is_valid_price(ord.price))
  \/ ord.type = "Market" /\ ord.price # Null

\* The early return of the limit functions for a fill-or-kill order.
Killed(ord) ==
  ord.type = "Limit" /\ ord.tif = "FOK" /\ ~ validate_fulfillment(ord)

\* The caller passes the object ord, which has the id o, to process_order.
process_order(o, ord) ==
  /\ ~ crashed
  /\ taker = Null
  /\ orders' = [orders EXCEPT ![o] = ord]
  /\ taker' = IF Throws(ord) \/ Killed(ord) THEN Null ELSE o
  /\ events' = <<>>
  /\ UNCHANGED << levels, queue, last_price, is_active, crashed, executed >>

-----------------------------------------------------------------------------
(* The matching loop and what follows it. *)

CanMatch ==
  /\ orders[taker].remaining > 0
  /\ \E p \in levels[Opposite(orders[taker].side)] : Reaches(orders[taker], p)

\* Mutants: std::max, and the taker's quantity whatever the match has left.
Larger(m, n) == IF m >= n THEN m ELSE n
First(m, n) == m

\* std::min
Lesser(m, n) == IF m <= n THEN m ELSE n

\* One iteration of the inner loop: trade with the first order at price p,
\* drop it from the list when it is filled, and the level when it is empty.
Trade(side, p) ==
  LET list  == queue[side][p]
      match == Head(list)
      qty   == Lesser(orders[taker].remaining, orders[match].remaining)
      done  == orders[match].remaining = qty
      hit   == [orders[match] EXCEPT
                  !.remaining = @ - qty,
                  !.status = IF done THEN "Filled" ELSE "PartiallyFilled",
                  !.book_it = @ /\ ~ done]
  IN /\ orders' = [orders EXCEPT ![taker].remaining = @ - qty, ![match] = hit]
     /\ last_price' = p
     /\ events' = events \o << make_trade(taker, match, p, qty) >>
                         \o (IF done THEN << make_filled(match) >> ELSE <<>>)
     /\ SetLevel(side, p, IF done THEN Tail(list) ELSE list)
     /\ executed' = [executed EXCEPT ![taker] = @ + qty, ![match] = @ + qty]

Match ==
  /\ CanMatch
  /\ \E p \in levels[Opposite(orders[taker].side)] :
       /\ IsBest(Opposite(orders[taker].side), p)
       /\ Trade(Opposite(orders[taker].side), p)
  /\ UNCHANGED << is_active, taker, crashed >>

\* Mutant: the Filled event of the order itself is forgotten.
FinishSilently(status, rests) ==
  /\ ~ CanMatch
  /\ orders' = [orders EXCEPT ![taker].status = status,
                              ![taker].book_it = @ \/ rests]
  /\ IF rests THEN add_order(taker, orders[taker].side, orders[taker].price)
              ELSE UNCHANGED << levels, queue >>
  /\ taker' = Null
  /\ UNCHANGED << last_price, is_active, crashed, executed, events >>

\* After the loop: the status, the Filled event.
Finish(status, rests) ==
  /\ ~ CanMatch
  /\ orders' = [orders EXCEPT ![taker].status = status,
                              ![taker].book_it = @ \/ rests]
  /\ events' = IF status = "Filled" THEN Append(events, make_filled(taker))
                                    ELSE events
  /\ IF rests THEN add_order(taker, orders[taker].side, orders[taker].price)
              ELSE UNCHANGED << levels, queue >>
  /\ taker' = Null
  /\ UNCHANGED << last_price, is_active, crashed, executed >>

\* Mutants: an immediate-or-cancel order rests; untouched orders count as
\* partially filled.
FinishLimitResting ==
  LET ord == orders[taker] IN
  Finish(CASE ord.remaining = 0 -> "Filled"
           [] ord.remaining \in 1 .. ord.quantity - 1 -> "PartiallyFilled"
           [] OTHER -> "New",
         ord.remaining # 0)

FinishLimitOffByOne ==
  LET ord == orders[taker] IN
  Finish(IF ord.remaining = 0 THEN "Filled" ELSE "PartiallyFilled",
         ord.remaining # 0 /\ ord.tif # "IOC")

FinishLimit ==
  LET ord == orders[taker] IN
  Finish(CASE ord.remaining = 0 -> "Filled"
           [] ord.remaining \in 1 .. ord.quantity - 1 -> "PartiallyFilled"
           [] OTHER -> "New",
         ord.remaining # 0 /\ ord.tif # "IOC")

FinishMarket ==
  Finish(IF orders[taker].remaining > 0 THEN "PartiallyFilled" ELSE "Filled",
         FALSE)

Processing(type, side) ==
  /\ ~ crashed
  /\ taker # Null
  /\ orders[taker].type = type
  /\ orders[taker].side = side

process_limit_buy_order == Processing("Limit", "Buy") /\ (Match \/ FinishLimit)
process_limit_sell_order == Processing("Limit", "Sell") /\ (Match \/ FinishLimit)
process_market_buy_order == Processing("Market", "Buy") /\ (Match \/ FinishMarket)
process_market_sell_order == Processing("Market", "Sell") /\ (Match \/ FinishMarket)

-----------------------------------------------------------------------------
(* Cancellation. *)

\* Where cancel_order goes past the two books' "no such level" return.
LevelFound(o) == orders[o].price \in levels[orders[o].side]

\* order->price.value() throws bad_optional_access for an order with no price.
CancelThrows(o) == orders[o].type # "Market" /\ orders[o].price = Null

\* Mutants: the order is marked canceled when its level is not found; the
\* iterator of a canceled order is not reset.
CancelAnyway(o) ==
  /\ ~ crashed /\ taker = Null
  /\ IF orders[o].book_it
     THEN EraseNode(o, orders[o].side, orders[o].price)
     ELSE UNCHANGED << levels, queue >>
  /\ orders' = [orders EXCEPT ![o].status = "Canceled", ![o].book_it = FALSE]
  /\ events' = <<>>
  /\ UNCHANGED << last_price, is_active, taker, crashed, executed >>

CancelKeepsIterator(o) ==
  /\ ~ crashed /\ taker = Null
  /\ orders[o].book_it
  /\ EraseNode(o, orders[o].side, orders[o].price)
  /\ orders' = [orders EXCEPT ![o].status = "Canceled", ![o].remaining = 0]
  /\ events' = <<>>
  /\ UNCHANGED << last_price, is_active, taker, crashed, executed >>

\* A market order is reported as canceled although nothing is done.  Otherwise
\* the level of the order's price decides: with no such level the call fails,
\* with one the order's node is erased, and erasing through a null iterator
\* kills the process.
cancel_order(o) ==
  /\ ~ crashed
  /\ taker = Null
  /\ IF orders[o].type = "Market" \/ CancelThrows(o) \/ ~ LevelFound(o)
     THEN UNCHANGED << orders, levels, queue, crashed >>
     ELSE IF ~ orders[o].book_it
     THEN crashed' = TRUE /\ UNCHANGED << orders, levels, queue >>
     ELSE /\ EraseNode(o, orders[o].side, orders[o].price)
          /\ orders' = [orders EXCEPT ![o].status = "Canceled",
                                      ![o].book_it = FALSE,
                                      ![o].remaining = 0]
          /\ UNCHANGED crashed
  /\ events' = <<>>
  /\ UNCHANGED << last_price, is_active, taker, executed >>

activate == /\ ~ crashed
            /\ is_active' = TRUE
            /\ UNCHANGED << orders, levels, queue, last_price, taker, events,
                            crashed, executed >>

deactivate == /\ ~ crashed
              /\ is_active' = FALSE
              /\ UNCHANGED << orders, levels, queue, last_price, taker, events,
                              crashed, executed >>

-----------------------------------------------------------------------------
MarketInit ==
  /\ orders = [o \in OrderIds |-> Null]
  /\ levels = [s \in Sides |-> {}]
  /\ queue = [s \in Sides |-> [p \in Prices |-> <<>>]]
  /\ last_price = Null
  /\ is_active = TRUE
  /\ taker = Null
  /\ events = <<>>
  /\ crashed = FALSE
  /\ executed = [o \in OrderIds |-> 0]

\* The caller creates each order object and has it processed once; it may
\* cancel any order that exists, whatever became of it.
MarketNext ==
  \/ \E o \in OrderIds, ord \in NewOrders :
       orders[o] = Null /\ process_order(o, ord)
  \/ process_limit_buy_order
  \/ process_limit_sell_order
  \/ process_market_buy_order
  \/ process_market_sell_order
  \/ \E o \in OrderIds : orders[o] # Null /\ cancel_order(o)
  \/ activate
  \/ deactivate

MarketSpec == MarketInit /\ [][MarketNext]_marketVars

-----------------------------------------------------------------------------
(* Properties.                                                             *)

\* The variables have their types.
TypeOK ==
  /\ orders \in [OrderIds -> Order \cup {Null}]
  /\ levels \in [Sides -> SUBSET Prices]
  /\ queue \in [Sides -> [Prices -> Seq(OrderIds)]]
  /\ last_price \in Prices \cup {Null}
  /\ is_active \in BOOLEAN
  /\ taker \in OrderIds \cup {Null}
  /\ events \in Seq(MarketEvent)
  /\ crashed \in BOOLEAN
  /\ executed \in [OrderIds -> 0 .. MaxInt]

Exists(o) == orders[o] # Null

\* No key of a book's map keeps an empty list: get_best_bid, get_best_ask and
\* get_best_order call front() on the first list without looking.
NoEmptyLevel ==
  \A s \in Sides, p \in Prices : p \in levels[s] <=> queue[s][p] # <<>>

\* Every node of a book belongs to a live limit order of that side and price,
\* which is not the order being processed and whose iterator is set; an
\* immediate-or-cancel order is never in a book.
NodesLive ==
  \A s \in Sides, p \in Prices : \A i \in DOMAIN queue[s][p] :
    LET o == queue[s][p][i] IN
    /\ Exists(o)
    /\ o # taker
    /\ orders[o].side = s /\ orders[o].price = p
    /\ orders[o].type = "Limit" /\ orders[o].tif # "IOC"
    /\ orders[o].remaining > 0
    /\ orders[o].book_it
    /\ orders[o].status \in {"New", "PartiallyFilled"}

\* An iterator that is set points at the one node of its order, so the erase
\* in cancel_order removes that order and no other.
IteratorsValid ==
  \A o \in OrderIds : Exists(o) /\ orders[o].book_it =>
    /\ orders[o].price \in Prices
    /\ LET q == queue[orders[o].side][orders[o].price] IN
       \E i \in DOMAIN q : \A j \in DOMAIN q : q[j] = o <=> j = i

\* While a call is under way its order can be matched and is in no book yet: a
\* limit order has an on-tick price, a market order has none, and what it has
\* lost of its quantity it has traded.
CallOK ==
  taker # Null =>
    /\ Exists(taker)
    /\ orders[taker].type \in {"Limit", "Market"}
    /\ orders[taker].type = "Limit" => orders[taker].price \in ValidPrices
    /\ orders[taker].type = "Market" => orders[taker].price = Null
    /\ ~ orders[taker].book_it
    /\ executed[taker] + orders[taker].remaining = orders[taker].quantity

\* No bid reaches an ask, not even while an order is being matched.
Uncrossed ==
  \A b \in levels["Buy"], a \in levels["Sell"] : b < a

\* The Trade events of an order's whole life add up to what it has lost of its
\* quantity, and never exceed the quantity, canceled or not.
Accounting ==
  \A o \in OrderIds :
    IF ~ Exists(o) THEN executed[o] = 0
    ELSE /\ executed[o] <= orders[o].quantity
         /\ \/ orders[o].status = "Canceled" /\ orders[o].remaining = 0
            \/ executed[o] + orders[o].remaining = orders[o].quantity

\* Between calls a status says what happened to the order.  A market order
\* that found no counterparty at all is PartiallyFilled too.
StatusAgrees ==
  \A o \in OrderIds : Exists(o) /\ o # taker =>
    LET ord == orders[o] IN
    /\ ord.status = "Filled" <=> executed[o] = ord.quantity
    /\ ord.status = "PartiallyFilled" =>
         /\ ord.remaining > 0
         /\ ord.type = "Limit" => executed[o] > 0
    /\ ord.status = "New" => executed[o] = 0

\* The parts of the inductive invariant.  Those of BooksInv also hold when the
\* status of orders is overwritten between calls, as MarketProcessor does.
BooksInv == /\ TypeOK
            /\ NoEmptyLevel
            /\ NodesLive
            /\ IteratorsValid
            /\ CallOK
            /\ Uncrossed
            /\ Accounting

IInv == /\ BooksInv
        /\ StatusAgrees
        /\ taker # Null => orders[taker].status = "New"

Trades == { i \in DOMAIN events : events[i].type = "Trade" }

\* The vector a call returns is a complete account of it: the taker's trades
\* add up to what it traded, no trade is at a price worse than the limit of
\* either side or after one at a worse price, and a Filled event is there for
\* exactly the orders that the call has filled.
EventsAccount ==
  /\ taker # Null =>
       executed[taker] = SumFunction([i \in Trades |-> events[i].executed_qty])
  /\ \A i \in Trades :
       LET e == events[i]
           t == orders[e.order_id]
           m == orders[e.counterparty_id]
       IN /\ t.side # m.side
          /\ e.executed_price = m.price
          /\ t.price # Null =>
               IF t.side = "Buy" THEN m.price <= t.price ELSE m.price >= t.price
          /\ \A j \in Trades : j < i =>
               ~ Better(m.side, m.price, events[j].executed_price)
          /\ m.remaining = 0 <=>
               \E j \in DOMAIN events \ Trades : events[j].order_id = e.counterparty_id
          /\ taker = Null /\ t.remaining = 0 =>
               \E j \in DOMAIN events \ Trades : events[j].order_id = e.order_id

\* a is ahead of b in the list of their common level.
Ahead(a, b) ==
  \E s \in Sides, p \in Prices : \E i, j \in DOMAIN queue[s][p] :
    i < j /\ queue[s][p][i] = a /\ queue[s][p][j] = b

Rests(o) == Exists(o) /\ orders[o].book_it

\* Price-time priority.  A resting order trades only while no resting order of
\* its side has a better price and none is ahead of it at its own; and orders
\* of one level never overtake each other: who rests first stays ahead.
PriceTimePriority ==
  [][ /\ \A o \in OrderIds : Rests(o) /\ executed'[o] # executed[o] =>
           \A other \in OrderIds : Rests(other) /\ other # o =>
             /\ orders[other].side = orders[o].side =>
                  ~ Better(orders[o].side, orders[other].price, orders[o].price)
             /\ ~ Ahead(other, o)
      /\ \A a, b \in OrderIds :
           /\ Ahead(a, b) => ~ Ahead(b, a)'
           /\ Rests(a) /\ ~ Rests(b) => ~ Ahead(b, a)'
    ]_marketVars

\* A filled or canceled order is never touched again.
FinalStatesAreFinal ==
  [][ \A o \in OrderIds :
        Exists(o) /\ orders[o].status \in {"Filled", "Canceled"} =>
          orders'[o] = orders[o] ]_marketVars

\* What the opposite side could really deliver to ord.
Available(ord) ==
  LET side == Opposite(ord.side) IN
  SumFunction([ o \in { o \in OrderIds : /\ Rests(o)
                                         /\ orders[o].side = side
                                         /\ Reaches(ord, orders[o].price) } |->
                  orders[o].remaining ])

\* A fill-or-kill limit order is killed only when it could not be filled.
NoFalseKill ==
  [][ \A o \in OrderIds :
        (Exists(o)' /\ ~ Exists(o) /\ taker' = Null) =>
          LET ord == orders'[o] IN
          ord.tif = "FOK" /\ ~ Throws(ord) => Available(ord) < ord.quantity
    ]_marketVars

\* README.md:14 lists FOK, fill or kill, among the supported times in force:
\* such a limit order is filled completely by the call that brings it, or not at all.
LimitFillOrKill ==
  taker = Null => \A o \in OrderIds :
    Exists(o) /\ orders[o].type = "Limit" /\ orders[o].tif = "FOK" =>
      executed[o] \in {0, orders[o].quantity}

\* README.md:4 calls the engine reliable: no cancel request kills the process.
CancelIsSafe == ~ crashed

=============================================================================
