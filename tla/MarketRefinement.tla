-------------------------- MODULE MarketRefinement --------------------------
(***************************************************************************)
(* Market, with its maps of lists, its iterators and its order objects,    *)
(* implements PriceTimeBook.                                               *)
(***************************************************************************)
EXTENDS Market

\* The orders that can trade, and what a client sees of one.
InMarket(o) == Exists(o) /\ (o = taker \/ orders[o].book_it)

Offer(o) == [ side |-> orders[o].side, limit |-> orders[o].price,
              left |-> orders[o].remaining ]

Quoted == [ o \in OrderIds |-> IF InMarket(o) THEN Offer(o) ELSE Null ]

Resting == { o \in OrderIds : Rests(o) }

\* The priority the two books stand for: first the level, then the list.
Precedes(a, b) ==
  \/ Better(orders[a].side, orders[a].price, orders[b].price)
  \/ Ahead(a, b)

Priority ==
  { pair \in Resting \X Resting :
      /\ orders[pair[1]].side = orders[pair[2]].side
      /\ Precedes(pair[1], pair[2]) }

Book == INSTANCE PriceTimeBook WITH
  quote <- Quoted, resting <- Resting, ahead <- Priority, active <- taker,
  last <- last_price

\* A market gives its clients price-time priority: whatever the books do to their
\* levels, lists and iterators, over many calls, each step is one of PriceTimeBook
\* (a trade with the first in priority, a rest at the end of the line, a withdrawal
\* of that order alone) or changes nothing a client can see.
ImplementsBook == Book!BookSpec
=============================================================================
