---------------------------- MODULE MCProcessor ----------------------------
(* Model values and submissions for the runs of MarketProcessor. *)
EXTENDS MarketProcessor

Submit(type, quantity, price, stop_price, side, tif) ==
  [ type |-> type, quantity |-> quantity, price |-> price,
    stop_price |-> stop_price, side |-> side, tif |-> tif ]

\* Limit orders that rest and trade, market orders, stops on both sides whose
\* triggering can trade and can rest, a fill-or-kill order and a request that
\* the factory refuses.
MCSubmissions ==
  { Submit("Limit", q, p, Null, s, "GTC") : q \in {1, 2}, p \in {1, 2}, s \in Sides }
  \cup { Submit("Market", 2, Null, Null, "Buy", "GTC"),
         Submit("Stop", 1, Null, 2, "Buy", "GTC"),
         Submit("Stop", 1, Null, 1, "Sell", "GTC"),
         Submit("StopLimit", 1, 1, 2, "Buy", "GTC"),
         Submit("Limit", 2, 1, Null, "Sell", "FOK"),
         Submit("Limit", 1, Null, Null, "Sell", "GTC") }

\* A trade at 1, and buy stops at 1 and at 2.
StopSubmissions ==
  { Submit("Limit", 1, 1, Null, s, "GTC") : s \in Sides }
  \cup { Submit("Stop", 1, Null, p, "Buy", "GTC") : p \in {1, 2} }

\* Two sell stops at 2, of which the second is a stop-limit order at a price
\* off the tick, and a bid and an ask for trades at 2 and at 1.
OffTickSubmissions ==
  { Submit("Limit", 1, 1, Null, "Buy", "GTC"),
    Submit("Limit", 1, 2, Null, "Buy", "GTC"),
    Submit("Limit", 2, 1, Null, "Sell", "GTC"),
    Submit("Stop", 1, Null, 2, "Sell", "GTC"),
    Submit("StopLimit", 1, 3, 2, "Sell", "GTC") }

\* A trade, a stop order that it triggers, and a request the factory refuses.
LiveSubmissions ==
  { Submit("Limit", 1, Null, Null, "Sell", "GTC"),
    Submit("Limit", 1, 1, Null, "Sell", "GTC"),
    Submit("Market", 2, Null, Null, "Buy", "GTC"),
    Submit("Stop", 1, Null, 1, "Buy", "GTC") }

NoNewOrders == {}

Symmetry == Permutations(OrderIds) \cup Permutations(Clients)

=============================================================================
