------------------------------ MODULE MCMarket ------------------------------
(* Model values and order sets for the runs of Market. *)
EXTENDS MarketRefinement

\* Resting limit orders of quantity 1 and 2 (Day is treated like GTC), takers
\* of quantity 2 of every other kind, an off-tick price and a stop order.
MCNewOrders ==
  { make_limit_order(q, p, s, "GTC") : q \in 1 .. 2, p \in ValidPrices, s \in Sides }
  \cup { make_limit_order(2, p, s, t) :
           p \in ValidPrices, s \in Sides, t \in {"IOC", "FOK"} }
  \cup { make_market_order(2, s, "GTC") : s \in Sides }
  \cup { make_limit_order(1, 3, "Buy", "GTC"),
         make_stop_order(1, 1, "Sell", "GTC") }

Symmetry == Permutations(OrderIds)

=============================================================================
