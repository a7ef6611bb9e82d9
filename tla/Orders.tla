------------------------------- MODULE Orders -------------------------------
(***************************************************************************)
(* Order objects: include/Order.hpp and src/Order.cpp.                     *)
(*                                                                         *)
(* An order is a record.  Its id is the key under which a table of orders  *)
(* holds it; client_id, symbol and timestamp influence no decision of the  *)
(* matching code and are left out.  Prices are doubles in the code and     *)
(* integers here: only their order and the outcome of is_valid_price on    *)
(* them matter, and that outcome is the constant set ValidPrices.          *)
(***************************************************************************)
EXTENDS Integers

CONSTANTS
  OrderIds,     \* the ids generate_order_id can hand out
  Prices,       \* the prices clients can name, valid or not
  ValidPrices,  \* the prices Market::is_valid_price accepts
  MaxInt,       \* the largest value of an int, 2^31 - 1 in the builds
  Null          \* std::nullopt, and "no order"

ASSUME OrdersAssumption ==
  /\ Prices \subseteq Int
  /\ ValidPrices \subseteq Prices
  /\ MaxInt \in Nat \ {0}
  /\ Null \notin OrderIds \cup Int

Sides == {"Buy", "Sell"}
OrderTypes == {"Limit", "Market", "Stop", "StopLimit"}
TimesInForce == {"Day", "IOC", "FOK", "GTC"}
OrderStatuses == {"New", "PartiallyFilled", "Filled", "Canceled", "Expired"}

Opposite(side) == IF side = "Buy" THEN "Sell" ELSE "Buy"

(***************************************************************************)
(* struct Order.  Quantity is an int32; every order the factories return   *)
(* has 0 < quantity and 0 <= remaining.  The iterator book_it is reduced   *)
(* to whether it points at a list node (TRUE) or is default-constructed.   *)
(***************************************************************************)
Order ==
  [ quantity   : 1 .. MaxInt,
    remaining  : 0 .. MaxInt,
    price      : Prices \cup {Null},
    stop_price : Prices \cup {Null},
    side       : Sides,
    status     : OrderStatuses,
    type       : OrderTypes,
    tif        : TimesInForce,
    book_it    : BOOLEAN ]

ASSUME NullAssumption == Null \notin Order

(***************************************************************************)
(* The four factories.  They differ in type and in which prices they set.  *)
(***************************************************************************)
NewOrder(type, quantity, price, stop_price, side, tif) ==
  [ quantity |-> quantity, remaining |-> quantity, price |-> price,
    stop_price |-> stop_price, side |-> side, status |-> "New",
    type |-> type, tif |-> tif, book_it |-> FALSE ]

make_limit_order(quantity, price, side, tif) ==
  NewOrder("Limit", quantity, price, Null, side, tif)

make_market_order(quantity, side, tif) ==
  NewOrder("Market", quantity, Null, Null, side, tif)

make_stop_limit_order(quantity, price, stop_price, side, tif) ==
  NewOrder("StopLimit", quantity, price, stop_price, side, tif)

make_stop_order(quantity, stop_price, side, tif) ==
  NewOrder("Stop", quantity, Null, stop_price, side, tif)

\* Order::validate, which every factory calls before it returns the object:
\* FALSE where the code throws invalid_argument.
validate(order) ==
  /\ order.quantity > 0
  /\ order.remaining >= 0 /\ order.remaining <= order.quantity
  /\ order.type = "Limit" => order.price # Null
  /\ order.type = "Market" => order.price = Null
  /\ order.price # Null => order.price > 0

=============================================================================
