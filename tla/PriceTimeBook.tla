---------------------------- MODULE PriceTimeBook ----------------------------
(***************************************************************************)
(* What a market promises its clients: an incoming order trades with the   *)
(* resting order of the other side that is first in priority, at that      *)
(* order's price, for as long as its limit allows; then it rests behind    *)
(* every order of its side with as good a price, or it leaves.  There are  *)
(* no levels and no lists here, only who is ahead of whom.                 *)
(***************************************************************************)
EXTENDS Integers

CONSTANTS OrderIds, Prices, Null

VARIABLES
  quote,    \* the side, limit and open quantity of each order in the market
  resting,  \* the orders of the book
  ahead,    \* the pairs of resting orders of one side, by priority
  active,   \* the incoming order, or Null
  last      \* the last price

bookVars == << quote, resting, ahead, active, last >>

Quote == [ side : {"Buy", "Sell"}, limit : Prices \union {Null}, left : Nat ]

SameSide(o) == { r \in resting : quote[r].side = quote[o].side }
Opposing == resting \ SameSide(active)

BetterPrice(side, p, q) == IF side = "Buy" THEN p > q ELSE p < q

Crosses(o) ==
  quote[active].limit # Null =>
    ~ BetterPrice(quote[o].side, quote[active].limit, quote[o].limit)

CanTrade == quote[active].left > 0 /\ \E o \in Opposing : Crosses(o)

Without(o) == { pair \in ahead : o \notin {pair[1], pair[2]} }

----------------------------------------------------------------------------
BookInit ==
  /\ quote = [o \in OrderIds |-> Null] /\ resting = {} /\ ahead = {}
  /\ active = Null /\ last = Null

Arrive(o) ==
  /\ active = Null /\ quote[o] = Null
  /\ active' = o
  /\ quote'[o] \in Quote /\ quote' = [quote EXCEPT ![o] = quote'[o]]
  /\ UNCHANGED << resting, ahead, last >>

\* The active order and the first of the other side trade all that both have.
Execute(o) ==
  /\ active # Null /\ quote[active].left > 0
  /\ o \in Opposing /\ Crosses(o)
  /\ \A r \in Opposing \ {o} : << o, r >> \in ahead
  /\ IF quote[active].left < quote[o].left
     THEN /\ quote' = [quote EXCEPT ![active].left = 0,
                                    ![o].left = @ - quote[active].left]
          /\ UNCHANGED << resting, ahead >>
     ELSE /\ quote' = [quote EXCEPT ![active].left = @ - quote[o].left, ![o] = Null]
          /\ resting' = resting \ {o}
          /\ ahead' = Without(o)
  /\ last' = quote[o].limit
  /\ UNCHANGED active

Rest ==
  /\ active # Null /\ ~ CanTrade
  /\ quote[active].left > 0 /\ quote[active].limit # Null
  /\ resting' = resting \union {active}
  /\ LET behind == { r \in SameSide(active) :
                       BetterPrice(quote[r].side, quote[active].limit, quote[r].limit) }
     IN ahead' = ahead \union ({active} \X behind)
                       \union ((SameSide(active) \ behind) \X {active})
  /\ active' = Null
  /\ UNCHANGED << quote, last >>

Leave ==
  /\ active # Null /\ ~ CanTrade
  /\ quote' = [quote EXCEPT ![active] = Null]
  /\ active' = Null
  /\ UNCHANGED << resting, ahead, last >>

Withdraw(o) ==
  /\ active = Null /\ o \in resting
  /\ quote' = [quote EXCEPT ![o] = Null]
  /\ resting' = resting \ {o}
  /\ ahead' = Without(o)
  /\ UNCHANGED << active, last >>

BookNext ==
  \/ \E o \in OrderIds : Arrive(o) \/ Execute(o) \/ Withdraw(o)
  \/ Rest \/ Leave

BookSpec == BookInit /\ [][BookNext]_bookVars
=============================================================================
