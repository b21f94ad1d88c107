---------------------------- MODULE ExchangeBook ----------------------------
(***************************************************************************)
(* What an order book promises: the market-by-order book of the exchange   *)
(* and its aggregated depth.  order_book.hh says the class supports        *)
(* "reconstructing and querying per-asset order book state such as top and *)
(* depth of book bid and ask price and size"; this is the state that is    *)
(* reconstructed.  An order is identified by its side and its id (the      *)
(* number "is only unique per Order book and side").                       *)
(***************************************************************************)
EXTENDS Integers, FiniteSets

CONSTANTS Ids, Prices, Quantities

VARIABLES
  resting,  \* the set of resting orders
  depth     \* for each side, the quantity on offer at each price

Sides == {"buy", "sell"}

RestingOrders == [side : Sides, id : Ids, price : Prices, quantity : Nat]

At(R, s, p) == {o \in R : o.side = s /\ o.price = p}

(* The quantity of a set of orders: the number of its shares, a share      *)
(* being an order and a number from 1 to the order's quantity.             *)
Total(R) == Cardinality(UNION {{o} \X (1 .. o.quantity) : o \in R})

DepthOf(R) ==
  [s \in Sides |-> [p \in {o.price : o \in {x \in R : x.side = s}} |->
                      Total(At(R, s, p))]]

Free(R, s, i) == \A o \in R : ~(o.side = s /\ o.id = i)

Becomes(R) == resting' = R /\ depth' = DepthOf(R)

-----------------------------------------------------------------------------
Init == resting = {} /\ depth = DepthOf({})

(* A new order rests.                                                      *)
Enter(n) ==
  /\ Free(resting, n.side, n.id)
  /\ Becomes(resting \cup {n})

(* An order is filled or cancelled for q: it stays with what is left, or   *)
(* leaves if nothing is.                                                   *)
Reduce(o, q) ==
  /\ q < o.quantity
  /\ Becomes((resting \ {o}) \cup {[o EXCEPT !.quantity = @ - q]})

(* An order leaves the book, filled, cancelled or deleted.                 *)
Leave(o) == Becomes(resting \ {o})

(* An order is replaced by another one.                                    *)
Amend(o, n) ==
  /\ Free(resting \ {o}, n.side, n.id)
  /\ Becomes((resting \ {o}) \cup {n})

Next ==
  \/ \E n \in [side : Sides, id : Ids, price : Prices, quantity : Quantities] :
        \/ Enter(n)
        \/ \E o \in resting : Amend(o, n)
  \/ \E o \in resting :
        \/ Leave(o)
        \/ \E q \in Quantities : Reduce(o, q)

Spec == Init /\ [][Next]_<<resting, depth>>

=============================================================================
