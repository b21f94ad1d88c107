------------------------------ MODULE OrderBook ------------------------------
(***************************************************************************)
(* One helix::order_book and a caller that keeps the contract the class    *)
(* relies on without checking it:                                          *)
(*   - an id that is added is not the id of a stored order;                *)
(*   - quantities are not 0, and an order is not executed or cancelled for *)
(*     more than it has left;                                              *)
(*   - no level's size reaches Modulus.                                    *)
(* Unknown ids may be executed, cancelled, removed and replaced: the class *)
(* reports them and goes on.  ItchBistFeed shows which clauses of the      *)
(* contract the market data feed does not keep.                            *)
(***************************************************************************)
EXTENDS OrderBookOps

CONSTANT Quantities   \* values of order::quantity in the calls

ASSUME QuantityAssumption == Quantities \subseteq Word \ {0}

ASSUME PriceAssumption == Prices \subseteq Word   \* a price is a uint64_t

VARIABLES
  book,
  execution   \* what the last call returned, if it was execute

vars == <<book, execution>>

TypeOK == book \in Books /\ execution \in Executions

-----------------------------------------------------------------------------
Init == book = EmptyBook /\ execution = NoExecution

(* The contract of a call that takes q from order i.  That of one that     *)
(* adds an order is MayAdd.                                                *)
MayTake(i, q) == HasOrder(book, i) => q <= book.orders[i].quantity

Add(i, s, p, q) ==
  /\ MayAdd(book, i, s, p, q)
  /\ book' = AddOrder(book, i, s, p, q)
  /\ execution' = NoExecution

Replace(i, n, s, p, q) ==
  /\ \A b \in RemoveOrder(book, i) : MayAdd(b, n, s, p, q)
  /\ book' \in ReplaceOrder(book, i, n, s, p, q)
  /\ execution' = NoExecution

Cancel(i, q) ==
  /\ MayTake(i, q)
  /\ book' \in CancelOrder(book, i, q)
  /\ execution' = NoExecution

Execute(i, q) ==
  /\ MayTake(i, q)
  /\ \E r \in ExecuteOrder(book, i, q) :
        book' = r.book /\ execution' = r.execution

Remove(i) ==
  /\ book' \in RemoveOrder(book, i)
  /\ execution' = NoExecution

Next ==
  \E i \in Ids :
    \/ \E s \in Sides, p \in Prices, q \in Quantities :
          \/ Add(i, s, p, q)
          \/ \E n \in Ids : Replace(i, n, s, p, q)
    \/ \E q \in Quantities : Cancel(i, q) \/ Execute(i, q)
    \/ Remove(i)

Spec == Init /\ [][Next]_vars

-----------------------------------------------------------------------------
(* A price has a level exactly when an order is stored at it, and the      *)
(* level's size is the quantity of those orders: add, the modify() of      *)
(* cancel and execute, and remove_impl keep the maps and the container in  *)
(* step (order_book.cc:35-55, 73-80, 92-99, 115-147).                      *)
LevelsMatchOrders == LevelsMatch(book)

(* No stored order points at an erased level: the raw pointer order::level *)
(* that execute, cancel and remove_impl follow is valid (order_book.hh:58).*)
NoDanglingLevel == book.dangling = {}

(* The remaining quantity that execute reports, read before the order and  *)
(* perhaps the level are erased, is 0 exactly when the execution cleared   *)
(* the level: what itch_bist_handler::sweep_event takes it to mean         *)
(* (itch_bist_handler.hh:68-69, itch_bist_handler.cc:369-375).             *)
SweepMeansLevelCleared == ReportsLevel(book, execution)

(* The queries by level tell the orders: level 0 is the best price of any  *)
(* order of the side, each further level the next worse one, with the      *)
(* shares of the orders there; beyond the last level there is nothing.     *)
(* The midprice of a level that both sides have is between its prices, if  *)
(* their sum is a word (order_book.cc:170-275).                            *)
QueriesTellOrders ==
  \A s \in Sides :
    LET offered == {book.orders[i].price : i \in {j \in DOMAIN book.orders :
                                                   book.orders[j].side = s}}
        At(n)   == PriceOfLevel(book, s, n)
        Beats(p, r) == IF s = "buy" THEN p > r ELSE p < r
    IN  /\ LevelCount(book, s) = Cardinality(offered)
        /\ \A n \in 0 .. Cardinality(offered) - 1 :
             /\ At(n) \in offered
             /\ SizeOfLevel(book, s, n) = Cardinality(Shares(book, s, At(n)))
             /\ \A p \in offered :
                   Beats(p, At(n)) => n > 0 /\ ~Beats(At(n - 1), p)
        /\ LevelAt(book, s, Cardinality(offered)) = [price |-> 0, size |-> 0]
        /\ \A n \in 0 .. Cardinality(Prices) - 1 :
             LET bid == PriceOfLevel(book, "buy", n)
                 ask == PriceOfLevel(book, "sell", n)
             IN  /\ SizeOfLevel(book, "buy", n) # 0 /\ SizeOfLevel(book, "sell", n) # 0
                 /\ bid <= ask /\ bid + ask < Modulus
                 => Midprice(book, n) \in bid .. ask

(* The class implements the exchange's book: its orders and its levels     *)
(* change as the resting orders and the depth of the exchange do.          *)
Exchange == INSTANCE ExchangeBook WITH
  resting <- {[side |-> book.orders[i].side, id |-> i,
               price |-> book.orders[i].price,
               quantity |-> book.orders[i].quantity] : i \in DOMAIN book.orders},
  depth   <- book.levels

ReconstructsExchangeBook == Exchange!Spec

=============================================================================
