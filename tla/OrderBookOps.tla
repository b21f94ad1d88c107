---------------------------- MODULE OrderBookOps ----------------------------
(***************************************************************************)
(* The operations of class helix::order_book as functions of a book.       *)
(*                                                                         *)
(* A book is a record:                                                     *)
(*   orders  the hashed_unique container _orders, a function from the ids  *)
(*           of the stored orders to the orders;                           *)
(*   levels  the two std::maps _bids and _asks: for each side a function   *)
(*           from the prices that have a level to price_level::size;       *)
(*   dangling  the ids of the stored orders whose pointer order::level     *)
(*           points at an erased std::map node.                            *)
(*                                                                         *)
(* order::level is set once, to the node of the order's side and price, so *)
(* it dangles once that node is erased, even if a node for the same price  *)
(* is created later.  What a read or a write through a dangling pointer    *)
(* does is undefined: the operations that follow the pointer return the    *)
(* SET of their possible outcomes, one if the pointer is good.             *)
(*                                                                         *)
(* Quantities and sizes are uint64_t: arithmetic is modulo Modulus, which  *)
(* is 2^64 in the program.                                                 *)
(***************************************************************************)
EXTENDS Integers, FiniteSets

CONSTANTS
  Ids,      \* values of order::id
  Prices,   \* values of order::price
  Modulus   \* number of values of a uint64_t

ASSUME ModulusAssumption == Modulus \in Nat \ {0}

Sides  == {"buy", "sell"}
NoSide == "none"          \* static_cast<side_type>(0)
Word   == 0 .. Modulus - 1

Plus(a, b)  == (a + b) % Modulus
BugMinus(a, b) == b - a   \* see the operators named Bug... below
Minus(a, b) == (a - b) % Modulus

Partial(S, T) == UNION {[D -> T] : D \in SUBSET S}
Put(f, k, v)  == [x \in DOMAIN f \cup {k} |-> IF x = k THEN v ELSE f[x]]
Drop(f, k)    == [x \in DOMAIN f \ {k} |-> f[x]]

Orders == [side : Sides, price : Prices, quantity : Word]
Books  == [orders : Partial(Ids, Orders),
           levels : [Sides -> Partial(Prices, Word)],
           dangling : SUBSET Ids]

Executions == [valid : BOOLEAN, price : Prices \cup {0},
               side : Sides \cup {NoSide}, remaining : Word]

EmptyBook == [orders |-> [i \in {} |-> 0],
              levels |-> [s \in Sides |-> [p \in {} |-> 0]],
              dangling |-> {}]

-----------------------------------------------------------------------------
(* The queries.                                                            *)

HasOrder(b, i)    == i \in DOMAIN b.orders
HasLevel(b, s, p) == p \in DOMAIN b.levels[s]

StoredAt(b, s, p) ==
  {i \in DOMAIN b.orders : b.orders[i].side = s /\ b.orders[i].price = p}

(* order_book::side: the side of a stored order, 0 for an unknown id.      *)
SideOf(b, i) == IF HasOrder(b, i) THEN b.orders[i].side ELSE NoSide

(* The size of a level as lookup_or_create leaves it: 0 in a fresh level.  *)
SizeAt(b, s, p) == IF HasLevel(b, s, p) THEN b.levels[s][p] ELSE 0

(* Both maps in the same order.                                            *)
BugBefore(s, p, r) == p < r

(* The order of the maps: std::greater for bids, std::less for asks.       *)
Before(s, p, r) == IF s = "buy" THEN p > r ELSE p < r

(* Where an iterator is after n steps: nowhere, or at the n-th price, the  *)
(* first being number 0.                                                   *)
PricesAt(b, s, n) ==
  {p \in DOMAIN b.levels[s] :
     Cardinality({r \in DOMAIN b.levels[s] : Before(s, r, p)}) = n}

(* bid_level and ask_level; price_level{} beyond the last level.           *)
LevelAt(b, s, n) ==
  IF PricesAt(b, s, n) = {}
  THEN [price |-> 0, size |-> 0]
  ELSE LET p == CHOOSE p \in PricesAt(b, s, n) : TRUE
       IN  [price |-> p, size |-> b.levels[s][p]]

(* bid_size and ask_size, bid_price and ask_price.  An ask that is not     *)
(* there has the highest price of all.                                     *)
SizeOfLevel(b, s, n) == LevelAt(b, s, n).size

PriceOfLevel(b, s, n) ==
  IF s = "sell" /\ PricesAt(b, s, n) = {} THEN Modulus - 1 ELSE LevelAt(b, s, n).price

LevelCount(b, s) == Cardinality(DOMAIN b.levels[s])
OrderCount(b)    == Cardinality(DOMAIN b.orders)

Midprice(b, n) == Plus(PriceOfLevel(b, "buy", n), PriceOfLevel(b, "sell", n)) \div 2

-----------------------------------------------------------------------------
(* Each operator named Bug... is an operation with a mistake in it that     *)
(* the checks must notice.                                                 *)

(* A new order overwrites the size of its level.                           *)
BugAddOverwrites(b, i, s, p, q) ==
  LET order == [side |-> s, price |-> p, quantity |-> q]
  IN  [b EXCEPT !.orders = IF HasOrder(b, i) THEN @ ELSE Put(@, i, order),
                !.levels[s] = Put(@, p, q)]

(* order_book::add.  The level is credited before _orders.emplace, which   *)
(* stores nothing when an order with the same id is already there.         *)
AddOrder(b, i, s, p, q) ==
  LET order == [side |-> s, price |-> p, quantity |-> q]
  IN  [b EXCEPT !.orders = IF HasOrder(b, i) THEN @ ELSE Put(@, i, order),
                !.levels[s] = Put(@, p, Plus(SizeAt(b, s, p), q))]

(* order.level->size -= q.  Through a dangling pointer the write hits      *)
(* freed memory: nothing, or the node of any level allocated there since.  *)
Debit(b, s, p, q) == [b EXCEPT !.levels[s][p] = Minus(@, q)]

DebitLevel(b, i, q) ==
  IF i \in b.dangling
  THEN {b} \cup UNION {{Debit(b, s, p, q) : p \in DOMAIN b.levels[s]} : s \in Sides}
  ELSE {Debit(b, b.orders[i].side, b.orders[i].price, q)}

(* The level is erased whatever is left in it.                             *)
BugEraseLevel(b, s, p) ==
  [b EXCEPT !.levels[s] = Drop(@, p), !.dangling = @ \cup StoredAt(b, s, p)]

(* levels.erase(it) if the level is at size 0: the node goes, and the      *)
(* orders that pointed at it are left with a dangling pointer.             *)
EraseLevelIfEmpty(b, s, p) ==
  IF b.levels[s][p] = 0
  THEN [b EXCEPT !.levels[s] = Drop(@, p),
                 !.dangling = @ \cup StoredAt(b, s, p)]
  ELSE b

DropOrder(b, i) == [orders |-> Drop(b.orders, i), levels |-> b.levels,
                    dangling |-> b.dangling \ {i}]

(* The two remove_impl: debit the level, erase it if that leaves it at 0,  *)
(* then erase the order; if the price has no level, only the order goes.   *)
EraseOrder(b, i) ==
  LET o == b.orders[i]
  IN  IF HasLevel(b, o.side, o.price)
      THEN {DropOrder(EraseLevelIfEmpty(c, o.side, o.price), i)
            : c \in DebitLevel(b, i, o.quantity)}
      ELSE {DropOrder(b, i)}

(* order_book::remove.  An unknown id is only reported.                    *)
RemoveOrder(b, i) == IF HasOrder(b, i) THEN EraseOrder(b, i) ELSE {b}

(* The modify() of cancel and execute.                                     *)
TakeQuantity(b, i, q) ==
  DebitLevel([b EXCEPT !.orders[i].quantity = Minus(@, q)], i, q)

(* Spent orders are kept; orders are erased when partly filled.            *)
BugKeepSpent(b, i)    == {b}
BugEraseAlways(b, i)  == EraseOrder(b, i)

(* "if (!it->quantity) remove_impl(it)" of cancel and execute.             *)
EraseIfSpent(b, i) == IF b.orders[i].quantity = 0 THEN EraseOrder(b, i) ELSE {b}

CancelOrder(b, i, q) ==
  IF HasOrder(b, i)
  THEN UNION {EraseIfSpent(c, i) : c \in TakeQuantity(b, i, q)}
  ELSE {b}

(* execution::side has no initializer.                                     *)
BugNoExecution == [valid |-> FALSE, price |-> 0, side |-> "garbage", remaining |-> 0]

(* execution{}: what execute returns for an unknown id.                    *)
NoExecution == [valid |-> FALSE, price |-> 0, side |-> NoSide, remaining |-> 0]

(* What the order, not the level, has left.                                *)
BugRemaining(b, i) == {b.orders[i].quantity}

(* it->level->size, read after the debit and before the order is erased.   *)
Remaining(b, i) ==
  IF i \in b.dangling THEN Word
                      ELSE {b.levels[b.orders[i].side][b.orders[i].price]}

ExecuteOrder(b, i, q) ==
  IF HasOrder(b, i)
  THEN UNION {{[book |-> d,
                execution |-> [valid |-> TRUE, price |-> b.orders[i].price,
                               side |-> b.orders[i].side, remaining |-> r]]
               : r \in Remaining(c, i), d \in EraseIfSpent(c, i)}
              : c \in TakeQuantity(b, i, q)}
  ELSE {[book |-> b, execution |-> NoExecution]}

(* order_book::replace = remove, then add the new order.                   *)
ReplaceOrder(b, i, n, s, p, q) ==
  {AddOrder(c, n, s, p, q) : c \in RemoveOrder(b, i)}

-----------------------------------------------------------------------------
(* The contract, and what the operations are to keep if it is kept.        *)

(* The contract of a call that adds n to the book b.                       *)
MayAdd(b, n, s, p, q) == ~HasOrder(b, n) /\ SizeAt(b, s, p) + q < Modulus

(* What the levels aggregate: the shares of the orders stored at a price,  *)
(* a share being an id and a number from 1 to the order's quantity.        *)
Shares(b, s, p) ==
  {x \in StoredAt(b, s, p) \X (1 .. Modulus) : x[2] <= b.orders[x[1]].quantity}

LevelsMatch(b) ==
  \A s \in Sides :
    /\ DOMAIN b.levels[s] = {p \in Prices : StoredAt(b, s, p) # {}}
    /\ \A p \in DOMAIN b.levels[s] :
          b.levels[s][p] = Cardinality(Shares(b, s, p))

(* An execution tells of its level: the size it has afterwards, which is 0 *)
(* exactly if the level is gone.                                           *)
ReportsLevel(b, e) ==
  e.valid => /\ e.remaining = SizeAt(b, e.side, e.price)
             /\ e.remaining = 0 <=> ~HasLevel(b, e.side, e.price)

(* How many shares some orders are, which is what their quantities add up  *)
(* to.                                                                     *)
Total(os) == Cardinality({x \in os \X (1 .. Modulus) : x[2] <= x[1].quantity})

=============================================================================
