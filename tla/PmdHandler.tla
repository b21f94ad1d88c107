----------------------------- MODULE PmdHandler -----------------------------
(***************************************************************************)
(* parity::pmd_handler and an exchange that sends it PMD messages: one     *)
(* action per process_msg overload, and subscribe, which may come at any   *)
(* time.                                                                   *)
(*                                                                         *)
(* The order books are kept by instrument.  Messages about an order carry  *)
(* its number only: _order_id_map leads to the book, and keeps the numbers *)
(* of orders that are gone.  The messages come once and in order (MoldUdp64*)
(* sees to it).  An exception leaves process_packet; fault holds it.       *)
(*                                                                         *)
(* The exchange's clock counts nanoseconds; a message has those of its     *)
(* second only, and the second comes in a message of its own.  The events  *)
(* are not raised (their lines are commented out).                         *)
(***************************************************************************)
EXTENDS OrderBookOps

CONSTANTS
  Symbols,          \* the padded instruments
  Quantities,
  MillisPerSecond,  \* 1000 in the program
  NanosPerMilli,    \* 1000000 in the program
  MaxClock          \* bound on the exchange's clock

ASSUME PmdAssumption ==
  /\ Quantities \subseteq Word \ {0}
  /\ \A q, r \in Quantities : r < q => q - r \in Quantities
  /\ MillisPerSecond \in Nat \ {0} /\ NanosPerMilli \in Nat \ {0}
  /\ MaxClock \in Nat

VARIABLES
  _order_book_id_map,   \* for the subscribed instruments: book and timestamp
  _order_id_map,        \* the instrument of each order number seen
  _seconds,
  fault,
  resting,   \* the exchange's orders; seen if the instrument was subscribed
  used,      \* the order numbers given away
  clock,
  begun      \* whether the session has begun, with the second

handlerVars  == <<_order_book_id_map, _order_id_map, _seconds, fault>>
exchangeVars == <<resting, used, clock, begun>>
vars == <<handlerVars, exchangeVars>>

RestingOrders == [symbol : Symbols, side : Sides, id : Ids, price : Prices,
                  quantity : Quantities, seen : BOOLEAN]

Subscribed == DOMAIN _order_book_id_map

(* _seconds has no initializer.                                            *)
Init ==
  /\ _order_book_id_map = [k \in {} |-> 0]
  /\ _order_id_map = [i \in {} |-> ""]
  /\ _seconds \in 0 .. MaxClock
  /\ fault = "none"
  /\ resting = {} /\ used = {} /\ clock = 0 /\ begun = FALSE

-----------------------------------------------------------------------------
(* The handler.                                                            *)

(* The operators named Bug... have a mistake that the checks must notice:  *)
(* here, every second starts again at 0.                                   *)
BugToTimestamp(nanoseconds) == nanoseconds \div NanosPerMilli

to_timestamp(nanoseconds) ==
  _seconds * MillisPerSecond + nanoseconds \div NanosPerMilli

(* emplace leaves a book that is already there alone.                      *)
subscribe(k) ==
  /\ _order_book_id_map' =
       IF k \in Subscribed THEN _order_book_id_map
       ELSE Put(_order_book_id_map, k, [book |-> EmptyBook, timestamp |-> 0])
  /\ UNCHANGED <<_order_id_map, _seconds, fault>>

(* 'V' and 'B'.                                                            *)
Ignored == UNCHANGED handlerVars

(* 'S'                                                                     *)
Second(t) ==
  _seconds' = t /\ UNCHANGED <<_order_book_id_map, _order_id_map, fault>>

UnknownType ==
  /\ fault' = "unknown_message_type"
  /\ UNCHANGED <<_order_book_id_map, _order_id_map, _seconds>>

Store(k, b, nanoseconds) ==
  _order_book_id_map' =
    [_order_book_id_map EXCEPT ![k] = [book |-> b, timestamp |-> to_timestamp(nanoseconds)]]

(* The number of the order is not noted.                                   *)
BugOrderAdded(k, i, side, price, quantity, nanoseconds) ==
  /\ IF k \in Subscribed
     THEN Store(k, AddOrder(_order_book_id_map[k].book, i, side, price, quantity),
                nanoseconds)
     ELSE UNCHANGED _order_book_id_map
  /\ UNCHANGED <<_order_id_map, _seconds, fault>>

(* 'A'.  A side that is neither B nor S, NoSide here, is an exception;     *)
(* insert leaves a number that is in the map where it is.                  *)
OrderAdded(k, i, side, price, quantity, nanoseconds) ==
  \/ k \notin Subscribed /\ Ignored
  \/ /\ k \in Subscribed /\ side \in Sides
     /\ Store(k, AddOrder(_order_book_id_map[k].book, i, side, price, quantity), nanoseconds)
     /\ _order_id_map' = IF i \in DOMAIN _order_id_map THEN _order_id_map
                         ELSE Put(_order_id_map, i, k)
     /\ UNCHANGED <<_seconds, fault>>
  \/ /\ k \in Subscribed /\ side \notin Sides
     /\ fault' = "invalid side"
     /\ UNCHANGED <<_order_book_id_map, _order_id_map, _seconds>>

(* 'E'.  The trade's sign is asked for when book and time are changed.     *)
OrderExecuted(i, quantity, nanoseconds) ==
  \/ i \notin DOMAIN _order_id_map /\ Ignored
  \/ /\ i \in DOMAIN _order_id_map
     /\ LET k == _order_id_map[i]
        IN  \E r \in ExecuteOrder(_order_book_id_map[k].book, i, quantity) :
              /\ Store(k, r.book, nanoseconds)
              /\ fault' = IF r.execution.side = NoSide THEN "invalid trade sign" ELSE fault
     /\ UNCHANGED <<_order_id_map, _seconds>>

(* The order is removed, whatever the quantity.                            *)
BugOrderCanceled(i, quantity, nanoseconds) ==
  /\ i \in DOMAIN _order_id_map
  /\ LET k == _order_id_map[i]
     IN  \E b \in RemoveOrder(_order_book_id_map[k].book, i) : Store(k, b, nanoseconds)
  /\ UNCHANGED <<_order_id_map, _seconds, fault>>

(* 'X'                                                                     *)
OrderCanceled(i, quantity, nanoseconds) ==
  \/ i \notin DOMAIN _order_id_map /\ Ignored
  \/ /\ i \in DOMAIN _order_id_map
     /\ LET k == _order_id_map[i]
        IN  \E b \in CancelOrder(_order_book_id_map[k].book, i, quantity) :
              Store(k, b, nanoseconds)
     /\ UNCHANGED <<_order_id_map, _seconds, fault>>

(* 'D'                                                                     *)
OrderDeleted(i, nanoseconds) ==
  \/ i \notin DOMAIN _order_id_map /\ Ignored
  \/ /\ i \in DOMAIN _order_id_map
     /\ LET k == _order_id_map[i]
        IN  \E b \in RemoveOrder(_order_book_id_map[k].book, i) : Store(k, b, nanoseconds)
     /\ UNCHANGED <<_order_id_map, _seconds, fault>>

-----------------------------------------------------------------------------
(* The exchange.  An order number is used once.                            *)

NanosPerSecond == MillisPerSecond * NanosPerMilli

Nanos == clock % NanosPerSecond

(* The session begins with the second it is in.                            *)
Begin ==
  /\ ~begun /\ begun' = TRUE
  /\ Second(clock \div NanosPerSecond)
  /\ UNCHANGED <<resting, used, clock>>

Tick ==
  /\ begun /\ clock < MaxClock
  /\ clock' = clock + 1
  /\ \/ clock' % NanosPerSecond = 0 /\ Second(clock' \div NanosPerSecond)
     \/ clock' % NanosPerSecond # 0 /\ Ignored
  /\ UNCHANGED <<resting, used, begun>>

Enter(o) ==
  /\ begun /\ o.id \notin used
  /\ o.seen <=> o.symbol \in Subscribed
  /\ resting' = resting \cup {o} /\ used' = used \cup {o.id}
  /\ OrderAdded(o.symbol, o.id, o.side, o.price, o.quantity, Nanos)
  /\ UNCHANGED <<clock, begun>>

Taken(o, q) ==
  (resting \ {o}) \cup
     (IF q = o.quantity THEN {} ELSE {[o EXCEPT !.quantity = @ - q]})

Fill(o, q) ==
  /\ q <= o.quantity
  /\ resting' = Taken(o, q)
  /\ OrderExecuted(o.id, q, Nanos)
  /\ UNCHANGED <<used, clock, begun>>

Reduce(o, q) ==
  /\ q <= o.quantity
  /\ resting' = Taken(o, q)
  /\ OrderCanceled(o.id, q, Nanos)
  /\ UNCHANGED <<used, clock, begun>>

Leave(o) ==
  /\ resting' = resting \ {o}
  /\ OrderDeleted(o.id, Nanos)
  /\ UNCHANGED <<used, clock, begun>>

VersionOrBrokenTrade == Ignored /\ UNCHANGED exchangeVars

Malformed ==
  /\ \/ UnknownType
     \/ \E k \in Symbols, i \in Ids \ used, p \in Prices, q \in Quantities :
           k \in Subscribed /\ OrderAdded(k, i, NoSide, p, q, Nanos)
  /\ UNCHANGED exchangeVars

Message ==
  \/ Begin \/ Tick \/ VersionOrBrokenTrade \/ Malformed
  \/ \E o \in RestingOrders : Enter(o)
  \/ \E o \in resting :
        Leave(o) \/ \E q \in Quantities : Fill(o, q) \/ Reduce(o, q)

Next ==
  \/ fault = "none" /\ Message
  \/ fault = "none" /\ (\E k \in Symbols : subscribe(k)) /\ UNCHANGED exchangeVars
  \/ fault # "none" /\ UNCHANGED vars

Spec == Init /\ [][Next]_vars

-----------------------------------------------------------------------------
TypeOK ==
  /\ Subscribed \subseteq Symbols
  /\ \A k \in Subscribed : /\ _order_book_id_map[k].book \in Books
                            /\ _order_book_id_map[k].timestamp \in Nat
  /\ _order_id_map \in Partial(Ids, Symbols)
  /\ _seconds \in 0 .. MaxClock
  /\ fault \in {"none", "unknown_message_type", "invalid side", "invalid trade sign"}
  /\ resting \subseteq RestingOrders /\ used \subseteq Ids
  /\ clock \in 0 .. MaxClock /\ begun \in BOOLEAN

(* The depth of the orders of an instrument that were entered since its    *)
(* subscription, as the exchange counts it.                                *)
Seen(k) == {o \in resting : o.symbol = k /\ o.seen}

Depth(k, s, p) == Total({o \in Seen(k) : o.side = s /\ o.price = p})

(* The book of a subscribed instrument has that depth; of an older order   *)
(* every message is ignored (pmd_handler.cc:39-49, 87-158).                *)
Mirrored ==
  \A k \in Subscribed, s \in Sides, p \in Prices :
    LET b == _order_book_id_map[k].book
    IN  /\ SizeAt(b, s, p) = Depth(k, s, p)
        /\ HasLevel(b, s, p) <=> Depth(k, s, p) # 0

(* The numbers lead to the orders: a resting order that was seen is found  *)
(* in the book of its instrument; a number that is left over leads nowhere *)
(* a resting order could be taken for it (pmd_handler.cc:101, 112, 130,    *)
(* 147: nothing is ever erased from the map).                              *)
NumbersLeadHome ==
  /\ \A o \in resting :
       o.seen <=> o.id \in DOMAIN _order_id_map /\ _order_id_map[o.id] = o.symbol
                  /\ HasOrder(_order_book_id_map[o.symbol].book, o.id)
  /\ \A k \in Subscribed : \A i \in DOMAIN _order_book_id_map[k].book.orders :
       i \in DOMAIN _order_id_map /\ _order_id_map[i] = k

(* Nothing but a malformed message makes the handler throw: it never asks  *)
(* for the sign of an execution of an order that is gone                   *)
(* (pmd_handler.cc:21-28, 109-125).                                        *)
ThrowsOnlyIfMalformed == [][fault' # fault => Malformed]_vars

(* A book's time stamp is the exchange's time at the last message about    *)
(* it, although _seconds starts uninitialized and messages have only the   *)
(* time within their second (pmd_handler.hh:37, pmd_handler.cc:82-85,      *)
(* 172-175): it never runs ahead and never goes back.                      *)
StampedInTime ==
  [][\A k \in Subscribed :
       /\ _order_book_id_map'[k].timestamp >= _order_book_id_map[k].timestamp
       /\ _order_book_id_map'[k].book # _order_book_id_map[k].book =>
            _order_book_id_map'[k].timestamp = clock \div NanosPerMilli]_vars

=============================================================================
