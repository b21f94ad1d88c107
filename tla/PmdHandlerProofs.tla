-------------------------- MODULE PmdHandlerProofs --------------------------
(* That the Parity handler's books, map and times follow the exchange, for *)
(* any instruments, order numbers, prices and units of time.               *)
EXTENDS PmdHandler, OrderBookOpsProofs

Book(k) == _order_book_id_map[k].book

(* The inductive invariant.  Every book holds the orders that were seen of *)
(* its instrument, no more and no less, whatever its levels say; the map   *)
(* of numbers has none that the exchange has not given away; once the      *)
(* session has begun, _seconds is right.                                   *)
BookFollows(k) ==
  /\ Book(k) \in Books
  /\ Holds(Book(k), Seen(k))
  /\ _order_book_id_map[k].timestamp \in Nat
  /\ _order_book_id_map[k].timestamp <= clock \div NanosPerMilli

IsResting(o) ==
  /\ o \in RestingOrders /\ o.id \in used
  /\ o.seen => /\ o.symbol \in Subscribed
               /\ o.id \in DOMAIN _order_id_map /\ _order_id_map[o.id] = o.symbol
  /\ ~o.seen => o.id \notin DOMAIN _order_id_map

MapsFollow ==
  /\ Subscribed \subseteq Symbols
  /\ _order_id_map \in Partial(Ids, Symbols)
  /\ DOMAIN _order_id_map \subseteq used
  /\ used \subseteq Ids

ClockFollows ==
  /\ clock \in 0 .. MaxClock /\ _seconds \in 0 .. MaxClock
  /\ begun \in BOOLEAN
  /\ IF begun THEN _seconds = clock \div NanosPerSecond ELSE used = {}

FaultOK ==
  fault \in {"none", "unknown_message_type", "invalid side", "invalid trade sign"}

IInv ==
  /\ \A k \in Subscribed : BookFollows(k)
  /\ \A o \in resting : IsResting(o)
  /\ \A o, x \in resting : o.id = x.id => o = x
  /\ MapsFollow /\ ClockFollows /\ FaultOK

LEMMA UnitsArePositive ==
  /\ MillisPerSecond \in Nat \ {0} /\ NanosPerMilli \in Nat \ {0}
  /\ NanosPerSecond \in Nat \ {0}
BY PmdAssumption, TimeSplit DEF NanosPerSecond

LEMMA QuantitiesAreWords ==
  \A q \in Quantities : q \in Word /\ q \in Nat /\ q # 0
BY PmdAssumption, WordIsNat

LEMMA InitInv == Init => IInv
<1> SUFFICES ASSUME Init PROVE IInv
  OBVIOUS
<1>1. Subscribed = {} /\ DOMAIN _order_id_map = {}
  BY DEF Init, Subscribed
<1>2. _order_id_map \in Partial(Ids, Symbols)
  <2>1. _order_id_map \in [{} -> Symbols]
    BY DEF Init
  <2>2. QED BY <2>1 DEF Partial
<1>3. MapsFollow
  BY <1>1, <1>2 DEF Init, MapsFollow
<1>4. ClockFollows
  <2>1. clock \in 0 .. MaxClock /\ _seconds \in 0 .. MaxClock /\ used = {}
    BY PmdAssumption DEF Init
  <2>2. begun \in BOOLEAN /\ ~begun
    BY Zenon DEF Init
  <2>3. QED BY <2>1, <2>2 DEF ClockFollows
<1>5. FaultOK
  BY DEF Init, FaultOK
<1>6. QED BY <1>1, <1>3, <1>4, <1>5 DEF Init, IInv

-----------------------------------------------------------------------------
(* The time stamp of a message is the exchange's time: the seconds of the  *)
(* last 'S' and the nanoseconds of the message make one time.              *)
LEMMA StampIsTime ==
  ASSUME IInv, begun
  PROVE  /\ to_timestamp(Nanos) = clock \div NanosPerMilli
         /\ to_timestamp(Nanos) \in Nat
<1>1. clock \in Nat /\ _seconds = clock \div NanosPerSecond
  BY PmdAssumption DEF IInv, ClockFollows
<1>2. to_timestamp(Nanos) = clock \div NanosPerMilli
  BY <1>1, PmdAssumption, TimeSplit DEF to_timestamp, Nanos, NanosPerSecond
<1>3. QED BY <1>1, <1>2, UnitsArePositive, DivMod

(* A message about an order that rests finds it, if the order was seen.    *)
LEMMA Found ==
  ASSUME IInv, NEW o \in resting
  PROVE  /\ begun
         /\ o \in RestingOrders /\ o.quantity \in Word /\ o.side \in Sides
         /\ o.seen <=> o.id \in DOMAIN _order_id_map
         /\ o.seen => /\ _order_id_map[o.id] = o.symbol
                      /\ o.symbol \in Subscribed
                      /\ o \in Seen(o.symbol)
                      /\ Book(o.symbol) \in Books
                      /\ Holds(Book(o.symbol), Seen(o.symbol))
                      /\ HasOrder(Book(o.symbol), o.id)
                      /\ Book(o.symbol).orders[o.id].side = o.side
                      /\ Book(o.symbol).orders[o.id].quantity = o.quantity
<1>1. IsResting(o)
  BY DEF IInv
<1>2. begun
  BY <1>1 DEF IsResting, IInv, ClockFollows
<1>3. o.quantity \in Word /\ o.side \in Sides
  BY <1>1, QuantitiesAreWords DEF IsResting, RestingOrders
<1>4. ASSUME o.seen
      PROVE  /\ o \in Seen(o.symbol)
             /\ Book(o.symbol) \in Books /\ Holds(Book(o.symbol), Seen(o.symbol))
  BY <1>1, <1>4 DEF IsResting, Seen, IInv, BookFollows
<1>5. QED BY <1>1, <1>2, <1>3, <1>4, HeldFields DEF IsResting, HasOrder

(* What becomes of a resting order that is filled, reduced or deleted, in  *)
(* the exchange and in the handler: left is what rests of it.              *)
IsLeft(o, left) ==
  /\ left \subseteq RestingOrders
  /\ \A x \in left : x.id = o.id /\ x.symbol = o.symbol /\ x.seen = o.seen
  /\ \A x, y \in left : x = y

Departs(o, left) ==
  /\ resting' = (resting \ {o}) \cup left
  /\ UNCHANGED <<_order_id_map, _seconds, fault, used, clock, begun>>
  /\ ~o.seen => UNCHANGED _order_book_id_map
  /\ o.seen => \E c \in Books :
       /\ Store(o.symbol, c, Nanos)
       /\ Holds(c, (Seen(o.symbol) \ {o}) \cup left)
       /\ Consistent(Book(o.symbol)) => Consistent(c)

Rest(o, q) == IF q = o.quantity THEN {} ELSE {[o EXCEPT !.quantity = @ - q]}

LEMMA RestIsLeft ==
  ASSUME NEW o \in RestingOrders, NEW q \in Quantities, q <= o.quantity
  PROVE  /\ IsLeft(o, Rest(o, q))
         /\ Taken(o, q) = (resting \ {o}) \cup Rest(o, q)
<1>1. q # o.quantity => [o EXCEPT !.quantity = @ - q] \in RestingOrders
  BY PmdAssumption, QuantitiesAreWords DEF RestingOrders
<1>2. QED BY <1>1 DEF IsLeft, Rest, Taken, RestingOrders

(* The book from which q is taken holds the orders from which q is taken.  *)
LEMMA RestHeld ==
  ASSUME NEW b, NEW os, Holds(b, os), NEW o \in os, o \in RestingOrders,
         NEW q \in Quantities, q <= o.quantity,
         NEW c, c.orders = Afterwards(b.orders, o.id, q)
  PROVE  Holds(c, (os \ {o}) \cup Rest(o, q))
<1> DEFINE x == [o EXCEPT !.quantity = @ - q]
<1>1. x.id = o.id /\ x.side = o.side /\ x.price = o.price /\ x.quantity = o.quantity - q
  BY DEF RestingOrders
<1>2. o.quantity \in Word /\ q \in Nat
  BY QuantitiesAreWords DEF RestingOrders
<1> HIDE DEF x
<1>3. Holds(c, (os \ {o}) \cup (IF q = o.quantity THEN {} ELSE {x}))
  BY <1>1, <1>2, HoldsTaken
<1>4. QED BY <1>3 DEF Rest, x

LEMMA LeaveDeparts ==
  ASSUME IInv, NEW o \in resting, Leave(o)
  PROVE  IsLeft(o, {}) /\ Departs(o, {})
<1>1. IsLeft(o, {}) /\ resting' = (resting \ {o}) \cup {}
  BY DEF IsLeft, Leave
<1>2. CASE ~o.seen
  BY <1>1, <1>2, Found DEF Leave, OrderDeleted, Ignored, handlerVars, Departs
<1>3. CASE o.seen
  <2>1. PICK c \in RemoveOrder(Book(o.symbol), o.id) : Store(o.symbol, c, Nanos)
    BY <1>3, Found DEF Leave, OrderDeleted, Book
  <2>2. c \in Books /\ c.orders = Drop(Book(o.symbol).orders, o.id)
    BY <1>3, Found, RemoveAny
  <2>3. Holds(c, (Seen(o.symbol) \ {o}) \cup {})
    BY <1>3, <2>2, Found, HoldsFewer
  <2>4. Consistent(Book(o.symbol)) => Consistent(c)
    BY <2>1, RemoveConsistent
  <2>5. UNCHANGED <<_order_id_map, _seconds, fault>>
    BY <1>3, Found DEF Leave, OrderDeleted, Ignored
  <2>6. QED BY <1>1, <1>3, <2>1, <2>2, <2>3, <2>4, <2>5 DEF Leave, Departs
<1>4. QED BY <1>1, <1>2, <1>3

LEMMA ReduceDeparts ==
  ASSUME IInv, NEW o \in resting, NEW q \in Quantities, Reduce(o, q)
  PROVE  IsLeft(o, Rest(o, q)) /\ Departs(o, Rest(o, q))
<1>0. q \in Nat /\ q <= o.quantity
  BY QuantitiesAreWords DEF Reduce
<1>1. IsLeft(o, Rest(o, q)) /\ resting' = (resting \ {o}) \cup Rest(o, q)
  BY <1>0, Found, RestIsLeft DEF Reduce
<1>2. CASE ~o.seen
  BY <1>1, <1>2, Found DEF Reduce, OrderCanceled, Ignored, handlerVars, Departs
<1>3. CASE o.seen
  <2>1. PICK c \in CancelOrder(Book(o.symbol), o.id, q) : Store(o.symbol, c, Nanos)
    BY <1>3, Found DEF Reduce, OrderCanceled, Book
  <2>2. c \in Books /\ c.orders = Afterwards(Book(o.symbol).orders, o.id, q)
    BY <1>0, <1>3, Found, CancelAny
  <2>3. Holds(c, (Seen(o.symbol) \ {o}) \cup Rest(o, q))
    BY <1>0, <1>3, <2>2, Found, RestHeld
  <2>4. Consistent(Book(o.symbol)) => Consistent(c)
    BY <1>0, <1>3, <2>1, Found, CancelConsistent
  <2>5. UNCHANGED <<_order_id_map, _seconds, fault>>
    BY <1>3, Found DEF Reduce, OrderCanceled, Ignored
  <2>6. QED BY <1>1, <1>3, <2>1, <2>2, <2>3, <2>4, <2>5 DEF Reduce, Departs
<1>4. QED BY <1>1, <1>2, <1>3

LEMMA FillDeparts ==
  ASSUME IInv, NEW o \in resting, NEW q \in Quantities, Fill(o, q)
  PROVE  IsLeft(o, Rest(o, q)) /\ Departs(o, Rest(o, q))
<1>0. q \in Nat /\ q <= o.quantity
  BY QuantitiesAreWords DEF Fill
<1>1. IsLeft(o, Rest(o, q)) /\ resting' = (resting \ {o}) \cup Rest(o, q)
  BY <1>0, Found, RestIsLeft DEF Fill
<1>2. CASE ~o.seen
  BY <1>1, <1>2, Found DEF Fill, OrderExecuted, Ignored, handlerVars, Departs
<1>3. CASE o.seen
  <2>1. PICK r \in ExecuteOrder(Book(o.symbol), o.id, q) :
               /\ Store(o.symbol, r.book, Nanos)
               /\ fault' = IF r.execution.side = NoSide THEN "invalid trade sign"
                                                        ELSE fault
    BY <1>3, Found DEF Fill, OrderExecuted, Book
  <2>2. /\ r.book \in Books
        /\ r.book.orders = Afterwards(Book(o.symbol).orders, o.id, q)
        /\ r.execution.side = o.side
    BY <1>0, <1>3, Found, ExecuteAny
  <2>3. Holds(r.book, (Seen(o.symbol) \ {o}) \cup Rest(o, q))
    BY <1>0, <1>3, <2>2, Found, RestHeld
  <2>4. Consistent(Book(o.symbol)) => Consistent(r.book)
    BY <1>0, <1>3, <2>1, Found, ExecuteConsistent
  <2>5. UNCHANGED <<_order_id_map, _seconds>>
    BY <1>3, Found DEF Fill, OrderExecuted, Ignored
  <2>6. fault' = fault
    BY <2>1, <2>2, Found DEF Sides, NoSide
  <2>7. QED BY <1>1, <1>3, <2>1, <2>2, <2>3, <2>4, <2>5, <2>6 DEF Fill, Departs
<1>4. QED BY <1>1, <1>2, <1>3

-----------------------------------------------------------------------------
(* The actions keep the invariant.                                         *)
LEMMA StoreStamped ==
  ASSUME IInv, begun, NEW k \in Subscribed, NEW c \in Books, Store(k, c, Nanos),
         Holds(c, Seen(k)'), \A j \in Subscribed \ {k} : Seen(j)' = Seen(j),
         UNCHANGED clock
  PROVE  /\ Subscribed' = Subscribed
         /\ \A j \in Subscribed' : BookFollows(j)'
<1>1. /\ Subscribed' = Subscribed
      /\ _order_book_id_map'[k] = [book |-> c, timestamp |-> to_timestamp(Nanos)]
      /\ \A j \in Subscribed \ {k} : _order_book_id_map'[j] = _order_book_id_map[j]
  BY DEF Store, Subscribed
<1>2. BookFollows(k)'
  <2>1. clock \div NanosPerMilli \in Nat
    BY StampIsTime
  <2>2. /\ Book(k)' = c
        /\ _order_book_id_map'[k].timestamp = clock' \div NanosPerMilli
    BY <1>1, StampIsTime DEF Book
  <2>3. QED BY <2>1, <2>2 DEF BookFollows
<1>3. ASSUME NEW j \in Subscribed \ {k} PROVE BookFollows(j)'
  BY <1>1 DEF IInv, BookFollows, Book
<1>4. QED BY <1>1, <1>2, <1>3

LEMMA DepartInv ==
  ASSUME IInv, NEW o \in resting, NEW left, IsLeft(o, left), Departs(o, left)
  PROVE  IInv'
<1>1. IsResting(o) /\ begun
  BY Found DEF IInv
<1>2. /\ resting' = (resting \ {o}) \cup left
      /\ UNCHANGED <<_order_id_map, _seconds, fault, used, clock, begun>>
      /\ left \subseteq RestingOrders
      /\ \A x \in left : x.id = o.id /\ x.symbol = o.symbol /\ x.seen = o.seen
      /\ \A x, y \in left : x = y
  BY DEF Departs, IsLeft
<1>3. \A j \in Symbols : Seen(j)' = IF o.seen /\ o.symbol = j
                                    THEN (Seen(j) \ {o}) \cup left ELSE Seen(j)
  BY <1>2 DEF Seen
<1>4. /\ Subscribed' = Subscribed
      /\ \A j \in Subscribed' : BookFollows(j)'
  <2>1. CASE ~o.seen
    <3>1. UNCHANGED _order_book_id_map
      BY <2>1 DEF Departs
    <3>2. QED BY <1>2, <1>3, <2>1, <3>1
          DEF IInv, MapsFollow, BookFollows, Book, Subscribed
  <2>2. CASE o.seen
    <3>1. PICK c \in Books :
                 Store(o.symbol, c, Nanos) /\ Holds(c, (Seen(o.symbol) \ {o}) \cup left)
      BY <2>2 DEF Departs
    <3>2. o.symbol \in Subscribed /\ Subscribed \subseteq Symbols
      BY <1>1, <2>2 DEF IsResting, IInv, MapsFollow
    <3>3. /\ Holds(c, Seen(o.symbol)')
          /\ \A j \in Subscribed \ {o.symbol} : Seen(j)' = Seen(j)
      BY <1>3, <2>2, <3>1, <3>2
    <3>4. QED BY <1>1, <1>2, <3>1, <3>2, <3>3, StoreStamped
  <2>3. QED BY <2>1, <2>2
<1>5. \A x \in resting' : IsResting(x)'
  <2>1. \A x \in resting : IsResting(x)'
    BY <1>2, <1>4 DEF IInv, IsResting
  <2>2. \A x \in left : IsResting(x)'
    BY <1>1, <1>2, <1>4 DEF IsResting
  <2>3. QED BY <1>2, <2>1, <2>2
<1>6. \A x, y \in resting' : x.id = y.id => x = y
  BY <1>2 DEF IInv
<1>7. MapsFollow' /\ ClockFollows' /\ FaultOK'
  BY <1>2, <1>4 DEF IInv, MapsFollow, ClockFollows, FaultOK
<1>8. QED BY <1>4, <1>5, <1>6, <1>7 DEF IInv

(* A new order, of an instrument that is subscribed or not.                *)
LEMMA EnterIs ==
  ASSUME IInv, NEW o \in RestingOrders, Enter(o)
  PROVE  /\ ~o.seen => UNCHANGED handlerVars
         /\ o.seen => /\ o.symbol \in Subscribed
                      /\ o.id \notin DOMAIN _order_id_map
                      /\ ~HasOrder(Book(o.symbol), o.id)
                      /\ Store(o.symbol, AddOrder(Book(o.symbol), o.id, o.side, o.price,
                                                  o.quantity), Nanos)
                      /\ _order_id_map' = Put(_order_id_map, o.id, o.symbol)
                      /\ UNCHANGED <<_seconds, fault>>
<1>1. CASE ~o.seen
  BY <1>1 DEF Enter, OrderAdded, Ignored
<1>2. CASE o.seen
  <2>1. o.symbol \in Subscribed /\ o.side \in Sides
    BY <1>2 DEF Enter, RestingOrders
  <2>2. o.id \notin DOMAIN _order_id_map
    BY DEF Enter, IInv, MapsFollow
  <2>3. ~HasOrder(Book(o.symbol), o.id)
    <3>1. Holds(Book(o.symbol), Seen(o.symbol))
      BY <2>1 DEF IInv, BookFollows
    <3>2. \A x \in Seen(o.symbol) : x.id \in used
      BY DEF Seen, IInv, IsResting
    <3>3. QED BY <3>1, <3>2 DEF Enter, Holds, HasOrder
  <2>4. QED BY <1>2, <2>1, <2>2, <2>3 DEF Enter, OrderAdded, Book
<1>3. QED BY <1>1, <1>2

LEMMA EnterInv ==
  ASSUME IInv, NEW o \in RestingOrders, Enter(o)
  PROVE  IInv'
<1>1. /\ begun /\ o.id \notin used
      /\ resting' = resting \cup {o} /\ used' = used \cup {o.id}
      /\ UNCHANGED <<clock, begun>>
  BY DEF Enter
<1>2. UNCHANGED <<_seconds, fault>>
  BY EnterIs DEF handlerVars
<1>3. \A j : Seen(j)' = IF o.seen /\ o.symbol = j THEN Seen(j) \cup {o} ELSE Seen(j)
  BY <1>1 DEF Seen
<1>4. /\ Subscribed' = Subscribed
      /\ \A j \in Subscribed' : BookFollows(j)'
  <2>1. CASE ~o.seen
    <3>1. UNCHANGED _order_book_id_map
      BY <2>1, EnterIs DEF handlerVars
    <3>2. QED BY <1>1, <1>3, <2>1, <3>1 DEF IInv, BookFollows, Book, Subscribed
  <2>2. CASE o.seen
    <3> DEFINE c == AddOrder(Book(o.symbol), o.id, o.side, o.price, o.quantity)
    <3>1. /\ o.symbol \in Subscribed /\ ~HasOrder(Book(o.symbol), o.id)
          /\ Store(o.symbol, c, Nanos)
      BY <2>2, EnterIs
    <3>2. Book(o.symbol) \in Books /\ Holds(Book(o.symbol), Seen(o.symbol))
      BY <3>1 DEF IInv, BookFollows
    <3>3. c \in Books
      BY <3>2, AddAny, QuantitiesAreWords DEF RestingOrders
    <3>4. Holds(c, Seen(o.symbol) \cup {o})
      BY <3>1, <3>2, HoldsMore
    <3> HIDE DEF c
    <3>5. /\ Holds(c, Seen(o.symbol)')
          /\ \A j \in Subscribed \ {o.symbol} : Seen(j)' = Seen(j)
      BY <1>3, <2>2, <3>4
    <3>6. QED BY <1>1, <3>1, <3>3, <3>5, StoreStamped
  <2>3. QED BY <2>1, <2>2
<1>5. /\ _order_id_map' = IF o.seen THEN Put(_order_id_map, o.id, o.symbol)
                          ELSE _order_id_map
      /\ o.id \notin DOMAIN _order_id_map
      /\ o.seen => o.symbol \in Subscribed
  BY <1>1, EnterIs DEF handlerVars, IInv, MapsFollow
<1>6. MapsFollow'
  <2>1. o.id \in Ids /\ o.symbol \in Symbols
    BY DEF RestingOrders
  <2>2. _order_id_map' \in Partial(Ids, Symbols)
    BY <1>5, <2>1, PutPartial DEF IInv, MapsFollow
  <2>3. DOMAIN _order_id_map' \subseteq used'
    BY <1>1, <1>5 DEF IInv, MapsFollow, Put
  <2>4. QED BY <1>1, <1>4, <2>1, <2>2, <2>3 DEF IInv, MapsFollow
<1>7. \A x \in resting' : IsResting(x)'
  <2>1. ASSUME NEW x \in resting PROVE IsResting(x)'
    BY <1>1, <1>4, <1>5 DEF IInv, IsResting, Put
  <2>2. IsResting(o)'
    BY <1>1, <1>4, <1>5 DEF IsResting, Put
  <2>3. QED BY <1>1, <2>1, <2>2
<1>8. \A x, y \in resting' : x.id = y.id => x = y
  <2>1. \A x \in resting : x.id # o.id
    BY <1>1 DEF IInv, IsResting
  <2>2. QED BY <1>1, <2>1 DEF IInv
<1>9. ClockFollows' /\ FaultOK'
  BY <1>1, <1>2 DEF IInv, ClockFollows, FaultOK
<1>10. QED BY <1>4, <1>6, <1>7, <1>8, <1>9 DEF IInv

LEMMA ClockIsNat ==
  ASSUME IInv
  PROVE  /\ clock \in Nat /\ MaxClock \in Nat
         /\ clock \div NanosPerSecond \in 0 .. MaxClock
         /\ clock \div NanosPerMilli \in Nat
<1>1. clock \in 0 .. MaxClock /\ MaxClock \in Nat
  BY PmdAssumption DEF IInv, ClockFollows
<1>2. clock \div NanosPerSecond \in Nat /\ clock \div NanosPerSecond <= clock
  BY <1>1, UnitsArePositive, DivMod, DivBelow
<1>3. clock \div NanosPerMilli \in Nat
  BY <1>1, UnitsArePositive, DivMod
<1>4. QED BY <1>1, <1>2, <1>3

LEMMA BeginInv == ASSUME IInv, Begin PROVE IInv'
<1>1. /\ UNCHANGED <<_order_book_id_map, _order_id_map, fault, resting, used, clock>>
      /\ _seconds' = clock \div NanosPerSecond /\ begun'
      /\ begun' \in BOOLEAN
  BY DEF Begin, Second
<1>2. ClockFollows'
  <2>1. clock' \in 0 .. MaxClock /\ _seconds' \in 0 .. MaxClock
    BY <1>1, ClockIsNat DEF IInv, ClockFollows
  <2>2. QED BY <1>1, <2>1 DEF ClockFollows
<1>3. MapsFollow' /\ FaultOK'
  BY <1>1 DEF IInv, MapsFollow, FaultOK, Subscribed
<1>4. \A k \in Subscribed' : BookFollows(k)'
  BY <1>1 DEF IInv, BookFollows, Book, Seen, Subscribed
<1>5. \A o \in resting' : IsResting(o)'
  BY <1>1 DEF IInv, IsResting, Subscribed
<1>6. QED BY <1>1, <1>2, <1>3, <1>4, <1>5 DEF IInv

LEMMA TickInv == ASSUME IInv, Tick PROVE IInv'
<1>1. /\ UNCHANGED <<_order_book_id_map, _order_id_map, fault, resting, used, begun>>
      /\ begun /\ clock' = clock + 1 /\ clock < MaxClock
      /\ _seconds' = IF clock' % NanosPerSecond = 0 THEN clock' \div NanosPerSecond
                                                    ELSE _seconds
  BY DEF Tick, Second, Ignored, handlerVars
<1>2. clock' \in Nat /\ clock' \in 0 .. MaxClock /\ clock <= clock'
  BY <1>1, ClockIsNat
<1>3. ClockFollows'
  <2>1. _seconds = clock \div NanosPerSecond
    BY <1>1 DEF IInv, ClockFollows
  <2>2. clock' % NanosPerSecond # 0 => clock' \div NanosPerSecond = clock \div NanosPerSecond
    BY <1>1, ClockIsNat, UnitsArePositive, DivStays
  <2>3. _seconds' = clock' \div NanosPerSecond
    BY <1>1, <2>1, <2>2
  <2>4. clock' \div NanosPerSecond \in Nat /\ clock' \div NanosPerSecond <= clock'
    BY <1>2, UnitsArePositive, DivMod, DivBelow
  <2>5. _seconds' \in 0 .. MaxClock
    BY <1>2, <2>3, <2>4, ClockIsNat
  <2>6. begun' /\ begun' \in BOOLEAN
    BY <1>1 DEF IInv, ClockFollows
  <2>7. QED BY <1>2, <2>3, <2>5, <2>6 DEF ClockFollows
<1>4. MapsFollow' /\ FaultOK'
  BY <1>1 DEF IInv, MapsFollow, FaultOK, Subscribed
<1>5. \A k \in Subscribed' : BookFollows(k)'
  <2>1. ASSUME NEW k \in Subscribed PROVE BookFollows(k)'
    <3>1. clock \div NanosPerMilli <= clock' \div NanosPerMilli
      BY <1>2, ClockIsNat, UnitsArePositive, DivMonotone
    <3>2. clock' \div NanosPerMilli \in Nat /\ clock \div NanosPerMilli \in Nat
      BY <1>2, ClockIsNat, UnitsArePositive, DivMod
    <3>3. BookFollows(k)
      BY DEF IInv
    <3>4. Book(k)' = Book(k) /\ Seen(k)' = Seen(k)
      BY <1>1 DEF Book, Seen
    <3>5. QED BY <1>1, <3>1, <3>2, <3>3, <3>4 DEF BookFollows
  <2>2. QED BY <1>1, <2>1 DEF Subscribed
<1>6. \A o \in resting' : IsResting(o)'
  BY <1>1 DEF IInv, IsResting, Subscribed
<1>7. QED BY <1>1, <1>3, <1>4, <1>5, <1>6 DEF IInv

LEMMA SubscribeInv ==
  ASSUME IInv, NEW k \in Symbols, subscribe(k), UNCHANGED exchangeVars
  PROVE  IInv'
<1>1. /\ UNCHANGED <<_order_id_map, _seconds, fault, resting, used, clock, begun>>
      /\ Subscribed' = Subscribed \cup {k}
      /\ \A j \in Subscribed : _order_book_id_map'[j] = _order_book_id_map[j]
      /\ k \notin Subscribed =>
           _order_book_id_map'[k] = [book |-> EmptyBook, timestamp |-> 0]
  BY DEF subscribe, exchangeVars, Subscribed, Put
<1>2. \A j \in Subscribed : BookFollows(j)'
  BY <1>1 DEF IInv, BookFollows, Book, Seen
<1>3. k \notin Subscribed => BookFollows(k)'
  <2> SUFFICES ASSUME k \notin Subscribed PROVE BookFollows(k)'
    OBVIOUS
  <2>1. Book(k)' = EmptyBook /\ _order_book_id_map'[k].timestamp = 0
    BY <1>1 DEF Book
  <2>2. Seen(k)' = {}
    BY <1>1 DEF Seen, IInv, IsResting
  <2>3. EmptyBook \in Books /\ Holds(EmptyBook, {})
    BY EmptyConsistent, HoldsNothing DEF Consistent, Sound
  <2>4. clock' \div NanosPerMilli \in Nat
    BY <1>1, ClockIsNat
  <2>5. QED BY <2>1, <2>2, <2>3, <2>4 DEF BookFollows
<1>4. \A o \in resting' : IsResting(o)'
  BY <1>1 DEF IInv, IsResting
<1>5. MapsFollow' /\ ClockFollows' /\ FaultOK'
  BY <1>1 DEF IInv, MapsFollow, ClockFollows, FaultOK
<1>6. QED BY <1>1, <1>2, <1>3, <1>4, <1>5 DEF IInv

(* A malformed message throws and changes nothing else.                    *)
LEMMA MalformedThrows ==
  ASSUME Malformed
  PROVE  /\ UNCHANGED <<_order_book_id_map, _order_id_map, _seconds, exchangeVars>>
         /\ fault' \in {"unknown_message_type", "invalid side"}
BY DEF Malformed, UnknownType, OrderAdded, NoSide, Sides, Store

LEMMA StandStillInv ==
  ASSUME IInv, FaultOK',
         UNCHANGED <<_order_book_id_map, _order_id_map, _seconds, exchangeVars>>
  PROVE  IInv'
<1>1. UNCHANGED <<_order_book_id_map, _order_id_map, _seconds, resting, used, clock, begun>>
  BY DEF exchangeVars
<1>2. /\ \A k \in Subscribed' : BookFollows(k)'
      /\ \A o \in resting' : IsResting(o)'
  BY <1>1 DEF IInv, BookFollows, Book, Seen, IsResting, Subscribed
<1>3. MapsFollow' /\ ClockFollows'
  BY <1>1 DEF IInv, MapsFollow, ClockFollows, Subscribed
<1>4. QED BY <1>1, <1>2, <1>3 DEF IInv

(* The steps of the session, the departures put together.                  *)
LEMMA Steps ==
  ASSUME IInv, [Next]_vars
  PROVE  \/ Begin
         \/ Tick
         \/ \E o \in RestingOrders : Enter(o)
         \/ \E o \in resting : \E left : IsLeft(o, left) /\ Departs(o, left)
         \/ Malformed
         \/ \E k \in Symbols : subscribe(k) /\ UNCHANGED exchangeVars
         \/ UNCHANGED vars
<1>1. ASSUME VersionOrBrokenTrade PROVE UNCHANGED vars
  BY <1>1 DEF VersionOrBrokenTrade, Ignored, vars
<1>2. ASSUME NEW o \in resting, Leave(o) \/ \E q \in Quantities : Fill(o, q) \/ Reduce(o, q)
      PROVE  \E left : IsLeft(o, left) /\ Departs(o, left)
  BY <1>2, LeaveDeparts, FillDeparts, ReduceDeparts
<1>3. QED BY <1>1, <1>2 DEF Next, Message

LEMMA NextInv == IInv /\ [Next]_vars => IInv'
<1> SUFFICES ASSUME IInv, [Next]_vars PROVE IInv'
  OBVIOUS
<1>1. ASSUME Malformed PROVE IInv'
  BY <1>1, MalformedThrows, StandStillInv DEF FaultOK
<1>2. ASSUME UNCHANGED vars PROVE IInv'
  BY <1>2, StandStillInv DEF vars, handlerVars, IInv, FaultOK
<1>3. QED BY <1>1, <1>2, Steps, BeginInv, TickInv, EnterInv, DepartInv, SubscribeInv

THEOREM Invariance == Spec => []IInv
BY InitInv, NextInv, PTL DEF Spec

-----------------------------------------------------------------------------
(* What the handler keeps is well-typed whatever is sent.                  *)
THEOREM TypeCorrect == Spec => []TypeOK
<1>1. IInv => TypeOK
  BY DEF IInv, BookFollows, Book, IsResting, MapsFollow, ClockFollows, FaultOK, TypeOK
<1>2. QED BY <1>1, Invariance, PTL

(* The map of order numbers, from which nothing is ever erased, leads from *)
(* a resting order to its book, and from a stale number nowhere a resting  *)
(* order could be taken for it.                                            *)
THEOREM NumbersCorrect == Spec => []NumbersLeadHome
<1>1. IInv => NumbersLeadHome
  <2> SUFFICES ASSUME IInv PROVE NumbersLeadHome
    OBVIOUS
  <2>1. ASSUME NEW o \in resting
        PROVE  o.seen <=> o.id \in DOMAIN _order_id_map /\ _order_id_map[o.id] = o.symbol
                          /\ HasOrder(_order_book_id_map[o.symbol].book, o.id)
    BY Found DEF Book
  <2>2. ASSUME NEW k \in Subscribed, NEW i \in DOMAIN _order_book_id_map[k].book.orders
        PROVE  i \in DOMAIN _order_id_map /\ _order_id_map[i] = k
    <3>1. PICK o \in Seen(k) : o.id = i
      BY <2>2 DEF IInv, BookFollows, Book, Holds
    <3>2. QED BY <3>1 DEF Seen, IInv, IsResting
  <2>3. QED BY <2>1, <2>2 DEF NumbersLeadHome
<1>2. QED BY <1>1, Invariance, PTL

(* The handler throws at a malformed message and never else: no execution  *)
(* of an order that is gone asks for a sign.                               *)
THEOREM ThrowsCorrect == Spec => ThrowsOnlyIfMalformed
<1>1. IInv /\ [Next]_vars => [fault' # fault => Malformed]_vars
  <2> SUFFICES ASSUME IInv, [Next]_vars, ~Malformed PROVE fault' = fault
    OBVIOUS
  <2>1. ASSUME Begin \/ Tick PROVE fault' = fault
    BY <2>1 DEF Begin, Tick, Second, Ignored, handlerVars
  <2>2. ASSUME NEW o \in RestingOrders, Enter(o) PROVE fault' = fault
    BY <2>2, EnterIs DEF handlerVars
  <2>3. ASSUME NEW o, NEW left, Departs(o, left) PROVE fault' = fault
    BY <2>3 DEF Departs
  <2>4. ASSUME NEW k, subscribe(k) PROVE fault' = fault
    BY <2>4 DEF subscribe
  <2>5. ASSUME UNCHANGED vars PROVE fault' = fault
    BY <2>5 DEF vars, handlerVars
  <2>6. QED BY <2>1, <2>2, <2>3, <2>4, <2>5, Steps
<1>2. QED BY <1>1, Invariance, PTL DEF Spec, ThrowsOnlyIfMalformed

(* A changed book is stamped with the exchange's time, for any units of    *)
(* time and whatever _seconds held before the session; no stamp goes back. *)
StampedNow(k) ==
  /\ _order_book_id_map'[k].timestamp >= _order_book_id_map[k].timestamp
  /\ _order_book_id_map'[k].book # _order_book_id_map[k].book =>
       _order_book_id_map'[k].timestamp = clock \div NanosPerMilli

LEMMA SameIsStamped ==
  ASSUME IInv, NEW k \in Subscribed, _order_book_id_map'[k] = _order_book_id_map[k]
  PROVE  StampedNow(k)
BY DEF IInv, BookFollows, StampedNow

LEMMA StoreIsStamped ==
  ASSUME IInv, begun, NEW j \in Subscribed, NEW c, Store(j, c, Nanos), NEW k \in Subscribed
  PROVE  StampedNow(k)
<1>1. CASE k = j
  <2>1. _order_book_id_map'[k].timestamp = clock \div NanosPerMilli
    BY <1>1, StampIsTime DEF Store, Subscribed
  <2>2. /\ _order_book_id_map[k].timestamp \in Nat
        /\ _order_book_id_map[k].timestamp <= clock \div NanosPerMilli
        /\ clock \div NanosPerMilli \in Nat
    BY StampIsTime DEF IInv, BookFollows
  <2>3. QED BY <2>1, <2>2 DEF StampedNow
<1>2. CASE k # j
  <2>1. _order_book_id_map'[k] = _order_book_id_map[k]
    BY <1>2 DEF Store, Subscribed
  <2>2. QED BY <2>1, SameIsStamped
<1>3. QED BY <1>1, <1>2

THEOREM TimesCorrect == Spec => StampedInTime
<1>1. IInv /\ [Next]_vars => [\A k \in Subscribed : StampedNow(k)]_vars
  <2> SUFFICES ASSUME IInv, [Next]_vars, NEW k \in Subscribed PROVE StampedNow(k)
    OBVIOUS
  <2>1. ASSUME Begin \/ Tick PROVE StampedNow(k)
    <3>1. UNCHANGED _order_book_id_map
      BY <2>1 DEF Begin, Tick, Second, Ignored, handlerVars
    <3>2. QED BY <3>1, SameIsStamped
  <2>2. ASSUME NEW o \in RestingOrders, Enter(o) PROVE StampedNow(k)
    <3>1. CASE ~o.seen
      BY <2>2, <3>1, EnterIs, SameIsStamped DEF handlerVars
    <3>2. CASE o.seen
      BY <2>2, <3>2, EnterIs, StoreIsStamped DEF Enter
    <3>3. QED BY <3>1, <3>2
  <2>3. ASSUME NEW o \in resting, NEW left, Departs(o, left) PROVE StampedNow(k)
    <3>1. CASE ~o.seen
      BY <2>3, <3>1, SameIsStamped DEF Departs
    <3>2. CASE o.seen
      BY <2>3, <3>2, Found, StoreIsStamped DEF Departs
    <3>3. QED BY <3>1, <3>2
  <2>4. ASSUME Malformed \/ UNCHANGED vars PROVE StampedNow(k)
    <3>1. UNCHANGED _order_book_id_map
      BY <2>4, MalformedThrows DEF vars, handlerVars
    <3>2. QED BY <3>1, SameIsStamped
  <2>5. ASSUME NEW j \in Symbols, subscribe(j) PROVE StampedNow(k)
    <3>1. _order_book_id_map'[k] = _order_book_id_map[k]
      BY <2>5 DEF subscribe, Subscribed, Put
    <3>2. QED BY <3>1, SameIsStamped
  <2>6. QED BY <2>1, <2>2, <2>3, <2>4, <2>5, Steps
<1>2. QED BY <1>1, Invariance, PTL DEF Spec, StampedInTime, StampedNow

-----------------------------------------------------------------------------
(* The depth.  A level's size is a uint64_t and the code does not check    *)
(* it: the books follow the exchange's depth as long as that fits.         *)
DepthFits ==
  \A k \in Subscribed, s \in Sides, p \in Prices : Depth(k, s, p) < Modulus

BooksConsistent == \A k \in Subscribed : Consistent(Book(k))

LEMMA EnterConsistent ==
  ASSUME IInv, BooksConsistent, DepthFits', NEW o \in RestingOrders, Enter(o)
  PROVE  BooksConsistent'
<1>1. CASE ~o.seen
  BY <1>1, EnterIs DEF handlerVars, BooksConsistent, Book, Subscribed
<1>2. CASE o.seen
  <2> DEFINE b == Book(o.symbol)
             k == o.symbol
             s == o.side
             p == o.price
             c == AddOrder(b, o.id, s, p, o.quantity)
  <2>1. /\ k \in Subscribed /\ ~HasOrder(b, o.id)
        /\ Store(k, c, Nanos)
    BY <1>2, EnterIs
  <2>2. /\ Consistent(b) /\ Holds(b, Seen(k))
        /\ o.id \in Ids /\ s \in Sides /\ p \in Prices /\ o.quantity \in Word \ {0}
        /\ o \notin resting
    BY <2>1, QuantitiesAreWords DEF BooksConsistent, IInv, BookFollows, RestingOrders,
                                    Enter, IsResting
  <2> DEFINE os == AtPrice(Seen(k), s, p)
  <2>3. SizeAt(b, s, p) = Total(os) /\ IsFiniteSet(SharesOf(os))
    BY <2>2, HeldDepth, HeldShares DEF Consistent
  <2>4. Total(os \cup {o}) = Total(os) + o.quantity
    <3>1. o \notin os
      BY <2>2 DEF AtPrice, Seen
    <3> HIDE DEF os
    <3>2. QED BY <2>2, <2>3, <3>1, TotalMore
  <2>5. Depth(k, s, p)' = Total(os \cup {o})
    <3>1. {x \in Seen(k) : x.side = s /\ x.price = p}' = os \cup {o}
      BY <1>2 DEF Seen, AtPrice, Enter
    <3>2. QED BY <3>1 DEF Depth
  <2>6. Depth(k, s, p)' < Modulus
    <3>1. k \in Subscribed'
      BY <2>1 DEF Store, Subscribed
    <3>2. QED BY <2>2, <3>1 DEF DepthFits
  <2>7. MayAdd(b, o.id, s, p, o.quantity)
    BY <2>1, <2>3, <2>4, <2>5, <2>6 DEF MayAdd
  <2>8. Consistent(c)
    BY <2>2, <2>7, AddConsistent
  <2> HIDE DEF c
  <2>9. QED BY <2>1, <2>8 DEF Store, BooksConsistent, Book, Subscribed
<1>3. QED BY <1>1, <1>2

LEMMA NextConsistent ==
  ASSUME IInv, BooksConsistent, DepthFits', [Next]_vars
  PROVE  BooksConsistent'
<1>1. ASSUME UNCHANGED _order_book_id_map PROVE BooksConsistent'
  BY <1>1 DEF BooksConsistent, Book, Subscribed
<1>2. ASSUME Begin \/ Tick \/ Malformed \/ UNCHANGED vars PROVE BooksConsistent'
  BY <1>1, <1>2, MalformedThrows DEF Begin, Tick, Second, Ignored, vars, handlerVars
<1>3. ASSUME NEW o \in resting, NEW left, Departs(o, left) PROVE BooksConsistent'
  <2>1. CASE ~o.seen
    BY <1>1, <1>3, <2>1 DEF Departs
  <2>2. CASE o.seen
    <3>1. PICK c \in Books :
                 Store(o.symbol, c, Nanos) /\ (Consistent(Book(o.symbol)) => Consistent(c))
      BY <1>3, <2>2 DEF Departs
    <3>2. o.symbol \in Subscribed
      BY <2>2, Found
    <3>3. QED BY <3>1, <3>2 DEF Store, BooksConsistent, Book, Subscribed
  <2>3. QED BY <2>1, <2>2
<1>4. ASSUME NEW k \in Symbols, subscribe(k) PROVE BooksConsistent'
  BY <1>4, EmptyConsistent DEF subscribe, Put, BooksConsistent, Book, Subscribed
<1>5. QED BY <1>2, <1>3, <1>4, Steps, EnterConsistent

(* Every book has the depth of the orders entered since its subscription,  *)
(* whenever that was, as long as a size can hold it.                       *)
THEOREM MirrorCorrect == Spec /\ []DepthFits => []Mirrored
<1>1. Init => BooksConsistent
  BY DEF Init, BooksConsistent, Subscribed
<1>2. IInv /\ BooksConsistent /\ DepthFits' /\ [Next]_vars => BooksConsistent'
  BY NextConsistent
<1>3. IInv /\ BooksConsistent => Mirrored
  <2> SUFFICES ASSUME IInv, BooksConsistent,
                      NEW k \in Subscribed, NEW s \in Sides, NEW p \in Prices
               PROVE  /\ SizeAt(Book(k), s, p) = Depth(k, s, p)
                      /\ HasLevel(Book(k), s, p) <=> Depth(k, s, p) # 0
    BY DEF Mirrored, Book
  <2>1. Consistent(Book(k)) /\ Holds(Book(k), Seen(k))
    BY DEF BooksConsistent, IInv, BookFollows
  <2>2. Depth(k, s, p) = Total(AtPrice(Seen(k), s, p))
    BY DEF Depth, AtPrice
  <2>3. QED BY <2>1, <2>2, HeldDepth
<1>4. QED BY <1>1, <1>2, <1>3, Invariance, PTL DEF Spec

=============================================================================
