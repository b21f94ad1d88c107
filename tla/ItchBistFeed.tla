---------------------------- MODULE ItchBistFeed ----------------------------
(***************************************************************************)
(* A recorded session of the exchange, handled by itch_bist_handler.       *)
(*                                                                         *)
(* Every action is one message: what the exchange does, and the handler's  *)
(* processing of the message it sends about it.  The messages arrive once  *)
(* and in order: they come from a file.                                    *)
(*                                                                         *)
(* The exchange is the environment.  What it may do beyond the plainest    *)
(* session is chosen with Features, each a habit of the real exchange that *)
(* a comment in the code, or a field of a message, tells of:               *)
(*   sharedIds    a buy and a sell order may have the same id              *)
(*                (itch_bist_messages.h:153, order_book.hh:138-141)        *)
(*   undisclosed  an order may be announced with quantity 0 (:157)         *)
(*   replace      an order may be replaced, and keeps its id (:214-224)    *)
(*   crossFills   an execution at a cross fills a resting order (:196-210) *)
(*   idReuse      an OrderBookID may get a new instrument (:70)            *)
(*   late         an order may be announced before the directory message   *)
(*                of its book (excluded by :63-66)                         *)
(*   malformed    a message may have an unknown type or side               *)
(***************************************************************************)
EXTENDS ItchBistHandler

CONSTANTS
  Instruments,
  KeyOf,        \* the first ITCH_SYMBOL_LEN characters of their symbols
  DecimalsOf,   \* their NumberOfDecimalsInPrice
  OrderIds,     \* values of OrderID
  Positions,    \* values of NewOrderBookPosition
  Quantities,
  StateNames,
  MaxClock,     \* bound on the exchange's clock
  Features

VARIABLES
  listing,   \* the instrument of each order book id in use
  resting,   \* the resting orders of all books
  phase,     \* the last trading state announced for an order book id
  clock      \* nanoseconds

exchangeVars == <<listing, resting, phase, clock>>
vars == <<exchangeVars, handlerVars>>

AllFeatures == {"sharedIds", "undisclosed", "replace", "crossFills", "idReuse",
                "late", "malformed"}

ASSUME FeedAssumption ==
  /\ Ids = OrderIds \cup Positions
  /\ KeyOf \in [Instruments -> Symbols]
  /\ SymbolOf \in [Agents -> Symbols]
  /\ Agents \subseteq Nat /\ IsFiniteSet(Agents)
  /\ \A n \in Instruments : DecimalsOf[n] \in Nat
  /\ Quantities \subseteq Word \ {0}
  /\ \A q, r \in Quantities : r < q => q - r \in Quantities
  /\ NanosPerSecond \in Nat \ {0} /\ MaxClock \in Nat
  /\ Features \subseteq AllFeatures

Has(feature) == feature \in Features

RestingOrders == [book : OrderBookIds, side : Sides, id : OrderIds,
                  price : Prices, quantity : Quantities, shown : BOOLEAN]

(* The order books of the instruments with the key k, their orders, the    *)
(* displayed ones, and the displayed depth.                                *)
ListedAs(k)  == {id \in DOMAIN listing : KeyOf[listing[id]] = k}
OrdersOf(k)  == {o \in resting : o.book \in ListedAs(k)}
Displayed(k) == {o \in OrdersOf(k) : o.shown}

Depth(k, s, p) == Total({o \in Displayed(k) : o.side = s /\ o.price = p})

Ns == clock % NanosPerSecond

-----------------------------------------------------------------------------
Init ==
  /\ listing = [id \in {} |-> ""]
  /\ resting = {}
  /\ phase = [id \in OrderBookIds |-> ""]
  /\ clock = 0
  /\ HandlerInit

(* A second begins with a 'T' message.                                     *)
Tick ==
  /\ clock < MaxClock
  /\ clock' = clock + 1
  /\ UNCHANGED <<listing, resting, phase>>
  /\ \/ clock' % NanosPerSecond = 0 /\ Seconds(clock' \div NanosPerSecond)
     \/ clock' % NanosPerSecond # 0 /\ Ignored

List(id, n) ==
  /\ \A j \in DOMAIN listing \ {id} : listing[j] # n
  /\ \/ id \notin DOMAIN listing
     \/ id \in DOMAIN listing /\ listing[id] = n
     \/ /\ id \in DOMAIN listing /\ Has("idReuse")
        /\ \A o \in resting : o.book # id
  /\ listing' = Put(listing, id, n)
  /\ phase' = [phase EXCEPT ![id] = IF id \in DOMAIN listing /\ listing[id] = n
                                    THEN @ ELSE ""]
  /\ Directory(id, KeyOf[n], DecimalsOf[n], Ns)
  /\ UNCHANGED <<resting, clock>>

Announce(id, name) ==
  /\ id \in DOMAIN listing
  /\ phase' = [phase EXCEPT ![id] = name]
  /\ State(id, name)
  /\ UNCHANGED <<listing, resting, clock>>

Session(code) == System(code, Ns) /\ UNCHANGED exchangeVars

Enter(o) ==
  /\ o.book \in DOMAIN listing \/ Has("late")
  /\ o.shown \/ Has("undisclosed")
  /\ \A x \in resting : x.book = o.book /\ x.id = o.id =>
                          Has("sharedIds") /\ x.side # o.side
  /\ resting' = resting \cup {o}
  /\ AddMsg(o.book, o.id, o.side, o.price, IF o.shown THEN o.quantity ELSE 0, Ns)
  /\ UNCHANGED <<listing, phase, clock>>

Taken(o, q) ==
  (resting \ {o}) \cup
     (IF q = o.quantity THEN {} ELSE {[o EXCEPT !.quantity = @ - q]})

Fill(o, q) ==
  /\ q <= o.quantity
  /\ resting' = Taken(o, q)
  /\ ExecutedMsg(o.book, o.id, q, Ns)
  /\ UNCHANGED <<listing, phase, clock>>

FillAt(o, q, p) ==
  /\ q <= o.quantity
  /\ resting' = Taken(o, q)
  /\ ExecutedWithPriceMsg(o.book, o.id, q, p, FALSE, Ns)
  /\ UNCHANGED <<listing, phase, clock>>

Cross(o, q, p) ==
  /\ q <= o.quantity
  /\ resting' = IF Has("crossFills") THEN Taken(o, q) ELSE resting
  /\ ExecutedWithPriceMsg(o.book, o.id, q, p, TRUE, Ns)
  /\ UNCHANGED <<listing, phase, clock>>

Amend(o, position, p, q) ==
  /\ Has("replace")
  /\ resting' = (resting \ {o}) \cup {[o EXCEPT !.price = p, !.quantity = q]}
  /\ ReplaceMsg(o.book, o.id, position, p, IF o.shown THEN q ELSE 0, Ns)
  /\ UNCHANGED <<listing, phase, clock>>

Leave(o) ==
  /\ resting' = resting \ {o}
  /\ DeleteMsg(o.book, o.id, Ns)
  /\ UNCHANGED <<listing, phase, clock>>

Report(id, p, q) == TradeMsg(id, p, q, Ns) /\ UNCHANGED exchangeVars

(* 'M', 'L' and 'Z'.                                                       *)
Uninteresting == Ignored /\ UNCHANGED exchangeVars

Malformed ==
  /\ Has("malformed")
  /\ UNCHANGED exchangeVars
  /\ \/ UnknownType
     \/ \E id \in OrderBookIds, i \in OrderIds, p \in Prices, q \in Quantities :
           AddMsg(id, i, NoSide, p, q, Ns)

Message ==
  \/ Tick
  \/ \E id \in OrderBookIds :
        \/ \E n \in Instruments : List(id, n)
        \/ \E name \in StateNames : Announce(id, name)
        \/ \E p \in Prices, q \in Quantities : Report(id, p, q)
  \/ \E code \in {"O", "C"} : Session(code)
  \/ \E o \in RestingOrders : Enter(o)
  \/ \E o \in resting :
        \/ Leave(o)
        \/ \E q \in Quantities :
              \/ Fill(o, q)
              \/ \E p \in Prices :
                    \/ FillAt(o, q, p)
                    \/ Cross(o, q, p)
                    \/ \E position \in Positions : Amend(o, position, p, q)
  \/ Uninteresting
  \/ Malformed

Next ==
  \/ fault = "none" /\ Message
  \/ fault # "none" /\ UNCHANGED vars

Spec == Init /\ [][Next]_vars

-----------------------------------------------------------------------------
(* The state names an agent may keep.                                      *)
StateTexts == [field : StateNames \cup {""}, beyond : Tails]

TypeOK ==
  /\ listing \in Partial(OrderBookIds, Instruments)
  /\ resting \subseteq RestingOrders
  /\ phase \in [OrderBookIds -> StateNames \cup {""}]
  /\ clock \in 0 .. MaxClock
  /\ order_book_id_sym_map \in Partial(OrderBookIds, Symbols)
  /\ agents \in [Agents -> [book : Books, state_name : StateTexts,
                            timestamp : Nat, decimals : Nat]]
  /\ time_secs \in Nat
  /\ event.mask \subseteq {"trade", "update", "sweep", "opened", "closed"}
  /\ event.symbol \in Symbols \cup {""}
  /\ fault \in {"none", "invalid side", "invalid trade sign", "unknown_message_type"}

(* Every agent's book shows the depth the exchange displays for its        *)
(* symbol: each level exists if and only if some displayed order rests at  *)
(* its price, with the quantity of those orders.  This is what the whole   *)
(* of itch_bist_handler.cc:158-348 and order_book.cc is for ("support for  *)
(* reconstructing ... top and depth of book bid and ask price and size",   *)
(* order_book.hh:5-7).                                                     *)
Mirrored ==
  \A a \in Agents, s \in Sides, p \in Prices :
    LET depth == Depth(SymbolOf[a], s, p)
    IN  /\ SizeAt(agents[a].book, s, p) = depth
        /\ HasLevel(agents[a].book, s, p) <=> depth # 0

(* No book shows more than what really rests at a price, announced or not. *)
(* An order with an undisclosed quantity is announced with quantity 0      *)
(* (itch_bist_messages.h:157); it is then executed for what it is worth    *)
(* (order_book.cc:92-95).                                                  *)
NoInventedLiquidity ==
  \A a \in Agents, s \in Sides, p \in Prices :
    SizeAt(agents[a].book, s, p) <=
      Total({o \in OrdersOf(SymbolOf[a]) : o.side = s /\ o.price = p})

(* The id map that the handler builds from the directory, and never        *)
(* changes an entry of, is the exchange's listing, restricted to the       *)
(* registered symbols (itch_bist_handler.cc:158-171).                      *)
RoutesFollowListing ==
  \A id \in OrderBookIds :
    /\ Routed(id) <=> id \in DOMAIN listing /\ KeyOf[listing[id]] \in Registered
    /\ Routed(id) => SymbolFor(id) = KeyOf[listing[id]]

(* The agents know the price decimals of their instrument, and the state   *)
(* name they keep begins with the trading state that was last announced    *)
(* for it, whatever was read on after the field                            *)
(* (itch_bist_handler.cc:158-171, 204-213).                                *)
InfoFollowsInstrument ==
  \A a \in Agents : \A id \in ListedAs(SymbolOf[a]) :
    /\ agents[a].state_name.field = phase[id]
    /\ agents[a].decimals = DecimalsOf[listing[id]]

(* Whatever the habits of the exchange, the agents of a symbol agree on    *)
(* the stored orders, so on the price and the side of every execution,     *)
(* which the event takes from the last of them (the remark at              *)
(* itch_bist_handler.cc:271, 303), and on the rest of the data but the     *)
(* levels.  The levels are not compared: where a dangling pointer is       *)
(* followed, each agent's map may come out differently, and what remains   *)
(* at the level, so whether the event is a sweep, is only true of the last *)
(* agent.                                                                  *)
AgentsAgree ==
  \A a, b \in Agents :
    SymbolOf[a] = SymbolOf[b] =>
      /\ agents[a].book.orders = agents[b].book.orders
      /\ agents[a].timestamp = agents[b].timestamp
      /\ agents[a].state_name = agents[b].state_name
      /\ agents[a].decimals = agents[b].decimals

(* Events carry the time at which the exchange sent the message, although  *)
(* a message only has the nanoseconds and the seconds come in 'T' messages *)
(* (itch_bist_handler.cc:46-52, 148-156); no book is ahead of the clock.   *)
StampedInTime ==
  /\ event # NoEvent => event.timestamp = clock
  /\ \A a \in Agents : agents[a].timestamp <= clock

(* Every fill of an order of a registered symbol is reported with the      *)
(* order's price, the quantity, the sign of the aggressor, and as a sweep  *)
(* exactly when nothing displayed is left at that price and side           *)
(* (itch_bist_handler.cc:257-275, 369-375).                                *)
ReportsFill(o, q) ==
  LET k == KeyOf[listing[o.book]]
  IN  event' = [mask |-> {"trade", "update"} \cup
                           (IF Depth(k, o.side, o.price)' = 0 THEN {"sweep"} ELSE {}),
                symbol |-> k, timestamp |-> clock,
                trade |-> [price |-> o.price, quantity |-> q,
                           sign |-> IF o.side = "buy" THEN "seller_initiated"
                                                      ELSE "buyer_initiated"]]

EveryFillReported ==
  [][\A o \in resting, q \in Quantities :
       Fill(o, q) /\ KeyOf[listing[o.book]] \in Registered => ReportsFill(o, q)]_vars

(* No book changes behind its readers' backs: a message that changes a     *)
(* book raises an update event for the book's symbol, after which its      *)
(* readers look at it (itch_bist_handler.cc:232, 253, 273, 305, 330, 346). *)
EveryChangeAnnounced ==
  [][\A a \in Agents :
       agents[a].book # agents'[a].book =>
         "update" \in event'.mask /\ event'.symbol = SymbolOf[a]]_vars

=============================================================================
