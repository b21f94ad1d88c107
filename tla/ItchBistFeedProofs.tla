------------------------- MODULE ItchBistFeedProofs -------------------------
(* What holds of the handler, its agents' books and its events, for any    *)
(* number of instruments, books, agents and orders.                        *)
EXTENDS ItchBistFeed, OrderBookOpsProofs

(* The first part holds whatever the exchange does, as long as its clock   *)
(* is right: an OrderBookID that changes hands, orders that are announced  *)
(* with no quantity or with an id that is taken, books whose pointers      *)
(* dangle.                                                                 *)
ExchangeOK ==
  /\ listing \in Partial(OrderBookIds, Instruments)
  /\ resting \subseteq RestingOrders
  /\ phase \in [OrderBookIds -> StateNames \cup {""}]
  /\ clock \in 0 .. MaxClock

AgentsOK ==
  /\ agents \in [Agents -> [book : Books, state_name : StateTexts,
                            timestamp : Nat, decimals : Nat]]
  /\ \A a \in Agents : agents[a].timestamp <= clock

MapOK == order_book_id_sym_map \in Partial(OrderBookIds, Symbols)

EventOK ==
  /\ event.mask \subseteq {"trade", "update", "sweep", "opened", "closed"}
  /\ event.symbol \in Symbols \cup {""}
  /\ event # NoEvent => event.timestamp = clock

FaultOK ==
  fault \in {"none", "invalid side", "invalid trade sign", "unknown_message_type"}

(* The inductive invariant.                                                *)
IInv ==
  /\ ExchangeOK /\ AgentsOK /\ AgentsAgree /\ MapOK /\ EventOK /\ FaultOK
  /\ time_secs = clock \div NanosPerSecond

LEMMA QuantitiesAreWords ==
  \A q \in Quantities : q \in Word /\ q \in Nat /\ q # 0
BY FeedAssumption, WordIsNat

LEMMA NoEventOK == ASSUME event' = NoEvent PROVE EventOK'
BY DEF EventOK, NoEvent

LEMMA InitInv == Init => IInv
<1> SUFFICES ASSUME Init PROVE IInv
  OBVIOUS
<1>1. ExchangeOK
  <2>1. listing \in [{} -> Instruments] /\ resting = {} /\ clock = 0
        /\ phase = [id \in OrderBookIds |-> ""]
    BY DEF Init
  <2>2. listing \in Partial(OrderBookIds, Instruments)
    BY <2>1 DEF Partial
  <2>3. clock \in 0 .. MaxClock
    <3>1. MaxClock \in Nat
      BY FeedAssumption
    <3>2. clock = 0
      BY <2>1
    <3>3. QED BY <3>1, <3>2
  <2>4. QED BY <2>1, <2>2, <2>3 DEF ExchangeOK
<1>2. MapOK
  <2>1. order_book_id_sym_map \in [{} -> Symbols]
    BY DEF Init, HandlerInit
  <2>2. QED BY <2>1 DEF MapOK, Partial
<1>3. AgentsOK /\ AgentsAgree
  <2>1. agents = [a \in Agents |-> [book |-> EmptyBook, state_name |-> StateText("", ""),
                                    timestamp |-> 0, decimals |-> 0]]
        /\ clock = 0
    BY DEF Init, HandlerInit
  <2>2. EmptyBook \in Books
    BY EmptyConsistent DEF Consistent, Sound
  <2>3. AgentsOK
    <3> DEFINE Known == [book : Books, state_name : StateTexts,
                         timestamp : Nat, decimals : Nat]
               new == [book |-> EmptyBook, state_name |-> StateText("", ""), timestamp |-> 0, decimals |-> 0]
    <3>0. StateText("", "") \in StateTexts
      BY TailsAssumption DEF StateTexts, StateText
    <3>1. new \in Known
      BY <2>2, <3>0
    <3>2. new.timestamp = 0
      OBVIOUS
    <3> HIDE DEF Known, new
    <3>3. agents = [a \in Agents |-> new] /\ clock = 0
      BY <2>1 DEF new
    <3>4. agents \in [Agents -> Known]
      BY <3>1, <3>3
    <3>5. ASSUME NEW a \in Agents PROVE agents[a].timestamp <= clock
      <4>1. agents[a].timestamp = 0 /\ clock = 0
        BY <3>2, <3>3
      <4>2. QED BY <4>1
    <3>6. QED BY <3>4, <3>5 DEF AgentsOK, Known
  <2>4. AgentsAgree
    BY <2>1, FeedAssumption DEF AgentsAgree
  <2>5. QED BY <2>3, <2>4
<1>4. EventOK /\ FaultOK
  BY DEF Init, HandlerInit, EventOK, FaultOK, NoEvent
<1>5. time_secs = clock \div NanosPerSecond
  <2>1. time_secs = 0 /\ clock = 0
    BY DEF Init, HandlerInit
  <2>2. \A n \in Nat \ {0} : 0 \div n = 0
    OBVIOUS
  <2>3. QED BY <2>1, <2>2, FeedAssumption
<1>6. QED BY <1>1, <1>2, <1>3, <1>4, <1>5 DEF IInv

-----------------------------------------------------------------------------
(* The time stamp of a message is the exchange's time.                     *)
LEMMA StampIsTime ==
  ASSUME IInv
  PROVE  Timestamp(Ns) = clock /\ clock \in Nat
<1>1. clock \in Nat /\ NanosPerSecond \in Nat \ {0} /\ time_secs = clock \div NanosPerSecond
  <2>1. clock \in 0 .. MaxClock /\ time_secs = clock \div NanosPerSecond
    BY DEF IInv, ExchangeOK
  <2>2. QED BY <2>1, FeedAssumption
<1>2. /\ clock \div NanosPerSecond \in Nat
      /\ clock = NanosPerSecond * (clock \div NanosPerSecond) + (clock % NanosPerSecond)
  BY <1>1, DivMod
<1>3. QED BY <1>1, <1>2 DEF Timestamp, Ns

LEMMA RaiseOK ==
  ASSUME IInv, UNCHANGED clock, NEW mask, NEW symbol \in Symbols \cup {""}, NEW trade,
         mask \subseteq {"trade", "update", "sweep", "opened", "closed"},
         Raise(mask, symbol, Timestamp(Ns), trade)
  PROVE  EventOK' /\ FaultOK' /\ event'.mask = mask /\ event'.symbol = symbol
<1>1. Timestamp(Ns) = clock
  BY StampIsTime
<1>2. event'.mask = mask /\ event'.symbol = symbol /\ event'.timestamp = clock'
  BY <1>1 DEF Raise
<1>3. QED BY <1>2 DEF EventOK, FaultOK, Raise, IInv

(* A message leaves all books alone, or goes to the books of one symbol:   *)
(* they become the books c, which have the same orders; what changes is    *)
(* announced.                                                              *)
Still ==
  /\ UNCHANGED <<agents, order_book_id_sym_map, time_secs>>
  /\ EventOK' /\ FaultOK'

MovesTo(k, c) ==
  /\ agents' = WithBooks(k, c, Timestamp(Ns))
  /\ UNCHANGED <<order_book_id_sym_map, time_secs>>
  /\ \A a \in AgentsOf(k) : c[a] \in Books
  /\ \A a, b \in AgentsOf(k) : c[a].orders = c[b].orders
  /\ \/ "update" \in event'.mask /\ event'.symbol = k
     \/ \A a \in AgentsOf(k) : c[a] = agents[a].book
  /\ EventOK' /\ FaultOK'

Moves == \E k \in Symbols : \E c : MovesTo(k, c)

LEMMA AgentsBooks ==
  ASSUME IInv, NEW k, NEW a \in AgentsOf(k)
  PROVE  /\ a \in Agents
         /\ agents[a].book \in Books
         /\ \A b \in AgentsOf(k) : agents[a].book.orders = agents[b].book.orders
BY DEF AgentsOf, IInv, AgentsOK, AgentsAgree

LEMMA SymbolIsOne ==
  ASSUME IInv, NEW id, Routed(id)
  PROVE  SymbolFor(id) \in Symbols
BY PartialMember DEF IInv, MapOK, Routed, SymbolFor

LEMMA UpdateMoves ==
  ASSUME IInv, UNCHANGED clock, NEW id, Routed(id),
         NEW possible, DOMAIN possible = Served(id), Update(id, Ns, possible),
         \A a \in Served(id) : \A d \in possible[a] : d \in Books,
         \A a, b \in Served(id) : \A d \in possible[a] : \A e \in possible[b] :
            d.orders = e.orders
  PROVE  Moves
<1> DEFINE k == SymbolFor(id)
<1>1. PICK c \in Outcomes(possible) :
             /\ agents' = WithBooks(k, c, Timestamp(Ns))
             /\ Raise({"update"}, k, Timestamp(Ns), NoTrade) /\ KeepMaps
  BY DEF Update
<1>2. \A a \in AgentsOf(k) : c[a] \in possible[a]
  BY <1>1 DEF Outcomes, Served
<1>3. k \in Symbols
  BY SymbolIsOne
<1>4. EventOK' /\ FaultOK' /\ event'.mask = {"update"} /\ event'.symbol = k
  BY <1>1, <1>3, RaiseOK
<1>5. MovesTo(k, c)
  BY <1>1, <1>2, <1>4 DEF MovesTo, KeepMaps, Served
<1>6. QED BY <1>3, <1>5 DEF Moves

LEMMA AddMoves ==
  ASSUME IInv, UNCHANGED clock, NEW id, NEW i \in Ids, NEW side, NEW p \in Prices,
         NEW q \in Word, AddMsg(id, i, side, p, q, Ns)
  PROVE  Still \/ Moves
<1>1. CASE Ignored
  BY <1>1, NoEventOK DEF Ignored, Silent, KeepMaps, Still, IInv, FaultOK
<1>2. CASE Throw("invalid side") /\ KeepMaps /\ UNCHANGED agents
  BY <1>2, NoEventOK DEF Throw, KeepMaps, Still, FaultOK
<1>3. CASE Routed(id) /\ side \in Sides /\
           Update(id, Ns, [a \in Served(id) |-> {AddOrder(agents[a].book, i, side, p, q)}])
  <2> DEFINE possible == [a \in Served(id) |-> {AddOrder(agents[a].book, i, side, p, q)}]
  <2>1. ASSUME NEW a \in Served(id), NEW d \in possible[a]
        PROVE  /\ d \in Books
               /\ d.orders = IF HasOrder(agents[a].book, i) THEN agents[a].book.orders
                             ELSE Put(agents[a].book.orders, i,
                                      [side |-> side, price |-> p, quantity |-> q])
    BY <1>3, <2>1, AgentsBooks, AddAny DEF Served
  <2>2. \A a, b \in Served(id) : agents[a].book.orders = agents[b].book.orders
    BY AgentsBooks DEF Served
  <2>3. DOMAIN possible = Served(id)
    OBVIOUS
  <2> HIDE DEF possible
  <2>4. \A a, b \in Served(id) : \A d \in possible[a] : \A e \in possible[b] :
            d.orders = e.orders
    BY <2>1, <2>2 DEF HasOrder
  <2>5. Update(id, Ns, possible)
    BY <1>3 DEF possible
  <2>6. QED BY <1>3, <2>1, <2>3, <2>4, <2>5, UpdateMoves
<1>4. QED BY <1>1, <1>2, <1>3 DEF AddMsg

LEMMA DeleteMoves ==
  ASSUME IInv, UNCHANGED clock, NEW id, NEW i, DeleteMsg(id, i, Ns)
  PROVE  Still \/ Moves
<1>1. CASE Ignored
  BY <1>1, NoEventOK DEF Ignored, Silent, KeepMaps, Still, IInv, FaultOK
<1>2. CASE Routed(id) /\ Update(id, Ns, [a \in Served(id) |-> RemoveOrder(agents[a].book, i)])
  <2> DEFINE possible == [a \in Served(id) |-> RemoveOrder(agents[a].book, i)]
  <2>1. ASSUME NEW a \in Served(id), NEW d \in possible[a]
        PROVE  d \in Books /\ d.orders = Drop(agents[a].book.orders, i)
    BY <2>1, AgentsBooks, RemoveAny DEF Served
  <2>2. \A a, b \in Served(id) : agents[a].book.orders = agents[b].book.orders
    BY AgentsBooks DEF Served
  <2>3. DOMAIN possible = Served(id)
    OBVIOUS
  <2> HIDE DEF possible
  <2>4. \A a, b \in Served(id) : \A d \in possible[a] : \A e \in possible[b] :
            d.orders = e.orders
    BY <2>1, <2>2
  <2>5. Update(id, Ns, possible)
    BY <1>2 DEF possible
  <2>6. QED BY <1>2, <2>1, <2>3, <2>4, <2>5, UpdateMoves
<1>3. QED BY <1>1, <1>2 DEF DeleteMsg

LEMMA ReplaceMoves ==
  ASSUME IInv, UNCHANGED clock, NEW id, NEW i, NEW n \in Ids, NEW p \in Prices,
         NEW q \in Word, ReplaceMsg(id, i, n, p, q, Ns)
  PROVE  Still \/ Moves
<1>1. CASE Ignored
  BY <1>1, NoEventOK DEF Ignored, Silent, KeepMaps, Still, IInv, FaultOK
<1>2. CASE Throw("invalid side") /\ KeepMaps /\ UNCHANGED agents
  BY <1>2, NoEventOK DEF Throw, KeepMaps, Still, FaultOK
<1> DEFINE new(a) == ReplaceOrder(agents[a].book, i, n, SideOf(agents[a].book, i), p, q)
           possible == [a \in Served(id) |-> new(a)]
<1>3. CASE Routed(id) /\ Update(id, Ns, possible) /\
           \A a \in Served(id) : HasOrder(agents[a].book, i)
  <2> DEFINE dropped(a) == Drop(agents[a].book.orders, i)
             order(a) == [side |-> SideOf(agents[a].book, i), price |-> p, quantity |-> q]
  <2>1. ASSUME NEW a \in Served(id), NEW d \in possible[a]
        PROVE  /\ d \in Books
               /\ d.orders = IF n \in DOMAIN dropped(a) THEN dropped(a)
                             ELSE Put(dropped(a), n, order(a))
    <3> DEFINE b == agents[a].book
    <3>1. b \in Books /\ i \in DOMAIN b.orders /\ SideOf(b, i) \in Sides
      BY <1>3, AgentsBooks, BookType DEF Served, HasOrder, SideOf, Orders
    <3>2. PICK c \in RemoveOrder(b, i) : d = AddOrder(c, n, SideOf(b, i), p, q)
      BY <2>1 DEF ReplaceOrder
    <3>3. c \in Books /\ c.orders = dropped(a)
      BY <3>1, RemoveAny
    <3> HIDE DEF b
    <3>4. /\ d \in Books
          /\ d.orders = IF HasOrder(c, n) THEN c.orders
                        ELSE Put(c.orders, n, [side |-> SideOf(b, i), price |-> p,
                                               quantity |-> q])
      BY <3>1, <3>2, <3>3, AddAny
    <3>5. QED BY <3>3, <3>4 DEF HasOrder, b
  <2>2. \A a, b \in Served(id) : dropped(a) = dropped(b) /\ order(a) = order(b)
    <3>1. \A a, b \in Served(id) : agents[a].book.orders = agents[b].book.orders
      BY AgentsBooks DEF Served
    <3>2. QED BY <3>1 DEF SideOf, HasOrder
  <2>3. DOMAIN possible = Served(id)
    OBVIOUS
  <2> HIDE DEF possible, dropped, order
  <2>4. ASSUME NEW a \in Served(id), NEW b \in Served(id),
               NEW d \in possible[a], NEW e \in possible[b]
        PROVE  d.orders = e.orders
    BY <2>1, <2>2
  <2>5. QED BY <1>3, <2>1, <2>3, <2>4, UpdateMoves
<1>4. QED BY <1>1, <1>2, <1>3 DEF ReplaceMsg

(* The result that an execution's event reports is one of an agent of the  *)
(* symbol, if it has one: a finite set of numbers has a greatest.          *)
LEMMA Greatest ==
  ASSUME NEW S, S \subseteq Nat, IsFiniteSet(S), S # {}
  PROVE  Max(S) \in S
<1> DEFINE Above(x) == {y \in S : x <= y}
           T == {Above(x) : x \in S}
<1>1. T \subseteq FiniteSubsetsOf(S) /\ T # {}
  <2>1. \A x \in S : Above(x) \in SUBSET S /\ IsFiniteSet(Above(x))
    BY FS_Subset
  <2> HIDE DEF Above
  <2>2. QED BY <2>1 DEF FiniteSubsetsOf
<1>2. IsWellFoundedOn(StrictSubsetOrdering(S), FiniteSubsetsOf(S))
  BY FS_StrictSubsetOrderingWellFounded
<1> HIDE DEF T
<1>3. PICK U \in T : \A V \in T : <<V, U>> \notin StrictSubsetOrdering(S)
  BY <1>1, <1>2, WFMin
<1>4. PICK x \in S : U = Above(x)
  BY DEF T
<1>5. ASSUME NEW y \in S PROVE x >= y
  <2> SUFFICES ASSUME x < y PROVE FALSE
    OBVIOUS
  <2>1. Above(y) \in T
    BY DEF T
  <2>2. Above(y) \subseteq Above(x) /\ x \in Above(x) /\ x \notin Above(y)
    <3>1. x \in Nat /\ y \in Nat /\ x < y
      OBVIOUS
    <3>2. x \in Above(x) /\ x \notin Above(y)
      BY <3>1
    <3>3. ASSUME NEW z \in S, y <= z PROVE x <= z
      <4>1. z \in Nat
        OBVIOUS
      <4>2. QED BY <3>1, <3>3, <4>1
    <3>4. QED BY <3>2, <3>3
  <2>3. <<Above(y), Above(x)>> \in StrictSubsetOrdering(S)
    BY <2>2 DEF StrictSubsetOrdering
  <2>4. QED BY <1>3, <1>4, <2>1, <2>3
<1>6. QED BY <1>5 DEF Max

LEMMA LastAgent ==
  ASSUME NEW k, AgentsOf(k) # {}
  PROVE  Max(AgentsOf(k)) \in AgentsOf(k)
<1>1. AgentsOf(k) \subseteq Nat /\ IsFiniteSet(AgentsOf(k))
  BY FeedAssumption, FS_Subset DEF AgentsOf
<1>2. QED BY <1>1, Greatest

LEMMA ExecuteMoves ==
  ASSUME IInv, UNCHANGED clock, NEW id, Routed(id), NEW i, NEW q \in Nat,
         NEW prices, ExecuteAll(id, i, q, Ns, prices)
  PROVE  Moves
<1> DEFINE k == SymbolFor(id)
           possible == [a \in Served(id) |-> ExecuteOrder(agents[a].book, i, q)]
<1>1. PICK r \in Outcomes(possible) :
        LET result == r[Max(AgentsOf(k))].execution
        IN  /\ agents' = WithBooks(k, [a \in AgentsOf(k) |-> r[a].book], Timestamp(Ns))
            /\ KeepMaps
            /\ IF result.side = NoSide
               THEN Throw("invalid trade sign")
               ELSE Raise({"trade", "update"} \cup sweep_event(result), k, Timestamp(Ns),
                          [price |-> TradePrice(prices, result), quantity |-> q,
                           sign |-> itch_bist_trade_sign(result.side)])
  BY DEF ExecuteAll
<1>2. \A a \in AgentsOf(k) : r[a] \in ExecuteOrder(agents[a].book, i, q)
  BY DEF Outcomes, Served
<1> DEFINE c == [a \in AgentsOf(k) |-> r[a].book]
           result == r[Max(AgentsOf(k))].execution
<1>3. k \in Symbols
  BY SymbolIsOne
<1>4. ASSUME NEW a \in AgentsOf(k)
      PROVE  /\ r[a].book \in Books
             /\ HasOrder(agents[a].book, i) =>
                  /\ r[a].book.orders = Afterwards(agents[a].book.orders, i, q)
                  /\ r[a].execution.side \in Sides
             /\ ~HasOrder(agents[a].book, i) => r[a].book = agents[a].book
  <2>1. agents[a].book \in Books
    BY AgentsBooks
  <2>2. HasOrder(agents[a].book, i) => agents[a].book.orders[i].side \in Sides
    BY <2>1, BookType DEF HasOrder, Orders
  <2>3. QED BY <1>2, <2>1, <2>2, ExecuteAny
<1>5. ASSUME NEW a \in AgentsOf(k), NEW b \in AgentsOf(k)
      PROVE  /\ r[a].book.orders = r[b].book.orders
             /\ HasOrder(agents[a].book, i) <=> HasOrder(agents[b].book, i)
  <2>1. agents[a].book.orders = agents[b].book.orders
    BY AgentsBooks
  <2>2. QED BY <1>4, <2>1 DEF HasOrder
<1>6. CASE result.side = NoSide
  <2>1. Throw("invalid trade sign")
    BY <1>1, <1>6
  <2>2. EventOK' /\ FaultOK'
    BY <2>1, NoEventOK DEF Throw, FaultOK
  <2>3. ASSUME NEW a \in AgentsOf(k) PROVE c[a] = agents[a].book
    <3>1. Max(AgentsOf(k)) \in AgentsOf(k)
      BY LastAgent
    <3>2. ~HasOrder(agents[Max(AgentsOf(k))].book, i)
      BY <1>4, <1>6, <3>1 DEF Sides, NoSide
    <3>3. QED BY <1>4, <1>5, <3>1, <3>2
  <2>4. MovesTo(k, c)
    BY <1>1, <1>4, <1>5, <2>2, <2>3 DEF MovesTo, KeepMaps
  <2>5. QED BY <1>3, <2>4 DEF Moves
<1>7. CASE result.side # NoSide
  <2> DEFINE mask == {"trade", "update"} \cup sweep_event(result)
  <2>1. PICK trade : Raise(mask, k, Timestamp(Ns), trade)
    BY <1>1, <1>7
  <2>2. mask \subseteq {"trade", "update", "sweep", "opened", "closed"}
    BY DEF sweep_event
  <2>3. EventOK' /\ FaultOK' /\ event'.mask = mask /\ event'.symbol = k
    BY <1>3, <2>1, <2>2, RaiseOK
  <2>4. MovesTo(k, c)
    BY <1>1, <1>4, <1>5, <2>3 DEF MovesTo, KeepMaps
  <2>5. QED BY <1>3, <2>4 DEF Moves
<1>8. QED BY <1>6, <1>7

LEMMA ReportStill ==
  ASSUME IInv, UNCHANGED clock, NEW id, Routed(id), NEW p, NEW q, NEW sign,
         ReportTrade(id, p, q, sign, Ns)
  PROVE  Still
<1>1. SymbolFor(id) \in Symbols
  BY SymbolIsOne
<1>2. PICK trade : Raise({"trade"}, SymbolFor(id), Timestamp(Ns), trade)
  BY DEF ReportTrade
<1>3. EventOK' /\ FaultOK'
  BY <1>1, <1>2, RaiseOK
<1>4. QED BY <1>3 DEF ReportTrade, KeepMaps, Still

-----------------------------------------------------------------------------
(* The steps.                                                              *)
LEMMA IsResting ==
  ASSUME IInv, NEW o \in resting
  PROVE  /\ o.book \in OrderBookIds /\ o.side \in Sides
         /\ o.id \in OrderIds /\ o.id \in Ids /\ o.price \in Prices
         /\ o.quantity \in Quantities /\ o.shown \in BOOLEAN
<1>1. o \in RestingOrders
  BY DEF IInv, ExchangeOK
<1>2. QED BY <1>1, FeedAssumption DEF RestingOrders

LEMMA TakenRests ==
  ASSUME IInv, NEW o \in resting, NEW q \in Quantities, q <= o.quantity
  PROVE  Taken(o, q) \subseteq RestingOrders
<1>1. resting \subseteq RestingOrders /\ o \in RestingOrders
  BY DEF IInv, ExchangeOK
<1>2. CASE q = o.quantity
  BY <1>1, <1>2 DEF Taken
<1>3. CASE q # o.quantity
  <2>1. q \in Nat /\ o.quantity \in Nat /\ o.quantity \in Quantities
    BY IsResting, QuantitiesAreWords
  <2>2. q < o.quantity
    BY <1>3, <2>1
  <2>3. o.quantity - q \in Quantities
    BY <2>1, <2>2, FeedAssumption
  <2>4. [o EXCEPT !.quantity = @ - q] \in RestingOrders
    BY <1>1, <2>3 DEF RestingOrders
  <2>5. QED BY <1>1, <2>4 DEF Taken
<1>4. QED BY <1>2, <1>3

(* A message that has nothing to do with the directory, the trading states *)
(* or the clock.                                                           *)
Trading ==
  /\ UNCHANGED <<listing, phase, clock>>
  /\ resting' \subseteq RestingOrders
  /\ Still \/ Moves

LEMMA ExecutedTrading ==
  ASSUME IInv, UNCHANGED clock, NEW id, NEW i, NEW q \in Nat, ExecutedMsg(id, i, q, Ns)
  PROVE  Still \/ Moves
<1>1. CASE Ignored
  BY <1>1, NoEventOK DEF Ignored, Silent, KeepMaps, Still, IInv, FaultOK
<1>2. CASE Routed(id) /\ ExecuteAll(id, i, q, Ns, {})
  BY <1>2, ExecuteMoves
<1>3. QED BY <1>1, <1>2 DEF ExecutedMsg

LEMMA PricedTrading ==
  ASSUME IInv, UNCHANGED clock, NEW id, NEW i, NEW q \in Nat, NEW p, NEW cross,
         ExecutedWithPriceMsg(id, i, q, p, cross, Ns)
  PROVE  Still \/ Moves
<1>1. CASE Ignored
  BY <1>1, NoEventOK DEF Ignored, Silent, KeepMaps, Still, IInv, FaultOK
<1>2. CASE Routed(id) /\ ExecuteAll(id, i, q, Ns, {p})
  BY <1>2, ExecuteMoves
<1>3. CASE Routed(id) /\ ReportTrade(id, p, q, "crossing", Ns)
  BY <1>3, ReportStill
<1>4. QED BY <1>1, <1>2, <1>3 DEF ExecutedWithPriceMsg

LEMMA ZeroIsWord == 0 \in Word
BY ModulusAssumption DEF Word

LEMMA EnterTrading ==
  ASSUME IInv, NEW o \in RestingOrders, Enter(o)
  PROVE  Trading
<1>1. /\ o.id \in Ids /\ o.price \in Prices
      /\ (IF o.shown THEN o.quantity ELSE 0) \in Word
  BY FeedAssumption, QuantitiesAreWords, ZeroIsWord DEF RestingOrders
<1>2. UNCHANGED clock /\ UNCHANGED listing /\ UNCHANGED phase /\ resting' = resting \cup {o}
      /\ AddMsg(o.book, o.id, o.side, o.price, IF o.shown THEN o.quantity ELSE 0, Ns)
  BY DEF Enter
<1>3. Still \/ Moves
  BY <1>1, <1>2, AddMoves
<1>4. QED BY <1>2, <1>3 DEF Trading, IInv, ExchangeOK

LEMMA AmendTrading ==
  ASSUME IInv, NEW o \in resting, NEW position \in Positions, NEW p \in Prices,
         NEW q \in Quantities, Amend(o, position, p, q)
  PROVE  Trading
<1>1. position \in Ids /\ (IF o.shown THEN q ELSE 0) \in Word
  BY FeedAssumption, QuantitiesAreWords, ZeroIsWord
<1>2. UNCHANGED clock /\ UNCHANGED listing /\ UNCHANGED phase
      /\ resting' = (resting \ {o}) \cup {[o EXCEPT !.price = p, !.quantity = q]}
      /\ ReplaceMsg(o.book, o.id, position, p, IF o.shown THEN q ELSE 0, Ns)
  BY DEF Amend
<1>3. Still \/ Moves
  BY <1>1, <1>2, ReplaceMoves
<1>4. [o EXCEPT !.price = p, !.quantity = q] \in RestingOrders
  BY DEF IInv, ExchangeOK, RestingOrders
<1>5. QED BY <1>2, <1>3, <1>4 DEF Trading, IInv, ExchangeOK

LEMMA RestsTrading ==
  ASSUME IInv, NEW o \in resting, NEW q \in Quantities, NEW p \in Prices,
         Leave(o) \/ Fill(o, q) \/ FillAt(o, q, p) \/ Cross(o, q, p)
  PROVE  Trading
<1>1. /\ UNCHANGED clock /\ UNCHANGED listing /\ UNCHANGED phase
  BY DEF Leave, Fill, FillAt, Cross
<1>2. resting' \subseteq RestingOrders
  <2>1. resting \subseteq RestingOrders
    BY DEF IInv, ExchangeOK
  <2>2. \/ resting' = resting \ {o} \/ resting' = resting
        \/ q <= o.quantity /\ resting' = Taken(o, q)
    BY DEF Leave, Fill, FillAt, Cross
  <2>3. QED BY <2>1, <2>2, TakenRests
<1>3. Still \/ Moves
  <2>1. q \in Nat
    BY QuantitiesAreWords
  <2>2. CASE Leave(o)
    BY <1>1, <2>2, DeleteMoves DEF Leave
  <2>3. CASE Fill(o, q)
    BY <1>1, <2>1, <2>3, ExecutedTrading DEF Fill
  <2>4. CASE FillAt(o, q, p) \/ Cross(o, q, p)
    BY <1>1, <2>1, <2>4, PricedTrading DEF FillAt, Cross
  <2>5. QED BY <2>2, <2>3, <2>4
<1>4. QED BY <1>1, <1>2, <1>3 DEF Trading

LEMMA StillTrading ==
  ASSUME IInv, UNCHANGED exchangeVars, Still
  PROVE  Trading
BY DEF Trading, IInv, ExchangeOK, exchangeVars

LEMMA IgnoredStill == ASSUME IInv, Ignored PROVE Still
BY NoEventOK DEF Ignored, Silent, KeepMaps, Still, IInv, FaultOK

LEMMA ReportTrading ==
  ASSUME IInv, NEW id, NEW p, NEW q, Report(id, p, q)
  PROVE  Trading
<1>1. UNCHANGED exchangeVars /\ UNCHANGED clock /\ TradeMsg(id, p, q, Ns)
  BY DEF Report, exchangeVars
<1>2. CASE Ignored
  BY <1>1, <1>2, IgnoredStill, StillTrading
<1>3. CASE Routed(id) /\ ReportTrade(id, p, q, "non_displayable", Ns)
  BY <1>1, <1>3, ReportStill, StillTrading
<1>4. QED BY <1>1, <1>2, <1>3 DEF TradeMsg

LEMMA SessionTrading ==
  ASSUME IInv, NEW code, Session(code)
  PROVE  Trading
<1>1. UNCHANGED exchangeVars /\ UNCHANGED clock /\ System(code, Ns)
  BY DEF Session, exchangeVars
<1>2. PICK mask : /\ mask \subseteq {"trade", "update", "sweep", "opened", "closed"}
                  /\ Raise(mask, "", Timestamp(Ns), NoTrade)
  <2> DEFINE mask == {IF code = "O" THEN "opened" ELSE "closed"}
  <2>1. Raise(mask, "", Timestamp(Ns), NoTrade)
    BY <1>1 DEF System
  <2>2. mask \subseteq {"trade", "update", "sweep", "opened", "closed"}
    OBVIOUS
  <2> HIDE DEF mask
  <2>3. QED BY <2>1, <2>2
<1>3. EventOK' /\ FaultOK'
  BY <1>1, <1>2, RaiseOK
<1>4. Still
  BY <1>1, <1>3 DEF System, KeepMaps, Still
<1>5. QED BY <1>1, <1>4, StillTrading

LEMMA MalformedTrading == ASSUME IInv, Malformed PROVE Trading
<1>1. UNCHANGED exchangeVars /\ UNCHANGED clock
  BY DEF Malformed, exchangeVars
<1>2. CASE UnknownType
  <2>1. Still
    BY <1>2, NoEventOK DEF UnknownType, Throw, KeepMaps, Still, FaultOK
  <2>2. QED BY <1>1, <2>1, StillTrading
<1>3. ASSUME NEW id \in OrderBookIds, NEW i \in OrderIds, NEW p \in Prices,
             NEW q \in Quantities, AddMsg(id, i, NoSide, p, q, Ns)
      PROVE  Trading
  <2>1. i \in Ids /\ q \in Word
    BY FeedAssumption, QuantitiesAreWords
  <2>2. Still \/ Moves
    BY <1>1, <1>3, <2>1, AddMoves
  <2>3. QED BY <1>1, <2>2 DEF Trading, IInv, ExchangeOK, exchangeVars
<1>4. QED BY <1>2, <1>3 DEF Malformed

LEMMA Steps ==
  ASSUME IInv, [Next]_vars
  PROVE  \/ Tick
         \/ \E id \in OrderBookIds : \E n \in Instruments : List(id, n)
         \/ \E id \in OrderBookIds : \E name \in StateNames : Announce(id, name)
         \/ Trading
         \/ UNCHANGED vars
<1>1. ASSUME Uninteresting PROVE Trading
  BY <1>1, IgnoredStill, StillTrading DEF Uninteresting
<1>2. ASSUME NEW o \in resting, Leave(o) PROVE Trading
  BY <1>2, IsResting, RestsTrading
<1>3. ASSUME NEW o \in resting, NEW q \in Quantities, Fill(o, q) PROVE Trading
  BY <1>3, IsResting, RestsTrading
<1>4. ASSUME NEW o \in resting, NEW q \in Quantities, NEW p \in Prices,
             FillAt(o, q, p) \/ Cross(o, q, p)
      PROVE  Trading
  BY <1>4, RestsTrading
<1>5. QED
  BY <1>1, <1>2, <1>3, <1>4, ReportTrading, SessionTrading, MalformedTrading,
     EnterTrading, AmendTrading DEF Next, Message

-----------------------------------------------------------------------------
(* The invariant is kept.                                                  *)
Agent == [book : Books, state_name : StateTexts, timestamp : Nat, decimals : Nat]

LEMMA AgentMade ==
  ASSUME NEW b \in Books, NEW n \in StateTexts, NEW t \in Nat, NEW d \in Nat
  PROVE  [book |-> b, state_name |-> n, timestamp |-> t, decimals |-> d] \in Agent
BY DEF Agent

LEMMA AgentChanged ==
  ASSUME NEW x, NEW xb, NEW xn, NEW xt, NEW xd,
         x = [book |-> xb, state_name |-> xn, timestamp |-> xt, decimals |-> xd],
         NEW b, NEW n, NEW t, NEW d
  PROVE  /\ [x EXCEPT !.book = b, !.timestamp = t] =
              [book |-> b, state_name |-> xn, timestamp |-> t, decimals |-> xd]
         /\ [x EXCEPT !.timestamp = t, !.decimals = d] =
              [book |-> xb, state_name |-> xn, timestamp |-> t, decimals |-> d]
         /\ [x EXCEPT !.state_name = n] =
              [book |-> xb, state_name |-> n, timestamp |-> xt, decimals |-> xd]
<1>0. DOMAIN x = {"book", "state_name", "timestamp", "decimals"}
  OBVIOUS
<1>1. [x EXCEPT !.book = b, !.timestamp = t] =
        [book |-> b, state_name |-> xn, timestamp |-> t, decimals |-> xd]
  <2> DEFINE y == [x EXCEPT !.book = b, !.timestamp = t]
  <2>1. y = [f \in DOMAIN x |-> y[f]]
    OBVIOUS
  <2>2. y.book = b
    BY <1>0
  <2>3. y.state_name = xn
    BY <1>0
  <2>4. y.timestamp = t
    BY <1>0
  <2>5. y.decimals = xd
    BY <1>0
  <2> HIDE DEF y
  <2>6. y = [book |-> b, state_name |-> xn, timestamp |-> t, decimals |-> xd]
    BY <1>0, <2>1, <2>2, <2>3, <2>4, <2>5
  <2>7. QED BY <2>6 DEF y
<1>2. [x EXCEPT !.timestamp = t, !.decimals = d] =
        [book |-> xb, state_name |-> xn, timestamp |-> t, decimals |-> d]
  <2> DEFINE y == [x EXCEPT !.timestamp = t, !.decimals = d]
  <2>1. y = [f \in DOMAIN x |-> y[f]]
    OBVIOUS
  <2>2. y.book = xb
    BY <1>0
  <2>3. y.state_name = xn
    BY <1>0
  <2>4. y.timestamp = t
    BY <1>0
  <2>5. y.decimals = d
    BY <1>0
  <2> HIDE DEF y
  <2>6. y = [book |-> xb, state_name |-> xn, timestamp |-> t, decimals |-> d]
    BY <1>0, <2>1, <2>2, <2>3, <2>4, <2>5
  <2>7. QED BY <2>6 DEF y
<1>3. [x EXCEPT !.state_name = n] =
        [book |-> xb, state_name |-> n, timestamp |-> xt, decimals |-> xd]
  OBVIOUS
<1>4. QED BY <1>1, <1>2, <1>3

LEMMA AgentFields ==
  ASSUME IInv, NEW a \in Agents
  PROVE  /\ agents[a] \in Agent
         /\ agents[a] = [book |-> agents[a].book, state_name |-> agents[a].state_name,
                         timestamp |-> agents[a].timestamp, decimals |-> agents[a].decimals]
         /\ agents[a].book \in Books /\ agents[a].state_name \in StateTexts
         /\ agents[a].timestamp \in Nat /\ agents[a].timestamp <= clock
         /\ agents[a].decimals \in Nat
<1>1. agents \in [Agents -> Agent] /\ agents[a].timestamp <= clock
  BY DEF IInv, AgentsOK, Agent
<1>2. agents[a] \in Agent
  BY <1>1
<1>3. QED BY <1>1, <1>2 DEF Agent

(* What a message for a symbol makes of an agent.                          *)
LEMMA Moved ==
  ASSUME IInv, NEW k, NEW c, MovesTo(k, c), NEW a \in Agents
  PROVE  agents'[a] = IF a \in AgentsOf(k)
                      THEN [book |-> c[a], state_name |-> agents[a].state_name,
                            timestamp |-> clock, decimals |-> agents[a].decimals]
                      ELSE agents[a]
<1>1. agents' = WithBooks(k, c, clock)
  BY StampIsTime DEF MovesTo
<1>2. agents'[a] = IF a \in AgentsOf(k)
                   THEN [agents[a] EXCEPT !.book = c[a], !.timestamp = clock]
                   ELSE agents[a]
  BY <1>1 DEF WithBooks
<1>3. agents[a] = [book |-> agents[a].book, state_name |-> agents[a].state_name,
                   timestamp |-> agents[a].timestamp, decimals |-> agents[a].decimals]
  BY AgentFields
<1>4. QED BY <1>2, <1>3, AgentChanged

LEMMA Agreement ==
  ASSUME IInv, NEW a \in Agents, NEW b \in Agents, SymbolOf[a] = SymbolOf[b]
  PROVE  /\ agents[a].book.orders = agents[b].book.orders
         /\ agents[a].timestamp = agents[b].timestamp
         /\ agents[a].state_name = agents[b].state_name
         /\ agents[a].decimals = agents[b].decimals
BY DEF IInv, AgentsAgree

LEMMA MovedInv ==
  ASSUME IInv, Moves, UNCHANGED clock
  PROVE  AgentsOK' /\ AgentsAgree' /\ MapOK' /\ EventOK' /\ FaultOK' /\ UNCHANGED time_secs
<1>1. PICK k \in Symbols : \E c : MovesTo(k, c)
  BY DEF Moves
<1>2. PICK c : MovesTo(k, c)
  BY <1>1
<1>3. MapOK' /\ EventOK' /\ FaultOK' /\ UNCHANGED time_secs
  BY <1>2 DEF MovesTo, MapOK, IInv
<1>4. \A a \in AgentsOf(k) : c[a] \in Books
  BY <1>2 DEF MovesTo
<1>5. \A a, b \in AgentsOf(k) : c[a].orders = c[b].orders
  BY <1>2 DEF MovesTo
<1>6. AgentsOK'
  <2>1. ASSUME NEW a \in Agents
        PROVE  agents'[a] \in Agent /\ agents'[a].timestamp <= clock
    <3>1. CASE a \in AgentsOf(k)
      <4>1. agents'[a] = [book |-> c[a], state_name |-> agents[a].state_name,
                          timestamp |-> clock, decimals |-> agents[a].decimals]
        BY <1>2, <3>1, Moved
      <4>2. clock \in Nat /\ clock <= clock
        BY StampIsTime
      <4>3. /\ c[a] \in Books /\ agents[a].state_name \in StateTexts
            /\ agents[a].decimals \in Nat
        BY <1>4, <3>1, AgentFields
      <4>4. agents'[a] \in Agent
        BY <4>1, <4>2, <4>3, AgentMade
      <4>5. QED BY <4>1, <4>2, <4>4
    <3>2. CASE a \notin AgentsOf(k)
      <4>1. agents'[a] = agents[a]
        BY <1>2, <3>2, Moved
      <4>2. QED BY <4>1, AgentFields
    <3>3. QED BY <3>1, <3>2
  <2>2. agents' = [a \in Agents |-> agents'[a]]
    BY <1>2 DEF MovesTo, WithBooks
  <2>3. agents' \in [Agents -> Agent]
    BY <2>1, <2>2
  <2>4. QED BY <2>1, <2>3 DEF AgentsOK, Agent
<1>7. AgentsAgree'
  <2>1. ASSUME NEW a \in Agents, NEW b \in Agents, SymbolOf[a] = SymbolOf[b]
        PROVE  /\ agents'[a].book.orders = agents'[b].book.orders
               /\ agents'[a].timestamp = agents'[b].timestamp
               /\ agents'[a].state_name = agents'[b].state_name
               /\ agents'[a].decimals = agents'[b].decimals
    <3>1. CASE a \in AgentsOf(k)
      <4>1. b \in AgentsOf(k)
        BY <2>1, <3>1 DEF AgentsOf
      <4>2. agents'[a] = [book |-> c[a], state_name |-> agents[a].state_name,
                          timestamp |-> clock, decimals |-> agents[a].decimals]
        BY <1>2, <3>1, Moved
      <4>3. agents'[b] = [book |-> c[b], state_name |-> agents[b].state_name,
                          timestamp |-> clock, decimals |-> agents[b].decimals]
        BY <1>2, <4>1, Moved
      <4>4. /\ agents[a].state_name = agents[b].state_name
            /\ agents[a].decimals = agents[b].decimals
        BY <2>1, Agreement
      <4>5. c[a].orders = c[b].orders
        BY <1>5, <3>1, <4>1
      <4>6. QED BY <4>2, <4>3, <4>4, <4>5
    <3>2. CASE a \notin AgentsOf(k)
      <4>1. b \notin AgentsOf(k)
        BY <2>1, <3>2 DEF AgentsOf
      <4>2. agents'[a] = agents[a] /\ agents'[b] = agents[b]
        BY <1>2, <3>2, <4>1, Moved
      <4>3. QED BY <2>1, <4>2, Agreement
    <3>3. QED BY <3>1, <3>2
  <2>2. QED BY <2>1 DEF AgentsAgree
<1>8. QED BY <1>3, <1>6, <1>7

LEMMA TradingInv == ASSUME IInv, Trading PROVE IInv'
<1>1. UNCHANGED <<listing, phase, clock>> /\ resting' \subseteq RestingOrders
  BY DEF Trading
<1>2. ExchangeOK'
  BY <1>1 DEF IInv, ExchangeOK
<1>3. CASE Still
  BY <1>1, <1>2, <1>3 DEF Still, IInv, AgentsOK, AgentsAgree, MapOK
<1>4. CASE Moves
  BY <1>1, <1>2, <1>4, MovedInv DEF IInv
<1>5. QED BY <1>3, <1>4 DEF Trading

LEMMA TickInv == ASSUME IInv, Tick PROVE IInv'
<1>1. /\ UNCHANGED <<listing, resting, phase, order_book_id_sym_map, agents, fault>>
      /\ event' = NoEvent
  BY DEF Tick, Seconds, Ignored, Silent, KeepMaps
<1>2. clock \in 0 .. MaxClock /\ clock' \in 0 .. MaxClock /\ clock' = clock + 1
      /\ clock \in Nat
  <2>1. clock \in 0 .. MaxClock /\ clock < MaxClock /\ clock' = clock + 1
    BY DEF Tick, IInv, ExchangeOK
  <2>2. MaxClock \in Nat
    BY FeedAssumption
  <2>3. QED BY <2>1, <2>2
<1>3. time_secs' = clock' \div NanosPerSecond
  <2>1. CASE clock' % NanosPerSecond = 0
    BY <2>1 DEF Tick, Seconds
  <2>2. CASE clock' % NanosPerSecond # 0
    <3>1. time_secs' = time_secs
      BY <2>2 DEF Tick, Ignored, KeepMaps
    <3>2. (clock + 1) \div NanosPerSecond = clock \div NanosPerSecond
      BY <1>2, <2>2, DivStays, FeedAssumption
    <3>3. QED BY <1>2, <3>1, <3>2 DEF IInv
  <2>3. QED BY <2>1, <2>2
<1>4. ExchangeOK' /\ AgentsAgree' /\ MapOK' /\ FaultOK' /\ EventOK'
  BY <1>1, <1>2, NoEventOK DEF IInv, ExchangeOK, AgentsAgree, MapOK, FaultOK
<1>5. AgentsOK'
  <2>1. ASSUME NEW a \in Agents PROVE agents[a].timestamp <= clock'
    <3>1. agents[a].timestamp \in Nat /\ agents[a].timestamp <= clock
      BY AgentFields
    <3>2. QED BY <1>2, <3>1
  <2>2. QED BY <1>1, <2>1 DEF IInv, AgentsOK
<1>6. QED BY <1>3, <1>4, <1>5 DEF IInv

LEMMA ListAgents ==
  ASSUME IInv, NEW id, NEW n \in Instruments, List(id, n), NEW a \in Agents
  PROVE  agents'[a] = IF SymbolOf[a] = KeyOf[n]
                      THEN [book |-> agents[a].book, state_name |-> agents[a].state_name,
                            timestamp |-> clock, decimals |-> DecimalsOf[n]]
                      ELSE agents[a]
<1>1. agents' = [x \in Agents |->
         IF SymbolOf[x] = KeyOf[n]
         THEN [agents[x] EXCEPT !.timestamp = clock, !.decimals = DecimalsOf[n]]
         ELSE agents[x]]
  BY StampIsTime DEF List, Directory
<1>2. agents[a] = [book |-> agents[a].book, state_name |-> agents[a].state_name,
                   timestamp |-> agents[a].timestamp, decimals |-> agents[a].decimals]
  BY AgentFields
<1>3. agents'[a] = IF SymbolOf[a] = KeyOf[n]
                   THEN [agents[a] EXCEPT !.timestamp = clock, !.decimals = DecimalsOf[n]]
                   ELSE agents[a]
  BY <1>1
<1>4. QED BY <1>2, <1>3, AgentChanged

LEMMA ListInv ==
  ASSUME IInv, NEW id \in OrderBookIds, NEW n \in Instruments, List(id, n)
  PROVE  IInv'
<1>1. UNCHANGED <<resting, clock, time_secs, fault>> /\ event' = NoEvent
  BY DEF List, Directory, Silent
<1>2. ExchangeOK'
  <2>1. listing' \in Partial(OrderBookIds, Instruments)
    BY PutPartial DEF List, IInv, ExchangeOK
  <2>2. phase' \in [OrderBookIds -> StateNames \cup {""}]
    BY DEF List, IInv, ExchangeOK
  <2>3. QED BY <1>1, <2>1, <2>2 DEF IInv, ExchangeOK
<1>3. MapOK'
  <2>1. KeyOf[n] \in Symbols
    BY FeedAssumption
  <2>2. order_book_id_sym_map' = order_book_id_sym_map
           \/ order_book_id_sym_map' = Put(order_book_id_sym_map, id, KeyOf[n])
    BY DEF List, Directory
  <2>3. QED BY <2>1, <2>2, PutPartial DEF IInv, MapOK
<1>4. AgentsOK'
  <2>1. ASSUME NEW a \in Agents
        PROVE  agents'[a] \in Agent /\ agents'[a].timestamp <= clock
    <3>1. clock \in Nat /\ DecimalsOf[n] \in Nat /\ clock <= clock
      BY StampIsTime, FeedAssumption
    <3>2. CASE SymbolOf[a] = KeyOf[n]
      <4>1. agents'[a] = [book |-> agents[a].book, state_name |-> agents[a].state_name,
                          timestamp |-> clock, decimals |-> DecimalsOf[n]]
        BY <3>2, ListAgents
      <4>2. agents[a].book \in Books /\ agents[a].state_name \in StateTexts
        BY AgentFields
      <4>3. agents'[a] \in Agent
        BY <3>1, <4>1, <4>2, AgentMade
      <4>4. QED BY <3>1, <4>1, <4>3
    <3>3. CASE SymbolOf[a] # KeyOf[n]
      <4>1. agents'[a] = agents[a]
        BY <3>3, ListAgents
      <4>2. QED BY <4>1, AgentFields
    <3>4. QED BY <3>2, <3>3
  <2>2. agents' = [a \in Agents |-> agents'[a]]
    BY DEF List, Directory
  <2>3. agents' \in [Agents -> Agent]
    BY <2>1, <2>2
  <2>4. QED BY <1>1, <2>1, <2>3 DEF AgentsOK, Agent
<1>5. AgentsAgree'
  <2>1. ASSUME NEW a \in Agents, NEW b \in Agents, SymbolOf[a] = SymbolOf[b]
        PROVE  /\ agents'[a].book.orders = agents'[b].book.orders
               /\ agents'[a].timestamp = agents'[b].timestamp
               /\ agents'[a].state_name = agents'[b].state_name
               /\ agents'[a].decimals = agents'[b].decimals
    <3>1. /\ agents[a].book.orders = agents[b].book.orders
          /\ agents[a].timestamp = agents[b].timestamp
          /\ agents[a].state_name = agents[b].state_name
          /\ agents[a].decimals = agents[b].decimals
      BY <2>1, Agreement
    <3>2. CASE SymbolOf[a] = KeyOf[n]
      <4>1. agents'[a] = [book |-> agents[a].book, state_name |-> agents[a].state_name,
                          timestamp |-> clock, decimals |-> DecimalsOf[n]]
        BY <3>2, ListAgents
      <4>2. agents'[b] = [book |-> agents[b].book, state_name |-> agents[b].state_name,
                          timestamp |-> clock, decimals |-> DecimalsOf[n]]
        BY <2>1, <3>2, ListAgents
      <4>3. QED BY <3>1, <4>1, <4>2
    <3>3. CASE SymbolOf[a] # KeyOf[n]
      <4>1. agents'[a] = agents[a] /\ agents'[b] = agents[b]
        BY <2>1, <3>3, ListAgents
      <4>2. QED BY <3>1, <4>1
    <3>4. QED BY <3>2, <3>3
  <2>2. QED BY <2>1 DEF AgentsAgree
<1>6. FaultOK' /\ EventOK' /\ time_secs' = clock' \div NanosPerSecond
  BY <1>1, NoEventOK DEF IInv, FaultOK
<1>7. QED BY <1>2, <1>3, <1>4, <1>5, <1>6 DEF IInv

(* What is made of a state name: a text that begins with it, for every     *)
(* agent of the symbol.                                                    *)
Renamed(id, text) ==
  agents' = [a \in Agents |->
    IF Routed(id) /\ SymbolOf[a] = SymbolFor(id)
    THEN [agents[a] EXCEPT !.state_name = text] ELSE agents[a]]

LEMMA AnnounceRenames ==
  ASSUME NEW id, NEW name \in StateNames, Announce(id, name)
  PROVE  \E text \in StateTexts : text.field = name /\ Renamed(id, text)
<1>1. PICK tail \in Tails : Renamed(id, StateText(name, tail))
  BY DEF Announce, State, Renamed
<1>2. StateText(name, tail) \in StateTexts /\ StateText(name, tail).field = name
  BY DEF StateTexts, StateText
<1>3. QED BY <1>1, <1>2

LEMMA AnnounceAgents ==
  ASSUME IInv, NEW id, NEW text, Renamed(id, text), NEW a \in Agents
  PROVE  agents'[a] = IF Routed(id) /\ SymbolOf[a] = SymbolFor(id)
                      THEN [book |-> agents[a].book, state_name |-> text,
                            timestamp |-> agents[a].timestamp,
                            decimals |-> agents[a].decimals]
                      ELSE agents[a]
<1>1. agents[a] = [book |-> agents[a].book, state_name |-> agents[a].state_name,
                   timestamp |-> agents[a].timestamp, decimals |-> agents[a].decimals]
  BY AgentFields
<1>2. agents'[a] = IF Routed(id) /\ SymbolOf[a] = SymbolFor(id)
                   THEN [agents[a] EXCEPT !.state_name = text] ELSE agents[a]
  BY DEF Renamed
<1>3. QED BY <1>1, <1>2, AgentChanged

LEMMA AnnounceInv ==
  ASSUME IInv, NEW id \in OrderBookIds, NEW name \in StateNames, Announce(id, name)
  PROVE  IInv'
<1>0. PICK text \in StateTexts : Renamed(id, text)
  BY AnnounceRenames
<1>1. /\ UNCHANGED <<listing, resting, clock, time_secs, order_book_id_sym_map, fault>>
      /\ event' = NoEvent
  BY DEF Announce, State, Silent, KeepMaps
<1>2. ExchangeOK'
  <2>1. phase' \in [OrderBookIds -> StateNames \cup {""}]
    BY DEF Announce, IInv, ExchangeOK
  <2>2. QED BY <1>1, <2>1 DEF IInv, ExchangeOK
<1>3. AgentsOK'
  <2>1. ASSUME NEW a \in Agents
        PROVE  agents'[a] \in Agent /\ agents'[a].timestamp <= clock
    <3>1. CASE Routed(id) /\ SymbolOf[a] = SymbolFor(id)
      <4>1. agents'[a] = [book |-> agents[a].book, state_name |-> text,
                          timestamp |-> agents[a].timestamp,
                          decimals |-> agents[a].decimals]
        BY <3>1, <1>0, AnnounceAgents
      <4>2. /\ agents[a].book \in Books /\ agents[a].timestamp \in Nat
            /\ agents[a].decimals \in Nat /\ agents[a].timestamp <= clock
        BY AgentFields
      <4>3. agents'[a] \in Agent
        BY <4>1, <4>2, AgentMade
      <4>4. QED BY <4>1, <4>2, <4>3
    <3>2. CASE ~(Routed(id) /\ SymbolOf[a] = SymbolFor(id))
      <4>1. agents'[a] = agents[a]
        BY <3>2, <1>0, AnnounceAgents
      <4>2. QED BY <4>1, AgentFields
    <3>3. QED BY <3>1, <3>2
  <2>2. agents' = [a \in Agents |-> agents'[a]]
    BY <1>0 DEF Renamed
  <2>3. agents' \in [Agents -> Agent]
    BY <2>1, <2>2
  <2>4. QED BY <1>1, <2>1, <2>3 DEF AgentsOK, Agent
<1>4. AgentsAgree'
  <2>1. ASSUME NEW a \in Agents, NEW b \in Agents, SymbolOf[a] = SymbolOf[b]
        PROVE  /\ agents'[a].book.orders = agents'[b].book.orders
               /\ agents'[a].timestamp = agents'[b].timestamp
               /\ agents'[a].state_name = agents'[b].state_name
               /\ agents'[a].decimals = agents'[b].decimals
    <3>1. /\ agents[a].book.orders = agents[b].book.orders
          /\ agents[a].timestamp = agents[b].timestamp
          /\ agents[a].state_name = agents[b].state_name
          /\ agents[a].decimals = agents[b].decimals
      BY <2>1, Agreement
    <3>2. CASE Routed(id) /\ SymbolOf[a] = SymbolFor(id)
      <4>1. agents'[a] = [book |-> agents[a].book, state_name |-> text,
                          timestamp |-> agents[a].timestamp,
                          decimals |-> agents[a].decimals]
        BY <3>2, <1>0, AnnounceAgents
      <4>2. agents'[b] = [book |-> agents[b].book, state_name |-> text,
                          timestamp |-> agents[b].timestamp,
                          decimals |-> agents[b].decimals]
        BY <2>1, <3>2, <1>0, AnnounceAgents
      <4>3. QED BY <3>1, <4>1, <4>2
    <3>3. CASE ~(Routed(id) /\ SymbolOf[a] = SymbolFor(id))
      <4>1. agents'[a] = agents[a] /\ agents'[b] = agents[b]
        BY <2>1, <3>3, <1>0, AnnounceAgents
      <4>2. QED BY <3>1, <4>1
    <3>4. QED BY <3>2, <3>3
  <2>2. QED BY <2>1 DEF AgentsAgree
<1>5. FaultOK' /\ EventOK' /\ MapOK' /\ time_secs' = clock' \div NanosPerSecond
  BY <1>1, NoEventOK DEF IInv, FaultOK, MapOK
<1>6. QED BY <1>2, <1>3, <1>4, <1>5 DEF IInv

LEMMA NextInv == IInv /\ [Next]_vars => IInv'
<1> SUFFICES ASSUME IInv, [Next]_vars PROVE IInv'
  OBVIOUS
<1>1. ASSUME UNCHANGED vars PROVE IInv'
  BY <1>1 DEF vars, exchangeVars, handlerVars, IInv, ExchangeOK, AgentsOK, AgentsAgree,
              MapOK, EventOK, FaultOK
<1>2. QED BY <1>1, Steps, TickInv, ListInv, AnnounceInv, TradingInv

LEMMA Invariance == Spec => []IInv
BY InitInv, NextInv, PTL DEF Spec

(* The types of what the handler keeps and raises: every book of every     *)
(* agent stays a book, whatever the exchange does.                         *)
THEOREM TypeCorrect == Spec => []TypeOK
<1>1. IInv => TypeOK
  <2> SUFFICES ASSUME IInv PROVE TypeOK
    OBVIOUS
  <2>1. time_secs \in Nat
    <3>1. clock \in Nat /\ NanosPerSecond \in Nat \ {0}
      BY StampIsTime, FeedAssumption
    <3>2. QED BY <3>1, DivMod DEF IInv
  <2>2. QED BY <2>1 DEF IInv, ExchangeOK, AgentsOK, MapOK, EventOK, FaultOK, TypeOK
<1>2. QED BY <1>1, Invariance, PTL

(* All agents of a symbol have the same orders, time, trading state and    *)
(* decimals, even if the levels of their books, or what their dangling     *)
(* pointers lead to, differ.                                               *)
THEOREM AgreementCorrect == Spec => []AgentsAgree
<1>1. IInv => AgentsAgree
  BY DEF IInv
<1>2. QED BY <1>1, Invariance, PTL

(* An event's time is the exchange's, for any number of nanoseconds to the *)
(* second, and no book is ahead of it.                                     *)
THEOREM TimesCorrect == Spec => []StampedInTime
<1>1. IInv => StampedInTime
  BY DEF IInv, EventOK, AgentsOK, StampedInTime
<1>2. QED BY <1>1, Invariance, PTL

(* A book that changes is announced to the readers of its symbol.          *)
Announced(a) ==
  agents[a].book # agents'[a].book =>
    "update" \in event'.mask /\ event'.symbol = SymbolOf[a]

LEMMA NextAnnounces == ASSUME IInv, [Next]_vars, NEW a \in Agents PROVE Announced(a)
<1>1. ASSUME Tick \/ UNCHANGED vars PROVE Announced(a)
  BY <1>1 DEF Tick, Seconds, Ignored, vars, handlerVars, Announced
<1>2. ASSUME NEW id, NEW n \in Instruments, List(id, n) PROVE Announced(a)
  <2>1. CASE SymbolOf[a] = KeyOf[n]
    <3>1. agents'[a] = [book |-> agents[a].book, state_name |-> agents[a].state_name,
                        timestamp |-> clock, decimals |-> DecimalsOf[n]]
      BY <1>2, <2>1, ListAgents
    <3>2. QED BY <3>1 DEF Announced
  <2>2. CASE SymbolOf[a] # KeyOf[n]
    BY <1>2, <2>2, ListAgents DEF Announced
  <2>3. QED BY <2>1, <2>2
<1>3. ASSUME NEW id, NEW name \in StateNames, Announce(id, name) PROVE Announced(a)
  <2>0. PICK text \in StateTexts : Renamed(id, text)
    BY <1>3, AnnounceRenames
  <2>1. CASE Routed(id) /\ SymbolOf[a] = SymbolFor(id)
    <3>1. agents'[a] = [book |-> agents[a].book, state_name |-> text,
                        timestamp |-> agents[a].timestamp,
                        decimals |-> agents[a].decimals]
      BY <2>0, <2>1, AnnounceAgents
    <3>2. QED BY <3>1 DEF Announced
  <2>2. CASE ~(Routed(id) /\ SymbolOf[a] = SymbolFor(id))
    BY <2>0, <2>2, AnnounceAgents DEF Announced
  <2>3. QED BY <2>1, <2>2
<1>4. ASSUME Still PROVE Announced(a)
  BY <1>4 DEF Still, Announced
<1>5. ASSUME NEW k \in Symbols, NEW c, MovesTo(k, c) PROVE Announced(a)
  <2>1. CASE a \notin AgentsOf(k)
    BY <1>5, <2>1, Moved DEF Announced
  <2>2. CASE a \in AgentsOf(k)
    <3>0. agents'[a] = [book |-> c[a], state_name |-> agents[a].state_name,
                        timestamp |-> clock, decimals |-> agents[a].decimals]
      BY <1>5, <2>2, Moved
    <3>1. agents'[a].book = c[a] /\ SymbolOf[a] = k
      BY <2>2, <3>0 DEF AgentsOf
    <3>2. \/ "update" \in event'.mask /\ event'.symbol = k
          \/ c[a] = agents[a].book
      BY <1>5, <2>2 DEF MovesTo
    <3>3. QED BY <3>1, <3>2 DEF Announced
  <2>3. QED BY <2>1, <2>2
<1>6. QED BY <1>1, <1>2, <1>3, <1>4, <1>5, Steps DEF Trading, Moves

(* So no book changes behind its readers' backs, whatever the exchange     *)
(* does.                                                                   *)
THEOREM ChangesAnnounced == Spec => EveryChangeAnnounced
<1>1. IInv /\ [Next]_vars => [\A a \in Agents : Announced(a)]_vars
  BY NextAnnounces
<1>2. QED BY <1>1, Invariance, PTL DEF Spec, EveryChangeAnnounced, Announced

-----------------------------------------------------------------------------
(* The second part is about sessions in which an OrderBookID stays with    *)
(* its instrument: the handler never changes the entry of an id.           *)
LEMMA TradingKeeps ==
  ASSUME IInv, Trading
  PROVE  /\ UNCHANGED <<order_book_id_sym_map, listing, phase>>
         /\ \A a \in Agents : /\ agents'[a].state_name = agents[a].state_name
                              /\ agents'[a].decimals = agents[a].decimals
<1>1. CASE Still
  BY <1>1 DEF Still, Trading
<1>2. ASSUME NEW k \in Symbols, NEW c, MovesTo(k, c)
      PROVE  /\ UNCHANGED order_book_id_sym_map
             /\ \A a \in Agents : /\ agents'[a].state_name = agents[a].state_name
                                  /\ agents'[a].decimals = agents[a].decimals
  <2>1. UNCHANGED order_book_id_sym_map
    BY <1>2 DEF MovesTo
  <2>2. ASSUME NEW a \in Agents
        PROVE  /\ agents'[a].state_name = agents[a].state_name
               /\ agents'[a].decimals = agents[a].decimals
    <3>1. CASE a \in AgentsOf(k)
      <4>1. agents'[a] = [book |-> c[a], state_name |-> agents[a].state_name,
                          timestamp |-> clock, decimals |-> agents[a].decimals]
        BY <1>2, <3>1, Moved
      <4>2. QED BY <4>1
    <3>2. CASE a \notin AgentsOf(k)
      <4>1. agents'[a] = agents[a]
        BY <1>2, <3>2, Moved
      <4>2. QED BY <4>1
    <3>3. QED BY <3>1, <3>2
  <2>3. QED BY <2>1, <2>2
<1>3. QED BY <1>1, <1>2 DEF Trading, Moves

RouteIs(id) ==
  /\ Routed(id) <=> id \in DOMAIN listing /\ KeyOf[listing[id]] \in Registered
  /\ Routed(id) => SymbolFor(id) = KeyOf[listing[id]]

LEMMA NextRoutes ==
  ASSUME "idReuse" \notin Features, IInv, [Next]_vars, RoutesFollowListing
  PROVE  RoutesFollowListing'
<1> SUFFICES ASSUME NEW j \in OrderBookIds PROVE RouteIs(j)'
  BY DEF RoutesFollowListing, RouteIs
<1>0. RouteIs(j)
  BY DEF RoutesFollowListing, RouteIs
<1>1. ASSUME UNCHANGED <<order_book_id_sym_map, listing>> PROVE RouteIs(j)'
  BY <1>0, <1>1 DEF RouteIs, Routed, SymbolFor
<1>2. ASSUME NEW id \in OrderBookIds, NEW n \in Instruments, List(id, n)
      PROVE  RouteIs(j)'
  <2>1. id \notin DOMAIN listing \/ listing[id] = n
    BY <1>2 DEF List, Has
  <2>2. listing' = Put(listing, id, n)
        /\ order_book_id_sym_map' =
             IF KeyOf[n] \in Registered /\ ~Routed(id)
             THEN Put(order_book_id_sym_map, id, KeyOf[n]) ELSE order_book_id_sym_map
    BY <1>2 DEF List, Directory
  <2>3. CASE j # id
    <3>1. /\ j \in DOMAIN listing' <=> j \in DOMAIN listing
          /\ j \in DOMAIN listing => listing'[j] = listing[j]
      BY <2>2, <2>3 DEF Put
    <3>2. /\ Routed(j)' <=> Routed(j)
          /\ Routed(j) => SymbolFor(j)' = SymbolFor(j)
      BY <2>2, <2>3 DEF Put, Routed, SymbolFor
    <3>3. QED BY <1>0, <3>1, <3>2 DEF RouteIs
  <2>4. CASE j = id
    <3>1. j \in DOMAIN listing' /\ listing'[j] = n
      BY <2>2, <2>4 DEF Put
    <3>2. CASE Routed(id)
      BY <1>0, <2>1, <2>2, <2>4, <3>1, <3>2 DEF RouteIs, Routed, SymbolFor
    <3>3. CASE ~Routed(id) /\ KeyOf[n] \in Registered
      BY <2>2, <2>4, <3>1, <3>3 DEF RouteIs, Routed, SymbolFor, Put
    <3>4. CASE ~Routed(id) /\ KeyOf[n] \notin Registered
      BY <2>2, <2>4, <3>1, <3>4 DEF RouteIs, Routed, SymbolFor
    <3>5. QED BY <3>2, <3>3, <3>4
  <2>5. QED BY <2>3, <2>4
<1>3. ASSUME Tick \/ UNCHANGED vars PROVE UNCHANGED <<order_book_id_sym_map, listing>>
  BY <1>3 DEF Tick, Seconds, Ignored, KeepMaps, vars, handlerVars, exchangeVars
<1>4. ASSUME NEW id, NEW name, Announce(id, name)
      PROVE  UNCHANGED <<order_book_id_sym_map, listing>>
  BY <1>4 DEF Announce, State, KeepMaps
<1>5. QED BY <1>1, <1>2, <1>3, <1>4, TradingKeeps, Steps

(* Messages are routed by the exchange's listing, for any number of order  *)
(* books, with the directory messages anywhere in the session.             *)
THEOREM RoutesCorrect ==
  ASSUME "idReuse" \notin Features
  PROVE  Spec => []RoutesFollowListing
<1>1. Init => RoutesFollowListing
  BY DEF Init, HandlerInit, RoutesFollowListing, Routed
<1>2. IInv /\ RoutesFollowListing /\ [Next]_vars => RoutesFollowListing'
  BY NextRoutes
<1>3. QED BY <1>1, <1>2, Invariance, PTL DEF Spec

(* What an agent knows of its instrument.  The handler finds the agents of *)
(* a message by the first characters of the symbol; instruments that have  *)
(* the same ones share an agent, so it is about keys of one instrument.    *)
OwnKeys == \A m, n \in Instruments : KeyOf[m] = KeyOf[n] => m = n

InOnePlace ==
  \A i, j \in DOMAIN listing : listing[i] = listing[j] => i = j

(* An agent whose instrument is not listed has heard of no state.          *)
Informed(a) ==
  /\ \A id \in ListedAs(SymbolOf[a]) : /\ agents[a].state_name.field = phase[id]
                                       /\ agents[a].decimals = DecimalsOf[listing[id]]
  /\ ListedAs(SymbolOf[a]) = {} => agents[a].state_name.field = ""

InfoInv ==
  RoutesFollowListing /\ InOnePlace /\ \A a \in Agents : Informed(a)

LEMMA ListedOnce ==
  ASSUME OwnKeys, IInv, InOnePlace, NEW k, NEW i \in ListedAs(k), NEW j \in ListedAs(k)
  PROVE  i = j
<1>1. listing[i] \in Instruments /\ listing[j] \in Instruments
  BY PartialMember DEF IInv, ExchangeOK, ListedAs
<1>2. QED BY <1>1 DEF OwnKeys, InOnePlace, ListedAs

LEMMA NextInOnePlace ==
  ASSUME IInv, [Next]_vars, InOnePlace
  PROVE  InOnePlace'
<1>1. ASSUME UNCHANGED listing PROVE InOnePlace'
  BY <1>1 DEF InOnePlace
<1>2. ASSUME NEW id, NEW n, List(id, n) PROVE InOnePlace'
  BY <1>2 DEF List, Put, InOnePlace
<1>3. ASSUME Tick \/ UNCHANGED vars PROVE UNCHANGED listing
  BY <1>3 DEF Tick, vars, exchangeVars
<1>4. ASSUME NEW id, NEW name, Announce(id, name) PROVE UNCHANGED listing
  BY <1>4 DEF Announce
<1>5. QED BY <1>1, <1>2, <1>3, <1>4, TradingKeeps, Steps

LEMMA ListInforms ==
  ASSUME "idReuse" \notin Features, OwnKeys, IInv, InfoInv,
         NEW id \in OrderBookIds, NEW n \in Instruments, List(id, n), NEW a \in Agents
  PROVE  Informed(a)'
<1> DEFINE k == SymbolOf[a]
<1>1. /\ id \notin DOMAIN listing \/ listing[id] = n
      /\ listing' = Put(listing, id, n)
      /\ phase' = [phase EXCEPT ![id] = IF id \in DOMAIN listing /\ listing[id] = n
                                        THEN @ ELSE ""]
      /\ \A j \in DOMAIN listing \ {id} : listing[j] # n
  BY DEF List, Has
<1>2. phase \in [OrderBookIds -> StateNames \cup {""}]
  BY DEF IInv, ExchangeOK
<1>3. DOMAIN listing \subseteq OrderBookIds /\ \A j \in DOMAIN listing : listing[j] \in Instruments
  BY PartialMember DEF IInv, ExchangeOK
<1>4. CASE k = KeyOf[n]
  <2>1. agents'[a] = [book |-> agents[a].book, state_name |-> agents[a].state_name,
                      timestamp |-> clock, decimals |-> DecimalsOf[n]]
    BY <1>4, ListAgents
  <2>2. ListedAs(k)' = {id} /\ listing'[id] = n
    <3>1. ASSUME NEW j \in DOMAIN listing, j # id PROVE KeyOf[listing[j]] # KeyOf[n]
      BY <1>1, <1>3, <3>1 DEF OwnKeys
    <3>2. QED BY <1>1, <1>4, <3>1 DEF ListedAs, Put
  <2>3. phase'[id] = agents[a].state_name.field
    <3>1. CASE id \in DOMAIN listing
      <4>1. id \in ListedAs(k) /\ phase'[id] = phase[id]
        BY <1>1, <1>2, <1>4, <3>1 DEF ListedAs
      <4>2. QED BY <4>1 DEF InfoInv, Informed
    <3>2. CASE id \notin DOMAIN listing
      <4>1. phase'[id] = ""
        BY <1>1, <1>2, <3>2
      <4>2. ListedAs(k) = {}
        BY <1>1, <1>3, <1>4, <3>2 DEF ListedAs, OwnKeys
      <4>3. QED BY <4>1, <4>2 DEF InfoInv, Informed
    <3>3. QED BY <3>1, <3>2
  <2>4. agents'[a].state_name.field = phase'[id] /\ agents'[a].decimals = DecimalsOf[listing'[id]]
    BY <2>1, <2>2, <2>3
  <2>5. QED BY <2>2, <2>4 DEF Informed
<1>5. CASE k # KeyOf[n]
  <2>1. agents'[a] = agents[a]
    BY <1>5, ListAgents
  <2>2. ListedAs(k)' = ListedAs(k)
    BY <1>1, <1>5 DEF ListedAs, Put
  <2>3. \A j \in ListedAs(k) : phase'[j] = phase[j] /\ listing'[j] = listing[j]
    BY <1>1, <1>2, <1>3, <1>5 DEF ListedAs, Put
  <2>4. Informed(a)
    BY DEF InfoInv
  <2> HIDE DEF k
  <2>5. QED BY <2>1, <2>2, <2>3, <2>4 DEF Informed, k
<1>6. QED BY <1>4, <1>5

LEMMA AnnounceInforms ==
  ASSUME OwnKeys, IInv, InfoInv, NEW id \in OrderBookIds, NEW name \in StateNames,
         Announce(id, name), NEW a \in Agents
  PROVE  Informed(a)'
<1> DEFINE k == SymbolOf[a]
<1>0. PICK text \in StateTexts : text.field = name /\ Renamed(id, text)
  BY AnnounceRenames
<1>1. /\ id \in DOMAIN listing /\ listing' = listing
      /\ phase' = [phase EXCEPT ![id] = name]
  BY DEF Announce
<1>2. phase \in [OrderBookIds -> StateNames \cup {""}]
  BY DEF IInv, ExchangeOK
<1>3. RouteIs(id) /\ k \in Registered
  BY DEF InfoInv, RoutesFollowListing, RouteIs, Registered
<1>4. CASE id \in ListedAs(k)
  <2>1. Routed(id) /\ SymbolOf[a] = SymbolFor(id)
    BY <1>3, <1>4 DEF RouteIs, ListedAs
  <2>2. agents'[a] = [book |-> agents[a].book, state_name |-> text,
                      timestamp |-> agents[a].timestamp, decimals |-> agents[a].decimals]
    BY <1>0, <2>1, AnnounceAgents
  <2>3. ListedAs(k)' = {id}
    <3>1. ListedAs(k)' = ListedAs(k)
      BY <1>1 DEF ListedAs
    <3>2. \A j \in ListedAs(k) : j = id
      BY <1>4, ListedOnce DEF InfoInv
    <3>3. QED BY <1>4, <3>1, <3>2
  <2>4. phase'[id] = name /\ agents'[a].state_name.field = name
        /\ agents'[a].decimals = DecimalsOf[listing[id]]
    <3>1. agents[a].decimals = DecimalsOf[listing[id]]
      BY <1>4 DEF InfoInv, Informed
    <3>2. phase'[id] = name
      BY <1>1, <1>2
    <3>3. QED BY <1>0, <2>2, <3>1, <3>2
  <2>5. QED BY <1>1, <2>3, <2>4 DEF Informed
<1>5. CASE id \notin ListedAs(k)
  <2>1. ~(Routed(id) /\ SymbolOf[a] = SymbolFor(id))
    BY <1>1, <1>3, <1>5 DEF RouteIs, ListedAs
  <2>2. agents'[a] = agents[a]
    BY <1>0, <2>1, AnnounceAgents
  <2>3. ListedAs(k)' = ListedAs(k)
    BY <1>1 DEF ListedAs
  <2>4. \A j \in ListedAs(k) : phase'[j] = phase[j]
    <3>1. DOMAIN listing \subseteq OrderBookIds
      BY PartialMember DEF IInv, ExchangeOK
    <3>2. QED BY <1>1, <1>2, <1>5, <3>1 DEF ListedAs
  <2>5. Informed(a)
    BY DEF InfoInv
  <2> HIDE DEF k
  <2>6. QED BY <1>1, <2>2, <2>3, <2>4, <2>5 DEF Informed, k
<1>6. QED BY <1>4, <1>5

LEMMA NextInfo ==
  ASSUME "idReuse" \notin Features, OwnKeys, IInv, [Next]_vars, InfoInv
  PROVE  InfoInv'
<1>1. RoutesFollowListing' /\ InOnePlace'
  BY NextRoutes, NextInOnePlace DEF InfoInv
<1>2. ASSUME NEW a \in Agents, UNCHANGED <<listing, phase>>,
             agents'[a].state_name = agents[a].state_name,
             agents'[a].decimals = agents[a].decimals
      PROVE  Informed(a)'
  <2>1. agents'[a].state_name.field = agents[a].state_name.field
    BY <1>2
  <2>2. ListedAs(SymbolOf[a])' = ListedAs(SymbolOf[a])
    BY <1>2 DEF ListedAs
  <2>3. Informed(a)
    BY DEF InfoInv
  <2>4. QED BY <1>2, <2>1, <2>2, <2>3 DEF Informed
<1>3. ASSUME NEW a \in Agents, Tick \/ UNCHANGED vars PROVE Informed(a)'
  <2>1. UNCHANGED <<listing, phase>> /\ UNCHANGED agents
    BY <1>3 DEF Tick, Seconds, Ignored, vars, handlerVars, exchangeVars
  <2>2. QED BY <1>2, <2>1
<1>4. ASSUME NEW a \in Agents, Trading PROVE Informed(a)'
  <2>1. /\ UNCHANGED <<listing, phase>>
        /\ agents'[a].state_name = agents[a].state_name
        /\ agents'[a].decimals = agents[a].decimals
    BY <1>4, TradingKeeps
  <2>2. QED BY <1>2, <2>1
<1>5. \A a \in Agents : Informed(a)'
  BY <1>3, <1>4, ListInforms, AnnounceInforms, Steps
<1>6. QED BY <1>1, <1>5 DEF InfoInv

(* The decimals of an agent are its instrument's, and the state name it    *)
(* keeps begins with the one announced for it, whatever was read after it. *)
THEOREM InfoCorrect ==
  ASSUME "idReuse" \notin Features, OwnKeys
  PROVE  Spec => []InfoFollowsInstrument
<1>1. Init => InfoInv
  <2> SUFFICES ASSUME Init PROVE InfoInv
    OBVIOUS
  <2>1. RoutesFollowListing /\ InOnePlace
    BY DEF Init, HandlerInit, RoutesFollowListing, Routed, InOnePlace
  <2>2. ASSUME NEW a \in Agents PROVE Informed(a)
    <3>1. agents[a].state_name.field = "" /\ DOMAIN listing = {}
      BY DEF Init, HandlerInit, StateText
    <3>2. QED BY <3>1 DEF Informed, ListedAs
  <2>3. QED BY <2>1, <2>2 DEF InfoInv
<1>2. IInv /\ InfoInv /\ [Next]_vars => InfoInv'
  BY NextInfo
<1>3. InfoInv => InfoFollowsInstrument
  BY DEF InfoInv, Informed, InfoFollowsInstrument
<1>4. QED BY <1>1, <1>2, <1>3, Invariance, PTL DEF Spec

-----------------------------------------------------------------------------
(* The third part is about plain sessions: no habit of the exchange but    *)
(* malformed messages.  Then the books follow the exchange.                *)
Plain == Features \subseteq {"malformed"}

KeyFor(o) == KeyOf[listing[o.book]]

RestsPlain ==
  /\ \A o \in resting : o.book \in DOMAIN listing /\ o.shown
  /\ \A o, x \in resting : o.book = x.book /\ o.id = x.id => o = x

BookHolds(a) == Holds(agents[a].book, Displayed(SymbolOf[a]))

Follows ==
  RoutesFollowListing /\ InOnePlace /\ RestsPlain /\ \A a \in Agents : BookHolds(a)

LEMMA DisplayedIs ==
  ASSUME RestsPlain, NEW k
  PROVE  Displayed(k) = {o \in resting : KeyFor(o) = k}
BY DEF RestsPlain, Displayed, OrdersOf, ListedAs, KeyFor

LEMMA PlainHas ==
  ASSUME Plain
  PROVE  /\ \A f \in {"sharedIds", "undisclosed", "replace", "crossFills", "idReuse", "late"} :
              ~Has(f)
         /\ "idReuse" \notin Features
BY DEF Plain, Has

(* Whether a message is routed, by the key of its instrument.              *)
LEMMA RoutedByKey ==
  ASSUME IInv, Follows, NEW id \in DOMAIN listing
  PROVE  IF Routed(id) THEN SymbolFor(id) = KeyOf[listing[id]]
                       ELSE \A a \in Agents : SymbolOf[a] # KeyOf[listing[id]]
<1>1. id \in OrderBookIds
  BY PartialMember DEF IInv, ExchangeOK
<1>2. QED BY <1>1 DEF Follows, RoutesFollowListing, Registered

(* An order rests in the books of its instrument's agents.                 *)
LEMMA RestsInBook ==
  ASSUME IInv, Follows, NEW o \in resting, NEW a \in Agents, SymbolOf[a] = KeyFor(o)
  PROVE  /\ o \in Displayed(SymbolOf[a]) /\ Holds(agents[a].book, Displayed(SymbolOf[a]))
         /\ o.id \in DOMAIN agents[a].book.orders
         /\ agents[a].book.orders[o.id].side = o.side
         /\ agents[a].book.orders[o.id].price = o.price
         /\ agents[a].book.orders[o.id].quantity = o.quantity
         /\ agents[a].book \in Books
<1>1. o \in Displayed(SymbolOf[a])
  BY DisplayedIs DEF Follows
<1>2. Holds(agents[a].book, Displayed(SymbolOf[a]))
  BY DEF Follows, BookHolds
<1>3. agents[a].book \in Books
  BY AgentFields
<1>4. QED BY <1>1, <1>2, <1>3, HeldFields

(* What is left of an order of which q is taken.                           *)
Rest(o, q) == IF q = o.quantity THEN {} ELSE {[o EXCEPT !.quantity = @ - q]}

(* An order goes, or part of it, in the books as with the exchange.        *)
Departs(o, left) ==
  /\ resting' = (resting \ {o}) \cup left
  /\ UNCHANGED listing
  /\ \A x \in left : x.id = o.id /\ x.book = o.book /\ x.shown = o.shown
  /\ \A x, y \in left : x = y
  /\ \A a \in Agents :
       IF SymbolOf[a] = KeyFor(o)
       THEN /\ Holds(agents'[a].book, (Displayed(SymbolOf[a]) \ {o}) \cup left)
            /\ Consistent(agents[a].book) => Consistent(agents'[a].book)
       ELSE agents'[a].book = agents[a].book

LEMMA LeaveDeparts ==
  ASSUME IInv, Follows, NEW o \in resting, Leave(o)
  PROVE  Departs(o, {})
<1>1. /\ resting' = (resting \ {o}) \cup {} /\ UNCHANGED listing
      /\ DeleteMsg(o.book, o.id, Ns) /\ o.book \in DOMAIN listing
  BY DEF Leave, Follows, RestsPlain
<1>2. ASSUME NEW a \in Agents
      PROVE  IF SymbolOf[a] = KeyFor(o)
             THEN /\ Holds(agents'[a].book, (Displayed(SymbolOf[a]) \ {o}) \cup {})
                  /\ Consistent(agents[a].book) => Consistent(agents'[a].book)
             ELSE agents'[a].book = agents[a].book
  <2>1. CASE ~Routed(o.book)
    <3>1. SymbolOf[a] # KeyFor(o)
      BY <1>1, <2>1, RoutedByKey DEF KeyFor
    <3>2. UNCHANGED agents
      BY <1>1, <2>1 DEF DeleteMsg, Ignored
    <3>3. QED BY <3>1, <3>2
  <2>2. CASE Routed(o.book)
    <3> DEFINE k == KeyFor(o)
               possible == [x \in Served(o.book) |-> RemoveOrder(agents[x].book, o.id)]
    <3>1. SymbolFor(o.book) = k
      BY <1>1, <2>2, RoutedByKey DEF KeyFor
    <3>2. Update(o.book, Ns, possible)
      BY <1>1, <2>2 DEF DeleteMsg, Ignored
    <3>3. PICK c \in Outcomes(possible) : agents' = WithBooks(k, c, Timestamp(Ns))
      BY <3>1, <3>2 DEF Update
    <3>4. CASE SymbolOf[a] = k
      <4>1. a \in AgentsOf(k) /\ a \in Served(o.book)
        BY <3>1, <3>4 DEF AgentsOf, Served
      <4>2. c[a] \in RemoveOrder(agents[a].book, o.id)
        BY <3>3, <4>1 DEF Outcomes
      <4>3. agents'[a] = [agents[a] EXCEPT !.book = c[a], !.timestamp = Timestamp(Ns)]
        BY <3>3, <4>1 DEF WithBooks
      <4>4. agents'[a].book = c[a]
        BY <4>3, AgentFields, AgentChanged
      <4>5. c[a].orders = Drop(agents[a].book.orders, o.id)
        BY <3>4, <4>2, RemoveAny, RestsInBook
      <4>6. Holds(c[a], (Displayed(SymbolOf[a]) \ {o}) \cup {})
        BY <3>4, <4>5, HoldsFewer, RestsInBook
      <4>7. Consistent(agents[a].book) => Consistent(c[a])
        BY <4>2, RemoveConsistent
      <4>8. QED BY <3>4, <4>4, <4>6, <4>7
    <3>5. CASE SymbolOf[a] # k
      BY <3>3, <3>5 DEF WithBooks, AgentsOf
    <3>6. QED BY <3>4, <3>5
  <2>3. QED BY <2>1, <2>2
<1>3. QED BY <1>1, <1>2 DEF Departs

LEMMA RestHeld ==
  ASSUME IInv, NEW o \in resting, NEW b, NEW os, Holds(b, os), o \in os,
         NEW q \in Quantities, q <= o.quantity,
         NEW c, c.orders = Afterwards(b.orders, o.id, q)
  PROVE  Holds(c, (os \ {o}) \cup Rest(o, q))
<1> DEFINE x == [o EXCEPT !.quantity = @ - q]
<1>1. x.id = o.id /\ x.side = o.side /\ x.price = o.price /\ x.quantity = o.quantity - q
  BY DEF RestingOrders, IInv, ExchangeOK
<1>2. o.quantity \in Word /\ q \in Nat
  BY QuantitiesAreWords, IsResting
<1> HIDE DEF x
<1>3. Holds(c, (os \ {o}) \cup (IF q = o.quantity THEN {} ELSE {x}))
  BY <1>1, <1>2, HoldsTaken
<1>4. QED BY <1>3 DEF Rest, x

(* What 'E' and 'C' do to the book of an agent, and what the event tells   *)
(* of the last agent's result.                                             *)
Booked(o, q, r) ==
  \A a \in Agents :
    IF SymbolOf[a] = KeyFor(o)
    THEN /\ r[a] \in ExecuteOrder(agents[a].book, o.id, q)
         /\ agents'[a].book = r[a].book
    ELSE agents'[a].book = agents[a].book

Told(o, q, prices, result) ==
  result.side # NoSide =>
    event' = [mask |-> {"trade", "update"} \cup sweep_event(result),
              symbol |-> KeyFor(o), timestamp |-> clock,
              trade |-> [price |-> TradePrice(prices, result), quantity |-> q,
                         sign |-> itch_bist_trade_sign(result.side)]]

LEMMA ExecuteIs ==
  ASSUME IInv, Follows, NEW o \in resting, NEW q \in Quantities, q <= o.quantity,
         Routed(o.book), NEW prices, ExecuteAll(o.book, o.id, q, Ns, prices)
  PROVE  \E r : /\ Booked(o, q, r)
                /\ Told(o, q, prices, r[Max(AgentsOf(KeyFor(o)))].execution)
<1> DEFINE k == KeyFor(o)
           possible == [x \in Served(o.book) |-> ExecuteOrder(agents[x].book, o.id, q)]
<1>1. SymbolFor(o.book) = k
  BY RoutedByKey DEF KeyFor, Follows, RestsPlain
<1>2. PICK r \in Outcomes(possible) :
        LET result == r[Max(AgentsOf(k))].execution
        IN  /\ agents' = WithBooks(k, [a \in AgentsOf(k) |-> r[a].book], Timestamp(Ns))
            /\ IF result.side = NoSide
               THEN Throw("invalid trade sign")
               ELSE Raise({"trade", "update"} \cup sweep_event(result), k, Timestamp(Ns),
                          [price |-> TradePrice(prices, result), quantity |-> q,
                           sign |-> itch_bist_trade_sign(result.side)])
  BY <1>1 DEF ExecuteAll
<1>3. ASSUME NEW a \in Agents
      PROVE  IF SymbolOf[a] = k
             THEN /\ r[a] \in ExecuteOrder(agents[a].book, o.id, q)
                  /\ agents'[a].book = r[a].book
             ELSE agents'[a].book = agents[a].book
  <2>1. CASE SymbolOf[a] = k
    <3>1. a \in AgentsOf(k) /\ a \in Served(o.book)
      BY <1>1, <2>1 DEF AgentsOf, Served
    <3>2. r[a] \in ExecuteOrder(agents[a].book, o.id, q)
      BY <1>2, <3>1 DEF Outcomes
    <3>3. agents'[a] = [agents[a] EXCEPT !.book = r[a].book, !.timestamp = Timestamp(Ns)]
      BY <1>2, <3>1 DEF WithBooks
    <3>4. agents'[a].book = r[a].book
      BY <3>3, AgentFields, AgentChanged
    <3>5. QED BY <2>1, <3>2, <3>4
  <2>2. CASE SymbolOf[a] # k
    BY <1>2, <2>2 DEF WithBooks, AgentsOf
  <2>3. QED BY <2>1, <2>2
<1>4. Told(o, q, prices, r[Max(AgentsOf(k))].execution)
  BY <1>2, StampIsTime DEF Raise, Told
<1>5. Booked(o, q, r)
  BY <1>3 DEF Booked
<1>6. QED BY <1>4, <1>5

LEMMA ExecuteDeparts ==
  ASSUME IInv, Follows, NEW o \in resting, NEW q \in Quantities, q <= o.quantity,
         Routed(o.book), NEW prices, ExecuteAll(o.book, o.id, q, Ns, prices),
         UNCHANGED listing, resting' = Taken(o, q)
  PROVE  Departs(o, Rest(o, q))
<1>1. resting' = (resting \ {o}) \cup Rest(o, q)
  BY DEF Taken, Rest
<1>2. \A x \in Rest(o, q) : x.id = o.id /\ x.book = o.book /\ x.shown = o.shown
  BY DEF Rest, RestingOrders, IInv, ExchangeOK
<1>3. \A x, y \in Rest(o, q) : x = y
  BY DEF Rest
<1>4. PICK r : Booked(o, q, r)
  BY ExecuteIs
<1>5. ASSUME NEW a \in Agents, SymbolOf[a] = KeyFor(o)
      PROVE  /\ Holds(agents'[a].book, (Displayed(SymbolOf[a]) \ {o}) \cup Rest(o, q))
             /\ Consistent(agents[a].book) => Consistent(agents'[a].book)
  <2>1. r[a] \in ExecuteOrder(agents[a].book, o.id, q) /\ agents'[a].book = r[a].book
    BY <1>4, <1>5 DEF Booked
  <2>2. /\ Holds(agents[a].book, Displayed(SymbolOf[a])) /\ o \in Displayed(SymbolOf[a])
        /\ agents[a].book \in Books /\ HasOrder(agents[a].book, o.id)
        /\ agents[a].book.orders[o.id].quantity = o.quantity
        /\ q \in Nat
    BY <1>5, RestsInBook, QuantitiesAreWords DEF HasOrder
  <2>3. r[a].book.orders = Afterwards(agents[a].book.orders, o.id, q)
    BY <2>1, <2>2, ExecuteAny
  <2>4. Holds(r[a].book, (Displayed(SymbolOf[a]) \ {o}) \cup Rest(o, q))
    BY <2>2, <2>3, RestHeld
  <2>5. Consistent(agents[a].book) => Consistent(r[a].book)
    BY <2>1, <2>2, ExecuteConsistent
  <2>6. QED BY <2>1, <2>4, <2>5
<1>6. \A a \in Agents : SymbolOf[a] # KeyFor(o) => agents'[a].book = agents[a].book
  BY <1>4 DEF Booked
<1>7. QED BY <1>1, <1>2, <1>3, <1>5, <1>6 DEF Departs

(* An execution of an order of an instrument that is not registered.       *)
LEMMA UnroutedDeparts ==
  ASSUME IInv, Follows, NEW o \in resting, NEW q, ~Routed(o.book), Ignored,
         UNCHANGED listing, resting' = Taken(o, q)
  PROVE  Departs(o, Rest(o, q))
<1>1. resting' = (resting \ {o}) \cup Rest(o, q)
  BY DEF Taken, Rest
<1>2. \A x \in Rest(o, q) : x.id = o.id /\ x.book = o.book /\ x.shown = o.shown
  BY DEF Rest, RestingOrders, IInv, ExchangeOK
<1>3. \A x, y \in Rest(o, q) : x = y
  BY DEF Rest
<1>4. UNCHANGED agents /\ \A a \in Agents : SymbolOf[a] # KeyFor(o)
  BY RoutedByKey DEF Ignored, KeyFor, Follows, RestsPlain
<1>5. QED BY <1>1, <1>2, <1>3, <1>4 DEF Departs

LEMMA FillDeparts ==
  ASSUME IInv, Follows, NEW o \in resting, NEW q \in Quantities, NEW p,
         Fill(o, q) \/ FillAt(o, q, p)
  PROVE  Departs(o, Rest(o, q))
<1>1. q <= o.quantity /\ UNCHANGED listing /\ resting' = Taken(o, q)
  BY DEF Fill, FillAt
<1>2. \/ ~Routed(o.book) /\ Ignored
      \/ Routed(o.book) /\ \E prices : ExecuteAll(o.book, o.id, q, Ns, prices)
  BY DEF Fill, FillAt, ExecutedMsg, ExecutedWithPriceMsg
<1>3. QED BY <1>1, <1>2, ExecuteDeparts, UnroutedDeparts

(* A new order goes to the books of its instrument, which know no order    *)
(* with its id.                                                            *)
Joins(o) ==
  /\ o \in RestingOrders /\ o.shown /\ o.book \in DOMAIN listing
  /\ \A x \in resting : ~(x.book = o.book /\ x.id = o.id)
  /\ resting' = resting \cup {o} /\ UNCHANGED listing
  /\ \A a \in Agents :
       IF SymbolOf[a] = KeyFor(o)
       THEN /\ agents'[a].book = AddOrder(agents[a].book, o.id, o.side, o.price, o.quantity)
            /\ ~HasOrder(agents[a].book, o.id)
       ELSE agents'[a].book = agents[a].book

LEMMA EnterJoins ==
  ASSUME Plain, OwnKeys, IInv, Follows, NEW o \in RestingOrders, Enter(o)
  PROVE  Joins(o)
<1>1. /\ o.shown /\ o.book \in DOMAIN listing
      /\ \A x \in resting : ~(x.book = o.book /\ x.id = o.id)
      /\ resting' = resting \cup {o} /\ UNCHANGED listing
  BY PlainHas DEF Enter
<1>2. AddMsg(o.book, o.id, o.side, o.price, o.quantity, Ns) /\ o.side \in Sides
  BY <1>1 DEF Enter, RestingOrders
<1>3. ASSUME NEW a \in Agents, SymbolOf[a] = KeyFor(o)
      PROVE  ~HasOrder(agents[a].book, o.id)
  <2>1. Holds(agents[a].book, Displayed(SymbolOf[a]))
    BY DEF Follows, BookHolds
  <2>2. ASSUME NEW x \in Displayed(SymbolOf[a]) PROVE x.id # o.id
    <3>1. x \in resting /\ x.book \in ListedAs(SymbolOf[a]) /\ o.book \in ListedAs(SymbolOf[a])
      BY <1>1, <1>3 DEF Displayed, OrdersOf, ListedAs, KeyFor
    <3>2. x.book = o.book
      BY <3>1, ListedOnce DEF Follows
    <3>3. QED BY <1>1, <3>1, <3>2
  <2>3. QED BY <2>1, <2>2 DEF Holds, HasOrder
<1>4. ASSUME NEW a \in Agents
      PROVE  agents'[a].book =
               IF SymbolOf[a] = KeyFor(o)
               THEN AddOrder(agents[a].book, o.id, o.side, o.price, o.quantity)
               ELSE agents[a].book
  <2> DEFINE new(x) == AddOrder(agents[x].book, o.id, o.side, o.price, o.quantity)
  <2>1. CASE ~Routed(o.book)
    <3>1. SymbolOf[a] # KeyFor(o)
      BY <1>1, <2>1, RoutedByKey DEF KeyFor
    <3>2. UNCHANGED agents
      BY <1>2, <2>1 DEF AddMsg, Ignored
    <3>3. QED BY <3>1, <3>2
  <2>2. CASE Routed(o.book)
    <3> DEFINE k == KeyFor(o)
               possible == [x \in Served(o.book) |-> {new(x)}]
    <3>1. SymbolFor(o.book) = k
      BY <1>1, <2>2, RoutedByKey DEF KeyFor
    <3>2. Update(o.book, Ns, possible)
      BY <1>2, <2>2 DEF AddMsg, Ignored
    <3>3. PICK c \in Outcomes(possible) : agents' = WithBooks(k, c, Timestamp(Ns))
      BY <3>1, <3>2 DEF Update
    <3> HIDE DEF new
    <3>4. CASE SymbolOf[a] = k
      <4>1. a \in AgentsOf(k) /\ a \in Served(o.book)
        BY <3>1, <3>4 DEF AgentsOf, Served
      <4>2. c[a] = new(a)
        BY <3>3, <4>1 DEF Outcomes
      <4>3. agents'[a] = [agents[a] EXCEPT !.book = c[a], !.timestamp = Timestamp(Ns)]
        BY <3>3, <4>1 DEF WithBooks
      <4>4. agents'[a].book = c[a]
        BY <4>3, AgentFields, AgentChanged
      <4>5. QED BY <3>4, <4>2, <4>4 DEF new
    <3>5. CASE SymbolOf[a] # k
      BY <3>3, <3>5 DEF WithBooks, AgentsOf
    <3>6. QED BY <3>4, <3>5
  <2>3. QED BY <2>1, <2>2
<1>5. QED BY <1>1, <1>3, <1>4 DEF Joins

(* A message about no resting order.                                       *)
Quiet ==
  /\ UNCHANGED resting
  /\ \A o \in resting : o.book \in DOMAIN listing' /\ listing'[o.book] = listing[o.book]
  /\ \A a \in Agents : agents'[a].book = agents[a].book

LEMMA QuietIf ==
  ASSUME Follows, UNCHANGED resting, UNCHANGED listing, UNCHANGED agents
  PROVE  Quiet
BY DEF Quiet, Follows, RestsPlain

LEMMA ListQuiet ==
  ASSUME Plain, IInv, Follows, NEW id \in OrderBookIds, NEW n \in Instruments, List(id, n)
  PROVE  Quiet
<1>1. /\ UNCHANGED resting /\ listing' = Put(listing, id, n)
      /\ id \notin DOMAIN listing \/ listing[id] = n
  BY PlainHas DEF List
<1>2. \A o \in resting : o.book \in DOMAIN listing' /\ listing'[o.book] = listing[o.book]
  BY <1>1 DEF Put, Follows, RestsPlain
<1>3. ASSUME NEW a \in Agents PROVE agents'[a].book = agents[a].book
  <2>1. CASE SymbolOf[a] = KeyOf[n]
    <3>1. agents'[a] = [book |-> agents[a].book, state_name |-> agents[a].state_name,
                        timestamp |-> clock, decimals |-> DecimalsOf[n]]
      BY <2>1, ListAgents
    <3>2. QED BY <3>1
  <2>2. CASE SymbolOf[a] # KeyOf[n]
    BY <2>2, ListAgents
  <2>3. QED BY <2>1, <2>2
<1>4. QED BY <1>1, <1>2, <1>3 DEF Quiet

LEMMA AnnounceQuiet ==
  ASSUME IInv, Follows, NEW id, NEW name \in StateNames, Announce(id, name)
  PROVE  Quiet
<1>0. PICK text \in StateTexts : Renamed(id, text)
  BY AnnounceRenames
<1>1. UNCHANGED resting /\ UNCHANGED listing
  BY DEF Announce
<1>2. ASSUME NEW a \in Agents PROVE agents'[a].book = agents[a].book
  <2>1. CASE Routed(id) /\ SymbolOf[a] = SymbolFor(id)
    <3>1. agents'[a] = [book |-> agents[a].book, state_name |-> text,
                        timestamp |-> agents[a].timestamp,
                        decimals |-> agents[a].decimals]
      BY <1>0, <2>1, AnnounceAgents
    <3>2. QED BY <3>1
  <2>2. CASE ~(Routed(id) /\ SymbolOf[a] = SymbolFor(id))
    BY <1>0, <2>2, AnnounceAgents
  <2>3. QED BY <2>1, <2>2
<1>3. QED BY <1>1, <1>2 DEF Quiet, Follows, RestsPlain

LEMMA MalformedQuiet == ASSUME IInv, Follows, Malformed PROVE Quiet
<1>1. UNCHANGED resting /\ UNCHANGED listing
  BY DEF Malformed, exchangeVars
<1>2. CASE UnknownType
  BY <1>1, <1>2, QuietIf DEF UnknownType
<1>3. ASSUME NEW id, NEW i, NEW p, NEW q, AddMsg(id, i, NoSide, p, q, Ns)
      PROVE  UNCHANGED agents
  <2>1. NoSide \notin Sides
    BY DEF NoSide, Sides
  <2>2. QED BY <1>3, <2>1 DEF AddMsg, Ignored
<1>4. QED BY <1>1, <1>2, <1>3, QuietIf DEF Malformed

LEMMA PlainSteps ==
  ASSUME Plain, OwnKeys, IInv, Follows, [Next]_vars
  PROVE  \/ \E o : Joins(o)
         \/ \E o \in resting : \E left : Departs(o, left)
         \/ Quiet
<1>1. ASSUME Tick PROVE Quiet
  BY <1>1, QuietIf DEF Tick, Seconds, Ignored
<1>2. ASSUME NEW id, NEW p, NEW q, Report(id, p, q) PROVE Quiet
  BY <1>2, QuietIf DEF Report, TradeMsg, ReportTrade, Ignored, exchangeVars
<1>3. ASSUME NEW code, Session(code) PROVE Quiet
  BY <1>3, QuietIf DEF Session, System, exchangeVars
<1>4. ASSUME Uninteresting \/ UNCHANGED vars PROVE Quiet
  BY <1>4, QuietIf DEF Uninteresting, Ignored, vars, handlerVars, exchangeVars
<1>5. ASSUME NEW o \in resting, NEW q, NEW p, Cross(o, q, p) PROVE Quiet
  <2>1. UNCHANGED resting /\ UNCHANGED listing
    BY <1>5, PlainHas DEF Cross
  <2>2. UNCHANGED agents
    BY <1>5 DEF Cross, ExecutedWithPriceMsg, ReportTrade, Ignored
  <2>3. QED BY <2>1, <2>2, QuietIf
<1>6. ASSUME NEW o, NEW position, NEW p, NEW q, Amend(o, position, p, q) PROVE FALSE
  BY <1>6, PlainHas DEF Amend
<1>7. ASSUME NEW o \in resting, Leave(o) PROVE Departs(o, {})
  BY <1>7, LeaveDeparts
<1>8. ASSUME NEW o \in resting, NEW q \in Quantities, NEW p, Fill(o, q) \/ FillAt(o, q, p)
      PROVE  Departs(o, Rest(o, q))
  BY <1>8, FillDeparts
<1>9. ASSUME NEW o \in resting, NEW q \in Quantities, Fill(o, q) PROVE Departs(o, Rest(o, q))
  BY <1>8, <1>9
<1>10. QED
  BY <1>1, <1>2, <1>3, <1>4, <1>5, <1>6, <1>7, <1>8, <1>9, EnterJoins, ListQuiet,
     AnnounceQuiet, MalformedQuiet DEF Next, Message

-----------------------------------------------------------------------------
(* Every book holds the orders the exchange displays for its symbol,       *)
(* whatever its levels say.                                                *)
LEMMA QuietDisplays ==
  ASSUME RestsPlain, Quiet
  PROVE  RestsPlain' /\ \A k : Displayed(k)' = Displayed(k)
<1>1. RestsPlain'
  BY DEF RestsPlain, Quiet
<1>2. ASSUME NEW k PROVE {o \in resting : KeyFor(o) = k}' = {o \in resting : KeyFor(o) = k}
  BY DEF KeyFor, Quiet
<1>3. ASSUME NEW k PROVE Displayed(k)' = {o \in resting : KeyFor(o) = k}'
  BY <1>1 DEF RestsPlain, Displayed, OrdersOf, ListedAs, KeyFor
<1>4. QED BY <1>1, <1>2, <1>3, DisplayedIs

LEMMA JoinDisplays ==
  ASSUME RestsPlain, NEW o, Joins(o)
  PROVE  /\ RestsPlain' /\ o \notin resting
         /\ \A k : Displayed(k)' = IF KeyFor(o) = k THEN Displayed(k) \cup {o} ELSE Displayed(k)
<1>1. RestsPlain' /\ o \notin resting
  BY DEF RestsPlain, Joins
<1>2. ASSUME NEW k PROVE Displayed(k)' = {x \in resting' : KeyFor(x) = k}
  BY <1>1 DEF RestsPlain, Displayed, OrdersOf, ListedAs, KeyFor, Joins
<1>3. resting' = resting \cup {o}
  BY DEF Joins
<1>4. QED BY <1>1, <1>2, <1>3, DisplayedIs

LEMMA DepartDisplays ==
  ASSUME RestsPlain, NEW o \in resting, NEW left, Departs(o, left)
  PROVE  /\ RestsPlain'
         /\ \A k : Displayed(k)' = IF KeyFor(o) = k THEN (Displayed(k) \ {o}) \cup left
                                                    ELSE Displayed(k)
<1>1. RestsPlain'
  BY DEF RestsPlain, Departs
<1>2. ASSUME NEW k PROVE Displayed(k)' = {x \in resting' : KeyFor(x) = k}
  BY <1>1 DEF RestsPlain, Displayed, OrdersOf, ListedAs, KeyFor, Departs
<1>3. /\ resting' = (resting \ {o}) \cup left
      /\ \A x \in left : KeyFor(x) = KeyFor(o)
  BY DEF Departs, KeyFor
<1>4. QED BY <1>2, <1>3, <1>1, DisplayedIs

LEMMA NextFollows ==
  ASSUME Plain, OwnKeys, IInv, Follows, [Next]_vars
  PROVE  Follows'
<1>1. RoutesFollowListing' /\ InOnePlace'
  BY PlainHas, NextRoutes, NextInOnePlace DEF Follows
<1>2. CASE Quiet
  <2>1. RestsPlain' /\ \A k : Displayed(k)' = Displayed(k)
    BY <1>2, QuietDisplays DEF Follows
  <2>2. \A a \in Agents : BookHolds(a)'
    BY <1>2, <2>1 DEF Quiet, Follows, BookHolds
  <2>3. QED BY <1>1, <2>1, <2>2 DEF Follows
<1>3. ASSUME NEW o, Joins(o) PROVE Follows'
  <2>1. /\ RestsPlain'
        /\ \A k : Displayed(k)' = IF KeyFor(o) = k THEN Displayed(k) \cup {o} ELSE Displayed(k)
    BY <1>3, JoinDisplays DEF Follows
  <2>2. ASSUME NEW a \in Agents PROVE BookHolds(a)'
    <3>1. Holds(agents[a].book, Displayed(SymbolOf[a])) /\ agents[a].book \in Books
      BY AgentFields DEF Follows, BookHolds
    <3>2. CASE SymbolOf[a] = KeyFor(o)
      <4> DEFINE c == AddOrder(agents[a].book, o.id, o.side, o.price, o.quantity)
      <4>1. agents'[a].book = c /\ ~HasOrder(agents[a].book, o.id)
        BY <1>3, <3>2 DEF Joins
      <4>2. Holds(c, Displayed(SymbolOf[a]) \cup {o})
        BY <3>1, <4>1, HoldsMore
      <4> HIDE DEF c
      <4>3. QED BY <2>1, <3>2, <4>1, <4>2 DEF BookHolds
    <3>3. CASE SymbolOf[a] # KeyFor(o)
      BY <1>3, <2>1, <3>1, <3>3 DEF Joins, BookHolds
    <3>4. QED BY <3>2, <3>3
  <2>3. QED BY <1>1, <2>1, <2>2 DEF Follows
<1>4. ASSUME NEW o \in resting, NEW left, Departs(o, left) PROVE Follows'
  <2>1. /\ RestsPlain'
        /\ \A k : Displayed(k)' = IF KeyFor(o) = k THEN (Displayed(k) \ {o}) \cup left
                                                   ELSE Displayed(k)
    BY <1>4, DepartDisplays DEF Follows
  <2>2. ASSUME NEW a \in Agents PROVE BookHolds(a)'
    <3>1. Holds(agents[a].book, Displayed(SymbolOf[a]))
      BY DEF Follows, BookHolds
    <3>2. CASE SymbolOf[a] = KeyFor(o)
      BY <1>4, <2>1, <3>2 DEF Departs, BookHolds
    <3>3. CASE SymbolOf[a] # KeyFor(o)
      BY <1>4, <2>1, <3>1, <3>3 DEF Departs, BookHolds
    <3>4. QED BY <3>2, <3>3
  <2>3. QED BY <1>1, <2>1, <2>2 DEF Follows
<1>5. QED BY <1>2, <1>3, <1>4, PlainSteps

-----------------------------------------------------------------------------
(* The depth.  A level's size is a uint64_t and the code does not check    *)
(* it: the books follow the exchange's depth as long as that fits.         *)
DepthFits ==
  \A a \in Agents, s \in Sides, p \in Prices : Depth(SymbolOf[a], s, p) < Modulus

BooksConsistent == \A a \in Agents : Consistent(agents[a].book)

LEMMA InitFollows == Init => Follows /\ BooksConsistent
<1> SUFFICES ASSUME Init PROVE Follows /\ BooksConsistent
  OBVIOUS
<1>1. resting = {} /\ DOMAIN listing = {} /\ DOMAIN order_book_id_sym_map = {}
  BY DEF Init, HandlerInit
<1>2. \A a \in Agents : agents[a].book = EmptyBook
  BY DEF Init, HandlerInit
<1>3. RoutesFollowListing /\ InOnePlace /\ RestsPlain
  BY <1>1 DEF RoutesFollowListing, Routed, InOnePlace, RestsPlain
<1>4. \A k : Displayed(k) = {}
  BY <1>1 DEF Displayed, OrdersOf
<1>5. \A a \in Agents : BookHolds(a)
  BY <1>2, <1>4, HoldsNothing DEF BookHolds
<1>6. BooksConsistent
  BY <1>2, EmptyConsistent DEF BooksConsistent
<1>7. QED BY <1>3, <1>5, <1>6 DEF Follows

(* A level has room for an order if the exchange's depth fits.             *)
LEMMA JoinConsistent ==
  ASSUME IInv, Follows, BooksConsistent, DepthFits', NEW o, Joins(o),
         NEW a \in Agents, SymbolOf[a] = KeyFor(o)
  PROVE  Consistent(agents'[a].book)
<1> DEFINE b == agents[a].book
           k == SymbolOf[a]
           s == o.side
           p == o.price
           os == AtPrice(Displayed(k), s, p)
<1>1. /\ agents'[a].book = AddOrder(b, o.id, s, p, o.quantity)
      /\ ~HasOrder(b, o.id) /\ o \in RestingOrders
  BY DEF Joins
<1>2. /\ Consistent(b) /\ Holds(b, Displayed(k))
      /\ o.id \in Ids /\ s \in Sides /\ p \in Prices /\ o.quantity \in Word \ {0}
  BY <1>1, QuantitiesAreWords, FeedAssumption DEF BooksConsistent, Follows, BookHolds,
                                                  RestingOrders
<1>3. SizeAt(b, s, p) = Total(os) /\ IsFiniteSet(SharesOf(os))
  BY <1>2, HeldDepth, HeldShares DEF Consistent
<1>4. o \notin resting /\ Displayed(k)' = Displayed(k) \cup {o}
  BY JoinDisplays DEF Follows
<1>5. Total(os \cup {o}) = Total(os) + o.quantity
  <2>1. o \notin os
    BY <1>4 DEF AtPrice, Displayed, OrdersOf
  <2> HIDE DEF os
  <2>2. QED BY <1>2, <1>3, <2>1, TotalMore
<1>6. Depth(k, s, p)' = Total(os \cup {o})
  <2>1. {x \in Displayed(k) : x.side = s /\ x.price = p}' = os \cup {o}
    BY <1>4 DEF AtPrice
  <2>2. QED BY <2>1 DEF Depth
<1>7. Depth(k, s, p)' < Modulus
  BY <1>2 DEF DepthFits
<1>8. MayAdd(b, o.id, s, p, o.quantity)
  BY <1>1, <1>3, <1>5, <1>6, <1>7 DEF MayAdd
<1>9. QED BY <1>1, <1>2, <1>8, AddConsistent

LEMMA NextConsistent ==
  ASSUME Plain, OwnKeys, IInv, Follows, BooksConsistent, DepthFits', [Next]_vars
  PROVE  BooksConsistent'
<1>1. CASE Quiet
  BY <1>1 DEF Quiet, BooksConsistent
<1>2. ASSUME NEW o, Joins(o) PROVE BooksConsistent'
  BY <1>2, JoinConsistent DEF Joins, BooksConsistent
<1>3. ASSUME NEW o \in resting, NEW left, Departs(o, left) PROVE BooksConsistent'
  BY <1>3 DEF Departs, BooksConsistent
<1>4. QED BY <1>1, <1>2, <1>3, PlainSteps

LEMMA SizeIsDepth ==
  ASSUME Follows, BooksConsistent, NEW a \in Agents, NEW s \in Sides, NEW p \in Prices
  PROVE  /\ SizeAt(agents[a].book, s, p) = Depth(SymbolOf[a], s, p)
         /\ HasLevel(agents[a].book, s, p) <=> Depth(SymbolOf[a], s, p) # 0
<1>1. Consistent(agents[a].book) /\ Holds(agents[a].book, Displayed(SymbolOf[a]))
  BY DEF BooksConsistent, Follows, BookHolds
<1>2. Depth(SymbolOf[a], s, p) = Total(AtPrice(Displayed(SymbolOf[a]), s, p))
  BY DEF Depth, AtPrice
<1>3. QED BY <1>1, <1>2, HeldDepth

LEMMA PlainInvariance ==
  ASSUME Plain, OwnKeys
  PROVE  Spec /\ []DepthFits => []IInv /\ []Follows /\ []BooksConsistent
<1>1. IInv /\ Follows /\ [Next]_vars => Follows'
  BY NextFollows
<1>2. IInv /\ Follows /\ BooksConsistent /\ DepthFits' /\ [Next]_vars => BooksConsistent'
  BY NextConsistent
<1>3. QED BY <1>1, <1>2, InitFollows, Invariance, PTL DEF Spec

(* Every agent's book shows the depth the exchange displays, in plain      *)
(* sessions, as long as a size can hold it.                                *)
THEOREM MirrorCorrect ==
  ASSUME Plain, OwnKeys
  PROVE  Spec /\ []DepthFits => []Mirrored
<1>1. Follows /\ BooksConsistent => Mirrored
  BY SizeIsDepth DEF Mirrored
<1>2. QED BY <1>1, PlainInvariance, PTL

(* Every fill is reported, with the sweep exactly when the displayed depth *)
(* at its price is gone.                                                   *)
LEMMA FillReported ==
  ASSUME Plain, OwnKeys, IInv, Follows, BooksConsistent, Follows', BooksConsistent',
         NEW o \in resting, NEW q \in Quantities, Fill(o, q),
         KeyOf[listing[o.book]] \in Registered
  PROVE  ReportsFill(o, q)
<1>1. Routed(o.book) /\ UNCHANGED listing /\ q <= o.quantity
      /\ ExecuteAll(o.book, o.id, q, Ns, {})
  <2>1. Routed(o.book)
    BY RoutedByKey DEF Registered, Follows, RestsPlain
  <2>2. QED BY <2>1 DEF Fill, ExecutedMsg
<1>2. PICK k : k = KeyFor(o)
  OBVIOUS
<1>3. PICK z \in Agents : z = Max(AgentsOf(k)) /\ SymbolOf[z] = k
  <2>1. AgentsOf(k) # {}
    BY <1>2 DEF AgentsOf, Registered, KeyFor
  <2>2. Max(AgentsOf(k)) \in AgentsOf(k)
    BY <2>1, LastAgent
  <2>3. QED BY <2>2 DEF AgentsOf
<1>4. PICK r : /\ Told(o, q, {}, r[z].execution)
               /\ r[z] \in ExecuteOrder(agents[z].book, o.id, q)
               /\ agents'[z].book = r[z].book
  <2>1. PICK r : Booked(o, q, r) /\ Told(o, q, {}, r[z].execution)
    BY <1>1, <1>2, <1>3, ExecuteIs
  <2>2. QED BY <1>2, <1>3, <2>1 DEF Booked
<1> DEFINE e == r[z].execution
<1>5. /\ agents[z].book \in Books /\ HasOrder(agents[z].book, o.id)
      /\ agents[z].book.orders[o.id].side = o.side
      /\ agents[z].book.orders[o.id].price = o.price
      /\ agents[z].book.orders[o.id].quantity = o.quantity
      /\ q \in Nat
  BY <1>2, <1>3, RestsInBook, QuantitiesAreWords DEF HasOrder
<1>6. e.side = o.side /\ e.price = o.price /\ e.valid
  BY <1>4, <1>5, ExecuteAny
<1>7. e \in Executions /\ ReportsLevel(r[z].book, e)
  <2>1. Consistent(agents[z].book)
    BY <1>3 DEF BooksConsistent
  <2>2. QED BY <1>1, <1>4, <1>5, <2>1, ExecuteConsistent
<1>8. o.side \in Sides /\ o.price \in Prices
  BY IsResting
<1>9. e.remaining = Depth(k, o.side, o.price)'
  <2>1. e.remaining = SizeAt(r[z].book, o.side, o.price)
    BY <1>6, <1>7 DEF ReportsLevel
  <2>2. SizeAt(r[z].book, o.side, o.price) = Depth(k, o.side, o.price)'
    <3>1. \A a \in Agents : Consistent(agents'[a].book)
                            /\ Holds(agents'[a].book, Displayed(SymbolOf[a])')
      BY DEF BooksConsistent, Follows, BookHolds
    <3>2. Consistent(r[z].book) /\ Holds(r[z].book, Displayed(k)')
      BY <1>3, <1>4, <3>1
    <3>3. Depth(k, o.side, o.price)' = Total(AtPrice(Displayed(k)', o.side, o.price))
      BY DEF Depth, AtPrice
    <3>4. QED BY <1>8, <3>2, <3>3, HeldDepth
  <2>3. QED BY <2>1, <2>2
<1>10. sweep_event(e) = IF e.remaining = 0 THEN {"sweep"} ELSE {}
  <2>1. e.remaining \in Nat
    BY <1>7, WordIsNat DEF Executions
  <2>2. QED BY <2>1 DEF sweep_event
<1>11. e.side # NoSide
  BY <1>6, <1>8 DEF Sides, NoSide
<1>12. TradePrice({}, e) = o.price
  BY <1>6 DEF TradePrice
<1> HIDE DEF e
<1>13. event' = [mask |-> {"trade", "update"} \cup sweep_event(e),
                 symbol |-> k, timestamp |-> clock,
                 trade |-> [price |-> TradePrice({}, e), quantity |-> q,
                            sign |-> itch_bist_trade_sign(e.side)]]
  BY <1>2, <1>4, <1>11 DEF Told, e
<1>14. KeyOf[listing[o.book]] = k /\ KeyOf[listing'[o.book]] = k
  BY <1>1, <1>2 DEF KeyFor
<1>15. Depth(KeyOf[listing[o.book]], o.side, o.price)' = e.remaining
  BY <1>9, <1>14
<1>16. QED BY <1>6, <1>10, <1>12, <1>13, <1>14, <1>15 DEF ReportsFill, itch_bist_trade_sign

THEOREM FillsReported ==
  ASSUME Plain, OwnKeys
  PROVE  Spec /\ []DepthFits => EveryFillReported
<1>1. /\ IInv /\ Follows /\ BooksConsistent /\ Follows' /\ BooksConsistent'
      /\ [Next]_vars
      => [\A o \in resting, q \in Quantities :
            Fill(o, q) /\ KeyOf[listing[o.book]] \in Registered => ReportsFill(o, q)]_vars
  BY FillReported
<1>2. QED BY <1>1, PlainInvariance, PTL DEF Spec, EveryFillReported

=============================================================================
