------------------------ MODULE SymbolTrackerProofs ------------------------
(* What holds of the trackers, for any number of them, of symbols, agents  *)
(* and orders, and sessions of any length.                                 *)
EXTENDS SymbolTracker, ItchBistFeedProofs

(* The trackers listen to the feed and do not disturb it.                  *)
LEMMA TrackersListen == TrackerSpec => Spec
<1>1. TrackerInit => Init
  BY DEF TrackerInit
<1>2. [TrackerNext]_trackerVars => [Next]_vars
  BY DEF TrackerNext, Next, trackerVars
<1>3. QED BY <1>1, <1>2, PTL DEF TrackerSpec, Spec

-----------------------------------------------------------------------------
(* What an event says: a change of a book and a trade have a symbol, and a *)
(* trade has a price and a quantity.                                       *)
EventMeans ==
  /\ event.mask \cap {"update", "trade"} # {} =>
       event.mask \cap {"opened", "closed"} = {} /\ event.symbol \in Symbols
  /\ "trade" \in event.mask =>
       event.trade.price \in Prices /\ event.trade.quantity \in Quantities

LEMMA NothingMeans == ASSUME event' = NoEvent PROVE EventMeans'
BY DEF EventMeans, NoEvent

LEMMA IgnoredMeans == ASSUME Ignored PROVE EventMeans'
BY NothingMeans DEF Ignored, Silent

LEMMA RaisedMeans ==
  ASSUME NEW mask, mask \subseteq {"update", "trade", "sweep"}, NEW k \in Symbols,
         NEW t, NEW trade, Raise(mask, k, t, trade),
         "trade" \in mask => trade.price \in Prices /\ trade.quantity \in Quantities
  PROVE  EventMeans'
<1>1. event'.mask = mask /\ event'.symbol = k /\ event'.trade = trade
  BY DEF Raise
<1>2. QED BY <1>1 DEF EventMeans

LEMMA UpdateMeans ==
  ASSUME IInv, NEW id, Routed(id), NEW possible, Update(id, Ns, possible)
  PROVE  EventMeans'
<1>1. SymbolFor(id) \in Symbols
  BY SymbolIsOne
<1>2. Raise({"update"}, SymbolFor(id), Timestamp(Ns), NoTrade)
  BY DEF Update
<1>3. QED BY <1>1, <1>2, RaisedMeans

LEMMA ReportMeans ==
  ASSUME IInv, NEW id, Routed(id), NEW p \in Prices, NEW q \in Quantities, NEW sign,
         ReportTrade(id, p, q, sign, Ns)
  PROVE  EventMeans'
<1>1. SymbolFor(id) \in Symbols
  BY SymbolIsOne
<1> DEFINE trade == [price |-> p, quantity |-> q, sign |-> sign]
<1>2. Raise({"trade"}, SymbolFor(id), Timestamp(Ns), trade)
  BY DEF ReportTrade
<1>3. trade.price \in Prices /\ trade.quantity \in Quantities
  OBVIOUS
<1> HIDE DEF trade
<1>4. QED BY <1>1, <1>2, <1>3, RaisedMeans

(* Only symbols that somebody registered for are routed.                   *)
OnlyRegistered == \A id : Routed(id) => SymbolFor(id) \in Registered

LEMMA NextRegistered ==
  ASSUME IInv, OnlyRegistered, [Next]_vars
  PROVE  OnlyRegistered'
<1>1. ASSUME order_book_id_sym_map' = order_book_id_sym_map PROVE OnlyRegistered'
  BY <1>1 DEF OnlyRegistered, Routed, SymbolFor
<1>2. ASSUME NEW id \in OrderBookIds, NEW n \in Instruments, List(id, n)
      PROVE  OnlyRegistered'
  <2>1. order_book_id_sym_map' =
          IF KeyOf[n] \in Registered /\ ~Routed(id)
          THEN Put(order_book_id_sym_map, id, KeyOf[n]) ELSE order_book_id_sym_map
    BY <1>2 DEF List, Directory
  <2>2. QED BY <2>1 DEF OnlyRegistered, Routed, SymbolFor, Put
<1>3. ASSUME NEW id, NEW name, Announce(id, name) PROVE OnlyRegistered'
  BY <1>1, <1>3 DEF Announce, State, KeepMaps
<1>4. ASSUME Tick PROVE OnlyRegistered'
  BY <1>1, <1>4 DEF Tick, Seconds, Ignored, KeepMaps
<1>5. ASSUME Trading PROVE OnlyRegistered'
  BY <1>1, <1>5 DEF Trading, Still, Moves, MovesTo
<1>6. ASSUME UNCHANGED vars PROVE OnlyRegistered'
  BY <1>1, <1>6 DEF vars, handlerVars
<1>7. QED BY <1>2, <1>3, <1>4, <1>5, <1>6, Steps

LEMMA ExecuteMeans ==
  ASSUME IInv, OnlyRegistered, NEW id, Routed(id), NEW i, NEW q \in Quantities,
         NEW prices \in SUBSET Prices, ExecuteAll(id, i, q, Ns, prices)
  PROVE  EventMeans'
<1> DEFINE k == SymbolFor(id)
           possible == [a \in Served(id) |-> ExecuteOrder(agents[a].book, i, q)]
<1>1. k \in Symbols /\ k \in Registered
  BY SymbolIsOne DEF OnlyRegistered
<1>2. PICK z \in AgentsOf(k) : z = Max(AgentsOf(k))
  <2>1. AgentsOf(k) # {}
    BY <1>1 DEF AgentsOf, Registered
  <2>2. QED BY <2>1, LastAgent
<1>3. PICK r \in Outcomes(possible) :
        LET result == r[z].execution
        IN  IF result.side = NoSide
            THEN Throw("invalid trade sign")
            ELSE Raise({"trade", "update"} \cup sweep_event(result), k, Timestamp(Ns),
                       [price |-> TradePrice(prices, result), quantity |-> q,
                        sign |-> itch_bist_trade_sign(result.side)])
  BY <1>2 DEF ExecuteAll
<1>4. r[z] \in ExecuteOrder(agents[z].book, i, q)
  BY <1>2 DEF Outcomes, Served
<1> DEFINE e == r[z].execution
<1>5. CASE e.side = NoSide
  BY <1>3, <1>5, NothingMeans DEF Throw
<1>6. CASE e.side # NoSide
  <2>1. agents[z].book \in Books /\ q \in Nat
    BY <1>2, AgentsBooks, QuantitiesAreWords
  <2>2. HasOrder(agents[z].book, i) /\ e.price = agents[z].book.orders[i].price
    BY <1>4, <1>6, <2>1, ExecuteAny DEF NoExecution
  <2>3. e.price \in Prices
    BY <2>1, <2>2, BookType DEF HasOrder, Orders
  <2>4. TradePrice(prices, e) \in Prices
    BY <2>3 DEF TradePrice
  <2> DEFINE trade == [price |-> TradePrice(prices, e), quantity |-> q,
                       sign |-> itch_bist_trade_sign(e.side)]
             mask == {"trade", "update"} \cup sweep_event(e)
  <2>5. Raise(mask, k, Timestamp(Ns), trade)
    BY <1>3, <1>6
  <2>6. trade.price \in Prices /\ trade.quantity \in Quantities
    BY <2>4
  <2>7. mask \subseteq {"update", "trade", "sweep"}
    BY DEF sweep_event
  <2> HIDE DEF trade, mask
  <2>8. QED BY <1>1, <2>5, <2>6, <2>7, RaisedMeans
<1>7. QED BY <1>5, <1>6

LEMMA AddMeans ==
  ASSUME IInv, NEW id, NEW i, NEW side, NEW p, NEW q, AddMsg(id, i, side, p, q, Ns)
  PROVE  EventMeans'
<1>1. CASE Ignored
  BY <1>1, IgnoredMeans
<1>2. ASSUME Routed(id), NEW possible, Update(id, Ns, possible) PROVE EventMeans'
  BY <1>2, UpdateMeans
<1>3. CASE Throw("invalid side")
  BY <1>3, NothingMeans DEF Throw
<1>4. QED BY <1>1, <1>2, <1>3 DEF AddMsg

LEMMA MessageMeans == ASSUME IInv, OnlyRegistered, Message PROVE EventMeans'
<1>1. ASSUME Silent PROVE EventMeans'
  BY <1>1, NothingMeans DEF Silent
<1>2. ASSUME Tick PROVE EventMeans'
  BY <1>1, <1>2 DEF Tick, Seconds, Ignored
<1>3. ASSUME NEW id, NEW n, List(id, n) PROVE EventMeans'
  BY <1>1, <1>3 DEF List, Directory
<1>4. ASSUME NEW id, NEW name, Announce(id, name) PROVE EventMeans'
  BY <1>1, <1>4 DEF Announce, State
<1>5. ASSUME NEW id, NEW p \in Prices, NEW q \in Quantities, Report(id, p, q)
      PROVE  EventMeans'
  BY <1>5, IgnoredMeans, ReportMeans DEF Report, TradeMsg
<1>6. ASSUME NEW code, Session(code) PROVE EventMeans'
  <2>1. PICK mask \in SUBSET {"opened", "closed"} : Raise(mask, "", Timestamp(Ns), NoTrade)
    <3> DEFINE mask == {IF code = "O" THEN "opened" ELSE "closed"}
    <3>1. Raise(mask, "", Timestamp(Ns), NoTrade) /\ mask \in SUBSET {"opened", "closed"}
      BY <1>6 DEF Session, System
    <3> HIDE DEF mask
    <3>2. QED BY <3>1
  <2>2. event'.mask = mask
    BY <2>1 DEF Raise
  <2>3. QED BY <2>2 DEF EventMeans
<1>7. ASSUME NEW o \in RestingOrders, Enter(o) PROVE EventMeans'
  BY <1>7, AddMeans DEF Enter
<1>8. ASSUME NEW o, Leave(o) PROVE EventMeans'
  <2>1. CASE Ignored
    BY <2>1, IgnoredMeans
  <2>2. ASSUME Routed(o.book), NEW possible, Update(o.book, Ns, possible) PROVE EventMeans'
    BY <2>2, UpdateMeans
  <2>3. QED BY <1>8, <2>1, <2>2 DEF Leave, DeleteMsg
<1>9. ASSUME NEW o, NEW q \in Quantities, Fill(o, q) PROVE EventMeans'
  BY <1>9, IgnoredMeans, ExecuteMeans DEF Fill, ExecutedMsg
<1>10. ASSUME NEW o, NEW q \in Quantities, NEW p \in Prices, FillAt(o, q, p)
       PROVE  EventMeans'
  BY <1>10, IgnoredMeans, ExecuteMeans DEF FillAt, ExecutedWithPriceMsg
<1>11. ASSUME NEW o, NEW q \in Quantities, NEW p \in Prices, Cross(o, q, p)
       PROVE  EventMeans'
  BY <1>11, IgnoredMeans, ReportMeans DEF Cross, ExecutedWithPriceMsg
<1>12. ASSUME NEW o, NEW position, NEW p, NEW q, Amend(o, position, p, q)
       PROVE  EventMeans'
  <2>1. CASE Ignored
    BY <2>1, IgnoredMeans
  <2>2. ASSUME Routed(o.book), NEW possible, Update(o.book, Ns, possible) PROVE EventMeans'
    BY <2>2, UpdateMeans
  <2>3. CASE Throw("invalid side")
    BY <2>3, NothingMeans DEF Throw
  <2>4. QED BY <1>12, <2>1, <2>2, <2>3 DEF Amend, ReplaceMsg
<1>13. ASSUME Uninteresting \/ Malformed PROVE EventMeans'
  BY <1>13, IgnoredMeans, NothingMeans, AddMeans
     DEF Uninteresting, Malformed, UnknownType, Throw
<1>14. QED
  BY <1>2, <1>3, <1>4, <1>5, <1>6, <1>7, <1>8, <1>9, <1>10, <1>11, <1>12, <1>13
     DEF Message

-----------------------------------------------------------------------------
(* What a tick makes of the statistics.                                    *)
Tops == [price : Nat, size : Nat]

Sessions ==
  [top : [bid : Tops, ask : Tops], max_price_levels : Nat, max_order_count : Nat,
   quotes : Nat, trades : Nat, volume_shs : Nat, volume_ccy : Nat,
   high : Prices \cup {MinusInfinity}, low : Prices \cup {Infinity}]

SessionFields == {"top", "max_price_levels", "max_order_count", "quotes", "trades",
                  "volume_shs", "volume_ccy", "high", "low"}

LEMMA PricesNumbers ==
  /\ Prices \subseteq Nat /\ IsFiniteSet(Prices)
  /\ Prices \cup {MinusInfinity} \subseteq Int /\ Prices \cup {Infinity} \subseteq Int
<1>1. Prices \subseteq Word /\ Modulus \in Nat
  BY TrackerAssumption, ModulusAssumption
<1>2. IsFiniteSet(Word)
  BY <1>1, FS_Interval DEF Word
<1>3. Prices \subseteq Nat /\ IsFiniteSet(Prices)
  BY <1>1, <1>2, WordIsNat, FS_Subset
<1>4. QED BY <1>1, <1>3 DEF MinusInfinity, Infinity

(* What a book's queries answer is finite.                                 *)
LEMMA BookCounts ==
  ASSUME NEW b \in Books
  PROVE  /\ LevelCount(b, "buy") \in Nat /\ LevelCount(b, "sell") \in Nat
         /\ OrderCount(b) \in Nat
         /\ TopOf(b) \in [bid : Tops, ask : Tops]
<1>1. IsFiniteSet(DOMAIN b.orders) /\ \A s \in Sides : IsFiniteSet(DOMAIN b.levels[s])
  BY BookType, PricesNumbers, TrackerAssumption, FS_Subset
<1>2. ASSUME NEW s \in Sides PROVE LevelAt(b, s, 0) \in Tops
  <2>1. CASE PricesAt(b, s, 0) = {}
    BY <2>1 DEF LevelAt, Tops
  <2>2. CASE PricesAt(b, s, 0) # {}
    <3>1. PICK p \in PricesAt(b, s, 0) : LevelAt(b, s, 0) = [price |-> p,
                                                            size |-> b.levels[s][p]]
      BY <2>2 DEF LevelAt
    <3>2. p \in Prices /\ b.levels[s][p] \in Word
      BY BookType DEF PricesAt
    <3>3. QED BY <3>1, <3>2, PricesNumbers, WordIsNat DEF Tops
  <2>3. QED BY <2>1, <2>2
<1>3. QED BY <1>1, <1>2, FS_CardinalityType DEF LevelCount, OrderCount, TopOf, Sides

LEMMA Greater ==
  ASSUME NEW x \in Int, NEW y \in Int, NEW z \in Int
  PROVE  /\ Max({x, y}) \in {x, y} /\ Max({x, y}) >= x /\ Max({x, y}) >= y
         /\ Max({x, y, z}) \in {x, y, z}
         /\ Max({x, y, z}) >= x /\ Max({x, y, z}) >= y /\ Max({x, y, z}) >= z
<1>1. \E m \in {x, y} : \A n \in {x, y} : m >= n
  OBVIOUS
<1>2. \E m \in {x, y, z} : \A n \in {x, y, z} : m >= n
  OBVIOUS
<1>3. QED BY <1>1, <1>2 DEF Max

LEMMA Lesser ==
  ASSUME NEW x \in Int, NEW y \in Int
  PROVE  Min({x, y}) \in {x, y}
<1>1. \E m \in {x, y} : \A n \in {x, y} : m <= n
  OBVIOUS
<1>2. QED BY <1>1 DEF Min

LEMMA SessionMade ==
  ASSUME NEW t, DOMAIN t = SessionFields, t = [f \in DOMAIN t |-> t[f]],
         t.top \in [bid : Tops, ask : Tops],
         t.max_price_levels \in Nat, t.max_order_count \in Nat,
         t.quotes \in Nat, t.trades \in Nat, t.volume_shs \in Nat, t.volume_ccy \in Nat,
         t.high \in Prices \cup {MinusInfinity}, t.low \in Prices \cup {Infinity}
  PROVE  t \in Sessions
BY DEF Sessions, SessionFields

LEMMA SessionIs ==
  ASSUME NEW t \in Sessions
  PROVE  /\ DOMAIN t = SessionFields /\ t = [f \in DOMAIN t |-> t[f]]
         /\ t.top \in [bid : Tops, ask : Tops]
         /\ t.max_price_levels \in Nat /\ t.max_order_count \in Nat
         /\ t.quotes \in Nat /\ t.trades \in Nat /\ t.volume_shs \in Nat /\ t.volume_ccy \in Nat
         /\ t.high \in Prices \cup {MinusInfinity} /\ t.low \in Prices \cup {Infinity}
BY DEF Sessions, SessionFields

(* The peaks cover what the book has now, and what they covered before.    *)
LEMMA QuoteCounted ==
  ASSUME NEW t \in Sessions, NEW b \in Books
  PROVE  LET u == process_ob_event(t, b)
         IN  /\ u \in Sessions /\ u.top = t.top
             /\ u.max_price_levels >= t.max_price_levels
             /\ u.max_price_levels >= LevelCount(b, "buy")
             /\ u.max_price_levels >= LevelCount(b, "sell")
             /\ u.max_order_count >= t.max_order_count
             /\ u.max_order_count >= OrderCount(b)
<1> DEFINE u == process_ob_event(t, b)
           levels == Max({t.max_price_levels, LevelCount(b, "buy"), LevelCount(b, "sell")})
           orders == Max({t.max_order_count, OrderCount(b)})
<1>1. /\ LevelCount(b, "buy") \in Nat /\ LevelCount(b, "sell") \in Nat
      /\ OrderCount(b) \in Nat /\ t.max_price_levels \in Nat /\ t.max_order_count \in Nat
  BY BookCounts, SessionIs
<1>2. /\ levels \in Nat /\ levels >= t.max_price_levels
      /\ levels >= LevelCount(b, "buy") /\ levels >= LevelCount(b, "sell")
  <2> DEFINE x == t.max_price_levels
             y == LevelCount(b, "buy")
             z == LevelCount(b, "sell")
  <2>1. /\ x \in Nat /\ y \in Nat /\ z \in Nat
        /\ x \in Int /\ y \in Int /\ z \in Int
    BY <1>1
  <2> HIDE DEF x, y, z
  <2>2. /\ Max({x, y, z}) \in {x, y, z}
        /\ Max({x, y, z}) >= x /\ Max({x, y, z}) >= y /\ Max({x, y, z}) >= z
    BY <2>1, Greater
  <2>3. Max({x, y, z}) \in Nat
    BY <2>1, <2>2
  <2>4. QED BY <2>2, <2>3 DEF x, y, z
<1>3. orders \in Nat /\ orders >= t.max_order_count /\ orders >= OrderCount(b)
  <2> DEFINE x == t.max_order_count
             y == OrderCount(b)
  <2>1. x \in Nat /\ y \in Nat /\ x \in Int /\ y \in Int
    BY <1>1
  <2> HIDE DEF x, y
  <2>2. Max({x, y}) \in {x, y} /\ Max({x, y}) >= x /\ Max({x, y}) >= y
    BY <2>1, Greater
  <2>3. Max({x, y}) \in Nat
    BY <2>1, <2>2
  <2>4. QED BY <2>2, <2>3 DEF x, y
<1> HIDE DEF levels, orders
<1>4. u = [t EXCEPT !.max_price_levels = levels, !.max_order_count = orders,
                    !.quotes = t.quotes + 1]
  BY DEF process_ob_event, levels, orders
<1>5. DOMAIN u = SessionFields /\ u = [f \in DOMAIN u |-> u[f]]
  BY <1>4, SessionIs
<1>6. u.max_price_levels = levels
  BY <1>4, SessionIs DEF SessionFields
<1>7. u.max_order_count = orders
  BY <1>4, SessionIs DEF SessionFields
<1>8. u.quotes = t.quotes + 1
  BY <1>4, SessionIs DEF SessionFields
<1>9. u.top = t.top
  BY <1>4, SessionIs DEF SessionFields
<1>10. u.trades = t.trades /\ u.volume_shs = t.volume_shs /\ u.volume_ccy = t.volume_ccy
  BY <1>4, SessionIs DEF SessionFields
<1>11. u.high = t.high /\ u.low = t.low
  BY <1>4, SessionIs DEF SessionFields
<1> HIDE DEF u
<1>12. u.quotes \in Nat
  BY <1>8, SessionIs
<1>13. u \in Sessions
  BY <1>2, <1>3, <1>5, <1>6, <1>7, <1>9, <1>10, <1>11, <1>12, SessionIs, SessionMade
<1>14. QED BY <1>2, <1>3, <1>6, <1>7, <1>9, <1>13 DEF u

LEMMA TradeCounted ==
  ASSUME NEW t \in Sessions, NEW trade, trade.price \in Prices, trade.quantity \in Nat
  PROVE  LET u == process_trade_event(t, trade)
         IN  /\ u \in Sessions /\ u.top = t.top
             /\ u.max_price_levels = t.max_price_levels
             /\ u.max_order_count = t.max_order_count
<1> DEFINE u == process_trade_event(t, trade)
           high == Max({t.high, trade.price})
           low == Min({t.low, trade.price})
           shs == t.volume_shs + trade.quantity
           ccy == t.volume_ccy + trade.quantity * trade.price
<1>1. high \in Prices \cup {MinusInfinity} /\ low \in Prices \cup {Infinity}
  <2>1. t.high \in Int /\ t.low \in Int /\ trade.price \in Int
    BY SessionIs, PricesNumbers
  <2>2. high \in {t.high, trade.price} /\ low \in {t.low, trade.price}
    BY <2>1, Greater, Lesser
  <2>3. QED BY <2>2, SessionIs
<1>2. shs \in Nat /\ ccy \in Nat
  <2>1. trade.price \in Nat /\ t.volume_shs \in Nat /\ t.volume_ccy \in Nat
    BY SessionIs, PricesNumbers
  <2>2. trade.quantity * trade.price \in Nat
    BY <2>1
  <2>3. QED BY <2>1, <2>2
<1> HIDE DEF high, low, shs, ccy
<1>3. u = [t EXCEPT !.volume_shs = shs, !.volume_ccy = ccy, !.high = high, !.low = low,
                    !.trades = t.trades + 1]
  BY DEF process_trade_event, high, low, shs, ccy
<1>4. DOMAIN u = SessionFields /\ u = [f \in DOMAIN u |-> u[f]]
  BY <1>3, SessionIs
<1>5. u.volume_shs = shs
  BY <1>3, SessionIs DEF SessionFields
<1>6. u.volume_ccy = ccy
  BY <1>3, SessionIs DEF SessionFields
<1>7. u.high = high
  BY <1>3, SessionIs DEF SessionFields
<1>8. u.low = low
  BY <1>3, SessionIs DEF SessionFields
<1>9. u.trades = t.trades + 1
  BY <1>3, SessionIs DEF SessionFields
<1>10. u.top = t.top /\ u.quotes = t.quotes
  BY <1>3, SessionIs DEF SessionFields
<1>11. u.max_price_levels = t.max_price_levels /\ u.max_order_count = t.max_order_count
  BY <1>3, SessionIs DEF SessionFields
<1> HIDE DEF u
<1>12. u.trades \in Nat
  BY <1>9, SessionIs
<1>13. u \in Sessions
  BY <1>1, <1>2, <1>4, <1>5, <1>6, <1>7, <1>8, <1>10, <1>11, <1>12, SessionIs, SessionMade
<1>14. QED BY <1>10, <1>11, <1>13 DEF u

(* A tick of a change covers the book, and leaves its top printed if the   *)
(* book has both sides.  Any tick leaves the last top, or this one.        *)
LEMMA TickDoes ==
  ASSUME NEW t \in Sessions, NEW b \in Books, NEW ev,
         ev.mask \subseteq {"trade", "update", "sweep", "opened", "closed"},
         "trade" \in ev.mask => ev.trade.price \in Prices /\ ev.trade.quantity \in Nat
  PROVE  LET u == tick(t, b, ev).ts
         IN  /\ u \in Sessions
             /\ tick(t, b, ev).printed \subseteq {"line", "update", "trade", "sweep", "closed"}
             /\ u.max_price_levels >= t.max_price_levels
             /\ u.max_order_count >= t.max_order_count
             /\ u.top \in {t.top, TopOf(b)}
             /\ "update" \in ev.mask /\ ~IsSession(ev) =>
                  /\ u.max_price_levels >= LevelCount(b, "buy")
                  /\ u.max_price_levels >= LevelCount(b, "sell")
                  /\ u.max_order_count >= OrderCount(b)
                  /\ TwoSided(TopOf(b)) => u.top = TopOf(b)
<1>1. CASE IsSession(ev)
  <2>1. tick(t, b, ev) = [ts |-> t, printed |-> fmt_footer(ev)]
    BY <1>1 DEF tick
  <2>2. QED BY <1>1, <2>1, SessionIs DEF fmt_footer
<1>2. CASE ~IsSession(ev)
  <2> DEFINE v == IF "update" \in ev.mask THEN process_ob_event(t, b) ELSE t
             u == Counted(t, b, ev)
             line == Line(u, b, ev)
             w == tick(t, b, ev).ts
  <2>1. /\ v \in Sessions /\ v.top = t.top
        /\ v.max_price_levels >= t.max_price_levels
        /\ v.max_order_count >= t.max_order_count
        /\ "update" \in ev.mask => /\ v.max_price_levels >= LevelCount(b, "buy")
                                   /\ v.max_price_levels >= LevelCount(b, "sell")
                                   /\ v.max_order_count >= OrderCount(b)
    <3>1. CASE "update" \in ev.mask
      BY <3>1, QuoteCounted
    <3>2. CASE "update" \notin ev.mask
      BY <3>2, SessionIs
    <3>3. QED BY <3>1, <3>2
  <2>2. u = IF "trade" \in ev.mask THEN process_trade_event(v, ev.trade) ELSE v
    BY DEF Counted
  <2> HIDE DEF v
  <2>3. /\ u \in Sessions /\ u.top = t.top
        /\ u.max_price_levels = v.max_price_levels
        /\ u.max_order_count = v.max_order_count
    <3>1. CASE "trade" \in ev.mask
      BY <2>1, <2>2, <3>1, TradeCounted
    <3>2. CASE "trade" \notin ev.mask
      BY <2>1, <2>2, <3>2
    <3>3. QED BY <3>1, <3>2
  <2>4. /\ w = IF "update" \in line THEN [u EXCEPT !.top = TopOf(b)] ELSE u
        /\ tick(t, b, ev).printed = line
    BY <1>2 DEF tick
  <2>5. line \subseteq {"line", "update", "trade", "sweep", "closed"}
    BY DEF Line
  <2>6. /\ "update" \in line => "update" \in ev.mask /\ TwoSided(TopOf(b))
        /\ "update" \in ev.mask /\ TwoSided(TopOf(b)) /\ "update" \notin line
             => u.top = TopOf(b)
    BY DEF Line, HasObChanged
  <2> HIDE DEF u, w, line
  <2>7. CASE "update" \in line
    <3>1. w = [u EXCEPT !.top = TopOf(b)]
      BY <2>4, <2>7
    <3>2. DOMAIN w = SessionFields /\ w = [f \in DOMAIN w |-> w[f]]
      BY <2>3, <3>1, SessionIs
    <3>3. w.top = TopOf(b)
      BY <2>3, <3>1, SessionIs DEF SessionFields
    <3>4. w.max_price_levels = u.max_price_levels /\ w.max_order_count = u.max_order_count
      BY <2>3, <3>1, SessionIs DEF SessionFields
    <3>5. w.quotes = u.quotes /\ w.trades = u.trades /\ w.volume_shs = u.volume_shs
          /\ w.volume_ccy = u.volume_ccy
      BY <2>3, <3>1, SessionIs DEF SessionFields
    <3>6. w.high = u.high /\ w.low = u.low
      BY <2>3, <3>1, SessionIs DEF SessionFields
    <3>7. w \in Sessions
      BY <2>3, <3>2, <3>3, <3>4, <3>5, <3>6, BookCounts, SessionIs, SessionMade
    <3>8. QED BY <2>1, <2>3, <2>4, <2>5, <3>3, <3>4, <3>7 DEF w
  <2>8. CASE "update" \notin line
    <3>1. w = u
      BY <2>4, <2>8
    <3>2. QED BY <2>1, <2>3, <2>4, <2>5, <2>6, <2>8, <3>1 DEF w
  <2>9. QED BY <2>7, <2>8
<1>3. QED BY <1>1, <1>2

-----------------------------------------------------------------------------
(* Which tracker ticks for which book.                                     *)
LEMMA OneHeard ==
  ASSUME NEW a \in Agents, NEW ev, ev # NoEvent, ev.symbol = SymbolOf[a],
         SymbolOf[a] \in Symbols
  PROVE  Heard(TrackerOf[a], ev) = {a}
<1>1. ev.symbol # ""
  BY TrackerAssumption
<1>2. ASSUME NEW b \in Agents, TrackerOf[b] = TrackerOf[a], Hears(b, ev) PROVE b = a
  <2>1. SymbolOf[b] = SymbolOf[a]
    BY <1>1, <1>2 DEF Hears
  <2>2. QED BY <1>2, <2>1, TrackerAssumption
<1>3. QED BY <1>2 DEF Heard, Hears

(* Either tracker t does nothing, or it ticks for one of its books.        *)
Rests(t) == ts'[t] = ts[t] /\ printed'[t] = {}

TicksFor(t, a) ==
  LET after == tick(ts[t], agents'[a].book, event')
  IN  ts'[t] = after.ts /\ printed'[t] = after.printed

LEMMA TickIs ==
  ASSUME Ticks, NEW t \in Trackers
  PROVE  \/ Heard(t, event') = {} /\ Rests(t)
         \/ \E a \in Heard(t, event') : TicksFor(t, a)
<1> DEFINE after(ev, x) == IF Heard(x, ev) = {} THEN [ts |-> ts[x], printed |-> {}]
                           ELSE LET a == CHOOSE a \in Heard(x, ev) : TRUE
                                IN  tick(ts[x], agents'[a].book, ev)
           r == after(event', t)
<1>0. ts'[t] = r.ts /\ printed'[t] = r.printed
  <2>1. \E ev \in {event'} :
          \E f \in {[x \in Trackers |-> after(ev, x)]} :
            /\ ts' = [x \in Trackers |-> f[x].ts]
            /\ printed' = [x \in Trackers |-> f[x].printed]
    BY DEF Ticks
  <2> HIDE DEF after
  <2>2. QED BY <2>1
<1>1. CASE Heard(t, event') = {}
  <2>1. r = [ts |-> ts[t], printed |-> {}]
    BY <1>1
  <2> HIDE DEF r
  <2>2. QED BY <1>0, <1>1, <2>1 DEF Rests
<1>2. CASE Heard(t, event') # {}
  <2>1. PICK a : a \in Heard(t, event') /\ a = CHOOSE x \in Heard(t, event') : TRUE
    BY <1>2
  <2>2. r = tick(ts[t], agents'[a].book, event')
    BY <1>2, <2>1
  <2> HIDE DEF r
  <2>3. TicksFor(t, a)
    BY <1>0, <2>2 DEF TicksFor
  <2>4. QED BY <2>1, <2>3
<1>3. QED BY <1>1, <1>2

LEMMA TicksKeep == Ticks => DOMAIN ts' = Trackers /\ DOMAIN printed' = Trackers
BY DEF Ticks

Printings == SUBSET {"line", "update", "trade", "sweep", "closed"}

(* What a step does to the record of tracker t.                            *)
LEMMA Recorded ==
  ASSUME IInv', EventMeans', Ticks, NEW t \in Trackers, ts[t] \in Sessions
  PROVE  /\ ts'[t] \in Sessions /\ printed'[t] \in Printings
         /\ ts'[t].max_price_levels >= ts[t].max_price_levels
         /\ ts'[t].max_order_count >= ts[t].max_order_count
         /\ ts'[t].top = ts[t].top
              \/ \E a \in Agents : TrackerOf[a] = t /\ ts'[t].top = TopOf(agents'[a].book)
<1>1. CASE Rests(t)
  BY <1>1, SessionIs DEF Rests, Printings
<1>2. ASSUME NEW a \in Heard(t, event'), TicksFor(t, a)
      PROVE  /\ ts'[t] \in Sessions /\ printed'[t] \in Printings
             /\ ts'[t].max_price_levels >= ts[t].max_price_levels
             /\ ts'[t].max_order_count >= ts[t].max_order_count
             /\ ts'[t].top = ts[t].top \/ ts'[t].top = TopOf(agents'[a].book)
  <2>1. a \in Agents /\ TrackerOf[a] = t
    BY DEF Heard
  <2>2. agents'[a].book \in Books
    BY <2>1 DEF IInv, AgentsOK
  <2>3. /\ event'.mask \subseteq {"trade", "update", "sweep", "opened", "closed"}
        /\ "trade" \in event'.mask =>
             event'.trade.price \in Prices /\ event'.trade.quantity \in Nat
    BY QuantitiesAreWords DEF IInv, EventOK, EventMeans
  <2>4. QED BY <1>2, <2>2, <2>3, TickDoes DEF TicksFor, Printings
<1>3. \A a \in Heard(t, event') : a \in Agents /\ TrackerOf[a] = t
  BY DEF Heard
<1>4. QED BY <1>1, <1>2, <1>3, TickIs

(* And if the book of an agent changes, to the record of its tracker.      *)
LEMMA ChangeRecorded ==
  ASSUME IInv', EventMeans', Ticks, NEW a \in Agents, ts[TrackerOf[a]] \in Sessions,
         "update" \in event'.mask, event'.symbol = SymbolOf[a]
  PROVE  LET u == ts'[TrackerOf[a]]
             b == agents'[a].book
         IN  /\ u.max_price_levels >= LevelCount(b, "buy")
             /\ u.max_price_levels >= LevelCount(b, "sell")
             /\ u.max_order_count >= OrderCount(b)
             /\ TwoSided(TopOf(b)) => u.top = TopOf(b)
<1>1. TrackerOf[a] \in Trackers /\ SymbolOf[a] \in Symbols
  BY TrackerAssumption, FeedAssumption
<1>2. event' # NoEvent /\ ~IsSession(event')
  <2>1. NoEvent.mask = {}
    BY DEF NoEvent
  <2>2. event'.mask \cap {"opened", "closed"} = {}
    BY DEF EventMeans
  <2>3. QED BY <2>1, <2>2 DEF IsSession
<1>3. Heard(TrackerOf[a], event') = {a}
  BY <1>1, <1>2, OneHeard
<1>4. TicksFor(TrackerOf[a], a)
  BY <1>1, <1>3, TickIs
<1>5. agents'[a].book \in Books
  BY DEF IInv, AgentsOK
<1>6. /\ event'.mask \subseteq {"trade", "update", "sweep", "opened", "closed"}
      /\ "trade" \in event'.mask =>
           event'.trade.price \in Prices /\ event'.trade.quantity \in Nat
  BY QuantitiesAreWords DEF IInv, EventOK, EventMeans
<1>7. QED BY <1>2, <1>4, <1>5, <1>6, TickDoes DEF TicksFor

-----------------------------------------------------------------------------
(* The invariant of the trackers, which their listening preserves whatever *)
(* the exchange does.                                                      *)
RecordsOK ==
  /\ ts \in [Trackers -> Sessions]
  /\ printed \in [Trackers -> Printings]
  /\ \A t \in Trackers : ts[t].quotes <= MaxQuotes /\ ts[t].trades <= MaxTrades

TInv == OnlyRegistered /\ RecordsOK /\ PeaksCoverBook /\ PrintedTopIsCurrent

LEMMA TrackerInitInv == TrackerInit => TInv
<1> SUFFICES ASSUME TrackerInit PROVE TInv
  OBVIOUS
<1>1. OnlyRegistered
  BY DEF TrackerInit, Init, HandlerInit, OnlyRegistered, Routed
<1>2. NewSession \in Sessions
  BY ModulusAssumption DEF NewSession, Sessions, Tops, Infinity
<1>3. NewSession.quotes = 0 /\ NewSession.trades = 0
      /\ NewSession.max_price_levels = 0 /\ NewSession.max_order_count = 0
  BY DEF NewSession
<1>4. ts = [t \in Trackers |-> NewSession] /\ printed = [t \in Trackers |-> {}]
  BY DEF TrackerInit
<1>5. RecordsOK
  <2>1. MaxQuotes \in Nat /\ MaxTrades \in Nat
    BY TrackerAssumption
  <2>2. {} \in Printings
    BY DEF Printings
  <2>3. QED BY <1>2, <1>3, <1>4, <2>1, <2>2 DEF RecordsOK
<1>6. \A a \in Agents : agents[a].book = EmptyBook
  BY DEF TrackerInit, Init, HandlerInit
<1>7. /\ LevelCount(EmptyBook, "buy") = 0 /\ LevelCount(EmptyBook, "sell") = 0
      /\ OrderCount(EmptyBook) = 0 /\ ~TwoSided(TopOf(EmptyBook))
  BY FS_EmptySet DEF EmptyBook, LevelCount, OrderCount, TwoSided, TopOf, LevelAt, PricesAt, Sides
<1>8. PeaksCoverBook
  <2>1. ASSUME NEW a \in Agents PROVE ts[TrackerOf[a]] = NewSession
    BY <1>4, TrackerAssumption
  <2>2. QED BY <1>3, <1>6, <1>7, <2>1 DEF PeaksCoverBook
<1>9. PrintedTopIsCurrent
  BY <1>6, <1>7 DEF PrintedTopIsCurrent
<1>10. QED BY <1>1, <1>5, <1>8, <1>9 DEF TInv

LEMMA TrackerStep ==
  ASSUME IInv, TInv, TrackerNext
  PROVE  [Next]_vars /\ EventMeans' /\ Ticks
BY MessageMeans DEF TrackerNext, Next, TInv

LEMMA RecordsKept == ASSUME IInv, IInv', TInv, TrackerNext PROVE RecordsOK'
<1>1. EventMeans' /\ Ticks
  BY TrackerStep
<1>2. ASSUME NEW t \in Trackers PROVE ts'[t] \in Sessions /\ printed'[t] \in Printings
  BY <1>1, Recorded DEF TInv, RecordsOK
<1>3. DOMAIN ts' = Trackers /\ DOMAIN printed' = Trackers
  BY <1>1, TicksKeep
<1>4. ts' = [t \in Trackers |-> ts'[t]] /\ printed' = [t \in Trackers |-> printed'[t]]
  BY <1>1, <1>3 DEF Ticks
<1>5. QED BY <1>2, <1>4 DEF RecordsOK, TrackerNext

LEMMA PeaksKept == ASSUME IInv, IInv', TInv, TrackerNext PROVE PeaksCoverBook'
<1>1. [Next]_vars /\ EventMeans' /\ Ticks
  BY TrackerStep
<1>2. ASSUME NEW a \in Agents
      PROVE  /\ LevelCount(agents'[a].book, "buy") <= ts'[TrackerOf[a]].max_price_levels
             /\ LevelCount(agents'[a].book, "sell") <= ts'[TrackerOf[a]].max_price_levels
             /\ OrderCount(agents'[a].book) <= ts'[TrackerOf[a]].max_order_count
  <2> DEFINE t == TrackerOf[a]
             b == agents'[a].book
  <2>1. t \in Trackers /\ ts[t] \in Sessions
    BY TrackerAssumption DEF TInv, RecordsOK
  <2>2. b \in Books
    BY DEF IInv, AgentsOK
  <2>3. /\ LevelCount(b, "buy") \in Nat /\ LevelCount(b, "sell") \in Nat
        /\ OrderCount(b) \in Nat
    BY <2>2, BookCounts
  <2>4. /\ ts'[t] \in Sessions
        /\ ts'[t].max_price_levels >= ts[t].max_price_levels
        /\ ts'[t].max_order_count >= ts[t].max_order_count
    BY <1>1, <2>1, Recorded
  <2>5. /\ ts[t].max_price_levels \in Nat /\ ts[t].max_order_count \in Nat
        /\ ts'[t].max_price_levels \in Nat /\ ts'[t].max_order_count \in Nat
    BY <2>1, <2>4, SessionIs
  <2>6. CASE b = agents[a].book
    <3>1. /\ LevelCount(b, "buy") <= ts[t].max_price_levels
          /\ LevelCount(b, "sell") <= ts[t].max_price_levels
          /\ OrderCount(b) <= ts[t].max_order_count
      BY <2>6 DEF TInv, PeaksCoverBook
    <3>2. QED BY <2>3, <2>4, <2>5, <3>1
  <2>7. CASE b # agents[a].book
    <3>1. "update" \in event'.mask /\ event'.symbol = SymbolOf[a]
      BY <1>1, <2>7, NextAnnounces DEF Announced
    <3>2. /\ ts'[t].max_price_levels >= LevelCount(b, "buy")
          /\ ts'[t].max_price_levels >= LevelCount(b, "sell")
          /\ ts'[t].max_order_count >= OrderCount(b)
      BY <1>1, <2>1, <3>1, ChangeRecorded
    <3>3. QED BY <2>3, <2>5, <3>2
  <2>8. QED BY <2>6, <2>7
<1>3. QED BY <1>2 DEF PeaksCoverBook

LEMMA TopKept == ASSUME IInv, IInv', TInv, TrackerNext PROVE PrintedTopIsCurrent'
<1>1. [Next]_vars /\ EventMeans' /\ Ticks
  BY TrackerStep
<1>2. ASSUME NEW a \in Agents, Alone(a), TwoSided(TopOf(agents'[a].book))
      PROVE  ts'[TrackerOf[a]].top = TopOf(agents'[a].book)
  <2>1. TrackerOf[a] \in Trackers /\ ts[TrackerOf[a]] \in Sessions
    BY TrackerAssumption DEF TInv, RecordsOK
  <2>2. CASE agents'[a].book = agents[a].book
    <3>1. ts[TrackerOf[a]].top = TopOf(agents'[a].book)
      BY <1>2, <2>2 DEF TInv, PrintedTopIsCurrent
    <3>2. \/ ts'[TrackerOf[a]].top = ts[TrackerOf[a]].top
          \/ \E x \in Agents : /\ TrackerOf[x] = TrackerOf[a]
                              /\ ts'[TrackerOf[a]].top = TopOf(agents'[x].book)
      BY <1>1, <2>1, Recorded
    <3>3. QED BY <1>2, <3>1, <3>2 DEF Alone
  <2>3. CASE agents'[a].book # agents[a].book
    <3>1. "update" \in event'.mask /\ event'.symbol = SymbolOf[a]
      BY <1>1, <2>3, NextAnnounces DEF Announced
    <3>2. QED BY <1>1, <1>2, <2>1, <3>1, ChangeRecorded
  <2>4. QED BY <2>2, <2>3
<1>3. QED BY <1>2 DEF PrintedTopIsCurrent, Alone

LEMMA TrackerNextInv ==
  IInv /\ IInv' /\ TInv /\ [TrackerNext]_trackerVars => TInv'
<1>1. ASSUME IInv, IInv', TInv, TrackerNext PROVE TInv'
  <2>1. OnlyRegistered'
    BY <1>1, TrackerStep, NextRegistered DEF TInv
  <2>2. QED BY <1>1, <2>1, RecordsKept, PeaksKept, TopKept DEF TInv
<1>2. ASSUME TInv, UNCHANGED trackerVars PROVE TInv'
  BY <1>2 DEF TInv, OnlyRegistered, Routed, SymbolFor, RecordsOK, PeaksCoverBook,
              PrintedTopIsCurrent, trackerVars, vars, handlerVars
<1>3. QED BY <1>1, <1>2

LEMMA TrackerInvariance == TrackerSpec => []IInv /\ []TInv
<1>1. TrackerSpec => []IInv
  BY TrackersListen, Invariance, PTL
<1>2. QED BY <1>1, TrackerInitInv, TrackerNextInv, PTL DEF TrackerSpec

(* The records of all trackers stay well-typed, whatever the exchange      *)
(* does.                                                                   *)
THEOREM TrackerTypeCorrect == TrackerSpec => []TrackerTypeOK
<1>1. TInv => TrackerTypeOK
  <2> SUFFICES ASSUME TInv PROVE TrackerTypeOK
    OBVIOUS
  <2> DEFINE Bounded ==
        [top : [bid : Tops, ask : Tops], max_price_levels : Nat, max_order_count : Nat,
         quotes : 0 .. MaxQuotes, trades : 0 .. MaxTrades, volume_shs : Nat,
         volume_ccy : Nat, high : Prices \cup {MinusInfinity}, low : Prices \cup {Infinity}]
  <2>1. ASSUME NEW t \in Trackers PROVE ts[t] \in Bounded
    <3>1. ts[t] \in Sessions /\ ts[t].quotes <= MaxQuotes /\ ts[t].trades <= MaxTrades
      BY DEF TInv, RecordsOK
    <3>2. MaxQuotes \in Nat /\ MaxTrades \in Nat
      BY TrackerAssumption
    <3>3. ts[t].quotes \in Nat /\ ts[t].trades \in Nat
      BY <3>1, SessionIs
    <3>4. ts[t].quotes \in 0 .. MaxQuotes /\ ts[t].trades \in 0 .. MaxTrades
      BY <3>1, <3>2, <3>3
    <3>5. QED BY <3>1, <3>4 DEF Sessions
  <2> HIDE DEF Bounded
  <2>2. ts \in [Trackers -> Bounded]
    BY <2>1 DEF TInv, RecordsOK
  <2>3. QED BY <2>2 DEF Bounded, TrackerTypeOK, Tops, TInv, RecordsOK, Printings
<1>2. QED BY <1>1, TrackerInvariance, PTL

(* No book was ever larger than the statistics say, whatever the exchange  *)
(* does.                                                                   *)
THEOREM PeaksCorrect == TrackerSpec => []PeaksCoverBook
<1>1. TInv => PeaksCoverBook
  BY DEF TInv
<1>2. QED BY <1>1, TrackerInvariance, PTL

(* The last line of a tracker of one symbol shows the top of its book,     *)
(* whatever the exchange does.                                             *)
THEOREM PrintedTopCorrect == TrackerSpec => []PrintedTopIsCurrent
<1>1. TInv => PrintedTopIsCurrent
  BY DEF TInv
<1>2. QED BY <1>1, TrackerInvariance, PTL

(* And a tracker of several symbols misses no new top.                     *)
THEOREM ChangedTopCorrect == TrackerSpec => ChangedTopIsPrinted
<1>1. ASSUME IInv, IInv', TInv, TrackerNext, NEW a \in Agents,
             TopOf(agents'[a].book) # TopOf(agents[a].book), TwoSided(TopOf(agents'[a].book))
      PROVE  TopOf(agents'[a].book) = ts'[TrackerOf[a]].top
  <2>1. [Next]_vars /\ EventMeans' /\ Ticks
    BY <1>1, TrackerStep
  <2>2. "update" \in event'.mask /\ event'.symbol = SymbolOf[a]
    BY <1>1, <2>1, NextAnnounces DEF Announced
  <2>3. ts[TrackerOf[a]] \in Sessions
    BY <1>1, TrackerAssumption DEF TInv, RecordsOK
  <2>4. QED BY <1>1, <2>1, <2>2, <2>3, ChangeRecorded
<1>2. IInv /\ IInv' /\ TInv /\ [TrackerNext]_trackerVars =>
        [\A a \in Agents :
           TopOf(agents'[a].book) \in {TopOf(agents[a].book), ts'[TrackerOf[a]].top}
             \/ ~TwoSided(TopOf(agents'[a].book))]_trackerVars
  BY <1>1
<1>3. QED BY <1>2, TrackerInvariance, PTL DEF TrackerSpec, ChangedTopIsPrinted

-----------------------------------------------------------------------------
(* The top of a book: the best price of each side, with its size.          *)
Best(b, s, p) ==
  p \in DOMAIN b.levels[s] /\ \A r \in DOMAIN b.levels[s] : ~Before(s, r, p)

LEMMA BestLevel ==
  ASSUME NEW b, Consistent(b), NEW s \in Sides
  PROVE  /\ DOMAIN b.levels[s] = {} => LevelAt(b, s, 0) = [price |-> 0, size |-> 0]
         /\ DOMAIN b.levels[s] # {} =>
              \E p : Best(b, s, p) /\ LevelAt(b, s, 0) = [price |-> p, size |-> b.levels[s][p]]
<1> DEFINE S == DOMAIN b.levels[s]
<1>1. b \in Books /\ Sound(b) /\ Prices \subseteq Nat
  BY PricesNumbers DEF Consistent, Sound
<1>2. IsFiniteSet(S)
  BY <1>1, BookType, PricesNumbers, FS_Subset
<1>3. CASE S = {}
  BY <1>3 DEF LevelAt, PricesAt
<1>4. CASE S # {}
  <2>1. Cardinality(S) \in Nat /\ Cardinality(S) # 0 /\ LevelCount(b, s) = Cardinality(S)
    BY <1>2, <1>4, FS_CardinalityType, FS_EmptySet DEF LevelCount
  <2>2. 0 \in 0 .. LevelCount(b, s) - 1
    BY <2>1
  <2>3. PICK p \in S : /\ Rank(S, s, p) = 0
                       /\ LevelAt(b, s, 0) = [price |-> p, size |-> b.levels[s][p]]
    BY <1>1, <2>2, LevelRanked
  <2>4. Better(S, s, p) = {}
    <3>1. IsFiniteSet(Better(S, s, p))
      BY <1>2, FS_Subset DEF Better
    <3>2. QED BY <2>3, <3>1, FS_EmptySet DEF Rank
  <2>5. Best(b, s, p)
    BY <2>3, <2>4 DEF Best, Better
  <2>6. QED BY <1>4, <2>3, <2>5
<1>5. QED BY <1>3, <1>4

LEMMA BestIsOne ==
  ASSUME NEW b \in Books, NEW s \in Sides, NEW p, NEW r, Best(b, s, p), Best(b, s, r)
  PROVE  p = r
<1>1. p \in Nat /\ r \in Nat
  BY BookType, PricesNumbers DEF Best
<1>2. ~Before(s, p, r) /\ ~Before(s, r, p)
  BY DEF Best
<1>3. QED BY <1>1, <1>2 DEF Before

(* One level of a book has lost shares, and has gone if it lost all.       *)
Shrinks(b, c, s, p) ==
  /\ HasLevel(b, s, p) /\ SizeAt(c, s, p) < SizeAt(b, s, p)
  /\ HasLevel(c, s, p) <=> SizeAt(c, s, p) # 0
  /\ \A t \in Sides, r \in Prices :
       t # s \/ r # p =>
         (HasLevel(c, t, r) <=> HasLevel(b, t, r)) /\ SizeAt(c, t, r) = SizeAt(b, t, r)

(* That shows in the book's top if the level is the best of its side.      *)
LEMMA TopShrinks ==
  ASSUME NEW b, Consistent(b), NEW c, Consistent(c), NEW s \in Sides, NEW p \in Prices,
         Shrinks(b, c, s, p), BestOf(b, s) = p, TwoSided(TopOf(c))
  PROVE  /\ TwoSided(TopOf(b)) /\ TopOf(c) # TopOf(b)
         /\ BestOf(c, s) # p <=> SizeAt(c, s, p) = 0
<1> DEFINE S == DOMAIN b.levels[s]
           R == DOMAIN c.levels[s]
<1>1. b \in Books /\ c \in Books
  BY DEF Consistent, Sound
<1>2. /\ p \in S /\ R \subseteq S /\ S \ {p} \subseteq R
      /\ p \in R <=> SizeAt(c, s, p) # 0
  BY <1>1, BookType DEF Shrinks, HasLevel
<1>3. Best(b, s, p) /\ LevelAt(b, s, 0) = [price |-> p, size |-> b.levels[s][p]]
  BY <1>2, BestLevel DEF BestOf
<1>4. ASSUME NEW t \in Sides, t # s PROVE LevelAt(c, t, 0) = LevelAt(b, t, 0)
  <2>1. DOMAIN c.levels[t] = DOMAIN b.levels[t]
    BY <1>1, <1>4, BookType DEF Shrinks, HasLevel
  <2>2. \A r \in DOMAIN b.levels[t] : c.levels[t][r] = b.levels[t][r]
    BY <1>1, <1>4, <2>1, BookType DEF Shrinks, HasLevel, SizeAt
  <2>3. c.levels[t] = b.levels[t]
    <3>1. /\ b.levels[t] \in Partial(Prices, Word)
          /\ c.levels[t] \in Partial(Prices, Word)
      BY <1>1, BookType
    <3>2. QED BY <2>1, <2>2, <3>1 DEF Partial
  <2>4. QED BY <2>3 DEF LevelAt, PricesAt
<1>5. /\ TopOf(b).bid = LevelAt(b, "buy", 0) /\ TopOf(b).ask = LevelAt(b, "sell", 0)
      /\ TopOf(c).bid = LevelAt(c, "buy", 0) /\ TopOf(c).ask = LevelAt(c, "sell", 0)
  BY DEF TopOf
<1>6. LevelAt(c, "buy", 0).price # 0 /\ LevelAt(c, "sell", 0).size # 0
  BY <1>5 DEF TwoSided
<1>7. R # {}
  <2>1. CASE R = {}
    <3>1. LevelAt(c, s, 0) = [price |-> 0, size |-> 0]
      BY <2>1, BestLevel
    <3>2. QED BY <1>6, <3>1 DEF Sides
  <2>2. QED BY <2>1
<1>8. PICK x : Best(c, s, x) /\ LevelAt(c, s, 0) = [price |-> x, size |-> c.levels[s][x]]
  BY <1>7, BestLevel
<1>9. x \in R /\ x \in S
  BY <1>2, <1>8 DEF Best
<1>10. BestOf(c, s) = x
  BY <1>8 DEF BestOf
<1>11. p \in R => x = p
  <2>1. p \in R => Best(c, s, p)
    BY <1>2, <1>3 DEF Best
  <2>2. QED BY <1>1, <1>8, <2>1, BestIsOne
<1>12. BestOf(c, s) # p <=> SizeAt(c, s, p) = 0
  BY <1>2, <1>9, <1>10, <1>11
<1>13. LevelAt(c, s, 0) # LevelAt(b, s, 0)
  <2>1. SUFFICES ASSUME LevelAt(c, s, 0) = LevelAt(b, s, 0) PROVE FALSE
    OBVIOUS
  <2>2. x = p /\ c.levels[s][p] = b.levels[s][p]
    BY <1>3, <1>8, <2>1
  <2>3. SizeAt(c, s, p) = SizeAt(b, s, p) /\ SizeAt(b, s, p) \in Nat
    <3>1. b.levels[s][p] \in Nat
      BY <1>1, <1>2, BookType, WordIsNat
    <3>2. QED BY <1>2, <1>9, <2>2, <3>1 DEF SizeAt, HasLevel
  <2>4. QED BY <2>3 DEF Shrinks
<1>14. TopOf(c) # TopOf(b)
  BY <1>5, <1>13 DEF Sides
<1>15. LevelAt(b, "buy", 0).price # 0 /\ LevelAt(b, "sell", 0).size # 0
  <2>1. CASE s = "sell"
    <3>1. LevelAt(b, "buy", 0).price # 0
      BY <1>4, <1>6, <2>1 DEF Sides
    <3>2. b.levels[s][p] # 0
      <4>1. SizeAt(b, s, p) = b.levels[s][p] /\ b.levels[s][p] \in Nat
        BY <1>1, <1>2, BookType, WordIsNat DEF SizeAt, HasLevel
      <4>2. SizeAt(c, s, p) \in Nat
        BY <1>1, BookType, WordIsNat DEF SizeAt, HasLevel
      <4>3. QED BY <4>1, <4>2 DEF Shrinks
    <3>3. QED BY <1>3, <2>1, <3>1, <3>2
  <2>2. CASE s = "buy"
    <3>1. LevelAt(b, "sell", 0).size # 0
      BY <1>4, <1>6, <2>2 DEF Sides
    <3>2. x # 0 /\ x \in Nat /\ p \in Nat
      BY <1>1, <1>6, <1>8, <1>9, <2>2, BookType, PricesNumbers
    <3>3. ~Before("buy", x, p)
      BY <1>3, <1>9, <2>2 DEF Best
    <3>4. p # 0
      BY <3>2, <3>3 DEF Before
    <3>5. QED BY <1>3, <2>2, <3>1, <3>4
  <2>3. QED BY <2>1, <2>2 DEF Sides
<1>16. QED BY <1>5, <1>12, <1>14, <1>15 DEF TwoSided

-----------------------------------------------------------------------------
(* A fill shrinks the level of its order.                                  *)
LEMMA HeldShrinks ==
  ASSUME NEW b, Consistent(b), NEW os, Holds(b, os), NEW o \in os,
         o.side \in Sides, o.price \in Prices, o.quantity \in Word,
         NEW q \in Nat \ {0}, q <= o.quantity,
         NEW left, \A x \in left : /\ x.id = o.id /\ x.side = o.side /\ x.price = o.price
                                   /\ x.quantity = o.quantity - q,
         IF q = o.quantity THEN left = {} ELSE \E x : left = {x},
         NEW c, Consistent(c), Holds(c, (os \ {o}) \cup left)
  PROVE  Shrinks(b, c, o.side, o.price)
<1> DEFINE after == (os \ {o}) \cup left
           s == o.side
           p == o.price
           A == AtPrice(os \ {o}, s, p)
<1>1. /\ AtPrice(os, s, p) = A \cup {o} /\ o \notin A
      /\ AtPrice(after, s, p) = A \cup left
  BY DEF AtPrice
<1>2. \A x \in left : x \notin A
  BY DEF AtPrice, Holds
<1>3. IsFiniteSet(SharesOf(A))
  <2>1. IsFiniteSet(SharesOf(AtPrice(os, s, p)))
    BY HeldShares DEF Consistent
  <2>2. SharesOf(A) \subseteq SharesOf(AtPrice(os, s, p))
    BY DEF SharesOf, AtPrice
  <2>3. QED BY <2>1, <2>2, FS_Subset
<1>4. /\ SizeAt(b, s, p) = Total(A \cup {o}) /\ SizeAt(c, s, p) = Total(A \cup left)
      /\ HasLevel(b, s, p) <=> Total(A \cup {o}) # 0
      /\ HasLevel(c, s, p) <=> Total(A \cup left) # 0
  <2> HIDE DEF A, after
  <2>1. /\ SizeAt(b, s, p) = Total(AtPrice(os, s, p))
        /\ HasLevel(b, s, p) <=> Total(AtPrice(os, s, p)) # 0
    BY HeldDepth
  <2>2. /\ SizeAt(c, s, p) = Total(AtPrice(after, s, p))
        /\ HasLevel(c, s, p) <=> Total(AtPrice(after, s, p)) # 0
    BY HeldDepth DEF after
  <2>3. QED BY <1>1, <2>1, <2>2
<1>5. Total(A) \in Nat /\ o.quantity \in Nat
  BY <1>3, FS_CardinalityType, WordIsNat DEF Total, SharesOf
<1> HIDE DEF A
<1>6. Total(A \cup {o}) = Total(A) + o.quantity
  BY <1>1, <1>3, TotalMore
<1>7. Total(A \cup left) = Total(A) + (o.quantity - q)
  <2>1. CASE q = o.quantity
    <3>1. A \cup left = A
      BY <2>1
    <3>2. Total(A \cup left) = Total(A)
      BY <3>1
    <3>3. QED BY <1>5, <2>1, <3>2
  <2>2. CASE q # o.quantity
    <3>1. PICK x : left = {x}
      BY <2>2
    <3>2. x.quantity = o.quantity - q /\ x \notin A
      BY <1>2, <3>1
    <3>3. x.quantity \in Word
      BY <1>5, <3>2, ModulusAssumption DEF Word
    <3>4. QED BY <1>3, <3>1, <3>2, <3>3, TotalMore
  <2>3. QED BY <2>1, <2>2
<1>8. Total(A \cup left) < Total(A \cup {o}) /\ Total(A \cup {o}) # 0
  BY <1>5, <1>6, <1>7
<1>9. ASSUME NEW t \in Sides, NEW r \in Prices, t # s \/ r # p
      PROVE  (HasLevel(c, t, r) <=> HasLevel(b, t, r)) /\ SizeAt(c, t, r) = SizeAt(b, t, r)
  <2>1. AtPrice(after, t, r) = AtPrice(os, t, r)
    BY <1>9 DEF AtPrice
  <2> HIDE DEF after
  <2>2. /\ SizeAt(b, t, r) = Total(AtPrice(os, t, r))
        /\ HasLevel(b, t, r) <=> Total(AtPrice(os, t, r)) # 0
    BY HeldDepth
  <2>3. /\ SizeAt(c, t, r) = Total(AtPrice(after, t, r))
        /\ HasLevel(c, t, r) <=> Total(AtPrice(after, t, r)) # 0
    BY HeldDepth DEF after
  <2>4. QED BY <2>1, <2>2, <2>3
<1>10. QED BY <1>4, <1>8, <1>9 DEF Shrinks

LEMMA FillShrinks ==
  ASSUME IInv, Follows, BooksConsistent, BooksConsistent',
         NEW o \in resting, NEW q \in Quantities, Fill(o, q),
         NEW a \in Agents, SymbolOf[a] = KeyFor(o)
  PROVE  Shrinks(agents[a].book, agents'[a].book, o.side, o.price)
<1> DEFINE b == agents[a].book
           c == agents'[a].book
           os == Displayed(SymbolOf[a])
<1>1. Consistent(b) /\ Consistent(c)
  BY DEF BooksConsistent
<1>2. Holds(b, os) /\ o \in os
  BY RestsInBook
<1>3. Holds(c, (os \ {o}) \cup Rest(o, q))
  <2>1. Departs(o, Rest(o, q))
    BY FillDeparts
  <2>2. QED BY <2>1 DEF Departs
<1>4. /\ o.side \in Sides /\ o.price \in Prices /\ o.quantity \in Word
      /\ q \in Nat \ {0} /\ q <= o.quantity
  BY IsResting, QuantitiesAreWords DEF Fill
<1>5. \A x \in Rest(o, q) : /\ x.id = o.id /\ x.side = o.side /\ x.price = o.price
                            /\ x.quantity = o.quantity - q
  BY DEF Rest, RestingOrders, IInv, ExchangeOK
<1>6. IF q = o.quantity THEN Rest(o, q) = {} ELSE \E x : Rest(o, q) = {x}
  BY DEF Rest
<1> HIDE DEF b, c, os
<1>7. Shrinks(b, c, o.side, o.price)
  BY <1>1, <1>2, <1>3, <1>4, <1>5, <1>6, HeldShrinks
<1>8. QED BY <1>7 DEF b, c

(* A tick of a fill whose top is not the one remembered prints a line with *)
(* the trade, and the sweep if the event tells of one.                     *)
LEMMA FillTicks ==
  ASSUME NEW t \in Sessions, NEW b \in Books, NEW ev,
         ev.mask \in SUBSET {"trade", "update", "sweep"}, "trade" \in ev.mask,
         ev.trade.price \in Prices, ev.trade.quantity \in Nat,
         TwoSided(TopOf(b)), TopOf(b) # t.top
  PROVE  LET line == tick(t, b, ev).printed
         IN  "trade" \in line /\ ("sweep" \in line <=> "sweep" \in ev.mask)
<1> DEFINE v == IF "update" \in ev.mask THEN process_ob_event(t, b) ELSE t
           u == Counted(t, b, ev)
<1>1. ~IsSession(ev)
  BY DEF IsSession
<1>2. v \in Sessions /\ v.top = t.top
  BY QuoteCounted
<1>3. u = process_trade_event(v, ev.trade)
  BY DEF Counted
<1> HIDE DEF v
<1>4. u.top = t.top
  BY <1>2, <1>3, TradeCounted
<1>5. tick(t, b, ev).printed = Line(u, b, ev)
  BY <1>1 DEF tick
<1> HIDE DEF u
<1>6. Line(u, b, ev) = {"line"} \cup (ev.mask \cap {"update", "trade", "sweep"})
  BY <1>4 DEF Line, HasObChanged
<1>7. QED BY <1>5, <1>6

LEMMA FillPrinted ==
  ASSUME Plain, OwnKeys, IInv, Follows, BooksConsistent, IInv', Follows', BooksConsistent',
         TInv, TrackerNext, NEW o \in resting, NEW q \in Quantities, Fill(o, q),
         NEW a \in Agents, SymbolOf[a] = KeyFor(o), Alone(a),
         BestOf(agents[a].book, o.side) = o.price, TwoSided(TopOf(agents'[a].book))
  PROVE  LET line == printed'[TrackerOf[a]]
         IN  /\ "trade" \in line
             /\ "sweep" \in line <=> BestOf(agents'[a].book, o.side) # o.price
<1> DEFINE b == agents[a].book
           c == agents'[a].book
           t == TrackerOf[a]
<1>1. Consistent(b) /\ Consistent(c) /\ o.side \in Sides /\ o.price \in Prices
  BY IsResting DEF BooksConsistent
<1>2. Shrinks(b, c, o.side, o.price)
  BY FillShrinks
<1>3. /\ TwoSided(TopOf(b)) /\ TopOf(c) # TopOf(b)
      /\ BestOf(c, o.side) # o.price <=> SizeAt(c, o.side, o.price) = 0
  <2> HIDE DEF b, c
  <2>1. BestOf(b, o.side) = o.price /\ TwoSided(TopOf(c))
    BY DEF b, c
  <2>2. QED BY <1>1, <1>2, <2>1, TopShrinks
<1>4. ts[t].top = TopOf(b) /\ ts[t] \in Sessions /\ t \in Trackers
  BY <1>3, TrackerAssumption DEF TInv, PrintedTopIsCurrent, RecordsOK
<1>5. KeyFor(o) \in Registered
  BY DEF Registered
<1>6. ReportsFill(o, q)
  BY <1>5, FillReported DEF KeyFor
<1>7. Depth(KeyFor(o), o.side, o.price)' = SizeAt(c, o.side, o.price)
  <2>1. Holds(c, Displayed(SymbolOf[a])')
    BY DEF Follows, BookHolds
  <2>2. Depth(SymbolOf[a], o.side, o.price)' =
          Total(AtPrice(Displayed(SymbolOf[a])', o.side, o.price))
    BY DEF Depth, AtPrice
  <2>3. KeyFor(o)' = SymbolOf[a]
    BY DEF Fill, KeyFor
  <2> HIDE DEF c
  <2>4. QED BY <1>1, <2>1, <2>2, <2>3, HeldDepth
<1>8. /\ event'.mask = {"trade", "update"} \cup
                         (IF SizeAt(c, o.side, o.price) = 0 THEN {"sweep"} ELSE {})
      /\ event'.symbol = SymbolOf[a]
      /\ event'.trade.price = o.price /\ event'.trade.quantity = q
  BY <1>6, <1>7 DEF ReportsFill, KeyFor, Fill
<1>9. TicksFor(t, a)
  <2>1. Ticks /\ SymbolOf[a] \in Symbols
    BY FeedAssumption, TrackerStep
  <2>2. event' # NoEvent
    <3>1. "trade" \in event'.mask
      BY <1>8
    <3>2. NoEvent.mask = {}
      BY DEF NoEvent
    <3>3. QED BY <3>1, <3>2
  <2>3. Heard(t, event') = {a}
    BY <1>8, <2>1, <2>2, OneHeard
  <2>4. QED BY <1>4, <2>1, <2>3, TickIs
<1>10. printed'[t] = tick(ts[t], c, event').printed
  BY <1>9 DEF TicksFor
<1>11. /\ c \in Books /\ q \in Nat
       /\ event'.mask \in SUBSET {"trade", "update", "sweep"} /\ "trade" \in event'.mask
       /\ "sweep" \in event'.mask <=> SizeAt(c, o.side, o.price) = 0
  BY <1>1, <1>8, QuantitiesAreWords DEF Consistent, Sound
<1> HIDE DEF b, c, t
<1>12. /\ "trade" \in printed'[t]
       /\ "sweep" \in printed'[t] <=> "sweep" \in event'.mask
  <2>1. TwoSided(TopOf(c)) /\ TopOf(c) # ts[t].top
    BY <1>3, <1>4 DEF c
  <2>2. event'.trade.price \in Prices /\ event'.trade.quantity \in Nat
    BY <1>1, <1>8, <1>11
  <2>3. QED BY <1>4, <1>10, <1>11, <2>1, <2>2, FillTicks
<1>13. QED BY <1>3, <1>11, <1>12 DEF c, t

(* Every fill at the top of a book shows in the output of its tracker,     *)
(* with the sweep if the best price changed, in plain sessions, as long as *)
(* the depth fits the size of a level.                                     *)
THEOREM FillsPrintedCorrect ==
  ASSUME Plain, OwnKeys
  PROVE  TrackerSpec /\ []DepthFits => FillsPrinted
<1>1. /\ IInv /\ Follows /\ BooksConsistent /\ IInv' /\ Follows' /\ BooksConsistent'
      /\ TInv /\ [TrackerNext]_trackerVars
      => [\A o \in resting, q \in Quantities : Fill(o, q) =>
            \A a \in Agents :
              /\ KeyOf[listing[o.book]] = SymbolOf[a] /\ Alone(a)
              /\ BestOf(agents[a].book, o.side) = o.price
              /\ TwoSided(TopOf(agents'[a].book))
              => LET line == printed'[TrackerOf[a]]
                 IN  /\ "trade" \in line
                     /\ "sweep" \in line <=> BestOf(agents'[a].book, o.side) # o.price
         ]_trackerVars
  BY FillPrinted DEF KeyFor
<1>2. TrackerSpec => Spec
  BY TrackersListen
<1>3. QED BY <1>1, <1>2, TrackerInvariance, PlainInvariance, PTL DEF TrackerSpec, FillsPrinted

=============================================================================
