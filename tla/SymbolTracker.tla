---------------------------- MODULE SymbolTracker ----------------------------
(***************************************************************************)
(* The symbol_tracker_algos at the feed.  A tracker owns a book, with an   *)
(* agent, for each of its symbols; it keeps statistics and prints a line   *)
(* when the top of a book differs from the one it printed last.  One       *)
(* trace_session serves all symbols of a tracker.                          *)
(*                                                                         *)
(* A message and the tick of its event are one step: AlgoPipeline shows    *)
(* that the tick sees the book as the message left it.  The prices of a    *)
(* line are doubles, the book's price over a power of ten that does not    *)
(* change while an instrument is listed; here they are the book's prices.  *)
(* is_rth_timestamp always answers true (itch_bist_handler.cc:54-65).      *)
(***************************************************************************)
EXTENDS ItchBistFeed

CONSTANTS
  Trackers,
  TrackerOf,   \* the tracker that owns each agent's book
  MaxQuotes,   \* bound on trace_session::quotes
  MaxTrades    \* bound on trace_session::trades

ASSUME TrackerAssumption ==
  /\ TrackerOf \in [Agents -> Trackers]
  /\ \A a, b \in Agents :
       a # b /\ TrackerOf[a] = TrackerOf[b] => SymbolOf[a] # SymbolOf[b]
  /\ "" \notin Symbols                      \* only a session event has no symbol
  /\ IsFiniteSet(Ids) /\ Prices \subseteq Word   \* both are uint64_t
  /\ MaxQuotes \in Nat /\ MaxTrades \in Nat

VARIABLES
  ts,       \* for each tracker: trace_session, its top of book as a record
  printed   \* for each tracker: the parts of what the last step printed

trackerVars == <<vars, ts, printed>>

(* INFINITY and -INFINITY: beyond every price.                             *)
Infinity == Modulus
MinusInfinity == 0 - 1

NewSession ==
  [top |-> [bid |-> [price |-> 0, size |-> 0],
            ask |-> [price |-> Infinity, size |-> 0]],
   max_price_levels |-> 0, max_order_count |-> 0, quotes |-> 0, trades |-> 0,
   volume_shs |-> 0, volume_ccy |-> 0, high |-> MinusInfinity, low |-> Infinity]

TrackerInit ==
  /\ Init
  /\ ts = [t \in Trackers |-> NewSession]
  /\ printed = [t \in Trackers |-> {}]

-----------------------------------------------------------------------------
(* The operators named Bug... have a mistake that the checks must notice:  *)
(* here, only bids are counted.                                            *)
BugProcessObEvent(t, b) ==
  [t EXCEPT !.max_price_levels = Max({@, LevelCount(b, "buy")}),
            !.max_order_count  = Max({@, OrderCount(b)}),
            !.quotes = @ + 1]

process_ob_event(t, b) ==
  [t EXCEPT !.max_price_levels = Max({@, LevelCount(b, "buy"), LevelCount(b, "sell")}),
            !.max_order_count  = Max({@, OrderCount(b)}),
            !.quotes = @ + 1]

process_trade_event(t, trade) ==
  [t EXCEPT !.volume_shs = @ + trade.quantity,
            !.volume_ccy = @ + trade.quantity * trade.price,
            !.high = Max({@, trade.price}),
            !.low  = Min({@, trade.price}),
            !.trades = @ + 1]

TopOf(b) == [bid |-> LevelAt(b, "buy", 0), ask |-> LevelAt(b, "sell", 0)]

TwoSided(top) == top.bid.price # 0 /\ top.ask.size # 0

(* Only the prices are compared.                                           *)
BugHasObChanged(t, top) ==
  top.bid.price # t.top.bid.price \/ top.ask.price # t.top.ask.price

HasObChanged(t, top) == top # t.top

(* The parts of the line that fmt_event prints, if it prints one.          *)
Line(t, b, ev) ==
  IF TwoSided(TopOf(b)) /\ HasObChanged(t, TopOf(b))
  THEN {"line"} \cup (ev.mask \cap {"update", "trade", "sweep"})
  ELSE {}

(* tick: the statistics, then the line, and what is remembered of it.      *)
Counted(t, b, ev) ==
  LET u == IF "update" \in ev.mask THEN process_ob_event(t, b) ELSE t
  IN  IF "trade" \in ev.mask THEN process_trade_event(u, ev.trade) ELSE u

IsSession(ev) == ev.mask \cap {"opened", "closed"} # {}

(* A footer when the session begins, too.                                  *)
BugFooter(ev) == ev.mask \cap {"opened", "closed"}

fmt_footer(ev) == ev.mask \cap {"closed"}

tick(t, b, ev) ==
  IF IsSession(ev) THEN [ts |-> t, printed |-> fmt_footer(ev)]
  ELSE LET u == Counted(t, b, ev)
           line == Line(u, b, ev)
       IN  [ts |-> IF "update" \in line THEN [u EXCEPT !.top = TopOf(b)] ELSE u,
            printed |-> line]

(* register_event: an event goes to the callbacks of its symbol, one       *)
(* without a symbol to all.                                                *)
Hears(a, ev) == ev # NoEvent /\ ev.symbol \in {SymbolOf[a], ""}

(* The books of tracker t that event ev makes it tick for.  There is one   *)
(* at most, but for a session event, whose tick reads none.                *)
Heard(t, ev) == {a \in Agents : TrackerOf[a] = t /\ Hears(a, ev)}

Ticks ==
  \E ev \in {event'} :
    \E after \in {[t \in Trackers |->
                     IF Heard(t, ev) = {} THEN [ts |-> ts[t], printed |-> {}]
                     ELSE LET a == CHOOSE a \in Heard(t, ev) : TRUE
                          IN  tick(ts[t], agents'[a].book, ev)]} :
      /\ ts' = [t \in Trackers |-> after[t].ts]
      /\ printed' = [t \in Trackers |-> after[t].printed]

(* At a fault the program ends.                                            *)
TrackerNext ==
  /\ fault = "none"
  /\ Message
  /\ Ticks
  /\ \A t \in Trackers : ts'[t].quotes <= MaxQuotes /\ ts'[t].trades <= MaxTrades

TrackerSpec == TrackerInit /\ [][TrackerNext]_trackerVars

-----------------------------------------------------------------------------
TrackerTypeOK ==
  LET Tops == [price : Nat, size : Nat]
  IN  /\ ts \in [Trackers ->
                   [top : [bid : Tops, ask : Tops], max_price_levels : Nat,
                    max_order_count : Nat, quotes : 0 .. MaxQuotes,
                    trades : 0 .. MaxTrades, volume_shs : Nat, volume_ccy : Nat,
                    high : Prices \cup {MinusInfinity}, low : Prices \cup {Infinity}]]
      /\ printed \in [Trackers -> SUBSET {"line", "update", "trade", "sweep", "closed"}]

(* Whether a is the only agent of its tracker.                             *)
Alone(a) == \A b \in Agents : TrackerOf[b] = TrackerOf[a] => b = a

(* The reader of the output is never behind.  As long as the book of a     *)
(* tracker's only symbol has both sides, the last top printed is its top;  *)
(* a change the handler did not announce, or that tick took for none,      *)
(* would leave an old one (symbol_tracker_algo.cpp:157-196).               *)
PrintedTopIsCurrent ==
  \A a \in Agents :
    Alone(a) /\ TwoSided(TopOf(agents[a].book)) =>
      ts[TrackerOf[a]].top = TopOf(agents[a].book)

(* No change of a book escapes a tracker of several symbols either: when a *)
(* book with both sides has another top than before, its top is the last   *)
(* one printed.  The symbols share that record; an equal top of another    *)
(* symbol may stand there (symbol_tracker_algo.cpp:12-16, 169-192).        *)
ChangedTopIsPrinted ==
  [][\A a \in Agents :
       TopOf(agents'[a].book) \in {TopOf(agents[a].book), ts'[TrackerOf[a]].top}
         \/ ~TwoSided(TopOf(agents'[a].book))]_trackerVars

BestOf(b, side) == LevelAt(b, side, 0).price

(* No fill at the top of a two-sided book is missing from the output of    *)
(* the tracker of that symbol alone: the line is printed because the top   *)
(* changed, and it shows the trade, with a sweep exactly if the best price *)
(* changed (symbol_tracker_algo.cpp:169, 197-218,                          *)
(* itch_bist_handler.cc:257-275).                                          *)
FillsPrinted ==
  [][\A o \in resting, q \in Quantities : Fill(o, q) =>
       \A a \in Agents :
         /\ KeyOf[listing[o.book]] = SymbolOf[a] /\ Alone(a)
         /\ BestOf(agents[a].book, o.side) = o.price
         /\ TwoSided(TopOf(agents'[a].book))
         => LET line == printed'[TrackerOf[a]]
            IN  /\ "trade" \in line
                /\ "sweep" \in line <=> BestOf(agents'[a].book, o.side) # o.price
    ]_trackerVars

(* The peaks are those of the books' whole history: no book ever has more  *)
(* levels on a side, or more orders, than the statistics say, as every     *)
(* change of it is ticked before the next                                  *)
(* (symbol_tracker_algo.cpp:226-236).                                      *)
PeaksCoverBook ==
  \A a \in Agents :
    LET b    == agents[a].book
        peak == ts[TrackerOf[a]]
    IN  /\ LevelCount(b, "buy") <= peak.max_price_levels
        /\ LevelCount(b, "sell") <= peak.max_price_levels
        /\ OrderCount(b) <= peak.max_order_count

=============================================================================
