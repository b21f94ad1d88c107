--------------------------- MODULE ItchBistHandler ---------------------------
(***************************************************************************)
(* nasdaq::itch_bist_handler: one action per process_msg overload.         *)
(*                                                                         *)
(* The handler finds the symbol of a message's OrderBookID, applies the    *)
(* message to the book of every agent registered for that symbol, in the   *)
(* order of their registration, and raises an event.  An exception leaves  *)
(* process_packet and ends the program, which catches none: fault holds    *)
(* what was thrown.                                                        *)
(*                                                                         *)
(* A book operation is applied at once here.  AlgoPipeline is about when   *)
(* the agents' threads apply it.                                           *)
(***************************************************************************)
EXTENDS OrderBookOps, FiniteSetsExt

CONSTANTS
  OrderBookIds,    \* values of OrderBookID
  Symbols,         \* values of the first ITCH_SYMBOL_LEN characters of Symbol
  Agents,          \* the order_book_agents, numbered in order of registration
  SymbolOf,        \* the symbol each agent is registered for
  NanosPerSecond,  \* 10^9 in the program
  Tails            \* what may stand in memory between the end of a StateName
                   \* and the next zero byte

(* A field padded with zero bytes ends by itself.                          *)
ASSUME TailsAssumption == "" \in Tails

VARIABLES
  order_book_id_sym_map,
  agents,      \* the members of each agent's order_book
  time_secs,
  event,       \* the event raised for the last message, if any
  fault        \* the exception that ended the program, if any

handlerVars == <<order_book_id_sym_map, agents, time_secs, event, fault>>

(* The operators named Bug... have a mistake that the checks must notice:  *)
(* here, every agent gets every message.                                   *)
BugAgentsOf(k) == Agents

Registered   == {SymbolOf[a] : a \in Agents}
AgentsOf(k)  == {a \in Agents : SymbolOf[a] = k}
Routed(id)   == id \in DOMAIN order_book_id_sym_map
SymbolFor(id) == order_book_id_sym_map[id]
Served(id)   == AgentsOf(SymbolFor(id))

(* Seconds taken for nanoseconds.                                          *)
BugTimestamp(ns) == time_secs + ns

(* itch_bist_timestamp.                                                    *)
Timestamp(ns) == time_secs * NanosPerSecond + ns

NoTrade == [price |-> 0, quantity |-> 0, sign |-> "non_displayable"]
NoEvent == [mask |-> {}, symbol |-> "", timestamp |-> 0, trade |-> NoTrade]

(* A state name as an agent keeps it: the field, and what was read on      *)
(* after it.                                                               *)
StateText(name, tail) == [field |-> name, beyond |-> tail]

HandlerInit ==
  /\ order_book_id_sym_map = [id \in {} |-> ""]
  /\ agents = [a \in Agents |-> [book |-> EmptyBook, state_name |-> StateText("", ""),
                                 timestamp |-> 0, decimals |-> 0]]
  /\ time_secs = 0
  /\ event = NoEvent
  /\ fault = "none"

-----------------------------------------------------------------------------
(* How the handling of a message ends.                                     *)

Silent == event' = NoEvent /\ UNCHANGED fault

Raise(mask, symbol, timestamp, trade) ==
  /\ event' = [mask |-> mask, symbol |-> symbol,
               timestamp |-> timestamp, trade |-> trade]
  /\ UNCHANGED fault

Throw(what) == fault' = what /\ event' = NoEvent

KeepMaps == UNCHANGED <<order_book_id_sym_map, time_secs>>

(* A message for no registered symbol, and the types that are not handled. *)
Ignored == Silent /\ KeepMaps /\ UNCHANGED agents

(* A type process_packet does not know.                                    *)
UnknownType ==
  Throw("unknown_message_type") /\ KeepMaps /\ UNCHANGED agents

(* possible[a] is the set of what an operation on the book of agent a may  *)
(* come to: one of them for each agent.                                    *)
Outcomes(possible) ==
  {c \in [DOMAIN possible -> UNION {possible[a] : a \in DOMAIN possible}] :
     \A a \in DOMAIN possible : c[a] \in possible[a]}

(* Only the agent that was registered first is updated.                    *)
BugFirstAgentOnly(k, books, timestamp) ==
  [a \in Agents |->
     IF a \in AgentsOf(k) /\ a = Min(AgentsOf(k))
     THEN [agents[a] EXCEPT !.book = books[a], !.timestamp = timestamp]
     ELSE agents[a]]

(* The agents of symbol k with these books, at this time.                  *)
WithBooks(k, books, timestamp) ==
  [a \in Agents |->
     IF a \in AgentsOf(k)
     THEN [agents[a] EXCEPT !.book = books[a], !.timestamp = timestamp]
     ELSE agents[a]]

-----------------------------------------------------------------------------
(* 'T'                                                                     *)
Seconds(t) ==
  /\ time_secs' = t
  /\ Silent /\ UNCHANGED <<order_book_id_sym_map, agents>>

(* Every order book is routed, registered or not.                          *)
BugRouteAll(id, symbol, decimals, ns) ==
  /\ order_book_id_sym_map' = Put(order_book_id_sym_map, id, symbol)
  /\ agents' = [a \in Agents |->
       IF SymbolOf[a] = symbol
       THEN [agents[a] EXCEPT !.timestamp = Timestamp(ns), !.decimals = decimals]
       ELSE agents[a]]
  /\ Silent /\ UNCHANGED time_secs

(* 'R'.  unordered_map::insert leaves an id that is in the map as it is.   *)
Directory(id, symbol, decimals, ns) ==
  /\ order_book_id_sym_map' =
       IF symbol \in Registered /\ ~Routed(id)
       THEN Put(order_book_id_sym_map, id, symbol) ELSE order_book_id_sym_map
  /\ agents' = [a \in Agents |->
       IF SymbolOf[a] = symbol
       THEN [agents[a] EXCEPT !.timestamp = Timestamp(ns), !.decimals = decimals]
       ELSE agents[a]]
  /\ Silent /\ UNCHANGED time_secs

(* The event code where the symbol should be.                              *)
BugSystem(code, ns) ==
  /\ Raise({IF code = "O" THEN "opened" ELSE "closed"}, code, Timestamp(ns), NoTrade)
  /\ KeepMaps /\ UNCHANGED agents

(* 'S'.  The event has no symbol.                                          *)
System(code, ns) ==
  /\ Raise({IF code = "O" THEN "opened" ELSE "closed"}, "", Timestamp(ns), NoTrade)
  /\ KeepMaps /\ UNCHANGED agents

(* The state of one order book given to all.                               *)
BugState(id, name) ==
  /\ \E tail \in Tails :
       agents' = [a \in Agents |-> [agents[a] EXCEPT !.state_name = StateText(name, tail)]]
  /\ Silent /\ KeepMaps

(* 'O'.  The string is made of a field of 20 characters that no zero byte  *)
(* need end: whatever follows it in memory is read too, up to a zero byte, *)
(* for every agent the same.                                               *)
State(id, name) ==
  /\ \E tail \in Tails :
       agents' = [a \in Agents |->
         IF Routed(id) /\ SymbolOf[a] = SymbolFor(id)
         THEN [agents[a] EXCEPT !.state_name = StateText(name, tail)] ELSE agents[a]]
  /\ Silent /\ KeepMaps

(* The event has no flag.                                                  *)
BugUpdate(id, ns, possible) ==
  LET k == SymbolFor(id)
  IN  \E books \in Outcomes(possible) :
        /\ agents' = WithBooks(k, books, Timestamp(ns))
        /\ Raise({}, k, Timestamp(ns), NoTrade)
        /\ KeepMaps

(* What 'A', 'F', 'U' and 'D' do to the agents of a symbol, and the event. *)
Update(id, ns, possible) ==
  LET k == SymbolFor(id)
  IN  \E books \in Outcomes(possible) :
        /\ agents' = WithBooks(k, books, Timestamp(ns))
        /\ Raise({"update"}, k, Timestamp(ns), NoTrade)
        /\ KeepMaps

(* 'A' and 'F'.  A side that is neither B nor S is NoSide here.            *)
AddMsg(id, i, side, price, quantity, ns) ==
  \/ ~Routed(id) /\ Ignored
  \/ /\ Routed(id) /\ side \in Sides
     /\ Update(id, ns, [a \in Served(id) |->
                       {AddOrder(agents[a].book, i, side, price, quantity)}])
  \/ /\ Routed(id) /\ side \notin Sides
     /\ Throw("invalid side") /\ KeepMaps /\ UNCHANGED agents

(* The sign of the resting order's side.                                   *)
BugTradeSign(side) ==
  IF side = "buy" THEN "buyer_initiated" ELSE "seller_initiated"

itch_bist_trade_sign(side) ==
  IF side = "buy" THEN "seller_initiated" ELSE "buyer_initiated"

sweep_event(result) == IF result.remaining > 0 THEN {} ELSE {"sweep"}

(* What 'P', and 'C' at a cross, come down to.                             *)
ReportTrade(id, price, quantity, sign, ns) ==
  /\ Raise({"trade"}, SymbolFor(id), Timestamp(ns),
           [price |-> price, quantity |-> quantity, sign |-> sign])
  /\ KeepMaps /\ UNCHANGED agents

(* The price of a trade: what the message says, the order's if it says     *)
(* none.                                                                   *)
TradePrice(prices, result) ==
  IF prices = {} THEN result.price ELSE CHOOSE p \in prices : TRUE

(* An execution is only announced as a trade.                              *)
BugExecuteAll(id, i, quantity, ns, prices) ==
  LET k == SymbolFor(id)
  IN  \E r \in Outcomes([a \in Served(id) |->
                            ExecuteOrder(agents[a].book, i, quantity)]) :
        LET result == r[Max(AgentsOf(k))].execution
        IN  /\ agents' = WithBooks(k, [a \in AgentsOf(k) |-> r[a].book], Timestamp(ns))
            /\ KeepMaps
            /\ Raise({"trade"} \cup sweep_event(result), k, Timestamp(ns),
                     [price |-> TradePrice(prices, result), quantity |-> quantity,
                      sign |-> itch_bist_trade_sign(result.side)])

(* The execution of 'E' and 'C'.  The event reports the result of the      *)
(* agent registered last; the sign of an invalid result is an exception.   *)
ExecuteAll(id, i, quantity, ns, prices) ==
  LET k == SymbolFor(id)
  IN  \E r \in Outcomes([a \in Served(id) |->
                            ExecuteOrder(agents[a].book, i, quantity)]) :
        LET result == r[Max(AgentsOf(k))].execution
        IN  /\ agents' = WithBooks(k, [a \in AgentsOf(k) |-> r[a].book], Timestamp(ns))
            /\ KeepMaps
            /\ IF result.side = NoSide
               THEN Throw("invalid trade sign")
               ELSE Raise({"trade", "update"} \cup sweep_event(result), k, Timestamp(ns),
                          [price |-> TradePrice(prices, result), quantity |-> quantity,
                           sign |-> itch_bist_trade_sign(result.side)])

(* 'E'.  The message's side is not read.                                   *)
ExecutedMsg(id, i, quantity, ns) ==
  \/ ~Routed(id) /\ Ignored
  \/ Routed(id) /\ ExecuteAll(id, i, quantity, ns, {})

(* 'C'.  An execution at a cross is reported and leaves the books alone.   *)
ExecutedWithPriceMsg(id, i, quantity, price, cross, ns) ==
  \/ ~Routed(id) /\ Ignored
  \/ Routed(id) /\ ~cross /\ ExecuteAll(id, i, quantity, ns, {price})
  \/ Routed(id) /\ cross /\ ReportTrade(id, price, quantity, "crossing", ns)

(* 'U'.  The new order's id is NewOrderBookPosition, its side the one of   *)
(* the old order; if there is no old order, adding the new one throws.     *)
ReplaceMsg(id, i, position, price, quantity, ns) ==
  LET SomeUnknown == \E a \in Served(id) : ~HasOrder(agents[a].book, i)
  IN  \/ ~Routed(id) /\ Ignored
      \/ /\ Routed(id) /\ ~SomeUnknown
         /\ Update(id, ns, [a \in Served(id) |->
                LET b == agents[a].book
                IN  ReplaceOrder(b, i, position, SideOf(b, i), price, quantity)])
      \/ /\ Routed(id) /\ SomeUnknown
         /\ Throw("invalid side") /\ KeepMaps /\ UNCHANGED agents

(* 'D'                                                                     *)
DeleteMsg(id, i, ns) ==
  \/ ~Routed(id) /\ Ignored
  \/ Routed(id) /\ Update(id, ns, [a \in Served(id) |-> RemoveOrder(agents[a].book, i)])

(* 'P'                                                                     *)
TradeMsg(id, price, quantity, ns) ==
  \/ ~Routed(id) /\ Ignored
  \/ Routed(id) /\ ReportTrade(id, price, quantity, "non_displayable", ns)

=============================================================================
