---------------------------- MODULE AlgoPipeline ----------------------------
(***************************************************************************)
(* The threads: T0, which runs main and in it itch_bist_handler, and the   *)
(* one thread of the pool of each algorithm (algo_base::_pool).            *)
(*                                                                         *)
(* T0 never touches a book.  Through an order_book_agent it puts every     *)
(* operation on the queue of the pool of the book's owner, and waits for   *)
(* the result of those that have one (execute, the queries); by callbacks  *)
(* that register_event keeps, it puts a tick for each event on the queues  *)
(* of the algorithms that registered for the event's symbol.  Built with   *)
(* _DEBUG, the agents drop the pool, and T0 does the operations itself.    *)
(* Between two packets T0 may also query a book through its agent.         *)
(*                                                                         *)
(* What a message does to a book is in ItchBistHandler.  Here a book is    *)
(* the number of the last message applied to it and that of the last one   *)
(* whose time stamp it has.                                                *)
(***************************************************************************)
EXTENDS Naturals, Sequences, FiniteSets

CONSTANTS
  Algos,        \* 1 .. n, in the order of creation
  Symbols,
  SymbolsOf,    \* the symbols each algorithm registers for
  MaxMessages,  \* bound on the length of the recording
  MaxQueries,   \* bound on the queries between packets
  Builds,       \* the builds considered: TRUE is one with _DEBUG defined
  MayStop       \* TRUE if algo_base::stop and start are used

VARIABLES
  debug,     \* TRUE if _DEBUG is defined; never changes
  phase,     \* what main is doing: "reading", "spinning" at the end of the
             \* session, or "deleting" the algorithms
  received,  \* the number of messages handled or being handled
  asked,     \* the number of queries made between packets
  latest,    \* for each symbol, the last message that changed its books
  todo,      \* the calls that T0 has still to make for the message at hand
  awaiting,  \* the algorithm whose pool T0 waits for in future::get, or 0
  book,
  queue,     \* the tasks of each pool
  running,   \* the ticks that the thread of each pool is in
  pool,      \* "open", "joined" or "destroyed"
  working,   \* algo_base::_working
  raised,    \* the messages of the events whose ticks were put on each queue
  ticked     \* the messages at which the ticks done by each algorithm saw the book

vars == <<debug, phase, received, asked, latest, todo, awaiting, book, queue, running,
          pool, working, raised, ticked>>
mainVars == <<debug, phase, received, asked, latest, todo>>
poolVars == <<book, queue, running, raised, ticked>>

ASSUME PipelineAssumption ==
  /\ IsFiniteSet(Algos) /\ Algos = 1 .. Cardinality(Algos)
  /\ SymbolsOf \in [Algos -> SUBSET Symbols]
  /\ MaxMessages \in Nat /\ MaxQueries \in Nat /\ Builds \subseteq BOOLEAN /\ MayStop \in BOOLEAN

(* The messages by what T0 does for them: 'A', 'F' and 'D'; 'E' and 'C';   *)
(* 'U'; 'R' and 'O'; 'P' and 'C' at a cross; 'S'.                          *)
Kinds == {"update", "execute", "replace", "info", "trade", "session"}

(* The operators named Bug... have a mistake that the checks must notice:  *)
(* here, a second thread.                                                  *)
BugPoolSize == 2

(* thread_pool _pool{ 1 }                                                  *)
PoolSize == 1

Init ==
  /\ debug \in Builds
  /\ phase = "reading"
  /\ received = 0 /\ asked = 0
  /\ latest = [s \in Symbols |-> 0]
  /\ todo = {}
  /\ awaiting = 0
  /\ book = [a \in Algos |-> [s \in SymbolsOf[a] |-> [version |-> 0, timestamp |-> 0]]]
  /\ queue = [a \in Algos |-> <<>>]
  /\ running = [a \in Algos |-> <<>>]
  /\ pool = [a \in Algos |-> "open"]
  /\ working = [a \in Algos |-> TRUE]
  /\ raised = [a \in Algos |-> <<>>]
  /\ ticked = [a \in Algos |-> <<>>]

-----------------------------------------------------------------------------
(* T0.                                                                     *)

(* Everybody, whatever the symbol.                                         *)
BugRegistered(s) == Algos

(* The algorithms that have an agent for a symbol, and a callback.         *)
Registered(s) == {a \in Algos : s \in SymbolsOf[a]}

Task(kind, s, n, sync) == [kind |-> kind, symbol |-> s, message |-> n, sync |-> sync]

(* The operations a handler calls on one agent for message n.              *)
Operations(kind, s, n) ==
  CASE kind = "update"  -> <<Task("apply", s, n, FALSE), Task("stamp", s, n, FALSE)>>
    [] kind = "execute" -> <<Task("apply", s, n, TRUE), Task("stamp", s, n, FALSE)>>
    [] kind = "replace" -> <<Task("query", s, n, TRUE), Task("apply", s, n, FALSE),
                             Task("stamp", s, n, FALSE)>>
    [] kind = "info"    -> <<Task("apply", s, n, FALSE)>>
    [] OTHER            -> <<>>

ChangesBook(kind) == kind \in {"update", "execute", "replace", "info"}

(* Calls are made by stages, in a stage in the order of registration, to   *)
(* each algorithm the tasks in their order.                                *)
ToEach(stage, algos, tasks) ==
  {[stage |-> stage, algo |-> a, no |-> i, task |-> tasks[i]] :
     a \in algos, i \in DOMAIN tasks}

Earlier(c, d) ==
  \/ c.stage < d.stage
  \/ c.stage = d.stage /\ c.algo < d.algo
  \/ c.stage = d.stage /\ c.algo = d.algo /\ c.no < d.no

(* The event is raised before the books are changed.                       *)
BugCalls(kind, s, n) ==
  ToEach(1, Registered(s), <<Task("tick", s, n, FALSE)>>)
    \cup ToEach(2, Registered(s), Operations(kind, s, n))

(* All the calls for a message: every agent's operations, then a tick for  *)
(* every callback.  A tick carries the number of the message that its      *)
(* event was raised for, or of the last one that changed the books.        *)
Calls(kind, s, n) ==
  CASE kind = "session" ->
         UNION {ToEach(2, {a}, [i \in 1 .. Cardinality(SymbolsOf[a]) |->
                                  Task("session", s, 0, FALSE)]) : a \in Algos}
    [] kind = "info"    -> ToEach(1, Registered(s), Operations(kind, s, n))
    [] OTHER            -> ToEach(1, Registered(s), Operations(kind, s, n))
                             \cup ToEach(2, Registered(s), <<Task("tick", s, n, FALSE)>>)

AtRest == phase = "reading" /\ todo = {} /\ awaiting = 0

(* process_packet is given the next message.                               *)
Receive(kind, s) ==
  /\ AtRest
  /\ received < MaxMessages
  /\ received' = received + 1
  /\ latest' = IF ChangesBook(kind) THEN [latest EXCEPT ![s] = received'] ELSE latest
  /\ todo' = Calls(kind, s, latest'[s])
  /\ UNCHANGED <<debug, phase, asked, awaiting, pool, working, poolVars>>

(* The queries by level and of counts, as the symbol, the time, the state  *)
(* and the side, are posted and waited for alike.  (decimals_for_price and *)
(* max_orders read the book where they are called.)                        *)
QueryCalls(a, s) == ToEach(1, {a}, <<Task("query", s, latest[s], TRUE)>>)

Query(a, s) ==
  /\ AtRest
  /\ asked < MaxQueries
  /\ asked' = asked + 1
  /\ todo' = QueryCalls(a, s)
  /\ UNCHANGED <<debug, phase, received, latest, awaiting, pool, working, poolVars>>

(* What a task does to the book.                                           *)
Done(b, task) ==
  CASE task.kind = "apply" -> [b EXCEPT ![task.symbol].version = task.message]
    [] task.kind = "stamp" -> [b EXCEPT ![task.symbol].timestamp = task.message]
    [] OTHER               -> b

IsTick(task) == task.kind \in {"tick", "session"}

(* A task is put at the head of the queue.                                 *)
BugPost(c) ==
  /\ queue' = [queue EXCEPT ![c.algo] = <<c.task>> \o @]
  /\ raised' = IF IsTick(c.task) THEN [raised EXCEPT ![c.algo] = Append(@, c.task.message)]
               ELSE raised
  /\ awaiting' = IF c.task.sync THEN c.algo ELSE 0
  /\ UNCHANGED <<book, running, ticked>>

(* dispatch() of a task to the pool of an algorithm, by a thread that is   *)
(* not of that pool, followed by future::get() if there is a result.       *)
Post(c) ==
  /\ queue' = [queue EXCEPT ![c.algo] = Append(@, c.task)]
  /\ raised' = IF IsTick(c.task) THEN [raised EXCEPT ![c.algo] = Append(@, c.task.message)]
               ELSE raised
  /\ awaiting' = IF c.task.sync THEN c.algo ELSE 0
  /\ UNCHANGED <<book, running, ticked>>

(* The same operation by an agent that has no pool.                        *)
DoInline(c) ==
  /\ book' = [book EXCEPT ![c.algo] = Done(@, c.task)]
  /\ UNCHANGED <<queue, raised, awaiting, running, ticked>>

Call ==
  /\ awaiting = 0
  /\ \E c \in todo :
       /\ \A d \in todo \ {c} : Earlier(c, d)
       /\ todo' = todo \ {c}
       /\ \/ (debug => IsTick(c.task)) /\ Post(c)
          \/ debug /\ ~IsTick(c.task) /\ DoInline(c)
  /\ UNCHANGED <<debug, phase, received, asked, latest, pool, working>>

(* The pool is not joined.                                                 *)
BugJoinable(a) == TRUE

(* A pool that was joined by stop is waited for once more, for ever.       *)
BugJoinedOnce(a) ==
  pool[a] = "open" /\ queue[a] = <<>> /\ running[a] = <<>>

(* thread_pool::join returns when every task is done; a pool that was      *)
(* joined has no threads left, and joining it again returns at once.       *)
Joinable(a) ==
  pool[a] = "open" => queue[a] = <<>> /\ running[a] = <<>>

(* The loop over the recording ends when nothing is left of it.            *)
EndOfData ==
  /\ AtRest
  /\ phase' = "deleting"
  /\ UNCHANGED <<debug, received, asked, latest, todo, awaiting, pool, working, poolVars>>

(* At a record that ends the session process_packet returns 0: the loop    *)
(* gives it the same record again, for ever.                               *)
EndOfSession ==
  /\ AtRest
  /\ phase' = "spinning"
  /\ UNCHANGED <<debug, received, asked, latest, todo, awaiting, pool, working, poolVars>>

(* main deletes the algorithms in order; ~symbol_tracker_algo joins.       *)
Delete(a) ==
  /\ phase = "deleting"
  /\ pool[a] # "destroyed" /\ \A b \in 1 .. a - 1 : pool[b] = "destroyed"
  /\ Joinable(a)
  /\ pool' = [pool EXCEPT ![a] = "destroyed"]
  /\ UNCHANGED <<mainVars, awaiting, working, poolVars>>

Stop(a) ==
  /\ MayStop /\ AtRest
  /\ Joinable(a)
  /\ pool' = [pool EXCEPT ![a] = "joined"]
  /\ working' = [working EXCEPT ![a] = FALSE]
  /\ UNCHANGED <<mainVars, awaiting, poolVars>>

Start(a) ==
  /\ MayStop /\ AtRest
  /\ working' = [working EXCEPT ![a] = TRUE]
  /\ UNCHANGED <<mainVars, awaiting, pool, poolVars>>

-----------------------------------------------------------------------------
(* The thread of a pool.                                                   *)

MayRun(a) == pool[a] = "open" /\ queue[a] # <<>> /\ Len(running[a]) < PoolSize

(* An operation of the book.  If T0 waits for its result, it has it.       *)
Apply(a) ==
  /\ MayRun(a)
  /\ ~IsTick(Head(queue[a]))
  /\ book' = [book EXCEPT ![a] = Done(@, Head(queue[a]))]
  /\ queue' = [queue EXCEPT ![a] = Tail(@)]
  /\ awaiting' = IF Head(queue[a]).sync THEN 0 ELSE awaiting
  /\ UNCHANGED <<mainVars, running, pool, working, raised, ticked>>

(* A tick reads the book from its beginning to its end.                    *)
TickBegin(a) ==
  /\ MayRun(a)
  /\ IsTick(Head(queue[a]))
  /\ running' = [running EXCEPT ![a] = Append(@, Head(queue[a]))]
  /\ queue' = [queue EXCEPT ![a] = Tail(@)]
  /\ UNCHANGED <<mainVars, awaiting, book, pool, working, raised, ticked>>

(* The last message of which a tick sees what it did to the book.  That of *)
(* an event of the session does not look at the book.                      *)
Saw(b, tick) == IF tick.kind = "session" THEN tick.message ELSE b[tick.symbol].version

TickEnd(a) ==
  /\ running[a] # <<>>
  /\ running' = [running EXCEPT ![a] = Tail(@)]
  /\ ticked' = [ticked EXCEPT ![a] = Append(@, Saw(book[a], Head(running[a])))]
  /\ UNCHANGED <<mainVars, awaiting, book, queue, pool, working, raised>>

-----------------------------------------------------------------------------
Finished == \A a \in Algos : pool[a] = "destroyed"

Main ==
  \/ \E kind \in Kinds, s \in Symbols : Receive(kind, s)
  \/ \E a \in Algos : \E s \in SymbolsOf[a] : Query(a, s)
  \/ Call
  \/ EndOfData \/ EndOfSession
  \/ \E a \in Algos : Delete(a)

Thread(a) == Apply(a) \/ TickBegin(a) \/ TickEnd(a)

Next ==
  \/ Main
  \/ \E a \in Algos : Thread(a) \/ Stop(a) \/ Start(a)
  \/ Finished /\ UNCHANGED vars

(* The threads are scheduled fairly.  The recording is finite, so that     *)
(* main, if it takes steps, comes to its end, or to a record that ends the *)
(* session.                                                                *)
Spec ==
  /\ Init /\ [][Next]_vars
  /\ WF_vars(Main) /\ \A a \in Algos : WF_vars(Thread(a))

-----------------------------------------------------------------------------
TaskOK(a, task) ==
  /\ task.kind \in {"apply", "stamp", "query", "tick", "session"}
  /\ task.kind # "session" => task.symbol \in SymbolsOf[a]
  /\ task.message \in 0 .. MaxMessages /\ task.sync \in BOOLEAN

TypeOK ==
  /\ debug \in BOOLEAN
  /\ phase \in {"reading", "spinning", "deleting"}
  /\ received \in 0 .. MaxMessages /\ asked \in 0 .. MaxQueries
  /\ latest \in [Symbols -> 0 .. MaxMessages]
  /\ \A c \in todo : c.algo \in Algos /\ TaskOK(c.algo, c.task)
  /\ awaiting \in Algos \cup {0}
  /\ \A a \in Algos :
       /\ book[a] \in [SymbolsOf[a] -> [version : Nat, timestamp : Nat]]
       /\ \A i \in DOMAIN queue[a] : TaskOK(a, queue[a][i])
       /\ \A i \in DOMAIN running[a] : TaskOK(a, running[a][i]) /\ IsTick(running[a][i])
       /\ pool[a] \in {"open", "joined", "destroyed"}
       /\ working[a] \in BOOLEAN
       /\ raised[a] \in Seq(Nat) /\ ticked[a] \in Seq(Nat)
       /\ Len(ticked[a]) <= Len(raised[a])

(* For an algorithm it is as if it ran in T0: its ticks come in the order  *)
(* of its events, one for each, none before its event and none after that  *)
(* of a later event, and each sees the book as the message of its event    *)
(* left it (bist_algo_base.h:26, 78-88, order_book_agent.cpp:26-118).  Of  *)
(* the ticks in a build with _DEBUG nothing is said.                       *)
Loops == INSTANCE EventLoop WITH
  Messages <- 0 .. MaxMessages,
  ticked   <- [a \in Algos |-> IF debug THEN <<>> ELSE ticked[a]]

HandlesEventsInStep == Loops!Spec

(* A book does not change while a tick reads it: there is no data race     *)
(* between the algorithm and whoever writes the book                       *)
(* (order_book_agent.cpp:26-118, bist_algo_base.h:78-88).                  *)
NoWriteDuringTick ==
  [][\A a \in Algos : ~debug /\ running[a] # <<>> => book'[a] = book[a]]_vars

(* "Messages from T0 are put on the event loop of the algorithm's thread   *)
(* and handled in T1" (bist_algo_base.h:26): only the thread of its pool   *)
(* changes a book.                                                         *)
HandledInItsThread ==
  [][\A a \in Algos : book'[a] # book[a] => Apply(a)]_vars

(* When T0 goes on after an execution or a query, the pool has done all    *)
(* that T0 asked it for before: T0 reads what it wrote                     *)
(* (order_book_agent.cpp:105-183, 196-370).                                *)
ResultMeansDone ==
  [][\A a \in Algos : awaiting = a /\ awaiting' # a =>
        /\ queue'[a] = <<>>
        /\ todo = {} => \A s \in SymbolsOf[a] : book'[a][s].version = latest[s]]_vars

(* Every event raised is eventually ticked, unless the algorithm is        *)
(* stopped: its destructor joins before the pool's own would drop the rest *)
(* (bist_algo_base.h:78-88, symbol_tracker_algo.cpp:273-278).              *)
EveryEventTicked ==
  \A a \in Algos, n \in 1 .. MaxMessages * Cardinality(Symbols) :
    pool[a] = "open" /\ Len(raised[a]) >= n ~> Len(ticked[a]) >= n \/ pool[a] = "joined"

(* The program ends, but for two cases: T0 waits for a result of a pool    *)
(* that stop has joined, which no start opens again, or the recording has  *)
(* a record that ends the session, at which main's loop spins.  An         *)
(* algorithm that was stopped and is only ticked, or whose symbols are     *)
(* only changed, does not keep it from ending, and neither does a pool     *)
(* that is behind                                                          *)
(* (bist_algo_base.cpp:44-53, order_book_agent.cpp:105-118, 196-210,       *)
(* bist-algo-demo.cpp:227-232, binaryfile.hh:81-84).                       *)
WaitsForStopped == awaiting # 0 /\ pool[awaiting] = "joined"

Terminates == <>(Finished \/ WaitsForStopped \/ phase = "spinning")

=============================================================================
