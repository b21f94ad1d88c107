# A verification project for itch-bist-parser

`src/` is a parser of the market data of Borsa İstanbul (NASDAQ TotalView-ITCH in its BIST
form), a fork of *helix*. It reads a recorded session, rebuilds the order books of the
instruments it was asked for, and runs algorithms, each in a thread of its own, on every
change of a book. This directory holds TLA+ models of it, the TLC runs that check them on
small instances, and theorems that TLAPS proves for every instance. `PROJECT.json` is the
index: components, runs, mutants (a mistake in the code for every property, which the run must
notice), the lines each definition models, hazards, findings, theorems.

    tlc -workers 2 -config MCOrderBook.cfg MCOrderBook      # 10 s; the longest run takes 3 minutes
    tlapm OrderBookOpsProofs.tla                            # and so for the other seven of The proofs

## The system

    recording ──> binaryfile_session ──> itch_bist_handler ──> order_book_agent(s) ──> order_book(s)
    (or MoldUDP64)   framing               T0: routing, ops       post to the pool        T1..Tn
                                              │                                              ▲
                                              └── event ──> callback ──> post a tick ────────┘
                                                                          algo_base / symbol_tracker_algo

| component | state | operations | what makes it correct |
|---|---|---|---|
| `order_book` (order_book.cc, .hh) | orders in a hashed container unique by id; bid and ask levels in `std::map`s; in each order a raw pointer to its level | add, replace, cancel, execute, remove; queries | levels are the sums of the orders stored at them, none is empty, no pointer dangles, an execution tells truly whether it cleared the level |
| `itch_bist_handler` | OrderBookID → symbol, symbol → agents, seconds of the clock, callback | one `process_msg` per message type | messages reach the books of their instrument and no others, in every agent alike; events tell what happened, when |
| `order_book_agent` | a pool and a book | forwards each book operation to the pool; `execute` and the queries wait for a future | operations are done once, in order, in the book's thread |
| `algo_base`, `session::register_event` | the books, a pool of one thread, `_working` | registration, event → tick, start, stop | every event ticks, and the tick sees the book as the event's message left it |
| `symbol_tracker_algo` | last top of book printed, statistics, a file | tick, destructor | the last line shows the current top, no fill is missing; nothing is lost when it is destroyed |
| `binaryfile_session`, `soupfile_session` | – | one framed message per call | messages are handed over once, in order; the reading loop ends |
| `moldudp64_session`, `moldudp_session` | expected number, gap state | a packet; a retransmission request | each message is handed over once, in order, whatever the network loses, repeats and reorders |
| `pmd_handler` (Parity) | order id → book | one `process_msg` per message type | as `itch_bist_handler` |
| C interface, demo, monitor, perf test | handles; the reading loop | open, read, delete | the program ends, after the algorithms are done, or stops at a fault of the file and names it |

What is hard here: the feed thread runs ahead of the algorithms' threads and shares the books
with them through queues and futures only (in a `_DEBUG` build not even that); pointers from
orders into a map that erases nodes; unsigned arithmetic without checks; a protocol with state
in several places (ids, seconds, directory) which trusts the exchange to keep rules that its
own comments say it does not keep; framings read from a buffer whose end nobody looks at;
shutdown order. The list, line by line, is under `hazards` in `PROJECT.json`.

## The modules

`OrderBookOps` – the operations of `order_book` as functions from a book to a book, or to the
set of possible outcomes where the code follows a pointer that may dangle. Ids, prices and the
number of values of a `uint64_t` (`Modulus`) are constants. It has no variables, so that the
handlers use it too.

| code | `OrderBookOps` |
|---|---|
| `_orders` | `orders`, a function from ids: the container is unique by `order::id` only |
| `_bids`, `_asks` | `levels[side]`, a function from prices to `price_level::size` |
| `order::level` | implied by side and price; `dangling` has the ids whose level was erased |
| `add`, `remove`, `cancel`, `execute`, `replace` | `AddOrder`, `RemoveOrder`, `CancelOrder`, `ExecuteOrder`, `ReplaceOrder` |
| `remove_impl` | `EraseOrder` (`DebitLevel`, `EraseLevelIfEmpty`, `DropOrder`) |
| the `execution` that `execute` returns | `execution`, with the level's remaining size |

A debit through a dangling pointer is a write into freed memory: nothing visible, or any level
that was allocated there since. `add` credits the level before `emplace` finds out that the id
is taken; `EraseOrder` and `AddOrder` keep that order. The queries by level (`LevelAt`,
`LevelCount`, `OrderCount`, `Midprice`) read the levels in the order of the two `std::map`s,
`Before`, and take `std::next` literally: a level beyond the last is the default one that the
code returns.

`ExchangeBook` – the abstract specification: a set of resting orders, each known by side and
id, and the depth they add up to.

`OrderBook` – one book and a caller that keeps the contract the class needs but does not
check: fresh ids, quantities not 0, no execution for more than is left, no level beyond
`Modulus`. Unknown ids are allowed, the code handles them. It is shown to implement
`ExchangeBook`, with `resting` the stored orders and `depth` the levels.

`ItchBistHandler` – one action per `process_msg`. A conversion that can fail (side, trade
sign, message type) is an exception, which nothing catches: `fault` holds it and the system
stops. In a release build the exception that `add` throws leaves a thread of the pool instead;
the program ends either way. The book operations of all agents of a symbol happen in the
action of the message. `StateName` is a field of 20 characters that no zero byte need end
(itch_bist_messages.h:138), and `std::string` is made of its address
(itch_bist_handler.cc:210): what stands behind it in the buffer is read too, so that the name
an agent keeps (`StateText`) is the field and one of the `Tails`, the same for all agents of
the symbol. That the read may leave the buffer, when no zero byte comes, is outside the model.

`ItchBistFeed` – composes the handler with the exchange that sends the messages. The exchange
is the environment: what it may do is chosen by `Features`, each one a habit that a comment in
the repository tells of (the module quotes the lines). Without features it is a plain session:
ids are unique in an order book, quantities are disclosed, nothing is replaced, order books
are listed first. Its definitions are marked external in `map`.

`SymbolTracker` – the algorithms at that feed. `Trackers` own books through `TrackerOf`;
`tick` counts, compares the book's top with the last one printed, prints a line or does not,
and remembers. A message and the tick of its event are one step here, which
`HandlesEventsInStep` of `AlgoPipeline` justifies. A line is the set of its parts.

`MoldUdp64` – `moldudp64_session`, the server and the network between them. A packet is its
first number, the count of its header, how many messages the datagram really holds, and
whether it answers a request; `process_packet` has a disjunct for each way through it (`Old`,
`Early`, `Expected`, and `Rejected` for a handler that throws in the middle of a packet). The
network repeats packets and delivers them in any order; it loses packets, requests and answers
and cuts datagrams short (`Cut`), `MaxLosses` in all; `lost` has the numbers of the requests
that came to nothing. With no send callback (`Callbacks`) the first gap is an exception.
Server and network are external in `map`.

What the loop does with a message is `Block`. A message without content (`Empties` says which
may have none) is counted and not handed over (moldudp64.hh:111-115). The loop trusts the
header's count (moldudp64.hh:107): if the datagram holds fewer messages, what lies behind it
is taken for messages (number `Beyond`); any content may be read there, handed over, or make
the handler throw. This happens when a datagram is cut, and whenever the server announces the
end of its session (`EndSession`), with a count of all ones and no message: the expected
number then runs ahead of the server. `sound` says how much of `handled` was done before that
first happened, and the properties tell the two apart. `retransmit_request` leaves `Session`
of its packet uninitialized (moldudp64.hh:136), so that the request is for the server's
session or not (`named`), and `htobe64` is the identity in the Windows build (endian.h:38-40),
so that the server reads another number (`Swapped`): `Builds` says which are considered. The
server answers what it understands (`Understood`). A datagram shorter than a header, at which
process_packet throws and changes nothing (moldudp64.hh:88-91), is left out.

`Delivery` – the abstract specification of a session: what the handler has got is a prefix of
what was sent, and grows at its end only. `MoldUdp64` implements it, with `sent` what the
server has published, each message with or without content, and `delivered` what the session
has gone through, handing over or skipping, as long as it stayed within its datagrams. That
everything sent is delivered is not part of it: the session may stop.

`Reader` – the programs that read a file: `main`'s loop (`Call`, `Return`, `EndOfData`), the
session that takes a record from the buffer (`BinaryRecord`, `SoupRecord`, `MoldRecord`, then
`Handle` per message), and what the monitor makes of an exception (`ErrorOf`,
`helix_strerror`). `Files` are the files that may be read: of each, its bytes, the records
they are made of, the messages of the session and the place `at` which each begins.
`WellFormed` says what a framing protocol promises of them (`BinaryFramed`, `SoupFramed`,
`MoldFramed`): which bytes are where, record after record. It says nothing of the messages:
they are any bytes, of a type that the handler does not know, longer or shorter than the
structure it takes them for, empty (in the multicast framing, which has a length for each), or
with a terminator of the SOUP framing in them. A file may lack a packet, and is cut anywhere
in its last record. The programs see the bytes only, and compute everything from them, as in
the code: a record's length, the place of the next message, what is left. The rest of the
file's description is for the properties: a message is known by the place where it begins, and
`handled` has the places of what was handed over, messages or not. `Radix` is the number of
values of a byte and `Modulus` that of a `size_t`. Reading past the buffer (`Beyond`) ends the
behaviour, since anything may follow.

A message that is not what its type says can lead a session astray, and `Astray` says how far.
A `binaryfile_session` takes each message for as long as its type says (binaryfile.hh:86-93):
a byte more may be handed over as a message of its own, a byte less swallows the beginning of
the next; but the record's length brings it back to the next record, or it throws. A
`soupfile_session` takes a terminator within a message for its end, and goes on in its middle,
perhaps for good. A `moldudp_session` has a length for every message and is never astray.

| code | `Reader` |
|---|---|
| `p`, `size` of `main` | `p` (an index), `size` |
| `payload_len`, the count of `moldudp_session`'s loop | `payload_len` |
| `offset`; `p - packet.buf()` in `moldudp_session` | `offset` |
| `swap_bytes(*packet.cast<uint16_t>())` | `swap_bytes` of the two bytes in the machine's order |
| `sizeof(T)` that `process_msg<T>` returns | `SizeOf` of the message's type |
| a C++ exception; in the monitor, a negative number | `Throw(e)`, `told` |

`PmdHandler` – `parity::pmd_handler` on `OrderBookOps`: one action per `process_msg`, and
`subscribe` at any time. Its exchange counts nanoseconds and sends the second apart, and gives
each order number once: messages about an order name nothing but its number.

`AlgoPipeline` – the threads: main (T0), and one thread for the pool of each algorithm. What
T0 has still to call for a message, `todo`, is a set; `Earlier` orders it: every agent's
operations first, then the callbacks, in the order of registration. Here a book is only the
number of the last message applied to it, as what a message does is in the other modules.
`Call` is one call of T0 on an agent or a callback: a task on a queue (`Post`) or, with
`_DEBUG`, the operation itself (`DoInline`). `awaiting` is `future::get`. A tick is two steps,
since other threads run in between. `dispatch` to a pool from a thread that is not the pool's
is a post; the handler's calls and the callbacks all come from T0. `Builds` says which builds
are considered, `MayStop` whether `stop` and `start` are called (the demo does not). `raised`
has, for each algorithm, the messages of its events in their order, and `ticked` those whose
book its ticks saw; both are there for the properties only. The loop over the recording ends
(`EndOfData`), or comes to a record that ends the session, at which it spins (`EndOfSession`),
as `process_packet` returns 0.

`EventLoop` – the abstract specification of the algorithms' event loops: events are raised,
and each algorithm handles its own in their order, each once, and sees the book as the event's
message left it. `AlgoPipeline` implements it; of a build with `_DEBUG` the ticks are not
shown, since they may see more. That every event is handled is not part of it, but said by
`EveryEventTicked`.

    OrderBookOps ── OrderBook ── MCOrderBook            AlgoPipeline ── MCAlgoPipeline
      │    │            └── (INSTANCE) ExchangeBook        ├── AlgoPipelineProofs
      │    │                                                 └── (INSTANCE) EventLoop
      │    └── PmdHandler ── MCPmdHandler
      └── ItchBistHandler ── ItchBistFeed ── MCItchBistFeed      MoldUdp64 ── MCMoldUdp64
                                  └── SymbolTracker              └── MoldUdp64Proofs
                                        └── MCSymbolTracker
    Delivery ── (INSTANCE) MoldUdp64                       Reader ── MCReader
                                                             └── ReaderProofs

    OrderBookOpsProofs ── OrderBookProofs
            ├── PmdHandlerProofs
            └── ItchBistFeedProofs ── SymbolTrackerProofs

## The runs

| run | instance | states | shows |
|---|---|---|---|
| `order_book` | 3 ids, 2 prices, quantities 1 and 2, words of 5 values | 2221 | `TypeOK`, `LevelsMatchOrders`, `NoDanglingLevel`, `SweepMeansLevelCleared`, `QueriesTellOrders`, `ReconstructsExchangeBook` |
| `routing` | 3 instruments of which 2 are registered, one of them by 2 agents, 2 order book ids, the same order id in both; two state names, which may drag something along | 267859 | `TypeOK`, `Mirrored`, `RoutesFollowListing`, `InfoFollowsInstrument`, `StampedInTime` |
| `wild` | all features, 2 agents of one symbol, a second instrument, a state name, a clock that moves | 886162 | `AgentsAgree`, `EveryChangeAnnounced` |
| `tracker` | a tracker of two symbols and one of the first of them only; 3 order ids, 2 prices, quantities 1 and 2, 4 updates, 2 trades | 77225 | `TrackerTypeOK`, `PrintedTopIsCurrent`, `PeaksCoverBook`, `ChangedTopIsPrinted`, `FillsPrinted`, `EveryFillReported` |
| `pipeline` | 2 algorithms that share one of 2 symbols, 2 messages and a query, release and `_DEBUG`, with and without stop and start | 193612 | `TypeOK`, `NoWriteDuringTick`, `HandlesEventsInStep`, `ResultMeansDone`, `EveryEventTicked`, `Terminates` |
| `moldudp64` | 3 messages, the second empty, packets of up to 2, 1 loss or cut of a packet, request or answer, 1 repetition, with and without a send callback, in both builds | 491379 | `TypeOK`, `HandledInOrder`, `GapKnown`, `NotForgotten`, `Delivers`, `CatchesUp` |
| `pmd` | 2 instruments, 2 order numbers, 2 prices, quantities 1 and 2, 2 milliseconds of 2 nanoseconds per second | 49504 | `TypeOK`, `Mirrored`, `NumbersLeadHome`, `ThrowsOnlyIfMalformed`, `StampedInTime` |
| `reader` | 2 programs, 3 framings, recordings of up to 3 records, two of them with messages of unknown type, too short, too long or with a terminator in them, any cut of the last record, one packet missing; bytes of 8 values | 710714 | `TypeOK`, `Delivers`, `StopsForAReason`, `EndsOrSpins` |

Four more runs show a disagreement between code and documentation; see *Findings*.

Bounds. Three orders are enough for two orders at one price and one elsewhere, so that a
removal happens with and without company at the level; quantity 2 can be filled partly; with
words of five values three orders of 2 exceed a level, so that the contract's bound matters.
Two agents of one symbol are the least for a result to be "of the last agent"; two registered
symbols with the same order ids the least for a message to reach a wrong book; a third
instrument that nobody registered is ignored, and may take over an id. `NanosPerSecond` is 2
and the clock goes to 2, so that a second passes. A position (`NewOrderBookPosition`) is a
number that is no order id in these instances; if it were one, the books would be wrong in
more ways. In `wild` there is one state name and no tail, as the agents all read the same
memory, and words have three values, so that books wrap around early and the state space is
finite and small. In the pipeline the second message may be posted while the first one's tick
runs, and the query while the second one's operations wait; what more messages could add is a
longer queue. Two algorithms suffice for T0 to wait for one pool while the other is behind.

In `tracker` a constraint keeps two cases apart: as long as only the first order book is
listed it may have all three orders, any quantity and trades, so that fills reach a second
level; once the second one is listed both have orders of quantity 1, with two ids, and no
trades, which is enough for one symbol's top to stand between two of the other's in the record
they share. Every property of that run is a safety property. In `moldudp64` three messages in
packets of up to two give packets that end before, at and after the end of a gap; a packet
that is overtaken makes a gap like one that is lost, so that with one loss a second gap can
follow the first, and the answer to its request be lost or cut; the empty message in the
middle may be the first, the last or the only one of its packet, or the one at which the
handler's exception would be. In `reader` a record of four orders is 8 bytes long, so that
with `Radix` 8 its length needs both bytes; three records give a fault in the first, in a
middle and in the last one, and two faults one behind the other. The messages that are wrong
swallow the next one, the next and half of another, or nothing but the end of the record; what
they leave over is no message, or may be taken for one, also for one that is too short; and a
terminator is at the beginning, the end or in the middle of a message, alone or with another
one. `Modulus` is larger than any buffer, so that `size` wraps only when a session takes more
than there is. In `pmd` four nanoseconds make two milliseconds of one second, and the fifth
begins the next; numbers are used once, so that two of them give all histories of two orders.

Deadlock is checked except in `pipeline`: after a stop main may wait for a pool that has no
thread any more. `Terminates` says that this and the spin at the end of a session are the only
ways not to end, and so more than the absence of deadlock. A system that has stopped (`fault`,
`Finished`) stutters.

Fairness in `AlgoPipeline`: weak fairness of main and of each pool's thread. They are threads
of the operating system, none waits for a lock, and main waits only in `future::get` and
`join`; a tick ends, as `symbol_tracker_algo::tick` has no loop that could last. That main
ends is due to the finite recording, and it need not: `EndOfSession` is as possible as
`EndOfData` whenever main is at rest, and leads to `phase = "spinning"` for good, which
`Terminates` names. The message kinds, `EndOfData` and `EndOfSession` are one disjunct of that
fairness, so that no particular one of them is ever owed. What the loop does with the data,
and when it spins, is in `Reader`.

Fairness in `MoldUdp64`: each packet that is in flight and not lost arrives, the server sends
its messages, its heartbeats and its answers to the requests that it understands; a request
with another session name or with its number's bytes swapped is never answered. The server's
part is the MoldUDP64 protocol. The code asks once per gap and has no timer
(moldudp64.hh:97-104): when a request or its answer is lost, or the request is none the server
understands, the session stays in `gap_fill` for good. `CatchesUp` says that this is the only
way to miss a message, a datagram that ended before its last message and an error apart, at
which the program exits (itch-monitor.cc:436-439).

Fairness in `Reader`: weak fairness of its next step. It is one thread that waits for nothing.

## The proofs

Eight modules hold theorems; every safety property of the runs is proved for every value of
the constants. The hypotheses, where a theorem has any:

| name | says | why |
|---|---|---|
| `ModulusAssumption` | there is at least one word | – |
| `QuantityAssumption`, `PriceAssumption`, and the same in `FeedAssumption`, `PmdAssumption`, `TrackerAssumption` | quantities are words and not 0, prices are words, what is left of a quantity is a quantity | fields of messages; an announced quantity of 0 is a habit of its own (`undisclosed`), not excluded here |
| `PipelineAssumption` | algorithms are numbered from 1, finitely many | the order of creation |
| `TrackerAssumption` | among others, that no symbol is empty, and order ids are finitely many | the event of a session has the empty symbol |
| `ReaderAssumption` | a byte has more than seven values; every file is `WellFormed` and shorter than a `size_t` can tell | what the framing protocols promise of the records, whatever is in their messages; the file is mapped into memory |
| `MoldAssumption` | the bounds are numbers, callbacks and builds are there or not | – |
| `TailsAssumption` | a field that is padded with zero bytes ends by itself | – |
| `"idReuse" \notin Features` | an OrderBookID stays with its instrument | otherwise `RoutesFollowListing` is false |
| `OwnKeys` | no two instruments agree in the symbol's first eight characters | otherwise they share a book |
| `Plain` | no habit of the exchange but malformed messages | the others break the books, see *Findings* |
| `[]DepthFits` | the shares at a price never exceed a word | the code adds `uint64_t` without a check |

The last three are needed where a theorem says that books follow the exchange, and hold in the
runs of those properties (`routing` and `tracker` have no features, and their words hold all
there is). Where they are not needed the theorem does without: types, times, agreement of
agents, announcements, peaks and printed tops are proved for all features, with wrapped levels
and dangling pointers.

`OrderBookOpsProofs` has the lemmas about the operations of a book, for all callers. In one
half the book is consistent: `Consistent(b)` – typed, finite, levels match, nothing dangles,
no stored order is spent. That a level is the sum of its orders needs good pointers, as a
debit through a dangling one goes elsewhere; that pointers are good needs sizes to be sums, as
a level is erased at size 0 and may then have no other order; and both need every stored order
to have a quantity that is not 0. Between the two halves of `cancel` and `execute` (debit,
then erase if spent) the order at hand may be spent: `ConsistentBut(b, i)` is the invariant
there. The lemmas go by operation (`AddConsistent`, `TakenConsistent`, `ErasedConsistent`,
`RemoveConsistent`, ...); each shows first that the set of outcomes has one member when the
pointer is good, then that this member is consistent. In the other half the book is any book,
and all that is said is its type and which orders it stores (`Afterwards`, `Holds`): that does
not depend on levels, nor on where a dangling pointer leads. With both, a book that holds the
exchange's orders and is consistent has the exchange's depth (`SizeIsDepth`).

Level sizes are stated as the number of shares (pairs of an order and a number up to its
quantity) at the price, not as a recursive sum: cardinalities have theorems in the library,
and sums over a set would need an induction that the provers cannot do.

`OrderBookProofs`, about `OrderBook`:

| theorem | says |
|---|---|
| `Invariance` | `Spec => []IInv` |
| `TypeCorrect` | `Spec => []TypeOK` |
| `LevelsCorrect` | `Spec => []LevelsMatchOrders` |
| `PointersValid` | `Spec => []NoDanglingLevel` |
| `SweepCorrect` | `Spec => []SweepMeansLevelCleared` |
| `QueriesCorrect` | `Spec => []QueriesTellOrders` |
| `Reconstructs` | `Spec => ReconstructsExchangeBook`: `OrderBook` implements `ExchangeBook` |

`IInv` is `Consistent(book)` with the type of the last result and what it says of its level;
none of the properties is inductive by itself. The proof that a step preserves it has one case
per action. For the queries a price's `Rank` is the number of prices before it: ranks grow in
the order of the map (`RankGrows`), and every number below that of the levels is the rank of
one (`LevelRanked`), which is the one that `std::next` reaches. That the midprice is between
its two prices is arithmetic.

`ExchangeBook` computes its depth from its orders; `order_book` updates its levels call by
call. The two meet in `DepthIsLevels`: `ExchangeBook` too counts shares, and those of a
consistent book's orders are as many as its levels say (`SharesCounted`). What is left is
about orders only (`StepSimulated`): `add` is `Enter`, `remove` is `Leave`, `cancel` and
`execute` are `Reduce` or, when nothing is left, `Leave`, `replace` is `Amend`, or `Enter` if
the old id is unknown, and any other call with an unknown id changes nothing.

`ItchBistFeedProofs`, about `ItchBistFeed`:

| theorem | says | if |
|---|---|---|
| `TypeCorrect` | `Spec => []TypeOK` | |
| `AgreementCorrect` | `Spec => []AgentsAgree` | |
| `TimesCorrect` | `Spec => []StampedInTime` | |
| `ChangesAnnounced` | `Spec => EveryChangeAnnounced` | |
| `RoutesCorrect` | `Spec => []RoutesFollowListing` | no `idReuse` |
| `InfoCorrect` | `Spec => []InfoFollowsInstrument` | no `idReuse`, `OwnKeys` |
| `MirrorCorrect` | `Spec /\ []DepthFits => []Mirrored` | `Plain`, `OwnKeys` |
| `FillsReported` | `Spec /\ []DepthFits => EveryFillReported` | `Plain`, `OwnKeys` |

Each part adds to the invariant of the one before. `IInv` is types, times, and that the agents
of a symbol have the same orders: an operation may have several outcomes, by where a dangling
pointer leads, and these differ in levels only. All messages are brought to two forms: nothing
moves (`Still`), or the agents of one symbol get new books with the same orders, which is
announced (`MovesTo`). Then come the routes, for which an id must be in the map exactly if its
instrument is listed and registered; then what agents know of their instrument (`Informed`):
of a state name the field, for any `Tails`. In a plain session `Follows` says that each book
holds the orders displayed in its instrument: `Departs` and `Joins` are the two ways in which
a message changes both. `BooksConsistent` then follows from `DepthFits` of the state that a
step leads to, since what is added is displayed there.

`SymbolTrackerProofs`, about `SymbolTracker` at that feed:

| theorem | says | if |
|---|---|---|
| `TrackerTypeCorrect` | `TrackerSpec => []TrackerTypeOK` | |
| `PeaksCorrect` | `TrackerSpec => []PeaksCoverBook` | |
| `PrintedTopCorrect` | `TrackerSpec => []PrintedTopIsCurrent` | |
| `ChangedTopCorrect` | `TrackerSpec => ChangedTopIsPrinted` | |
| `FillsPrintedCorrect` | `TrackerSpec /\ []DepthFits => FillsPrinted` | `Plain`, `OwnKeys` |

The trackers do not disturb the feed (`TrackersListen`), so that its theorems hold here too.
Every book that changes is announced and ticks, hence no peak is missed, and a tick that
prints nothing finds the top it printed last. For a fill: a consistent book of which one level
shrinks (`Shrinks`) and was the best changes its top (`TopShrinks`), in price exactly if the
level is gone, which is what the event calls a sweep; so the tick prints, and prints the
trade.

`PmdHandlerProofs`, about `PmdHandler`:

| theorem | says |
|---|---|
| `TypeCorrect` | `Spec => []TypeOK` |
| `NumbersCorrect` | `Spec => []NumbersLeadHome` |
| `ThrowsCorrect` | `Spec => ThrowsOnlyIfMalformed` |
| `TimesCorrect` | `Spec => StampedInTime` |
| `MirrorCorrect` | `Spec /\ []DepthFits => []Mirrored` |

The invariant is that the book of a subscribed instrument holds the orders that were entered
since (`BookFollows`), that the map of numbers names the instrument of every such order and no
number that was not given away (`MapsFollow`), and that `_seconds` is right once the session
has begun (`ClockFollows`). Nothing is ever erased from the map, so that stale numbers are in
it: they lead to a book that does not have the order, and every operation then does nothing.

`MoldUdp64Proofs`, about `MoldUdp64`, for any number of messages, empty ones among them, size
of packets, losses, cuts and repetitions, in both builds, and whatever the session name of a
request happens to be:

| theorem | says |
|---|---|
| `OrderCorrect` | `Spec => []HandledInOrder` |
| `GapCorrect` | `Spec => []GapKnown` |
| `GapCared` | `Spec => []NotForgotten` |
| `Implements` | `Spec => Delivers`: every behaviour is one of `Delivery` |
| `TypeCorrect` | `Spec => []TypeOK` |

The invariant is `TypeOK`, the three properties, and `WireKnown`: no packet holds a message
that the server has not sent, and no more of what the loop did is sound than was sent. The
header's count is not bounded so, since at the end of a session it is all ones.
`HandledInOrder` is the delicate one: `HandledContinues` says that the loop over any number of
a packet's messages keeps it, in the three cases that it had left a datagram before, leaves
one now, or stays within; an exception stops the same loop earlier, so that `Expected` and
`Rejected` share it. `NotForgotten` leans on `GapKnown`: a request for the expected number is
answered with at least one message only if the server has it, which `_expected_seq_no <
_sync_to_seq_no <= published + 1` says; when it is lost, `lost` remembers. One case per way
through `process_packet`, and per step of server and network.

`Implements` is step simulation: no step takes back a number, published or gone through
(`Forward`), and the first `sound` messages that the session went through are the server's
first ones, each with content handed over and each without skipped, by `HandledInOrder`
(`AllHandedOver`), so that a longer sequence of them has the shorter one as a prefix
(`SentSeq`, `SentPrefix`), and a step either leaves what was sent and delivered alone or is a
step of `Delivery`.

`AlgoPipelineProofs`, about `AlgoPipeline`, for any number of algorithms and symbols and
recordings of any length:

| theorem | says |
|---|---|
| `NoRace` | `Spec => NoWriteDuringTick` |
| `TypeCorrect` | `Spec => []TypeOK` |
| `TicksSee` | `Spec => []TickSeesItsMessage`: a tick sees its message's book from its beginning to its end |
| `EventsInStep` | `Spec => HandlesEventsInStep`: every behaviour is one of `EventLoop` |
| `ResultsDone` | `Spec => ResultMeansDone` |
| `PoolsWrite` | without `_DEBUG`, a pool's thread alone changes its book |

For `NoRace` it is enough that the one thread of a pool is in one tick at most
(`OneTickAtMost`): with `PoolSize` 2, the mutant of the run, a second thread could apply an
operation meanwhile. For the rest the invariant, `PInv`, tells what the first n tasks of a
queue leave of a book (`Leaves`): the version that the last of them to apply one has, or the
book's own. A tick at place n finds its own message's version after the n - 1 before it, and
after the whole queue a book has the latest version, unless T0 has still to call for it.
Taking the first task off the queue turns a statement about n tasks into one about n - 1
(`LeavesFewer`), putting one at its end touches no other (`LeavesSame`, `LeavesMore`). A tick
that is posted is right since the calls that apply something come before all ticks
(`Earlier`). T0 waits only for the last task of a queue (`WaitOK`), so that its result means
an empty queue; the ticks raised are those done, at hand and in the queue.

`EventsInStep` needs a second invariant, `Lined`: the tick at hand is for the event after
those of the ticks done, and the k-th tick in the queue for the k-th event after that. Ticks
in a queue are counted (`TicksUpTo`); a post adds the last one (`InLineMore`), and taking a
task off moves the others up (`InLineFewer`, `TicksFewer`). Then a call that posts a tick
raises an event (`PostShows`), the end of a tick handles the next one (`TickEndShows`, with
what `PInv` says of the book it saw), and all other steps show nothing.

`ReaderProofs`, about `Reader`, for all files of well-formed records, of any length, with any
messages in them, and wherever they are cut:

| theorem | says |
|---|---|
| `TypeCorrect` | `Spec => []TypeOK` |
| `DeliversCorrect` | `Spec => []Delivers` |
| `ReasonsCorrect` | `Spec => []StopsForAReason` |

The invariant, `IInv`, says where the program is in the file, and what it has done with the
messages before that place. `size` is what is left of the buffer, or wraps when a session took
more. Where main calls the session (`CallAt`), `p` is the beginning of a record, or, for a
`soupfile_session`, anywhere behind a message with a terminator in it. In a record the three
framings differ. In the binary one (`InBinary`) `payload_len` reaches from `p + offset` to the
record's end, and the next message is at `p + offset`, or one before it in this record is not
what its type says. In the multicast one (`InMold`) the next message is where it should be,
whatever the others were. In the SOUP one (`InSoup`) the record ends where its message does,
unless that has a terminator in it. `Frontier` is the next place from which anything can be
handed over (`Handed`): whatever was handed over is before it, in order, and is a message or
behind a wrong one; and every message before it was handed over, or is behind a wrong one.
Without that second half nothing would say that no message is skipped; `Delivers` alone is not
inductive, as it does not know where the session is.

That a step keeps it is arithmetic on places. `swap_bytes` of the two bytes of a length, in
the machine's order, is the length (`LengthRead`); `SizeWraps` is main's subtraction. Only the
last record can be cut (`OnlyLastCut`), so that a byte which is not in the buffer means a cut
or a message that is not what its type says (`CutOrUnfit`). The byte at the place of a message
is its type (`MessageFound`, `FittingRead`). There is one lemma for what each framing finds
when it is called (`BinaryCall`, `SoupCall`, `MoldCall`), one for its way on to the next
message (`BinaryAccept`, `SoupAccept`, `MoldAccept`), one for what an exception means
(`ThrowInv`), and one for the end of a record (`RecordDone`). In `BinaryAccept` the case that
matters is a message that reaches beyond the next one's beginning: it is not `Fitting`, and so
all that follows in the record is `Astray`. `CleanEnds` finds the end of a message of the SOUP
framing, as the first of its terminators. The recursion that lays out the small files of the
run is in `MCReader` only.

Model-checked only:

- Liveness, which needs fairness and `ENABLED`: `EveryEventTicked` and `Terminates` of
  `AlgoPipeline`, `CatchesUp` of `MoldUdp64`, `EndsOrSpins` of `Reader`.

## Findings

Each is a run whose property TLC finds violated by what the code does.

- `shared_ids` – a buy and a sell order may have the same id (order_book.hh:138-141,
  itch_bist_messages.h:153), the container is unique by id alone. The second order credits its
  level and is not stored; the books are wrong from then on.
- `undisclosed` – an order with undisclosed quantity is announced with 0
  (itch_bist_messages.h:157); executing it makes its quantity and its level wrap around to
  almost 2^64 (order_book.cc:93).
- `replace` – a replaced order keeps its OrderID (itch_bist_messages.h:217), but is stored
  under its new rank in the book (itch_bist_handler.cc:319), where later messages do not find
  it.
- `debug_race` – with `_DEBUG` T0 changes books while a tick reads them; bist_algo_base.h:26
  says that T1 alone handles the messages (`HandledInItsThread`).

Some limits the models make plain without a run of their own. An OrderBookID that is given to
a new instrument stays routed to the old one (itch_bist_handler.cc:164;
itch_bist_messages.h:70); adding `idReuse` to the features of `routing` violates
`RoutesFollowListing`. Symbols are cut to eight characters (itch_bist_handler.cc:160), so that
instruments that agree in those share a book: `KeyOf` is one-to-one in every run. An algorithm
that was stopped does not run again, as `stop` joins its pool for good
(bist_algo_base.cpp:49-53): what is posted afterwards is never done, and the next execution of
its symbol makes T0 wait forever. An algorithm created with an unpadded symbol has a book that
is kept, but never ticks, as events carry the padded symbol; the demo pads, and so do the
models. The symbols of one tracker share one last-printed record: `PrintedTopIsCurrent` and
`FillsPrinted` hold for trackers of one symbol only, and a fill whose top happens to equal the
other symbol's has no line. In `MoldUdp64` a packet that arrives late during a gap moves
`_sync_to_seq_no` back, so that the session calls itself synchronized before the end of the
gap: it then finds the rest of the gap again, at the price of a second request. The end of the
server's session is a packet with a count of all ones, which `process_packet` takes for so
many messages (moldudp64.hh:105-116): nothing in the repository treats it apart, and
`HandledInOrder` says only that nothing is wrong before it. A request of the Windows build, or
one whose garbage happens to be no session's name, is answered by no server (endian.h:38-40,
moldudp64.hh:136-137): the first gap is then the last packet that counts, and `CatchesUp`
names it as an exception.

Both programs spin at a record that ends the session: `process_packet` returns 0, and the
loops add 0 to `p` for ever (binaryfile.hh:81-84, soupfile.hh:76-78,
bist-algo-demo.cpp:227-232, itch-monitor.cc:433-443). `EndsOrSpins` says that this, and a
terminator at the very place where a `soupfile_session` is called, are the only ways not to
end, and that everything that could be was handed over by then. `Terminates` of `AlgoPipeline`
has the spin as one of its two exceptions. No line of the repository says what the loops
should do. A record cut short is read beyond the buffer's end, which no session but
`moldudp_session`, for its header, looks at. In the SOUP framing a line feed within a message
ends its record early (soupfile.hh:70-72). In the binary framing a message with a byte more
than its structure has that byte handed over as a message if it is a type, and one with a byte
less takes it from the next (binaryfile.hh:86-93). Neither harms the next record, and no line
of the repository says that a message of another length is skipped or refused. Of the numbers
of the C interface "truncated packet" is used for the header of a MoldUDP packet alone; the
same fault in a SOUP file is an "unknown error" (soupfile.hh:74, helix.cc:124-134). A query on
an algorithm that was stopped, like an execution of its symbol, makes main wait forever.

## Not modelled

- What the monitor does with events of order books and trades, and its columns: it registers
  no agent, and `subscribe`, which it calls, only notes the symbol
  (itch_bist_handler.cc:86-99), so that no such event reaches it. It would get a null pointer
  for the book (helix.cc:207-211).
- The rest of the C interface (helix.cc:137-308): casts and calls of one member each.
- What is read when a `StateName` has no zero byte behind it as far as the buffer goes
  (itch_bist_handler.cc:210), and the message after which `moldudp64_session` leaves its
  buffer altogether: the models say that anything may be there, not that the program may
  crash.
- The exception for a datagram shorter than a header (moldudp64.hh:88-91): nothing changes.
- The columns of the tracker's lines: layout.
- The lookup of a protocol by name, the performance test, the conversions of fields wider than
  two bytes: no state that outlives a call.
- `max_orders` and `decimals_for_price` of an agent, which read the book in the caller's
  thread (order_book_agent.cpp:187): nothing calls them while threads run.

## Plan

The order book, its handler, the algorithms' threads, the tracker, the sessions with the
programs' loops, and PMD are modelled, and their safety is proved. Left:

1. Refinement for the handlers: each subscribed book of `PmdHandler`, and each agent's of
   `ItchBistFeed` in plain sessions, against `ExchangeBook`. `BookFollows` and `Follows` say
   it of the states; what is left is the steps.
