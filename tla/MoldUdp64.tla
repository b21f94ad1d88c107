------------------------------ MODULE MoldUdp64 ------------------------------
(***************************************************************************)
(* moldudp64_session between a network and a handler.                      *)
(*                                                                         *)
(* The server numbers its messages from 1 and multicasts them in packets   *)
(* that carry the number of their first message and their count.  Packets, *)
(* requests and their answers are lost, packets and answers are repeated   *)
(* and reordered, and a datagram may end before its last message.  The     *)
(* session hands the messages over in order; when it notices a gap it      *)
(* drops the packet and asks the server to send again from the first       *)
(* missing message.  process_packet runs in one thread, to its end, for    *)
(* one packet after the other.                                             *)
(*                                                                         *)
(* The loop over the messages trusts the count in the header: when the     *)
(* datagram holds fewer, it takes what follows in memory for messages.     *)
(* A request may be one that the server does not understand: its session   *)
(* name is never set, and one build does not convert its number.           *)
(*                                                                         *)
(* The program stops at an error: it exits (itch-monitor.cc:436-439).      *)
(***************************************************************************)
EXTENDS Naturals, Sequences

CONSTANTS
  MaxSeq,      \* number of messages of the server's session
  MaxBatch,    \* the most messages in a packet
  MaxLosses,   \* how many packets and requests may be lost or cut
  MaxRepeats,  \* how often a packet in flight may be repeated
  Callbacks,   \* whether there is a send callback: the cases considered
  Builds,      \* whether htobe64 converts: FALSE is the Windows build
  Empties      \* which messages have no content: the cases considered

ASSUME MoldAssumption ==
  /\ MaxSeq \in Nat /\ MaxBatch \in Nat /\ MaxLosses \in Nat /\ MaxRepeats \in Nat
  /\ Callbacks \subseteq BOOLEAN /\ Builds \subseteq BOOLEAN

VARIABLES
  _expected_seq_no, _state, _sync_to_seq_no,   \* of the session
  can_send,    \* TRUE if _send_cb was set; never changes
  converts,    \* TRUE if htobe64 converts; never changes
  empty,       \* the server's messages without content; never changes
  handled,     \* what the loop over the messages did (history)
  sound,       \* how much of it before it first left a packet (history)
  fault,       \* the exception process_packet ended with, if any
  published,   \* number of the last message the server sent
  wire,        \* the packets in flight
  requests,    \* the requests the server has not answered
  losses, repeats,
  lost         \* the numbers asked for in requests that got lost, or in answers that did

sessionVars == <<_expected_seq_no, _state, _sync_to_seq_no, handled, sound, fault>>
serverVars  == <<published, losses, repeats, lost>>
given == <<can_send, converts, empty>>
vars == <<sessionVars, serverVars, given, wire, requests>>

Nullopt == 0
Beyond  == 0    \* the number of a message that no packet held
Swapped == 0    \* a number with its bytes in the wrong order: none the server uses

(* count is the header's, held the number of messages the datagram really  *)
(* has, again is TRUE for the answer to a request.  A heartbeat has count  *)
(* 0 and the number of the next message.                                   *)
Packets == [seq : 1 .. MaxSeq + 1, count : 0 .. MaxBatch, held : 0 .. MaxBatch,
            again : BOOLEAN]

(* named is TRUE if the bytes of Session are what the server takes for its *)
(* session.                                                                *)
Requests == [seq : 0 .. MaxSeq, named : BOOLEAN]

Init ==
  /\ _expected_seq_no = 1
  /\ _state = "synchronized"
  /\ _sync_to_seq_no = Nullopt
  /\ can_send \in Callbacks /\ converts \in Builds /\ empty \in Empties
  /\ handled = <<>> /\ sound = 0
  /\ fault = "none"
  /\ published = 0
  /\ wire = {} /\ requests = {}
  /\ losses = 0 /\ repeats = 0 /\ lost = {}

-----------------------------------------------------------------------------
(* The server and the network.                                             *)

Multicast(n) ==
  /\ published + n <= MaxSeq
  /\ published' = published + n
  /\ wire' = wire \cup {[seq |-> published + 1, count |-> n, held |-> n,
                          again |-> FALSE]}
  /\ UNCHANGED <<sessionVars, given, requests, losses, repeats, lost>>

(* At most one packet without messages is in flight.                       *)
Silence == \A p \in wire : p.held > 0

Heartbeat ==
  /\ Silence
  /\ wire' = wire \cup {[seq |-> published + 1, count |-> 0, held |-> 0,
                          again |-> FALSE]}
  /\ UNCHANGED <<sessionVars, serverVars, given, requests>>

(* The server says that its session has ended: the header's count is all   *)
(* ones, for which the largest one stands, and there are no messages.      *)
EndSession ==
  /\ Silence /\ published = MaxSeq
  /\ wire' = wire \cup {[seq |-> published + 1, count |-> MaxBatch, held |-> 0,
                          again |-> FALSE]}
  /\ UNCHANGED <<sessionVars, serverVars, given, requests>>

(* The server answers requests for its session and for messages it has     *)
(* sent, and no others.                                                    *)
Understood(r) == r.named /\ r.seq # Swapped

(* The server answers with one packet, as long as it likes.                *)
Answer(r, n) ==
  /\ Understood(r)
  /\ r.seq + n <= published + 1
  /\ wire' = wire \cup {[seq |-> r.seq, count |-> n, held |-> n, again |-> TRUE]}
  /\ requests' = requests \ {r}
  /\ UNCHANGED <<sessionVars, serverVars, given>>

Lose(p) ==
  /\ losses < MaxLosses
  /\ losses' = losses + 1
  /\ wire' = wire \ {p}
  /\ lost' = IF p.again THEN lost \cup {p.seq} ELSE lost
  /\ UNCHANGED <<sessionVars, given, requests, published, repeats>>

(* Only the first n messages of a datagram get into the receiver's buffer. *)
Cut(p, n) ==
  /\ losses < MaxLosses /\ n < p.held
  /\ losses' = losses + 1
  /\ wire' = (wire \ {p}) \cup {[p EXCEPT !.held = n]}
  /\ UNCHANGED <<sessionVars, given, requests, published, repeats, lost>>

LoseRequest(r) ==
  /\ losses < MaxLosses
  /\ losses' = losses + 1
  /\ requests' = requests \ {r}
  /\ lost' = lost \cup {r.seq}
  /\ UNCHANGED <<sessionVars, given, wire, published, repeats>>

-----------------------------------------------------------------------------
(* process_packet.                                                         *)

(* htobe64: the identity on Windows, so that the server reads the number   *)
(* with its bytes swapped.                                                 *)
htobe64(n) == IF converts THEN n ELSE Swapped

(* The operators named Bug... have a mistake that the checks must notice:  *)
(* here, the request is off by one.                                        *)
BugRequest(expected) ==
  IF can_send
  THEN /\ \E b \in BOOLEAN :
            requests' = requests \cup {[seq |-> htobe64(expected + 1), named |-> b]}
       /\ UNCHANGED fault
  ELSE fault' = "invalid sequence number" /\ UNCHANGED requests

(* The request asks from the first missing message on.  Its Session is     *)
(* not initialized: any bytes, the name of the session or not.             *)
retransmit_request(expected) ==
  IF can_send
  THEN /\ \E b \in BOOLEAN :
            requests' = requests \cup {[seq |-> htobe64(expected), named |-> b]}
       /\ UNCHANGED fault
  ELSE fault' = "invalid sequence number" /\ UNCHANGED requests

Quiet == UNCHANGED <<requests, fault>>

Old(p) ==
  /\ p.seq < _expected_seq_no
  /\ UNCHANGED <<sessionVars, requests>>

(* A heartbeat tells nothing.                                              *)
BugEarly(p) ==
  /\ _expected_seq_no < p.seq
  /\ \/ p.count = 0 /\ UNCHANGED <<sessionVars, requests>>
     \/ /\ p.count > 0
        /\ _sync_to_seq_no' = p.seq
        /\ _state' = "gap_fill"
        /\ \/ _state = "synchronized" /\ retransmit_request(_expected_seq_no)
           \/ _state = "gap_fill" /\ Quiet
        /\ UNCHANGED <<_expected_seq_no, handled, sound>>

Early(p) ==
  /\ _expected_seq_no < p.seq
  /\ _sync_to_seq_no' = p.seq
  /\ _state' = "gap_fill"
  /\ \/ _state = "synchronized" /\ retransmit_request(_expected_seq_no)
     \/ _state = "gap_fill" /\ Quiet
  /\ UNCHANGED <<_expected_seq_no, handled, sound>>

(* Every message is handed over, whether it has content or not.            *)
BugBlock(p, j) ==
  [no |-> IF j <= p.held THEN p.seq + j - 1 ELSE Beyond,
   passed |-> TRUE, sync |-> _state = "synchronized"]

(* What the loop does with the j-th message of a packet: hands it over,    *)
(* unless it has no content.  Beyond the datagram's end any content may be *)
(* read; whether there is some is left out.                                *)
Block(p, j) ==
  [no     |-> IF j <= p.held THEN p.seq + j - 1 ELSE Beyond,
   passed |-> j <= p.held => p.seq + j - 1 \notin empty,
   sync   |-> _state = "synchronized"]

(* The loop runs over the first n messages of a packet.                    *)
Handled(p, n) == handled \o [j \in 1 .. n |-> Block(p, j)]

(* How much of that is sound: nothing after the first message that no      *)
(* packet held.                                                            *)
Sound(p, n) ==
  IF sound < Len(handled) THEN sound
  ELSE IF n <= p.held THEN sound + n ELSE sound + p.held

(* Not if the message that showed the gap is the next.                     *)
BugFilled(next) == next > _sync_to_seq_no

(* Whether the gap is filled once the first missing message is next.       *)
Filled(next) == next >= _sync_to_seq_no

(* Packets are not only taken at their turn but also after it.             *)
BugDue(p) == p.seq <= _expected_seq_no

Due(p) == p.seq = _expected_seq_no

Expected(p) ==
  LET next == _expected_seq_no + p.count
  IN  /\ Due(p)
      /\ handled' = Handled(p, p.count)
      /\ sound' = Sound(p, p.count)
      /\ _expected_seq_no' = next
      /\ \/ /\ _state = "synchronized"
            /\ Quiet /\ UNCHANGED <<_state, _sync_to_seq_no>>
         \/ /\ _state = "gap_fill" /\ Filled(next)
            /\ _state' = "synchronized" /\ _sync_to_seq_no' = Nullopt
            /\ Quiet
         \/ /\ _state = "gap_fill" /\ ~Filled(next)
            /\ retransmit_request(next)
            /\ UNCHANGED <<_state, _sync_to_seq_no>>

(* The packet counts as a whole, although the handler throws in the middle *)
(* of it.                                                                  *)
BugRejected(p, n) ==
  /\ Due(p)
  /\ n < p.count
  /\ handled' = Handled(p, n)
  /\ sound' = Sound(p, n)
  /\ _expected_seq_no' = _expected_seq_no + p.count
  /\ fault' = "handler"
  /\ UNCHANGED <<_state, _sync_to_seq_no, requests>>

(* The handler throws at the message after the first n of the packet, or   *)
(* the read beyond the datagram's end is trapped there.                    *)
Rejected(p, n) ==
  /\ Due(p)
  /\ n < p.count
  /\ n < p.held => p.seq + n \notin empty
  /\ handled' = Handled(p, n)
  /\ sound' = Sound(p, n)
  /\ _expected_seq_no' = _expected_seq_no + n
  /\ fault' = "handler"
  /\ UNCHANGED <<_state, _sync_to_seq_no, requests>>

process_packet(p) ==
  \/ Old(p)
  \/ Early(p)
  \/ Expected(p)
  \/ \E n \in 0 .. MaxBatch : Rejected(p, n)

(* A packet arrives; its repetition may still be under way.                *)
Receive(p) ==
  /\ process_packet(p)
  /\ \/ wire' = wire \ {p} /\ UNCHANGED repeats
     \/ repeats < MaxRepeats /\ repeats' = repeats + 1 /\ UNCHANGED wire
  /\ UNCHANGED <<given, published, losses, lost>>

-----------------------------------------------------------------------------
Server ==
  \/ \E n \in 1 .. MaxBatch : Multicast(n) \/ \E r \in requests : Answer(r, n)
  \/ Heartbeat \/ EndSession

Next ==
  \/ /\ fault = "none"
     /\ \/ Server
        \/ \E p \in wire :
             Lose(p) \/ Receive(p) \/ \E n \in 0 .. MaxBatch : Cut(p, n)
        \/ \E r \in requests : LoseRequest(r)
  \/ fault # "none" /\ UNCHANGED vars

(* Every packet that is not lost arrives, the server goes on to the end of *)
(* its messages and then keeps its heart beating, and answers requests     *)
(* that it understands and that are not lost.                              *)
Fairness ==
  /\ \A p \in Packets : WF_vars(fault = "none" /\ p \in wire /\ Receive(p))
  /\ WF_vars(fault = "none" /\ \E n \in 1 .. MaxBatch : Multicast(n))
  /\ WF_vars(fault = "none" /\ Heartbeat)
  /\ \A r \in Requests :
       WF_vars(fault = "none" /\ r \in requests /\ \E n \in 1 .. MaxBatch : Answer(r, n))

Spec == Init /\ [][Next]_vars /\ Fairness

-----------------------------------------------------------------------------
TypeOK ==
  /\ _expected_seq_no \in 1 .. MaxSeq + 1 + MaxBatch
  /\ _state \in {"synchronized", "gap_fill"}
  /\ _sync_to_seq_no \in 0 .. MaxSeq + 1
  /\ can_send \in BOOLEAN /\ converts \in BOOLEAN
  /\ handled \in Seq([no : 0 .. MaxSeq, passed : BOOLEAN, sync : BOOLEAN])
  /\ sound \in 0 .. MaxSeq
  /\ fault \in {"none", "handler", "invalid sequence number"}
  /\ published \in 0 .. MaxSeq
  /\ wire \subseteq Packets /\ requests \subseteq Requests
  /\ losses \in 0 .. MaxLosses /\ repeats \in 0 .. MaxRepeats
  /\ lost \subseteq 0 .. MaxSeq + 1

(* What the session has counted as message i is message i, handed over if  *)
(* it has content and skipped if not, whatever the network does and also   *)
(* when the handler throws in the middle of a packet; or else it is what   *)
(* the loop found beyond the end of a datagram (moldudp64.hh:94-116).      *)
HandledInOrder ==
  /\ Len(handled) = _expected_seq_no - 1
  /\ sound <= Len(handled)
  /\ \A i \in DOMAIN handled :
       \/ handled[i].no = i /\ (handled[i].passed <=> i \notin empty)
       \/ handled[i].no = Beyond /\ sound < i
  /\ sound < Len(handled) => handled[sound + 1].no = Beyond

(* The session fills a gap exactly while it knows of messages that it has  *)
(* not got, and the server has sent them (moldudp64.hh:97-104, 117-120).   *)
GapKnown ==
  /\ _state = "gap_fill" <=> _sync_to_seq_no # Nullopt
  /\ _state = "gap_fill" /\ fault # "handler" =>
       _expected_seq_no < _sync_to_seq_no /\ _sync_to_seq_no <= published + 1

(* A gap is never forgotten: while there is one, a request for the first   *)
(* missing message is unanswered, in the words of this build, or it was    *)
(* lost, or its answer is under way or was lost.  Nothing else would start *)
(* one: packets that arrive during a gap only move its end, and there is   *)
(* no timer (moldudp64.hh:97-104, 121-123, 136).                           *)
NotForgotten ==
  _state = "gap_fill" /\ fault = "none" =>
    \/ \E r \in requests : r.seq = htobe64(_expected_seq_no)
    \/ htobe64(_expected_seq_no) \in lost \/ _expected_seq_no \in lost
    \/ \E p \in wire : p.again /\ p.seq = _expected_seq_no /\ p.count > 0

(* To the handler the network does not exist: the session goes through the *)
(* server's messages, never one before it was sent, hands over those with  *)
(* content, and never takes one back, until a datagram ends before its     *)
(* last message (moldudp64.hh:85-126).                                     *)
Promise == INSTANCE Delivery
  WITH sent <- [i \in 1 .. published |-> [no |-> i, passed |-> i \notin empty]],
       delivered <- [i \in 1 .. sound |-> [no |-> handled[i].no,
                                           passed |-> handled[i].passed]]

Delivers == Promise!Spec

(* The session gets to the end of the messages, whatever else is lost,     *)
(* unless the program stops at an error, a datagram ended before its last  *)
(* message, or the request for the first missing message or the answer to  *)
(* it was lost, for the session asks once, or the server does not          *)
(* understand that request (moldudp64.hh:85-126, 134-137, endian.h:38-40). *)
(* The heartbeats reveal a loss at the end.                                *)
CatchesUp ==
  <>(\/ fault # "none" \/ sound < Len(handled) \/ _expected_seq_no = MaxSeq + 1
     \/ _expected_seq_no \in lost
     \/ htobe64(_expected_seq_no) \in lost
     \/ \E r \in requests : r.seq = htobe64(_expected_seq_no) /\ ~Understood(r))

=============================================================================
