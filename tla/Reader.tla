------------------------------- MODULE Reader -------------------------------
(***************************************************************************)
(* The programs that read a recording: the loop of main over a buffer with *)
(* the whole file, and the session that takes one record of it per call,   *)
(* be it a binaryfile_session, a soupfile_session or a moldudp_session.    *)
(* The demo calls the session itself; the monitor calls it through the C   *)
(* interface, which turns exceptions into numbers.                         *)
(*                                                                         *)
(* The session is not told where a record ends, it computes it; and the    *)
(* handler reads what the type of a message says, wherever the record or   *)
(* the file ends.  What a handler makes of a message is in the modules     *)
(* ItchBistHandler and PmdHandler; here it has a size.                     *)
(*                                                                         *)
(* A message is known by the place where it begins.                        *)
(***************************************************************************)
EXTENDS Integers, Sequences, SequencesExt

CONSTANTS
  Files,       \* the files that may be read, see WellFormed
  Radix,       \* number of the values of a byte
  Modulus      \* number of the values of a size_t

VARIABLES
  file, cut,          \* what is read, and how many bytes of it are missing at its end
  program,            \* which main reads it
  p, size,            \* of main: where the next record begins, how much is left
  payload_len,        \* what is left of the record at hand: bytes, or messages (moldudp)
  offset,             \* how far the session is in it
  _seq_num,           \* of moldudp_session
  handled,            \* the messages handed over
  pc,                 \* what main does
  told                \* what the program says of the exception that ended it

input == <<file, cut, program>>
vars == <<input, p, size, payload_len, offset, _seq_num, handled, pc, told>>

CR == 2
LF == 3
TypeSeconds == 5
TypeOrder == 6

(* sizeof of the structures of the handler.                                *)
SizeOf == [type \in {TypeSeconds, TypeOrder} |-> IF type = TypeSeconds THEN 1 ELSE 2]

(* A message that is what its type says, to the last byte; and one that    *)
(* the terminator of the SOUP framing cannot be mistaken for.              *)
Fitting(body) ==
  body # <<>> /\ body[1] \in DOMAIN SizeOf /\ Len(body) = SizeOf[body[1]]

Clean(body) == \A k \in DOMAIN body : body[k] \notin {CR, LF}

-----------------------------------------------------------------------------
(* A file f has                                                            *)
(*   format    one of "binaryfile", "soupfile" and "moldudp"               *)
(*   messages  those of the session it was recorded from: any bytes, of    *)
(*             another revision of the protocol, or of another protocol    *)
(*   at        where each of them begins; Lost, if its packet is missing   *)
(*   records   of each record the start and the end, the number of its     *)
(*             first message and how many it has                           *)
(*   bytes                                                                 *)
Lost == -1

Header(f) == IF f.format = "moldudp" THEN 1 ELSE 0

EndOf(f, m) == f.at[m] + Len(f.messages[m])

Messages(r) == r.first .. r.first + r.count - 1

Has(f, start, bytes) ==
  \A k \in DOMAIN bytes :
    start + k \in DOMAIN f.bytes /\ f.bytes[start + k] = bytes[k]

(* The messages of record r follow one another from start to end, in the   *)
(* multicast protocol each after its length.                               *)
Packed(f, r, start, end) ==
  /\ \A m \in Messages(r) :
       /\ f.at[m] = Header(f) + (IF m = r.first THEN start ELSE EndOf(f, m - 1))
       /\ Has(f, f.at[m], f.messages[m])
       /\ start + Header(f) <= f.at[m] /\ EndOf(f, m) <= end
  /\ end = IF r.count = 0 THEN start ELSE EndOf(f, r.first + r.count - 1)

BinaryFramed(f, r) ==
  LET length == r.end - r.start - 2
  IN  /\ length < Radix * Radix
      /\ Has(f, r.start, <<length \div Radix, length % Radix>>)
      /\ Packed(f, r, r.start + 2, r.end)

SoupFramed(f, r) ==
  /\ r.count <= 1
  /\ Packed(f, r, r.start, r.end - 2)
  /\ Has(f, r.end - 2, <<CR, LF>>)

MoldFramed(f, r) ==
  /\ Has(f, r.start, <<r.first, r.count>>)
  /\ Packed(f, r, r.start + 2, r.end)
  /\ \A m \in Messages(r) : Has(f, f.at[m] - 1, <<Len(f.messages[m])>>)

(* The first message after the records before number i.                    *)
Due(f, i) == IF i = 1 THEN 1 ELSE f.records[i - 1].first + f.records[i - 1].count

(* One record follows the other; the messages between two of them are      *)
(* lost, which happens to the multicast protocol only.  A record without   *)
(* messages ends the session, or is a heartbeat (moldudp).                 *)
WellPlaced(f, i) ==
  LET r == f.records[i]
  IN  /\ r.start = IF i = 1 THEN 0 ELSE f.records[i - 1].end
      /\ \A j \in DOMAIN f.records : j > i => r.end <= f.records[j].start
      /\ Due(f, i) <= r.first /\ r.first + r.count <= Len(f.at) + 1
      /\ \A m \in Due(f, i) .. r.first - 1 : f.at[m] = Lost
      /\ f.format # "moldudp" =>
           r.first = Due(f, i) /\ (r.count = 0 => i = Len(f.records))

(* The places of the messages.  Only the multicast protocol has a length   *)
(* for each of them, and so for an empty one.                              *)
WellOrdered(f) ==
  \A m \in DOMAIN f.at :
    /\ f.format # "moldudp" => f.messages[m] # <<>>
    /\ IF f.at[m] = Lost THEN f.format = "moldudp"
       ELSE \E i \in DOMAIN f.records : m \in Messages(f.records[i])
    /\ \A n \in DOMAIN f.at :
         m < n /\ f.at[m] # Lost /\ f.at[n] # Lost => EndOf(f, m) + Header(f) <= f.at[n]

Placements == [start : Nat, end : Nat, first : Nat \ {0}, count : Nat]

WellFormed(f) ==
  /\ f.messages \in Seq(Seq(Nat))
  /\ f.at \in Seq(Nat \cup {Lost}) /\ Len(f.at) = Len(f.messages)
  /\ f.records \in Seq(Placements) \ {<<>>}
  /\ Due(f, Len(f.records) + 1) = Len(f.at) + 1
  /\ f.bytes \in Seq(Nat)
  /\ Len(f.bytes) = Last(f.records).end /\ Len(f.bytes) + 1 < Modulus
  /\ WellOrdered(f)
  /\ \A i \in DOMAIN f.records :
       /\ WellPlaced(f, i)
       /\ \/ f.format = "binaryfile" /\ BinaryFramed(f, f.records[i])
          \/ f.format = "soupfile" /\ SoupFramed(f, f.records[i])
          \/ f.format = "moldudp" /\ MoldFramed(f, f.records[i])

ASSUME ReaderAssumption ==
  /\ Radix \in Nat /\ Radix > 7 /\ Modulus \in Nat
  /\ \A f \in Files : WellFormed(f)

-----------------------------------------------------------------------------
format == file.format
buffer == SubSeq(file.bytes, 1, Len(file.bytes) - cut)

(* The file may be cut within its last record.                             *)
Init ==
  /\ file \in Files
  /\ cut \in 0 .. Last(file.records).end - Last(file.records).start - 1
  /\ program \in {"demo", "monitor"}
  /\ p = 0 /\ size = Len(buffer)
  /\ payload_len = 0 /\ offset = 0
  /\ _seq_num = 1
  /\ handled = <<>>
  /\ pc = "loop" /\ told = "nothing"

-----------------------------------------------------------------------------
Readable(at, n) == at + n <= Len(buffer)

Value(at) == buffer[at + 1]

(* Beyond the buffer anything may be read, and anything happen: the        *)
(* behaviour ends here.                                                    *)
Beyond ==
  /\ pc' = "beyond"
  /\ UNCHANGED <<input, p, size, payload_len, offset, _seq_num, handled, told>>

(* What the C interface makes of an exception, and what the monitor says.  *)
ErrorOf(e) ==
  CASE e = "unknown_message_type"   -> -1
    [] e = "truncated_packet_error" -> -2
    [] OTHER                        -> -3

helix_strerror(error) ==
  CASE error = -1 -> "unknown message type"
    [] error = -2 -> "truncated packet"
    [] error = -3 -> "unknown error"

(* The exception e, which nothing catches, ends the demo; the monitor      *)
(* exits.                                                                  *)
Throw(e) ==
  /\ \/ program = "demo" /\ told' = e /\ pc' = "terminated"
     \/ program = "monitor" /\ told' = helix_strerror(ErrorOf(e)) /\ pc' = "exited"
  /\ UNCHANGED <<input, p, size, payload_len, offset, _seq_num>>

(* The session begins a record with length bytes, or messages, after the   *)
(* first of them.                                                          *)
Begin(length, first) ==
  /\ pc' = "record"
  /\ payload_len' = length /\ offset' = first
  /\ UNCHANGED <<input, p, size, _seq_num, handled, told>>

(* The end of a session: process_packet returns 0, and main calls it again *)
(* at the same place, for ever.                                            *)
ReturnZero == UNCHANGED vars

(* The operators named Bug... have a mistake that the checks must notice:  *)
(* here, the length is taken as it stands.                                 *)
BugSwapBytes(n) == n

swap_bytes(n) == (n % Radix) * Radix + n \div Radix

BinaryRecord ==
  \/ ~Readable(p, 2) /\ Beyond
  \/ /\ Readable(p, 2)
     /\ LET length == swap_bytes(Value(p) + Radix * Value(p + 1))
        IN  \/ length = 0 /\ ReturnZero
            \/ length # 0 /\ Begin(length, 2)

Terminators == {i \in p .. Len(buffer) - 1 : Value(i) \in {CR, LF}}

(* Only the carriage return is skipped, and the line feed is next.         *)
BugTerminatorSize == 1

TerminatorSize == 2

SoupRecord ==
  \/ ~Readable(p, 1) /\ Beyond
  \/ Readable(p, 1) /\ Terminators = {} /\ Throw("runtime_error") /\ UNCHANGED handled
  \/ \E i \in Terminators :
       /\ \A j \in Terminators : i <= j
       /\ LET terminator_start == i - p
          IN  \/ terminator_start = 0 /\ ReturnZero
              \/ terminator_start # 0
                   /\ Begin(terminator_start, terminator_start + TerminatorSize)

MoldRecord ==
  \/ size < 2 /\ Throw("truncated_packet_error") /\ UNCHANGED handled
  \/ size >= 2 /\ ~Readable(p, 2) /\ Beyond
  \/ /\ size >= 2 /\ Readable(p, 2)
     /\ \/ Value(p) # _seq_num /\ Throw("runtime_error") /\ UNCHANGED handled
        \/ Value(p) = _seq_num /\ Begin(Value(p + 1), 2)

(* main calls process_packet.                                              *)
Call ==
  /\ pc = "loop" /\ size > 0
  /\ \/ format = "binaryfile" /\ BinaryRecord
     \/ format = "soupfile" /\ SoupRecord
     \/ format = "moldudp" /\ MoldRecord

-----------------------------------------------------------------------------
(* Where the next message of the record is.                                *)
MessageAt ==
  CASE format = "binaryfile" -> p + offset
    [] format = "soupfile"   -> p
    [] format = "moldudp"    -> p + offset + 1

(* What the handler has read is not compared with what there is.           *)
BugFits(nr) == TRUE

(* moldudp_session does not ask.                                           *)
Fits(nr) == format = "moldudp" \/ nr <= payload_len

(* binaryfile_session forgets to move on.                                  *)
BugAdvance(nr) ==
  CASE format = "binaryfile" -> payload_len' = payload_len - nr /\ offset' = offset
    [] format = "soupfile"   -> payload_len' = 0 /\ offset' = offset
    [] format = "moldudp"    -> /\ payload_len' = payload_len - 1
                                /\ offset' = offset + 1 + Value(p + offset)

(* After a message of which the handler has read nr bytes.                 *)
Advance(nr) ==
  CASE format = "binaryfile" -> payload_len' = payload_len - nr /\ offset' = offset + nr
    [] format = "soupfile"   -> payload_len' = 0 /\ offset' = offset
    [] format = "moldudp"    -> /\ payload_len' = payload_len - 1
                                /\ offset' = offset + 1 + Value(p + offset)

Accept(at) ==
  LET nr == SizeOf[Value(at)]
  IN  /\ handled' = Append(handled, at)
      /\ \/ /\ Fits(nr)
            /\ Advance(nr)
            /\ _seq_num' = IF format = "moldudp" THEN _seq_num + 1 ELSE _seq_num
            /\ UNCHANGED <<input, p, size, pc, told>>
         \/ ~Fits(nr) /\ Throw("runtime_error")

(* The handler's process_packet: it throws at a type it does not know, and *)
(* may throw at a side or a trade sign.                                    *)
Handle ==
  /\ pc = "record" /\ payload_len > 0
  /\ LET at == MessageAt
     IN  \/ ~Readable(at, 1) /\ Beyond
         \/ /\ Readable(at, 1) /\ Value(at) \notin DOMAIN SizeOf
            /\ Throw("unknown_message_type") /\ UNCHANGED handled
         \/ /\ Readable(at, 1) /\ Value(at) \in DOMAIN SizeOf
            /\ \/ ~Readable(at, SizeOf[Value(at)]) /\ Beyond
               \/ /\ Readable(at, SizeOf[Value(at)])
                  /\ Accept(at) \/ (Throw("invalid_argument") /\ UNCHANGED handled)

(* process_packet returns how much it took: p += nr; size -= nr.           *)
Return ==
  /\ pc = "record" /\ payload_len = 0
  /\ p' = p + offset
  /\ size' = (size - offset) % Modulus
  /\ offset' = 0
  /\ pc' = "loop"
  /\ UNCHANGED <<input, payload_len, _seq_num, handled, told>>

EndOfData ==
  /\ pc = "loop" /\ size = 0
  /\ pc' = "ended"
  /\ UNCHANGED <<input, p, size, payload_len, offset, _seq_num, handled, told>>

Stopped == pc \in {"ended", "exited", "terminated", "beyond"}

Next ==
  \/ Call \/ Handle \/ Return \/ EndOfData
  \/ Stopped /\ UNCHANGED vars

(* The program runs.                                                       *)
Spec == Init /\ [][Next]_vars /\ WF_vars(Next)

-----------------------------------------------------------------------------
TypeOK ==
  /\ p \in Nat /\ size \in 0 .. Modulus - 1
  /\ payload_len \in Nat /\ offset \in Nat
  /\ _seq_num \in 1 .. Len(file.at) + 1
  /\ handled \in Seq(0 .. Len(buffer) - 1)
  /\ pc \in {"loop", "record"} \/ Stopped
  /\ told # "nothing" <=> pc \in {"exited", "terminated"}

(* Where a message that is not as it should be leads the session astray.   *)
(* A binaryfile_session takes each message for as long as its type says,   *)
(* and finds itself at the next record again, or throws; a                 *)
(* soupfile_session takes a terminator within a message for its end, and   *)
(* may never find itself again; a moldudp_session has a length for every   *)
(* message.                                                                *)
Astray(x) ==
  \/ /\ format = "binaryfile"
     /\ \E i \in DOMAIN file.records : \E m \in Messages(file.records[i]) :
          ~Fitting(file.messages[m]) /\ file.at[m] < x /\ x < file.records[i].end
  \/ /\ format = "soupfile"
     /\ \E m \in DOMAIN file.at : ~Clean(file.messages[m]) /\ file.at[m] < x

HandedOver == {handled[k] : k \in DOMAIN handled}

(* Whatever the messages are, the handler gets each that the session is    *)
(* not led astray from, from the first on: in order, none twice, none      *)
(* skipped, and no part of one as another.  So a message of the wrong size *)
(* spoils the rest of its record at most, and in the multicast protocol    *)
(* nothing (binaryfile.hh:77-95, soupfile.hh:67-84, moldudp.hh:79-104,     *)
(* bist-algo-demo.cpp:227-232, itch-monitor.cc:433-443).                   *)
Delivers ==
  /\ \A k \in DOMAIN handled :
       /\ Astray(handled[k]) \/ \E m \in DOMAIN file.at : file.at[m] = handled[k]
       /\ \A j \in 1 .. k - 1 : handled[j] < handled[k]
  /\ \A n \in DOMAIN file.at : file.at[n] \in HandedOver =>
       \A m \in 1 .. n - 1 : Astray(file.at[m]) \/ file.at[m] \in HandedOver

(* The message at hand when the program stops, if there is one.            *)
AtMessage == \E m \in DOMAIN file.at : file.at[m] = MessageAt

AtUnfit ==
  \E m \in DOMAIN file.at : file.at[m] = MessageAt /\ ~Fitting(file.messages[m])

AtUnclean ==
  /\ format = "soupfile"
  /\ \E m \in DOMAIN file.at : file.at[m] = MessageAt /\ ~Clean(file.messages[m])

IsAstray == Astray(MessageAt)

NextIsLost ==
  format = "moldudp" /\ _seq_num \in DOMAIN file.at /\ file.at[_seq_num] = Lost

BadType    == AtUnfit \/ IsAstray
BadMessage == AtMessage \/ IsAstray
BadRecord  ==
  \/ AtUnfit \/ AtUnclean \/ IsAstray \/ NextIsLost
  \/ format = "soupfile" /\ cut > 0
Cut        == format = "moldudp" /\ cut > 0

Means(words) ==
  /\ words \in {"unknown_message_type", "unknown message type"} => BadType
  /\ words \in {"truncated_packet_error", "truncated packet"} => Cut
  /\ words = "invalid_argument" => BadMessage
  /\ words = "runtime_error" => BadRecord
  /\ words = "unknown error" => BadMessage \/ BadRecord

(* The programs stop at a fault of the file only, and tell the right one.  *)
(* If the loop comes to its end, all that the session was not led astray   *)
(* from was handed over, and the file was whole, unless a SOUP session was *)
(* astray; if it leaves the buffer, the file was cut, or the message at    *)
(* hand is not what its type says, or the session is astray; what the      *)
(* monitor prints is true, although all exceptions pass through three      *)
(* numbers (helix.cc:59-67, 115-130, itch-monitor.cc:433-443).             *)
StopsForAReason ==
  /\ pc = "ended"  =>
       /\ cut = 0 \/ IsAstray
       /\ \A m \in DOMAIN file.at : Astray(file.at[m]) \/ file.at[m] \in HandedOver
  /\ pc = "beyond" => cut > 0 \/ AtUnfit \/ IsAstray
  /\ pc \in {"exited", "terminated"} => Means(told)

(* The loops end, with one exception: process_packet returns 0 at the end  *)
(* of a session, if the file has one, and, in a soupfile_session, where a  *)
(* message begins with a terminator or the session is astray; the loops do *)
(* not notice and go on for ever (binaryfile.hh:81-84, soupfile.hh:75-77,  *)
(* bist-algo-demo.cpp:227-232, itch-monitor.cc:433-443).                   *)
AtEndOfSession ==
  /\ format # "moldudp" /\ Last(file.records).count = 0
  /\ p = Last(file.records).start
  /\ \A m \in DOMAIN file.at : Astray(file.at[m]) \/ file.at[m] \in HandedOver

AtTerminator ==
  /\ format = "soupfile" /\ pc = "loop" /\ p \in Terminators
  /\ AtUnclean \/ IsAstray

EndsOrSpins == <>(Stopped \/ AtEndOfSession \/ AtTerminator)

=============================================================================
