--------------------------- MODULE MoldUdp64Proofs ---------------------------
(***************************************************************************)
(* The safety of moldudp64_session, for any number of messages, size of    *)
(* the packets, and any number of losses and repetitions.                  *)
(***************************************************************************)
EXTENDS MoldUdp64, SequenceTheorems, TLAPS

(* Packets hold messages that the server has sent, and what was sound of   *)
(* what the loop did are such messages.                                    *)
WireKnown ==
  /\ sound <= published
  /\ \A p \in wire : /\ p.seq <= published + 1
                     /\ p.held <= p.count /\ p.seq + p.held <= published + 1

IInv == TypeOK /\ HandledInOrder /\ GapKnown /\ NotForgotten /\ WireKnown

LEMMA InitInv == Init => IInv
BY MoldAssumption
DEF Init, IInv, TypeOK, HandledInOrder, GapKnown, NotForgotten, WireKnown, Nullopt, Beyond

Blocks == [no : 0 .. MaxSeq, passed : BOOLEAN, sync : BOOLEAN]

LEMMA FunctionSeq ==
  ASSUME NEW M, NEW n \in Nat, NEW t \in [1 .. n -> M]
  PROVE  t \in Seq(M) /\ Len(t) = n
<1>1. t \in Seq(M)
  BY SeqDef
<1>2. Len(t) \in Nat /\ 1 .. Len(t) = 1 .. n
  BY <1>1, LenProperties
<1>3. QED BY <1>1, <1>2

LEMMA PacketFields ==
  ASSUME NEW p \in Packets
  PROVE  /\ p.seq \in 1 .. MaxSeq + 1 /\ p.count \in 0 .. MaxBatch
         /\ p.held \in 0 .. MaxBatch
BY Zenon DEF Packets

LEMMA BlockMade ==
  ASSUME NEW m \in 0 .. MaxSeq, NEW c \in BOOLEAN, NEW b \in BOOLEAN
  PROVE  /\ [no |-> m, passed |-> c, sync |-> b] \in Blocks
         /\ [no |-> m, passed |-> c, sync |-> b].no = m
         /\ [no |-> m, passed |-> c, sync |-> b].passed = c
BY Zenon DEF Blocks

(* The run over the first n messages of the packet that is due continues   *)
(* the sequence, and what is sound of it are the server's messages.        *)
LEMMA HandledContinues ==
  ASSUME TypeOK, HandledInOrder, NEW p \in Packets, Due(p), NEW n \in Nat,
         p.seq + p.held <= published + 1, sound <= published,
         NEW longer, longer = Handled(p, n), NEW s, s = Sound(p, n)
  PROVE  /\ longer \in Seq(Blocks)
         /\ Len(longer) = _expected_seq_no + n - 1
         /\ \A i \in DOMAIN longer :
              \/ longer[i].no = i /\ (longer[i].passed <=> i \notin empty)
              \/ longer[i].no = Beyond /\ s < i
         /\ s < Len(longer) => longer[s + 1].no = Beyond
         /\ s <= Len(longer) /\ s \in 0 .. MaxSeq /\ s <= published /\ sound <= s
         /\ \A i \in 1 .. sound : longer[i] = handled[i]
<1> DEFINE t == [j \in 1 .. n |-> Block(p, j)]
<1>1. /\ p.seq \in Nat \ {0} /\ 1 <= p.seq /\ _expected_seq_no = p.seq
      /\ p.held \in Nat /\ p.count \in Nat /\ MaxSeq \in Nat
      /\ published \in 0 .. MaxSeq /\ sound \in Nat
  <2>1. published \in 0 .. MaxSeq /\ sound \in 0 .. MaxSeq /\ _expected_seq_no = p.seq
    BY Zenon DEF TypeOK, Due
  <2>2. QED BY <2>1, PacketFields, MoldAssumption
<1>2. longer = handled \o t
  BY DEF Handled
<1>3. ASSUME NEW j \in 1 .. n
      PROVE  /\ Block(p, j) \in Blocks
             /\ j <= p.held => /\ Block(p, j).no = p.seq + j - 1
                               /\ Block(p, j).passed <=> p.seq + j - 1 \notin empty
             /\ ~(j <= p.held) => Block(p, j).no = Beyond
  <2>1. j <= p.held => p.seq + j - 1 \in 0 .. MaxSeq
    BY <1>1
  <2>2. (IF j <= p.held THEN p.seq + j - 1 ELSE Beyond) \in 0 .. MaxSeq
    BY <1>1, <2>1 DEF Beyond
  <2> DEFINE m == IF j <= p.held THEN p.seq + j - 1 ELSE Beyond
             c == j <= p.held => p.seq + j - 1 \notin empty
             b == _state = "synchronized"
  <2>3. c \in BOOLEAN /\ b \in BOOLEAN /\ m \in 0 .. MaxSeq
    BY <2>2, Zenon
  <2>4. Block(p, j) = [no |-> m, passed |-> c, sync |-> b]
    BY Zenon DEF Block
  <2>5. /\ j <= p.held => m = p.seq + j - 1 /\ (c <=> p.seq + j - 1 \notin empty)
        /\ ~(j <= p.held) => m = Beyond
    BY Zenon
  <2> HIDE DEF m, c, b
  <2>6. /\ Block(p, j) \in Blocks
        /\ Block(p, j).no = m /\ Block(p, j).passed = c
    <3>1. /\ [no |-> m, passed |-> c, sync |-> b] \in Blocks
          /\ [no |-> m, passed |-> c, sync |-> b].no = m
          /\ [no |-> m, passed |-> c, sync |-> b].passed = c
      BY ONLY <2>3, BlockMade
    <3>2. QED BY <2>4, <3>1, Zenon
  <2>7. QED BY <2>5, <2>6, Zenon
<1>4. t \in Seq(Blocks) /\ Len(t) = n /\ \A j \in 1 .. n : t[j] = Block(p, j)
  <2>1. t \in [1 .. n -> Blocks] /\ \A j \in 1 .. n : t[j] = Block(p, j)
    BY <1>3
  <2> HIDE DEF t
  <2>2. QED BY <2>1, FunctionSeq
<1>5. handled \in Seq(Blocks) /\ Len(handled) = p.seq - 1
  BY <1>1 DEF TypeOK, Blocks, HandledInOrder
<1> HIDE DEF t
<1>6. /\ longer \in Seq(Blocks)
      /\ Len(longer) = p.seq + n - 1 /\ DOMAIN longer = 1 .. p.seq + n - 1
      /\ \A i \in 1 .. p.seq + n - 1 :
           longer[i] = IF i <= p.seq - 1 THEN handled[i] ELSE t[i - (p.seq - 1)]
  <2>1. /\ longer \in Seq(Blocks)
        /\ Len(longer) = Len(handled) + Len(t)
        /\ \A i \in 1 .. Len(handled) + Len(t) :
             longer[i] = IF i <= Len(handled) THEN handled[i]
                                              ELSE t[i - Len(handled)]
    BY <1>2, <1>4, <1>5, ConcatProperties
  <2>2. DOMAIN longer = 1 .. Len(longer)
    BY <2>1, LenProperties
  <2>3. QED BY <1>1, <1>4, <1>5, <2>1, <2>2
<1>7. /\ sound <= p.seq - 1
      /\ sound < p.seq - 1 => handled[sound + 1].no = Beyond
      /\ \A i \in 1 .. p.seq - 1 :
           \/ handled[i].no = i /\ (handled[i].passed <=> i \notin empty)
           \/ handled[i].no = Beyond /\ sound < i
  <2>1. DOMAIN handled = 1 .. p.seq - 1
    BY <1>5, LenProperties
  <2>2. QED BY <1>5, <2>1 DEF HandledInOrder
<1>8. /\ s \in Nat /\ sound <= s /\ s <= p.seq + n - 1 /\ s <= published
      /\ \/ sound < p.seq - 1 /\ s = sound
         \/ sound = p.seq - 1 /\ n <= p.held /\ s = sound + n
         \/ sound = p.seq - 1 /\ p.held < n /\ s = sound + p.held
  <2>1. CASE sound < p.seq - 1
    <3>1. s = sound
      BY <1>5, <2>1, Zenon DEF Sound
    <3>2. QED BY <1>1, <2>1, <3>1
  <2>2. CASE ~(sound < p.seq - 1)
    <3>1. sound = p.seq - 1
      BY <1>1, <1>7, <2>2
    <3>2. s = IF n <= p.held THEN sound + n ELSE sound + p.held
      BY <1>5, <2>2, Zenon DEF Sound
    <3>3. CASE n <= p.held
      BY <1>1, <3>1, <3>2, <3>3
    <3>4. CASE ~(n <= p.held)
      BY <1>1, <3>1, <3>2, <3>4
    <3>5. QED BY <3>3, <3>4
  <2>3. QED BY <2>1, <2>2
<1>14. ASSUME NEW j \in 1 .. n PROVE longer[p.seq + j - 1] = Block(p, j)
  <2> DEFINE i == p.seq + j - 1
  <2>1. i \in 1 .. p.seq + n - 1 /\ ~(i <= p.seq - 1) /\ i - (p.seq - 1) = j
    BY <1>1
  <2> HIDE DEF i
  <2>2. longer[i] = IF i <= p.seq - 1 THEN handled[i] ELSE t[i - (p.seq - 1)]
    BY <1>6, <2>1, Zenon
  <2>3. longer[i] = Block(p, j)
    BY <1>4, <2>1, <2>2, Zenon
  <2>4. QED BY <2>3 DEF i
<1>9. ASSUME NEW i \in 1 .. p.seq + n - 1
      PROVE  \/ longer[i].no = i /\ (longer[i].passed <=> i \notin empty)
             \/ longer[i].no = Beyond /\ s < i
  <2>1. CASE i <= p.seq - 1
    <3>1. longer[i] = handled[i] /\ i \in 1 .. p.seq - 1
      BY <1>1, <1>6, <2>1
    <3>2. sound < i => s = sound
      BY <1>1, <1>8, <2>1
    <3>3. QED BY <1>7, <3>1, <3>2
  <2>2. CASE ~(i <= p.seq - 1)
    <3>1. PICK k \in 1 .. n : i = p.seq + k - 1
      <4>1. i - (p.seq - 1) \in 1 .. n /\ i = p.seq + (i - (p.seq - 1)) - 1
        BY <1>1, <2>2
      <4>2. QED BY <4>1
    <3>2. longer[i] = Block(p, k)
      BY <1>14, <3>1, Zenon
    <3>3. ~(k <= p.held) => s < i
      BY <1>1, <1>8, <3>1
    <3>4. /\ k <= p.held => /\ Block(p, k).no = i
                            /\ Block(p, k).passed <=> i \notin empty
          /\ ~(k <= p.held) => Block(p, k).no = Beyond
      BY <1>3, <3>1, Zenon
    <3>5. QED BY <3>2, <3>3, <3>4, Zenon
  <2>3. QED BY <2>1, <2>2
<1>10. ASSUME s < p.seq + n - 1 PROVE longer[s + 1].no = Beyond
  <2>1. s + 1 \in 1 .. p.seq + n - 1
    BY <1>1, <1>8, <1>10
  <2>2. CASE sound < p.seq - 1
    BY <1>1, <1>6, <1>7, <1>8, <2>1, <2>2
  <2>3. CASE ~(sound < p.seq - 1)
    <3>1. sound = p.seq - 1 /\ s = sound + p.held /\ p.held < n
      BY <1>1, <1>7, <1>8, <1>10, <2>3
    <3>2. p.held + 1 \in 1 .. n /\ ~(p.held + 1 <= p.held)
          /\ p.seq + (p.held + 1) - 1 = s + 1
      BY <1>1, <3>1
    <3>3. longer[s + 1] = Block(p, p.held + 1)
      BY <1>14, <3>2
    <3>4. QED BY <1>3, <3>2, <3>3, Zenon
  <2>4. QED BY <2>2, <2>3
<1>11. ASSUME NEW i \in 1 .. sound PROVE longer[i] = handled[i]
  BY <1>1, <1>6, <1>7, <1>11
<1>12. s \in 0 .. MaxSeq
  BY <1>1, <1>8
<1>13. QED BY <1>1, <1>6, <1>8, <1>9, <1>10, <1>11, <1>12

LEMMA PacketMade ==
  ASSUME NEW i \in 1 .. MaxSeq + 1, NEW n \in 0 .. MaxBatch, NEW h \in 0 .. MaxBatch,
         NEW b \in BOOLEAN
  PROVE  [seq |-> i, count |-> n, held |-> h, again |-> b] \in Packets
BY Zenon DEF Packets

LEMMA WirePacket ==
  ASSUME IInv, NEW p \in wire
  PROVE  /\ p \in Packets /\ p.seq \in 1 .. MaxSeq + 1 /\ p.count \in 0 .. MaxBatch
         /\ p.held \in 0 .. MaxBatch /\ p.held <= p.count
         /\ p.seq <= published + 1 /\ p.seq + p.held <= published + 1
<1>1. p \in Packets
  BY Zenon DEF IInv, TypeOK
<1>2. p.seq <= published + 1 /\ p.held <= p.count /\ p.seq + p.held <= published + 1
  BY Zenon DEF IInv, WireKnown
<1>3. QED BY <1>1, <1>2, PacketFields

LEMMA Numbers ==
  ASSUME IInv
  PROVE  /\ MaxSeq \in Nat /\ MaxBatch \in Nat
         /\ MaxRepeats \in Nat /\ MaxLosses \in Nat
         /\ published \in 0 .. MaxSeq
         /\ _expected_seq_no \in 1 .. MaxSeq + 1 + MaxBatch
         /\ _sync_to_seq_no \in 0 .. MaxSeq + 1 /\ sound \in 0 .. MaxSeq
         /\ repeats \in 0 .. MaxRepeats /\ losses \in 0 .. MaxLosses
         /\ requests \subseteq Requests /\ lost \subseteq 0 .. MaxSeq + 1
BY MoldAssumption, Zenon DEF IInv, TypeOK

(* What the handler has been given stays right while nothing is handed     *)
(* over.                                                                   *)
LEMMA NothingHandled ==
  ASSUME IInv, UNCHANGED <<handled, sound, empty, _expected_seq_no>>
  PROVE  HandledInOrder' /\ handled' \in Seq(Blocks)
BY DEF IInv, TypeOK, HandledInOrder, Blocks

(* The server and the network do not change the session.                   *)
LEMMA MulticastInv ==
  ASSUME IInv, NEW n \in 1 .. MaxBatch, Multicast(n)
  PROVE  IInv'
<1> DEFINE p == [seq |-> published + 1, count |-> n, held |-> n, again |-> FALSE]
<1>1. /\ p \in Packets /\ p.seq = published + 1 /\ p.count = n /\ p.held = n
      /\ published' = published + n /\ published' \in 0 .. MaxSeq
      /\ published <= published'
  <2>1. /\ published + 1 \in 1 .. MaxSeq + 1 /\ n \in 0 .. MaxBatch
        /\ published' = published + n /\ published' \in 0 .. MaxSeq
        /\ published <= published'
    BY Numbers DEF Multicast
  <2>2. p \in Packets
    BY <2>1, PacketMade
  <2>3. QED BY <2>1, <2>2
<1>2. wire' = wire \cup {p}
  BY DEF Multicast
<1> HIDE DEF p
<1>3. TypeOK'
  BY <1>1, <1>2, Zenon DEF IInv, TypeOK, Multicast, sessionVars, given
<1>4. HandledInOrder'
  BY NothingHandled DEF Multicast, sessionVars, given
<1>5. GapKnown'
  <2>1. _sync_to_seq_no <= published + 1 => _sync_to_seq_no <= published' + 1
    BY <1>1, Numbers
  <2>2. QED BY <2>1 DEF IInv, GapKnown, Multicast, sessionVars
<1>6. NotForgotten'
  BY DEF IInv, NotForgotten, htobe64, Multicast, sessionVars, given
<1>7. WireKnown'
  <2>1. ASSUME NEW x \in wire'
        PROVE  /\ x.seq <= published' + 1
               /\ x.held <= x.count /\ x.seq + x.held <= published' + 1
    <3>1. CASE x \in wire
      BY <1>1, <3>1, WirePacket, Numbers
    <3>2. CASE x = p
      BY <1>1, <3>2, Numbers
    <3>3. QED BY <1>2, <3>1, <3>2
  <2>2. sound' <= published'
    BY <1>1, Numbers DEF IInv, WireKnown, Multicast, sessionVars
  <2>3. QED BY <2>1, <2>2 DEF WireKnown
<1>8. QED BY <1>3, <1>4, <1>5, <1>6, <1>7 DEF IInv

(* A packet without messages joins those in flight.                        *)
LEMMA NothingHeld ==
  ASSUME IInv, NEW n \in 0 .. MaxBatch,
         wire' = wire \cup {[seq |-> published + 1, count |-> n, held |-> 0,
                             again |-> FALSE]},
         UNCHANGED <<sessionVars, serverVars, given, requests>>
  PROVE  IInv'
<1> DEFINE p == [seq |-> published + 1, count |-> n, held |-> 0, again |-> FALSE]
<1>1. p \in Packets /\ p.seq = published + 1 /\ p.count = n /\ p.held = 0
  <2>1. published + 1 \in 1 .. MaxSeq + 1 /\ 0 \in 0 .. MaxBatch
    BY Numbers
  <2>2. QED BY <2>1, PacketMade
<1>2. wire' = wire \cup {p}
  OBVIOUS
<1> HIDE DEF p
<1>3. TypeOK'
  BY <1>1, <1>2, Zenon DEF IInv, TypeOK, sessionVars, serverVars, given
<1>4. HandledInOrder'
  BY NothingHandled DEF sessionVars, given
<1>5. GapKnown'
  BY DEF IInv, GapKnown, sessionVars, serverVars
<1>6. NotForgotten'
  BY DEF IInv, NotForgotten, htobe64, sessionVars, serverVars, given
<1>7. WireKnown'
  BY <1>1, <1>2, Numbers DEF IInv, WireKnown, sessionVars, serverVars
<1>8. QED BY <1>3, <1>4, <1>5, <1>6, <1>7 DEF IInv

LEMMA SilenceInv ==
  ASSUME IInv, Heartbeat \/ EndSession
  PROVE  IInv'
<1>1. 0 \in 0 .. MaxBatch /\ MaxBatch \in 0 .. MaxBatch
  BY Numbers
<1>2. CASE Heartbeat
  BY <1>1, <1>2, NothingHeld DEF Heartbeat
<1>3. CASE EndSession
  BY <1>1, <1>3, NothingHeld DEF EndSession
<1>4. QED BY <1>2, <1>3

LEMMA AnswerInv ==
  ASSUME IInv, NEW n \in 1 .. MaxBatch, NEW r \in requests, Answer(r, n)
  PROVE  IInv'
<1> DEFINE p == [seq |-> r.seq, count |-> n, held |-> n, again |-> TRUE]
<1>1. r.seq \in 1 .. MaxSeq /\ r.seq + n <= published + 1 /\ r.seq <= published + 1
      /\ n > 0
  <2>1. r \in Requests /\ r.seq # 0 /\ r.seq + n <= published + 1
    BY Numbers, Zenon DEF Answer, Understood, Swapped
  <2>2. r.seq \in 0 .. MaxSeq
    BY <2>1, Zenon DEF Requests
  <2>3. QED BY <2>1, <2>2, Numbers
<1>2. p \in Packets /\ p.seq = r.seq /\ p.count = n /\ p.held = n /\ p.again
  <2>1. r.seq \in 1 .. MaxSeq + 1 /\ n \in 0 .. MaxBatch
    BY <1>1, MoldAssumption
  <2>2. QED BY <2>1, PacketMade
<1>3. wire' = wire \cup {p} /\ requests' = requests \ {r}
  BY DEF Answer
<1> HIDE DEF p
<1>4. TypeOK'
  BY <1>2, <1>3, Zenon DEF IInv, TypeOK, Answer, sessionVars, serverVars, given
<1>5. HandledInOrder'
  BY NothingHandled DEF Answer, sessionVars, given
<1>6. GapKnown'
  BY DEF IInv, GapKnown, Answer, sessionVars, serverVars
<1>7. NotForgotten'
  <2>1. UNCHANGED <<_state, fault, _expected_seq_no, converts, lost>>
    BY DEF Answer, sessionVars, serverVars, given
  <2>2. ASSUME _state = "gap_fill", fault = "none",
               r.seq = htobe64(_expected_seq_no)
        PROVE  p \in wire' /\ p.again /\ p.seq = _expected_seq_no /\ p.count > 0
    BY <1>1, <1>2, <1>3, <2>2 DEF htobe64, Swapped
  <2>3. QED BY <1>3, <2>1, <2>2 DEF IInv, NotForgotten, htobe64
<1>8. WireKnown'
  BY <1>1, <1>2, <1>3 DEF IInv, WireKnown, Answer, sessionVars, serverVars
<1>9. QED BY <1>4, <1>5, <1>6, <1>7, <1>8 DEF IInv

(* The loss of an answer is noted.                                         *)
LEMMA LoseInv ==
  ASSUME IInv, NEW p \in wire, Lose(p)
  PROVE  IInv'
<1>1. lost \subseteq lost' /\ (p.again => p.seq \in lost')
  BY Zenon DEF Lose
<1>2. TypeOK'
  <2>1. losses' \in 0 .. MaxLosses
    BY Numbers DEF Lose
  <2>2. wire' \subseteq Packets
    BY Zenon DEF IInv, TypeOK, Lose
  <2>3. lost' \subseteq 0 .. MaxSeq + 1
    <3>1. p.seq \in 0 .. MaxSeq + 1
      BY WirePacket, Numbers
    <3>2. QED BY <3>1, Numbers, Zenon DEF Lose
  <2>4. QED BY <2>1, <2>2, <2>3, Zenon DEF IInv, TypeOK, Lose, sessionVars, given
<1>3. HandledInOrder'
  BY NothingHandled DEF Lose, sessionVars, given
<1>4. GapKnown'
  BY DEF IInv, GapKnown, Lose, sessionVars
<1>5. NotForgotten'
  BY <1>1 DEF IInv, NotForgotten, htobe64, Lose, sessionVars, given
<1>6. WireKnown'
  BY DEF IInv, WireKnown, Lose, sessionVars
<1>7. QED BY <1>2, <1>3, <1>4, <1>5, <1>6 DEF IInv

(* A datagram that was cut is the same but for what it holds.              *)
LEMMA CutInv ==
  ASSUME IInv, NEW p \in wire, NEW n \in 0 .. MaxBatch, Cut(p, n)
  PROVE  IInv'
<1> DEFINE q == [p EXCEPT !.held = n]
<1>1. /\ q \in Packets /\ q.seq = p.seq /\ q.count = p.count /\ q.held = n
      /\ q.again = p.again
  <2>1. p \in Packets
    BY WirePacket
  <2>2. QED BY <2>1 DEF Packets
<1>2. wire' = (wire \ {p}) \cup {q} /\ n < p.held
  BY DEF Cut
<1>3. n <= q.count /\ q.seq <= published + 1 /\ q.seq + n <= published + 1
  BY <1>1, <1>2, WirePacket, Numbers
<1> HIDE DEF q
<1>4. TypeOK'
  <2>1. losses' \in 0 .. MaxLosses
    BY Numbers DEF Cut
  <2>2. wire' \subseteq Packets
    BY <1>1, <1>2, Zenon DEF IInv, TypeOK
  <2>3. QED BY <2>1, <2>2, Zenon DEF IInv, TypeOK, Cut, sessionVars, given
<1>5. HandledInOrder'
  BY NothingHandled DEF Cut, sessionVars, given
<1>6. GapKnown'
  BY DEF IInv, GapKnown, Cut, sessionVars
<1>7. NotForgotten'
  BY <1>1, <1>2 DEF IInv, NotForgotten, htobe64, Cut, sessionVars, given
<1>8. WireKnown'
  BY <1>1, <1>2, <1>3 DEF IInv, WireKnown, Cut, sessionVars
<1>9. QED BY <1>4, <1>5, <1>6, <1>7, <1>8 DEF IInv

LEMMA LoseRequestInv ==
  ASSUME IInv, NEW r \in requests, LoseRequest(r)
  PROVE  IInv'
<1>1. requests' = requests \ {r} /\ lost' = lost \cup {r.seq}
  BY DEF LoseRequest
<1>2. TypeOK'
  <2>1. losses' \in 0 .. MaxLosses
    BY Numbers DEF LoseRequest
  <2>2. r.seq \in 0 .. MaxSeq + 1
    <3>1. r.seq \in 0 .. MaxSeq
      BY Numbers, Zenon DEF Requests
    <3>2. QED BY <3>1, Numbers
  <2>3. lost' \subseteq 0 .. MaxSeq + 1 /\ requests' \subseteq Requests
    BY <1>1, <2>2, Numbers, Zenon
  <2>4. QED BY <2>1, <2>3, Zenon DEF IInv, TypeOK, LoseRequest, sessionVars, given
<1>3. HandledInOrder'
  BY NothingHandled DEF LoseRequest, sessionVars, given
<1>4. GapKnown'
  BY DEF IInv, GapKnown, LoseRequest, sessionVars
<1>5. NotForgotten'
  BY <1>1 DEF IInv, NotForgotten, htobe64, LoseRequest, sessionVars, given
<1>6. WireKnown'
  BY DEF IInv, WireKnown, LoseRequest, sessionVars
<1>7. QED BY <1>2, <1>3, <1>4, <1>5, <1>6 DEF IInv

(* A packet leaves the network, or stays for another time.                 *)
LEMMA ReceiveWire ==
  ASSUME IInv, NEW p \in wire, Receive(p)
  PROVE  /\ wire' \subseteq wire /\ wire \ {p} \subseteq wire'
         /\ repeats' \in 0 .. MaxRepeats
         /\ UNCHANGED <<given, published, losses, lost>>
<1>1. /\ \/ wire' = wire \ {p} /\ repeats' = repeats
         \/ repeats < MaxRepeats /\ repeats' = repeats + 1 /\ wire' = wire
      /\ UNCHANGED <<given, published, losses, lost>>
  BY DEF Receive
<1>2. QED BY <1>1, Numbers

(* A request for the first missing message is made, in this build's words. *)
LEMMA RequestType ==
  ASSUME IInv, NEW n \in 1 .. MaxSeq, retransmit_request(n)
  PROVE  /\ requests' \subseteq Requests /\ requests \subseteq requests'
         /\ fault' \in {"none", "handler", "invalid sequence number"}
         /\ fault' = "none" => \E r \in requests' : r.seq = htobe64(n)
<1>1. fault \in {"none", "handler", "invalid sequence number"}
  BY Zenon DEF IInv, TypeOK
<1>2. htobe64(n) \in 0 .. MaxSeq
  BY Numbers DEF htobe64, Swapped
<1>3. CASE can_send
  <2>1. PICK b \in BOOLEAN :
          requests' = requests \cup {[seq |-> htobe64(n), named |-> b]}
    BY <1>3, Zenon DEF retransmit_request
  <2>2. fault' = fault
    BY <1>3, Zenon DEF retransmit_request
  <2> DEFINE r == [seq |-> htobe64(n), named |-> b]
  <2>3. r \in Requests /\ r.seq = htobe64(n) /\ requests' = requests \cup {r}
    BY <1>2, <2>1, Zenon DEF Requests
  <2> HIDE DEF r
  <2>4. QED BY <1>1, <2>2, <2>3, Numbers, Zenon
<1>4. CASE ~can_send
  BY <1>4, Numbers, Zenon DEF retransmit_request
<1>5. QED BY <1>3, <1>4

LEMMA OldInv ==
  ASSUME IInv, NEW p \in wire, Receive(p), Old(p)
  PROVE  IInv'
<1>1. TypeOK'
  <2>1. wire' \subseteq Packets /\ repeats' \in 0 .. MaxRepeats
    BY ReceiveWire, Zenon DEF IInv, TypeOK
  <2>2. QED BY <2>1, ReceiveWire, Zenon DEF IInv, TypeOK, Old, sessionVars, given
<1>2. HandledInOrder'
  BY NothingHandled, ReceiveWire DEF Old, sessionVars, given
<1>3. GapKnown'
  BY ReceiveWire DEF IInv, GapKnown, Old, sessionVars
<1>4. NotForgotten'
  <2>1. p.seq # _expected_seq_no
    BY WirePacket, Numbers DEF Old
  <2>2. QED BY <2>1, ReceiveWire DEF IInv, NotForgotten, htobe64, Old, sessionVars, given
<1>5. WireKnown'
  BY ReceiveWire DEF IInv, WireKnown, Old, sessionVars
<1>6. QED BY <1>1, <1>2, <1>3, <1>4, <1>5 DEF IInv

LEMMA EarlyInv ==
  ASSUME IInv, fault = "none", NEW p \in wire, Receive(p), Early(p)
  PROVE  IInv'
<1>1. /\ p.seq \in 1 .. MaxSeq + 1 /\ p.seq <= published + 1
      /\ published \in 0 .. MaxSeq /\ _expected_seq_no \in 1 .. MaxSeq
  BY WirePacket, Numbers DEF Early
<1>2. \/ retransmit_request(_expected_seq_no) /\ _state = "synchronized"
      \/ requests' = requests /\ fault' = fault /\ _state = "gap_fill"
  BY DEF Early, Quiet
<1>3. /\ requests' \subseteq Requests
      /\ fault' \in {"none", "handler", "invalid sequence number"}
  BY <1>1, <1>2, RequestType DEF IInv, TypeOK
<1>4. TypeOK'
  <2>1. wire' \subseteq Packets /\ repeats' \in 0 .. MaxRepeats
    BY ReceiveWire, Zenon DEF IInv, TypeOK
  <2>2. p.seq \in 0 .. MaxSeq + 1
    BY <1>1
  <2>3. QED BY <1>3, <2>1, <2>2, ReceiveWire, Zenon DEF IInv, TypeOK, Early, given
<1>5. HandledInOrder'
  BY NothingHandled, ReceiveWire DEF Early, given
<1>6. GapKnown'
  BY <1>1, ReceiveWire DEF GapKnown, Early, Nullopt
<1>7. NotForgotten'
  <2>1. p.seq # _expected_seq_no
    BY <1>1 DEF Early
  <2>2. CASE _state = "synchronized"
    BY <1>1, <1>2, <2>2, RequestType, ReceiveWire DEF NotForgotten, htobe64, Early, given
  <2>3. CASE _state = "gap_fill"
    BY <1>2, <2>1, <2>3, ReceiveWire DEF IInv, NotForgotten, htobe64, Early, given
  <2>4. QED BY <2>2, <2>3, <1>2
<1>8. WireKnown'
  BY <1>1, <1>3, ReceiveWire DEF IInv, WireKnown, Early
<1>9. QED BY <1>4, <1>5, <1>6, <1>7, <1>8 DEF IInv

(* What is common to the packet that is due and its first n messages.      *)
LEMMA DuePacket ==
  ASSUME IInv, NEW p \in wire, Due(p), NEW n \in Nat, n <= p.count, UNCHANGED empty,
         handled' = Handled(p, n), sound' = Sound(p, n),
         _expected_seq_no' = _expected_seq_no + n
  PROVE  /\ HandledInOrder' /\ handled' \in Seq(Blocks)
         /\ _expected_seq_no' \in 1 .. MaxSeq + 1 + MaxBatch
         /\ sound' \in 0 .. MaxSeq /\ sound' <= published /\ sound <= sound'
         /\ \A i \in 1 .. sound : handled'[i] = handled[i]
<1>1. /\ p \in Packets /\ p.seq \in 1 .. MaxSeq + 1 /\ p.count \in 0 .. MaxBatch
      /\ p.seq + p.held <= published + 1 /\ MaxSeq \in Nat /\ MaxBatch \in Nat
  BY WirePacket, MoldAssumption
<1>2. sound <= published /\ TypeOK /\ HandledInOrder
  BY DEF IInv, WireKnown
<1>3. /\ handled' \in Seq(Blocks)
      /\ Len(handled') = _expected_seq_no + n - 1
      /\ \A i \in DOMAIN handled' :
           \/ handled'[i].no = i /\ (handled'[i].passed <=> i \notin empty)
           \/ handled'[i].no = Beyond /\ sound' < i
      /\ sound' < Len(handled') => handled'[sound' + 1].no = Beyond
      /\ sound' <= Len(handled') /\ sound' \in 0 .. MaxSeq /\ sound' <= published
      /\ sound <= sound' /\ \A i \in 1 .. sound : handled'[i] = handled[i]
  BY <1>1, <1>2, HandledContinues
<1>4. /\ _expected_seq_no' \in 1 .. MaxSeq + 1 + MaxBatch
      /\ Len(handled') = _expected_seq_no' - 1
  BY <1>1, <1>3 DEF Due
<1>5. QED BY <1>3, <1>4 DEF HandledInOrder

LEMMA ExpectedInv ==
  ASSUME IInv, fault = "none", NEW p \in wire, Receive(p), Expected(p)
  PROVE  IInv'
<1> DEFINE next == _expected_seq_no + p.count
<1>1. /\ HandledInOrder' /\ handled' \in Seq(Blocks)
      /\ next \in 1 .. MaxSeq + 1 + MaxBatch /\ _expected_seq_no' = next
      /\ sound' \in 0 .. MaxSeq /\ sound' <= published
  <2>1. p.count \in Nat /\ p.count <= p.count /\ UNCHANGED empty
    BY WirePacket, ReceiveWire, MoldAssumption DEF given
  <2>2. QED BY <2>1, DuePacket DEF Expected
<1>2. \/ /\ _state = "synchronized" /\ _state' = _state
         /\ _sync_to_seq_no' = _sync_to_seq_no
         /\ requests' = requests /\ fault' = fault
      \/ /\ _state = "gap_fill" /\ _state' = "synchronized"
         /\ _sync_to_seq_no' = Nullopt
         /\ requests' = requests /\ fault' = fault
      \/ /\ _state = "gap_fill" /\ _state' = _state
         /\ _sync_to_seq_no' = _sync_to_seq_no
         /\ ~(next >= _sync_to_seq_no) /\ retransmit_request(next)
  BY DEF Expected, Quiet, Filled
<1> HIDE DEF next
<1>3. CASE requests' = requests /\ fault' = fault /\ _state' = "synchronized"
  <2>1. _sync_to_seq_no' = Nullopt
    BY <1>2, <1>3 DEF IInv, GapKnown
  <2>2. TypeOK'
    <3>1. wire' \subseteq Packets /\ repeats' \in 0 .. MaxRepeats
      BY ReceiveWire, Zenon DEF IInv, TypeOK
    <3>2. _sync_to_seq_no' \in 0 .. MaxSeq + 1
      BY <2>1, MoldAssumption DEF Nullopt
    <3>3. QED BY <1>1, <1>3, <3>1, <3>2, ReceiveWire, Zenon DEF IInv, TypeOK, Blocks, given
  <2>3. GapKnown' /\ NotForgotten'
    BY <1>3, <2>1 DEF GapKnown, NotForgotten
  <2>4. WireKnown'
    BY <1>1, <1>3, ReceiveWire DEF IInv, WireKnown
  <2>5. QED BY <1>1, <2>2, <2>3, <2>4 DEF IInv
<1>4. CASE /\ _state = "gap_fill" /\ _state' = _state
           /\ _sync_to_seq_no' = _sync_to_seq_no
           /\ ~(next >= _sync_to_seq_no) /\ retransmit_request(next)
  <2>1. /\ next < _sync_to_seq_no /\ _sync_to_seq_no <= published + 1
        /\ _sync_to_seq_no # Nullopt /\ published \in 0 .. MaxSeq
        /\ _sync_to_seq_no \in 0 .. MaxSeq + 1
    BY <1>1, <1>4, MoldAssumption DEF IInv, TypeOK, GapKnown
  <2>2. next \in 1 .. MaxSeq
    BY <1>1, <2>1, MoldAssumption
  <2>3. /\ requests' \subseteq Requests
        /\ fault' \in {"none", "handler", "invalid sequence number"}
        /\ fault' = "none" => \E r \in requests' : r.seq = htobe64(next)
    BY <1>4, <2>2, RequestType
  <2>4. TypeOK'
    <3>1. wire' \subseteq Packets /\ repeats' \in 0 .. MaxRepeats
      BY ReceiveWire, Zenon DEF IInv, TypeOK
    <3>2. QED BY <1>1, <1>4, <2>3, <3>1, ReceiveWire, Zenon DEF IInv, TypeOK, Blocks, given
  <2>5. GapKnown'
    BY <1>1, <1>4, <2>1, ReceiveWire DEF GapKnown
  <2>6. NotForgotten'
    BY <1>1, <2>3, ReceiveWire DEF NotForgotten, htobe64, given
  <2>7. WireKnown'
    BY <1>1, ReceiveWire DEF IInv, WireKnown
  <2>8. QED BY <1>1, <2>4, <2>5, <2>6, <2>7 DEF IInv
<1>5. QED BY <1>2, <1>3, <1>4

LEMMA RejectedInv ==
  ASSUME IInv, NEW p \in wire, Receive(p), NEW n \in 0 .. MaxBatch, Rejected(p, n)
  PROVE  IInv'
<1>1. /\ HandledInOrder' /\ handled' \in Seq(Blocks)
      /\ _expected_seq_no' \in 1 .. MaxSeq + 1 + MaxBatch
      /\ sound' \in 0 .. MaxSeq /\ sound' <= published
  <2>1. n \in Nat /\ p.count \in Nat /\ n <= p.count /\ UNCHANGED empty
    BY WirePacket, ReceiveWire, MoldAssumption DEF Rejected, given
  <2>2. QED BY <2>1, DuePacket DEF Rejected
<1>2. TypeOK'
  <2>1. wire' \subseteq Packets /\ repeats' \in 0 .. MaxRepeats
    BY ReceiveWire, Zenon DEF IInv, TypeOK
  <2>2. QED BY <1>1, <2>1, ReceiveWire, Zenon DEF IInv, TypeOK, Blocks, Rejected, given
<1>3. GapKnown' /\ NotForgotten'
  BY DEF IInv, GapKnown, NotForgotten, Rejected
<1>4. WireKnown'
  BY <1>1, ReceiveWire DEF IInv, WireKnown, Rejected
<1>5. QED BY <1>1, <1>2, <1>3, <1>4 DEF IInv

LEMMA NextInv == IInv /\ [Next]_vars => IInv'
<1> SUFFICES ASSUME IInv, [Next]_vars PROVE IInv'
  OBVIOUS
<1>1. ASSUME NEW n \in 1 .. MaxBatch, Multicast(n) PROVE IInv'
  BY <1>1, MulticastInv
<1>2. ASSUME NEW n \in 1 .. MaxBatch, NEW r \in requests, Answer(r, n) PROVE IInv'
  BY <1>2, AnswerInv
<1>3. CASE Heartbeat \/ EndSession
  BY <1>3, SilenceInv
<1>4. ASSUME NEW p \in wire, Lose(p) PROVE IInv'
  BY <1>4, LoseInv
<1>9. ASSUME NEW p \in wire, NEW n \in 0 .. MaxBatch, Cut(p, n) PROVE IInv'
  BY <1>9, CutInv
<1>5. ASSUME fault = "none", NEW p \in wire, Receive(p) PROVE IInv'
  <2>1. CASE Old(p)
    BY <1>5, <2>1, OldInv
  <2>2. CASE Early(p)
    BY <1>5, <2>2, EarlyInv
  <2>3. CASE Expected(p)
    BY <1>5, <2>3, ExpectedInv
  <2>4. ASSUME NEW n \in 0 .. MaxBatch, Rejected(p, n) PROVE IInv'
    BY <1>5, <2>4, RejectedInv
  <2>5. QED BY <1>5, <2>1, <2>2, <2>3, <2>4 DEF Receive, process_packet
<1>6. ASSUME NEW r \in requests, LoseRequest(r) PROVE IInv'
  BY <1>6, LoseRequestInv
<1>7. CASE UNCHANGED vars
  BY <1>7 DEF IInv, TypeOK, HandledInOrder, GapKnown, NotForgotten, WireKnown,
              htobe64, vars, sessionVars, serverVars, given
<1>8. QED BY <1>1, <1>2, <1>3, <1>4, <1>5, <1>6, <1>7, <1>9 DEF Next, Server

(* The inductive invariant of the session and the network.                 *)
THEOREM Invariance == Spec => []IInv
<1>1. QED BY InitInv, NextInv, PTL DEF Spec

(* The session's numbers stay within the server's, and so do the packets.  *)
THEOREM TypeCorrect == Spec => []TypeOK
<1>1. IInv => TypeOK
  BY DEF IInv
<1>2. QED BY <1>1, Invariance, PTL

(* What the session counts as message i is message i, handed over if it    *)
(* has content, or something beyond the end of a datagram, whatever the    *)
(* network loses, repeats, reorders and cuts.                              *)
THEOREM OrderCorrect == Spec => []HandledInOrder
<1>1. IInv => HandledInOrder
  BY DEF IInv
<1>2. QED BY <1>1, Invariance, PTL

(* The session fills a gap exactly while it knows of one.                  *)
THEOREM GapCorrect == Spec => []GapKnown
<1>1. IInv => GapKnown
  BY DEF IInv
<1>2. QED BY <1>1, Invariance, PTL

(* While there is a gap, the session has asked for what fills it, as well  *)
(* as its build can, and the request or the answer is under way or lost.   *)
THEOREM GapCared == Spec => []NotForgotten
<1>1. IInv => NotForgotten
  BY DEF IInv
<1>2. QED BY <1>1, Invariance, PTL

-----------------------------------------------------------------------------
(* The first n of the server's messages.                                   *)
Sent(n) == [i \in 1 .. n |-> [no |-> i, passed |-> i \notin empty]]

LEMMA SentSeq ==
  ASSUME NEW n \in Nat
  PROVE  Sent(n) \in Seq([no : Nat, passed : BOOLEAN]) /\ Len(Sent(n)) = n
<1> DEFINE M == [no : Nat, passed : BOOLEAN]
<1>1. ASSUME NEW i \in 1 .. n PROVE [no |-> i, passed |-> i \notin empty] \in M
  OBVIOUS
<1>2. Sent(n) \in [1 .. n -> M]
  BY <1>1 DEF Sent
<1> HIDE DEF M
<1>3. Sent(n) \in Seq(M) /\ Len(Sent(n)) = n
  BY <1>2, FunctionSeq
<1>4. QED BY <1>3 DEF M

LEMMA SentPrefix ==
  ASSUME NEW m \in Nat, NEW n \in Nat, m <= n
  PROVE  Promise!IsPrefix(Sent(m), Sent(n))
<1>1. SubSeq(Sent(m), 1, m) = Sent(m)
  BY DEF Sent
<1>2. SubSeq(Sent(n), 1, m) = Sent(m)
  BY DEF Sent
<1>3. QED BY <1>1, <1>2, SentSeq DEF Promise!IsPrefix

(* What is sound of what the loop did are the first of the messages.       *)
HandedOver ==
  /\ [i \in 1 .. sound |-> [no |-> handled[i].no, passed |-> handled[i].passed]]
       = Sent(sound)
  /\ sound \in Nat /\ published \in Nat /\ sound <= published

LEMMA AllHandedOver == IInv => HandedOver
<1> SUFFICES ASSUME IInv PROVE HandedOver
  OBVIOUS
<1>1. handled \in Seq(Blocks) /\ sound \in Nat /\ sound <= Len(handled)
  <2>1. handled \in Seq(Blocks) /\ sound <= Len(handled)
    BY Zenon DEF IInv, TypeOK, Blocks, HandledInOrder
  <2>2. QED BY <2>1, Numbers
<1>2. DOMAIN handled = 1 .. Len(handled) /\ Len(handled) \in Nat
  BY <1>1, LenProperties
<1>3. ASSUME NEW i \in 1 .. sound
      PROVE  [no |-> handled[i].no, passed |-> handled[i].passed]
               = [no |-> i, passed |-> i \notin empty]
  <2>1. i \in DOMAIN handled /\ ~(sound < i)
    BY <1>1, <1>2
  <2>2. handled[i].no = i /\ (handled[i].passed <=> i \notin empty)
    BY <2>1, Zenon DEF IInv, HandledInOrder
  <2>3. handled[i].passed \in BOOLEAN
    <3>1. handled[i] \in Blocks
      BY <1>1, <1>2, <2>1, ElementOfSeq
    <3>2. QED BY <3>1, Zenon DEF Blocks
  <2>4. handled[i].passed = (i \notin empty)
    BY <2>2, <2>3, Zenon
  <2>5. QED BY <2>2, <2>4, Zenon
<1>4. QED BY <1>1, <1>3, Numbers DEF HandedOver, Sent, IInv, WireKnown

(* Nothing is taken back, neither by the server nor by the session, and    *)
(* the messages do not change.                                             *)
LEMMA Forward ==
  ASSUME IInv, [Next]_vars
  PROVE  sound <= sound' /\ published <= published' /\ empty' = empty
<1>1. published \in Nat /\ sound \in Nat
  BY Numbers
<1>2. ASSUME NEW n \in 1 .. MaxBatch, Multicast(n)
      PROVE  sound' = sound /\ published <= published' /\ empty' = empty
  BY <1>1, <1>2, MoldAssumption DEF Multicast, sessionVars, given
<1>3. ASSUME NEW n \in 1 .. MaxBatch, NEW r \in requests, Answer(r, n)
      PROVE  UNCHANGED <<sound, published, empty>>
  BY <1>3 DEF Answer, sessionVars, serverVars, given
<1>4. Heartbeat \/ EndSession => UNCHANGED <<sound, published, empty>>
  BY DEF Heartbeat, EndSession, sessionVars, serverVars, given
<1>5. ASSUME NEW p \in wire, Lose(p) \/ \E n \in 0 .. MaxBatch : Cut(p, n)
      PROVE  UNCHANGED <<sound, published, empty>>
  BY <1>5 DEF Lose, Cut, sessionVars, given
<1>6. ASSUME NEW r \in requests, LoseRequest(r)
      PROVE  UNCHANGED <<sound, published, empty>>
  BY <1>6 DEF LoseRequest, sessionVars, given
<1>7. ASSUME NEW p \in wire, Receive(p)
      PROVE  sound <= sound' /\ published' = published /\ empty' = empty
  <2>1. published' = published /\ empty' = empty /\ p.count \in Nat
    BY <1>7, ReceiveWire, WirePacket, MoldAssumption DEF given
  <2>2. CASE Old(p) \/ Early(p)
    BY <1>1, <2>1, <2>2 DEF Old, Early, sessionVars
  <2>3. CASE Expected(p)
    <3>1. p.count <= p.count
      BY <2>1
    <3>2. QED BY <2>1, <2>3, <3>1, DuePacket DEF Expected
  <2>4. ASSUME NEW n \in 0 .. MaxBatch, Rejected(p, n) PROVE sound <= sound'
    <3>1. n \in Nat /\ n <= p.count
      BY <2>1, <2>4, MoldAssumption DEF Rejected
    <3>2. QED BY <2>1, <2>4, <3>1, DuePacket DEF Rejected
  <2>5. QED BY <1>7, <2>1, <2>2, <2>3, <2>4 DEF Receive, process_packet
<1>8. UNCHANGED vars => UNCHANGED <<sound, published, empty>>
  BY DEF vars, sessionVars, serverVars, given
<1>9. QED BY <1>1, <1>2, <1>3, <1>4, <1>5, <1>6, <1>7, <1>8 DEF Next, Server

(* The session and the network implement the promise to the handler, until *)
(* a datagram ends before its last message.                                *)
THEOREM Implements == Spec => Delivers
<1> DEFINE sent == [i \in 1 .. published |-> [no |-> i, passed |-> i \notin empty]]
           delivered == [i \in 1 .. sound |-> [no |-> handled[i].no,
                                               passed |-> handled[i].passed]]
<1>1. Init => Promise!Init
  BY DEF Init, Promise!Init
<1>2. HandedOver /\ HandedOver' /\ IInv /\ [Next]_vars
      => [Promise!Next]_<<sent, delivered>>
  <2> SUFFICES ASSUME HandedOver, HandedOver', IInv, [Next]_vars
               PROVE  Promise!Next
    OBVIOUS
  <2>1. sound <= sound' /\ published <= published' /\ empty' = empty
    BY Forward
  <2>2. /\ delivered = Sent(sound) /\ delivered' = Sent(sound')
        /\ sent = Sent(published) /\ sent' = Sent(published')
    BY <2>1 DEF HandedOver, Sent
  <2>3. /\ sound \in Nat /\ sound' \in Nat /\ published \in Nat /\ published' \in Nat
        /\ sound' <= published'
    BY Zenon DEF HandedOver
  <2> HIDE DEF sent, delivered
  <2>4. /\ Promise!IsPrefix(sent, sent') /\ Promise!IsPrefix(delivered, delivered')
        /\ Promise!IsPrefix(delivered', sent')
    BY <2>1, <2>2, <2>3, SentPrefix, Zenon
  <2>5. QED BY <2>4 DEF Promise!Next, sent, delivered
<1>3. QED BY <1>1, <1>2, Invariance, AllHandedOver, PTL DEF Spec, Delivers, Promise!Spec

=============================================================================
