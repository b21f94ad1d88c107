------------------------------ MODULE ReaderProofs ------------------------------
(***************************************************************************)
(* That the reading programs hand over what the session is not led astray  *)
(* from, of every well-formed file, of any length, whatever its messages   *)
(* are and wherever it is cut, and that a program which stops has a        *)
(* reason.                                                                 *)
(***************************************************************************)
EXTENDS Reader, SequenceTheorems, TLAPS

Records == DOMAIN file.records

(* Where record i begins.                                                  *)
StartOf(i) == IF i = 1 THEN 0 ELSE file.records[i - 1].end

(* What the framing puts before and behind the messages of a record.       *)
Ahead  == IF file.format = "soupfile" THEN 0 ELSE 2
Astern == IF file.format = "soupfile" THEN 2 ELSE 0

Running == pc \in {"loop", "record"}

Static ==
  /\ file \in Files
  /\ cut \in 0 .. Last(file.records).end - Last(file.records).start - 1
  /\ program \in {"demo", "monitor"}

(* main's size wraps when the session takes more than there is.            *)
SizeLeft == IF p <= Len(buffer) THEN Len(buffer) - p ELSE Modulus + Len(buffer) - p

(* The next place of which anything can be handed over.                    *)
Frontier ==
  IF file.format = "soupfile" /\ payload_len > 0 THEN p ELSE p + offset + Header(file)

(* The moldudp_session has handed over as many as it says.                 *)
HandedMold ==
  /\ _seq_num = Len(handled) + 1 /\ Len(handled) <= Len(file.at)
  /\ \A k \in 1 .. Len(handled) : handled[k] = file.at[k]

(* The others have done with what is before the frontier; they have handed *)
(* over what is at it only if they threw afterwards.                       *)
HandedOthers ==
  /\ _seq_num = 1
  /\ \A k \in 1 .. Len(handled) :
       /\ Astray(handled[k]) \/ \E m \in DOMAIN file.at : file.at[m] = handled[k]
       /\ handled[k] <= Frontier /\ (Running => handled[k] < Frontier)
       /\ \A j \in 1 .. k - 1 : handled[j] < handled[k]
  /\ \A m \in DOMAIN file.at :
       file.at[m] < Frontier => Astray(file.at[m]) \/ file.at[m] \in HandedOver

Handed ==
  /\ handled \in Seq(0 .. Len(buffer) - 1)
  /\ IF file.format = "moldudp" THEN HandedMold ELSE HandedOthers

(* Where main may call the session.                                        *)
OnTrack(x) ==
  \E i \in 1 .. Len(file.records) + 1 :
    x = StartOf(i) /\ (file.format = "moldudp" => _seq_num = Due(file, i))

CallAt(x) ==
  \/ OnTrack(x)
  \/ file.format = "soupfile" /\ Astray(x) /\ x <= Len(buffer) + 1

(* The next message is where the session will look for it, unless one      *)
(* before it in the record is not what its type says.                      *)
InBinary(r) ==
  /\ payload_len = r.end - (p + offset)
  /\ \/ p + offset = r.end
     \/ \E m \in Messages(r) : file.at[m] = p + offset
     \/ \E m \in Messages(r) : ~Fitting(file.messages[m]) /\ file.at[m] < p + offset

(* The message ends where it should, unless it has a terminator in it.     *)
AtClean(r) ==
  /\ r.first \in Messages(r) /\ r.count = 1 /\ file.at[r.first] = p
  /\ Clean(file.messages[r.first]) =>
       payload_len = Len(file.messages[r.first]) /\ p + offset = r.end

InSoup ==
  /\ CallAt(p + offset) /\ p + offset <= Len(buffer) + 1
  /\ payload_len > 0 =>
       /\ offset = payload_len + 2
       /\ Astray(p) \/ \E i \in Records : p = StartOf(i) /\ AtClean(file.records[i])

InMold(r) ==
  /\ _seq_num \in r.first .. r.first + r.count
  /\ payload_len = r.first + r.count - _seq_num
  /\ p + offset = IF payload_len = 0 THEN r.end ELSE file.at[_seq_num] - 1

InRecord ==
  /\ p < Len(buffer)
  /\ \/ file.format = "soupfile" /\ InSoup
     \/ \E i \in Records :
          /\ p = StartOf(i)
          /\ \/ file.format = "binaryfile" /\ InBinary(file.records[i])
             \/ file.format = "moldudp" /\ InMold(file.records[i])

Told == told # "nothing" <=> pc \in {"exited", "terminated"}

(* The inductive invariant.                                                *)
IInv ==
  /\ Static /\ Handed /\ Told /\ StopsForAReason
  /\ p \in Nat /\ size = SizeLeft /\ size \in 0 .. Modulus - 1
  /\ payload_len \in Nat /\ offset \in Nat
  /\ pc \in {"loop", "record"} \/ Stopped
  /\ pc = "loop"   => payload_len = 0 /\ offset = 0 /\ CallAt(p)
  /\ pc = "record" => InRecord

-----------------------------------------------------------------------------
(* Arithmetic of words of two bytes, and of a size.                        *)
LEMMA TimesMonotone ==
  ASSUME NEW n \in Nat, NEW a \in Nat, NEW b \in Nat, a < b
  PROVE  n * a + n <= n * b
<1>1. PICK k \in Nat : b = a + 1 + k
  <2>1. b - a - 1 \in Nat /\ b = a + 1 + (b - a - 1)
    OBVIOUS
  <2>2. QED BY <2>1
<1>2. n * b = n * a + n + n * k
  BY <1>1
<1>3. n * k \in Nat /\ n * a \in Nat
  OBVIOUS
<1>4. QED BY <1>2, <1>3

LEMMA DivMod ==
  ASSUME NEW c \in Nat, NEW n \in Nat \ {0}
  PROVE  /\ c \div n \in Nat /\ c % n \in 0 .. n - 1
         /\ c = n * (c \div n) + (c % n)
  OBVIOUS

LEMMA Digits ==
  ASSUME NEW n \in Nat \ {0}, NEW a \in Nat, NEW r \in 0 .. n - 1
  PROVE  (n * a + r) \div n = a /\ (n * a + r) % n = r
<1> DEFINE c == n * a + r
           d == c \div n
<1>0. n * a \in Nat /\ c \in Nat
  OBVIOUS
<1>1. d \in Nat /\ c % n \in 0 .. n - 1 /\ c = n * d + (c % n)
  <2> HIDE DEF c
  <2>1. QED BY <1>0, DivMod
<1>2. n * d <= n * a + r /\ n * a + r < n * d + n /\ n * d \in Nat
  <2> HIDE DEF d
  <2>1. n * d \in Nat
    BY <1>1
  <2>2. QED BY <1>0, <1>1, <2>1
<1>3. ~(d < a)
  <2> SUFFICES ASSUME d < a PROVE FALSE
    OBVIOUS
  <2> HIDE DEF d
  <2>1. n * d + n <= n * a
    BY <1>1, TimesMonotone
  <2>2. QED BY <1>0, <1>1, <1>2, <2>1
<1>4. ~(a < d)
  <2> SUFFICES ASSUME a < d PROVE FALSE
    OBVIOUS
  <2> HIDE DEF d
  <2>1. n * a + n <= n * d
    BY <1>1, TimesMonotone
  <2>2. QED BY <1>0, <1>1, <1>2, <2>1
<1> HIDE DEF d
<1>5. d = a
  BY <1>1, <1>3, <1>4
<1>6. c % n = r
  <2> HIDE DEF c
  <2>1. c % n \in Int /\ n * a \in Nat /\ c = n * a + (c % n)
    BY <1>0, <1>1, <1>5
  <2>2. c = n * a + r
    BY DEF c
  <2>3. QED BY <2>1, <2>2
<1>7. QED BY <1>5, <1>6 DEF d

(* The length in network order, read as it stands and swapped, is itself.  *)
LEMMA LengthRead ==
  ASSUME Radix \in Nat, Radix > 7, NEW n \in Nat, n < Radix * Radix
  PROVE  swap_bytes((n \div Radix) + Radix * (n % Radix)) = n
<1> DEFINE hi == n \div Radix
           lo == n % Radix
<1>1. hi \in Nat /\ lo \in 0 .. Radix - 1 /\ n = Radix * hi + lo
  <2>1. Radix \in Nat \ {0}
    OBVIOUS
  <2>2. QED BY <2>1, DivMod
<1>2. hi < Radix
  <2> SUFFICES ASSUME ~(hi < Radix) PROVE FALSE
    OBVIOUS
  <2> HIDE DEF hi, lo
  <2>1. Radix * Radix \in Nat /\ Radix * hi \in Nat
    BY <1>1
  <2>2. Radix * Radix <= Radix * hi
    <3>1. CASE hi = Radix
      BY <2>1, <3>1
    <3>2. CASE Radix < hi
      BY <1>1, <2>1, <3>2, TimesMonotone
    <3>3. QED BY <1>1, <3>1, <3>2
  <2>3. QED BY <1>1, <2>1, <2>2
<1> HIDE DEF hi, lo
<1>3. hi + Radix * lo = Radix * lo + hi
  <2>1. Radix * lo \in Nat
    BY <1>1
  <2>2. QED BY <1>1, <2>1
<1>4. (Radix * lo + hi) % Radix = hi /\ (Radix * lo + hi) \div Radix = lo
  BY <1>1, <1>2, Digits
<1>5. swap_bytes(hi + Radix * lo) = hi * Radix + lo
  BY <1>3, <1>4 DEF swap_bytes
<1>6. hi * Radix = Radix * hi
  BY <1>1
<1>7. QED BY <1>1, <1>5, <1>6 DEF hi, lo

LEMMA SizeWraps ==
  ASSUME NEW n \in Nat, NEW d \in Int, d < n, -n <= d
  PROVE  d % n = IF 0 <= d THEN d ELSE n + d
<1>1. CASE 0 <= d
  <2>1. (n * 0 + d) % n = d
    BY <1>1, Digits
  <2>2. QED BY <1>1, <2>1
<1>2. CASE d < 0
  <2>1. d % n \in Int /\ 0 <= d % n /\ d % n < n /\ d = n * (d \div n) + (d % n) /\ d \div n \in Int
    BY <1>2
  <2>2. d \div n = -1
    BY <1>2, <2>1
  <2>3. QED BY <1>2, <2>1, <2>2
<1>3. QED BY <1>1, <1>2

-----------------------------------------------------------------------------
(* The layout of a file.                                                   *)
LEMMA FileFormed ==
  ASSUME Static
  PROVE  /\ WellFormed(file)
         /\ Len(file.records) \in Nat \ {0} /\ Records = 1 .. Len(file.records)
         /\ Last(file.records) = file.records[Len(file.records)]
         /\ Len(file.at) \in Nat /\ DOMAIN file.at = 1 .. Len(file.at)
         /\ Due(file, Len(file.records) + 1) = Len(file.at) + 1
         /\ file.format \in {"binaryfile", "soupfile", "moldudp"}
<1>1. WellFormed(file)
  BY ReaderAssumption DEF Static
<1>2. file.records \in Seq(Placements) /\ file.records # <<>>
  BY <1>1 DEF WellFormed
<1>3. Len(file.records) \in Nat \ {0} /\ Records = 1 .. Len(file.records)
  BY <1>2, LenProperties, EmptySeq DEF Records
<1>4. file.at \in Seq(Nat \cup {Lost})
  BY <1>1 DEF WellFormed
<1>5. Len(file.at) \in Nat /\ DOMAIN file.at = 1 .. Len(file.at)
  BY <1>4
<1>6. file.format \in {"binaryfile", "soupfile", "moldudp"}
  <2>1. 1 \in DOMAIN file.records
    BY <1>3 DEF Records
  <2>2. \/ file.format = "binaryfile" \/ file.format = "soupfile" \/ file.format = "moldudp"
    BY <1>1, <2>1, Zenon DEF WellFormed
  <2>3. QED BY <2>2
<1>7. QED BY <1>1, <1>2, <1>3, <1>5, <1>6 DEF WellFormed, Last

LEMMA RecordIs ==
  ASSUME Static, NEW i \in Records
  PROVE  LET r == file.records[i]
         IN  /\ r \in Placements /\ r.start \in Nat /\ r.end \in Nat
             /\ r.first \in Nat \ {0} /\ r.count \in Nat
             /\ WellPlaced(file, i)
             /\ r.start = StartOf(i) /\ r.end = StartOf(i + 1)
             /\ Due(file, i + 1) = r.first + r.count
             /\ file.format = "binaryfile" => BinaryFramed(file, r)
             /\ file.format = "soupfile" => SoupFramed(file, r)
             /\ file.format = "moldudp" => MoldFramed(file, r)
             /\ Messages(r) \subseteq DOMAIN file.at
<1> DEFINE r == file.records[i]
<1>1. r \in Placements /\ WellPlaced(file, i) /\ i \in Nat \ {0}
  BY FileFormed, ElementOfSeq DEF WellFormed, Records
<1>2. r.start \in Nat /\ r.end \in Nat /\ r.first \in Nat \ {0} /\ r.count \in Nat
  BY <1>1 DEF Placements
<1>3. \/ file.format = "binaryfile" /\ BinaryFramed(file, r)
      \/ file.format = "soupfile" /\ SoupFramed(file, r)
      \/ file.format = "moldudp" /\ MoldFramed(file, r)
  BY FileFormed DEF WellFormed, Records
<1>4. r.start = StartOf(i)
  BY <1>1 DEF WellPlaced, StartOf
<1>5. i + 1 # 1 /\ (i + 1) - 1 = i
  BY <1>1
<1>6. r.end = StartOf(i + 1) /\ Due(file, i + 1) = r.first + r.count
  BY <1>5 DEF Due, StartOf
<1>7. Messages(r) \subseteq DOMAIN file.at
  <2>1. r.first + r.count <= Len(file.at) + 1
    BY <1>1 DEF WellPlaced
  <2> HIDE DEF r
  <2>2. Len(file.at) \in Nat /\ DOMAIN file.at = 1 .. Len(file.at)
    BY FileFormed
  <2>3. QED BY <1>2, <2>1, <2>2 DEF Messages
<1>8. QED BY <1>1, <1>2, <1>3, <1>4, <1>6, <1>7

LEMMA MessageIs ==
  ASSUME Static, NEW m \in DOMAIN file.at
  PROVE  /\ m \in Nat \ {0} /\ m <= Len(file.at)
         /\ file.at[m] \in Nat \cup {Lost} /\ file.messages[m] \in Seq(Nat)
         /\ Len(file.messages[m]) \in Nat
         /\ DOMAIN file.messages[m] = 1 .. Len(file.messages[m])
         /\ file.format # "moldudp" => /\ Len(file.messages[m]) > 0 /\ file.at[m] \in Nat
                                       /\ file.at[m] # Lost
         /\ file.at[m] # Lost => file.at[m] \in Nat /\ \E i \in Records : m \in Messages(file.records[i])
         /\ \A n \in DOMAIN file.at :
              m < n /\ file.at[m] # Lost /\ file.at[n] # Lost
              => EndOf(file, m) + Header(file) <= file.at[n]
         /\ EndOf(file, m) = file.at[m] + Len(file.messages[m])
<1>1. /\ WellOrdered(file) /\ m \in 1 .. Len(file.at) /\ Len(file.at) \in Nat
      /\ file.at \in Seq(Nat \cup {Lost}) /\ file.messages \in Seq(Seq(Nat))
      /\ Len(file.at) = Len(file.messages)
  BY FileFormed DEF WellFormed
<1>2. file.at[m] \in Nat \cup {Lost} /\ file.messages[m] \in Seq(Nat)
  BY <1>1
<1>3. Len(file.messages[m]) \in Nat /\ DOMAIN file.messages[m] = 1 .. Len(file.messages[m])
  BY <1>2
<1>4. file.format # "moldudp" => file.messages[m] # <<>> /\ file.at[m] # Lost
  BY <1>1 DEF WellOrdered
<1>5. file.messages[m] # <<>> => Len(file.messages[m]) > 0
  <2> HIDE DEF Lost
  <2>1. file.messages[m] # <<>> => Len(file.messages[m]) # 0
    BY <1>2, EmptySeq
  <2>2. QED BY <1>3, <2>1
<1>6. /\ file.at[m] # Lost => \E i \in Records : m \in Messages(file.records[i])
      /\ \A n \in DOMAIN file.at :
              m < n /\ file.at[m] # Lost /\ file.at[n] # Lost
              => EndOf(file, m) + Header(file) <= file.at[n]
  BY <1>1 DEF WellOrdered, Records
<1>7. m \in Nat \ {0} /\ m <= Len(file.at)
  BY <1>1
<1>8. file.at[m] # Lost => file.at[m] \in Nat
  BY <1>2
<1>9. QED BY <1>2, <1>3, <1>4, <1>5, <1>6, <1>7, <1>8 DEF EndOf

LEMMA HeaderIs ==
  /\ Header(file) \in Nat /\ Header(file) = IF file.format = "moldudp" THEN 1 ELSE 0
  /\ Ahead \in Nat /\ Astern \in Nat
BY DEF Header, Ahead, Astern

(* The frame of a record.                                                  *)
LEMMA FrameIs ==
  ASSUME Static, NEW i \in Records
  PROVE  LET r == file.records[i]
         IN  Packed(file, r, r.start + Ahead, r.end - Astern)
<1> DEFINE r == file.records[i]
<1>1. r.start \in Nat /\ r.end \in Nat
  BY RecordIs
<1>2. /\ file.format = "binaryfile" => BinaryFramed(file, r)
      /\ file.format = "soupfile" => SoupFramed(file, r)
      /\ file.format = "moldudp" => MoldFramed(file, r)
      /\ file.format \in {"binaryfile", "soupfile", "moldudp"}
  BY RecordIs, FileFormed
<1> HIDE DEF r
<1>3. r.start + 0 = r.start /\ r.end - 0 = r.end
  BY <1>1
<1>4. Packed(file, r, r.start + Ahead, r.end - Astern)
  BY <1>2, <1>3 DEF BinaryFramed, SoupFramed, MoldFramed, Ahead, Astern
<1>5. QED BY <1>4 DEF r

LEMMA PlaceIs ==
  ASSUME Static, NEW i \in Records, NEW m \in Messages(file.records[i])
  PROVE  LET r == file.records[i]
         IN  /\ m \in DOMAIN file.at /\ m \in Nat
             /\ file.at[m] \in Nat /\ file.at[m] # Lost
             /\ EndOf(file, m) = file.at[m] + Len(file.messages[m])
             /\ Has(file, file.at[m], file.messages[m])
             /\ r.start + Ahead + Header(file) <= file.at[m]
             /\ EndOf(file, m) <= r.end - Astern /\ EndOf(file, m) \in Nat
             /\ m = r.first => file.at[m] = r.start + Ahead + Header(file)
             /\ m > r.first => /\ m - 1 \in Messages(r)
                               /\ file.at[m] = EndOf(file, m - 1) + Header(file)
             /\ m < r.first + r.count - 1 => m + 1 \in Messages(r)
             /\ m = r.first + r.count - 1 => EndOf(file, m) = r.end - Astern
<1> DEFINE r == file.records[i]
           lo == r.start + Ahead
           hi == r.end - Astern
<1>1. /\ r.first \in Nat \ {0} /\ r.count \in Nat /\ r.start \in Nat /\ r.end \in Nat
      /\ m \in DOMAIN file.at
  BY RecordIs
<1>2. Packed(file, r, lo, hi)
  BY FrameIs
<1>3. /\ file.at[m] = Header(file) + (IF m = r.first THEN lo ELSE EndOf(file, m - 1))
      /\ Has(file, file.at[m], file.messages[m])
      /\ lo + Header(file) <= file.at[m] /\ EndOf(file, m) <= hi
      /\ hi = IF r.count = 0 THEN lo ELSE EndOf(file, r.first + r.count - 1)
  BY <1>2 DEF Packed
<1>4. m \in r.first .. r.first + r.count - 1
  BY DEF Messages
<1>5. lo \in Nat /\ hi \in Int /\ Header(file) \in Nat
  BY <1>1, HeaderIs
<1>6. file.at[m] \in Nat \cup {-1} /\ Len(file.messages[m]) \in Nat
      /\ EndOf(file, m) = file.at[m] + Len(file.messages[m])
  BY <1>1, MessageIs DEF Lost
<1> DEFINE a == file.at[m]
<1>7. a \in Nat /\ a # Lost
  <2> HIDE DEF a, lo
  <2>1. lo + Header(file) <= a /\ a \in Nat \cup {-1}
    BY <1>3, <1>6 DEF a
  <2>2. QED BY <1>5, <2>1 DEF Lost
<1>8. m > r.first => m - 1 \in Messages(r)
  <2> HIDE DEF r
  <2>1. QED BY <1>1, <1>4 DEF Messages
<1>9. m < r.first + r.count - 1 => m + 1 \in Messages(r)
  <2> HIDE DEF r
  <2>1. QED BY <1>1, <1>4 DEF Messages
<1>10. m = r.first + r.count - 1 => EndOf(file, m) = hi
  <2>1. r.count # 0
    <3> HIDE DEF r
    <3>1. QED BY <1>1, <1>4
  <2>2. QED BY <1>3, <2>1
<1>11. m > r.first => file.at[m] = EndOf(file, m - 1) + Header(file)
  <2> SUFFICES ASSUME m > r.first PROVE file.at[m] = EndOf(file, m - 1) + Header(file)
    OBVIOUS
  <2>1. file.at[m] = Header(file) + EndOf(file, m - 1)
    <3>1. m # r.first
      <4> HIDE DEF r
      <4>1. QED BY <1>1, <1>4
    <3>2. QED BY <1>3, <3>1
  <2>2. EndOf(file, m - 1) \in Int
    <3>1. m - 1 \in DOMAIN file.at
      BY <1>8, RecordIs
    <3>2. file.at[m - 1] \in Int /\ Len(file.messages[m - 1]) \in Nat
      BY <3>1, MessageIs DEF Lost
    <3>3. QED BY <3>2 DEF EndOf
  <2> HIDE DEF r
  <2>3. QED BY <1>5, <2>1, <2>2
<1>12. m = r.first => file.at[m] = lo + Header(file)
  <2>1. m = r.first => file.at[m] = Header(file) + lo
    BY <1>3
  <2> HIDE DEF lo
  <2>2. QED BY <1>5, <2>1
<1>13. m \in Nat /\ EndOf(file, m) \in Nat
  <2>1. a + Len(file.messages[m]) \in Nat
    <3> HIDE DEF a
    <3>1. QED BY <1>6, <1>7
  <2>2. m \in Nat
    <3> HIDE DEF r
    <3>1. QED BY <1>1, <1>4
  <2>3. QED BY <1>6, <2>1, <2>2
<1>14. QED BY <1>1, <1>3, <1>6, <1>7, <1>8, <1>9, <1>10, <1>11, <1>12, <1>13

(* A record without messages is its frame.                                 *)
LEMMA RecordFields ==
  ASSUME Static, NEW i \in Records
  PROVE  LET r == file.records[i]
         IN  /\ r.start \in Nat /\ r.end \in Nat /\ r.first \in Nat \ {0} /\ r.count \in Nat
             /\ r.start + 2 <= r.end /\ r.start = StartOf(i) /\ r.end = StartOf(i + 1)
             /\ r.count = 0 => r.end = r.start + 2
             /\ r.count # 0 => r.first \in Messages(r)
             /\ file.format = "soupfile" => r.count \in {0, 1}
             /\ i + 1 \in 1 .. Len(file.records) + 1
<1> DEFINE r == file.records[i]
<1>1. /\ r.first \in Nat \ {0} /\ r.count \in Nat /\ r.start \in Nat /\ r.end \in Nat
      /\ r.start = StartOf(i) /\ r.end = StartOf(i + 1)
  BY RecordIs
<1>2. file.format = "soupfile" => r.count <= 1
  BY RecordIs DEF SoupFramed
<1>3. r.count = 0 => r.end - Astern = r.start + Ahead
  BY FrameIs DEF Packed
<1>4. r.count # 0 => r.first \in Messages(r)
  <2> HIDE DEF r
  <2>1. QED BY <1>1 DEF Messages
<1>5. r.count # 0 => /\ file.at[r.first] \in Nat /\ file.at[r.first] <= EndOf(file, r.first)
                     /\ r.start + Ahead + Header(file) <= file.at[r.first]
                     /\ EndOf(file, r.first) <= r.end - Astern /\ EndOf(file, r.first) \in Nat
  <2> SUFFICES ASSUME r.count # 0
               PROVE  /\ file.at[r.first] \in Nat /\ file.at[r.first] <= EndOf(file, r.first)
                      /\ r.start + Ahead + Header(file) <= file.at[r.first]
                      /\ EndOf(file, r.first) <= r.end - Astern /\ EndOf(file, r.first) \in Nat
    OBVIOUS
  <2> DEFINE m == r.first
  <2>1. m \in Messages(r)
    BY <1>4
  <2> HIDE DEF m
  <2>2. /\ m \in DOMAIN file.at /\ file.at[m] \in Nat
        /\ EndOf(file, m) = file.at[m] + Len(file.messages[m])
        /\ r.start + Ahead + Header(file) <= file.at[m]
        /\ EndOf(file, m) <= r.end - Astern /\ EndOf(file, m) \in Nat
    BY <2>1, PlaceIs
  <2>3. Len(file.messages[m]) \in Nat
    BY <2>2, MessageIs
  <2>4. file.at[m] <= EndOf(file, m)
    BY <2>2, <2>3
  <2>5. QED BY <2>2, <2>4 DEF m
<1>6. (Ahead = 2 /\ Astern = 0) \/ (Ahead = 0 /\ Astern = 2)
  BY DEF Ahead, Astern
<1> DEFINE a == file.at[r.first]
           e == EndOf(file, r.first)
<1>7. r.start + 2 <= r.end /\ (r.count = 0 => r.end = r.start + 2)
  <2>1. /\ r.count # 0 => /\ a \in Nat /\ a <= e /\ r.start + Ahead + Header(file) <= a
                          /\ e <= r.end - Astern /\ e \in Nat
    BY <1>5
  <2> HIDE DEF a, e, r
  <2>2. QED BY <1>1, <1>3, <1>6, <2>1, HeaderIs
<1>8. i + 1 \in 1 .. Len(file.records) + 1
  BY FileFormed
<1> HIDE DEF r
<1>9. QED BY <1>1, <1>2, <1>4, <1>7, <1>8 DEF r

(* A message is in a record, before it or behind it.                       *)
LEMMA Where ==
  ASSUME Static, NEW i \in Records, NEW m \in DOMAIN file.at, file.at[m] # Lost
  PROVE  \/ m \in Messages(file.records[i])
         \/ EndOf(file, m) <= file.records[i].start
         \/ file.records[i].end <= file.at[m]
<1>1. PICK j \in Records : m \in Messages(file.records[j])
  BY MessageIs
<1> DEFINE r == file.records[i]
           s == file.records[j]
<1>2. /\ s.start + Ahead + Header(file) <= file.at[m] /\ EndOf(file, m) <= s.end - Astern
      /\ file.at[m] \in Nat /\ EndOf(file, m) \in Nat
  BY <1>1, PlaceIs
<1>3. r.start \in Nat /\ r.end \in Nat /\ s.start \in Nat /\ s.end \in Nat
  BY RecordFields
<1>4. i < j => r.end <= s.start
  BY RecordIs DEF WellPlaced, Records
<1>5. j < i => s.end <= r.start
  BY RecordIs DEF WellPlaced, Records
<1>6. i \in Nat /\ j \in Nat
  BY FileFormed
<1>7. i = j => m \in Messages(r)
  BY <1>1
<1> HIDE DEF r, s
<1> DEFINE a == file.at[m]
           e == EndOf(file, m)
<1> HIDE DEF a, e
<1>8. s.start <= a /\ e <= s.end /\ a \in Nat /\ e \in Nat
  BY <1>2, <1>3, HeaderIs DEF a, e
<1>9. m \in Messages(r) \/ e <= r.start \/ r.end <= a
  BY <1>3, <1>4, <1>5, <1>6, <1>7, <1>8
<1>10. QED BY <1>9 DEF r, a, e

(* What is there of the file, and what a read of it gives.                 *)
LEMMA BufferIs ==
  ASSUME Static
  PROVE  /\ Len(buffer) \in Nat /\ Modulus \in Nat /\ cut \in Nat
         /\ Len(file.bytes) \in Nat /\ Len(file.bytes) + 1 < Modulus
         /\ Len(buffer) = Len(file.bytes) - cut
         /\ Len(file.bytes) = StartOf(Len(file.records) + 1)
         /\ StartOf(Len(file.records)) < Len(buffer)
         /\ \A k \in 1 .. Len(buffer) : buffer[k] = file.bytes[k]
<1> DEFINE n == Len(file.records)
           last == file.records[n]
           size_of_file == Len(file.bytes)
<1>1. n \in Records /\ Last(file.records) = last
  BY FileFormed
<1>2. last.start \in Nat /\ last.end \in Nat /\ last.start = StartOf(n) /\ last.end = StartOf(n + 1)
  BY <1>1, RecordIs
<1>3. file.bytes \in Seq(Nat) /\ size_of_file = last.end /\ size_of_file + 1 < Modulus
  BY <1>1, FileFormed DEF WellFormed
<1>4. cut \in 0 .. last.end - last.start - 1
  BY <1>1 DEF Static
<1> HIDE DEF n, last
<1>5. size_of_file \in Nat /\ cut \in Nat /\ cut < size_of_file
  BY <1>2, <1>3, <1>4
<1>6. /\ Len(buffer) = size_of_file - cut
      /\ \A k \in 1 .. Len(buffer) : buffer[k] = file.bytes[k]
  BY <1>3, <1>5, SubSeqProperties DEF buffer
<1>7. StartOf(n) < size_of_file - cut
  BY <1>2, <1>3, <1>4, <1>5
<1>8. size_of_file - cut \in Nat /\ Modulus \in Nat
  BY <1>5, ReaderAssumption
<1> HIDE DEF size_of_file
<1>9. Len(buffer) \in Nat /\ StartOf(n) < Len(buffer)
  BY <1>6, <1>7, <1>8
<1>10. size_of_file = StartOf(n + 1)
  BY <1>2, <1>3
<1>11. QED BY <1>3, <1>5, <1>6, <1>8, <1>9, <1>10 DEF n, size_of_file

(* A byte of the layout that is there is read as it is.                    *)
LEMMA ValueRead ==
  ASSUME Static, NEW start \in Int, NEW bytes, Has(file, start, bytes),
         NEW k \in DOMAIN bytes, NEW at \in Nat, at = start + k - 1, at < Len(buffer), k \in Nat
  PROVE  Value(at) = bytes[k]
<1>1. at + 1 \in 1 .. Len(buffer) /\ at + 1 = start + k
  BY BufferIs
<1>2. file.bytes[start + k] = bytes[k]
  BY DEF Has
<1>3. QED BY <1>1, <1>2, BufferIs DEF Value

(* Only the last record can be cut.                                        *)
LEMMA OnlyLastCut ==
  ASSUME Static, NEW i \in Records
  PROVE  LET r == file.records[i]
         IN  /\ r.start < Len(buffer) /\ r.end <= Len(file.bytes)
             /\ r.end > Len(buffer) => cut > 0
             /\ i # Len(file.records) => r.end < Len(buffer)
<1> DEFINE r == file.records[i]
           n == Len(file.records)
<1>1. i \in 1 .. n /\ n \in Nat /\ n \in Records
  BY FileFormed DEF Records
<1>2. /\ r.start \in Nat /\ r.end \in Nat /\ r.start = StartOf(i) /\ r.end = StartOf(i + 1)
      /\ r.start + 2 <= r.end
  BY RecordFields
<1>3. CASE i = n
  BY <1>1, <1>2, <1>3, BufferIs
<1>4. CASE i < n
  <2>1. r.end <= file.records[n].start
    BY <1>1, <1>4, RecordIs DEF WellPlaced, Records
  <2>2. file.records[n].start = StartOf(n) /\ file.records[n].start \in Nat
    BY <1>1, RecordIs
  <2> HIDE DEF r, n
  <2>3. StartOf(n) < Len(buffer) /\ Len(buffer) <= Len(file.bytes) /\ Len(buffer) \in Nat
        /\ Len(file.bytes) \in Nat
    BY BufferIs DEF n
  <2>4. r.start < Len(buffer) /\ r.end < Len(buffer) /\ r.end <= Len(file.bytes)
    BY <1>2, <2>1, <2>2, <2>3
  <2>5. QED BY <1>1, <1>2, <1>4, <2>3, <2>4 DEF r, n
<1>5. QED BY <1>1, <1>3, <1>4

(* What the session finds at the beginning of a record.                    *)
LEMMA BinaryStart ==
  ASSUME Static, NEW i \in Records, file.format = "binaryfile", NEW at \in Nat,
         at = file.records[i].start, Readable(at, 2)
  PROVE  LET length == file.records[i].end - file.records[i].start - 2
         IN  /\ length \in Nat
             /\ swap_bytes(Value(at) + Radix * Value(at + 1)) = length
<1> DEFINE r == file.records[i]
           length == r.end - r.start - 2
           digits == <<length \div Radix, length % Radix>>
<1>1. /\ r.start \in Nat /\ r.end \in Nat /\ r.start + 2 <= r.end
      /\ length < Radix * Radix /\ Has(file, r.start, digits)
  BY RecordIs, RecordFields DEF BinaryFramed
<1>2. length \in Nat
  BY <1>1
<1>3. Len(buffer) \in Nat /\ at + 2 <= Len(buffer)
  BY BufferIs DEF Readable
<1> HIDE DEF r, length
<1>4. Value(at) = length \div Radix
  BY <1>1, <1>3, ValueRead DEF r
<1>5. Value(at + 1) = length % Radix
  BY <1>1, <1>3, ValueRead DEF r
<1>6. QED BY <1>1, <1>2, <1>4, <1>5, LengthRead, ReaderAssumption DEF length, r

LEMMA MoldStart ==
  ASSUME Static, NEW i \in Records, file.format = "moldudp", NEW at \in Nat,
         at = file.records[i].start, Readable(at, 2)
  PROVE  Value(at) = file.records[i].first /\ Value(at + 1) = file.records[i].count
<1> DEFINE r == file.records[i]
           bytes == <<r.first, r.count>>
<1>1. r.start \in Nat /\ Has(file, r.start, bytes)
  BY RecordIs DEF MoldFramed
<1>2. Len(buffer) \in Nat /\ at + 2 <= Len(buffer)
  BY BufferIs DEF Readable
<1> HIDE DEF r
<1>3. at = r.start
  BY DEF r
<1>4. Value(at) = bytes[1]
  <2>1. 1 \in DOMAIN bytes /\ at = r.start + 1 - 1 /\ at < Len(buffer)
    BY <1>1, <1>2, <1>3
  <2>2. QED BY <1>1, <2>1, ValueRead
<1>5. Value(at + 1) = bytes[2]
  <2>1. 2 \in DOMAIN bytes /\ at + 1 = r.start + 2 - 1 /\ at + 1 < Len(buffer) /\ at + 1 \in Nat
    BY <1>1, <1>2, <1>3
  <2>2. QED BY <1>1, <2>1, ValueRead
<1>6. QED BY <1>4, <1>5 DEF r

(* A message that is what its type says is read so.                        *)
LEMMA FittingRead ==
  ASSUME Static, NEW i \in Records, NEW m \in Messages(file.records[i]),
         Fitting(file.messages[m])
  PROVE  /\ Len(file.messages[m]) \in {1, 2} /\ EndOf(file, m) = file.at[m] + Len(file.messages[m])
         /\ Readable(file.at[m], 1) =>
              /\ Value(file.at[m]) \in DOMAIN SizeOf
              /\ SizeOf[Value(file.at[m])] = Len(file.messages[m])
<1> DEFINE a == file.at[m]
           b == file.messages[m]
<1>1. a \in Nat /\ Has(file, a, b) /\ m \in DOMAIN file.at /\ EndOf(file, m) = a + Len(b)
  BY PlaceIs
<1>2. Len(b) \in Nat /\ DOMAIN b = 1 .. Len(b)
  BY <1>1, MessageIs
<1>3. b[1] \in DOMAIN SizeOf /\ Len(b) = SizeOf[b[1]]
  BY DEF Fitting
<1>4. Len(b) \in {1, 2}
  BY <1>3 DEF SizeOf
<1>5. ASSUME Readable(a, 1) PROVE Value(a) = b[1]
  <2>1. Len(buffer) \in Nat /\ a < Len(buffer)
    BY <1>1, <1>5, BufferIs DEF Readable
  <2> HIDE DEF a, b
  <2>2. 1 \in DOMAIN b
    BY <1>2, <1>4
  <2>3. QED BY <1>1, <2>1, <2>2, ValueRead
<1>6. QED BY <1>1, <1>3, <1>4, <1>5

LEMMA SizesAre == \A v \in DOMAIN SizeOf : SizeOf[v] \in {1, 2}
BY DEF SizeOf

-----------------------------------------------------------------------------
(* What a step leaves alone.                                               *)
LEMMA InputStays ==
  ASSUME Static, UNCHANGED input
  PROVE  /\ Static' /\ buffer' = buffer /\ format' = format /\ file' = file /\ cut' = cut
         /\ Records' = Records /\ \A i : StartOf(i)' = StartOf(i)
         /\ \A x : Astray(x)' = Astray(x)
<1>1. file' = file /\ cut' = cut /\ program' = program
  BY DEF input
<1>2. format' = format /\ buffer' = buffer
  BY <1>1 DEF format, buffer
<1>3. \A x : Astray(x)' = Astray(x)
  BY <1>1, <1>2 DEF Astray
<1>4. QED BY <1>1, <1>2, <1>3 DEF Static, Records, StartOf

LEMMA PlacesStay ==
  ASSUME Static, UNCHANGED <<input, _seq_num>>
  PROVE  \A x : CallAt(x)' = CallAt(x)
<1>1. /\ file' = file /\ buffer' = buffer /\ \A i : StartOf(i)' = StartOf(i)
      /\ \A x : Astray(x)' = Astray(x)
  BY InputStays
<1>2. \A x : OnTrack(x)' = OnTrack(x)
  BY <1>1 DEF OnTrack
<1>3. QED BY <1>1, <1>2 DEF CallAt

(* What a program may say of where it stops.                               *)
LEMMA ReasonsStay ==
  ASSUME Static, UNCHANGED <<input, p, offset, _seq_num>>
  PROVE  /\ BadType' = BadType /\ BadMessage' = BadMessage /\ BadRecord' = BadRecord
         /\ Cut' = Cut /\ IsAstray' = IsAstray /\ AtUnfit' = AtUnfit
         /\ MessageAt' = MessageAt
<1>1. /\ file' = file /\ format' = format /\ cut' = cut
      /\ \A x : Astray(x)' = Astray(x)
  BY InputStays
<1>2. MessageAt' = MessageAt
  BY <1>1 DEF MessageAt
<1>3. /\ AtMessage' = AtMessage /\ AtUnfit' = AtUnfit /\ AtUnclean' = AtUnclean
      /\ NextIsLost' = NextIsLost /\ Cut' = Cut
  BY <1>1, <1>2 DEF AtMessage, AtUnfit, AtUnclean, NextIsLost, Cut
<1>4. IsAstray' = IsAstray
  BY <1>1, <1>2 DEF IsAstray, Astray
<1>5. QED BY <1>1, <1>2, <1>3, <1>4 DEF BadType, BadMessage, BadRecord

(* What leads astray a message leads astray what is behind it; in a        *)
(* recording of the binary framing, up to the end of the record.           *)
LEMMA SoupAstray ==
  ASSUME Static, file.format = "soupfile", NEW x \in Int, NEW y \in Int, x <= y, Astray(x)
  PROVE  Astray(y)
<1>1. PICK m \in DOMAIN file.at : ~Clean(file.messages[m]) /\ file.at[m] < x
  BY DEF Astray, format
<1>2. file.at[m] \in Int
  BY MessageIs
<1>3. file.at[m] < y
  <2> DEFINE a == file.at[m]
  <2> HIDE DEF a
  <2>1. a \in Int /\ a < x
    BY <1>1, <1>2 DEF a
  <2>2. a < y
    BY <2>1
  <2>3. QED BY <2>2 DEF a
<1>4. QED BY <1>1, <1>3 DEF Astray, format

LEMMA FrontierIs ==
  ASSUME Static, p \in Nat, offset \in Nat
  PROVE  Frontier \in Nat
BY HeaderIs DEF Frontier

(* Nothing is handed over.                                                 *)
LEMMA HandedStays ==
  ASSUME Static, Handed, UNCHANGED <<input, handled, _seq_num>>,
         file.format # "moldudp" => Frontier' = Frontier, Running' => Running
  PROVE  Handed'
<1>1. /\ file' = file /\ buffer' = buffer /\ \A x : Astray(x)' = Astray(x)
  BY InputStays
<1>2. HandedOver' = HandedOver
  BY DEF HandedOver
<1>3. CASE file.format = "moldudp"
  BY <1>1, <1>3 DEF Handed, HandedMold
<1>4. CASE file.format # "moldudp"
  <2>1. HandedOthers /\ Frontier' = Frontier
    BY <1>4 DEF Handed
  <2>2. HandedOthers'
    <3>1. \A k \in 1 .. Len(handled) :
            /\ (Astray(handled[k]))' = Astray(handled[k])
      BY <1>1 DEF Astray, format
    <3>2. \A m \in DOMAIN file.at : (Astray(file.at[m]))' = Astray(file.at[m])
      BY <1>1 DEF Astray, format
    <3>3. QED BY <1>1, <1>2, <2>1, <3>1, <3>2 DEF HandedOthers
  <2>3. QED BY <1>1, <1>4, <2>2 DEF Handed
<1>5. QED BY <1>3, <1>4

(* Nothing is handed over, and there was nothing to hand over.             *)
LEMMA HandedMoves ==
  ASSUME Static, Handed, UNCHANGED <<input, handled, _seq_num>>, file.format # "moldudp",
         Running, Frontier \in Nat, Frontier' \in Nat, Frontier <= Frontier',
         \A m \in DOMAIN file.at :
           Frontier <= file.at[m] /\ file.at[m] < Frontier' => Astray(file.at[m])
  PROVE  Handed'
<1>1. /\ file' = file /\ buffer' = buffer /\ \A x : Astray(x)' = Astray(x)
  BY InputStays
<1>2. HandedOver' = HandedOver
  BY DEF HandedOver
<1>3. HandedOthers
  BY DEF Handed
<1>4. \A k \in 1 .. Len(handled) : (Astray(handled[k]))' = Astray(handled[k])
  BY <1>1 DEF Astray, format
<1>5. \A m \in DOMAIN file.at : (Astray(file.at[m]))' = Astray(file.at[m])
  BY <1>1 DEF Astray, format
<1>6. handled \in Seq(0 .. Len(buffer) - 1)
  BY DEF Handed
<1> DEFINE f == Frontier
           g == Frontier'
<1>7. f \in Nat /\ g \in Nat /\ f <= g
  OBVIOUS
<1>8. \A k \in 1 .. Len(handled) : handled[k] <= g /\ handled[k] < g
  <2> SUFFICES ASSUME NEW k \in 1 .. Len(handled) PROVE handled[k] <= g /\ handled[k] < g
    OBVIOUS
  <2>1. handled[k] \in Nat /\ handled[k] < f
    <3>1. handled[k] < f
      BY <1>3 DEF HandedOthers
    <3>2. Len(buffer) \in Nat
      BY BufferIs
    <3> HIDE DEF f, g
    <3>3. handled[k] \in Nat
      BY <1>6, <3>2
    <3>4. QED BY <3>1, <3>3
  <2> DEFINE h == handled[k]
  <2> HIDE DEF h, f, g
  <2>2. h <= g /\ h < g
    BY <1>7, <2>1 DEF h
  <2>3. QED BY <2>2 DEF h
<1>9. \A m \in DOMAIN file.at :
        file.at[m] < g => Astray(file.at[m]) \/ file.at[m] \in HandedOver
  <2> SUFFICES ASSUME NEW m \in DOMAIN file.at, file.at[m] < g
               PROVE  Astray(file.at[m]) \/ file.at[m] \in HandedOver
    OBVIOUS
  <2> DEFINE a == file.at[m]
  <2>1. a \in Int
    BY MessageIs
  <2>2. a < f \/ f <= a
    <3> HIDE DEF a, f
    <3>1. QED BY <1>7, <2>1
  <2>3. CASE a < f
    BY <1>3, <2>3 DEF HandedOthers
  <2>4. CASE f <= a
    BY <2>4
  <2>5. QED BY <2>2, <2>3, <2>4
<1>10. HandedOthers'
  BY <1>1, <1>2, <1>3, <1>4, <1>5, <1>8, <1>9 DEF HandedOthers
<1>11. QED BY <1>1, <1>6, <1>10 DEF Handed

(* What is at the frontier is handed over.                                 *)
LEMMA HandedTakes ==
  ASSUME Static, Handed, UNCHANGED <<input, _seq_num>>, file.format # "moldudp",
         Running, NEW f \in Nat, f = Frontier, f < Len(buffer), handled' = Append(handled, f),
         Astray(f) \/ \E m \in DOMAIN file.at : file.at[m] = f,
         NEW g \in Nat, g = Frontier', f <= g, Running' => f < g,
         \A m \in DOMAIN file.at : f < file.at[m] /\ file.at[m] < g => Astray(file.at[m])
  PROVE  Handed'
<1>1. /\ file' = file /\ buffer' = buffer /\ \A x : Astray(x)' = Astray(x)
  BY InputStays
<1>2. HandedOthers /\ handled \in Seq(0 .. Len(buffer) - 1)
  BY DEF Handed
<1>3. f \in 0 .. Len(buffer) - 1 /\ Len(buffer) \in Nat
  BY BufferIs
<1> DEFINE h == handled
           n == Len(h)
<1>4. n \in Nat /\ \A k \in 1 .. n : h[k] \in Nat
  BY <1>2, <1>3
<1>5. /\ handled' \in Seq(0 .. Len(buffer) - 1) /\ Len(handled') = n + 1
      /\ \A k \in 1 .. n : handled'[k] = h[k]
      /\ handled'[n + 1] = f
  BY <1>2, <1>3
<1>6. \A k \in 1 .. n :
        /\ Astray(h[k]) \/ \E m \in DOMAIN file.at : file.at[m] = h[k]
        /\ h[k] < f
        /\ \A j \in 1 .. k - 1 : h[j] < h[k]
  BY <1>2 DEF HandedOthers
<1> DEFINE h2 == handled'
<1> HIDE DEF h, h2
<1>7. \A k \in 1 .. n + 1 :
        /\ Astray(h2[k]) \/ \E m \in DOMAIN file.at : file.at[m] = h2[k]
        /\ h2[k] <= f
        /\ \A j \in 1 .. k - 1 : h2[j] < h2[k]
  <2> SUFFICES ASSUME NEW k \in 1 .. n + 1
               PROVE  /\ Astray(h2[k]) \/ \E m \in DOMAIN file.at : file.at[m] = h2[k]
                      /\ h2[k] <= f
                      /\ \A j \in 1 .. k - 1 : h2[j] < h2[k]
    OBVIOUS
  <2>1. CASE k = n + 1
    <3>1. h2[k] = f
      BY <1>5, <2>1 DEF h2
    <3>2. \A j \in 1 .. k - 1 : h2[j] < f
      <4> SUFFICES ASSUME NEW j \in 1 .. k - 1 PROVE h2[j] < f
        OBVIOUS
      <4>1. j \in 1 .. n
        BY <1>4, <2>1
      <4>2. h2[j] = h[j] /\ h[j] < f
        BY <1>5, <1>6, <4>1 DEF h2
      <4>3. QED BY <4>2
    <3>3. QED BY <3>1, <3>2
  <2>2. CASE k # n + 1
    <3>1. k \in 1 .. n /\ \A j \in 1 .. k - 1 : j \in 1 .. n
      BY <1>4, <2>2
    <3>2. h2[k] = h[k] /\ \A j \in 1 .. k - 1 : h2[j] = h[j]
      BY <1>5, <3>1 DEF h2
    <3>3. /\ Astray(h[k]) \/ \E m \in DOMAIN file.at : file.at[m] = h[k]
          /\ h[k] < f /\ \A j \in 1 .. k - 1 : h[j] < h[k]
      BY <1>6, <3>1
    <3>4. h[k] <= f
      <4> DEFINE x == h[k]
      <4>1. x \in Nat /\ x < f
        BY <1>4, <3>1, <3>3
      <4> HIDE DEF x
      <4>2. x <= f
        BY <4>1
      <4>3. QED BY <4>2 DEF x
    <3>5. Astray(h2[k]) \/ \E m \in DOMAIN file.at : file.at[m] = h2[k]
      BY <3>2, <3>3, Zenon
    <3>6. h2[k] <= f /\ \A j \in 1 .. k - 1 : h2[j] < h2[k]
      BY <3>2, <3>3, <3>4
    <3>7. QED BY <3>5, <3>6
  <2>3. QED BY <2>1, <2>2
<1>8. \A k \in 1 .. n + 1 : h2[k] <= g /\ (Running' => h2[k] < g)
  <2> SUFFICES ASSUME NEW k \in 1 .. n + 1
               PROVE  h2[k] <= g /\ (Running' => h2[k] < g)
    OBVIOUS
  <2> DEFINE x == h2[k]
  <2>1. x \in Nat /\ x <= f
    BY <1>3, <1>5, <1>7 DEF h2
  <2> HIDE DEF x
  <2>2. x <= g /\ (Running' => x < g)
    <3>1. x <= g
      BY <2>1
    <3>2. f < g => x < g
      BY <2>1
    <3>3. QED BY <3>1, <3>2, Zenon
  <2>3. QED BY <2>2 DEF x
<1>9. HandedOver \cup {f} \subseteq HandedOver'
  <2>1. f \in HandedOver'
    <3>1. n + 1 \in DOMAIN handled'
      BY <1>4, <1>5
    <3>2. QED BY <1>5, <3>1 DEF HandedOver
  <2>2. ASSUME NEW x \in HandedOver PROVE x \in HandedOver'
    <3>1. PICK k \in DOMAIN handled : x = handled[k]
      BY <2>2 DEF HandedOver
    <3>2. k \in 1 .. n
      BY <1>2, <3>1 DEF h
    <3>3. k \in DOMAIN handled' /\ handled'[k] = x
      BY <1>4, <1>5, <3>1, <3>2 DEF h
    <3>4. QED BY <3>3 DEF HandedOver
  <2>3. QED BY <2>1, <2>2
<1>10. \A m \in DOMAIN file.at :
         file.at[m] < g => Astray(file.at[m]) \/ file.at[m] \in HandedOver'
  <2> SUFFICES ASSUME NEW m \in DOMAIN file.at, file.at[m] < g
               PROVE  Astray(file.at[m]) \/ file.at[m] \in HandedOver'
    OBVIOUS
  <2> DEFINE a == file.at[m]
  <2>1. a \in Int
    BY MessageIs
  <2>2. a < f \/ a = f \/ f < a
    <3> HIDE DEF a
    <3>1. QED BY <2>1
  <2>3. CASE a < f
    BY <1>2, <1>9, <2>3 DEF HandedOthers
  <2>4. CASE a = f
    BY <1>9, <2>4
  <2>5. CASE f < a
    BY <2>5
  <2>6. QED BY <2>2, <2>3, <2>4, <2>5
<1>11. HandedOthers'
  <2>1. \A k \in 1 .. n + 1 : (Astray(handled[k]))' = Astray(h2[k])
    BY <1>1 DEF Astray, format, h2
  <2>2. \A m \in DOMAIN file.at : (Astray(file.at[m]))' = Astray(file.at[m])
    BY <1>1 DEF Astray, format
  <2>3. _seq_num' = 1
    BY <1>2 DEF HandedOthers
  <2>4. Len(handled') = n + 1 /\ h2 = handled'
    BY <1>5 DEF h2
  <2>5. \A k \in 1 .. Len(handled') :
          /\ (Astray(handled[k]))' \/ \E m \in DOMAIN file'.at : file'.at[m] = handled'[k]
          /\ handled'[k] <= Frontier' /\ (Running' => handled'[k] < Frontier')
          /\ \A j \in 1 .. k - 1 : handled'[j] < handled'[k]
    BY <1>1, <1>7, <1>8, <2>1, <2>4
  <2>6. \A m \in DOMAIN file'.at :
          file'.at[m] < Frontier' => (Astray(file.at[m]))' \/ file'.at[m] \in HandedOver'
    BY <1>1, <1>10, <2>2
  <2>7. QED BY <2>3, <2>5, <2>6 DEF HandedOthers
<1>12. QED BY <1>1, <1>5, <1>11 DEF Handed

(* The next message of a multicast session is handed over.                 *)
LEMMA HandedNext ==
  ASSUME Static, Handed, UNCHANGED input, file.format = "moldudp",
         _seq_num \in DOMAIN file.at, file.at[_seq_num] \in 0 .. Len(buffer) - 1,
         handled' = Append(handled, file.at[_seq_num]), _seq_num' = _seq_num + 1
  PROVE  Handed'
<1>1. file' = file /\ buffer' = buffer
  BY InputStays
<1>2. HandedMold /\ handled \in Seq(0 .. Len(buffer) - 1)
  BY DEF Handed
<1> DEFINE n == Len(handled)
           a == file.at[_seq_num]
<1>3. n \in Nat /\ _seq_num = n + 1 /\ a \in 0 .. Len(buffer) - 1
  BY <1>2 DEF HandedMold
<1>4. _seq_num <= Len(file.at)
  BY FileFormed
<1> HIDE DEF a
<1>5. handled' = Append(handled, a)
  BY DEF a
<1>6. /\ handled' \in Seq(0 .. Len(buffer) - 1) /\ Len(handled') = n + 1
      /\ \A k \in 1 .. n : handled'[k] = handled[k]
      /\ handled'[n + 1] = a
  BY <1>2, <1>3, <1>5
<1>7. \A k \in 1 .. Len(handled') : handled'[k] = file.at[k]
  <2> SUFFICES ASSUME NEW k \in 1 .. Len(handled') PROVE handled'[k] = file.at[k]
    OBVIOUS
  <2>1. CASE k = n + 1
    BY <1>3, <1>6, <2>1 DEF a
  <2>2. CASE k # n + 1
    <3>1. k \in 1 .. n
      BY <1>3, <1>6, <2>2
    <3>2. QED BY <1>2, <1>6, <3>1 DEF HandedMold
  <2>3. QED BY <2>1, <2>2
<1>8. HandedMold'
  BY <1>1, <1>3, <1>4, <1>6, <1>7 DEF HandedMold
<1>9. QED BY <1>1, <1>6, <1>8 DEF Handed

-----------------------------------------------------------------------------
(* The ways in which a step may end.  It leaves the buffer.                *)
LEMMA BeyondInv ==
  ASSUME IInv, Running, Beyond, cut > 0 \/ AtUnfit \/ IsAstray
  PROVE  IInv'
<1>1. Static
  BY DEF IInv
<1>2. UNCHANGED <<input, p, size, payload_len, offset, _seq_num, handled, told>> /\ pc' = "beyond"
  BY DEF Beyond
<1>3. /\ Static' /\ buffer' = buffer /\ file' = file /\ cut' = cut
  BY <1>1, <1>2, InputStays
<1>4. AtUnfit' = AtUnfit /\ IsAstray' = IsAstray
  BY <1>1, <1>2, ReasonsStay
<1>5. Frontier' = Frontier /\ SizeLeft' = SizeLeft
  BY <1>2, <1>3 DEF Frontier, SizeLeft
<1>6. Handed'
  BY <1>1, <1>2, <1>5, HandedStays DEF IInv
<1>7. Told'
  BY <1>2 DEF IInv, Told, Running
<1>8. StopsForAReason'
  BY <1>2, <1>3, <1>4 DEF StopsForAReason
<1>9. QED BY <1>2, <1>3, <1>5, <1>6, <1>7, <1>8 DEF IInv, Stopped

(* It throws, for a reason.                                                *)
LEMMA ThrowInv ==
  ASSUME IInv, Running, NEW e, Throw(e), Handed',
         e \in {"unknown_message_type", "truncated_packet_error", "invalid_argument",
                "runtime_error"},
         e = "unknown_message_type" => BadType, e = "truncated_packet_error" => Cut,
         e = "invalid_argument" => BadMessage, e = "runtime_error" => BadRecord
  PROVE  IInv'
<1>1. Static
  BY DEF IInv
<1>2. /\ UNCHANGED <<input, p, size, payload_len, offset, _seq_num>>
      /\ pc' \in {"terminated", "exited"}
      /\ \/ told' = e /\ pc' = "terminated"
         \/ told' = helix_strerror(ErrorOf(e)) /\ pc' = "exited"
  BY DEF Throw
<1>3. /\ Static' /\ buffer' = buffer /\ file' = file /\ cut' = cut
  BY <1>1, <1>2, InputStays
<1>4. BadType' = BadType /\ BadMessage' = BadMessage /\ BadRecord' = BadRecord /\ Cut' = Cut
  BY <1>1, <1>2, ReasonsStay
<1>5. SizeLeft' = SizeLeft
  BY <1>2, <1>3 DEF IInv, SizeLeft
<1>6. helix_strerror(ErrorOf(e)) = CASE e = "unknown_message_type" -> "unknown message type"
                                     [] e = "truncated_packet_error" -> "truncated packet"
                                     [] OTHER -> "unknown error"
  <2>1. CASE e = "unknown_message_type"
    BY <2>1 DEF helix_strerror, ErrorOf
  <2>2. CASE e = "truncated_packet_error"
    BY <2>2 DEF helix_strerror, ErrorOf
  <2>3. CASE e \in {"invalid_argument", "runtime_error"}
    <3>1. e # "unknown_message_type" /\ e # "truncated_packet_error"
      BY <2>3
    <3>2. ErrorOf(e) = -3
      BY <3>1 DEF ErrorOf
    <3>3. helix_strerror(-3) = "unknown error"
      BY DEF helix_strerror
    <3>4. QED BY <3>1, <3>2, <3>3
  <2>4. QED BY <2>1, <2>2, <2>3
<1>7. Means(told)'
  BY <1>2, <1>4, <1>6 DEF Means
<1>8. told' # "nothing"
  BY <1>2, <1>6
<1>9. Told' /\ StopsForAReason'
  BY <1>2, <1>7, <1>8 DEF Told, StopsForAReason
<1>10. QED BY <1>2, <1>3, <1>5, <1>9 DEF IInv, Stopped

(* It throws before anything counts as handed over.                        *)
LEMMA RejectInv ==
  ASSUME IInv, Running, NEW e, Throw(e), UNCHANGED handled,
         e \in {"unknown_message_type", "truncated_packet_error", "invalid_argument",
                "runtime_error"},
         e = "unknown_message_type" => BadType, e = "truncated_packet_error" => Cut,
         e = "invalid_argument" => BadMessage, e = "runtime_error" => BadRecord
  PROVE  IInv'
<1>1. Static /\ Handed /\ UNCHANGED <<input, handled, _seq_num, p, payload_len, offset>>
  BY DEF IInv, Throw
<1>2. file' = file
  BY <1>1, InputStays
<1>3. Frontier' = Frontier
  BY <1>1, <1>2 DEF Frontier
<1>4. Handed'
  BY <1>1, <1>3, HandedStays
<1>5. QED BY <1>4, ThrowInv

(* A record begins.                                                        *)
LEMMA BeginInv ==
  ASSUME IInv, Running, NEW length \in Nat, NEW first \in Nat, Begin(length, first),
         Handed', InRecord'
  PROVE  IInv'
<1>1. Static
  BY DEF IInv
<1>2. /\ UNCHANGED <<input, p, size, _seq_num, handled, told>>
      /\ pc' = "record" /\ payload_len' = length /\ offset' = first
  BY DEF Begin
<1>3. Static' /\ buffer' = buffer /\ file' = file
  BY <1>1, <1>2, InputStays
<1>4. SizeLeft' = SizeLeft
  BY <1>2, <1>3 DEF IInv, SizeLeft
<1>5. Told' /\ StopsForAReason'
  BY <1>2 DEF IInv, Told, StopsForAReason, Running
<1>6. QED BY <1>2, <1>3, <1>4, <1>5 DEF IInv, Stopped

LEMMA NothingInv == ASSUME IInv, UNCHANGED vars PROVE IInv'
<1>1. /\ Static /\ UNCHANGED input /\ UNCHANGED <<input, _seq_num>>
      /\ UNCHANGED <<input, p, offset, _seq_num>> /\ UNCHANGED <<input, handled, _seq_num>>
      /\ UNCHANGED <<p, size, payload_len, offset, _seq_num, handled, pc, told>>
  BY DEF IInv, vars
<1>2. /\ Static' /\ buffer' = buffer /\ file' = file /\ cut' = cut
      /\ Records' = Records /\ \A i : StartOf(i)' = StartOf(i)
      /\ \A x : Astray(x)' = Astray(x)
  BY <1>1, InputStays
<1>3. Frontier' = Frontier /\ SizeLeft' = SizeLeft /\ Running' = Running
  BY <1>1, <1>2 DEF Frontier, SizeLeft, Running
<1>4. Handed'
  BY <1>1, <1>3, HandedStays DEF IInv
<1>5. /\ BadType' = BadType /\ BadMessage' = BadMessage /\ BadRecord' = BadRecord
      /\ Cut' = Cut /\ IsAstray' = IsAstray /\ AtUnfit' = AtUnfit
  BY <1>1, ReasonsStay
<1>6. Told'
  BY <1>1 DEF IInv, Told
<1>7. StopsForAReason'
  <2>1. \A m \in DOMAIN file.at : (Astray(file.at[m]))' = Astray(file.at[m])
    BY <1>2 DEF Astray, format
  <2>2. HandedOver' = HandedOver
    BY <1>1 DEF HandedOver
  <2>3. Means(told)' = Means(told)
    BY <1>1, <1>5 DEF Means
  <2>4. QED BY <1>1, <1>2, <1>5, <2>1, <2>2, <2>3 DEF IInv, StopsForAReason
<1>8. CallAt(p)' = CallAt(p) /\ CallAt(p + offset)' = CallAt(p + offset)
  <2>1. OnTrack(p)' = OnTrack(p) /\ OnTrack(p + offset)' = OnTrack(p + offset)
    BY <1>1, <1>2 DEF OnTrack
  <2>2. Astray(p)' = Astray(p) /\ Astray(p + offset)' = Astray(p + offset)
    BY <1>1, <1>2 DEF Astray, format
  <2>3. QED BY <1>1, <1>2, <2>1, <2>2 DEF CallAt
<1>9. InRecord' = InRecord
  <2>1. Astray(p)' = Astray(p)
    BY <1>1, <1>2 DEF Astray, format
  <2>2. InSoup' = InSoup
    BY <1>1, <1>2, <1>8, <2>1 DEF InSoup, AtClean
  <2>3. QED BY <1>1, <1>2, <2>2 DEF InRecord, InBinary, InMold
<1>10. QED BY <1>1, <1>2, <1>3, <1>4, <1>6, <1>7, <1>8, <1>9 DEF IInv, Stopped

-----------------------------------------------------------------------------
(* main at the beginning of a record, and at the end of the last one.      *)
LEMMA OnRecord ==
  ASSUME IInv, NEW i \in Records, p = StartOf(i)
  PROVE  /\ p = file.records[i].start /\ p \in Nat /\ Len(buffer) \in Nat
         /\ p < Len(buffer) /\ size = Len(buffer) - p
<1>1. Static /\ p \in Nat /\ size = SizeLeft
  BY DEF IInv
<1>2. p = file.records[i].start /\ p < Len(buffer) /\ Len(buffer) \in Nat
  BY <1>1, RecordIs, OnlyLastCut, BufferIs
<1>3. QED BY <1>1, <1>2 DEF SizeLeft

LEMMA OffEnd ==
  ASSUME IInv, p = StartOf(Len(file.records) + 1), size > 0
  PROVE  cut > 0 /\ Len(buffer) < p /\ p \in Nat /\ Len(buffer) \in Nat
<1>1. Static /\ p \in Nat /\ size = SizeLeft
  BY DEF IInv
<1>2. /\ p = Len(file.bytes) /\ Len(buffer) = Len(file.bytes) - cut /\ cut \in Nat
      /\ Len(buffer) \in Nat
  BY <1>1, BufferIs
<1>3. QED BY <1>1, <1>2 DEF SizeLeft

(* The first message of a record, if there is one, is where the session    *)
(* looks for it, and no other is on the way.                               *)
LEMMA NoneBefore ==
  ASSUME Static, NEW i \in Records, NEW m \in DOMAIN file.at, file.format # "moldudp"
  PROVE  LET r == file.records[i]
         IN  ~(r.start <= file.at[m] /\ file.at[m] < r.start + Ahead)
<1> DEFINE r == file.records[i]
           a == file.at[m]
           e == EndOf(file, m)
<1>1. /\ a \in Nat /\ a # Lost /\ e = a + Len(file.messages[m])
      /\ Len(file.messages[m]) \in Nat /\ Len(file.messages[m]) > 0
  BY MessageIs
<1>2. m \in Messages(r) \/ e <= r.start \/ r.end <= a
  BY <1>1, Where
<1>3. m \in Messages(r) => r.start + Ahead + Header(file) <= a
  BY PlaceIs
<1>4. r.start \in Nat /\ r.end \in Nat /\ r.start + 2 <= r.end
  BY RecordFields
<1>5. Ahead \in {0, 2}
  BY DEF Ahead
<1> DEFINE n == Len(file.messages[m])
<1> HIDE DEF r, a, e, n
<1>6. e = a + n /\ n \in Nat /\ n > 0
  BY <1>1 DEF n
<1>7. ~(r.start <= a /\ a < r.start + Ahead)
  BY <1>1, <1>2, <1>3, <1>4, <1>5, <1>6, HeaderIs
<1>8. QED BY <1>7 DEF r, a

LEMMA BinaryCall ==
  ASSUME IInv, pc = "loop", size > 0, file.format = "binaryfile", BinaryRecord
  PROVE  IInv'
<1>1. Static /\ Running /\ Handed /\ p \in Nat /\ payload_len = 0 /\ offset = 0
  BY DEF IInv, Running
<1>2. PICK i \in 1 .. Len(file.records) + 1 : p = StartOf(i)
  BY DEF IInv, CallAt, OnTrack
<1>3. CASE i \notin Records
  <2>1. i = Len(file.records) + 1
    BY <1>1, <1>2, <1>3, FileFormed
  <2>2. cut > 0 /\ ~Readable(p, 2)
    BY <1>2, <2>1, OffEnd DEF Readable
  <2>3. QED BY <1>1, <2>2, BeyondInv DEF BinaryRecord
<1>4. CASE i \in Records
  <2> DEFINE r == file.records[i]
             length == r.end - r.start - 2
  <2>1. /\ p = r.start /\ p \in Nat /\ Len(buffer) \in Nat /\ p < Len(buffer)
    BY <1>2, <1>4, OnRecord
  <2>2. /\ r.start \in Nat /\ r.end \in Nat /\ r.first \in Nat \ {0} /\ r.count \in Nat
        /\ r.start + 2 <= r.end
        /\ r.count = 0 => r.end = r.start + 2
        /\ r.count # 0 => r.first \in Messages(r)
    BY <1>1, <1>4, RecordFields
  <2>3. CASE ~Readable(p, 2)
    <3>1. r.end > Len(buffer) => cut > 0
      BY <1>1, <1>4, OnlyLastCut
    <3>2. p + 2 > Len(buffer)
      BY <2>1, <2>3 DEF Readable
    <3> HIDE DEF r
    <3>3. cut > 0
      BY <2>1, <2>2, <3>1, <3>2
    <3>4. QED BY <1>1, <2>3, <3>3, BeyondInv DEF BinaryRecord
  <2>4. CASE Readable(p, 2)
    <3>1. length \in Nat /\ swap_bytes(Value(p) + Radix * Value(p + 1)) = length
      BY <1>1, <1>4, <2>1, <2>4, BinaryStart
    <3>2. CASE length = 0
      BY <2>4, <3>1, <3>2, NothingInv DEF BinaryRecord, ReturnZero, Begin
    <3>3. CASE length # 0
      <4>1. Begin(length, 2)
        BY <2>4, <3>1, <3>3 DEF BinaryRecord
      <4>2. /\ p' = p /\ offset' = 2 /\ payload_len' = length /\ file' = file
            /\ buffer' = buffer /\ StartOf(i)' = StartOf(i) /\ Records' = Records
            /\ UNCHANGED <<input, handled, _seq_num>>
        BY <1>1, <4>1, InputStays DEF Begin
      <4>3. r.first \in Messages(r) /\ file.at[r.first] = p + 2
        <5>1. r.count # 0
          BY <2>2, <3>3
        <5>2. r.first \in Messages(r) /\ file.at[r.first] = r.start + Ahead + Header(file)
          BY <1>1, <1>4, <2>2, <5>1, PlaceIs
        <5>3. Ahead = 2 /\ Header(file) = 0
          BY DEF Ahead, Header
        <5> HIDE DEF r
        <5>4. r.start + Ahead + Header(file) = p + 2
          BY <2>1, <2>2, <5>3
        <5>5. QED BY <5>2, <5>4
      <4>4. InBinary(r)'
        <5>1. length = r.end - (p + 2)
          <6> HIDE DEF r
          <6>1. r.end - r.start - 2 = r.end - (p + 2)
            BY <2>1, <2>2
          <6>2. QED BY <6>1
        <5>2. QED BY <4>2, <4>3, <5>1 DEF InBinary
      <4>5. InRecord'
        BY <1>2, <1>4, <2>1, <4>2, <4>4 DEF InRecord
      <4>6. Frontier = p /\ Frontier' = p + 2
        <5>1. Header(file) = 0
          BY DEF Header
        <5>2. p + 0 + 0 = p /\ p + 2 + 0 = p + 2
          BY <1>1
        <5>3. QED BY <1>1, <4>2, <5>1, <5>2 DEF Frontier
      <4>7. Handed'
        <5>1. \A m \in DOMAIN file.at : ~(Frontier <= file.at[m] /\ file.at[m] < Frontier')
          BY <1>1, <1>4, <2>1, <4>6, NoneBefore DEF Ahead
        <5>2. Frontier \in Nat /\ Frontier' \in Nat /\ Frontier <= Frontier'
          BY <2>1, <4>6
        <5>3. QED BY <1>1, <4>2, <5>1, <5>2, HandedMoves
      <4>8. QED BY <1>1, <3>1, <4>1, <4>5, <4>7, BeginInv
    <3>4. QED BY <3>2, <3>3
  <2>5. QED BY <2>3, <2>4
<1>5. QED BY <1>3, <1>4

(* A clean message ends where the SOUP framing sees its end.               *)
LEMMA CleanEnds ==
  ASSUME Static, NEW i \in Records, file.format = "soupfile", p \in Nat,
         p = file.records[i].start, NEW t \in Terminators, \A j \in Terminators : t <= j,
         file.records[i].count = 0 \/ Clean(file.messages[file.records[i].first])
  PROVE  t = file.records[i].end - 2
<1> DEFINE r == file.records[i]
           m == r.first
           b == file.messages[m]
           last == r.end - 2
<1>1. /\ r.start \in Nat /\ r.end \in Nat /\ r.start + 2 <= r.end /\ r.count \in {0, 1}
      /\ r.count # 0 => m \in Messages(r)
      /\ r.count = 0 => r.end = r.start + 2
  BY RecordFields
<1>2. t \in p .. Len(buffer) - 1 /\ Value(t) \in {CR, LF} /\ Len(buffer) \in Nat
  BY BufferIs DEF Terminators
<1>3. Has(file, last, <<CR, LF>>)
  BY RecordIs DEF SoupFramed
<1>4. last < Len(buffer) => Value(last) = CR
  <2> HIDE DEF r, last
  <2>1. last \in Nat
    BY <1>1 DEF last
  <2> SUFFICES ASSUME last < Len(buffer) PROVE Value(last) = CR
    OBVIOUS
  <2>2. 1 \in DOMAIN <<CR, LF>> /\ <<CR, LF>>[1] = CR /\ last = last + 1 - 1
    BY <2>1
  <2>3. QED BY <1>3, <2>1, <2>2, ValueRead
<1>5. last < Len(buffer) => t <= last
  <2> SUFFICES ASSUME last < Len(buffer) PROVE t <= last
    OBVIOUS
  <2>1. last \in p .. Len(buffer) - 1
    <3> HIDE DEF r
    <3>0. p = r.start
      BY DEF r
    <3>1. QED BY <1>1, <1>2, <3>0
  <2>2. last \in Terminators
    BY <1>4, <2>1 DEF Terminators
  <2>3. QED BY <2>2
<1>6. last <= t
  <2> SUFFICES ASSUME ~(last <= t) PROVE FALSE
    OBVIOUS
  <2>1. r.count # 0
    <3> HIDE DEF r
    <3>0. p = r.start
      BY DEF r
    <3>1. QED BY <1>1, <1>2, <3>0
  <2>2. /\ m \in Messages(r) /\ Clean(b)
    BY <1>1, <2>1
  <2>3. m = r.first + r.count - 1
    <3>1. m \in Nat \ {0}
      BY RecordFields
    <3>2. r.count = 1
      BY <1>1, <2>1
    <3> HIDE DEF r
    <3>3. QED BY <3>1, <3>2 DEF m
  <2>4. /\ file.at[m] = r.start + Ahead + Header(file) /\ Has(file, file.at[m], b)
        /\ EndOf(file, m) = file.at[m] + Len(b) /\ EndOf(file, m) = r.end - Astern
        /\ m \in DOMAIN file.at
    BY <2>2, <2>3, PlaceIs
  <2>5. Ahead = 0 /\ Astern = 2 /\ Header(file) = 0
    BY DEF Ahead, Astern, Header
  <2>6. Len(b) \in Nat /\ DOMAIN b = 1 .. Len(b)
    BY <2>4, MessageIs
  <2>7. file.at[m] = p
    <3>1. p + 0 + 0 = p
      OBVIOUS
    <3>2. QED BY <2>4, <2>5, <3>1
  <2>8. p + Len(b) = last
    BY <2>4, <2>5, <2>7
  <2> HIDE DEF r, m, b, last
  <2>9. last \in Int
    BY <1>1 DEF last
  <2>10. t \in Nat /\ t < last /\ p <= t /\ t < Len(buffer)
    BY <1>2, <2>9
  <2>11. t - p + 1 \in 1 .. Len(b) /\ t - p + 1 \in Nat /\ t = p + (t - p + 1) - 1
    BY <2>6, <2>8, <2>10
  <2>12. Value(t) = b[t - p + 1]
    <3> DEFINE k == t - p + 1
    <3>1. k \in DOMAIN b /\ k \in Nat /\ t = p + k - 1
      BY <2>6, <2>11
    <3>2. Has(file, p, b)
      BY <2>4, <2>7
    <3> HIDE DEF k
    <3>3. Value(t) = b[k]
      BY <2>10, <3>1, <3>2, ValueRead
    <3>4. QED BY <3>3 DEF k
  <2>13. b[t - p + 1] \notin {CR, LF}
    BY <2>2, <2>6, <2>11 DEF Clean
  <2>14. QED BY <1>2, <2>12, <2>13
<1>7. last \in Int
  <2> HIDE DEF r
  <2>1. QED BY <1>1 DEF last
<1> HIDE DEF last
<1>8. t = last
  BY <1>2, <1>5, <1>6, <1>7
<1>9. QED BY <1>8 DEF last

LEMMA SoupBegins ==
  ASSUME IInv, pc = "loop", file.format = "soupfile", NEW t \in Terminators,
         \A j \in Terminators : t <= j, t # p, Begin(t - p, t - p + 2)
  PROVE  IInv'
<1>1. Static /\ Running /\ Handed /\ p \in Nat /\ payload_len = 0 /\ offset = 0 /\ CallAt(p)
  BY DEF IInv, Running
<1>2. t \in p .. Len(buffer) - 1 /\ Len(buffer) \in Nat
  BY <1>1, BufferIs DEF Terminators
<1>3. t - p \in Nat /\ t - p > 0 /\ t - p + 2 \in Nat /\ p < Len(buffer)
      /\ p + (t - p + 2) = t + 2 /\ t + 2 <= Len(buffer) + 1 /\ p <= t + 2 /\ p < t + 2
  BY <1>1, <1>2
<1>4. /\ p' = p /\ offset' = t - p + 2 /\ payload_len' = t - p
      /\ UNCHANGED <<input, handled, _seq_num>> /\ pc' = "record"
  BY DEF Begin
<1>5. /\ file' = file /\ buffer' = buffer /\ Records' = Records
      /\ \A i : StartOf(i)' = StartOf(i) /\ \A x : Astray(x)' = Astray(x)
  BY <1>1, <1>4, InputStays
<1>6. Frontier = p /\ Frontier' = p
  <2>1. Header(file) = 0 /\ p + 0 + 0 = p
    BY <1>1 DEF Header
  <2>2. QED BY <1>1, <1>3, <1>4, <1>5, <2>1 DEF Frontier
<1>7. Handed'
  BY <1>1, <1>4, <1>6, HandedStays
<1>8. ASSUME NEW i \in Records, p = StartOf(i)
      PROVE  AtClean(file.records[i])' /\ CallAt(t + 2)
  <2> DEFINE r == file.records[i]
             m == r.first
  <2>1. /\ r.start \in Nat /\ r.end \in Nat /\ r.first \in Nat \ {0} /\ r.count \in {0, 1}
        /\ r.start = p /\ r.end = StartOf(i + 1) /\ i + 1 \in 1 .. Len(file.records) + 1
        /\ r.count = 0 => r.end = r.start + 2
        /\ r.count # 0 => m \in Messages(r)
    BY <1>1, <1>8, RecordFields
  <2>2. r.count = 0 \/ Clean(file.messages[m]) => t = r.end - 2
    BY <1>1, <2>1, CleanEnds
  <2>3. r.count = 1 /\ m \in Messages(r)
    <3>1. r.count # 0
      <4> SUFFICES ASSUME r.count = 0 PROVE FALSE
        OBVIOUS
      <4>1. t = r.end - 2 /\ r.end = r.start + 2
        BY <2>1, <2>2
      <4> HIDE DEF r
      <4>2. QED BY <1>1, <2>1, <4>1
    <3>2. QED BY <2>1, <3>1
  <2>4. /\ file.at[m] = r.start + Ahead + Header(file)
        /\ EndOf(file, m) = file.at[m] + Len(file.messages[m])
        /\ m = r.first + r.count - 1 => EndOf(file, m) = r.end - Astern
        /\ m \in DOMAIN file.at
    BY <1>1, <2>3, PlaceIs
  <2>5. Ahead = 0 /\ Astern = 2 /\ Header(file) = 0
    BY DEF Ahead, Astern, Header
  <2>6. Len(file.messages[m]) \in Nat
    BY <1>1, <2>4, MessageIs
  <2> DEFINE n == Len(file.messages[m])
  <2>7. file.at[m] = p /\ p + n = r.end - 2
    <3>1. p + 0 + 0 = p
      BY <1>1
    <3>2. m = r.first + r.count - 1
      <4>1. r.first \in Nat /\ r.count = 1
        BY <2>1, <2>3
      <4> HIDE DEF r
      <4>2. r.first = r.first + r.count - 1
        BY <4>1
      <4>3. QED BY <4>2
    <3>3. QED BY <2>1, <2>4, <2>5, <3>1, <3>2
  <2>8. CASE Clean(file.messages[m])
    <3>1. t = r.end - 2
      BY <2>2, <2>8
    <3>2. t - p = n /\ t + 2 = r.end
      <4> HIDE DEF r, n, m
      <4>1. QED BY <1>1, <2>1, <2>6, <2>7, <3>1 DEF n
    <3>3. p' + offset' = r.end /\ payload_len' = n
      BY <1>3, <1>4, <3>2
    <3>4. AtClean(r)'
      BY <1>4, <1>5, <2>3, <2>7, <3>3 DEF AtClean
    <3>5. CallAt(t + 2)
      BY <1>1, <2>1, <3>2 DEF CallAt, OnTrack
    <3>6. QED BY <3>4, <3>5
  <2>9. CASE ~Clean(file.messages[m])
    <3>1. AtClean(r)'
      BY <1>4, <1>5, <2>3, <2>7, <2>9 DEF AtClean
    <3>2. Astray(t + 2)
      <4>1. file.at[m] < t + 2
        BY <1>3, <2>7
      <4>2. QED BY <2>4, <2>9, <4>1 DEF Astray, format
    <3>3. QED BY <1>3, <1>5, <3>1, <3>2 DEF CallAt
  <2>10. QED BY <2>8, <2>9
<1>9. Astray(p) => CallAt(t + 2)
  BY <1>1, <1>2, <1>3, SoupAstray DEF CallAt
<1>10. Astray(p) \/ \E i \in Records : p = StartOf(i)
  <2> SUFFICES ASSUME ~Astray(p) PROVE \E i \in Records : p = StartOf(i)
    OBVIOUS
  <2>1. PICK i \in 1 .. Len(file.records) + 1 : p = StartOf(i)
    BY <1>1 DEF CallAt, OnTrack
  <2>2. i # Len(file.records) + 1
    <3> SUFFICES ASSUME i = Len(file.records) + 1 PROVE FALSE
      OBVIOUS
    <3>1. p = Len(file.bytes) /\ Len(buffer) <= Len(file.bytes)
      BY <1>1, <2>1, BufferIs
    <3>2. Len(file.bytes) \in Nat
      BY <1>1, BufferIs
    <3> HIDE DEF buffer
    <3>3. QED BY <1>2, <1>3, <3>1, <3>2
  <2>3. i \in Records
    BY <1>1, <2>2, FileFormed
  <2>4. QED BY <2>1, <2>3
<1>11. InSoup'
  <2>1. CallAt(t + 2)
    BY <1>8, <1>9, <1>10
  <2>2. (CallAt(p + offset))'
    <3>1. (p + offset)' = t + 2
      BY <1>3, <1>4
    <3>2. UNCHANGED <<input, _seq_num>>
      BY <1>4
    <3>3. OnTrack(t + 2) => (OnTrack(p + offset))'
      BY <1>4, <1>5, <3>1 DEF OnTrack
    <3>4. Astray(t + 2) => (Astray(p + offset))'
      BY <1>5, <3>1 DEF Astray, format
    <3>5. QED BY <1>5, <2>1, <3>1, <3>3, <3>4 DEF CallAt
  <2>3. p' + offset' <= Len(buffer') + 1 /\ offset' = payload_len' + 2
    BY <1>3, <1>4, <1>5
  <2>4. Astray(p)' \/ \E i \in Records' : p' = StartOf(i)' /\ AtClean(file.records[i])'
    <3>1. Astray(p) => (Astray(p))'
      BY <1>4, <1>5 DEF Astray, format
    <3>2. QED BY <1>4, <1>5, <1>8, <1>10, <3>1
  <2>5. QED BY <2>2, <2>3, <2>4 DEF InSoup
<1>12. InRecord'
  BY <1>3, <1>4, <1>5, <1>11 DEF InRecord
<1>13. QED BY <1>1, <1>3, <1>7, <1>12, BeginInv

LEMMA SoupCall ==
  ASSUME IInv, pc = "loop", size > 0, file.format = "soupfile", SoupRecord
  PROVE  IInv'
<1>1. Static /\ Running /\ p \in Nat /\ payload_len = 0 /\ offset = 0 /\ CallAt(p)
      /\ Len(buffer) \in Nat
  BY BufferIs DEF IInv, Running
<1>2. MessageAt = p
  BY DEF MessageAt, format
<1>3. ASSUME Terminators = {} \/ ~Readable(p, 1)
      PROVE  cut > 0 \/ IsAstray
  <2>1. CASE Astray(p)
    BY <1>2, <2>1 DEF IsAstray
  <2>2. CASE OnTrack(p)
    <3>1. PICK i \in 1 .. Len(file.records) + 1 : p = StartOf(i)
      BY <2>2 DEF OnTrack
    <3>2. CASE i \notin Records
      <4>1. i = Len(file.records) + 1
        BY <1>1, <3>1, <3>2, FileFormed
      <4>2. QED BY <3>1, <4>1, OffEnd
    <3>3. CASE i \in Records
      <4> DEFINE r == file.records[i]
                 last == r.end - 2
      <4>1. /\ p = r.start /\ p < Len(buffer) /\ r.end \in Nat /\ r.start + 2 <= r.end
            /\ r.end > Len(buffer) => cut > 0
        BY <1>1, <3>1, <3>3, OnRecord, RecordFields, OnlyLastCut
      <4>2. Has(file, last, <<CR, LF>>)
        BY <1>1, <3>3, RecordIs DEF SoupFramed
      <4> HIDE DEF r
      <4>3. last \in Nat /\ p <= last
        BY <1>1, <4>1
      <4>4. ASSUME last < Len(buffer) PROVE FALSE
        <5> HIDE DEF last
        <5>1. 1 \in DOMAIN <<CR, LF>> /\ <<CR, LF>>[1] = CR /\ last = last + 1 - 1
          BY <4>3
        <5>2. Value(last) = CR
          BY <1>1, <4>2, <4>3, <4>4, <5>1, ValueRead
        <5>3. last \in p .. Len(buffer) - 1
          BY <1>1, <4>3, <4>4
        <5>4. last \in Terminators
          BY <5>2, <5>3 DEF Terminators
        <5>5. Readable(p, 1)
          BY <1>1, <4>1 DEF Readable
        <5>6. QED BY <1>3, <5>4, <5>5
      <4>5. r.end > Len(buffer)
        BY <1>1, <4>1, <4>3, <4>4
      <4>6. QED BY <4>1, <4>5
    <3>4. QED BY <3>2, <3>3
  <2>3. QED BY <1>1, <2>1, <2>2 DEF CallAt
<1>4. CASE ~Readable(p, 1) /\ Beyond
  BY <1>1, <1>3, <1>4, BeyondInv
<1>5. CASE Terminators = {} /\ Throw("runtime_error") /\ UNCHANGED handled
  <2>1. BadRecord
    BY <1>3, <1>5 DEF BadRecord, format
  <2>2. QED BY <1>1, <1>5, <2>1, RejectInv
<1>6. ASSUME NEW t \in Terminators, \A j \in Terminators : t <= j,
             \/ t - p = 0 /\ ReturnZero
             \/ t - p # 0 /\ Begin(t - p, t - p + TerminatorSize)
      PROVE  IInv'
  <2>1. CASE ReturnZero
    BY <2>1, NothingInv DEF ReturnZero
  <2>2. CASE t - p # 0 /\ Begin(t - p, t - p + 2)
    <3>1. t # p
      BY <1>1, <2>2
    <3>2. QED BY <1>6, <2>2, <3>1, SoupBegins
  <2>3. QED BY <1>6, <2>1, <2>2 DEF TerminatorSize
<1>7. QED BY <1>4, <1>5, <1>6 DEF SoupRecord

LEMMA MoldCall ==
  ASSUME IInv, pc = "loop", size > 0, file.format = "moldudp", MoldRecord
  PROVE  IInv'
<1>1. Static /\ Running /\ Handed /\ HandedMold /\ p \in Nat /\ payload_len = 0 /\ offset = 0
  BY DEF IInv, Running, Handed
<1>2. PICK i \in 1 .. Len(file.records) + 1 : p = StartOf(i) /\ _seq_num = Due(file, i)
  BY DEF IInv, CallAt, OnTrack
<1>3. ASSUME Throw("truncated_packet_error"), UNCHANGED handled, cut > 0 PROVE IInv'
  BY <1>1, <1>3, RejectInv DEF Cut, format
<1>4. CASE i \notin Records
  <2>1. i = Len(file.records) + 1
    BY <1>1, <1>2, <1>4, FileFormed
  <2>2. cut > 0 /\ Len(buffer) < p /\ p \in Nat /\ Len(buffer) \in Nat
    BY <1>2, <2>1, OffEnd
  <2>3. ~Readable(p, 2)
    BY <2>2 DEF Readable
  <2>4. QED BY <1>1, <1>3, <2>2, <2>3, BeyondInv DEF MoldRecord
<1>5. CASE i \in Records
  <2> DEFINE r == file.records[i]
  <2>1. /\ p = r.start /\ p \in Nat /\ Len(buffer) \in Nat /\ p < Len(buffer)
        /\ size = Len(buffer) - p
    BY <1>2, <1>5, OnRecord
  <2>2. /\ r.start \in Nat /\ r.end \in Nat /\ r.first \in Nat \ {0} /\ r.count \in Nat
        /\ r.start + 2 <= r.end
        /\ r.count = 0 => r.end = r.start + 2
        /\ r.count # 0 => r.first \in Messages(r)
    BY <1>1, <1>5, RecordFields
  <2>3. CASE size < 2
    <3>1. cut > 0
      <4>1. r.end > Len(buffer) => cut > 0
        BY <1>1, <1>5, OnlyLastCut
      <4> HIDE DEF r
      <4>2. QED BY <2>1, <2>2, <2>3, <4>1
    <3>2. Throw("truncated_packet_error") /\ UNCHANGED handled
      BY <2>1, <2>3 DEF MoldRecord
    <3>3. QED BY <1>3, <3>1, <3>2
  <2>4. CASE size >= 2
    <3>1. Readable(p, 2) /\ ~(size < 2)
      BY <2>1, <2>4 DEF Readable
    <3>2. Value(p) = r.first /\ Value(p + 1) = r.count
      BY <1>1, <1>5, <2>1, <3>1, MoldStart
    <3>3. CASE r.first # _seq_num
      <4>1. Throw("runtime_error") /\ UNCHANGED handled
        BY <3>1, <3>2, <3>3 DEF MoldRecord
      <4>2. /\ Due(file, i) <= r.first /\ r.first + r.count <= Len(file.at) + 1
            /\ \A m \in Due(file, i) .. r.first - 1 : file.at[m] = Lost
        BY <1>1, <1>5, RecordIs DEF WellPlaced
      <4>3. _seq_num \in Nat \ {0} /\ Len(file.at) \in Nat /\ DOMAIN file.at = 1 .. Len(file.at)
        BY <1>1, FileFormed DEF Handed, HandedMold
      <4> HIDE DEF r
      <4>4. _seq_num \in _seq_num .. r.first - 1 /\ _seq_num \in DOMAIN file.at
        BY <1>2, <2>2, <3>3, <4>2, <4>3
      <4>5. NextIsLost
        BY <1>2, <4>2, <4>4 DEF NextIsLost, format
      <4>6. QED BY <1>1, <4>1, <4>5, RejectInv DEF BadRecord
    <3>4. CASE r.first = _seq_num
      <4>1. Begin(r.count, 2)
        BY <3>1, <3>2, <3>4 DEF MoldRecord
      <4>2. /\ p' = p /\ offset' = 2 /\ payload_len' = r.count /\ file' = file
            /\ buffer' = buffer /\ StartOf(i)' = StartOf(i) /\ Records' = Records
            /\ UNCHANGED <<input, handled, _seq_num>> /\ pc' = "record"
        BY <1>1, <4>1, InputStays DEF Begin
      <4>3. p + 2 = IF r.count = 0 THEN r.end ELSE file.at[r.first] - 1
        <5>1. r.count # 0 => file.at[r.first] = r.start + Ahead + Header(file)
          BY <1>1, <1>5, <2>2, PlaceIs
        <5>2. Ahead = 2 /\ Header(file) = 1
          BY DEF Ahead, Header
        <5> HIDE DEF r
        <5>3. QED BY <2>1, <2>2, <5>1, <5>2
      <4>4. InMold(r)'
        <5>1. r.count = r.first + r.count - r.first /\ r.first \in r.first .. r.first + r.count
          <6> HIDE DEF r
          <6>1. QED BY <2>2
        <5>2. QED BY <3>4, <4>2, <4>3, <5>1 DEF InMold
      <4>5. InRecord'
        BY <1>2, <1>5, <2>1, <4>2, <4>4 DEF InRecord
      <4>6. Handed'
        BY <1>1, <4>2, HandedStays
      <4>7. QED BY <1>1, <2>2, <4>1, <4>5, <4>6, BeginInv
    <3>5. QED BY <3>3, <3>4
  <2>5. QED BY <2>1, <2>3, <2>4
<1>6. QED BY <1>4, <1>5

-----------------------------------------------------------------------------
(* The session at a message, or astray.                                    *)
LEMMA AfterIs ==
  ASSUME Static, NEW m \in DOMAIN file.at, NEW n \in DOMAIN file.at,
         file.at[m] # Lost, file.at[n] # Lost, file.at[m] < file.at[n]
  PROVE  EndOf(file, m) <= file.at[n]
<1>1. /\ m \in Nat /\ n \in Nat /\ file.at[m] \in Nat /\ file.at[n] \in Nat
      /\ m < n => EndOf(file, m) + Header(file) <= file.at[n]
      /\ n < m => EndOf(file, n) + Header(file) <= file.at[m]
      /\ EndOf(file, m) = file.at[m] + Len(file.messages[m])
      /\ EndOf(file, n) = file.at[n] + Len(file.messages[n])
      /\ Len(file.messages[m]) \in Nat /\ Len(file.messages[n]) \in Nat
  BY MessageIs
<1> DEFINE a == file.at[m]
           b == file.at[n]
           k == Len(file.messages[m])
           l == Len(file.messages[n])
<1>2. /\ m < n => a + k + Header(file) <= b
      /\ n < m => b + l + Header(file) <= a
  BY <1>1
<1>3. m = n => a = b
  OBVIOUS
<1>4. a \in Nat /\ b \in Nat /\ k \in Nat /\ l \in Nat /\ a < b
  BY <1>1
<1> HIDE DEF a, b, k, l
<1>5. a + k <= b
  BY <1>1, <1>2, <1>3, <1>4, HeaderIs
<1>6. QED BY <1>1, <1>5 DEF a, b, k

LEMMA BinaryAt ==
  ASSUME IInv, payload_len > 0, file.format = "binaryfile",
         NEW i \in Records, p = StartOf(i), InBinary(file.records[i])
  PROVE  LET r == file.records[i]
         IN  /\ MessageAt = p + offset /\ Frontier = p + offset
             /\ p + offset \in Nat /\ p + offset < r.end
             /\ payload_len = r.end - (p + offset) /\ r.end \in Nat
             /\ \/ \E m \in Messages(r) : file.at[m] = p + offset
                \/ Astray(p + offset)
                   /\ \E m \in Messages(r) :
                        ~Fitting(file.messages[m]) /\ file.at[m] < p + offset
<1> DEFINE r == file.records[i]
           x == p + offset
<1>1. Static /\ p \in Nat /\ offset \in Nat /\ payload_len \in Nat
  BY DEF IInv
<1>2. r.end \in Nat /\ payload_len = r.end - x /\ x \in Nat
  BY <1>1, RecordFields DEF InBinary
<1>3. x < r.end /\ x # r.end
  <2> HIDE DEF r, x
  <2>1. QED BY <1>1, <1>2
<1>4. MessageAt = x /\ Frontier = x
  <2>1. Header(file) = 0 /\ x + 0 = x
    BY <1>2 DEF Header
  <2>2. QED BY <2>1 DEF MessageAt, format, Frontier
<1>5. \/ \E m \in Messages(r) : file.at[m] = x
      \/ \E m \in Messages(r) : ~Fitting(file.messages[m]) /\ file.at[m] < x
  BY <1>3 DEF InBinary
<1>6. ASSUME NEW m \in Messages(r), ~Fitting(file.messages[m]), file.at[m] < x
      PROVE  Astray(x)
  BY <1>3, <1>6 DEF Astray, format, Records
<1>7. QED BY <1>2, <1>3, <1>4, <1>5, <1>6

LEMMA SoupAt ==
  ASSUME IInv, pc = "record", payload_len > 0, file.format = "soupfile"
  PROVE  /\ MessageAt = p /\ Frontier = p /\ offset = payload_len + 2
         /\ p + offset <= Len(buffer) + 1 /\ CallAt(p + offset) /\ p < Len(buffer)
         /\ Astray(p) \/ \E i \in Records : p = StartOf(i) /\ AtClean(file.records[i])
BY DEF IInv, InRecord, InSoup, MessageAt, format, Frontier

LEMMA MoldAt ==
  ASSUME IInv, payload_len > 0, file.format = "moldudp",
         NEW i \in Records, p = StartOf(i), InMold(file.records[i])
  PROVE  /\ _seq_num \in Messages(file.records[i]) /\ file.at[_seq_num] = MessageAt
         /\ p + offset = MessageAt - 1 /\ p + offset \in Nat /\ MessageAt \in Nat
<1> DEFINE r == file.records[i]
<1>1. Static /\ p \in Nat /\ offset \in Nat /\ payload_len \in Nat /\ payload_len # 0
  BY DEF IInv
<1>2. r.first \in Nat \ {0} /\ r.count \in Nat
  BY <1>1, RecordFields
<1>3. /\ _seq_num \in r.first .. r.first + r.count
      /\ payload_len = r.first + r.count - _seq_num
      /\ p + offset = file.at[_seq_num] - 1
  BY <1>1 DEF InMold
<1>4. _seq_num \in Messages(r)
  <2> HIDE DEF r
  <2>1. QED BY <1>1, <1>2, <1>3 DEF Messages
<1>5. file.at[_seq_num] \in Nat
  BY <1>1, <1>4, PlaceIs
<1>6. MessageAt = p + offset + 1
  BY DEF MessageAt, format
<1>7. p + offset + 1 = file.at[_seq_num]
  BY <1>1, <1>3, <1>5
<1>8. QED BY <1>1, <1>3, <1>4, <1>5, <1>6, <1>7

LEMMA MessageFound ==
  ASSUME IInv, pc = "record", payload_len > 0
  PROVE  IsAstray \/ \E i \in Records : \E m \in Messages(file.records[i]) :
                       file.at[m] = MessageAt
<1>1. InRecord
  BY DEF IInv
<1>2. CASE file.format = "soupfile"
  BY <1>2, SoupAt DEF IsAstray, AtClean
<1>3. CASE file.format # "soupfile"
  <2>1. PICK i \in Records :
          /\ p = StartOf(i)
          /\ \/ file.format = "binaryfile" /\ InBinary(file.records[i])
             \/ file.format = "moldudp" /\ InMold(file.records[i])
    BY <1>1, <1>3 DEF InRecord
  <2>2. CASE file.format = "binaryfile" /\ InBinary(file.records[i])
    BY <2>1, <2>2, BinaryAt DEF IsAstray
  <2>3. CASE file.format = "moldudp" /\ InMold(file.records[i])
    BY <2>1, <2>3, MoldAt
  <2>4. QED BY <2>1, <2>2, <2>3
<1>4. QED BY <1>2, <1>3

(* A message that is as it should be, and is not all there, was cut.       *)
LEMMA CutOrUnfit ==
  ASSUME Static, NEW i \in Records, NEW m \in Messages(file.records[i]),
         file.at[m] = MessageAt, NEW nr \in {1, 2}, ~Readable(file.at[m], nr),
         nr = 1 \/ (Readable(file.at[m], 1) /\ nr = SizeOf[Value(file.at[m])])
  PROVE  cut > 0 \/ AtUnfit
<1> DEFINE r == file.records[i]
           a == file.at[m]
           n == Len(file.messages[m])
<1>1. m \in DOMAIN file.at /\ a \in Nat /\ EndOf(file, m) <= r.end - Astern
  BY PlaceIs
<1>2. CASE ~Fitting(file.messages[m])
  BY <1>1, <1>2 DEF AtUnfit
<1>3. CASE Fitting(file.messages[m])
  <2>1. n \in {1, 2} /\ EndOf(file, m) = a + n /\ (nr = 1 \/ nr = n)
    BY <1>3, FittingRead
  <2>2. r.end \in Nat /\ (r.end > Len(buffer) => cut > 0) /\ Len(buffer) \in Nat
    BY RecordFields, OnlyLastCut, BufferIs
  <2>3. a + nr > Len(buffer)
    <3> HIDE DEF a
    <3>1. a + nr \in Nat /\ ~(a + nr <= Len(buffer))
      BY <1>1 DEF Readable, a
    <3>2. QED BY <2>2, <3>1
  <2>4. a + n <= r.end - Astern
    BY <1>1, <2>1
  <2> HIDE DEF a, n, r
  <2>5. r.end > Len(buffer)
    BY <1>1, <2>1, <2>2, <2>3, <2>4, HeaderIs
  <2>6. QED BY <2>2, <2>5
<1>4. QED BY <1>2, <1>3

LEMMA AdvanceInv ==
  ASSUME IInv, pc = "record", Handed', UNCHANGED <<input, p, size, pc, told>>,
         payload_len' \in Nat, offset' \in Nat, InRecord'
  PROVE  IInv'
<1>1. Static
  BY DEF IInv
<1>2. Static' /\ buffer' = buffer /\ file' = file
  BY <1>1, InputStays
<1>3. SizeLeft' = SizeLeft
  BY <1>2 DEF IInv, SizeLeft
<1>4. Told' /\ StopsForAReason'
  BY DEF IInv, Told, StopsForAReason
<1>5. QED BY <1>2, <1>3, <1>4 DEF IInv, Stopped

(* What comes next when a message of a record of the binary framing was    *)
(* taken for as long as its type says.                                     *)
LEMMA BinaryNext ==
  ASSUME Static, NEW i \in Records, file.format = "binaryfile",
         NEW x \in Nat, NEW nr \in {1, 2}, x + nr <= file.records[i].end,
         NEW m \in Messages(file.records[i]),
         \/ file.at[m] = x /\ (Fitting(file.messages[m]) => nr = Len(file.messages[m]))
         \/ file.at[m] < x /\ ~Fitting(file.messages[m])
  PROVE  LET r == file.records[i]
         IN  /\ \/ x + nr = r.end
                \/ \E n \in Messages(r) : file.at[n] = x + nr
                \/ \E n \in Messages(r) : ~Fitting(file.messages[n]) /\ file.at[n] < x + nr
             /\ \A n \in DOMAIN file.at :
                  x < file.at[n] /\ file.at[n] < x + nr => Astray(file.at[n])
<1> DEFINE r == file.records[i]
           a == file.at[m]
           y == x + nr
<1>1. /\ m \in DOMAIN file.at /\ m \in Nat /\ a \in Nat /\ a # Lost
      /\ EndOf(file, m) = a + Len(file.messages[m])
      /\ m < r.first + r.count - 1 => m + 1 \in Messages(r)
      /\ m = r.first + r.count - 1 => EndOf(file, m) = r.end - Astern
  BY PlaceIs
<1>2. r.first \in Nat \ {0} /\ r.count \in Nat /\ r.end \in Nat
  BY RecordFields
<1>3. y \in Nat /\ x < y /\ y <= r.end
  OBVIOUS
<1>4. CASE ~Fitting(file.messages[m])
  <2>1. a <= x
    <3> HIDE DEF a
    <3>1. a = x \/ a < x
      BY DEF a
    <3>2. QED BY <1>1, <3>1
  <2>2. a < y
    <3> HIDE DEF a, y
    <3>1. QED BY <1>1, <1>3, <2>1
  <2>3. ASSUME NEW n \in DOMAIN file.at, x < file.at[n], file.at[n] < y
        PROVE  Astray(file.at[n])
    <3> DEFINE b == file.at[n]
    <3>1. b \in Int
      BY MessageIs
    <3>2. a < b /\ b < r.end
      <4> HIDE DEF a, y, r, b
      <4>1. x < b /\ b < y
        BY <2>3 DEF b
      <4>2. QED BY <1>1, <1>2, <1>3, <2>1, <3>1, <4>1
    <3>3. QED BY <1>4, <3>2 DEF Astray, format, Records
  <2>4. QED BY <1>4, <2>2, <2>3
<1>5. CASE Fitting(file.messages[m])
  <2>1. a = x /\ EndOf(file, m) = y
    BY <1>1, <1>5
  <2>2. ASSUME NEW n \in DOMAIN file.at, x < file.at[n], file.at[n] < y PROVE FALSE
    <3> DEFINE b == file.at[n]
    <3>1. b \in Nat /\ b # Lost
      BY MessageIs
    <3>2. y <= b
      BY <1>1, <2>1, <2>2, <3>1, AfterIs
    <3> HIDE DEF b, y
    <3>3. b < y
      BY <2>2 DEF b
    <3>4. QED BY <1>3, <3>1, <3>2, <3>3
  <2>3. m \in r.first .. r.first + r.count - 1
    BY DEF Messages
  <2>4. CASE m = r.first + r.count - 1
    <3>1. y = r.end - 0
      BY <1>1, <2>1, <2>4 DEF Astern
    <3>2. y = r.end
      BY <1>2, <3>1
    <3>3. QED BY <2>2, <3>2
  <2>5. CASE m # r.first + r.count - 1
    <3>1. m + 1 \in Messages(r) /\ m + 1 > r.first /\ (m + 1) - 1 = m
      <4>1. m < r.first + r.count - 1 /\ m + 1 > r.first /\ (m + 1) - 1 = m
        <5> HIDE DEF r
        <5>1. QED BY <1>2, <2>3, <2>5
      <4>2. QED BY <1>1, <4>1
    <3>2. file.at[m + 1] = EndOf(file, m) + Header(file)
      BY <3>1, PlaceIs
    <3>3. file.at[m + 1] = y
      <4>1. Header(file) = 0 /\ y + 0 = y
        BY <1>3 DEF Header
      <4>2. QED BY <2>1, <3>2, <4>1
    <3>4. QED BY <2>2, <3>1, <3>3
  <2>6. QED BY <2>4, <2>5
<1>6. QED BY <1>4, <1>5

LEMMA BinaryAccept ==
  ASSUME IInv, pc = "record", payload_len > 0, file.format = "binaryfile",
         NEW i \in Records, p = StartOf(i), InBinary(file.records[i]),
         Readable(MessageAt, 1), Value(MessageAt) \in DOMAIN SizeOf, Accept(MessageAt)
  PROVE  IInv'
<1> DEFINE r == file.records[i]
           x == p + offset
           nr == SizeOf[Value(MessageAt)]
           y == x + nr
<1>1. /\ MessageAt = x /\ Frontier = x /\ x \in Nat /\ x < r.end
      /\ payload_len = r.end - x /\ r.end \in Nat
      /\ \/ \E m \in Messages(r) : file.at[m] = x
         \/ /\ Astray(x)
            /\ \E m \in Messages(r) : ~Fitting(file.messages[m]) /\ file.at[m] < x
  BY BinaryAt
<1>2. /\ Static /\ Handed /\ Running /\ p \in Nat /\ offset \in Nat /\ payload_len \in Nat
      /\ p < Len(buffer)
  BY DEF IInv, Running, InRecord
<1>3. nr \in {1, 2} /\ y \in Nat /\ x < y /\ x <= y
  BY <1>1, SizesAre
<1>4. x < Len(buffer) /\ Len(buffer) \in Nat
  BY <1>1, <1>2, BufferIs DEF Readable
<1>5. PICK m \in Messages(r) :
        \/ file.at[m] = x /\ (Fitting(file.messages[m]) => nr = Len(file.messages[m]))
        \/ file.at[m] < x /\ ~Fitting(file.messages[m])
  <2>1. CASE \E m \in Messages(r) : file.at[m] = x
    <3>1. PICK m \in Messages(r) : file.at[m] = x
      BY <2>1
    <3>2. Fitting(file.messages[m]) => nr = Len(file.messages[m])
      BY <1>1, <1>2, <3>1, FittingRead
    <3>3. QED BY <3>1, <3>2
  <2>2. CASE \E m \in Messages(r) : ~Fitting(file.messages[m]) /\ file.at[m] < x
    BY <2>2
  <2>3. QED BY <1>1, <2>1, <2>2
<1>6. Astray(x) \/ \E n \in DOMAIN file.at : file.at[n] = x
  <2>1. \A n \in Messages(r) : n \in DOMAIN file.at
    BY <1>2, PlaceIs
  <2>2. QED BY <1>1, <2>1
<1>7. /\ handled' = Append(handled, x)
      /\ \/ /\ Fits(nr) /\ Advance(nr) /\ _seq_num' = _seq_num
            /\ UNCHANGED <<input, p, size, pc, told>>
         \/ ~Fits(nr) /\ Throw("runtime_error")
  BY <1>1 DEF Accept, format
<1>8. CASE /\ Fits(nr) /\ Advance(nr) /\ _seq_num' = _seq_num
           /\ UNCHANGED <<input, p, size, pc, told>>
  <2>1. nr <= payload_len /\ payload_len' = payload_len - nr /\ offset' = offset + nr
    BY <1>8 DEF Fits, Advance, format
  <2>2. /\ file' = file /\ buffer' = buffer /\ Records' = Records
        /\ StartOf(i)' = StartOf(i) /\ p' = p /\ pc' = pc
    BY <1>2, <1>8, InputStays
  <2>3. /\ payload_len' \in Nat /\ offset' \in Nat /\ p + offset' = y
        /\ payload_len' = r.end - y /\ y <= r.end
    <3>1. p + (offset + nr) = y
      BY <1>2, <1>3
    <3>2. payload_len - nr \in Nat /\ payload_len - nr = r.end - y /\ y <= r.end
      <4> HIDE DEF r, x, nr
      <4>1. QED BY <1>1, <1>2, <1>3, <2>1
    <3>3. offset + nr \in Nat
      BY <1>2, <1>3
    <3>4. QED BY <2>1, <3>1, <3>2, <3>3
  <2>4. /\ \/ y = r.end
           \/ \E n \in Messages(r) : file.at[n] = y
           \/ \E n \in Messages(r) : ~Fitting(file.messages[n]) /\ file.at[n] < y
        /\ \A n \in DOMAIN file.at :
             x < file.at[n] /\ file.at[n] < y => Astray(file.at[n])
    <3> HIDE DEF nr, x
    <3>1. QED BY <1>1, <1>2, <1>3, <1>5, <2>3, BinaryNext
  <2>5. InBinary(r)'
    BY <2>2, <2>3, <2>4 DEF InBinary
  <2>6. InRecord'
    BY <1>2, <2>2, <2>5 DEF InRecord
  <2>7. Frontier' = y
    <3>1. Header(file) = 0 /\ y + 0 = y
      BY <1>3 DEF Header
    <3>2. QED BY <2>2, <2>3, <3>1 DEF Frontier
  <2>8. Handed'
    <3> HIDE DEF x, y
    <3>1. UNCHANGED <<input, _seq_num>>
      BY <1>8
    <3>2. QED BY <1>1, <1>2, <1>3, <1>4, <1>6, <1>7, <2>4, <2>7, <3>1, HandedTakes
  <2>9. QED BY <1>8, <2>3, <2>6, <2>8, AdvanceInv
<1>9. CASE ~Fits(nr) /\ Throw("runtime_error")
  <2>1. UNCHANGED <<input, p, size, payload_len, offset, _seq_num>> /\ ~Running'
    BY <1>9 DEF Throw, Running
  <2>2. file' = file
    BY <1>2, <2>1, InputStays
  <2>3. Frontier' = x
    BY <1>1, <2>1, <2>2 DEF Frontier
  <2>4. Handed'
    <3> HIDE DEF x, y
    <3>1. \A n \in DOMAIN file.at : ~(x < file.at[n] /\ file.at[n] < x)
      <4> SUFFICES ASSUME NEW n \in DOMAIN file.at, x < file.at[n], file.at[n] < x PROVE FALSE
        OBVIOUS
      <4>1. file.at[n] \in Int
        BY <1>2, MessageIs
      <4> DEFINE b == file.at[n]
      <4> HIDE DEF b
      <4>2. b \in Int /\ x < b /\ b < x
        BY <4>1 DEF b
      <4>3. QED BY <1>1, <4>2
    <3>2. QED BY <1>1, <1>2, <1>4, <1>6, <1>7, <2>1, <2>3, <3>1, HandedTakes
  <2>5. BadRecord
    <3>1. CASE file.at[m] = x /\ (Fitting(file.messages[m]) => nr = Len(file.messages[m]))
      <4>1. /\ m \in DOMAIN file.at /\ EndOf(file, m) <= r.end - Astern
            /\ EndOf(file, m) = file.at[m] + Len(file.messages[m])
        BY <1>2, PlaceIs
      <4>2. ~Fitting(file.messages[m])
        <5> SUFFICES ASSUME Fitting(file.messages[m]) PROVE FALSE
          OBVIOUS
        <5>1. x + nr <= r.end - 0
          BY <3>1, <4>1 DEF Astern
        <5>2. nr <= payload_len
          <6> HIDE DEF x, nr, r
          <6>1. QED BY <1>1, <1>3, <5>1
        <5>3. QED BY <1>9, <5>2 DEF Fits
      <4>3. AtUnfit
        BY <1>1, <3>1, <4>1, <4>2 DEF AtUnfit
      <4>4. QED BY <4>3 DEF BadRecord
    <3>2. CASE file.at[m] < x /\ ~Fitting(file.messages[m])
      <4>1. Astray(x)
        BY <1>1, <3>2 DEF Astray, format, Records
      <4>2. QED BY <1>1, <4>1 DEF BadRecord, IsAstray
    <3>3. QED BY <1>5, <3>1, <3>2
  <2>6. QED BY <1>2, <1>9, <2>4, <2>5, ThrowInv
<1>10. QED BY <1>7, <1>8, <1>9

LEMMA SoupAccept ==
  ASSUME IInv, pc = "record", payload_len > 0, file.format = "soupfile",
         Readable(p, 1), Value(p) \in DOMAIN SizeOf, Accept(p)
  PROVE  IInv'
<1> DEFINE nr == SizeOf[Value(p)]
           y == p + offset
<1>1. /\ MessageAt = p /\ Frontier = p /\ offset = payload_len + 2
      /\ y <= Len(buffer) + 1 /\ CallAt(y) /\ p < Len(buffer)
      /\ Astray(p) \/ \E i \in Records : p = StartOf(i) /\ AtClean(file.records[i])
  BY SoupAt
<1>2. /\ Static /\ Handed /\ Running /\ p \in Nat /\ offset \in Nat /\ payload_len \in Nat
  BY DEF IInv, Running
<1>3. y \in Nat /\ p < y /\ p <= y
  BY <1>1, <1>2
<1>4. Astray(p) \/ \E n \in DOMAIN file.at : file.at[n] = p
  <2>1. ASSUME NEW i \in Records, AtClean(file.records[i])
        PROVE  \E n \in DOMAIN file.at : file.at[n] = p
    <3>1. file.records[i].first \in DOMAIN file.at
      BY <1>2, <2>1, PlaceIs DEF AtClean
    <3>2. QED BY <2>1, <3>1 DEF AtClean
  <2>2. QED BY <1>1, <2>1
<1>5. /\ handled' = Append(handled, p)
      /\ \/ /\ Fits(nr) /\ Advance(nr) /\ _seq_num' = _seq_num
            /\ UNCHANGED <<input, p, size, pc, told>>
         \/ ~Fits(nr) /\ Throw("runtime_error")
  BY DEF Accept, format
<1>6. CASE /\ Fits(nr) /\ Advance(nr) /\ _seq_num' = _seq_num
           /\ UNCHANGED <<input, p, size, pc, told>>
  <2>1. payload_len' = 0 /\ offset' = offset
    BY <1>6 DEF Advance, format
  <2>2. /\ file' = file /\ buffer' = buffer /\ p' = p /\ UNCHANGED <<input, _seq_num>>
        /\ Records' = Records /\ \A j : StartOf(j)' = StartOf(j)
    BY <1>2, <1>6, InputStays
  <2>3. (CallAt(p + offset))'
    <3>1. (OnTrack(p + offset))' = OnTrack(y) /\ (Astray(p + offset))' = Astray(y)
      BY <1>6, <2>1, <2>2 DEF OnTrack, Astray, format, input
    <3>2. QED BY <1>1, <2>1, <2>2, <3>1 DEF CallAt
  <2>4. InRecord'
    <3>1. InSoup'
      BY <1>1, <2>1, <2>2, <2>3 DEF InSoup
    <3>2. QED BY <1>1, <2>2, <3>1 DEF InRecord
  <2>5. Frontier' = y
    <3>1. Header(file) = 0 /\ y + 0 = y
      BY <1>3 DEF Header
    <3>2. QED BY <2>1, <2>2, <3>1 DEF Frontier
  <2>6. \A n \in DOMAIN file.at : p < file.at[n] /\ file.at[n] < y => Astray(file.at[n])
    <3> SUFFICES ASSUME NEW n \in DOMAIN file.at, p < file.at[n], file.at[n] < y
                 PROVE  Astray(file.at[n])
      OBVIOUS
    <3> DEFINE b == file.at[n]
    <3>1. b \in Nat /\ b # Lost /\ EndOf(file, n) = b + Len(file.messages[n])
          /\ Len(file.messages[n]) \in Nat
      BY <1>2, MessageIs
    <3>2. CASE Astray(p)
      <4>1. p <= b
        <5> HIDE DEF b
        <5>1. p < b
          BY DEF b
        <5>2. QED BY <1>2, <3>1, <5>1
      <4>2. QED BY <1>2, <3>1, <3>2, <4>1, SoupAstray
    <3>3. ASSUME NEW i \in Records, p = StartOf(i), AtClean(file.records[i])
          PROVE  Astray(b)
      <4> DEFINE r == file.records[i]
                 m == r.first
      <4>1. /\ m \in Messages(r) /\ r.count = 1 /\ file.at[m] = p
            /\ Clean(file.messages[m]) => y = r.end
        BY <3>3 DEF AtClean
      <4>2. m \in DOMAIN file.at /\ m \in Nat
        BY <1>2, <4>1, PlaceIs
      <4>3. CASE ~Clean(file.messages[m])
        BY <4>1, <4>2, <4>3 DEF Astray, format
      <4>4. CASE Clean(file.messages[m])
        <5>1. n \in Messages(r) \/ EndOf(file, n) <= r.start \/ r.end <= b
          BY <1>2, <3>1, Where
        <5>2. r.start = p /\ r.end = y
          BY <1>2, <3>3, <4>1, <4>4, RecordFields
        <5>3. n \in Messages(r) => n = m
          <6>1. m \in Nat /\ r.count = 1 /\ r.first = m
            BY <4>1, <4>2
          <6> HIDE DEF r, m
          <6>2. QED BY <6>1 DEF Messages
        <5>4. n = m => b = p
          BY <4>1
        <5> DEFINE k == Len(file.messages[n])
        <5>5. b + k <= p \/ y <= b \/ b = p
          BY <3>1, <5>1, <5>2, <5>3, <5>4
        <5>6. p < b /\ b < y /\ k \in Nat
          BY <3>1
        <5> HIDE DEF b, k, y
        <5>7. FALSE
          BY <1>2, <1>3, <3>1, <5>5, <5>6
        <5>8. QED BY <5>7
      <4>5. QED BY <4>3, <4>4
    <3>4. QED BY <1>1, <3>2, <3>3
  <2>7. Handed'
    <3> HIDE DEF y
    <3>1. QED BY <1>1, <1>2, <1>3, <1>4, <1>5, <2>2, <2>5, <2>6, HandedTakes
  <2>8. payload_len' \in Nat /\ offset' \in Nat
    BY <1>2, <2>1
  <2>9. QED BY <1>6, <2>4, <2>7, <2>8, AdvanceInv
<1>7. CASE ~Fits(nr) /\ Throw("runtime_error")
  <2>1. UNCHANGED <<input, p, size, payload_len, offset, _seq_num>> /\ ~Running'
    BY <1>7 DEF Throw, Running
  <2>2. file' = file
    BY <1>2, <2>1, InputStays
  <2>3. Frontier' = p
    BY <1>1, <2>1, <2>2 DEF Frontier
  <2>4. Handed'
    <3>1. \A n \in DOMAIN file.at : ~(p < file.at[n] /\ file.at[n] < p)
      <4> SUFFICES ASSUME NEW n \in DOMAIN file.at, p < file.at[n], file.at[n] < p PROVE FALSE
        OBVIOUS
      <4>1. file.at[n] \in Int
        BY <1>2, MessageIs
      <4> DEFINE b == file.at[n]
      <4> HIDE DEF b
      <4>2. b \in Int /\ p < b /\ b < p
        BY <4>1 DEF b
      <4>3. QED BY <1>2, <4>2
    <3>2. p <= p
      BY <1>2
    <3>3. QED BY <1>1, <1>2, <1>4, <1>5, <2>1, <2>3, <3>1, <3>2, HandedTakes
  <2>5. BadRecord
    <3>1. CASE Astray(p)
      BY <1>1, <3>1 DEF BadRecord, IsAstray
    <3>2. ASSUME NEW i \in Records, AtClean(file.records[i]) PROVE BadRecord
      <4> DEFINE m == file.records[i].first
      <4>1. /\ m \in Messages(file.records[i]) /\ file.at[m] = p
            /\ Clean(file.messages[m]) => payload_len = Len(file.messages[m])
        BY <3>2 DEF AtClean
      <4>2. m \in DOMAIN file.at
        BY <1>2, <4>1, PlaceIs
      <4>3. CASE ~Fitting(file.messages[m])
        BY <1>1, <4>1, <4>2, <4>3 DEF BadRecord, AtUnfit
      <4>4. CASE ~Clean(file.messages[m])
        BY <1>1, <4>1, <4>2, <4>4 DEF BadRecord, AtUnclean, format
      <4>5. CASE Fitting(file.messages[m]) /\ Clean(file.messages[m])
        <5>1. nr = Len(file.messages[m])
          BY <1>2, <4>1, <4>5, FittingRead
        <5>2. nr = payload_len
          BY <4>1, <4>5, <5>1
        <5>3. nr <= payload_len
          <6> HIDE DEF nr
          <6>1. QED BY <1>2, <5>2
        <5>4. QED BY <1>7, <5>3 DEF Fits
      <4>6. QED BY <4>3, <4>4, <4>5
    <3>3. QED BY <1>1, <3>1, <3>2
  <2>6. QED BY <1>2, <1>7, <2>4, <2>5, ThrowInv
<1>8. QED BY <1>5, <1>6, <1>7

LEMMA MoldAccept ==
  ASSUME IInv, pc = "record", payload_len > 0, file.format = "moldudp",
         NEW i \in Records, p = StartOf(i), InMold(file.records[i]),
         Readable(MessageAt, 1), Value(MessageAt) \in DOMAIN SizeOf, Accept(MessageAt)
  PROVE  IInv'
<1> DEFINE r == file.records[i]
           m == _seq_num
           n == Len(file.messages[m])
           a == MessageAt
           nr == SizeOf[Value(a)]
<1>1. /\ Static /\ Handed /\ p \in Nat /\ offset \in Nat /\ payload_len \in Nat
      /\ p < Len(buffer)
  BY DEF IInv, InRecord
<1>2. /\ m \in Messages(r) /\ file.at[m] = a /\ p + offset = a - 1 /\ p + offset \in Nat
      /\ a \in Nat
  BY MoldAt
<1>3. /\ r.first \in Nat \ {0} /\ r.count \in Nat
  BY <1>1, RecordFields
<1>4. /\ handled' = Append(handled, a) /\ Advance(nr) /\ _seq_num' = _seq_num + 1
      /\ UNCHANGED <<input, p, size, pc, told>>
  BY DEF Accept, Fits, format
<1>5. payload_len' = payload_len - 1 /\ offset' = offset + 1 + Value(p + offset)
  BY <1>4 DEF Advance, format
<1>6. /\ file' = file /\ buffer' = buffer /\ Records' = Records /\ StartOf(i)' = StartOf(i)
  BY <1>1, <1>4, InputStays
<1>7. a \in 0 .. Len(buffer) - 1 /\ Len(buffer) \in Nat
  <2>1. Len(buffer) \in Nat /\ a + 1 <= Len(buffer)
    BY <1>1, BufferIs DEF Readable
  <2> HIDE DEF a
  <2>2. QED BY <1>2, <2>1
<1>8. /\ m \in DOMAIN file.at /\ m \in Nat /\ EndOf(file, m) = a + n
      /\ m < r.first + r.count - 1 => m + 1 \in Messages(r)
      /\ m = r.first + r.count - 1 => EndOf(file, m) = r.end - Astern
  BY <1>1, <1>2, PlaceIs
<1>9. n \in Nat
  BY <1>1, <1>8, MessageIs
<1>10. Value(p + offset) = n
  <2>1. Has(file, a - 1, <<n>>)
    BY <1>1, <1>2, RecordIs DEF MoldFramed
  <2> HIDE DEF a, n, m
  <2>2. p + offset < Len(buffer) /\ a - 1 \in Int
    BY <1>2, <1>7
  <2>3. 1 \in DOMAIN <<n>> /\ <<n>>[1] = n
    OBVIOUS
  <2>4. p + offset = (a - 1) + 1 - 1
    BY <1>2
  <2>5. QED BY <1>1, <1>2, <2>1, <2>2, <2>3, <2>4, ValueRead
<1>11. /\ m \in r.first .. r.first + r.count - 1
       /\ payload_len = r.first + r.count - m
  BY <1>2 DEF Messages, InMold
<1>12. r.end \in Nat /\ Astern = 0 /\ Header(file) = 1
  BY <1>1, RecordFields DEF Astern, Header
<1>13. m # r.first + r.count - 1 => file.at[m + 1] = a + n + 1
  <2> SUFFICES ASSUME m # r.first + r.count - 1 PROVE file.at[m + 1] = a + n + 1
    OBVIOUS
  <2>1. m + 1 \in Messages(r) /\ m + 1 > r.first /\ (m + 1) - 1 = m
    <3>1. m < r.first + r.count - 1 /\ m + 1 > r.first /\ (m + 1) - 1 = m
      <4> HIDE DEF r, m
      <4>1. QED BY <1>3, <1>8, <1>11
    <3>2. QED BY <1>8, <3>1
  <2>2. file.at[m + 1] = EndOf(file, m) + Header(file)
    BY <1>1, <2>1, PlaceIs
  <2>3. QED BY <1>8, <1>12, <2>2
<1>14. m = r.first + r.count - 1 => a + n = r.end
  BY <1>8, <1>12
<1>15. /\ payload_len' \in Nat /\ payload_len' = r.first + r.count - (m + 1)
       /\ m + 1 \in r.first .. r.first + r.count
       /\ payload_len' = 0 <=> m = r.first + r.count - 1
  <2> HIDE DEF r, m
  <2>1. m \in Nat /\ payload_len \in Nat /\ payload_len' = payload_len - 1
    BY <1>1, <1>5, <1>8
  <2>2. m + 1 \in r.first .. r.first + r.count
    BY <1>3, <1>11, <2>1
  <2>3. payload_len' = r.first + r.count - (m + 1)
    BY <1>3, <1>11, <2>1
  <2>4. payload_len' \in Nat /\ (payload_len' = 0 <=> m = r.first + r.count - 1)
    BY <1>3, <1>11, <2>1
  <2>5. QED BY <2>2, <2>3, <2>4
<1>16. offset' \in Nat /\ p + offset' = a + n
  <2> DEFINE v == Value(p + offset)
             y == p + offset
  <2>1. v = n /\ offset' = offset + 1 + v /\ y = a - 1 /\ y = p + offset /\ a \in Nat
    BY <1>2, <1>5, <1>10
  <2> HIDE DEF a, n, v, y
  <2>2. offset' = offset + 1 + n
    BY <2>1
  <2>3. QED BY <1>1, <1>9, <2>1, <2>2
<1>17. p + offset' = IF payload_len' = 0 THEN r.end ELSE file.at[m + 1] - 1
  <2>1. CASE m = r.first + r.count - 1
    BY <1>14, <1>15, <1>16, <2>1
  <2>2. CASE m # r.first + r.count - 1
    <3>1. file.at[m + 1] = a + n + 1
      BY <1>13, <2>2
    <3> DEFINE b == file.at[m + 1]
    <3>2. b = a + n + 1
      BY <3>1
    <3>3. p + offset' = b - 1
      <4> HIDE DEF a, n, b
      <4>1. QED BY <1>2, <1>9, <1>16, <3>2
    <3>4. payload_len' # 0
      BY <1>15, <2>2
    <3>5. QED BY <3>3, <3>4
  <2>3. QED BY <2>1, <2>2
<1>18. InMold(r)'
  BY <1>4, <1>6, <1>15, <1>17 DEF InMold
<1>19. InRecord'
  BY <1>1, <1>4, <1>6, <1>18 DEF InRecord
<1>20. Handed'
  BY <1>1, <1>2, <1>4, <1>7, <1>8, HandedNext
<1>21. QED BY <1>4, <1>15, <1>16, <1>19, <1>20, AdvanceInv

LEMMA HandleInv == ASSUME IInv, Handle PROVE IInv'
<1> DEFINE a == MessageAt
           nr == SizeOf[Value(a)]
<1>1. Static /\ Running /\ pc = "record" /\ payload_len > 0
  BY DEF IInv, Running, Handle
<1>2. \/ ~Readable(a, 1) /\ Beyond
      \/ /\ Readable(a, 1) /\ Value(a) \notin DOMAIN SizeOf
         /\ Throw("unknown_message_type") /\ UNCHANGED handled
      \/ /\ Readable(a, 1) /\ Value(a) \in DOMAIN SizeOf
         /\ \/ ~Readable(a, nr) /\ Beyond
            \/ Accept(a)
            \/ Throw("invalid_argument") /\ UNCHANGED handled
  BY DEF Handle
<1>3. IsAstray \/ \E i \in Records : \E m \in Messages(file.records[i]) : file.at[m] = a
  BY <1>1, MessageFound
<1>4. IsAstray \/ AtMessage
  <2>1. \A i \in Records : \A m \in Messages(file.records[i]) : m \in DOMAIN file.at
    BY <1>1, PlaceIs
  <2>2. QED BY <1>3, <2>1 DEF AtMessage
<1>5. CASE ~Readable(a, 1) /\ Beyond
  <2>1. ASSUME NEW i \in Records, NEW m \in Messages(file.records[i]), file.at[m] = a
        PROVE  cut > 0 \/ AtUnfit
    <3>1. 1 \in {1, 2}
      OBVIOUS
    <3>2. file.at[m] = MessageAt /\ ~Readable(file.at[m], 1)
      BY <1>5, <2>1, Zenon
    <3> HIDE DEF a, nr
    <3>3. QED BY <1>1, <2>1, <3>1, <3>2, CutOrUnfit
  <2>2. QED BY <1>1, <1>3, <1>5, <2>1, BeyondInv
<1>6. CASE /\ Readable(a, 1) /\ Value(a) \notin DOMAIN SizeOf
           /\ Throw("unknown_message_type") /\ UNCHANGED handled
  <2>1. ASSUME NEW i \in Records, NEW m \in Messages(file.records[i]), file.at[m] = a
        PROVE  AtUnfit
    <3>1. ~Fitting(file.messages[m])
      BY <1>1, <1>6, <2>1, FittingRead
    <3>2. m \in DOMAIN file.at
      BY <1>1, PlaceIs
    <3>3. QED BY <2>1, <3>1, <3>2 DEF AtUnfit
  <2>2. BadType
    BY <1>3, <2>1 DEF BadType
  <2>3. QED BY <1>1, <1>6, <2>2, RejectInv
<1>7. CASE Readable(a, 1) /\ Value(a) \in DOMAIN SizeOf
  <2>1. nr \in {1, 2}
    BY <1>7, SizesAre
  <2>2. CASE ~Readable(a, nr) /\ Beyond
    <3>1. cut > 0 \/ AtUnfit \/ IsAstray
      <4> HIDE DEF a
      <4>1. ASSUME NEW i \in Records, NEW m \in Messages(file.records[i]), file.at[m] = a
            PROVE  cut > 0 \/ AtUnfit
        BY <1>1, <1>7, <2>1, <2>2, <4>1, CutOrUnfit DEF a
      <4>2. QED BY <1>3, <4>1
    <3>2. QED BY <1>1, <2>2, <3>1, BeyondInv
  <2>3. CASE Accept(a)
    <3>1. InRecord
      BY <1>1 DEF IInv
    <3>2. CASE file.format = "soupfile"
      <4>1. a = p
        BY <1>1, <3>2, SoupAt
      <4>2. QED BY <1>1, <1>7, <2>3, <3>2, <4>1, SoupAccept
    <3>3. CASE file.format # "soupfile"
      <4>1. PICK i \in Records :
              /\ p = StartOf(i)
              /\ \/ file.format = "binaryfile" /\ InBinary(file.records[i])
                 \/ file.format = "moldudp" /\ InMold(file.records[i])
        BY <3>1, <3>3 DEF InRecord
      <4>2. QED BY <1>1, <1>7, <2>3, <4>1, BinaryAccept, MoldAccept
    <3>4. QED BY <3>2, <3>3
  <2>4. CASE Throw("invalid_argument") /\ UNCHANGED handled
    <3>1. BadMessage
      BY <1>4 DEF BadMessage
    <3>2. QED BY <1>1, <2>4, <3>1, RejectInv
  <2>5. QED BY <1>2, <1>7, <2>2, <2>3, <2>4
<1>8. QED BY <1>2, <1>5, <1>6, <1>7

-----------------------------------------------------------------------------
(* process_packet returns at the end of a record, and main calls it again  *)
(* where it says.                                                          *)
LEMMA RecordDone ==
  ASSUME IInv, pc = "record", payload_len = 0
  PROVE  /\ \/ file.format = "soupfile" /\ CallAt(p + offset) /\ p + offset <= Len(buffer) + 1
            \/ \E i \in Records :
                 /\ p + offset = StartOf(i + 1)
                 /\ file.format = "moldudp" => _seq_num = Due(file, i + 1)
         /\ p + offset <= Len(file.bytes) + 1 /\ p < Len(buffer)
         /\ CallAt(p + offset)
<1>1. Static /\ InRecord /\ p \in Nat /\ offset \in Nat
  BY DEF IInv
<1>2. /\ Len(buffer) \in Nat /\ Len(file.bytes) \in Nat /\ Len(buffer) <= Len(file.bytes)
      /\ p < Len(buffer)
  BY <1>1, BufferIs DEF InRecord
<1>3. CASE file.format = "soupfile"
  <2>1. CallAt(p + offset) /\ p + offset <= Len(buffer) + 1
    BY <1>1, <1>3 DEF InRecord, InSoup
  <2> DEFINE x == p + offset
  <2>2. x \in Nat
    BY <1>1
  <2> HIDE DEF x
  <2>3. x <= Len(file.bytes) + 1
    BY <1>2, <2>1, <2>2 DEF x
  <2>4. QED BY <1>2, <1>3, <2>1, <2>3 DEF x
<1>4. CASE file.format # "soupfile"
  <2>1. PICK i \in Records :
          /\ p = StartOf(i)
          /\ \/ file.format = "binaryfile" /\ InBinary(file.records[i])
             \/ file.format = "moldudp" /\ InMold(file.records[i])
    BY <1>1, <1>4 DEF InRecord
  <2> DEFINE r == file.records[i]
  <2>2. /\ r.end = StartOf(i + 1) /\ r.end \in Nat /\ r.end <= Len(file.bytes)
        /\ Due(file, i + 1) = r.first + r.count /\ r.first \in Nat /\ r.count \in Nat
        /\ i + 1 \in 1 .. Len(file.records) + 1
    BY <1>1, RecordIs, RecordFields, OnlyLastCut
  <2>3. p + offset = r.end /\ (file.format = "moldudp" => _seq_num = Due(file, i + 1))
    <3>1. CASE file.format = "binaryfile" /\ InBinary(r)
      <4>1. r.end - (p + offset) = 0
        BY <3>1 DEF InBinary
      <4> HIDE DEF r
      <4>2. QED BY <1>1, <2>2, <3>1, <4>1
    <3>2. CASE file.format = "moldudp" /\ InMold(r)
      <4>1. p + offset = r.end /\ _seq_num \in r.first .. r.first + r.count
            /\ r.first + r.count - _seq_num = 0
        BY <3>2 DEF InMold
      <4> HIDE DEF r
      <4>2. _seq_num = r.first + r.count
        BY <2>2, <4>1
      <4>3. QED BY <2>2, <4>1, <4>2
    <3>3. QED BY <2>1, <3>1, <3>2
  <2>4. CallAt(p + offset)
    BY <2>2, <2>3 DEF CallAt, OnTrack
  <2>5. p + offset <= Len(file.bytes) + 1
    <3> HIDE DEF r
    <3>1. QED BY <1>2, <2>2, <2>3
  <2>6. QED BY <1>2, <2>1, <2>2, <2>3, <2>4, <2>5
<1>5. QED BY <1>3, <1>4

LEMMA ReturnInv == ASSUME IInv, Return PROVE IInv'
<1>1. /\ Static /\ Handed /\ pc = "record" /\ payload_len = 0 /\ size = SizeLeft
      /\ p \in Nat /\ offset \in Nat
      /\ p' = p + offset /\ size' = (size - offset) % Modulus
      /\ offset' = 0 /\ payload_len' = 0 /\ pc' = "loop"
      /\ UNCHANGED <<input, payload_len, _seq_num, handled, told>>
  BY DEF IInv, Return
<1>2. /\ CallAt(p + offset) /\ p + offset <= Len(file.bytes) + 1 /\ p < Len(buffer)
  BY <1>1, RecordDone
<1> DEFINE x == p + offset
           left == Len(buffer)
           all == Len(file.bytes)
           d == left - x
<1>3. /\ left \in Nat /\ all \in Nat /\ left <= all /\ all + 1 < Modulus /\ Modulus \in Nat
      /\ x \in Nat /\ x <= all + 1 /\ p < left
  <2>1. Static /\ x \in Nat
    BY <1>1
  <2>2. left \in Nat /\ all \in Nat /\ left <= all /\ all + 1 < Modulus /\ Modulus \in Nat
    BY <2>1, BufferIs
  <2>3. QED BY <1>2, <2>1, <2>2
<1> HIDE DEF left, all
<1>4. size - offset = d
  <2>1. size = left - p
    BY <1>1, <1>3 DEF SizeLeft, left
  <2>2. QED BY <1>1, <1>3, <2>1
<1> HIDE DEF x
<1>5. d \in Int /\ d < Modulus /\ -Modulus <= d
  BY <1>3
<1>6. d % Modulus = IF 0 <= d THEN d ELSE Modulus + d
  <2> HIDE DEF d
  <2>1. QED BY <1>3, <1>5, SizeWraps
<1>7. /\ Static' /\ buffer' = buffer /\ file' = file
      /\ \A i : StartOf(i)' = StartOf(i) /\ UNCHANGED <<input, _seq_num>>
      /\ UNCHANGED <<input, handled, _seq_num>>
  BY <1>1, InputStays
<1>8. p' = x /\ size' = IF 0 <= d THEN d ELSE Modulus + d
  BY <1>1, <1>4, <1>6 DEF x
<1>9. SizeLeft' = IF x <= left THEN left - x ELSE Modulus + left - x
  BY <1>7, <1>8 DEF SizeLeft, left
<1>10. size' = SizeLeft' /\ size' \in 0 .. Modulus - 1
  <2>1. 0 <= d <=> x <= left
    BY <1>3
  <2>2. Modulus + d = Modulus + left - x /\ d = left - x
    BY <1>3
  <2>3. (IF 0 <= d THEN d ELSE Modulus + d) \in 0 .. Modulus - 1
    BY <1>3
  <2> HIDE DEF d
  <2>4. QED BY <1>8, <1>9, <2>1, <2>2, <2>3
<1>11. Frontier' = Frontier
  <2>1. Frontier = p + offset + Header(file)
    BY <1>1 DEF Frontier
  <2>2. Frontier' = p + offset + 0 + Header(file)
    BY <1>1, <1>7 DEF Frontier
  <2>3. p + offset + 0 = p + offset
    BY <1>1
  <2>4. QED BY <2>1, <2>2, <2>3
<1>12. Handed'
  BY <1>1, <1>7, <1>11, HandedStays DEF Running
<1>13. (CallAt(p))'
  <2>1. OnTrack(x) => (OnTrack(p))'
    BY <1>7, <1>8 DEF OnTrack
  <2>2. Astray(x) => (Astray(p))'
    BY <1>7, <1>8 DEF Astray, format
  <2>3. QED BY <1>2, <1>7, <1>8, <2>1, <2>2 DEF CallAt, x
<1>14. Told' /\ StopsForAReason'
  BY <1>1 DEF IInv, Told, StopsForAReason
<1>15. p' \in Nat
  BY <1>3, <1>8
<1>16. QED BY <1>1, <1>7, <1>10, <1>12, <1>13, <1>14, <1>15 DEF IInv, Stopped

LEMMA EndInv == ASSUME IInv, EndOfData PROVE IInv'
<1>1. /\ Static /\ Handed /\ pc = "loop" /\ size = 0 /\ pc' = "ended" /\ size = SizeLeft
      /\ payload_len = 0 /\ offset = 0 /\ CallAt(p) /\ p \in Nat
      /\ UNCHANGED <<input, p, size, payload_len, offset, _seq_num, handled, told>>
  BY DEF IInv, EndOfData
<1>2. /\ Static' /\ buffer' = buffer /\ file' = file /\ cut' = cut
      /\ \A x : Astray(x)' = Astray(x)
  BY <1>1, InputStays
<1>3. /\ UNCHANGED <<input, p, offset, _seq_num>> /\ UNCHANGED <<input, handled, _seq_num>>
  BY <1>1
<1>4. Frontier' = Frontier /\ SizeLeft' = SizeLeft
  BY <1>1, <1>2 DEF Frontier, SizeLeft
<1>5. Handed'
  BY <1>1, <1>3, <1>4, HandedStays DEF Running
<1> DEFINE left == Len(buffer)
           all == Len(file.bytes)
<1>6. /\ left \in Nat /\ all \in Nat /\ all + 1 < Modulus /\ cut \in Nat /\ Modulus \in Nat
      /\ left = all - cut /\ all = StartOf(Len(file.records) + 1)
  BY <1>1, BufferIs
<1>7. ASSUME OnTrack(p)
      PROVE  /\ cut = 0
             /\ \A m \in DOMAIN file.at : Astray(file.at[m]) \/ file.at[m] \in HandedOver
  <2>1. PICK i \in 1 .. Len(file.records) + 1 :
          p = StartOf(i) /\ (file.format = "moldudp" => _seq_num = Due(file, i))
    BY <1>7 DEF OnTrack
  <2>2. i \notin Records
    <3> SUFFICES ASSUME i \in Records PROVE FALSE
      OBVIOUS
    <3>1. p < Len(buffer) /\ size = Len(buffer) - p /\ p \in Nat /\ Len(buffer) \in Nat
      BY <2>1, OnRecord
    <3>2. QED BY <1>1, <3>1
  <2>3. i = Len(file.records) + 1
    BY <1>1, <2>1, <2>2, FileFormed
  <2>4. cut = 0 /\ p = all
    <3>1. p = all
      BY <1>6, <2>1, <2>3
    <3>2. (IF p <= left THEN left - p ELSE Modulus + left - p) = 0
      BY <1>1 DEF SizeLeft
    <3> HIDE DEF left, all
    <3>3. QED BY <1>6, <3>1, <3>2
  <2>5. CASE file.format = "moldudp"
    <3>1. HandedMold /\ _seq_num = Len(file.at) + 1
      BY <1>1, <2>1, <2>3, <2>5, FileFormed DEF Handed
    <3>2. handled \in Seq(0 .. Len(buffer) - 1)
      BY <1>1 DEF Handed
    <3>3. Len(handled) \in Nat /\ Len(file.at) \in Nat /\ DOMAIN file.at = 1 .. Len(file.at)
          /\ DOMAIN handled = 1 .. Len(handled)
      BY <1>1, <3>2, FileFormed
    <3>4. Len(handled) = Len(file.at)
      BY <3>1, <3>3 DEF HandedMold
    <3>5. \A m \in DOMAIN file.at : file.at[m] \in HandedOver
      BY <3>1, <3>3, <3>4 DEF HandedMold, HandedOver
    <3>6. QED BY <2>4, <3>5
  <2>6. CASE file.format # "moldudp"
    <3>1. Frontier = all
      <4>1. Header(file) = 0 /\ p + 0 + 0 = p
        BY <1>1, <2>6 DEF Header
      <4>2. QED BY <1>1, <2>4, <4>1 DEF Frontier
    <3>2. ASSUME NEW m \in DOMAIN file.at PROVE file.at[m] < all
      <4> DEFINE a == file.at[m]
                 n == Len(file.messages[m])
      <4>1. PICK j \in Records : m \in Messages(file.records[j])
        BY <1>1, <2>6, MessageIs
      <4> DEFINE r == file.records[j]
      <4>2. a \in Nat /\ n \in Nat /\ n > 0
        BY <1>1, <2>6, MessageIs
      <4>3. a + n <= r.end - Astern
        BY <1>1, <4>1, PlaceIs
      <4>4. r.end <= all /\ r.end \in Nat
        BY <1>1, RecordFields, OnlyLastCut
      <4> HIDE DEF a, n, r, all
      <4>5. a < all
        BY <1>6, <4>2, <4>3, <4>4, HeaderIs
      <4>6. QED BY <4>5 DEF a
    <3>3. HandedOthers
      BY <1>1, <2>6 DEF Handed
    <3>4. QED BY <2>4, <3>1, <3>2, <3>3 DEF HandedOthers
  <2>7. QED BY <2>5, <2>6
<1>8. ASSUME file.format = "soupfile", Astray(p)
      PROVE  /\ IsAstray
             /\ \A m \in DOMAIN file.at : Astray(file.at[m]) \/ file.at[m] \in HandedOver
  <2>1. IsAstray
    BY <1>8 DEF IsAstray, MessageAt, format
  <2>2. HandedOthers /\ Frontier = p
    <3>1. Header(file) = 0 /\ p + 0 + 0 = p
      BY <1>1, <1>8 DEF Header
    <3>2. QED BY <1>1, <1>8, <3>1 DEF Frontier, Handed
  <2>3. ASSUME NEW m \in DOMAIN file.at
        PROVE  Astray(file.at[m]) \/ file.at[m] \in HandedOver
    <3> DEFINE a == file.at[m]
    <3>1. a \in Nat
      BY <1>1, <1>8, MessageIs
    <3>2. a < p \/ p <= a
      <4> HIDE DEF a
      <4>1. QED BY <1>1, <3>1
    <3>3. CASE a < p
      BY <2>2, <3>3 DEF HandedOthers
    <3>4. CASE p <= a
      BY <1>1, <1>8, <3>1, <3>4, SoupAstray
    <3>5. QED BY <3>2, <3>3, <3>4
  <2>4. QED BY <2>1, <2>3
<1>9. /\ cut = 0 \/ IsAstray
      /\ \A m \in DOMAIN file.at : Astray(file.at[m]) \/ file.at[m] \in HandedOver
  BY <1>1, <1>7, <1>8 DEF CallAt
<1>10. StopsForAReason'
  <2>1. IsAstray' = IsAstray
    BY <1>1, <1>3, ReasonsStay
  <2>2. \A m \in DOMAIN file.at : (Astray(file.at[m]))' = Astray(file.at[m])
    BY <1>2 DEF Astray, format
  <2>3. HandedOver' = HandedOver
    BY <1>1 DEF HandedOver
  <2>4. QED BY <1>1, <1>2, <1>9, <2>1, <2>2, <2>3 DEF StopsForAReason
<1>11. Told'
  BY <1>1 DEF IInv, Told
<1>12. QED BY <1>1, <1>2, <1>4, <1>5, <1>10, <1>11 DEF IInv, Stopped

LEMMA InitInv == Init => IInv
<1> SUFFICES ASSUME Init PROVE IInv
  OBVIOUS
<1>1. Static
  BY DEF Init, Static
<1>2. /\ p = 0 /\ size = Len(buffer) /\ payload_len = 0 /\ offset = 0 /\ _seq_num = 1
      /\ handled = <<>> /\ pc = "loop" /\ told = "nothing"
  BY DEF Init
<1>3. Len(buffer) \in Nat /\ Modulus \in Nat /\ Len(buffer) < Modulus
  BY <1>1, BufferIs
<1>4. Handed
  <2>1. handled \in Seq(0 .. Len(buffer) - 1) /\ Len(handled) = 0
    BY <1>2
  <2>2. HandedMold
    BY <1>1, <1>2, <2>1, FileFormed DEF HandedMold
  <2>3. file.format # "moldudp" => HandedOthers
    <3> SUFFICES ASSUME file.format # "moldudp" PROVE HandedOthers
      OBVIOUS
    <3>1. Frontier = 0
      BY <1>2 DEF Frontier, Header
    <3>2. \A m \in DOMAIN file.at : file.at[m] \in Nat
      BY <1>1, MessageIs
    <3>3. \A m \in DOMAIN file.at : ~(file.at[m] < Frontier)
      BY <3>1, <3>2
    <3>4. QED BY <1>2, <2>1, <3>3 DEF HandedOthers
  <2>4. QED BY <2>1, <2>2, <2>3 DEF Handed
<1>5. size = SizeLeft /\ size \in 0 .. Modulus - 1
  BY <1>2, <1>3 DEF SizeLeft
<1>6. CallAt(p)
  <2>1. StartOf(1) = 0 /\ Due(file, 1) = 1
    BY DEF StartOf, Due
  <2>2. 1 \in 1 .. Len(file.records) + 1
    BY <1>1, FileFormed
  <2>3. QED BY <1>2, <2>1, <2>2 DEF CallAt, OnTrack
<1>7. Told /\ StopsForAReason
  BY <1>2 DEF Told, StopsForAReason
<1>8. QED BY <1>1, <1>2, <1>4, <1>5, <1>6, <1>7 DEF IInv

LEMMA NextInv == IInv /\ [Next]_vars => IInv'
<1> SUFFICES ASSUME IInv, [Next]_vars PROVE IInv'
  OBVIOUS
<1>1. CASE Call
  BY <1>1, BinaryCall, SoupCall, MoldCall DEF Call, format
<1>2. CASE Handle
  BY <1>2, HandleInv
<1>3. CASE Return
  BY <1>3, ReturnInv
<1>4. CASE EndOfData
  BY <1>4, EndInv
<1>5. CASE UNCHANGED vars
  BY <1>5, NothingInv
<1>6. QED BY <1>1, <1>2, <1>3, <1>4, <1>5 DEF Next

(* Between two calls of process_packet main is at the beginning of a record *)
(* and within one the session is at a message; or it is astray, and what    *)
(* led it there is behind it.                                               *)
THEOREM Invariance == Spec => []IInv
BY InitInv, NextInv, PTL DEF Spec

-----------------------------------------------------------------------------
(* The state of the reading programs has its types; the sequence number of *)
(* moldudp_session never runs past the messages.                           *)
THEOREM TypeCorrect == Spec => []TypeOK
<1>1. IInv => TypeOK
  <2> SUFFICES ASSUME IInv PROVE TypeOK
    OBVIOUS
  <2>1. _seq_num \in 1 .. Len(file.at) + 1
    <3>1. Static /\ Handed /\ handled \in Seq(0 .. Len(buffer) - 1)
      BY DEF IInv, Handed
    <3>2. Len(file.at) \in Nat /\ Len(handled) \in Nat
      BY <3>1, FileFormed
    <3>3. CASE file.format = "moldudp"
      BY <3>1, <3>2, <3>3 DEF Handed, HandedMold
    <3>4. CASE file.format # "moldudp"
      BY <3>1, <3>2, <3>4 DEF Handed, HandedOthers
    <3>5. QED BY <3>3, <3>4
  <2>2. QED BY <2>1 DEF IInv, Handed, Told, TypeOK
<1>2. QED BY <1>1, Invariance, PTL

(* A program which stops has a reason, and the monitor says the right one; *)
(* if it comes to its end, everything that the session was not led astray  *)
(* from was handed over (helix.cc:59-67, 115-130, itch-monitor.cc:433-443).*)
THEOREM ReasonsCorrect == Spec => []StopsForAReason
<1>1. IInv => StopsForAReason
  BY DEF IInv
<1>2. QED BY <1>1, Invariance, PTL

(* Of a file of any messages, the handler gets each that the session is    *)
(* not led astray from, in order, once, and no part of one as another      *)
(* (binaryfile.hh:77-95, soupfile.hh:67-84, moldudp.hh:79-104).            *)
THEOREM DeliversCorrect == Spec => []Delivers
<1>1. IInv => Delivers
  <2> SUFFICES ASSUME IInv PROVE Delivers
    OBVIOUS
  <2>1. Static /\ Handed /\ handled \in Seq(0 .. Len(buffer) - 1)
    BY DEF IInv, Handed
  <2>2. /\ Len(handled) \in Nat /\ DOMAIN handled = 1 .. Len(handled) /\ Len(buffer) \in Nat
        /\ \A k \in DOMAIN handled : handled[k] \in Nat
    <3>1. Len(buffer) \in Nat
      BY <2>1, BufferIs
    <3>2. QED BY <2>1, <3>1
  <2>3. ASSUME NEW m \in DOMAIN file.at, NEW n \in DOMAIN file.at, m < n,
               file.at[m] # Lost, file.at[n] # Lost,
               file.format # "moldudp" \/ Header(file) = 1
        PROVE  file.at[m] < file.at[n]
    <3> DEFINE a == file.at[m]
               b == file.at[n]
               k == Len(file.messages[m])
    <3>1. /\ a \in Nat /\ b \in Nat /\ k \in Nat /\ a + k + Header(file) <= b
          /\ file.format # "moldudp" => k > 0
      BY <2>1, <2>3, MessageIs
    <3> HIDE DEF a, b, k
    <3>2. a < b
      <4>1. k + Header(file) > 0
        BY <2>3, <3>1, HeaderIs
      <4>2. QED BY <3>1, <4>1, HeaderIs
    <3>3. QED BY <3>2 DEF a, b
  <2>4. CASE file.format = "moldudp"
    <3>1. /\ Len(handled) <= Len(file.at) /\ Len(file.at) \in Nat
          /\ \A k \in 1 .. Len(handled) : handled[k] = file.at[k]
      BY <2>1, <2>4, FileFormed DEF Handed, HandedMold
    <3>2. \A k \in 1 .. Len(handled) : k \in DOMAIN file.at /\ file.at[k] # Lost
      <4> SUFFICES ASSUME NEW k \in 1 .. Len(handled)
                   PROVE  k \in DOMAIN file.at /\ file.at[k] # Lost
        OBVIOUS
      <4>1. k \in DOMAIN file.at
        BY <2>1, <2>2, <3>1, FileFormed
      <4>2. file.at[k] \in Nat
        BY <2>2, <3>1
      <4>3. QED BY <4>1, <4>2 DEF Lost
    <3>3. Header(file) = 1
      BY <2>4, HeaderIs
    <3>4. \A k \in 1 .. Len(handled) : \A j \in 1 .. k - 1 : handled[j] < handled[k]
      <4> SUFFICES ASSUME NEW k \in 1 .. Len(handled), NEW j \in 1 .. k - 1
                   PROVE  handled[j] < handled[k]
        OBVIOUS
      <4>1. j \in 1 .. Len(handled) /\ j < k
        BY <2>2
      <4>2. file.at[j] < file.at[k]
        BY <2>3, <3>2, <3>3, <4>1
      <4>3. QED BY <3>1, <4>1, <4>2
    <3>5. ASSUME NEW n \in DOMAIN file.at, file.at[n] \in HandedOver, NEW m \in 1 .. n - 1
          PROVE  file.at[m] \in HandedOver
      <4>1. PICK k \in 1 .. Len(handled) : file.at[n] = file.at[k]
        BY <2>2, <3>1, <3>5 DEF HandedOver
      <4>2. n = k
        <5>1. n \in Nat /\ k \in Nat /\ k \in DOMAIN file.at /\ file.at[k] # Lost
              /\ file.at[k] \in Nat /\ file.at[n] # Lost
          <6>1. k \in DOMAIN file.at /\ file.at[k] # Lost
            BY <3>2
          <6>2. file.at[k] \in Nat /\ k \in Nat
            BY <2>2, <3>1
          <6>3. n \in Nat
            BY <2>1, FileFormed
          <6>4. QED BY <4>1, <6>1, <6>2, <6>3, Zenon
        <5>2. ~(n < k) /\ ~(k < n)
          <6>1. ~(file.at[k] < file.at[k])
            BY <5>1
          <6>2. n < k => file.at[n] < file.at[k]
            BY <2>3, <3>3, <5>1
          <6>3. k < n => file.at[k] < file.at[n]
            BY <2>3, <3>3, <5>1
          <6>4. QED BY <4>1, <6>1, <6>2, <6>3, Zenon
        <5>3. QED BY <5>1, <5>2
      <4>3. m \in 1 .. Len(handled)
        BY <2>2, <4>1, <4>2
      <4>4. QED BY <2>2, <3>1, <4>3 DEF HandedOver
    <3>6. QED BY <2>2, <3>1, <3>2, <3>4, <3>5 DEF Delivers
  <2>5. CASE file.format # "moldudp"
    <3>1. HandedOthers
      BY <2>1, <2>5 DEF Handed
    <3>2. Frontier \in Nat
      BY <2>1, FrontierIs DEF IInv
    <3>3. ASSUME NEW n \in DOMAIN file.at, file.at[n] \in HandedOver, NEW m \in 1 .. n - 1
          PROVE  Astray(file.at[m]) \/ file.at[m] \in HandedOver
      <4>1. m \in DOMAIN file.at /\ m < n
        BY <2>1, FileFormed
      <4>2. file.at[m] < file.at[n] /\ file.at[m] \in Nat /\ file.at[n] \in Nat
        BY <2>1, <2>3, <2>5, <4>1, MessageIs
      <4>3. PICK k \in 1 .. Len(handled) : file.at[n] = handled[k]
        BY <2>2, <3>3 DEF HandedOver
      <4>4. file.at[n] <= Frontier
        BY <3>1, <4>3 DEF HandedOthers
      <4> DEFINE a == file.at[m]
                 b == file.at[n]
                 f == Frontier
      <4>5. a < f
        <5>1. a < b /\ a \in Nat /\ b \in Nat /\ b <= f /\ f \in Nat
          BY <3>2, <4>2, <4>4
        <5> HIDE DEF a, b, f
        <5>2. QED BY <5>1
      <4>6. QED BY <3>1, <4>1, <4>5 DEF HandedOthers
    <3>4. QED BY <2>2, <3>1, <3>3 DEF Delivers, HandedOthers
  <2>6. QED BY <2>4, <2>5
<1>2. QED BY <1>1, Invariance, PTL

=============================================================================
