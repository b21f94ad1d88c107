------------------------------ MODULE MCReader ------------------------------
(* All recordings of up to three records with at most one that is not as   *)
(* it should be, in each of the framings; four orders need the second byte *)
(* of a length.  A packet of the multicast protocol other than the last    *)
(* may be missing.                                                         *)
EXTENDS Reader, FiniteSets

Bytes(f, bodies, first) ==
  LET length == Len(FlattenSeq(bodies))
  IN  CASE f = "binaryfile" -> <<length \div Radix, length % Radix>> \o FlattenSeq(bodies)
        [] f = "soupfile"   -> FlattenSeq(bodies) \o <<CR, LF>>
        [] f = "moldudp"    -> <<first, Len(bodies)>>
             \o FlattenSeq([j \in DOMAIN bodies |-> <<Len(bodies[j])>> \o bodies[j]])

(* The file of the records r, each a sequence of messages, without one of  *)
(* them (0: with all).                                                     *)
File(f, r, missed) ==
  LET first(i) == 1 + Len(FlattenSeq(SubSeq(r, 1, i - 1)))
      bytes    == [i \in DOMAIN r |-> IF i = missed THEN <<>> ELSE Bytes(f, r[i], first(i))]
      start(i) == Len(FlattenSeq(SubSeq(bytes, 1, i - 1)))
      header   == IF f = "moldudp" THEN 1 ELSE 0
      trailer  == IF f = "soupfile" THEN 2 ELSE 0
      At(i, j) == IF i = missed THEN Lost
                  ELSE start(i) + header + Len(Bytes(f, SubSeq(r[i], 1, j - 1), 1)) - trailer
      records  == [i \in DOMAIN r |-> [start |-> start(i), end |-> start(i + 1),
                                       first |-> first(i), count |-> Len(r[i])]]
  IN  [format   |-> f,
       messages |-> FlattenSeq(r),
       at       |-> FlattenSeq([i \in DOMAIN r |-> [j \in DOMAIN r[i] |-> At(i, j)]]),
       records  |-> IF missed = 0 THEN records ELSE RemoveAt(records, missed),
       bytes    |-> FlattenSeq(bytes)]

(* A second and an order as they should be, an unknown type, an order that *)
(* ends too soon, and a second with something behind it that is no message *)
(* or may be taken for one.                                                *)
Second  == <<TypeSeconds>>
Order   == <<TypeOrder, 0>>
Unknown == <<7>>
Short   == <<TypeOrder>>
Junk    == <<TypeSeconds, 0>>
Twice   == <<TypeSeconds, TypeSeconds>>

Good == {<<>>, <<Second>>, <<Order>>, <<Second, Order>>, <<Order, Order, Order, Order>>}

(* A short message may swallow the next, or one and a half; or none may    *)
(* follow.                                                                 *)
Bad(f) ==
  {<<Unknown>>, <<Short>>, <<Junk>>, <<Twice>>} \cup
  CASE f = "binaryfile" -> {<<Order, Short>>, <<Short, Second>>, <<Short, Order>>,
                            <<Junk, Order>>, <<Twice, Order>>, <<Twice, Short, Second>>}
    [] f = "soupfile"   -> {<< <<LF, TypeSeconds>> >>, << <<TypeOrder, LF>> >>,
                            << <<TypeSeconds, LF, TypeSeconds, TypeSeconds>> >>,
                            << <<TypeSeconds, TypeSeconds, LF, TypeOrder>> >>,
                            << <<TypeSeconds, CR, 0, TypeOrder, LF>> >>}
    [] f = "moldudp"    -> {<<Order, Short>>, <<Short, Second>>, << <<>> >>,
                            << <<>>, Order>>, <<Second, <<>> >>}

MCRecordings(f) ==
  {r \in BoundedSeq(Good \cup Bad(f), 3) \ {<<>>} :
     /\ Cardinality({i \in DOMAIN r : r[i] \notin Good}) <= 2
     /\ f # "moldudp" => \A i \in 1 .. Len(r) - 1 : r[i] # <<>>
     /\ f = "soupfile" => \A i \in DOMAIN r : Len(r[i]) <= 1}

MCFiles ==
  LET files(f) == {File(f, r, 0) : r \in MCRecordings(f)}
  IN  files("binaryfile") \cup files("soupfile") \cup files("moldudp")
        \cup {File("moldudp", x[1], x[2]) :
                 x \in {y \in MCRecordings("moldudp") \X (1 .. 2) : y[2] < Len(y[1])}}

=============================================================================
