------------------------- MODULE AlgoPipelineProofs -------------------------
(* Proofs about AlgoPipeline, for any number of algorithms and symbols,    *)
(* any way of registering, and recordings of any length.                   *)
EXTENDS AlgoPipeline, FiniteSetTheorems, TLAPS

(* A pool has one thread, and so it is in one tick at most.                *)
OneTickAtMost ==
  /\ DOMAIN running = Algos
  /\ \A a \in Algos : running[a] = <<>> \/ \E t : running[a] = <<t>>

LEMMA OneTickMore ==
  ASSUME NEW r, r = <<>> \/ \E t : r = <<t>>, Len(r) < 1, NEW u
  PROVE  Append(r, u) = <<u>>
  <1>1. \A t : <<t>> \in Seq({t}) /\ Len(<<t>>) = 1
    OBVIOUS
  <1>2. r = <<>>
    BY <1>1
  <1> QED
    BY <1>2

LEMMA OneTickLess ==
  ASSUME NEW r, r = <<>> \/ \E t : r = <<t>>, r # <<>>
  PROVE  Tail(r) = <<>>
  <1>1. PICK t : r = <<t>>
    OBVIOUS
  <1>2. /\ <<t>> \in Seq({t}) /\ Len(<<t>>) = 1
        /\ Tail(<<t>>) \in Seq({t}) /\ Len(Tail(<<t>>)) = 0
    OBVIOUS
  <1> QED
    BY <1>1, <1>2

(* Of all steps only the beginning and the end of a tick change the ticks  *)
(* that the threads are in.                                                *)
LEMMA MainRuns ==
  ASSUME Main
  PROVE  running' = running
  <1>1. CASE \E kind \in Kinds, s \in Symbols : Receive(kind, s)
    BY <1>1 DEF Receive, poolVars
  <1>2. CASE \E a \in Algos : \E s \in SymbolsOf[a] : Query(a, s)
    BY <1>2 DEF Query, poolVars
  <1>3. CASE Call
    BY <1>3 DEF Call, Post, DoInline
  <1>4. CASE EndOfData \/ EndOfSession
    BY <1>4 DEF EndOfData, EndOfSession, poolVars
  <1>5. CASE \E a \in Algos : Delete(a)
    BY <1>5 DEF Delete, poolVars
  <1> QED
    BY <1>1, <1>2, <1>3, <1>4, <1>5 DEF Main

LEMMA OneTickKept ==
  ASSUME OneTickAtMost, [Next]_vars
  PROVE  OneTickAtMost'
  <1>1. CASE Main
    BY <1>1, MainRuns DEF OneTickAtMost
  <1>2. ASSUME NEW a \in Algos, Apply(a) \/ Stop(a) \/ Start(a)
        PROVE  OneTickAtMost'
    BY <1>2 DEF OneTickAtMost, Apply, Stop, Start, poolVars
  <1>3. ASSUME NEW a \in Algos, TickBegin(a)
        PROVE  OneTickAtMost'
    <2>1. Append(running[a], Head(queue[a])) = <<Head(queue[a])>>
      BY <1>3, OneTickMore DEF OneTickAtMost, TickBegin, MayRun, PoolSize
    <2>2. running' = [running EXCEPT ![a] = <<Head(queue[a])>>]
      BY <1>3, <2>1 DEF TickBegin
    <2> QED
      BY <2>2 DEF OneTickAtMost
  <1>4. ASSUME NEW a \in Algos, TickEnd(a)
        PROVE  OneTickAtMost'
    <2>1. Tail(running[a]) = <<>>
      BY <1>4, OneTickLess DEF OneTickAtMost, TickEnd
    <2>2. running' = [running EXCEPT ![a] = <<>>]
      BY <1>4, <2>1 DEF TickEnd
    <2> QED
      BY <2>2 DEF OneTickAtMost
  <1>5. CASE UNCHANGED vars
    BY <1>5 DEF OneTickAtMost, vars
  <1> QED
    BY <1>1, <1>2, <1>3, <1>4, <1>5 DEF Next, Thread

(* What a step does to the books: T0 changes one only if it has no pool,   *)
(* and a pool changes its own, with no tick running.                       *)
LEMMA MainWritesInDebugOnly ==
  ASSUME Main, ~debug
  PROVE  book' = book
  <1>1. CASE \E kind \in Kinds, s \in Symbols : Receive(kind, s)
    BY <1>1 DEF Receive, poolVars
  <1>2. CASE \E a \in Algos : \E s \in SymbolsOf[a] : Query(a, s)
    BY <1>2 DEF Query, poolVars
  <1>3. CASE Call
    BY <1>3 DEF Call, Post, DoInline
  <1>4. CASE EndOfData \/ EndOfSession
    BY <1>4 DEF EndOfData, EndOfSession, poolVars
  <1>5. CASE \E a \in Algos : Delete(a)
    BY <1>5 DEF Delete, poolVars
  <1> QED
    BY <1>1, <1>2, <1>3, <1>4, <1>5 DEF Main

LEMMA NobodyWritesDuringTick ==
  ASSUME OneTickAtMost, [Next]_vars
  PROVE  \A a \in Algos : ~debug /\ running[a] # <<>> => book'[a] = book[a]
  <1> SUFFICES ASSUME NEW a \in Algos, ~debug, running[a] # <<>>
               PROVE  book'[a] = book[a]
    OBVIOUS
  <1>1. CASE Main
    BY <1>1, MainWritesInDebugOnly
  <1>2. ASSUME NEW b \in Algos, Apply(b)
        PROVE  book'[a] = book[a]
    <2>1. Len(running[b]) < 1
      BY <1>2 DEF Apply, MayRun, PoolSize
    <2>2. b # a
      BY <2>1 DEF OneTickAtMost
    <2> QED
      BY <1>2, <2>2 DEF Apply
  <1>3. ASSUME NEW b \in Algos, TickBegin(b) \/ TickEnd(b) \/ Stop(b) \/ Start(b)
        PROVE  book'[a] = book[a]
    BY <1>3 DEF TickBegin, TickEnd, Stop, Start, poolVars
  <1>4. CASE UNCHANGED vars
    BY <1>4 DEF vars
  <1> QED
    BY <1>1, <1>2, <1>3, <1>4 DEF Next, Thread

(* A book does not change while a tick reads it: nothing but the one       *)
(* thread of its algorithm's pool writes it, and that is in the tick       *)
(* (order_book_agent.cpp:26-118, bist_algo_base.h:78-88).                  *)
THEOREM NoRace == Spec => NoWriteDuringTick
  <1>1. Init => OneTickAtMost
    BY DEF Init, OneTickAtMost
  <1>2. OneTickAtMost /\ [Next]_vars => OneTickAtMost'
    BY OneTickKept
  <1>3. OneTickAtMost /\ [Next]_vars =>
          [\A a \in Algos : ~debug /\ running[a] # <<>> => book'[a] = book[a]]_vars
    BY NobodyWritesDuringTick
  <1> QED
    BY <1>1, <1>2, <1>3, PTL DEF Spec, NoWriteDuringTick

-----------------------------------------------------------------------------
(* What the first n tasks of a queue leave of a book: version m of the     *)
(* symbol s.  It is that of the last of them that applies one, or the      *)
(* book's if none does.                                                    *)
Applies(task, s) == task.kind = "apply" /\ task.symbol = s

Leaves(b, q, n, s, m) ==
  \/ b[s].version = m /\ \A i \in 1 .. n : ~Applies(q[i], s)
  \/ \E i \in 1 .. n : /\ Applies(q[i], s) /\ q[i].message = m
                       /\ \A j \in i + 1 .. n : ~Applies(q[j], s)

Tasks ==
  [kind : {"apply", "stamp", "query", "tick", "session"}, symbol : Symbols,
   message : 0 .. MaxMessages, sync : BOOLEAN]

BooksOf(S) == [S -> [version : Nat, timestamp : Nat]]

LEMMA DoneKeeps ==
  ASSUME NEW S, NEW b \in BooksOf(S), NEW task \in Tasks
  PROVE  /\ task.kind # "session" /\ task.symbol \in S => Done(b, task) \in BooksOf(S)
         /\ IsTick(task) => Done(b, task) = b
         /\ \A s \in S : Done(b, task)[s].version =
                           IF Applies(task, s) THEN task.message ELSE b[s].version
<1>1. task.message \in Nat
  BY DEF Tasks
<1>2. CASE task.kind = "apply"
  <2>1. Done(b, task) = [b EXCEPT ![task.symbol].version = task.message]
    BY <1>2 DEF Done
  <2>2. QED BY <1>1, <1>2, <2>1 DEF BooksOf, Applies, IsTick
<1>3. CASE task.kind = "stamp"
  <2>1. Done(b, task) = [b EXCEPT ![task.symbol].timestamp = task.message]
    BY <1>3 DEF Done
  <2>2. QED BY <1>1, <1>3, <2>1 DEF BooksOf, Applies, IsTick
<1>4. CASE task.kind \notin {"apply", "stamp"}
  <2>1. Done(b, task) = b
    BY <1>4 DEF Done
  <2>2. QED BY <1>4, <2>1 DEF Applies
<1>5. QED BY <1>2, <1>3, <1>4

(* The first task done, the others leave the same.                         *)
LEMMA LeavesFewer ==
  ASSUME NEW S, NEW b \in BooksOf(S), NEW q \in Seq(Tasks), q # <<>>,
         NEW n \in 1 .. Len(q), NEW s \in S, NEW m, Leaves(b, q, n, s, m)
  PROVE  Leaves(Done(b, Head(q)), Tail(q), n - 1, s, m)
<1> DEFINE c == Done(b, Head(q))
           r == Tail(q)
<1>1. /\ Head(q) = q[1] /\ Head(q) \in Tasks /\ n \in Nat /\ n >= 1 /\ n <= Len(q)
      /\ \A i \in 1 .. n - 1 : r[i] = q[i + 1]
  BY DEF r
<1>2. c[s].version = IF Applies(q[1], s) THEN q[1].message ELSE b[s].version
  BY <1>1, DoneKeeps
<1> HIDE DEF c, r
<1>3. CASE b[s].version = m /\ \A i \in 1 .. n : ~Applies(q[i], s)
  <2>1. c[s].version = m
    BY <1>1, <1>2, <1>3
  <2>2. \A i \in 1 .. n - 1 : ~Applies(r[i], s)
    BY <1>1, <1>3
  <2>3. QED BY <2>1, <2>2 DEF Leaves, c, r
<1>4. ASSUME NEW i \in 1 .. n, Applies(q[i], s), q[i].message = m,
             \A j \in i + 1 .. n : ~Applies(q[j], s)
      PROVE  Leaves(c, r, n - 1, s, m)
  <2>1. CASE i = 1
    <3>1. c[s].version = m
      BY <1>2, <1>4, <2>1
    <3>2. \A j \in 1 .. n - 1 : ~Applies(r[j], s)
      BY <1>1, <1>4, <2>1
    <3>3. QED BY <3>1, <3>2 DEF Leaves
  <2>2. CASE i # 1
    <3>1. i - 1 \in 1 .. n - 1 /\ r[i - 1] = q[i]
      BY <1>1, <2>2
    <3>2. \A j \in (i - 1) + 1 .. n - 1 : ~Applies(r[j], s)
      <4>1. \A j \in (i - 1) + 1 .. n - 1 : j \in 1 .. n - 1 /\ j + 1 \in i + 1 .. n
        BY <1>1
      <4>2. QED BY <1>1, <1>4, <4>1
    <3>3. QED BY <1>4, <3>1, <3>2 DEF Leaves
  <2>3. QED BY <2>1, <2>2
<1>5. QED BY <1>3, <1>4 DEF Leaves, c, r

(* Another task at the end.                                                *)
LEMMA LeavesSame ==
  ASSUME NEW b, NEW q \in Seq(Tasks), NEW u \in Tasks, NEW n \in 0 .. Len(q), NEW s, NEW m,
         Leaves(b, q, n, s, m)
  PROVE  Leaves(b, Append(q, u), n, s, m)
<1>1. \A i \in 1 .. n : Append(q, u)[i] = q[i]
  OBVIOUS
<1> DEFINE r == Append(q, u)
<1> HIDE DEF r
<1>2. \A i \in 1 .. n : r[i] = q[i] /\ i + 1 .. n \subseteq 1 .. n
  BY <1>1 DEF r
<1>3. Leaves(b, r, n, s, m)
  BY <1>2 DEF Leaves
<1>4. QED BY <1>3 DEF r

LEMMA LeavesMore ==
  ASSUME NEW b, NEW q \in Seq(Tasks), NEW u \in Tasks, NEW s, NEW m,
         IF Applies(u, s) THEN u.message = m ELSE Leaves(b, q, Len(q), s, m)
  PROVE  Leaves(b, Append(q, u), Len(Append(q, u)), s, m)
<1> DEFINE r == Append(q, u)
           n == Len(q)
<1>1. Len(r) = n + 1 /\ n \in Nat /\ r[n + 1] = u /\ \A i \in 1 .. n : r[i] = q[i]
  OBVIOUS
<1> HIDE DEF r, n
<1>2. CASE Applies(u, s)
  <2>1. n + 1 \in 1 .. n + 1 /\ (n + 1) + 1 .. n + 1 = {}
    BY <1>1
  <2>2. QED BY <1>1, <1>2, <2>1 DEF Leaves, r
<1>3. CASE ~Applies(u, s)
  <2>1. Leaves(b, q, n, s, m)
    BY <1>3 DEF n
  <2>2. CASE b[s].version = m /\ \A i \in 1 .. n : ~Applies(q[i], s)
    <3>1. \A i \in 1 .. n + 1 : ~Applies(r[i], s)
      <4>1. \A i \in 1 .. n + 1 : i \in 1 .. n \/ i = n + 1
        BY <1>1
      <4>2. QED BY <1>1, <1>3, <2>2, <4>1
    <3>2. QED BY <1>1, <2>2, <3>1 DEF Leaves, r
  <2>3. ASSUME NEW i \in 1 .. n, Applies(q[i], s), q[i].message = m,
               \A j \in i + 1 .. n : ~Applies(q[j], s)
        PROVE  Leaves(b, r, n + 1, s, m)
    <3>1. \A j \in i + 1 .. n + 1 : ~Applies(r[j], s)
      <4>1. \A j \in i + 1 .. n + 1 : (j \in i + 1 .. n /\ j \in 1 .. n) \/ j = n + 1
        BY <1>1
      <4>2. QED BY <1>1, <1>3, <2>3, <4>1
    <3>2. i \in 1 .. n + 1 /\ r[i] = q[i]
      BY <1>1
    <3>3. QED BY <2>3, <3>1, <3>2 DEF Leaves
  <2>4. QED BY <1>1, <2>1, <2>2, <2>3 DEF Leaves, r
<1>4. QED BY <1>2, <1>3

(* The ticks among the first n tasks of a queue, and in all of it.         *)
TickPlaces(q, n) == {i \in 1 .. n : IsTick(q[i])}
TicksUpTo(q, n)  == Cardinality(TickPlaces(q, n))
TicksIn(q)       == TicksUpTo(q, Len(q))

LEMMA TicksType ==
  ASSUME NEW q, NEW n \in Nat
  PROVE  IsFiniteSet(TickPlaces(q, n)) /\ TicksUpTo(q, n) \in Nat
<1>1. IsFiniteSet(1 .. n)
  BY FS_Interval
<1>2. QED BY <1>1, FS_Subset, FS_CardinalityType DEF TickPlaces, TicksUpTo

LEMMA TicksOrdered ==
  ASSUME NEW q, NEW n \in Nat, NEW m \in 0 .. n
  PROVE  /\ TicksUpTo(q, m) <= TicksUpTo(q, n)
         /\ \A i \in 1 .. n : IsTick(q[i]) => 1 <= TicksUpTo(q, n)
<1>1. TickPlaces(q, m) \subseteq TickPlaces(q, n)
  BY DEF TickPlaces
<1>2. IsFiniteSet(TickPlaces(q, n)) /\ TicksUpTo(q, n) \in Nat
  BY TicksType
<1>3. ASSUME NEW i \in 1 .. n, IsTick(q[i]) PROVE 1 <= TicksUpTo(q, n)
  <2>1. TickPlaces(q, n) # {}
    BY <1>3 DEF TickPlaces
  <2>2. TicksUpTo(q, n) # 0
    BY <1>2, <2>1, FS_EmptySet DEF TicksUpTo
  <2>3. QED BY <1>2, <2>2
<1>4. QED BY <1>1, <1>2, <1>3, FS_Subset DEF TicksUpTo

(* Another task at the end.                                                *)
LEMMA TicksSame ==
  ASSUME NEW q \in Seq(Tasks), NEW u \in Tasks, NEW n \in 0 .. Len(q)
  PROVE  TicksUpTo(Append(q, u), n) = TicksUpTo(q, n)
<1>1. \A i \in 1 .. n : Append(q, u)[i] = q[i]
  OBVIOUS
<1>2. TickPlaces(Append(q, u), n) = TickPlaces(q, n)
  BY <1>1 DEF TickPlaces
<1>3. QED BY <1>2 DEF TicksUpTo

LEMMA TicksMore ==
  ASSUME NEW q \in Seq(Tasks), NEW u \in Tasks
  PROVE  TicksIn(Append(q, u)) = TicksIn(q) + IF IsTick(u) THEN 1 ELSE 0
<1> DEFINE n == Len(q)
           r == Append(q, u)
<1>1. Len(r) = n + 1 /\ n \in Nat /\ r[n + 1] = u
  OBVIOUS
<1>2. TicksUpTo(r, n) = TicksIn(q)
  BY TicksSame DEF TicksIn
<1> HIDE DEF r
<1>3. TickPlaces(r, n + 1) = IF IsTick(u) THEN TickPlaces(r, n) \cup {n + 1}
                                          ELSE TickPlaces(r, n)
  BY <1>1 DEF TickPlaces
<1>4. n + 1 \notin TickPlaces(r, n)
  BY <1>1 DEF TickPlaces
<1>5. IsFiniteSet(TickPlaces(r, n)) /\ Cardinality(TickPlaces(r, n)) \in Nat
  BY <1>1, TicksType DEF TicksUpTo
<1>6. Cardinality(TickPlaces(r, n) \cup {n + 1}) = Cardinality(TickPlaces(r, n)) + 1
  BY <1>4, <1>5, FS_AddElement
<1>7. TicksUpTo(r, n + 1) = TicksUpTo(r, n) + IF IsTick(u) THEN 1 ELSE 0
  <2>1. CASE IsTick(u)
    BY <1>3, <1>6, <2>1 DEF TicksUpTo
  <2>2. CASE ~IsTick(u)
    BY <1>3, <1>5, <2>2 DEF TicksUpTo
  <2>3. QED BY <2>1, <2>2
<1>8. QED BY <1>1, <1>2, <1>7 DEF TicksIn, r

(* The first task taken off.                                               *)
LEMMA TicksFewer ==
  ASSUME NEW q \in Seq(Tasks), q # <<>>, NEW n \in 0 .. Len(q) - 1
  PROVE  TicksUpTo(q, n + 1) = TicksUpTo(Tail(q), n) + IF IsTick(Head(q)) THEN 1 ELSE 0
<1> DEFINE r == Tail(q)
           T == TickPlaces(r, n)
           U == TickPlaces(q, n + 1) \ {1}
           f == [i \in T |-> i + 1]
<1>1. /\ n \in Nat /\ Head(q) = q[1]
      /\ \A i \in 1 .. n : r[i] = q[i + 1]
  OBVIOUS
<1> HIDE DEF r
<1>2. /\ \A i \in T : i \in Nat /\ i + 1 \in U
      /\ \A j \in U : j \in Nat /\ j - 1 \in T
  BY <1>1 DEF TickPlaces
<1>3. IsFiniteSet(T) /\ IsFiniteSet(U)
  BY <1>1, TicksType, FS_Subset
<1>4. TickPlaces(q, n + 1) = IF IsTick(Head(q)) THEN U \cup {1} ELSE U
  BY <1>1 DEF TickPlaces
<1>5. 1 \notin U
  OBVIOUS
<1> HIDE DEF T, U
<1>6. f \in Bijection(T, U)
  <2>1. f \in [T -> U]
    BY <1>2
  <2>2. \A i, j \in T : f[i] = f[j] => i = j
    BY <1>2
  <2>3. \A j \in U : \E i \in T : f[i] = j
    <3>1. ASSUME NEW j \in U PROVE f[j - 1] = j /\ j - 1 \in T
      BY <1>2
    <3>2. QED BY <3>1
  <2> HIDE DEF f
  <2>4. QED BY <2>1, <2>2, <2>3 DEF Bijection, Injection, Surjection, IsInjective
<1>7. Cardinality(U) = Cardinality(T) /\ Cardinality(T) \in Nat
  <2>1. ExistsBijection(T, U)
    BY <1>6 DEF ExistsBijection
  <2>2. QED BY <1>3, <2>1, FS_Bijection, FS_CardinalityType
<1>8. Cardinality(TickPlaces(q, n + 1)) = Cardinality(T) + IF IsTick(Head(q)) THEN 1 ELSE 0
  <2>1. Cardinality(U \cup {1}) = Cardinality(T) + 1
    BY <1>3, <1>5, <1>7, FS_AddElement
  <2>2. CASE IsTick(Head(q))
    BY <1>4, <2>1, <2>2
  <2>3. CASE ~IsTick(Head(q))
    BY <1>4, <1>7, <2>3
  <2>4. QED BY <2>2, <2>3
<1>9. QED BY <1>8 DEF TicksUpTo, T, r

LEMMA TicksInFewer ==
  ASSUME NEW q \in Seq(Tasks), q # <<>>
  PROVE  /\ TicksIn(q) = TicksIn(Tail(q)) + IF IsTick(Head(q)) THEN 1 ELSE 0
         /\ TicksIn(q) \in Nat /\ TicksIn(Tail(q)) \in Nat
<1>1. /\ Len(q) - 1 \in 0 .. Len(q) - 1 /\ (Len(q) - 1) + 1 = Len(q) /\ Len(q) \in Nat
      /\ Len(Tail(q)) = Len(q) - 1 /\ Len(Tail(q)) \in Nat
  OBVIOUS
<1>2. TicksUpTo(q, (Len(q) - 1) + 1)
        = TicksUpTo(Tail(q), Len(q) - 1) + IF IsTick(Head(q)) THEN 1 ELSE 0
  BY <1>1, TicksFewer
<1>3. QED BY <1>1, <1>2, TicksType DEF TicksIn

-----------------------------------------------------------------------------
(* The inductive invariant.  What main has and does; the calls that it has *)
(* still to make; each pool with its book; who waits for what; and what    *)
(* the ticks see, or will when it is their turn, unless the build has      *)
(* _DEBUG.                                                                 *)
MayHave(a, task) ==
  task \in Tasks /\ TaskOK(a, task) /\ (IsTick(task) => ~task.sync)

MainOK ==
  /\ debug \in BOOLEAN /\ phase \in {"reading", "spinning", "deleting"}
  /\ received \in 0 .. MaxMessages /\ asked \in 0 .. MaxQueries
  /\ latest \in [Symbols -> 0 .. MaxMessages]
  /\ awaiting \in Algos \cup {0}
  /\ pool \in [Algos -> {"open", "joined", "destroyed"}]
  /\ working \in [Algos -> BOOLEAN]

CallsOK ==
  \A c \in todo :
    /\ c.algo \in Algos /\ MayHave(c.algo, c.task)
    /\ c.stage = IF IsTick(c.task) THEN 2 ELSE 1
    /\ c.task.kind # "session" => c.task.message = latest[c.task.symbol]

Domains ==
  /\ DOMAIN book = Algos /\ DOMAIN queue = Algos /\ DOMAIN running = Algos
  /\ DOMAIN raised = Algos /\ DOMAIN ticked = Algos

Busy(r) == IF r = <<>> THEN 0 ELSE 1

PoolOK(a) ==
  /\ book[a] \in BooksOf(SymbolsOf[a])
  /\ queue[a] \in Seq(Tasks)
  /\ \A i \in 1 .. Len(queue[a]) : MayHave(a, queue[a][i])
  /\ running[a] = <<>> \/ \E t : running[a] = <<t>> /\ MayHave(a, t) /\ IsTick(t)
  /\ raised[a] \in Seq(Nat) /\ ticked[a] \in Seq(Nat)
  /\ Len(raised[a]) = Len(ticked[a]) + Busy(running[a]) + TicksIn(queue[a])

WaitOK(a) ==
  /\ awaiting = a => queue[a] # <<>>
  /\ \A i \in 1 .. Len(queue[a]) :
       queue[a][i].sync <=> awaiting = a /\ i = Len(queue[a])

Unapplied(a, s) == \E c \in todo : c.algo = a /\ Applies(c.task, s)

SeesOK(a) ==
  /\ \A t : running[a] = <<t>> /\ t.kind = "tick" => book[a][t.symbol].version = t.message
  /\ \A i \in 1 .. Len(queue[a]) :
       queue[a][i].kind = "tick" =>
         Leaves(book[a], queue[a], i - 1, queue[a][i].symbol, queue[a][i].message)
  /\ \A s \in SymbolsOf[a] :
       ~Unapplied(a, s) => Leaves(book[a], queue[a], Len(queue[a]), s, latest[s])

PInv ==
  /\ MainOK /\ CallsOK /\ Domains
  /\ debug => awaiting = 0
  /\ \A a \in Algos : PoolOK(a) /\ WaitOK(a) /\ (~debug => SeesOK(a))

(* An event more, or a tick begun.                                         *)
LEMMA OneMore ==
  ASSUME NEW n \in Nat, NEW b \in Nat, NEW k \in Nat
  PROVE  (n + b + k) + 1 = n + b + (k + 1)
OBVIOUS

LEMMA OneTaken ==
  ASSUME NEW n \in Nat, NEW k \in Nat
  PROVE  n + 0 + (k + 1) = n + 1 + k
OBVIOUS

LEMMA AlgosArePositive == Algos \subseteq Nat \ {0}
<1>1. Cardinality(Algos) \in Nat
  BY PipelineAssumption, FS_CardinalityType
<1>2. Algos = 1 .. Cardinality(Algos)
  BY PipelineAssumption
<1>3. QED BY <1>1, <1>2

LEMMA InitPInv == Init => PInv
<1> SUFFICES ASSUME Init PROVE PInv
  OBVIOUS
<1>1. MainOK
  BY PipelineAssumption DEF Init, MainOK
<1>2. CallsOK /\ Domains /\ awaiting = 0
  BY DEF Init, CallsOK, Domains
<1>3. ASSUME NEW a \in Algos PROVE PoolOK(a) /\ WaitOK(a) /\ SeesOK(a)
  <2>1. /\ book[a] = [s \in SymbolsOf[a] |-> [version |-> 0, timestamp |-> 0]]
        /\ queue[a] = <<>> /\ running[a] = <<>> /\ raised[a] = <<>> /\ ticked[a] = <<>>
        /\ latest = [s \in Symbols |-> 0] /\ SymbolsOf[a] \subseteq Symbols
    BY PipelineAssumption DEF Init
  <2>2. <<>> \in Seq(Tasks) /\ <<>> \in Seq(Nat) /\ Len(<<>>) = 0 /\ TicksIn(<<>>) = 0
    <3>1. TickPlaces(<<>>, 0) = {}
      BY DEF TickPlaces
    <3>2. QED BY <3>1, FS_EmptySet DEF TicksIn, TicksUpTo
  <2>3. PoolOK(a)
    BY <2>1, <2>2 DEF PoolOK, BooksOf, Busy
  <2>4. awaiting # a
    BY <1>2, AlgosArePositive
  <2>5. WaitOK(a)
    BY <2>1, <2>2, <2>4 DEF WaitOK
  <2>6. \A t : running[a] # <<t>>
    BY <2>1
  <2>7. SeesOK(a)
    BY <2>1, <2>2, <2>6 DEF SeesOK, Leaves
  <2>8. QED BY <2>3, <2>5, <2>7
<1>4. QED BY <1>1, <1>2, <1>3 DEF PInv

(* What the calls of a message are.                                        *)
LEMMA OperationsAre ==
  ASSUME NEW kind, NEW a, NEW s \in SymbolsOf[a], s \in Symbols, NEW n \in 0 .. MaxMessages,
         NEW i \in DOMAIN Operations(kind, s, n)
  PROVE  /\ MayHave(a, Operations(kind, s, n)[i])
         /\ Operations(kind, s, n)[i].symbol = s /\ Operations(kind, s, n)[i].message = n
         /\ ~IsTick(Operations(kind, s, n)[i])
<1>1. CASE kind = "update"
  <2>1. Operations(kind, s, n) = <<Task("apply", s, n, FALSE), Task("stamp", s, n, FALSE)>>
    BY <1>1 DEF Operations
  <2>2. /\ i \in {1, 2}
        /\ Operations(kind, s, n)[1] = Task("apply", s, n, FALSE)
        /\ Operations(kind, s, n)[2] = Task("stamp", s, n, FALSE)
    BY <2>1
  <2>3. CASE i = 1
    <3>1. Operations(kind, s, n)[i] = Task("apply", s, n, FALSE)
      BY <2>2, <2>3
    <3>2. QED BY <3>1 DEF MayHave, Tasks, TaskOK, Task, IsTick
  <2>4. CASE i = 2
    <3>1. Operations(kind, s, n)[i] = Task("stamp", s, n, FALSE)
      BY <2>2, <2>4
    <3>2. QED BY <3>1 DEF MayHave, Tasks, TaskOK, Task, IsTick
  <2>5. QED BY <2>2, <2>3, <2>4
<1>2. CASE kind = "execute"
  <2>1. Operations(kind, s, n) = <<Task("apply", s, n, TRUE), Task("stamp", s, n, FALSE)>>
    BY <1>2 DEF Operations
  <2>2. /\ i \in {1, 2}
        /\ Operations(kind, s, n)[1] = Task("apply", s, n, TRUE)
        /\ Operations(kind, s, n)[2] = Task("stamp", s, n, FALSE)
    BY <2>1
  <2>3. CASE i = 1
    <3>1. Operations(kind, s, n)[i] = Task("apply", s, n, TRUE)
      BY <2>2, <2>3
    <3>2. QED BY <3>1 DEF MayHave, Tasks, TaskOK, Task, IsTick
  <2>4. CASE i = 2
    <3>1. Operations(kind, s, n)[i] = Task("stamp", s, n, FALSE)
      BY <2>2, <2>4
    <3>2. QED BY <3>1 DEF MayHave, Tasks, TaskOK, Task, IsTick
  <2>5. QED BY <2>2, <2>3, <2>4
<1>3. CASE kind = "replace"
  <2>1. Operations(kind, s, n) = <<Task("query", s, n, TRUE), Task("apply", s, n, FALSE),
                                   Task("stamp", s, n, FALSE)>>
    BY <1>3 DEF Operations
  <2>2. /\ i \in {1, 2, 3}
        /\ Operations(kind, s, n)[1] = Task("query", s, n, TRUE)
        /\ Operations(kind, s, n)[2] = Task("apply", s, n, FALSE)
        /\ Operations(kind, s, n)[3] = Task("stamp", s, n, FALSE)
    BY <2>1
  <2>3. CASE i = 1
    <3>1. Operations(kind, s, n)[i] = Task("query", s, n, TRUE)
      BY <2>2, <2>3
    <3>2. QED BY <3>1 DEF MayHave, Tasks, TaskOK, Task, IsTick
  <2>4. CASE i = 2
    <3>1. Operations(kind, s, n)[i] = Task("apply", s, n, FALSE)
      BY <2>2, <2>4
    <3>2. QED BY <3>1 DEF MayHave, Tasks, TaskOK, Task, IsTick
  <2>5. CASE i = 3
    <3>1. Operations(kind, s, n)[i] = Task("stamp", s, n, FALSE)
      BY <2>2, <2>5
    <3>2. QED BY <3>1 DEF MayHave, Tasks, TaskOK, Task, IsTick
  <2>6. QED BY <2>2, <2>3, <2>4, <2>5
<1>4. CASE kind = "info"
  <2>1. Operations(kind, s, n) = <<Task("apply", s, n, FALSE)>>
    BY <1>4 DEF Operations
  <2>2. i = 1 /\ Operations(kind, s, n)[1] = Task("apply", s, n, FALSE)
    BY <2>1
  <2>3. QED BY <2>2 DEF MayHave, Tasks, TaskOK, Task, IsTick
<1>5. CASE kind \notin {"update", "execute", "replace", "info"}
  <2>1. Operations(kind, s, n) = <<>>
    BY <1>5 DEF Operations
  <2>2. QED BY <2>1
<1>6. QED BY <1>1, <1>2, <1>3, <1>4, <1>5

LEMMA OperationsApply ==
  ASSUME NEW kind, ChangesBook(kind), NEW s, NEW n
  PROVE  \E i \in DOMAIN Operations(kind, s, n) : Applies(Operations(kind, s, n)[i], s)
<1>1. CASE kind = "update"
  <2>1. Operations(kind, s, n) = <<Task("apply", s, n, FALSE), Task("stamp", s, n, FALSE)>>
    BY <1>1 DEF Operations
  <2>2. 1 \in DOMAIN Operations(kind, s, n)
        /\ Operations(kind, s, n)[1] = Task("apply", s, n, FALSE)
    BY <2>1
  <2>3. QED BY <2>2 DEF Applies, Task
<1>2. CASE kind = "execute"
  <2>1. Operations(kind, s, n) = <<Task("apply", s, n, TRUE), Task("stamp", s, n, FALSE)>>
    BY <1>2 DEF Operations
  <2>2. 1 \in DOMAIN Operations(kind, s, n)
        /\ Operations(kind, s, n)[1] = Task("apply", s, n, TRUE)
    BY <2>1
  <2>3. QED BY <2>2 DEF Applies, Task
<1>3. CASE kind = "replace"
  <2>1. Operations(kind, s, n) = <<Task("query", s, n, TRUE), Task("apply", s, n, FALSE),
                                   Task("stamp", s, n, FALSE)>>
    BY <1>3 DEF Operations
  <2>2. 2 \in DOMAIN Operations(kind, s, n)
        /\ Operations(kind, s, n)[2] = Task("apply", s, n, FALSE)
    BY <2>1
  <2>3. QED BY <2>2 DEF Applies, Task
<1>4. CASE kind = "info"
  <2>1. Operations(kind, s, n) = <<Task("apply", s, n, FALSE)>>
    BY <1>4 DEF Operations
  <2>2. 1 \in DOMAIN Operations(kind, s, n)
        /\ Operations(kind, s, n)[1] = Task("apply", s, n, FALSE)
    BY <2>1
  <2>3. QED BY <2>2 DEF Applies, Task
<1>5. QED BY <1>1, <1>2, <1>3, <1>4 DEF ChangesBook

LEMMA ToEachIs ==
  ASSUME NEW stage, NEW algos, NEW tasks, NEW c \in ToEach(stage, algos, tasks)
  PROVE  /\ c.stage = stage /\ c.algo \in algos
         /\ \E i \in DOMAIN tasks : c.task = tasks[i]
BY DEF ToEach

LEMMA CallsAre ==
  ASSUME NEW kind, NEW s \in Symbols, NEW n \in 0 .. MaxMessages, NEW c \in Calls(kind, s, n)
  PROVE  /\ c.algo \in Algos /\ MayHave(c.algo, c.task)
         /\ c.stage = IF IsTick(c.task) THEN 2 ELSE 1
         /\ c.task.kind # "session" => c.task.message = n /\ c.task.symbol = s
<1>1. ASSUME c \in ToEach(1, Registered(s), Operations(kind, s, n))
      PROVE  /\ c.algo \in Algos /\ MayHave(c.algo, c.task)
             /\ c.stage = IF IsTick(c.task) THEN 2 ELSE 1
             /\ c.task.message = n /\ c.task.symbol = s
  <2>1. c.algo \in Algos /\ s \in SymbolsOf[c.algo] /\ c.stage = 1
    BY <1>1, ToEachIs DEF Registered
  <2>2. PICK i \in DOMAIN Operations(kind, s, n) : c.task = Operations(kind, s, n)[i]
    BY <1>1, ToEachIs
  <2>3. QED BY <2>1, <2>2, OperationsAre
<1>2. ASSUME c \in ToEach(2, Registered(s), <<Task("tick", s, n, FALSE)>>)
      PROVE  /\ c.algo \in Algos /\ MayHave(c.algo, c.task)
             /\ c.stage = IF IsTick(c.task) THEN 2 ELSE 1
             /\ c.task.message = n /\ c.task.symbol = s
  <2>1. c.algo \in Algos /\ s \in SymbolsOf[c.algo] /\ c.stage = 2
    BY <1>2, ToEachIs DEF Registered
  <2>2. PICK i \in DOMAIN <<Task("tick", s, n, FALSE)>> :
          c.task = <<Task("tick", s, n, FALSE)>>[i]
    BY <1>2, ToEachIs
  <2>3. i = 1 /\ <<Task("tick", s, n, FALSE)>>[1] = Task("tick", s, n, FALSE)
    OBVIOUS
  <2>4. c.task = Task("tick", s, n, FALSE)
    BY <2>2, <2>3
  <2>5. MayHave(c.algo, c.task) /\ c.task.symbol = s /\ c.task.message = n /\ IsTick(c.task)
    BY <2>1, <2>4 DEF MayHave, Tasks, TaskOK, Task, IsTick
  <2>6. QED BY <2>1, <2>5
<1>3. ASSUME NEW a \in Algos,
             c \in ToEach(2, {a}, [i \in 1 .. Cardinality(SymbolsOf[a]) |->
                                     Task("session", s, 0, FALSE)])
      PROVE  /\ c.algo \in Algos /\ MayHave(c.algo, c.task) /\ c.task.kind = "session"
             /\ c.stage = IF IsTick(c.task) THEN 2 ELSE 1
  <2> DEFINE f == [i \in 1 .. Cardinality(SymbolsOf[a]) |-> Task("session", s, 0, FALSE)]
  <2>1. \A i \in DOMAIN f : f[i] = Task("session", s, 0, FALSE)
    OBVIOUS
  <2>2. c \in ToEach(2, {a}, f)
    BY <1>3
  <2> HIDE DEF f
  <2>3. c.stage = 2 /\ c.algo = a /\ c.task = Task("session", s, 0, FALSE)
    <3>1. PICK i \in DOMAIN f : c.task = f[i]
      BY <2>2, ToEachIs
    <3>2. c.stage = 2 /\ c.algo = a
      BY <2>2, ToEachIs
    <3>3. c.task = Task("session", s, 0, FALSE)
      BY <2>1, <3>1
    <3>4. QED BY <3>2, <3>3
  <2>4. 0 \in 0 .. MaxMessages
    BY PipelineAssumption
  <2>5. c.task = [kind |-> "session", symbol |-> s, message |-> 0, sync |-> FALSE]
    BY <2>3 DEF Task
  <2>6. c.task \in Tasks
    BY <2>4, <2>5 DEF Tasks
  <2>7. c.task.kind = "session" /\ IsTick(c.task) /\ MayHave(c.algo, c.task)
    BY <2>4, <2>5, <2>6 DEF MayHave, TaskOK, IsTick
  <2>8. QED BY <2>3, <2>7
<1>4. CASE kind = "session"
  BY <1>3, <1>4 DEF Calls
<1>5. CASE kind # "session"
  BY <1>1, <1>2, <1>5 DEF Calls
<1>6. QED BY <1>4, <1>5

-----------------------------------------------------------------------------
(* Steps that are neither a call nor of a pool's thread.                   *)
LEMMA QuietKeeps ==
  ASSUME PInv, MainOK',
         UNCHANGED <<debug, latest, todo, awaiting, book, queue, running, raised, ticked>>
  PROVE  PInv'
<1>1. CallsOK' /\ Domains' /\ (debug' => awaiting' = 0)
  BY DEF PInv, CallsOK, Domains
<1>2. ASSUME NEW a \in Algos
      PROVE  PoolOK(a)' /\ WaitOK(a)' /\ (~debug' => SeesOK(a)')
  <2>1. PoolOK(a) /\ WaitOK(a) /\ (~debug => SeesOK(a))
    BY DEF PInv
  <2>2. PoolOK(a)' /\ WaitOK(a)'
    BY <2>1 DEF PoolOK, WaitOK
  <2>3. SeesOK(a) => SeesOK(a)'
    BY DEF SeesOK, Unapplied
  <2>4. QED BY <2>1, <2>2, <2>3
<1>3. QED BY <1>1, <1>2 DEF PInv

LEMMA QuietSteps ==
  ASSUME PInv,
         \/ EndOfData \/ EndOfSession \/ UNCHANGED vars
         \/ \E a \in Algos : Delete(a) \/ Stop(a) \/ Start(a)
  PROVE  PInv'
<1> USE DEF MainOK
<1>1. MainOK
  BY DEF PInv
<1>2. CASE EndOfData \/ EndOfSession
  <2>1. MainOK'
    BY <1>1, <1>2 DEF EndOfData, EndOfSession, poolVars
  <2>2. QED BY <1>2, <2>1, QuietKeeps DEF EndOfData, EndOfSession, poolVars
<1>3. CASE UNCHANGED vars
  <2>1. MainOK'
    BY <1>1, <1>3 DEF vars
  <2>2. QED BY <1>3, <2>1, QuietKeeps DEF vars
<1>4. ASSUME NEW a \in Algos, Delete(a) PROVE PInv'
  <2>1. MainOK'
    BY <1>1, <1>4 DEF Delete, mainVars
  <2>2. QED BY <1>4, <2>1, QuietKeeps DEF Delete, mainVars, poolVars
<1>5. ASSUME NEW a \in Algos, Stop(a) PROVE PInv'
  <2>1. MainOK'
    BY <1>1, <1>5 DEF Stop, mainVars
  <2>2. QED BY <1>5, <2>1, QuietKeeps DEF Stop, mainVars, poolVars
<1>6. ASSUME NEW a \in Algos, Start(a) PROVE PInv'
  <2>1. MainOK'
    BY <1>1, <1>6 DEF Start, mainVars
  <2>2. QED BY <1>6, <2>1, QuietKeeps DEF Start, mainVars, poolVars
<1>7. QED BY <1>2, <1>3, <1>4, <1>5, <1>6

(* T0 has new calls to make: the pools are as they were, and if the books  *)
(* of a symbol are to change, a call applies the change.                   *)
LEMMA NewCalls ==
  ASSUME PInv, todo = {}, MainOK', CallsOK',
         UNCHANGED <<debug, awaiting, book, queue, running, raised, ticked>>,
         \A a \in Algos : \A s \in SymbolsOf[a] : latest'[s] = latest[s] \/ Unapplied(a, s)'
  PROVE  PInv'
<1>1. Domains' /\ (debug' => awaiting' = 0)
  BY DEF PInv, Domains
<1>2. ASSUME NEW a \in Algos
      PROVE  PoolOK(a)' /\ WaitOK(a)' /\ (~debug' => SeesOK(a)')
  <2>1. PoolOK(a) /\ WaitOK(a) /\ (~debug => SeesOK(a))
    BY DEF PInv
  <2>2. PoolOK(a)' /\ WaitOK(a)'
    BY <2>1 DEF PoolOK, WaitOK
  <2>3. \A s : ~Unapplied(a, s)
    BY DEF Unapplied
  <2>4. ASSUME SeesOK(a) PROVE SeesOK(a)'
    <3>1. ASSUME NEW s \in SymbolsOf[a], ~Unapplied(a, s)'
          PROVE  Leaves(book[a], queue[a], Len(queue[a]), s, latest[s]) /\ latest'[s] = latest[s]
      BY <2>3, <2>4, <3>1 DEF SeesOK
    <3>2. QED BY <2>4, <3>1 DEF SeesOK
  <2>5. QED BY <2>1, <2>2, <2>4
<1>3. QED BY <1>1, <1>2 DEF PInv

LEMMA ReceiveKeeps ==
  ASSUME PInv, NEW kind \in Kinds, NEW s \in Symbols, Receive(kind, s)
  PROVE  PInv'
<1>1. MainOK /\ todo = {} /\ received' = received + 1 /\ received < MaxMessages
  BY DEF PInv, Receive, AtRest
<1>2. received' \in 0 .. MaxMessages
  BY <1>1, PipelineAssumption DEF MainOK
<1>3. /\ latest' \in [Symbols -> 0 .. MaxMessages]
      /\ \A r \in Symbols : (r = s /\ ChangesBook(kind)) \/ latest'[r] = latest[r]
  <2>1. latest \in [Symbols -> 0 .. MaxMessages]
    BY <1>1 DEF MainOK
  <2>2. CASE ChangesBook(kind)
    <3>1. latest' = [latest EXCEPT ![s] = received']
      BY <2>2 DEF Receive
    <3>2. QED BY <1>2, <2>1, <2>2, <3>1
  <2>3. CASE ~ChangesBook(kind)
    <3>1. latest' = latest
      BY <2>3 DEF Receive
    <3>2. QED BY <2>1, <3>1
  <2>4. QED BY <2>2, <2>3
<1>4. MainOK'
  BY <1>1, <1>2, <1>3 DEF MainOK, Receive
<1>5. PICK n \in 0 .. MaxMessages : n = latest'[s]
  BY <1>3
<1>6. todo' = Calls(kind, s, n)
  BY <1>5 DEF Receive
<1>7. CallsOK'
  <2> SUFFICES ASSUME NEW c \in Calls(kind, s, n)
               PROVE  /\ c.algo \in Algos /\ MayHave(c.algo, c.task)
                      /\ c.stage = IF IsTick(c.task) THEN 2 ELSE 1
                      /\ c.task.kind # "session" => c.task.message = latest'[c.task.symbol]
    BY <1>6 DEF CallsOK
  <2>1. QED BY <1>5, CallsAre
<1>8. ASSUME NEW a \in Algos, NEW r \in SymbolsOf[a], latest'[r] # latest[r]
      PROVE  Unapplied(a, r)'
  <2>1. r \in Symbols
    BY PipelineAssumption
  <2>2. r = s /\ ChangesBook(kind)
    BY <1>3, <1>8, <2>1
  <2>3. PICK i \in DOMAIN Operations(kind, s, n) : Applies(Operations(kind, s, n)[i], s)
    BY <2>2, OperationsApply
  <2>4. a \in Registered(s)
    BY <2>2 DEF Registered
  <2> DEFINE c == [stage |-> 1, algo |-> a, no |-> i, task |-> Operations(kind, s, n)[i]]
  <2>5. c \in ToEach(1, Registered(s), Operations(kind, s, n))
    BY <2>3, <2>4 DEF ToEach
  <2>6. c \in Calls(kind, s, n)
    <3>1. kind # "session"
      BY <2>2 DEF ChangesBook
    <3>2. QED BY <2>5, <3>1 DEF Calls
  <2>7. c.algo = a /\ Applies(c.task, s)
    BY <2>3
  <2> HIDE DEF c
  <2>8. QED BY <1>6, <2>2, <2>6, <2>7 DEF Unapplied
<1>9. QED BY <1>1, <1>4, <1>7, <1>8, NewCalls DEF Receive, poolVars

LEMMA QueryKeeps ==
  ASSUME PInv, NEW a \in Algos, NEW s \in SymbolsOf[a], Query(a, s)
  PROVE  PInv'
<1>1. MainOK /\ todo = {} /\ asked' = asked + 1 /\ asked < MaxQueries
  BY DEF PInv, Query, AtRest
<1>2. MainOK'
  BY <1>1, PipelineAssumption DEF MainOK, Query
<1>3. s \in Symbols /\ latest[s] \in 0 .. MaxMessages /\ latest' = latest
  BY <1>1, PipelineAssumption DEF MainOK, Query
<1>4. CallsOK'
  <2> SUFFICES ASSUME NEW c \in QueryCalls(a, s)
               PROVE  /\ c.algo \in Algos /\ MayHave(c.algo, c.task)
                      /\ c.stage = IF IsTick(c.task) THEN 2 ELSE 1
                      /\ c.task.kind # "session" => c.task.message = latest[c.task.symbol]
    BY <1>3 DEF CallsOK, Query
  <2>1. c.stage = 1 /\ c.algo = a
    BY ToEachIs DEF QueryCalls
  <2>2. c.task = Task("query", s, latest[s], TRUE)
    <3>1. PICK i \in DOMAIN <<Task("query", s, latest[s], TRUE)>> :
            c.task = <<Task("query", s, latest[s], TRUE)>>[i]
      BY ToEachIs DEF QueryCalls
    <3>2. i = 1 /\ <<Task("query", s, latest[s], TRUE)>>[1] = Task("query", s, latest[s], TRUE)
      OBVIOUS
    <3>3. QED BY <3>1, <3>2
  <2>3. QED BY <1>3, <2>1, <2>2 DEF MayHave, Tasks, TaskOK, Task, IsTick
<1>5. QED BY <1>1, <1>2, <1>3, <1>4, NewCalls DEF Query, poolVars

(* A call puts a task at the end of a queue.  If it is a tick, no call is  *)
(* left that applies something, since all the calls that do come before    *)
(* the ticks: the queue, done to its end, leaves the book as the tick's    *)
(* message did.                                                            *)
LEMMA PostKeeps ==
  ASSUME PInv, NEW c \in todo, \A d \in todo \ {c} : Earlier(c, d), todo' = todo \ {c},
         debug => IsTick(c.task), awaiting = 0, Post(c),
         UNCHANGED <<debug, phase, received, asked, latest, pool, working>>
  PROVE  PInv'
<1> DEFINE h == c.algo
           u == c.task
<1>1. /\ h \in Algos /\ MayHave(h, u) /\ u \in Tasks /\ TaskOK(h, u)
      /\ IsTick(u) => ~u.sync
      /\ u.kind # "session" => u.message = latest[u.symbol]
  BY DEF PInv, CallsOK, MayHave
<1>2. \A d \in todo : (d.stage = 2 \/ d.stage = 1) /\ (d.stage = 2 <=> IsTick(d.task))
  BY DEF PInv, CallsOK
<1>3. /\ Domains /\ MainOK /\ CallsOK
      /\ queue' = [queue EXCEPT ![h] = Append(@, u)]
      /\ raised' = IF IsTick(u) THEN [raised EXCEPT ![h] = Append(@, u.message)] ELSE raised
      /\ awaiting' = IF u.sync THEN h ELSE 0
      /\ book' = book /\ running' = running /\ ticked' = ticked
  BY DEF PInv, Post
<1>4. \A d \in todo : d # c => d.stage >= c.stage
  BY <1>2 DEF Earlier
<1> HIDE DEF h, u
<1>5. MainOK' /\ CallsOK' /\ (debug' => awaiting' = 0)
  <2>1. MainOK'
    BY <1>1, <1>3 DEF MainOK
  <2>2. CallsOK'
    BY <1>3 DEF CallsOK
  <2>3. debug => ~u.sync
    BY <1>1 DEF u
  <2>4. QED BY <1>3, <2>1, <2>2, <2>3
<1>6. Domains'
  BY <1>3 DEF Domains
<1>7. ASSUME NEW a \in Algos, a # h
      PROVE  PoolOK(a)' /\ WaitOK(a)' /\ (~debug' => SeesOK(a)')
  <2>1. PoolOK(a) /\ WaitOK(a) /\ (~debug => SeesOK(a)) /\ a # 0
    BY AlgosArePositive DEF PInv
  <2>2. queue'[a] = queue[a] /\ raised'[a] = raised[a]
    BY <1>3, <1>7 DEF Domains
  <2>3. PoolOK(a)'
    BY <1>3, <2>1, <2>2 DEF PoolOK
  <2>4. WaitOK(a)'
    BY <1>3, <1>7, <2>1, <2>2 DEF WaitOK
  <2>5. \A s : Unapplied(a, s)' <=> Unapplied(a, s)
    BY <1>7 DEF Unapplied, h
  <2>6. SeesOK(a) => SeesOK(a)'
    BY <1>3, <2>2, <2>5 DEF SeesOK
  <2>7. QED BY <2>1, <2>3, <2>4, <2>6
<1>8. PoolOK(h)' /\ WaitOK(h)' /\ (~debug' => SeesOK(h)')
  <2>1. PoolOK(h) /\ WaitOK(h) /\ (~debug => SeesOK(h)) /\ h # 0
    BY <1>1, AlgosArePositive DEF PInv
  <2>2. PICK q \in Seq(Tasks) : q = queue[h]
    BY <2>1 DEF PoolOK
  <2>3. queue'[h] = Append(q, u)
    BY <1>1, <1>3, <2>2 DEF Domains
  <2>4. PICK r \in Seq(Tasks) : r = Append(q, u)
    <3>1. u \in Tasks
      BY <1>1
    <3>2. Append(q, u) \in Seq(Tasks)
      BY <3>1
    <3>3. QED BY <3>2
  <2>5. /\ Len(q) \in Nat /\ Len(r) = Len(q) + 1 /\ r # <<>>
        /\ r[Len(q) + 1] = u /\ \A i \in 1 .. Len(q) : r[i] = q[i]
    <3>1. /\ Len(q) \in Nat /\ Len(Append(q, u)) = Len(q) + 1 /\ Append(q, u)[Len(q) + 1] = u
          /\ \A i \in 1 .. Len(q) : Append(q, u)[i] = q[i]
      BY <1>1
    <3>2. r # <<>>
      BY <2>4, <3>1
    <3>3. QED BY <2>4, <3>1, <3>2
  <2>6. \A i \in 1 .. Len(r) : i \in 1 .. Len(q) \/ i = Len(q) + 1
    BY <2>5
  <2>7. PoolOK(h)'
    <3>1. book'[h] \in BooksOf(SymbolsOf[h]) /\ ticked'[h] \in Seq(Nat) /\ running'[h] = running[h]
      BY <1>3, <2>1 DEF PoolOK
    <3>2. \A i \in 1 .. Len(r) : MayHave(h, r[i])
      BY <1>1, <2>1, <2>2, <2>5, <2>6 DEF PoolOK
    <3>3. /\ raised'[h] \in Seq(Nat)
          /\ Len(raised'[h]) = Len(ticked'[h]) + Busy(running'[h]) + TicksIn(r)
      <4>1. TicksIn(r) = TicksIn(q) + IF IsTick(u) THEN 1 ELSE 0
        BY <1>1, <2>2, <2>4, TicksMore
      <4>2. TicksIn(q) \in Nat
        BY <2>2, <2>5, TicksType DEF TicksIn
      <4>3. Busy(running[h]) \in Nat /\ Len(ticked[h]) \in Nat /\ u.message \in Nat
        BY <1>1, <2>1 DEF Busy, PoolOK, Tasks
      <4>4. /\ raised[h] \in Seq(Nat)
            /\ Len(raised[h]) = Len(ticked[h]) + Busy(running[h]) + TicksIn(q)
        BY <2>1, <2>2 DEF PoolOK
      <4>5. CASE IsTick(u)
        <5>1. raised'[h] = Append(raised[h], u.message)
          BY <1>1, <1>3, <4>5 DEF Domains
        <5>2. raised'[h] \in Seq(Nat) /\ Len(raised'[h]) = Len(raised[h]) + 1
          BY <4>3, <4>4, <5>1
        <5>3. TicksIn(r) = TicksIn(q) + 1
          BY <4>1, <4>5
        <5>4. Len(raised'[h]) = Len(ticked[h]) + Busy(running[h]) + TicksIn(r)
          <6>1. (Len(ticked[h]) + Busy(running[h]) + TicksIn(q)) + 1
                  = Len(ticked[h]) + Busy(running[h]) + (TicksIn(q) + 1)
            BY <4>2, <4>3, OneMore
          <6>2. QED BY <4>4, <5>2, <5>3, <6>1
        <5>5. QED BY <1>3, <5>2, <5>4
      <4>6. CASE ~IsTick(u)
        <5>1. raised'[h] = raised[h] /\ TicksIn(r) = TicksIn(q)
          BY <1>3, <4>1, <4>2, <4>6
        <5>2. QED BY <1>3, <4>4, <5>1
      <4>7. QED BY <4>5, <4>6
    <3>4. QED BY <2>1, <2>3, <2>4, <3>1, <3>2, <3>3 DEF PoolOK
  <2>8. WaitOK(h)'
    <3>1. awaiting' = h <=> u.sync
      BY <1>3, <2>1
    <3>2. \A i \in 1 .. Len(q) : ~q[i].sync
      BY <2>1, <2>2 DEF WaitOK
    <3>3. \A i \in 1 .. Len(r) : r[i].sync <=> awaiting' = h /\ i = Len(r)
      BY <2>5, <2>6, <3>1, <3>2
    <3>4. QED BY <2>3, <2>4, <2>5, <3>3 DEF WaitOK
  <2>9. ASSUME SeesOK(h), ~debug PROVE SeesOK(h)'
    <3>1. \A t : running'[h] = <<t>> /\ t.kind = "tick" => book'[h][t.symbol].version = t.message
      BY <1>3, <2>9 DEF SeesOK
    <3>2. ASSUME NEW i \in 1 .. Len(r), r[i].kind = "tick"
          PROVE  Leaves(book[h], r, i - 1, r[i].symbol, r[i].message)
      <4>1. CASE i \in 1 .. Len(q)
        <5>1. i - 1 \in 0 .. Len(q) /\ r[i] = q[i]
          BY <2>5, <4>1
        <5>2. Leaves(book[h], q, i - 1, q[i].symbol, q[i].message)
          BY <2>2, <2>9, <3>2, <4>1, <5>1 DEF SeesOK
        <5>3. QED BY <1>1, <2>2, <2>4, <5>1, <5>2, LeavesSame
      <4>2. CASE i = Len(q) + 1
        <5>1. i - 1 = Len(q) /\ r[i] = u /\ IsTick(u)
          BY <2>5, <3>2, <4>2 DEF IsTick
        <5>2. u.symbol \in SymbolsOf[h] /\ u.message = latest[u.symbol]
          BY <1>1, <3>2, <5>1 DEF TaskOK
        <5>3. ~Unapplied(h, u.symbol)
          <6>1. c.stage = 2
            BY <1>2, <5>1 DEF u
          <6>2. \A d \in todo : d.stage = 2
            BY <1>2, <1>4, <6>1
          <6>3. QED BY <1>2, <6>2 DEF Unapplied, Applies, IsTick
        <5>4. Leaves(book[h], q, Len(q), u.symbol, u.message)
          BY <2>2, <2>9, <5>2, <5>3 DEF SeesOK
        <5>5. Len(q) \in 0 .. Len(q)
          BY <2>5
        <5>6. Leaves(book[h], r, Len(q), u.symbol, u.message)
          BY <1>1, <2>2, <2>4, <5>4, <5>5, LeavesSame
        <5>7. QED BY <5>1, <5>6
      <4>3. QED BY <2>6, <4>1, <4>2
    <3>3. ASSUME NEW s \in SymbolsOf[h], ~Unapplied(h, s)'
          PROVE  Leaves(book[h], r, Len(r), s, latest[s])
      <4>1. CASE Applies(u, s)
        <5>1. u.message = latest[s]
          BY <1>1, <4>1 DEF Applies
        <5>2. QED BY <1>1, <2>2, <2>4, <4>1, <5>1, LeavesMore
      <4>2. CASE ~Applies(u, s)
        <5>1. ~Unapplied(h, s)
          BY <3>3, <4>2 DEF Unapplied, u
        <5>2. Leaves(book[h], q, Len(q), s, latest[s])
          BY <2>2, <2>9, <5>1 DEF SeesOK
        <5>3. QED BY <1>1, <2>2, <2>4, <4>2, <5>2, LeavesMore
      <4>3. QED BY <4>1, <4>2
    <3>4. QED BY <1>3, <2>3, <2>4, <3>1, <3>2, <3>3 DEF SeesOK
  <2>10. QED BY <2>1, <2>7, <2>8, <2>9
<1>9. QED BY <1>5, <1>6, <1>7, <1>8 DEF PInv

(* An agent without a pool does the operation itself.                      *)
LEMMA DoInlineKeeps ==
  ASSUME PInv, NEW c \in todo, todo' = todo \ {c}, debug, ~IsTick(c.task), DoInline(c),
         UNCHANGED <<debug, phase, received, asked, latest, pool, working>>
  PROVE  PInv'
<1> DEFINE h == c.algo
           u == c.task
<1>1. /\ h \in Algos /\ u \in Tasks /\ TaskOK(h, u) /\ ~IsTick(u)
      /\ Domains /\ MainOK /\ CallsOK /\ awaiting = 0
      /\ book' = [book EXCEPT ![h] = Done(@, u)]
      /\ UNCHANGED <<queue, raised, awaiting, running, ticked>>
  BY DEF PInv, CallsOK, MayHave, DoInline
<1> HIDE DEF h, u
<1>2. MainOK' /\ CallsOK' /\ Domains' /\ awaiting' = 0
  BY <1>1 DEF MainOK, CallsOK, Domains
<1>3. ASSUME NEW a \in Algos PROVE PoolOK(a)' /\ WaitOK(a)'
  <2>1. PoolOK(a) /\ WaitOK(a)
    BY DEF PInv
  <2>2. book'[a] \in BooksOf(SymbolsOf[a])
    <3>1. CASE a = h
      <4>1. u.kind # "session" /\ u.symbol \in SymbolsOf[h]
        BY <1>1 DEF TaskOK, IsTick
      <4>2. Done(book[h], u) \in BooksOf(SymbolsOf[h])
        BY <1>1, <2>1, <3>1, <4>1, DoneKeeps DEF PoolOK
      <4>3. QED BY <1>1, <3>1, <4>2 DEF Domains
    <3>2. CASE a # h
      BY <1>1, <2>1, <3>2 DEF Domains, PoolOK
    <3>3. QED BY <3>1, <3>2
  <2>3. QED BY <1>1, <2>1, <2>2 DEF PoolOK, WaitOK
<1>4. QED BY <1>2, <1>3 DEF PInv

LEMMA CallKeeps ==
  ASSUME PInv, Call
  PROVE  PInv'
<1>1. PICK c \in todo :
        /\ \A d \in todo \ {c} : Earlier(c, d)
        /\ todo' = todo \ {c}
        /\ \/ (debug => IsTick(c.task)) /\ Post(c)
           \/ debug /\ ~IsTick(c.task) /\ DoInline(c)
  BY DEF Call
<1>2. awaiting = 0 /\ UNCHANGED <<debug, phase, received, asked, latest, pool, working>>
  BY DEF Call
<1>3. CASE (debug => IsTick(c.task)) /\ Post(c)
  BY <1>1, <1>2, <1>3, PostKeeps
<1>4. CASE debug /\ ~IsTick(c.task) /\ DoInline(c)
  BY <1>1, <1>2, <1>4, DoInlineKeeps
<1>5. QED BY <1>1, <1>3, <1>4

-----------------------------------------------------------------------------
(* The thread of a pool takes the first task of its queue, which leaves    *)
(* the waiting as it was but if the task is the one that T0 waits for.     *)
HeadIs(a, q, u, r) ==
  /\ u \in Tasks /\ MayHave(a, u) /\ r \in Seq(Tasks)
  /\ Len(q) \in Nat /\ Len(q) >= 1 /\ Len(r) = Len(q) - 1
  /\ \A i \in 1 .. Len(q) - 1 : i + 1 \in 1 .. Len(q) /\ r[i] = q[i + 1]
  /\ \A i \in 1 .. Len(q) - 1 : MayHave(a, r[i])
  /\ u.sync <=> awaiting = a /\ Len(q) = 1
  /\ \A i \in 1 .. Len(q) - 1 : r[i].sync <=> awaiting = a /\ i = Len(q) - 1

LEMMA HeadTaken ==
  ASSUME PInv, NEW a \in Algos, NEW q \in Seq(Tasks), q = queue[a], q # <<>>
  PROVE  HeadIs(a, q, Head(q), Tail(q))
<1>1. PoolOK(a) /\ WaitOK(a)
  BY DEF PInv
<1>2. /\ Len(q) \in Nat /\ Len(q) >= 1 /\ Len(Tail(q)) = Len(q) - 1 /\ Head(q) = q[1]
      /\ \A i \in 1 .. Len(q) - 1 : i + 1 \in 1 .. Len(q) /\ Tail(q)[i] = q[i + 1]
      /\ Head(q) \in Tasks /\ Tail(q) \in Seq(Tasks) /\ 1 \in 1 .. Len(q)
  OBVIOUS
<1>3. \A i \in 1 .. Len(q) : MayHave(a, q[i]) /\ (q[i].sync <=> awaiting = a /\ i = Len(q))
  BY <1>1 DEF PoolOK, WaitOK
<1> DEFINE r == Tail(q)
<1> HIDE DEF r
<1>4. \A i \in 1 .. Len(q) - 1 :
        MayHave(a, r[i]) /\ (r[i].sync <=> awaiting = a /\ i = Len(q) - 1)
  <2> SUFFICES ASSUME NEW i \in 1 .. Len(q) - 1
               PROVE  MayHave(a, r[i]) /\ (r[i].sync <=> awaiting = a /\ i = Len(q) - 1)
    OBVIOUS
  <2>1. i + 1 \in 1 .. Len(q) /\ r[i] = q[i + 1]
    BY <1>2 DEF r
  <2>2. MayHave(a, q[i + 1]) /\ (q[i + 1].sync <=> awaiting = a /\ i + 1 = Len(q))
    BY <1>3, <2>1
  <2>3. i + 1 = Len(q) <=> i = Len(q) - 1
    BY <1>2
  <2>4. QED BY <2>1, <2>2, <2>3
<1>5. MayHave(a, Head(q)) /\ (Head(q).sync <=> awaiting = a /\ Len(q) = 1)
  BY <1>2, <1>3
<1>6. QED BY <1>2, <1>4, <1>5 DEF HeadIs, r

LEMMA ApplyKeeps ==
  ASSUME PInv, OneTickAtMost, NEW a \in Algos, Apply(a)
  PROVE  PInv'
<1>1. PoolOK(a) /\ WaitOK(a) /\ (~debug => SeesOK(a)) /\ a # 0
  BY AlgosArePositive DEF PInv
<1>2. PICK q \in Seq(Tasks) : q = queue[a] /\ q # <<>>
  BY <1>1 DEF PoolOK, Apply, MayRun
<1> DEFINE u == Head(q)
           r == Tail(q)
<1>3. /\ u \in Tasks /\ MayHave(a, u) /\ r \in Seq(Tasks)
      /\ Len(q) \in Nat /\ Len(q) >= 1 /\ Len(r) = Len(q) - 1
      /\ \A i \in 1 .. Len(q) - 1 : i + 1 \in 1 .. Len(q) /\ r[i] = q[i + 1]
      /\ \A i \in 1 .. Len(q) - 1 : MayHave(a, r[i])
      /\ u.sync <=> awaiting = a /\ Len(q) = 1
      /\ \A i \in 1 .. Len(q) - 1 : r[i].sync <=> awaiting = a /\ i = Len(q) - 1
  <2>1. HeadIs(a, q, Head(q), Tail(q))
    BY <1>2, HeadTaken
  <2>2. QED BY <2>1 DEF HeadIs
<1>4. /\ ~IsTick(u) /\ Domains /\ MainOK /\ CallsOK /\ (debug => awaiting = 0)
      /\ book' = [book EXCEPT ![a] = Done(@, u)]
      /\ queue' = [queue EXCEPT ![a] = Tail(@)]
      /\ awaiting' = IF u.sync THEN 0 ELSE awaiting
      /\ UNCHANGED <<mainVars, running, pool, working, raised, ticked>>
  BY <1>2 DEF PInv, Apply
<1>5. running[a] = <<>>
  <2>1. Len(running[a]) < 1
    BY DEF Apply, MayRun, PoolSize
  <2>2. QED BY <2>1 DEF OneTickAtMost
<1>6. /\ u.kind # "session" /\ u.symbol \in SymbolsOf[a]
      /\ Done(book[a], u) \in BooksOf(SymbolsOf[a]) /\ book[a] \in BooksOf(SymbolsOf[a])
  <2>1. u.kind # "session" /\ u.symbol \in SymbolsOf[a]
    BY <1>3, <1>4 DEF MayHave, TaskOK, IsTick
  <2>2. book[a] \in BooksOf(SymbolsOf[a])
    BY <1>1 DEF PoolOK
  <2>3. QED BY <1>3, <2>1, <2>2, DoneKeeps
<1>7. queue'[a] = r /\ book'[a] = Done(book[a], u)
  BY <1>2, <1>4 DEF Domains
<1>8. TicksIn(r) = TicksIn(q)
  <2>1. TicksIn(q) = TicksIn(r) + IF IsTick(u) THEN 1 ELSE 0
    BY <1>2, TicksInFewer
  <2>2. TicksIn(r) \in Nat
    BY <1>2, TicksInFewer
  <2>3. QED BY <1>4, <2>1, <2>2
<1>9. ASSUME ~debug PROVE SeesOK(a)'
  <2>1. SeesOK(a)
    BY <1>1, <1>9
  <2>2. \A t : running'[a] # <<t>>
    BY <1>4, <1>5
  <2>3. ASSUME NEW i \in 1 .. Len(r), r[i].kind = "tick"
        PROVE  Leaves(Done(book[a], u), r, i - 1, r[i].symbol, r[i].message)
    <3>1. i + 1 \in 1 .. Len(q) /\ i \in 1 .. Len(q) /\ r[i] = q[i + 1] /\ (i + 1) - 1 = i
      <4> HIDE DEF r
      <4>1. i \in 1 .. Len(q) - 1
        BY <1>3
      <4>2. QED BY <1>3, <4>1
    <3>2. Leaves(book[a], q, i, r[i].symbol, r[i].message)
      BY <1>2, <2>1, <2>3, <3>1 DEF SeesOK
    <3>3. r[i].symbol \in SymbolsOf[a]
      <4>1. MayHave(a, r[i])
        BY <1>3
      <4>2. QED BY <2>3, <4>1 DEF MayHave, TaskOK
    <3>4. QED BY <1>2, <1>6, <3>1, <3>2, <3>3, LeavesFewer
  <2>4. ASSUME NEW s \in SymbolsOf[a], ~Unapplied(a, s)'
        PROVE  Leaves(Done(book[a], u), r, Len(r), s, latest'[s])
    <3>1. ~Unapplied(a, s) /\ latest' = latest
      BY <1>4, <2>4 DEF Unapplied, mainVars
    <3>2. Leaves(book[a], q, Len(q), s, latest[s])
      BY <1>2, <2>1, <3>1 DEF SeesOK
    <3>3. Len(q) \in 1 .. Len(q)
      BY <1>3
    <3>4. QED BY <1>2, <1>3, <1>6, <3>1, <3>2, <3>3, LeavesFewer
  <2>5. QED BY <1>7, <2>2, <2>3, <2>4 DEF SeesOK
<1> HIDE DEF u, r
<1>10. MainOK' /\ CallsOK' /\ Domains' /\ (debug' => awaiting' = 0)
  <2>1. MainOK' /\ (debug' => awaiting' = 0)
    BY <1>4 DEF MainOK, mainVars
  <2>2. CallsOK'
    BY <1>4 DEF CallsOK, mainVars
  <2>3. Domains'
    BY <1>4 DEF Domains
  <2>4. QED BY <2>1, <2>2, <2>3
<1>11. PoolOK(a)'
  <2>1. book'[a] \in BooksOf(SymbolsOf[a]) /\ queue'[a] \in Seq(Tasks)
    BY <1>3, <1>6, <1>7
  <2>2. \A i \in 1 .. Len(queue'[a]) : MayHave(a, queue'[a][i])
    BY <1>3, <1>7
  <2>3. TicksIn(queue'[a]) = TicksIn(queue[a])
    BY <1>2, <1>7, <1>8
  <2>4. QED BY <1>1, <1>4, <2>1, <2>2, <2>3 DEF PoolOK
<1>12. WaitOK(a)'
  <2>1. CASE u.sync
    <3>1. Len(r) = 0 /\ awaiting' = 0
      BY <1>3, <1>4, <2>1
    <3>2. QED BY <1>1, <1>7, <3>1 DEF WaitOK
  <2>2. CASE ~u.sync
    <3>1. awaiting' = awaiting
      BY <1>4, <2>2
    <3>2. awaiting = a => Len(r) # 0
      BY <1>3, <2>2
    <3>3. awaiting' = a => queue'[a] # <<>>
      BY <1>7, <3>1, <3>2
    <3>4. \A i \in 1 .. Len(r) : r[i].sync <=> awaiting' = a /\ i = Len(r)
      BY <1>3, <3>1
    <3>5. QED BY <1>7, <3>3, <3>4 DEF WaitOK
  <2>3. QED BY <2>1, <2>2
<1>13. ASSUME NEW b \in Algos, b # a
       PROVE  PoolOK(b)' /\ WaitOK(b)' /\ (~debug' => SeesOK(b)')
  <2>1. PoolOK(b) /\ WaitOK(b) /\ (~debug => SeesOK(b)) /\ b # 0
    BY AlgosArePositive DEF PInv
  <2>2. queue'[b] = queue[b] /\ book'[b] = book[b]
    BY <1>4, <1>13 DEF Domains
  <2>3. PoolOK(b)'
    BY <1>4, <2>1, <2>2 DEF PoolOK
  <2>4. awaiting' = b <=> awaiting = b
    BY <1>3, <1>4, <1>13, <2>1
  <2>5. WaitOK(b)'
    BY <2>1, <2>2, <2>4 DEF WaitOK
  <2>6. SeesOK(b) => SeesOK(b)'
    BY <1>4, <2>2 DEF SeesOK, Unapplied, mainVars
  <2>7. QED BY <1>4, <2>1, <2>3, <2>5, <2>6 DEF mainVars
<1>14. QED BY <1>4, <1>9, <1>10, <1>11, <1>12, <1>13 DEF PInv, mainVars

LEMMA TickBeginKeeps ==
  ASSUME PInv, OneTickAtMost, NEW a \in Algos, TickBegin(a)
  PROVE  PInv'
<1>1. PoolOK(a) /\ WaitOK(a) /\ (~debug => SeesOK(a)) /\ a # 0
  BY AlgosArePositive DEF PInv
<1>2. PICK q \in Seq(Tasks) : q = queue[a] /\ q # <<>>
  BY <1>1 DEF PoolOK, TickBegin, MayRun
<1> DEFINE u == Head(q)
           r == Tail(q)
<1>3. /\ u \in Tasks /\ MayHave(a, u) /\ r \in Seq(Tasks)
      /\ Len(q) \in Nat /\ Len(q) >= 1 /\ Len(r) = Len(q) - 1
      /\ \A i \in 1 .. Len(q) - 1 : i + 1 \in 1 .. Len(q) /\ r[i] = q[i + 1]
      /\ \A i \in 1 .. Len(q) - 1 : MayHave(a, r[i])
      /\ u.sync <=> awaiting = a /\ Len(q) = 1
      /\ \A i \in 1 .. Len(q) - 1 : r[i].sync <=> awaiting = a /\ i = Len(q) - 1
  <2>1. HeadIs(a, q, Head(q), Tail(q))
    BY <1>2, HeadTaken
  <2>2. QED BY <2>1 DEF HeadIs
<1>4. /\ IsTick(u) /\ Domains /\ MainOK /\ CallsOK /\ (debug => awaiting = 0)
      /\ running' = [running EXCEPT ![a] = Append(@, u)]
      /\ queue' = [queue EXCEPT ![a] = Tail(@)]
      /\ UNCHANGED <<mainVars, awaiting, book, pool, working, raised, ticked>>
  BY <1>2 DEF PInv, TickBegin
<1>5. running[a] = <<>> /\ running'[a] = <<u>>
  <2>1. Len(running[a]) < 1
    BY DEF TickBegin, MayRun, PoolSize
  <2>2. running[a] = <<>>
    BY <2>1 DEF OneTickAtMost
  <2>3. Append(running[a], u) = <<u>>
    BY <2>2
  <2>4. QED BY <1>4, <2>2, <2>3 DEF Domains
<1>6. Done(book[a], u) = book[a] /\ book[a] \in BooksOf(SymbolsOf[a])
  <2>1. book[a] \in BooksOf(SymbolsOf[a])
    BY <1>1 DEF PoolOK
  <2>2. QED BY <1>3, <1>4, <2>1, DoneKeeps
<1>7. queue'[a] = r /\ book' = book /\ ~u.sync
  BY <1>2, <1>3, <1>4 DEF Domains, MayHave
<1>8. TicksIn(q) = TicksIn(r) + 1 /\ TicksIn(r) \in Nat
  <2>1. TicksIn(q) = TicksIn(r) + IF IsTick(u) THEN 1 ELSE 0
    BY <1>2, TicksInFewer
  <2>2. TicksIn(r) \in Nat
    BY <1>2, TicksInFewer
  <2>3. QED BY <1>4, <2>1, <2>2
<1>9. ASSUME ~debug PROVE SeesOK(a)'
  <2>1. SeesOK(a)
    BY <1>1, <1>9
  <2>2. ASSUME NEW t, running'[a] = <<t>>, t.kind = "tick"
        PROVE  book[a][t.symbol].version = t.message
    <3>1. t = u /\ u = q[1] /\ 1 \in 1 .. Len(q) /\ 1 - 1 = 0 /\ 1 .. 0 = {}
      BY <1>2, <1>3, <1>5, <2>2
    <3>2. Leaves(book[a], q, 0, u.symbol, u.message)
      BY <1>2, <2>1, <2>2, <3>1 DEF SeesOK
    <3>3. QED BY <3>1, <3>2 DEF Leaves
  <2>3. ASSUME NEW i \in 1 .. Len(r), r[i].kind = "tick"
        PROVE  Leaves(book[a], r, i - 1, r[i].symbol, r[i].message)
    <3>1. i + 1 \in 1 .. Len(q) /\ i \in 1 .. Len(q) /\ r[i] = q[i + 1] /\ (i + 1) - 1 = i
      <4> HIDE DEF r
      <4>1. i \in 1 .. Len(q) - 1
        BY <1>3
      <4>2. QED BY <1>3, <4>1
    <3>2. Leaves(book[a], q, i, r[i].symbol, r[i].message)
      BY <1>2, <2>1, <2>3, <3>1 DEF SeesOK
    <3>3. r[i].symbol \in SymbolsOf[a]
      <4>1. MayHave(a, r[i])
        BY <1>3
      <4>2. QED BY <2>3, <4>1 DEF MayHave, TaskOK
    <3>4. Leaves(Done(book[a], u), r, i - 1, r[i].symbol, r[i].message)
      BY <1>2, <1>6, <3>1, <3>2, <3>3, LeavesFewer
    <3>5. QED BY <1>6, <3>4
  <2>4. ASSUME NEW s \in SymbolsOf[a], ~Unapplied(a, s)'
        PROVE  Leaves(book[a], r, Len(r), s, latest'[s])
    <3>1. ~Unapplied(a, s) /\ latest' = latest
      BY <1>4, <2>4 DEF Unapplied, mainVars
    <3>2. Leaves(book[a], q, Len(q), s, latest[s])
      BY <1>2, <2>1, <3>1 DEF SeesOK
    <3>3. Len(q) \in 1 .. Len(q)
      BY <1>3
    <3>4. Leaves(Done(book[a], u), r, Len(q) - 1, s, latest[s])
      BY <1>2, <1>6, <3>2, <3>3, LeavesFewer
    <3>5. QED BY <1>3, <1>6, <3>1, <3>4
  <2>5. QED BY <1>7, <2>2, <2>3, <2>4 DEF SeesOK
<1> HIDE DEF u, r
<1>10. MainOK' /\ CallsOK' /\ Domains' /\ (debug' => awaiting' = 0)
  <2>1. MainOK' /\ (debug' => awaiting' = 0)
    BY <1>4 DEF MainOK, mainVars
  <2>2. CallsOK'
    BY <1>4 DEF CallsOK, mainVars
  <2>3. Domains'
    BY <1>4 DEF Domains
  <2>4. QED BY <2>1, <2>2, <2>3
<1>11. PoolOK(a)'
  <2>1. book'[a] \in BooksOf(SymbolsOf[a]) /\ queue'[a] \in Seq(Tasks)
    BY <1>3, <1>6, <1>7
  <2>2. \A i \in 1 .. Len(queue'[a]) : MayHave(a, queue'[a][i])
    BY <1>3, <1>7
  <2>3. \E t : running'[a] = <<t>> /\ MayHave(a, t) /\ IsTick(t)
    BY <1>3, <1>4, <1>5
  <2>4. /\ Len(raised[a]) = Len(ticked[a]) + 0 + (TicksIn(r) + 1)
        /\ Len(ticked[a]) \in Nat /\ raised[a] \in Seq(Nat) /\ ticked[a] \in Seq(Nat)
    BY <1>1, <1>2, <1>5, <1>8 DEF PoolOK, Busy
  <2>5. Busy(running'[a]) = 1
    BY <1>5 DEF Busy
  <2>6. Len(raised[a]) = Len(ticked[a]) + 1 + TicksIn(r)
    BY <1>8, <2>4, OneTaken
  <2>7. /\ Len(raised'[a]) = Len(ticked'[a]) + Busy(running'[a]) + TicksIn(queue'[a])
        /\ raised'[a] \in Seq(Nat) /\ ticked'[a] \in Seq(Nat)
    BY <1>4, <1>7, <2>4, <2>5, <2>6
  <2>8. QED BY <2>1, <2>2, <2>3, <2>7 DEF PoolOK
<1>12. WaitOK(a)'
  <2>1. awaiting' = awaiting
    BY <1>4
  <2>2. awaiting = a => Len(r) # 0
    BY <1>3, <1>7
  <2>3. awaiting' = a => queue'[a] # <<>>
    BY <1>7, <2>1, <2>2
  <2>4. \A i \in 1 .. Len(r) : r[i].sync <=> awaiting' = a /\ i = Len(r)
    BY <1>3, <2>1
  <2>5. QED BY <1>7, <2>3, <2>4 DEF WaitOK
<1>13. ASSUME NEW b \in Algos, b # a
       PROVE  PoolOK(b)' /\ WaitOK(b)' /\ (~debug' => SeesOK(b)')
  <2>1. PoolOK(b) /\ WaitOK(b) /\ (~debug => SeesOK(b))
    BY DEF PInv
  <2>2. queue'[b] = queue[b] /\ running'[b] = running[b] /\ book' = book
    BY <1>4, <1>13 DEF Domains
  <2>3. PoolOK(b)' /\ WaitOK(b)'
    BY <1>4, <2>1, <2>2 DEF PoolOK, WaitOK
  <2>4. SeesOK(b) => SeesOK(b)'
    BY <1>4, <2>2 DEF SeesOK, Unapplied, mainVars
  <2>5. QED BY <1>4, <2>1, <2>3, <2>4 DEF mainVars
<1>14. QED BY <1>4, <1>9, <1>10, <1>11, <1>12, <1>13 DEF PInv, mainVars

(* A tick that ends saw the book of its message, unless there is _DEBUG.   *)
LEMMA TickEndIs ==
  ASSUME PInv, NEW a \in Algos, TickEnd(a)
  PROVE  \E t : /\ running[a] = <<t>> /\ MayHave(a, t) /\ IsTick(t)
                /\ running'[a] = <<>> /\ ticked'[a] = Append(ticked[a], Saw(book[a], t))
                /\ Saw(book[a], t) \in Nat /\ (~debug => Saw(book[a], t) = t.message)
<1>1. PoolOK(a) /\ (~debug => SeesOK(a)) /\ Domains
  BY DEF PInv
<1>2. /\ running[a] # <<>> /\ running' = [running EXCEPT ![a] = Tail(@)]
      /\ ticked' = [ticked EXCEPT ![a] = Append(@, Saw(book[a], Head(running[a])))]
  BY DEF TickEnd
<1>3. PICK t : running[a] = <<t>> /\ MayHave(a, t) /\ IsTick(t)
  BY <1>1, <1>2 DEF PoolOK
<1>4. Head(<<t>>) = t /\ Tail(<<t>>) = <<>>
  <2>1. /\ <<t>> \in Seq({t}) /\ Len(<<t>>) = 1 /\ <<t>>[1] = t
        /\ Tail(<<t>>) \in Seq({t}) /\ Len(Tail(<<t>>)) = 0
    OBVIOUS
  <2>2. QED BY <2>1
<1>5. running'[a] = <<>> /\ ticked'[a] = Append(ticked[a], Saw(book[a], t))
  BY <1>1, <1>2, <1>3, <1>4 DEF Domains
<1>6. t.message \in Nat /\ (t.kind = "session" \/ (t.kind = "tick" /\ t.symbol \in SymbolsOf[a]))
  BY <1>3 DEF MayHave, Tasks, TaskOK, IsTick
<1>7. Saw(book[a], t) \in Nat
  <2>1. book[a] \in BooksOf(SymbolsOf[a])
    BY <1>1 DEF PoolOK
  <2>2. QED BY <1>6, <2>1 DEF Saw, BooksOf
<1>8. ~debug => Saw(book[a], t) = t.message
  BY <1>1, <1>3, <1>6 DEF SeesOK, Saw
<1>9. QED BY <1>3, <1>5, <1>7, <1>8

LEMMA TickEndKeeps ==
  ASSUME PInv, OneTickAtMost, NEW a \in Algos, TickEnd(a)
  PROVE  PInv'
<1>1. /\ Domains /\ MainOK /\ CallsOK /\ (debug => awaiting = 0) /\ running[a] # <<>>
      /\ running' = [running EXCEPT ![a] = Tail(@)]
      /\ ticked' = [ticked EXCEPT ![a] = Append(@, Saw(book[a], Head(running[a])))]
      /\ UNCHANGED <<mainVars, awaiting, book, queue, pool, working, raised>>
  BY DEF PInv, TickEnd
<1>2. PICK v \in Nat : running'[a] = <<>> /\ ticked'[a] = Append(ticked[a], v)
  BY TickEndIs
<1>3. MainOK' /\ CallsOK' /\ Domains' /\ (debug' => awaiting' = 0)
  BY <1>1 DEF MainOK, CallsOK, Domains, mainVars
<1>4. PoolOK(a)' /\ WaitOK(a)' /\ (~debug' => SeesOK(a)')
  <2>1. PoolOK(a) /\ WaitOK(a) /\ (~debug => SeesOK(a))
    BY DEF PInv
  <2>2. PoolOK(a)'
    <3>1. Busy(running[a]) = 1 /\ Busy(running'[a]) = 0
      BY <1>1, <1>2 DEF Busy
    <3>2. TicksIn(queue[a]) \in Nat
      BY <2>1, TicksType DEF PoolOK, TicksIn
    <3>3. /\ raised[a] \in Seq(Nat) /\ ticked[a] \in Seq(Nat) /\ Len(ticked[a]) \in Nat
          /\ Len(raised[a]) = Len(ticked[a]) + 1 + TicksIn(queue[a])
      BY <2>1, <3>1 DEF PoolOK
    <3>4. ticked'[a] \in Seq(Nat) /\ Len(ticked'[a]) = Len(ticked[a]) + 1
      BY <1>2, <3>3
    <3>5. /\ raised'[a] \in Seq(Nat)
          /\ Len(raised'[a]) = Len(ticked'[a]) + Busy(running'[a]) + TicksIn(queue'[a])
      BY <1>1, <3>1, <3>2, <3>3, <3>4
    <3>6. QED BY <1>1, <1>2, <2>1, <3>4, <3>5 DEF PoolOK
  <2>3. WaitOK(a)'
    BY <1>1, <2>1 DEF WaitOK
  <2>4. \A t : running'[a] # <<t>>
    BY <1>2
  <2>5. SeesOK(a) => SeesOK(a)'
    BY <1>1, <2>4 DEF SeesOK, Unapplied, mainVars
  <2>6. QED BY <1>1, <2>1, <2>2, <2>3, <2>5 DEF mainVars
<1>5. ASSUME NEW b \in Algos, b # a
      PROVE  PoolOK(b)' /\ WaitOK(b)' /\ (~debug' => SeesOK(b)')
  <2>1. PoolOK(b) /\ WaitOK(b) /\ (~debug => SeesOK(b))
    BY DEF PInv
  <2>2. running'[b] = running[b] /\ ticked'[b] = ticked[b]
    BY <1>1, <1>5 DEF Domains
  <2>3. PoolOK(b)' /\ WaitOK(b)'
    BY <1>1, <2>1, <2>2 DEF PoolOK, WaitOK
  <2>4. SeesOK(b) => SeesOK(b)'
    BY <1>1, <2>2 DEF SeesOK, Unapplied, mainVars
  <2>5. QED BY <1>1, <2>1, <2>3, <2>4 DEF mainVars
<1>6. QED BY <1>1, <1>3, <1>4, <1>5 DEF PInv, mainVars

-----------------------------------------------------------------------------
LEMMA PInvKept ==
  ASSUME PInv, OneTickAtMost, [Next]_vars
  PROVE  PInv'
<1>1. CASE \E kind \in Kinds, s \in Symbols : Receive(kind, s)
  BY <1>1, ReceiveKeeps
<1>2. CASE \E a \in Algos : \E s \in SymbolsOf[a] : Query(a, s)
  BY <1>2, QueryKeeps
<1>3. CASE Call
  BY <1>3, CallKeeps
<1>4. CASE EndOfData \/ EndOfSession \/ UNCHANGED vars \/ \E a \in Algos : Delete(a) \/ Stop(a) \/ Start(a)
  BY <1>4, QuietSteps
<1>5. ASSUME NEW a \in Algos, Apply(a) PROVE PInv'
  BY <1>5, ApplyKeeps
<1>6. ASSUME NEW a \in Algos, TickBegin(a) PROVE PInv'
  BY <1>6, TickBeginKeeps
<1>7. ASSUME NEW a \in Algos, TickEnd(a) PROVE PInv'
  BY <1>7, TickEndKeeps
<1>8. QED BY <1>1, <1>2, <1>3, <1>4, <1>5, <1>6, <1>7 DEF Next, Main, Thread

LEMMA AlwaysPInv == Spec => [](PInv /\ OneTickAtMost)
<1>1. Init => PInv /\ OneTickAtMost
  BY InitPInv DEF Init, OneTickAtMost
<1>2. PInv /\ OneTickAtMost /\ [Next]_vars => PInv' /\ OneTickAtMost'
  BY PInvKept, OneTickKept
<1>3. QED BY <1>1, <1>2, PTL DEF Spec

(* The variables have the types that the code gives them, and no algorithm *)
(* has done more ticks than were raised (order_book_agent.cpp:26-118,      *)
(* bist_algo_base.h:78-88).                                                *)
THEOREM TypeCorrect == Spec => []TypeOK
<1>1. ASSUME PInv PROVE TypeOK
  <2>1. MainOK /\ CallsOK
    BY <1>1 DEF PInv
  <2>2. \A c \in todo : c.algo \in Algos /\ TaskOK(c.algo, c.task)
    BY <2>1 DEF CallsOK, MayHave
  <2>3. ASSUME NEW a \in Algos
        PROVE  /\ book[a] \in [SymbolsOf[a] -> [version : Nat, timestamp : Nat]]
               /\ \A i \in DOMAIN queue[a] : TaskOK(a, queue[a][i])
               /\ \A i \in DOMAIN running[a] :
                    TaskOK(a, running[a][i]) /\ IsTick(running[a][i])
               /\ pool[a] \in {"open", "joined", "destroyed"}
               /\ working[a] \in BOOLEAN
               /\ raised[a] \in Seq(Nat) /\ ticked[a] \in Seq(Nat)
               /\ Len(ticked[a]) <= Len(raised[a])
    <3>1. PoolOK(a)
      BY <1>1 DEF PInv
    <3>2. book[a] \in [SymbolsOf[a] -> [version : Nat, timestamp : Nat]]
      BY <3>1 DEF PoolOK, BooksOf
    <3>3. \A i \in DOMAIN queue[a] : TaskOK(a, queue[a][i])
      <4>1. queue[a] \in Seq(Tasks) /\ \A i \in 1 .. Len(queue[a]) : MayHave(a, queue[a][i])
        BY <3>1 DEF PoolOK
      <4>2. DOMAIN queue[a] = 1 .. Len(queue[a])
        BY <4>1
      <4>3. QED BY <4>1, <4>2 DEF MayHave
    <3>4. \A i \in DOMAIN running[a] : TaskOK(a, running[a][i]) /\ IsTick(running[a][i])
      <4>1. CASE running[a] = <<>>
        BY <4>1
      <4>2. ASSUME NEW t, running[a] = <<t>>, MayHave(a, t), IsTick(t)
            PROVE  \A i \in DOMAIN running[a] : TaskOK(a, running[a][i]) /\ IsTick(running[a][i])
        <5>1. \A i \in DOMAIN <<t>> : i = 1
          OBVIOUS
        <5>2. <<t>>[1] = t
          OBVIOUS
        <5>3. \A i \in DOMAIN running[a] : running[a][i] = t
          BY <4>2, <5>1, <5>2
        <5>4. QED BY <4>2, <5>3 DEF MayHave
      <4>3. QED BY <3>1, <4>1, <4>2 DEF PoolOK
    <3>5. /\ raised[a] \in Seq(Nat) /\ ticked[a] \in Seq(Nat)
          /\ Len(ticked[a]) <= Len(raised[a])
      <4>1. TicksIn(queue[a]) \in Nat /\ Busy(running[a]) \in Nat
        BY <3>1, TicksType DEF PoolOK, Busy, TicksIn
      <4>2. /\ Len(raised[a]) = Len(ticked[a]) + Busy(running[a]) + TicksIn(queue[a])
            /\ raised[a] \in Seq(Nat) /\ ticked[a] \in Seq(Nat)
        BY <3>1 DEF PoolOK
      <4>3. Len(raised[a]) \in Nat /\ Len(ticked[a]) \in Nat
        BY <4>2
      <4>4. QED BY <4>1, <4>2, <4>3
    <3>6. QED BY <2>1, <3>2, <3>3, <3>4, <3>5 DEF MainOK
  <2>4. QED BY <2>1, <2>2, <2>3 DEF TypeOK, MainOK
<1>2. PInv => TypeOK
  BY <1>1
<1>3. QED BY <1>2, AlwaysPInv, PTL

(* A tick sees the book exactly as its message left it, from its beginning *)
(* to its end: with every message up to that one applied and no later one, *)
(* however far T0 is ahead (bist_algo_base.h:26, 78-88,                    *)
(* order_book_agent.cpp).                                                  *)
TickSeesItsMessage ==
  \A a \in Algos : \A i \in DOMAIN running[a] :
    LET tick == running[a][i]
    IN  ~debug /\ tick.kind = "tick" => book[a][tick.symbol].version = tick.message

(* So it is in every build but those with _DEBUG.                          *)
THEOREM TicksSee == Spec => []TickSeesItsMessage
<1>1. ASSUME PInv PROVE TickSeesItsMessage
  <2> SUFFICES ASSUME NEW a \in Algos, NEW i \in DOMAIN running[a],
                      ~debug, running[a][i].kind = "tick"
               PROVE  book[a][running[a][i].symbol].version = running[a][i].message
    BY DEF TickSeesItsMessage
  <2>1. PoolOK(a) /\ SeesOK(a)
    BY <1>1 DEF PInv
  <2>2. PICK t : running[a] = <<t>>
    <3>1. running[a] # <<>>
      OBVIOUS
    <3>2. QED BY <2>1, <3>1 DEF PoolOK
  <2>3. running[a][i] = t
    <3>1. \A j \in DOMAIN <<t>> : j = 1
      OBVIOUS
    <3>2. <<t>>[1] = t
      OBVIOUS
    <3>3. QED BY <2>2, <3>1, <3>2
  <2>4. QED BY <2>1, <2>2, <2>3 DEF SeesOK
<1>2. PInv => TickSeesItsMessage
  BY <1>1
<1>3. QED BY <1>2, AlwaysPInv, PTL

(* When T0 goes on after an execution or a query, the pool has done all    *)
(* that T0 asked it for before, and the books are those of the last        *)
(* message if that was its last call (order_book_agent.cpp:105-183,        *)
(* 196-370).                                                               *)
THEOREM ResultsDone == Spec => ResultMeansDone
<1>1. ASSUME PInv, PInv', OneTickAtMost, [Next]_vars, NEW a \in Algos, awaiting = a, awaiting' # a
      PROVE  /\ queue'[a] = <<>>
             /\ todo = {} => \A s \in SymbolsOf[a] : book'[a][s].version = latest[s]
  <2>1. a # 0 /\ ~debug
    BY <1>1, AlgosArePositive DEF PInv
  <2>2. Apply(a)
    <3>1. \E b \in Algos : Apply(b)
      <4>1. CASE \E kind \in Kinds, s \in Symbols : Receive(kind, s)
        BY <1>1, <2>1, <4>1 DEF Receive, AtRest
      <4>2. CASE \E b \in Algos : \E s \in SymbolsOf[b] : Query(b, s)
        BY <1>1, <2>1, <4>2 DEF Query, AtRest
      <4>3. CASE Call
        BY <1>1, <2>1, <4>3 DEF Call
      <4>4. CASE EndOfData \/ EndOfSession
        BY <1>1, <2>1, <4>4 DEF EndOfData, EndOfSession, AtRest
      <4>5. CASE \E b \in Algos : Delete(b) \/ Stop(b) \/ Start(b) \/ TickBegin(b) \/ TickEnd(b)
        BY <1>1, <4>5 DEF Delete, Stop, Start, TickBegin, TickEnd
      <4>6. CASE UNCHANGED vars
        BY <1>1, <4>6 DEF vars
      <4>7. QED BY <1>1, <4>1, <4>2, <4>3, <4>4, <4>5, <4>6 DEF Next, Main, Thread
    <3>2. PICK b \in Algos : Apply(b)
      BY <3>1
    <3>3. PoolOK(b) /\ queue[b] # <<>>
      BY <1>1, <3>2 DEF PInv, Apply, MayRun
    <3>4. PICK q \in Seq(Tasks) : q = queue[b] /\ q # <<>>
      BY <3>3 DEF PoolOK
    <3>5. Head(q).sync
      BY <1>1, <3>2, <3>4 DEF Apply
    <3>6. Head(q).sync <=> awaiting = b /\ Len(q) = 1
      BY <1>1, <3>4, HeadTaken DEF HeadIs
    <3>7. QED BY <1>1, <3>2, <3>5, <3>6
  <2>3. PoolOK(a) /\ queue[a] # <<>>
    BY <1>1, <2>2 DEF PInv, Apply, MayRun
  <2>4. PICK q \in Seq(Tasks) : q = queue[a] /\ q # <<>>
    BY <2>3 DEF PoolOK
  <2>5. Head(q).sync /\ queue'[a] = Tail(q)
    BY <1>1, <2>2, <2>4 DEF Apply, PInv, Domains
  <2>6. Len(Tail(q)) = 0 /\ Tail(q) \in Seq(Tasks)
    <3>1. Len(q) = 1
      BY <1>1, <2>4, <2>5, HeadTaken DEF HeadIs
    <3>2. QED BY <2>4, <3>1
  <2>7. queue'[a] = <<>>
    BY <2>5, <2>6
  <2>8. ASSUME todo = {}, NEW s \in SymbolsOf[a] PROVE book'[a][s].version = latest[s]
    <3>1. todo' = {} /\ latest' = latest /\ debug' = debug
      BY <2>2, <2>8 DEF Apply, mainVars
    <3>2. SeesOK(a)'
      BY <1>1, <2>1, <3>1 DEF PInv
    <3>3. ~Unapplied(a, s)'
      BY <3>1 DEF Unapplied
    <3>4. Leaves(book'[a], <<>>, Len(<<>>), s, latest[s])
      BY <2>7, <3>1, <3>2, <3>3 DEF SeesOK
    <3>5. Len(<<>>) = 0 /\ 1 .. 0 = {}
      OBVIOUS
    <3>6. QED BY <3>4, <3>5 DEF Leaves
  <2>9. QED BY <2>7, <2>8
<1>2. PInv /\ PInv' /\ OneTickAtMost /\ [Next]_vars =>
        [\A a \in Algos : awaiting = a /\ awaiting' # a =>
           /\ queue'[a] = <<>>
           /\ todo = {} => \A s \in SymbolsOf[a] : book'[a][s].version = latest[s]]_vars
  BY <1>1
<1>3. QED BY <1>2, AlwaysPInv, PTL DEF Spec, ResultMeansDone

(* "Messages from T0 are put on the event loop of the algorithm's thread   *)
(* and handled in T1" (bist_algo_base.h:26): so it is unless the build has *)
(* _DEBUG, whose run violates it.                                          *)
THEOREM PoolsWrite ==
  Spec => [][\A a \in Algos : ~debug /\ book'[a] # book[a] => Apply(a)]_vars
<1>1. ASSUME PInv, [Next]_vars, NEW a \in Algos, ~debug, book'[a] # book[a]
      PROVE  Apply(a)
  <2>1. ~Main
    BY <1>1, MainWritesInDebugOnly
  <2>2. \A b \in Algos : ~(TickBegin(b) \/ TickEnd(b) \/ Stop(b) \/ Start(b))
    BY <1>1 DEF TickBegin, TickEnd, Stop, Start, poolVars
  <2>3. ~(UNCHANGED vars)
    BY <1>1 DEF vars
  <2>4. PICK b \in Algos : Apply(b)
    BY <1>1, <2>1, <2>2, <2>3 DEF Next, Thread
  <2>5. b # a => book'[a] = book[a]
    BY <1>1, <2>4 DEF Apply, PInv, Domains
  <2>6. QED BY <1>1, <2>4, <2>5
<1>2. PInv /\ [Next]_vars =>
        [\A a \in Algos : ~debug /\ book'[a] # book[a] => Apply(a)]_vars
  BY <1>1
<1>3. QED BY <1>2, AlwaysPInv, PTL DEF Spec

-----------------------------------------------------------------------------
(* The ticks of an algorithm stand in line: the one it is in is for the    *)
(* event after those of the n ticks that it has done, and those in its     *)
(* queue q are for the events that follow, in their order.                 *)
InLine(q, r, n, e) ==
  /\ \A t : r = <<t>> => e[n + 1] = t.message
  /\ \A i \in 1 .. Len(q) :
       IsTick(q[i]) => e[n + Busy(r) + TicksUpTo(q, i)] = q[i].message

Lined(a) == InLine(queue[a], running[a], Len(ticked[a]), raised[a])

LEMMA InLineMore ==
  ASSUME NEW q \in Seq(Tasks), NEW u \in Tasks, NEW r, NEW n \in Nat, NEW e \in Seq(Nat),
         Len(e) = n + Busy(r) + TicksIn(q), InLine(q, r, n, e)
  PROVE  InLine(Append(q, u), r, n, IF IsTick(u) THEN Append(e, u.message) ELSE e)
<1> DEFINE p == Append(q, u)
           k == Len(q)
           f == IF IsTick(u) THEN Append(e, u.message) ELSE e
<1>1. /\ k \in Nat /\ Len(p) = k + 1 /\ p[k + 1] = u
      /\ \A i \in 1 .. k : p[i] = q[i]
  OBVIOUS
<1>2. TicksIn(q) \in Nat /\ Busy(r) \in Nat /\ u.message \in Nat
  BY <1>1, TicksType DEF TicksIn, Busy, Tasks
<1>3. \A j \in 1 .. Len(e) : f[j] = e[j]
  BY <1>2
<1>4. IsTick(u) => f[Len(e) + 1] = u.message
  BY <1>2
<1>5. /\ \A i \in 1 .. k : TicksUpTo(p, i) = TicksUpTo(q, i)
      /\ TicksIn(p) = TicksIn(q) + IF IsTick(u) THEN 1 ELSE 0
  BY TicksSame, TicksMore
<1>6. Len(e) \in Nat
  OBVIOUS
<1> HIDE DEF p, k, f
<1>7. ASSUME NEW t, r = <<t>> PROVE f[n + 1] = t.message
  <2>1. Busy(r) = 1
    BY <1>7 DEF Busy
  <2>2. n + 1 \in 1 .. Len(e)
    BY <1>2, <2>1
  <2>3. QED BY <1>3, <1>7, <2>2 DEF InLine
<1>8. ASSUME NEW i \in 1 .. k, IsTick(p[i])
      PROVE  f[n + Busy(r) + TicksUpTo(p, i)] = p[i].message
  <2>1. IsTick(q[i]) /\ i \in Nat /\ i \in 1 .. i /\ i \in 0 .. k
    BY <1>1, <1>8
  <2>2. TicksUpTo(q, i) \in Nat /\ 1 <= TicksUpTo(q, i) /\ TicksUpTo(q, i) <= TicksIn(q)
    BY <1>1, <2>1, TicksType, TicksOrdered DEF TicksIn, k
  <2>3. n + Busy(r) + TicksUpTo(q, i) \in 1 .. Len(e)
    BY <1>2, <1>6, <2>2
  <2>4. e[n + Busy(r) + TicksUpTo(q, i)] = q[i].message
    BY <2>1 DEF InLine, k
  <2>5. QED BY <1>1, <1>3, <1>5, <2>3, <2>4
<1>9. ASSUME IsTick(p[k + 1])
      PROVE  f[n + Busy(r) + TicksUpTo(p, k + 1)] = p[k + 1].message
  <2>1. IsTick(u)
    BY <1>1, <1>9
  <2>2. TicksUpTo(p, k + 1) = TicksIn(q) + 1
    BY <1>1, <1>5, <2>1 DEF TicksIn
  <2>3. n + Busy(r) + TicksUpTo(p, k + 1) = Len(e) + 1
    BY <1>2, <2>2
  <2>4. QED BY <1>1, <1>4, <2>1, <2>3
<1>10. \A i \in 1 .. Len(p) : i \in 1 .. k \/ i = k + 1
  BY <1>1
<1>11. InLine(p, r, n, f)
  BY <1>7, <1>8, <1>9, <1>10 DEF InLine
<1>12. QED BY <1>11 DEF p, f

LEMMA InLineFewer ==
  ASSUME NEW q \in Seq(Tasks), q # <<>>, NEW n \in Nat, NEW e, InLine(q, <<>>, n, e)
  PROVE  IF IsTick(Head(q)) THEN InLine(Tail(q), <<Head(q)>>, n, e)
                            ELSE InLine(Tail(q), <<>>, n, e)
<1> DEFINE u == Head(q)
           p == Tail(q)
           one == IF IsTick(u) THEN 1 ELSE 0
<1>1. /\ Len(q) \in Nat /\ Len(q) >= 1 /\ Len(p) = Len(q) - 1 /\ u = q[1]
      /\ \A i \in 1 .. Len(p) : p[i] = q[i + 1]
  OBVIOUS
<1>2. \A i \in 0 .. Len(q) - 1 : TicksUpTo(q, i + 1) = TicksUpTo(p, i) + one
  BY TicksFewer
<1>3. Busy(<<>>) = 0 /\ Busy(<<u>>) = 1
  BY DEF Busy
<1> HIDE DEF u, p
<1>4. one \in Nat
  OBVIOUS
<1>5. \A i \in 1 .. Len(q) : IsTick(q[i]) => e[n + TicksUpTo(q, i)] = q[i].message
  <2>1. \A i \in 1 .. Len(q) : n + Busy(<<>>) + TicksUpTo(q, i) = n + TicksUpTo(q, i)
    BY <1>3
  <2>2. QED BY <2>1 DEF InLine
<1>6. ASSUME NEW i \in 1 .. Len(p), IsTick(p[i])
      PROVE  e[n + one + TicksUpTo(p, i)] = p[i].message
  <2>1. i \in 0 .. Len(q) - 1 /\ i + 1 \in 1 .. Len(q) /\ i \in Nat
    BY <1>1
  <2>2. TicksUpTo(p, i) \in Nat
    BY <2>1, TicksType
  <2>3. n + one + TicksUpTo(p, i) = n + TicksUpTo(q, i + 1)
    BY <1>2, <1>4, <2>1, <2>2
  <2>4. IsTick(q[i + 1]) /\ p[i] = q[i + 1]
    BY <1>1, <1>6
  <2>5. QED BY <1>5, <2>1, <2>3, <2>4
<1>7. CASE IsTick(u)
  <2>1. one = 1
    BY <1>7
  <2>2. e[n + 1] = u.message
    <3>1. TicksUpTo(p, 0) = 0
      <4>1. TickPlaces(p, 0) = {}
        BY DEF TickPlaces
      <4>2. QED BY <4>1, FS_EmptySet DEF TicksUpTo
    <3>2. 0 \in 0 .. Len(q) - 1 /\ 0 + 1 = 1 /\ 1 \in 1 .. Len(q)
      BY <1>1
    <3>3. TicksUpTo(q, 1) = 1
      BY <1>2, <2>1, <3>1, <3>2
    <3>4. QED BY <1>1, <1>5, <1>7, <3>2, <3>3
  <2>3. \A t : <<u>> = <<t>> => t = u
    OBVIOUS
  <2>4. \A i \in 1 .. Len(p) : IsTick(p[i]) => e[n + Busy(<<u>>) + TicksUpTo(p, i)] = p[i].message
    BY <1>3, <1>6, <2>1
  <2>5. InLine(p, <<u>>, n, e)
    BY <2>2, <2>3, <2>4 DEF InLine
  <2>6. QED BY <1>7, <2>5 DEF u, p
<1>8. CASE ~IsTick(u)
  <2>1. one = 0
    BY <1>8
  <2>2. \A t : <<>> # <<t>>
    OBVIOUS
  <2>3. \A i \in 1 .. Len(p) : IsTick(p[i]) => e[n + Busy(<<>>) + TicksUpTo(p, i)] = p[i].message
    BY <1>3, <1>6, <2>1
  <2>4. InLine(p, <<>>, n, e)
    BY <2>2, <2>3 DEF InLine
  <2>5. QED BY <1>8, <2>4 DEF u, p
<1>9. QED BY <1>7, <1>8

LEMMA InLineEnd ==
  ASSUME NEW q \in Seq(Tasks), NEW n \in Nat, NEW e, NEW t, InLine(q, <<t>>, n, e)
  PROVE  e[n + 1] = t.message /\ InLine(q, <<>>, n + 1, e)
<1>1. Busy(<<>>) = 0 /\ Busy(<<t>>) = 1 /\ \A v : <<>> # <<v>>
  BY DEF Busy
<1>2. \A i \in 1 .. Len(q) :
        /\ TicksUpTo(q, i) \in Nat
        /\ n + Busy(<<t>>) + TicksUpTo(q, i) = (n + 1) + Busy(<<>>) + TicksUpTo(q, i)
  BY <1>1, TicksType
<1>3. QED BY <1>1, <1>2 DEF InLine

-----------------------------------------------------------------------------
(* Every step that leaves the queues, the ticks and the events as they are *)
(* leaves the line as it is.                                               *)
LEMMA LinedInit == Init => \A a \in Algos : Lined(a)
<1> SUFFICES ASSUME Init, NEW a \in Algos PROVE Lined(a)
  OBVIOUS
<1>1. queue[a] = <<>> /\ running[a] = <<>>
  BY DEF Init
<1>2. Len(<<>>) = 0 /\ \A t : <<>> # <<t>>
  OBVIOUS
<1>3. QED BY <1>1, <1>2 DEF Lined, InLine

LEMMA LinedSame ==
  ASSUME NEW a, Lined(a),
         queue'[a] = queue[a], running'[a] = running[a],
         ticked'[a] = ticked[a], raised'[a] = raised[a]
  PROVE  Lined(a)'
BY DEF Lined

(* What the steps of a pool's thread do to what the event loop shows, and  *)
(* that they leave every algorithm's ticks in line.                        *)
AllLined == \A a \in Algos : Lined(a)

TickedShown == [a \in Algos |-> IF debug THEN <<>> ELSE ticked[a]]

LEMMA LoopsNext ==
  /\ Loops!Init <=> /\ raised = [a \in Algos |-> <<>>]
                    /\ TickedShown = [a \in Algos |-> <<>>]
  /\ \A a, m : Loops!Raise(a, m) <=> /\ raised' = [raised EXCEPT ![a] = Append(@, m)]
                                     /\ TickedShown' = TickedShown
  /\ \A a : Loops!Tick(a) <=>
       /\ Len(TickedShown[a]) < Len(raised[a])
       /\ TickedShown' = [TickedShown EXCEPT ![a] = Append(@, raised[a][Len(@) + 1])]
       /\ UNCHANGED raised
BY DEF Loops!Init, Loops!Raise, Loops!Tick, TickedShown

ShowsAStep == Loops!Next \/ UNCHANGED <<raised, TickedShown>>

(* A call raises an event if it posts a tick.                              *)
LEMMA PostShows ==
  ASSUME PInv, AllLined, NEW c \in todo, Post(c), debug' = debug
  PROVE  AllLined' /\ ShowsAStep
<1> DEFINE h == c.algo
           u == c.task
<1>1. /\ h \in Algos /\ u \in Tasks /\ Domains
      /\ queue' = [queue EXCEPT ![h] = Append(@, u)]
      /\ raised' = IF IsTick(u) THEN [raised EXCEPT ![h] = Append(@, u.message)] ELSE raised
      /\ running' = running /\ ticked' = ticked
  BY DEF PInv, CallsOK, MayHave, Post
<1> HIDE DEF h, u
<1>2. TickedShown' = TickedShown
  BY <1>1 DEF TickedShown
<1>3. ASSUME NEW a \in Algos, a # h PROVE Lined(a)'
  <2>1. queue'[a] = queue[a] /\ raised'[a] = raised[a]
    BY <1>1, <1>3 DEF Domains
  <2>2. QED BY <1>1, <2>1, LinedSame DEF AllLined
<1>4. Lined(h)'
  <2>1. PoolOK(h) /\ Lined(h)
    BY <1>1 DEF PInv, AllLined
  <2>2. /\ queue[h] \in Seq(Tasks) /\ Len(ticked[h]) \in Nat /\ raised[h] \in Seq(Nat)
        /\ Len(raised[h]) = Len(ticked[h]) + Busy(running[h]) + TicksIn(queue[h])
    BY <2>1 DEF PoolOK
  <2>3. InLine(Append(queue[h], u), running[h], Len(ticked[h]),
               IF IsTick(u) THEN Append(raised[h], u.message) ELSE raised[h])
    BY <1>1, <2>1, <2>2, InLineMore DEF Lined
  <2>4. /\ queue'[h] = Append(queue[h], u)
        /\ raised'[h] = IF IsTick(u) THEN Append(raised[h], u.message) ELSE raised[h]
    BY <1>1 DEF Domains
  <2>5. QED BY <1>1, <2>3, <2>4 DEF Lined
<1>5. ShowsAStep
  <2>1. CASE IsTick(u)
    <3>1. u.message \in 0 .. MaxMessages
      BY <1>1 DEF Tasks
    <3>2. Loops!Raise(h, u.message)
      BY <1>1, <1>2, <2>1, LoopsNext
    <3>3. QED BY <1>1, <3>1, <3>2 DEF ShowsAStep, Loops!Next
  <2>2. CASE ~IsTick(u)
    BY <1>1, <1>2, <2>2 DEF ShowsAStep
  <2>3. QED BY <2>1, <2>2
<1>6. QED BY <1>3, <1>4, <1>5 DEF AllLined

(* A pool that takes a task shows nothing.                                 *)
LEMMA TakeShows ==
  ASSUME PInv, OneTickAtMost, AllLined, NEW a \in Algos, Apply(a) \/ TickBegin(a)
  PROVE  AllLined' /\ ShowsAStep
<1>1. PoolOK(a) /\ Domains /\ Lined(a)
  BY DEF PInv, AllLined
<1>2. PICK q \in Seq(Tasks) : q = queue[a] /\ q # <<>>
  BY <1>1 DEF PoolOK, Apply, TickBegin, MayRun
<1>3. /\ queue' = [queue EXCEPT ![a] = Tail(@)]
      /\ UNCHANGED <<debug, ticked, raised>>
      /\ running' = IF IsTick(Head(q)) THEN [running EXCEPT ![a] = Append(@, Head(q))]
                                       ELSE running
  BY <1>2 DEF Apply, TickBegin, mainVars
<1>4. running[a] = <<>>
  <2>1. Len(running[a]) < 1
    BY DEF Apply, TickBegin, MayRun, PoolSize
  <2>2. QED BY <2>1 DEF OneTickAtMost
<1>5. Lined(a)'
  <2>1. Len(ticked[a]) \in Nat
    BY <1>1 DEF PoolOK
  <2>2. IF IsTick(Head(q)) THEN InLine(Tail(q), <<Head(q)>>, Len(ticked[a]), raised[a])
                           ELSE InLine(Tail(q), <<>>, Len(ticked[a]), raised[a])
    BY <1>1, <1>2, <1>4, <2>1, InLineFewer DEF Lined
  <2>3. Append(<<>>, Head(q)) = <<Head(q)>>
    OBVIOUS
  <2>4. /\ queue'[a] = Tail(q)
        /\ running'[a] = IF IsTick(Head(q)) THEN <<Head(q)>> ELSE <<>>
    BY <1>1, <1>2, <1>3, <1>4, <2>3 DEF Domains
  <2>5. QED BY <1>3, <2>2, <2>4 DEF Lined
<1>6. ASSUME NEW b \in Algos, b # a PROVE Lined(b)'
  <2>1. queue'[b] = queue[b] /\ running'[b] = running[b]
    BY <1>1, <1>3, <1>6 DEF Domains
  <2>2. QED BY <1>3, <2>1, LinedSame DEF AllLined
<1>7. ShowsAStep
  BY <1>3 DEF ShowsAStep, TickedShown
<1>8. QED BY <1>5, <1>6, <1>7 DEF AllLined

(* A tick that ends handles the event that is next, and saw the book as    *)
(* its message left it; nothing is shown of it if the build has _DEBUG.    *)
LEMMA TickEndShows ==
  ASSUME PInv, AllLined, NEW a \in Algos, TickEnd(a)
  PROVE  AllLined' /\ ShowsAStep
<1>1. PICK t : /\ running[a] = <<t>> /\ running'[a] = <<>>
               /\ ticked'[a] = Append(ticked[a], Saw(book[a], t))
               /\ Saw(book[a], t) \in Nat /\ (~debug => Saw(book[a], t) = t.message)
  BY TickEndIs
<1>2. PoolOK(a) /\ Domains /\ Lined(a)
  BY DEF PInv, AllLined
<1>3. /\ UNCHANGED <<debug, queue, raised>>
      /\ running' = [running EXCEPT ![a] = Tail(@)]
      /\ ticked' = [ticked EXCEPT ![a] = Append(@, Saw(book[a], Head(running[a])))]
  BY DEF TickEnd, mainVars
<1>4. /\ queue[a] \in Seq(Tasks) /\ ticked[a] \in Seq(Nat) /\ Len(ticked[a]) \in Nat
      /\ Len(ticked'[a]) = Len(ticked[a]) + 1
      /\ Len(raised[a]) = Len(ticked[a]) + 1 + TicksIn(queue[a])
  <2>1. Busy(running[a]) = 1
    BY <1>1 DEF Busy
  <2>2. QED BY <1>1, <1>2, <2>1 DEF PoolOK
<1>5. /\ raised[a][Len(ticked[a]) + 1] = t.message
      /\ InLine(queue[a], <<>>, Len(ticked[a]) + 1, raised[a])
  BY <1>1, <1>2, <1>4, InLineEnd DEF Lined
<1>6. Lined(a)'
  BY <1>1, <1>3, <1>4, <1>5 DEF Lined
<1>7. ASSUME NEW b \in Algos, b # a PROVE Lined(b)'
  <2>1. running'[b] = running[b] /\ ticked'[b] = ticked[b]
    BY <1>2, <1>3, <1>7 DEF Domains
  <2>2. QED BY <1>3, <2>1, LinedSame DEF AllLined
<1>8. ASSUME debug PROVE ShowsAStep
  BY <1>3, <1>8 DEF ShowsAStep, TickedShown
<1>9. ASSUME ~debug PROVE ShowsAStep
  <2>1. TickedShown = [b \in Algos |-> ticked[b]] /\ TickedShown' = [b \in Algos |-> ticked'[b]]
    BY <1>3, <1>9 DEF TickedShown
  <2>2. ticked'[a] = Append(ticked[a], raised[a][Len(ticked[a]) + 1])
    BY <1>1, <1>5, <1>9
  <2>3. \A b \in Algos : b # a => ticked'[b] = ticked[b]
    BY <1>2, <1>3 DEF Domains
  <2>4. TickedShown' = [TickedShown EXCEPT ![a] = Append(@, raised[a][Len(@) + 1])]
    BY <2>1, <2>2, <2>3
  <2>5. Len(ticked[a]) < Len(raised[a])
    <3>1. TicksIn(queue[a]) \in Nat
      BY <1>4, TicksType DEF TicksIn
    <3>2. QED BY <1>4, <3>1
  <2>6. Loops!Tick(a)
    BY <1>3, <2>1, <2>4, <2>5, LoopsNext
  <2>7. QED BY <2>6 DEF ShowsAStep, Loops!Next
<1>10. QED BY <1>6, <1>7, <1>8, <1>9 DEF AllLined

LEMMA QuietShows ==
  ASSUME AllLined, UNCHANGED <<debug, queue, running, ticked, raised>>
  PROVE  AllLined' /\ ShowsAStep
<1>1. AllLined'
  BY LinedSame DEF AllLined
<1>2. ShowsAStep
  BY DEF ShowsAStep, TickedShown
<1>3. QED BY <1>1, <1>2

LEMMA StepShows ==
  ASSUME PInv, OneTickAtMost, AllLined, [Next]_vars
  PROVE  AllLined' /\ ShowsAStep
<1>1. CASE \E kind \in Kinds, s \in Symbols : Receive(kind, s)
  BY <1>1, QuietShows DEF Receive, poolVars
<1>2. CASE \E a \in Algos : \E s \in SymbolsOf[a] : Query(a, s)
  BY <1>2, QuietShows DEF Query, poolVars
<1>3. CASE Call
  <2>1. PICK c \in todo : Post(c) \/ DoInline(c)
    BY <1>3 DEF Call
  <2>2. debug' = debug
    BY <1>3 DEF Call
  <2>3. QED BY <2>1, <2>2, PostShows, QuietShows DEF DoInline
<1>4. CASE EndOfData \/ EndOfSession
  BY <1>4, QuietShows DEF EndOfData, EndOfSession, poolVars
<1>5. ASSUME NEW a \in Algos, Delete(a) \/ Stop(a) \/ Start(a) PROVE AllLined' /\ ShowsAStep
  BY <1>5, QuietShows DEF Delete, Stop, Start, mainVars, poolVars
<1>6. ASSUME NEW a \in Algos, Apply(a) \/ TickBegin(a) PROVE AllLined' /\ ShowsAStep
  BY <1>6, TakeShows
<1>7. ASSUME NEW a \in Algos, TickEnd(a) PROVE AllLined' /\ ShowsAStep
  BY <1>7, TickEndShows
<1>8. CASE UNCHANGED vars
  BY <1>8, QuietShows DEF vars
<1>9. QED BY <1>1, <1>2, <1>3, <1>4, <1>5, <1>6, <1>7, <1>8 DEF Next, Main, Thread

(* For an algorithm it is as if it ran in T0: its ticks come in the order  *)
(* of its events, one for each, and each sees the book as the message of   *)
(* its event left it, unless the build has _DEBUG (bist_algo_base.h:26,    *)
(* 78-88, order_book_agent.cpp:26-118).                                    *)
THEOREM EventsInStep == Spec => HandlesEventsInStep
<1>1. Init => AllLined /\ Loops!Init
  <2>1. Init => TickedShown = [a \in Algos |-> <<>>]
    BY DEF Init, TickedShown
  <2>2. QED BY <2>1, LinedInit, LoopsNext DEF Init, AllLined
<1>2. PInv /\ OneTickAtMost /\ AllLined /\ [Next]_vars =>
        AllLined' /\ [Loops!Next]_<<raised, TickedShown>>
  BY StepShows DEF ShowsAStep
<1>3. QED
  BY <1>1, <1>2, AlwaysPInv, PTL DEF Spec, HandlesEventsInStep, Loops!Spec, TickedShown

=============================================================================
