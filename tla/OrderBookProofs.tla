--------------------------- MODULE OrderBookProofs ---------------------------
(* That the calls OrderBook makes keep its book consistent, and that it    *)
(* implements ExchangeBook.                                                *)
EXTENDS OrderBook, OrderBookOpsProofs

(* The inductive invariant of the specification.                           *)
IInv ==
  /\ Consistent(book)
  /\ execution \in Executions
  /\ ReportsLevel(book, execution)

LEMMA NoExecutionFits ==
  NoExecution \in Executions /\ \A b : ReportsLevel(b, NoExecution)
BY ModulusAssumption DEF NoExecution, Executions, ReportsLevel, Word

LEMMA InitInv == Init => IInv
BY EmptyConsistent, NoExecutionFits DEF IInv, Init

LEMMA NextInv == IInv /\ [Next]_vars => IInv'
<1> SUFFICES ASSUME IInv, [Next]_vars PROVE IInv'
  OBVIOUS
<1>1. \A q \in Quantities : q \in Word \ {0} /\ q \in Nat
  BY QuantityAssumption, ModulusAssumption DEF Word
<1>2. ASSUME Consistent(book'), execution' = NoExecution PROVE IInv'
  BY <1>2, NoExecutionFits DEF IInv
<1>3. ASSUME NEW i \in Ids, NEW s \in Sides, NEW p \in Prices, NEW q \in Quantities,
             Add(i, s, p, q)
      PROVE  IInv'
  <2>1. Consistent(book')
    BY <1>1, <1>3, AddConsistent DEF Add, IInv
  <2>2. QED BY <1>2, <1>3, <2>1 DEF Add
<1>4. ASSUME NEW i \in Ids, NEW n \in Ids, NEW s \in Sides, NEW p \in Prices,
             NEW q \in Quantities, Replace(i, n, s, p, q)
      PROVE  IInv'
  <2>1. PICK b \in RemoveOrder(book, i) : book' = AddOrder(b, n, s, p, q)
    BY <1>4 DEF Replace, ReplaceOrder
  <2>2. Consistent(b) /\ MayAdd(b, n, s, p, q)
    BY <1>4, RemoveConsistent DEF Replace, IInv
  <2>3. Consistent(book')
    BY <1>1, <2>1, <2>2, AddConsistent
  <2>4. QED BY <1>2, <1>4, <2>3 DEF Replace
<1>5. ASSUME NEW i \in Ids, NEW q \in Quantities, Cancel(i, q) PROVE IInv'
  <2>1. Consistent(book')
    BY <1>1, <1>5, CancelConsistent DEF Cancel, MayTake, IInv
  <2>2. QED BY <1>2, <1>5, <2>1 DEF Cancel
<1>6. ASSUME NEW i \in Ids, NEW q \in Quantities, Execute(i, q) PROVE IInv'
  <2>1. PICK r \in ExecuteOrder(book, i, q) : book' = r.book /\ execution' = r.execution
    BY <1>6 DEF Execute
  <2>2. /\ Consistent(r.book) /\ r.execution \in Executions
        /\ ReportsLevel(r.book, r.execution)
    BY <1>1, <1>6, ExecuteConsistent DEF Execute, MayTake, IInv
  <2>3. QED BY <2>1, <2>2 DEF IInv
<1>7. ASSUME NEW i \in Ids, Remove(i) PROVE IInv'
  <2>1. Consistent(book')
    BY <1>7, RemoveConsistent DEF Remove, IInv
  <2>2. QED BY <1>2, <1>7, <2>1 DEF Remove
<1>8. CASE UNCHANGED vars
  BY <1>8 DEF vars, IInv
<1>9. QED BY <1>3, <1>4, <1>5, <1>6, <1>7, <1>8 DEF Next

(* The book, in every reachable state, is consistent.                      *)
THEOREM Invariance == Spec => []IInv
<1>1. QED BY InitInv, NextInv, PTL DEF Spec

(* Every book that calls of order_book can lead to, and every result of    *)
(* execute, is well-typed.                                                 *)
THEOREM TypeCorrect == Spec => []TypeOK
<1>1. IInv => TypeOK
  BY DEF IInv, Consistent, Sound, TypeOK
<1>2. QED BY <1>1, Invariance, PTL

(* The levels aggregate the stored orders, for any number of orders, any   *)
(* prices and the full width of the sizes.                                 *)
THEOREM LevelsCorrect == Spec => []LevelsMatchOrders
<1>1. IInv => LevelsMatchOrders
  BY DEF IInv, Consistent, Sound, LevelsMatchOrders
<1>2. QED BY <1>1, Invariance, PTL

(* The raw pointer from an order to its level never dangles.               *)
THEOREM PointersValid == Spec => []NoDanglingLevel
<1>1. IInv => NoDanglingLevel
  BY DEF IInv, Consistent, Sound, NoDanglingLevel
<1>2. QED BY <1>1, Invariance, PTL

(* An execution reports 0 remaining exactly when it cleared its level.     *)
THEOREM SweepCorrect == Spec => []SweepMeansLevelCleared
<1>1. IInv => SweepMeansLevelCleared
  BY DEF IInv, SweepMeansLevelCleared
<1>2. QED BY <1>1, Invariance, PTL

-----------------------------------------------------------------------------
(* The queries by level.                                                   *)

LEMMA PricesAreNumbers == Prices \subseteq Nat
BY PriceAssumption, ModulusAssumption DEF Word

LEMMA PricesAreFinite == IsFiniteSet(Prices) /\ Cardinality(Prices) \in Nat
<1>1. IsFiniteSet(Word)
  BY ModulusAssumption, FS_Interval DEF Word
<1>2. QED BY <1>1, PriceAssumption, FS_Subset, FS_CardinalityType

(* The price that a consistent book has at level n has n better ones, and  *)
(* a price that beats it is not beaten by the price of the level before.   *)
LEMMA LevelsInOrder ==
  ASSUME NEW b, Sound(b), NEW s \in Sides, NEW n \in 0 .. LevelCount(b, s) - 1
  PROVE  /\ PriceOfLevel(b, s, n) \in DOMAIN b.levels[s]
         /\ SizeOfLevel(b, s, n) = Cardinality(Shares(b, s, PriceOfLevel(b, s, n)))
         /\ \A p \in DOMAIN b.levels[s] :
              Before(s, p, PriceOfLevel(b, s, n)) =>
                n > 0 /\ ~Before(s, PriceOfLevel(b, s, n - 1), p)
<1> DEFINE S == DOMAIN b.levels[s]
<1>1. S \subseteq Nat /\ IsFiniteSet(S)
  <2>1. S \subseteq Prices
    BY BookType DEF Sound
  <2>2. QED BY <2>1, PricesAreNumbers, PricesAreFinite, FS_Subset
<1>2. LevelCount(b, s) \in Nat /\ LevelCount(b, s) = Cardinality(S)
  BY <1>1, FS_CardinalityType DEF LevelCount
<1>3. ASSUME NEW m \in 0 .. LevelCount(b, s) - 1
      PROVE  \E p \in S : /\ Rank(S, s, p) = m
                          /\ PriceOfLevel(b, s, m) = p
                          /\ SizeOfLevel(b, s, m) = b.levels[s][p]
  <2>1. PICK p \in S : /\ Rank(S, s, p) = m
                       /\ PricesAt(b, s, m) = {p}
                       /\ LevelAt(b, s, m) = [price |-> p, size |-> b.levels[s][p]]
    BY LevelRanked, PricesAreNumbers
  <2>2. PriceOfLevel(b, s, m) = p /\ SizeOfLevel(b, s, m) = b.levels[s][p]
    BY <2>1 DEF PriceOfLevel, SizeOfLevel
  <2>3. QED BY <2>1, <2>2
<1>4. PICK r \in S : /\ Rank(S, s, r) = n
                     /\ PriceOfLevel(b, s, n) = r
                     /\ SizeOfLevel(b, s, n) = b.levels[s][r]
  BY <1>3
<1>5. b.levels[s][r] = Cardinality(Shares(b, s, r))
  BY DEF Sound, LevelsMatch
<1>6. ASSUME NEW p \in S, Before(s, p, r)
      PROVE  n > 0 /\ ~Before(s, PriceOfLevel(b, s, n - 1), p)
  <2>1. Rank(S, s, p) \in Nat /\ Rank(S, s, p) < n
    <3>1. Rank(S, s, p) \in 0 .. Cardinality(S) - 1 /\ Rank(S, s, p) < Rank(S, s, r)
      BY <1>1, <1>6, RankGrows
    <3>2. QED BY <1>2, <1>4, <3>1
  <2>2. n \in Nat /\ n > 0 /\ n - 1 \in 0 .. LevelCount(b, s) - 1
    BY <1>2, <2>1
  <2>3. PICK q \in S : Rank(S, s, q) = n - 1 /\ PriceOfLevel(b, s, n - 1) = q
    BY <1>3, <2>2
  <2>4. Before(s, q, p) => Rank(S, s, q) < Rank(S, s, p)
    BY <1>1, RankGrows
  <2>5. QED BY <2>1, <2>2, <2>3, <2>4
<1>7. QED BY <1>4, <1>5, <1>6

(* A level that has a size is there, so its price is one of the side's.    *)
LEMMA LevelWithSize ==
  ASSUME NEW b, Sound(b), NEW s \in Sides, NEW n \in Nat, SizeOfLevel(b, s, n) # 0
  PROVE  PriceOfLevel(b, s, n) \in Prices
<1>1. LevelCount(b, s) \in Nat
  BY LevelRanked, PricesAreNumbers
<1>2. n < LevelCount(b, s)
  <2>1. n >= LevelCount(b, s) => LevelAt(b, s, n) = [price |-> 0, size |-> 0]
    BY LevelRanked, PricesAreNumbers
  <2>2. QED BY <1>1, <2>1 DEF SizeOfLevel
<1>3. PriceOfLevel(b, s, n) \in DOMAIN b.levels[s]
  BY <1>1, <1>2, LevelsInOrder
<1>4. QED BY <1>3, BookType DEF Sound

(* The middle of two prices that add up to a word is between them.         *)
LEMMA MiddleIsBetween ==
  ASSUME NEW x \in Word, NEW y \in Word, x <= y, x + y < Modulus
  PROVE  Plus(x, y) \div 2 \in x .. y
<1>1. x \in Nat /\ y \in Nat /\ Modulus \in Nat \ {0}
  BY ModulusAssumption DEF Word
<1>2. Plus(x, y) = x + y
  BY <1>1 DEF Plus
<1>3. (x + y) \div 2 \in x .. y
  BY <1>1
<1>4. QED BY <1>2, <1>3

(* Whoever asks for a level, its price, its size or its midprice is told   *)
(* what the stored orders say, however many levels there are.              *)
THEOREM QueriesCorrect == Spec => []QueriesTellOrders
<1>1. ASSUME IInv PROVE QueriesTellOrders
  <2>1. Sound(book)
    BY <1>1 DEF IInv, Consistent
  <2>2. ASSUME NEW s \in Sides
        PROVE  {book.orders[i].price : i \in {j \in DOMAIN book.orders :
                                                book.orders[j].side = s}}
                 = DOMAIN book.levels[s]
    <3>1. \A i \in DOMAIN book.orders : book.orders[i].price \in Prices
      BY <2>1, BookType DEF Sound, Orders
    <3>2. DOMAIN book.levels[s] = {p \in Prices : StoredAt(book, s, p) # {}}
      BY <2>1 DEF Sound, LevelsMatch
    <3>3. QED BY <3>1, <3>2 DEF StoredAt
  <2>3. ASSUME NEW s \in Sides
        PROVE  /\ LevelCount(book, s) \in Nat
               /\ LevelAt(book, s, LevelCount(book, s)) = [price |-> 0, size |-> 0]
    BY <2>1, LevelRanked, PricesAreNumbers
  <2>4. ASSUME NEW n \in 0 .. Cardinality(Prices) - 1,
               SizeOfLevel(book, "buy", n) # 0, SizeOfLevel(book, "sell", n) # 0,
               PriceOfLevel(book, "buy", n) <= PriceOfLevel(book, "sell", n),
               PriceOfLevel(book, "buy", n) + PriceOfLevel(book, "sell", n) < Modulus
        PROVE  Midprice(book, n) \in PriceOfLevel(book, "buy", n)
                                        .. PriceOfLevel(book, "sell", n)
    <3>1. n \in Nat
      BY PricesAreFinite
    <3>2. PriceOfLevel(book, "buy", n) \in Word /\ PriceOfLevel(book, "sell", n) \in Word
      BY <2>1, <2>4, <3>1, LevelWithSize, PriceAssumption DEF Sides
    <3>3. QED BY <2>4, <3>2, MiddleIsBetween DEF Midprice
  <2>5. ASSUME NEW s \in Sides, NEW p, NEW r
        PROVE  (IF s = "buy" THEN p > r ELSE p < r) <=> Before(s, p, r)
    BY DEF Before
  <2>6. \A s \in Sides : LevelCount(book, s) = Cardinality(DOMAIN book.levels[s])
    BY DEF LevelCount
  <2>7. ASSUME NEW s \in Sides, NEW n \in 0 .. Cardinality(DOMAIN book.levels[s]) - 1
        PROVE  /\ PriceOfLevel(book, s, n) \in DOMAIN book.levels[s]
               /\ SizeOfLevel(book, s, n)
                    = Cardinality(Shares(book, s, PriceOfLevel(book, s, n)))
               /\ \A p \in DOMAIN book.levels[s] :
                    Before(s, p, PriceOfLevel(book, s, n)) =>
                      n > 0 /\ ~Before(s, PriceOfLevel(book, s, n - 1), p)
    BY <2>1, <2>6, LevelsInOrder
  <2>8. SUFFICES ASSUME NEW s \in Sides
                 PROVE  QueriesTellOrders!(s)
    BY DEF QueriesTellOrders
  <2> DEFINE offered == {book.orders[i].price : i \in {j \in DOMAIN book.orders :
                                                       book.orders[j].side = s}}
             At(n)   == PriceOfLevel(book, s, n)
             Beats(p, r) == IF s = "buy" THEN p > r ELSE p < r
  <2>9. offered = DOMAIN book.levels[s]
    BY <2>2
  <2> HIDE DEF offered
  <2>10. LevelCount(book, s) = Cardinality(offered)
    BY <2>6, <2>9
  <2>11. \A n \in 0 .. Cardinality(offered) - 1 :
           /\ At(n) \in offered
           /\ SizeOfLevel(book, s, n) = Cardinality(Shares(book, s, At(n)))
           /\ \A p \in offered : Beats(p, At(n)) => n > 0 /\ ~Beats(At(n - 1), p)
    BY <2>7, <2>9 DEF Before
  <2>12. LevelAt(book, s, Cardinality(offered)) = [price |-> 0, size |-> 0]
    BY <2>3, <2>10
  <2>13. \A n \in 0 .. Cardinality(Prices) - 1 :
           LET bid == PriceOfLevel(book, "buy", n)
               ask == PriceOfLevel(book, "sell", n)
           IN  /\ SizeOfLevel(book, "buy", n) # 0 /\ SizeOfLevel(book, "sell", n) # 0
               /\ bid <= ask /\ bid + ask < Modulus
               => Midprice(book, n) \in bid .. ask
    BY <2>4
  <2>14. QED BY <2>10, <2>11, <2>12, <2>13 DEF offered
<1>2. QED BY <1>1, Invariance, PTL

-----------------------------------------------------------------------------
(* That OrderBook implements ExchangeBook.                                 *)

(* Both modules mean the same by the cardinality of a set.                 *)
LEMMA SameCardinality == ASSUME NEW S PROVE Exchange!Cardinality(S) = Cardinality(S)
BY DEF Exchange!Cardinality, Cardinality

(* The exchange counts as many shares at a price as the book has there.    *)
LEMMA SharesCounted ==
  ASSUME NEW b, Sound(b), NEW s \in Sides, NEW p
  PROVE  Exchange!Total(Exchange!At(RestingOf(b), s, p)) = Cardinality(Shares(b, s, p))
<1> DEFINE S == Shares(b, s, p)
           O == Exchange!At(RestingOf(b), s, p)
           T == UNION {{o} \X (1 .. o.quantity) : o \in O}
           F == [x \in S |-> <<OrderAt(b, x[1]), x[2]>>]
<1>1. \A i \in DOMAIN b.orders : /\ b.orders[i].quantity \in Nat
                                 /\ b.orders[i].quantity < Modulus
  BY QuantityIsWord DEF Sound
<1>2. O = {OrderAt(b, i) : i \in StoredAt(b, s, p)}
  BY DEF Exchange!At, RestingOf, OrderAt, StoredAt
<1>3. \A x : x \in S <=> /\ x = <<x[1], x[2]>>
                         /\ x[1] \in StoredAt(b, s, p)
                         /\ x[2] \in 1 .. b.orders[x[1]].quantity
  <2>1. \A i \in StoredAt(b, s, p) : i \in DOMAIN b.orders
    BY DEF StoredAt
  <2>2. \A i \in StoredAt(b, s, p) : \A k :
           k \in 1 .. b.orders[i].quantity
             <=> k \in 1 .. Modulus /\ k <= b.orders[i].quantity
    BY <1>1, <2>1, ModulusAssumption
  <2>3. QED BY <2>2 DEF Shares
<1>4. \A y : y \in T <=> \E i \in StoredAt(b, s, p) :
                            /\ y = <<OrderAt(b, i), y[2]>>
                            /\ y[2] \in 1 .. b.orders[i].quantity
  <2>1. \A i : OrderAt(b, i).quantity = b.orders[i].quantity
    BY DEF OrderAt
  <2> HIDE DEF O
  <2>2. QED BY <1>2, <2>1
<1> HIDE DEF S, T
<1>5. F \in [S -> T]
  <2>1. ASSUME NEW x \in S PROVE <<OrderAt(b, x[1]), x[2]>> \in T
    BY <1>3, <1>4
  <2>2. QED BY <2>1
<1>6. \A x, y \in S : F[x] = F[y] => x = y
  <2>1. \A i, j : OrderAt(b, i) = OrderAt(b, j) => i = j
    BY DEF OrderAt
  <2>2. QED BY <1>3, <2>1
<1>7. \A y \in T : \E x \in S : F[x] = y
  <2> SUFFICES ASSUME NEW y \in T PROVE \E x \in S : F[x] = y
    OBVIOUS
  <2>1. PICK i \in StoredAt(b, s, p) : /\ y = <<OrderAt(b, i), y[2]>>
                                      /\ y[2] \in 1 .. b.orders[i].quantity
    BY <1>4
  <2>2. <<i, y[2]>> \in S
    BY <1>3, <2>1
  <2>3. F[<<i, y[2]>>] = y
    BY <2>1, <2>2
  <2>4. QED BY <2>2, <2>3
<1>8. F \in Bijection(S, T)
  BY <1>5, <1>6, <1>7, Fun_IsBij
<1>9. IsFiniteSet(S)
  BY SharesFinite DEF S, Sound
<1>10. Cardinality(T) = Cardinality(S)
  BY <1>8, <1>9, FS_Bijection DEF ExistsBijection
<1>11. Exchange!Total(O) = Exchange!Cardinality(T)
  BY DEF T, Exchange!Total
<1>12. QED BY <1>10, <1>11, SameCardinality DEF S

(* So that the depth of those orders is the levels of the book.            *)
LEMMA DepthIsLevels ==
  ASSUME NEW b, Sound(b)
  PROVE  b.levels = Exchange!DepthOf(RestingOf(b))
<1> DEFINE R == RestingOf(b)
           offered(s) == {o.price : o \in {x \in R : x.side = s}}
           row(s) == [p \in offered(s) |-> Exchange!Total(Exchange!At(R, s, p))]
<1>1. ASSUME NEW s \in Sides PROVE b.levels[s] = row(s)
  <2>1. b.levels[s] = [p \in DOMAIN b.levels[s] |-> b.levels[s][p]]
    BY BookType, PartialMember DEF Sound
  <2>2. offered(s) = {p \in Prices : StoredAt(b, s, p) # {}}
    <3>1. \A i \in DOMAIN b.orders : b.orders[i].price \in Prices
      BY QuantityIsWord DEF Sound
    <3>2. {x \in R : x.side = s} = {OrderAt(b, i) : i \in {j \in DOMAIN b.orders :
                                                              b.orders[j].side = s}}
      BY DEF RestingOf, OrderAt
    <3>3. \A i : OrderAt(b, i).price = b.orders[i].price
      BY DEF OrderAt
    <3> HIDE DEF R
    <3>4. \A p : p \in offered(s) <=> \E i \in DOMAIN b.orders :
                                         b.orders[i].side = s /\ b.orders[i].price = p
      BY <3>2, <3>3
    <3>5. \A p \in offered(s) : p \in Prices
      BY <3>1, <3>4
    <3> HIDE DEF offered
    <3>6. QED BY <3>4, <3>5 DEF StoredAt
  <2>3. DOMAIN b.levels[s] = offered(s)
    BY <2>2 DEF Sound, LevelsMatch
  <2>4. \A p \in DOMAIN b.levels[s] :
           b.levels[s][p] = Exchange!Total(Exchange!At(R, s, p))
    BY SharesCounted DEF Sound, LevelsMatch
  <2> HIDE DEF R, offered
  <2>5. QED BY <2>1, <2>3, <2>4
<1>2. b.levels = [s \in Sides |-> b.levels[s]]
  BY BookType DEF Sound
<1>3. b.levels = [s \in Sides |-> row(s)]
  BY <1>1, <1>2
<1>4. QED BY <1>3 DEF Exchange!DepthOf, Exchange!Sides, Sides

-----------------------------------------------------------------------------
(* add adds one whose side and id nothing has.                             *)
LEMMA AddRests ==
  ASSUME NEW b, NEW i, NEW s, NEW p, NEW q, ~HasOrder(b, i), b \in Books
  PROVE  LET n == [side |-> s, id |-> i, price |-> p, quantity |-> q]
         IN  /\ RestingOf(AddOrder(b, i, s, p, q)) = RestingOf(b) \cup {n}
             /\ Exchange!Free(RestingOf(b), s, i)
<1> DEFINE c == AddOrder(b, i, s, p, q)
           order == [side |-> s, price |-> p, quantity |-> q]
<1>1. c.orders = Put(b.orders, i, order)
  <2>1. b = [orders |-> b.orders, levels |-> b.levels, dangling |-> b.dangling]
    BY BookType
  <2>2. QED BY <2>1 DEF AddOrder
<1> HIDE DEF c
<1>2. /\ i \notin DOMAIN b.orders
      /\ DOMAIN c.orders = DOMAIN b.orders \cup {i}
      /\ \A j \in DOMAIN b.orders : c.orders[j] = b.orders[j]
      /\ c.orders[i] = order
  BY <1>1 DEF HasOrder, Put
<1>3. OrderAt(c, i) = [side |-> s, id |-> i, price |-> p, quantity |-> q]
  BY <1>2 DEF OrderAt
<1>4. RestingOf(c) = RestingOf(b) \cup {OrderAt(c, i)}
  BY <1>2, RestingMore
<1>5. Exchange!Free(RestingOf(b), s, i)
  BY <1>2 DEF Exchange!Free, RestingOf, OrderAt
<1>6. QED BY <1>3, <1>4, <1>5 DEF c

-----------------------------------------------------------------------------
(* A step of the book is a step of the exchange's.                         *)
LEMMA StepSimulated ==
  ASSUME IInv, IInv', [Next]_vars
  PROVE  \/ Exchange!Next
         \/ RestingOf(book') = RestingOf(book) /\ book'.levels = book.levels
<1> DEFINE R == RestingOf(book)
           new == [side : Sides, id : Ids, price : Prices, quantity : Quantities]
<1>1. Consistent(book) /\ book \in Books /\ Consistent(book')
  BY DEF IInv, Consistent, Sound
<1>2. \A q \in Quantities : q \in Nat
  BY QuantityAssumption, ModulusAssumption DEF Word
<1>3. RestingOf(book') = {[side |-> book'.orders[i].side, id |-> i,
                           price |-> book'.orders[i].price,
                           quantity |-> book'.orders[i].quantity] : i \in DOMAIN book'.orders}
  BY DEF RestingOf, OrderAt
<1>4. book'.levels = Exchange!DepthOf(RestingOf(book'))
  BY <1>1, DepthIsLevels DEF Consistent
<1>R. R = {[side |-> book.orders[i].side, id |-> i, price |-> book.orders[i].price,
            quantity |-> book.orders[i].quantity] : i \in DOMAIN book.orders}
  BY DEF RestingOf, OrderAt
<1>O. \A i \in DOMAIN book.orders : OrderAt(book, i) \in R
  BY DEF RestingOf
<1> HIDE DEF R
<1>5. ASSUME NEW n \in new, RestingOf(book') = R \cup {n}, Exchange!Free(R, n.side, n.id)
      PROVE  Exchange!Next
  <2>1. Exchange!Enter(n)
    BY <1>3, <1>4, <1>5, <1>R DEF Exchange!Becomes, Exchange!Enter
  <2>2. QED BY <2>1 DEF Exchange!Next, Exchange!Sides, Sides
<1>6. ASSUME NEW o \in R, RestingOf(book') = R \ {o}
      PROVE  Exchange!Next
  <2>1. Exchange!Leave(o)
    BY <1>3, <1>4, <1>6, <1>R DEF Exchange!Becomes, Exchange!Leave
  <2>2. QED BY <1>R, <2>1 DEF Exchange!Next
<1>7. ASSUME NEW o \in R, NEW q \in Quantities, q < o.quantity,
             RestingOf(book') = (R \ {o}) \cup {Reduced(o, q)}
      PROVE  Exchange!Next
  <2>1. Exchange!Reduce(o, q)
    BY <1>3, <1>4, <1>7, <1>R DEF Exchange!Becomes, Exchange!Reduce, Reduced
  <2>2. QED BY <1>R, <2>1 DEF Exchange!Next
<1>8. ASSUME NEW o \in R, NEW n \in new, RestingOf(book') = (R \ {o}) \cup {n},
             Exchange!Free(R \ {o}, n.side, n.id)
      PROVE  Exchange!Next
  <2>1. Exchange!Amend(o, n)
    BY <1>3, <1>4, <1>8, <1>R DEF Exchange!Becomes, Exchange!Amend
  <2>2. QED BY <1>R, <2>1 DEF Exchange!Next, Exchange!Sides, Sides
<1>9. ASSUME NEW i \in Ids, NEW q \in Quantities, MayTake(i, q), HasOrder(book, i),
             book' \in EraseIfSpent(TakenFrom(book, i, q), i)
      PROVE  Exchange!Next
  <2>1. i \in DOMAIN book.orders /\ q \in Nat /\ q <= book.orders[i].quantity
    BY <1>2, <1>9 DEF MayTake, HasOrder
  <2>2. \/ RestingOf(book') = R \ {OrderAt(book, i)}
        \/ /\ q < OrderAt(book, i).quantity
           /\ RestingOf(book') = (R \ {OrderAt(book, i)}) \cup {Reduced(OrderAt(book, i), q)}
    BY <1>1, <1>9, <2>1, TakeReduces DEF R
  <2>3. QED BY <1>6, <1>7, <1>O, <2>1, <2>2
<1>10. ASSUME NEW i \in Ids, NEW s \in Sides, NEW p \in Prices, NEW q \in Quantities,
              Add(i, s, p, q)
       PROVE  Exchange!Next
  <2> DEFINE n == [side |-> s, id |-> i, price |-> p, quantity |-> q]
  <2>1. n \in new /\ n.side = s /\ n.id = i
    OBVIOUS
  <2>2. RestingOf(book') = R \cup {n} /\ Exchange!Free(R, s, i)
    BY <1>1, <1>10, AddRests DEF Add, MayAdd, R
  <2> HIDE DEF n, new
  <2>3. QED BY <1>5, <2>1, <2>2
<1>11. ASSUME NEW i \in Ids, NEW m \in Ids, NEW s \in Sides, NEW p \in Prices,
              NEW q \in Quantities, Replace(i, m, s, p, q)
       PROVE  Exchange!Next
  <2> DEFINE n == [side |-> s, id |-> m, price |-> p, quantity |-> q]
  <2>1. n \in new /\ n.side = s /\ n.id = m
    OBVIOUS
  <2>2. PICK b \in RemoveOrder(book, i) : book' = AddOrder(b, m, s, p, q)
    BY <1>11 DEF Replace, ReplaceOrder
  <2>3. ~HasOrder(b, m) /\ b \in Books
    BY <1>1, <1>11, RemoveConsistent DEF Replace, MayAdd, Consistent, Sound
  <2>4. RestingOf(book') = RestingOf(b) \cup {n} /\ Exchange!Free(RestingOf(b), s, m)
    BY <2>2, <2>3, AddRests
  <2>5. IF HasOrder(book, i) THEN RestingOf(b) = R \ {OrderAt(book, i)} ELSE b = book
    BY <1>1, RemoveRests DEF R
  <2> HIDE DEF n, new
  <2>6. CASE HasOrder(book, i)
    BY <1>8, <1>O, <2>1, <2>4, <2>5, <2>6 DEF HasOrder
  <2>7. CASE ~HasOrder(book, i)
    BY <1>5, <2>1, <2>4, <2>5, <2>7 DEF R
  <2>8. QED BY <2>6, <2>7
<1>12. ASSUME NEW i \in Ids, NEW q \in Quantities, Cancel(i, q)
       PROVE  Exchange!Next \/ book' = book
  <2>1. CASE HasOrder(book, i)
    <3>1. TakeQuantity(book, i, q) = {TakenFrom(book, i, q)}
      BY <1>1, <1>2, <1>12, <2>1, TakeIsTaken DEF Cancel, MayTake, HasOrder
    <3>2. book' \in EraseIfSpent(TakenFrom(book, i, q), i)
      BY <1>12, <2>1, <3>1 DEF Cancel, CancelOrder
    <3>3. QED BY <1>9, <1>12, <2>1, <3>2 DEF Cancel
  <2>2. CASE ~HasOrder(book, i)
    BY <1>12, <2>2 DEF Cancel, CancelOrder
  <2>3. QED BY <2>1, <2>2
<1>13. ASSUME NEW i \in Ids, NEW q \in Quantities, Execute(i, q)
       PROVE  Exchange!Next \/ book' = book
  <2>1. CASE HasOrder(book, i)
    <3>1. TakeQuantity(book, i, q) = {TakenFrom(book, i, q)}
      BY <1>1, <1>2, <1>13, <2>1, TakeIsTaken DEF Execute, MayTake, HasOrder
    <3>2. book' \in EraseIfSpent(TakenFrom(book, i, q), i)
      BY <1>13, <2>1, <3>1 DEF Execute, ExecuteOrder
    <3>3. QED BY <1>9, <1>13, <2>1, <3>2 DEF Execute
  <2>2. CASE ~HasOrder(book, i)
    BY <1>13, <2>2 DEF Execute, ExecuteOrder
  <2>3. QED BY <2>1, <2>2
<1>14. ASSUME NEW i \in Ids, Remove(i) PROVE Exchange!Next \/ book' = book
  <2>1. IF HasOrder(book, i) THEN RestingOf(book') = R \ {OrderAt(book, i)} ELSE book' = book
    BY <1>1, <1>14, RemoveRests DEF Remove, R
  <2>2. QED BY <1>6, <1>O, <2>1 DEF HasOrder
<1>15. CASE UNCHANGED vars
  BY <1>15 DEF vars
<1>16. QED BY <1>10, <1>11, <1>12, <1>13, <1>14, <1>15 DEF Next

(* Every sequence of calls within the contract, whatever the ids, prices,  *)
(* quantities and word size, changes the book as the exchange changes its  *)
(* own: the class reconstructs depth and orders.                           *)
THEOREM Reconstructs == Spec => ReconstructsExchangeBook
<1>1. Init => Exchange!Init
  <2> SUFFICES ASSUME Init PROVE Exchange!Init
    OBVIOUS
  <2>1. IInv
    BY InitInv
  <2>2. book.levels = Exchange!DepthOf(RestingOf(book))
    BY <2>1, DepthIsLevels DEF IInv, Consistent
  <2>3. DOMAIN book.orders = {}
    BY DEF Init, EmptyBook
  <2>4. RestingOf(book) = {}
    BY <2>3 DEF RestingOf
  <2>5. QED BY <2>2, <2>4 DEF Exchange!Init, RestingOf, OrderAt
<1> DEFINE resting == {[side |-> book.orders[i].side, id |-> i,
                        price |-> book.orders[i].price,
                        quantity |-> book.orders[i].quantity] : i \in DOMAIN book.orders}
<1>2. IInv /\ IInv' /\ [Next]_vars => [Exchange!Next]_<<resting, book.levels>>
  <2> SUFFICES ASSUME IInv, IInv', [Next]_vars
               PROVE  Exchange!Next \/ UNCHANGED <<resting, book.levels>>
    OBVIOUS
  <2>1. RestingOf(book) = resting /\ RestingOf(book') = resting'
    BY DEF RestingOf, OrderAt
  <2> HIDE DEF resting
  <2>2. QED BY <2>1, StepSimulated
<1>3. QED BY <1>1, <1>2, Invariance, PTL DEF Spec, ReconstructsExchangeBook, Exchange!Spec

=============================================================================
