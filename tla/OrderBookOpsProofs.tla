------------------------- MODULE OrderBookOpsProofs -------------------------
(* Lemmas about the operations of a book, whoever calls them: within the   *)
(* contract they keep a book consistent, and no pointer is followed that   *)
(* dangles.                                                                *)
EXTENDS OrderBookOps, FiniteSetTheorems, FunctionTheorems, TLAPS

LEMMA PlusExact ==
  ASSUME NEW a \in Nat, NEW b \in Nat, a + b < Modulus
  PROVE  Plus(a, b) = a + b
BY ModulusAssumption DEF Plus

LEMMA MinusExact ==
  ASSUME NEW a \in Word, NEW b \in Nat, b <= a
  PROVE  Minus(a, b) = a - b
BY ModulusAssumption DEF Minus, Word

LEMMA PartialMember ==
  ASSUME NEW S, NEW T, NEW f
  PROVE  f \in Partial(S, T) <=> /\ f = [x \in DOMAIN f |-> f[x]]
                                 /\ DOMAIN f \subseteq S
                                 /\ \A x \in DOMAIN f : f[x] \in T
<1>1. ASSUME f \in Partial(S, T)
      PROVE  /\ f = [x \in DOMAIN f |-> f[x]]
             /\ DOMAIN f \subseteq S
             /\ \A x \in DOMAIN f : f[x] \in T
  <2>1. PICK D \in SUBSET S : f \in [D -> T]
    BY <1>1 DEF Partial
  <2>2. QED BY <2>1
<1>2. ASSUME f = [x \in DOMAIN f |-> f[x]], DOMAIN f \subseteq S,
             \A x \in DOMAIN f : f[x] \in T
      PROVE  f \in Partial(S, T)
  <2>1. f \in [DOMAIN f -> T]
    BY <1>2
  <2>2. QED BY <2>1, <1>2 DEF Partial
<1>3. QED BY <1>1, <1>2

LEMMA PutPartial ==
  ASSUME NEW S, NEW T, NEW f \in Partial(S, T), NEW k \in S, NEW v \in T
  PROVE  Put(f, k, v) \in Partial(S, T)
BY PartialMember DEF Put

LEMMA DropPartial ==
  ASSUME NEW S, NEW T, NEW f \in Partial(S, T), NEW k
  PROVE  Drop(f, k) \in Partial(S, T)
BY PartialMember DEF Drop

-----------------------------------------------------------------------------
(* The type of a book, taken apart.                                        *)
LEMMA BookType ==
  ASSUME NEW b \in Books
  PROVE  /\ b = [orders |-> b.orders, levels |-> b.levels, dangling |-> b.dangling]
         /\ b.orders \in Partial(Ids, Orders)
         /\ DOMAIN b.orders \subseteq Ids
         /\ \A i \in DOMAIN b.orders : b.orders[i] \in Orders
         /\ b.levels \in [Sides -> Partial(Prices, Word)]
         /\ \A s \in Sides : /\ DOMAIN b.levels[s] \subseteq Prices
                            /\ \A p \in DOMAIN b.levels[s] : b.levels[s][p] \in Word
         /\ b.dangling \in SUBSET Ids
BY PartialMember DEF Books

(* The shares of one order: as many as the interval has numbers.           *)
LEMMA SharesOfOne ==
  ASSUME NEW i, NEW a \in Nat, NEW c \in Nat, a <= c + 1
  PROVE  /\ IsFiniteSet({i} \X (a .. c))
         /\ Cardinality({i} \X (a .. c)) = c - a + 1
<1>1. IsFiniteSet(a .. c) /\ Cardinality(a .. c) = c - a + 1
  BY FS_Interval
<1>2. IsFiniteSet({i}) /\ Cardinality({i}) = 1
  BY FS_Singleton
<1>3. /\ IsFiniteSet({i} \X (a .. c))
      /\ Cardinality({i} \X (a .. c)) = Cardinality({i}) * Cardinality(a .. c)
  BY <1>1, <1>2, FS_Product
<1>4. QED BY <1>1, <1>2, <1>3

LEMMA FirstShares ==
  ASSUME NEW i, NEW n \in Nat
  PROVE  IsFiniteSet({i} \X (1 .. n)) /\ Cardinality({i} \X (1 .. n)) = n
<1>1. 1 <= n + 1
  OBVIOUS
<1>2. /\ IsFiniteSet({i} \X (1 .. n))
      /\ Cardinality({i} \X (1 .. n)) = n - 1 + 1
  BY <1>1, SharesOfOne
<1>3. QED BY <1>2

(* A book of finitely many orders has finitely many shares at a price.     *)
LEMMA SharesFinite ==
  ASSUME NEW b, IsFiniteSet(DOMAIN b.orders), NEW s, NEW p
  PROVE  IsFiniteSet(Shares(b, s, p)) /\ Cardinality(Shares(b, s, p)) \in Nat
<1>1. IsFiniteSet(StoredAt(b, s, p))
  BY FS_Subset DEF StoredAt
<1>2. IsFiniteSet(1 .. Modulus)
  BY FS_Interval, ModulusAssumption
<1>3. IsFiniteSet(StoredAt(b, s, p) \X (1 .. Modulus))
  BY <1>1, <1>2, FS_Product
<1>4. IsFiniteSet(Shares(b, s, p))
  BY <1>3, FS_Subset DEF Shares
<1>5. QED BY <1>4, FS_CardinalityType

-----------------------------------------------------------------------------
(* The strengthening.  A book is sound when it is well-typed, holds        *)
(* finitely many orders, none of them dangling, and its levels match them. *)
(* Between two calls no stored order is spent either; inside cancel and    *)
(* execute, between modify() and remove_impl(), the order i may be.        *)
Sound(b) ==
  /\ b \in Books
  /\ IsFiniteSet(DOMAIN b.orders)
  /\ b.dangling = {}
  /\ LevelsMatch(b)

Consistent(b) ==
  Sound(b) /\ \A i \in DOMAIN b.orders : b.orders[i].quantity # 0

ConsistentBut(b, i) ==
  Sound(b) /\ \A j \in DOMAIN b.orders \ {i} : b.orders[j].quantity # 0

(* The size of a level is the number of its shares, 0 where no level is.   *)
LEMMA SizeIsShares ==
  ASSUME NEW b, Sound(b), NEW s \in Sides, NEW p \in Prices
  PROVE  SizeAt(b, s, p) = Cardinality(Shares(b, s, p))
<1>1. CASE HasLevel(b, s, p)
  BY <1>1 DEF Sound, LevelsMatch, SizeAt, HasLevel
<1>2. CASE ~HasLevel(b, s, p)
  <2>1. StoredAt(b, s, p) = {}
    BY <1>2 DEF Sound, LevelsMatch, HasLevel
  <2>2. Shares(b, s, p) = {}
    BY <2>1 DEF Shares
  <2>3. QED BY <1>2, <2>2, FS_EmptySet DEF SizeAt
<1>3. QED BY <1>1, <1>2

(* In a consistent book every level has something on offer.                *)
LEMMA LevelNotEmpty ==
  ASSUME NEW b, Consistent(b), NEW s \in Sides, NEW p \in Prices
  PROVE  SizeAt(b, s, p) = 0 <=> ~HasLevel(b, s, p)
<1>1. ASSUME HasLevel(b, s, p) PROVE SizeAt(b, s, p) # 0
  <2>1. PICK i \in StoredAt(b, s, p) : TRUE
    BY <1>1 DEF Consistent, Sound, LevelsMatch, HasLevel
  <2>2. i \in DOMAIN b.orders /\ b.orders[i].quantity \in 1 .. Modulus
    BY BookType, ModulusAssumption
    DEF Consistent, Sound, StoredAt, Orders, Word
  <2>3. <<i, 1>> \in Shares(b, s, p)
    BY <2>2, ModulusAssumption DEF Shares
  <2>4. Cardinality(Shares(b, s, p)) # 0
    BY <2>3, SharesFinite, FS_EmptySet DEF Consistent, Sound
  <2>5. QED BY <2>4, SizeIsShares DEF Consistent
<1>2. QED BY <1>1 DEF SizeAt

(* The book the handlers begin with.                                       *)
LEMMA EmptyConsistent == Consistent(EmptyBook)
<1> DEFINE b == EmptyBook
<1>1. /\ b.orders = [i \in {} |-> 0] /\ b.dangling = {}
      /\ b.levels = [s \in Sides |-> [p \in {} |-> 0]]
      /\ b = [orders |-> b.orders, levels |-> b.levels, dangling |-> b.dangling]
  BY DEF EmptyBook
<1> HIDE DEF b
<1>2. DOMAIN b.orders = {} /\ \A s \in Sides : DOMAIN b.levels[s] = {}
  BY <1>1
<1>3. b \in Books
  <2>1. [i \in {} |-> 0] \in [{} -> Orders] /\ [p \in {} |-> 0] \in [{} -> Word]
    OBVIOUS
  <2>2. /\ [i \in {} |-> 0] \in Partial(Ids, Orders)
        /\ [p \in {} |-> 0] \in Partial(Prices, Word)
    BY <2>1 DEF Partial
  <2>3. QED BY <1>1, <2>2 DEF Books
<1>4. LevelsMatch(b)
  BY <1>2 DEF LevelsMatch, StoredAt
<1>5. QED BY <1>1, <1>2, <1>3, <1>4, FS_EmptySet DEF Consistent, Sound, b

(* From b to c only order i, at the price p of the side s, and its level   *)
(* have changed.                                                           *)
OnlyTouches(b, c, i, s, p) ==
  /\ \A j : j # i => (j \in DOMAIN c.orders <=> j \in DOMAIN b.orders)
  /\ \A j \in DOMAIN b.orders \ {i} :
        /\ c.orders[j].side = b.orders[j].side
        /\ c.orders[j].price = b.orders[j].price
        /\ c.orders[j].quantity = b.orders[j].quantity
  /\ i \in DOMAIN b.orders => b.orders[i].side = s /\ b.orders[i].price = p
  /\ i \in DOMAIN c.orders => c.orders[i].side = s /\ c.orders[i].price = p
  /\ \A s2 \in Sides, p2 \in Prices : <<s2, p2>> # <<s, p>> =>
        /\ HasLevel(c, s2, p2) <=> HasLevel(b, s2, p2)
        /\ HasLevel(b, s2, p2) => c.levels[s2][p2] = b.levels[s2][p2]

(* Then the levels still match if that one does.                           *)
LEMMA LevelsElsewhere ==
  ASSUME NEW b, LevelsMatch(b), NEW c \in Books,
         NEW i, NEW s \in Sides, NEW p \in Prices, OnlyTouches(b, c, i, s, p),
         HasLevel(c, s, p) <=> StoredAt(c, s, p) # {},
         HasLevel(c, s, p) => c.levels[s][p] = Cardinality(Shares(c, s, p))
  PROVE  LevelsMatch(c)
<1> USE DEF OnlyTouches
<1>1. ASSUME NEW s2 \in Sides, NEW p2 \in Prices, <<s2, p2>> # <<s, p>>
      PROVE  /\ StoredAt(c, s2, p2) = StoredAt(b, s2, p2)
             /\ Shares(c, s2, p2) = Shares(b, s2, p2)
  <2>1. StoredAt(c, s2, p2) = StoredAt(b, s2, p2)
    BY <1>1 DEF StoredAt
  <2>2. i \notin StoredAt(b, s2, p2)
    BY <1>1 DEF StoredAt
  <2>3. QED BY <2>1, <2>2 DEF Shares, StoredAt
<1>2. ASSUME NEW s2 \in Sides
      PROVE  /\ DOMAIN c.levels[s2] = {p2 \in Prices : StoredAt(c, s2, p2) # {}}
             /\ \A p2 \in DOMAIN c.levels[s2] :
                   c.levels[s2][p2] = Cardinality(Shares(c, s2, p2))
  <2>1. DOMAIN c.levels[s2] \subseteq Prices
    BY BookType
  <2>2. \A p2 \in Prices : HasLevel(c, s2, p2) <=> StoredAt(c, s2, p2) # {}
    BY <1>1 DEF LevelsMatch, HasLevel
  <2>3. \A p2 \in Prices : HasLevel(c, s2, p2) =>
               c.levels[s2][p2] = Cardinality(Shares(c, s2, p2))
    BY <1>1 DEF LevelsMatch, HasLevel
  <2>4. QED BY <2>1, <2>2, <2>3 DEF HasLevel
<1>3. QED BY <1>2 DEF LevelsMatch

-----------------------------------------------------------------------------
(* add keeps a book consistent, within its contract.                       *)
LEMMA AddConsistent ==
  ASSUME NEW b, Consistent(b),
         NEW i \in Ids, NEW s \in Sides, NEW p \in Prices,
         NEW q \in Word \ {0}, MayAdd(b, i, s, p, q)
  PROVE  Consistent(AddOrder(b, i, s, p, q))
<1> DEFINE c == AddOrder(b, i, s, p, q)
           order == [side |-> s, price |-> p, quantity |-> q]
           size == SizeAt(b, s, p)
<1> USE DEF Consistent, Sound
<1>1. /\ size \in Word
      /\ Plus(size, q) = size + q
      /\ size + q \in Word
  <2>1. size \in Word
    BY BookType, ModulusAssumption DEF SizeAt, HasLevel, Word
  <2>2. q \in Nat /\ size \in Nat /\ size + q < Modulus
    BY <2>1, ModulusAssumption DEF MayAdd, Word
  <2>3. Plus(size, q) = size + q
    BY <2>2, PlusExact
  <2>4. QED BY <2>1, <2>2, <2>3, ModulusAssumption DEF Word
<1>2. /\ i \notin DOMAIN b.orders
      /\ c.orders = Put(b.orders, i, order)
      /\ c.levels = [b.levels EXCEPT ![s] = Put(@, p, size + q)]
      /\ c.dangling = b.dangling
      /\ c = [orders |-> c.orders, levels |-> c.levels, dangling |-> c.dangling]
  <2>1. i \notin DOMAIN b.orders
    BY DEF MayAdd, HasOrder
  <2>2. b = [orders |-> b.orders, levels |-> b.levels, dangling |-> b.dangling]
    BY BookType
  <2>3. c = [b EXCEPT !.orders = Put(@, i, order), !.levels[s] = Put(@, p, size + q)]
    BY <1>1, <2>1 DEF AddOrder, HasOrder
  <2> HIDE DEF c, order, size
  <2>4. QED BY <2>1, <2>2, <2>3
<1>3. c \in Books
  <2>1. order \in Orders
    BY DEF Orders
  <2>2. c.orders \in Partial(Ids, Orders)
    BY <1>2, <2>1, BookType, PutPartial
  <2>3. Put(b.levels[s], p, size + q) \in Partial(Prices, Word)
    BY <1>1, BookType, PutPartial
  <2>4. c.levels \in [Sides -> Partial(Prices, Word)]
    BY <1>2, <2>3, BookType
  <2>5. QED BY <1>2, <2>2, <2>4, BookType DEF Books
<1>4. /\ DOMAIN c.orders = DOMAIN b.orders \cup {i}
      /\ c.orders[i].side = s /\ c.orders[i].price = p
      /\ c.orders[i].quantity = q
      /\ \A j \in DOMAIN b.orders : c.orders[j] = b.orders[j]
  BY <1>2 DEF Put
<1> HIDE DEF c, order
<1>5. IsFiniteSet(DOMAIN c.orders)
  BY <1>4, FS_AddElement
<1>6. c.dangling = {} /\ \A j \in DOMAIN c.orders : c.orders[j].quantity # 0
  BY <1>2, <1>4
<1>7. LevelsMatch(c)
  <2>2. /\ StoredAt(c, s, p) # {}
        /\ HasLevel(c, s, p)
        /\ c.levels[s][p] = size + q
    BY <1>2, <1>4, BookType DEF StoredAt, Put, HasLevel
  <2>3. Shares(c, s, p) = Shares(b, s, p) \cup ({i} \X (1 .. q))
    <3>1. StoredAt(c, s, p) = StoredAt(b, s, p) \cup {i}
      BY <1>4 DEF StoredAt
    <3>2. q \in Nat /\ q < Modulus
      BY ModulusAssumption DEF Word
    <3>3. i \notin StoredAt(b, s, p)
      BY <1>2 DEF StoredAt
    <3>4. \A j \in StoredAt(b, s, p) : c.orders[j] = b.orders[j]
      BY <1>4 DEF StoredAt
    <3>5. \A j, k : <<j, k>> \in Shares(c, s, p)
                       <=> <<j, k>> \in Shares(b, s, p) \cup ({i} \X (1 .. q))
      BY <1>4, <3>1, <3>2, <3>3, <3>4, ModulusAssumption DEF Shares
    <3>6. QED BY <3>5 DEF Shares
  <2>4. Shares(b, s, p) \cap ({i} \X (1 .. q)) = {}
    BY <1>2 DEF Shares, StoredAt
  <2>5. IsFiniteSet({i} \X (1 .. q)) /\ Cardinality({i} \X (1 .. q)) = q
    <3>1. q \in Nat
      BY ModulusAssumption DEF Word
    <3>2. QED BY <3>1, FirstShares
  <2>6. Cardinality(Shares(c, s, p)) = Cardinality(Shares(b, s, p)) + q
    <3>1. IsFiniteSet(Shares(b, s, p)) /\ Cardinality(Shares(b, s, p)) \in Nat
      BY SharesFinite
    <3>2. Cardinality(Shares(c, s, p)) = Cardinality(Shares(b, s, p)) + q - 0
      BY <2>3, <2>4, <2>5, <3>1, FS_Union, FS_EmptySet
    <3>3. QED BY <3>1, <3>2, ModulusAssumption DEF Word
  <2>7. c.levels[s][p] = Cardinality(Shares(c, s, p))
    BY <2>2, <2>6, SizeIsShares
  <2>8. OnlyTouches(b, c, i, s, p)
    BY <1>2, <1>4, BookType DEF OnlyTouches, Put, HasLevel
  <2>9. QED BY <1>3, <2>2, <2>7, <2>8, LevelsElsewhere
<1>8. QED BY <1>3, <1>5, <1>6, <1>7 DEF c

-----------------------------------------------------------------------------
(* Taking some of the shares at a price away.                              *)
LEMMA SharesWithout ==
  ASSUME NEW b, IsFiniteSet(DOMAIN b.orders), NEW s, NEW p,
         NEW own \in SUBSET Shares(b, s, p)
  PROVE  /\ Cardinality(Shares(b, s, p) \ own)
              = Cardinality(Shares(b, s, p)) - Cardinality(own)
         /\ Cardinality(own) <= Cardinality(Shares(b, s, p))
<1>1. IsFiniteSet(Shares(b, s, p))
  BY SharesFinite
<1>2. Shares(b, s, p) \cap own = own
  OBVIOUS
<1>3. Cardinality(own) <= Cardinality(Shares(b, s, p))
  BY <1>1, FS_Subset
<1>4. Cardinality(Shares(b, s, p) \ own)
        = Cardinality(Shares(b, s, p)) - Cardinality(Shares(b, s, p) \cap own)
  BY <1>1, FS_Difference
<1>5. QED BY <1>2, <1>3, <1>4

(* What is there to know of a stored order of a consistent book.           *)
LEMMA StoredOrder ==
  ASSUME NEW b, Sound(b), NEW i \in DOMAIN b.orders,
         NEW s, NEW p, NEW n, s = b.orders[i].side,
         p = b.orders[i].price, n = b.orders[i].quantity
  PROVE  /\ s \in Sides /\ p \in Prices /\ n \in Nat /\ n < Modulus
         /\ HasLevel(b, s, p)
         /\ SizeAt(b, s, p) = b.levels[s][p]
         /\ b.levels[s][p] \in Nat /\ b.levels[s][p] < Modulus
         /\ {i} \X (1 .. n) \subseteq Shares(b, s, p)
         /\ n <= b.levels[s][p]
<1> USE DEF ConsistentBut, Sound
<1>1. b.orders[i] \in Orders
  BY BookType
<1>2. s \in Sides /\ p \in Prices /\ n \in Nat /\ n < Modulus
  BY <1>1, ModulusAssumption DEF Orders, Word
<1>3. i \in StoredAt(b, s, p)
  BY DEF StoredAt
<1>4. HasLevel(b, s, p)
  BY <1>2, <1>3 DEF LevelsMatch, HasLevel
<1>5. /\ SizeAt(b, s, p) = b.levels[s][p]
      /\ b.levels[s][p] \in Nat /\ b.levels[s][p] < Modulus
  BY <1>2, <1>4, BookType, ModulusAssumption DEF SizeAt, HasLevel, Word
<1>6. {i} \X (1 .. n) \subseteq Shares(b, s, p)
  BY <1>2, <1>3, ModulusAssumption DEF Shares
<1>7. n <= Cardinality(Shares(b, s, p))
  <2>1. Cardinality({i} \X (1 .. n)) = n
    BY <1>2, FirstShares
  <2>2. IsFiniteSet(Shares(b, s, p))
    BY SharesFinite
  <2>3. QED BY <1>6, <2>1, <2>2, FS_Subset
<1>8. n <= b.levels[s][p]
  BY <1>2, <1>4, <1>7 DEF LevelsMatch, HasLevel
<1>9. QED BY <1>2, <1>4, <1>5, <1>6, <1>8

-----------------------------------------------------------------------------
(* Writing the size of one level.                                          *)
WithSize(L, s, p, v) == [L EXCEPT ![s] = [@ EXCEPT ![p] = v]]

LEMMA SetLevel ==
  ASSUME NEW L \in [Sides -> Partial(Prices, Word)],
         NEW s \in Sides, NEW p \in DOMAIN L[s], NEW v \in Word,
         NEW M, M = WithSize(L, s, p, v)
  PROVE  /\ M \in [Sides -> Partial(Prices, Word)]
         /\ M[s][p] = v
         /\ \A s2 \in Sides :
               /\ DOMAIN M[s2] = DOMAIN L[s2]
               /\ \A p2 : <<s2, p2>> # <<s, p>> => M[s2][p2] = L[s2][p2]
<1> DEFINE row == [L[s] EXCEPT ![p] = v]
<1>1. row \in Partial(Prices, Word)
  <2>1. PICK D \in SUBSET Prices : L[s] \in [D -> Word]
    BY DEF Partial
  <2>2. row \in [D -> Word]
    BY <2>1
  <2>3. QED BY <2>2 DEF Partial
<1>2. row[p] = v /\ DOMAIN row = DOMAIN L[s]
      /\ \A p2 : p2 # p => row[p2] = L[s][p2]
  OBVIOUS
<1>3. M = [L EXCEPT ![s] = row]
  BY DEF WithSize
<1> HIDE DEF row
<1>4. M[s] = row /\ \A s2 \in Sides : s2 # s => M[s2] = L[s2]
  BY <1>3
<1>5. M \in [Sides -> Partial(Prices, Word)]
  BY <1>1, <1>3
<1>6. QED BY <1>2, <1>4, <1>5

(* Debiting a level of at least q, where no pointer dangles.               *)
LEMMA DebitExact ==
  ASSUME NEW b \in Books, b.dangling = {}, NEW i \in DOMAIN b.orders,
         NEW s, NEW p, s = b.orders[i].side, p = b.orders[i].price,
         HasLevel(b, s, p), NEW q \in Nat, q <= b.levels[s][p]
  PROVE  DebitLevel(b, i, q) =
           {[b EXCEPT !.levels = WithSize(@, s, p, b.levels[s][p] - q)]}
<1>1. s \in Sides
  BY BookType DEF Orders
<1>2. Minus(b.levels[s][p], q) = b.levels[s][p] - q
  BY <1>1, BookType, MinusExact DEF HasLevel
<1>3. DebitLevel(b, i, q) = {Debit(b, s, p, q)}
  BY DEF DebitLevel
<1>4. Debit(b, s, p, q) = [b EXCEPT !.levels = WithSize(@, s, p, b.levels[s][p] - q)]
  BY <1>2 DEF Debit, WithSize
<1>5. QED BY <1>3, <1>4

(* The modify() of cancel and execute, where no pointer dangles.           *)
Spent(b, i, q) == [b EXCEPT !.orders[i].quantity = @ - q]

TakenFrom(b, i, q) ==
  [Spent(b, i, q) EXCEPT !.levels =
     WithSize(@, b.orders[i].side, b.orders[i].price,
              b.levels[b.orders[i].side][b.orders[i].price] - q)]

LEMMA SpentOrder ==
  ASSUME NEW b \in Books, NEW i \in DOMAIN b.orders,
         NEW q \in Nat, q <= b.orders[i].quantity,
         NEW c, c = Spent(b, i, q)
  PROVE  /\ c \in Books
         /\ c.levels = b.levels /\ c.dangling = b.dangling
         /\ DOMAIN c.orders = DOMAIN b.orders
         /\ \A j \in DOMAIN b.orders \ {i} : c.orders[j] = b.orders[j]
         /\ c.orders[i].side = b.orders[i].side
         /\ c.orders[i].price = b.orders[i].price
         /\ c.orders[i].quantity = b.orders[i].quantity - q
<1> DEFINE n == b.orders[i].quantity
<1>1. b.orders[i] \in Orders /\ n \in Nat /\ n < Modulus /\ n - q \in Word
  BY BookType, ModulusAssumption DEF Orders, Word
<1> DEFINE o == [b.orders[i] EXCEPT !.quantity = n - q]
<1>2. o \in Orders
  BY <1>1 DEF Orders
<1>3. o.side = b.orders[i].side /\ o.price = b.orders[i].price /\ o.quantity = n - q
  BY <1>1 DEF Orders
<1>4. /\ c.orders = [b.orders EXCEPT ![i] = o]
      /\ c.levels = b.levels /\ c.dangling = b.dangling
      /\ c = [orders |-> c.orders, levels |-> c.levels, dangling |-> c.dangling]
  BY BookType DEF Spent
<1> HIDE DEF o
<1>5. c.orders \in Partial(Ids, Orders)
  <2>1. b.orders \in Partial(Ids, Orders)
    BY BookType
  <2>2. PICK D \in SUBSET Ids : b.orders \in [D -> Orders]
    BY <2>1 DEF Partial
  <2>3. c.orders \in [D -> Orders]
    BY <1>2, <1>4, <2>2
  <2>4. QED BY <2>3 DEF Partial
<1>6. c \in Books
  BY <1>4, <1>5, BookType DEF Books
<1>7. QED BY <1>3, <1>4, <1>6

LEMMA TakeIsTaken ==
  ASSUME NEW b, Consistent(b), NEW i \in DOMAIN b.orders,
         NEW q \in Nat, q <= b.orders[i].quantity
  PROVE  TakeQuantity(b, i, q) = {TakenFrom(b, i, q)}
<1> DEFINE s == b.orders[i].side
           p == b.orders[i].price
           n == b.orders[i].quantity
           c == Spent(b, i, q)
<1> USE DEF Consistent, Sound
<1>1. /\ n \in Nat /\ n < Modulus /\ HasLevel(b, s, p)
      /\ b.levels[s][p] \in Nat /\ n <= b.levels[s][p]
  BY StoredOrder
<1>2. /\ c \in Books /\ c.dangling = {} /\ c.levels = b.levels
      /\ i \in DOMAIN c.orders /\ s = c.orders[i].side /\ p = c.orders[i].price
  BY SpentOrder
<1>3. TakeQuantity(b, i, q) = DebitLevel(c, i, q)
  <2>1. Minus(n, q) = n - q
    BY <1>1, MinusExact, ModulusAssumption DEF Word
  <2>2. QED BY <2>1 DEF TakeQuantity, Spent
<1> HIDE DEF c, s, p, n
<1>4. HasLevel(c, s, p) /\ q <= c.levels[s][p]
  BY <1>1, <1>2 DEF HasLevel, n
<1>5. DebitLevel(c, i, q) = {[c EXCEPT !.levels = WithSize(@, s, p, c.levels[s][p] - q)]}
  BY <1>2, <1>4, DebitExact
<1>6. QED BY <1>2, <1>3, <1>5 DEF TakenFrom, c, s, p

LEMMA TakenConsistent ==
  ASSUME NEW b, Consistent(b), NEW i \in DOMAIN b.orders,
         NEW q \in Nat, q <= b.orders[i].quantity
  PROVE  ConsistentBut(TakenFrom(b, i, q), i)
<1> DEFINE s == b.orders[i].side
           p == b.orders[i].price
           n == b.orders[i].quantity
           size == b.levels[s][p]
           c == TakenFrom(b, i, q)
<1> USE DEF Consistent, ConsistentBut, Sound
<1>1. /\ s \in Sides /\ p \in Prices /\ n \in Nat /\ n < Modulus
      /\ HasLevel(b, s, p)
      /\ size \in Nat /\ size < Modulus
      /\ {i} \X (1 .. n) \subseteq Shares(b, s, p)
      /\ n <= size
  BY StoredOrder
<1> DEFINE d == Spent(b, i, q)
<1>0. /\ d \in Books /\ d.levels = b.levels /\ d.dangling = b.dangling
      /\ DOMAIN d.orders = DOMAIN b.orders
      /\ \A j \in DOMAIN b.orders \ {i} : d.orders[j] = b.orders[j]
      /\ d.orders[i].side = s /\ d.orders[i].price = p
      /\ d.orders[i].quantity = n - q
  BY SpentOrder
<1>2. /\ c.orders = d.orders
      /\ c.levels = WithSize(b.levels, s, p, size - q)
      /\ c.dangling = b.dangling
      /\ c = [orders |-> c.orders, levels |-> c.levels, dangling |-> c.dangling]
  <2> HIDE DEF d, s, p
  <2>1. c = [d EXCEPT !.levels = WithSize(@, s, p, b.levels[s][p] - q)]
    BY DEF TakenFrom, d, s, p
  <2>2. QED BY <1>0, <2>1, BookType
<1> HIDE DEF c, d
<1>3. c \in Books
  <2>1. size - q \in Word
    BY <1>1, ModulusAssumption DEF Word
  <2>5. c.levels \in [Sides -> Partial(Prices, Word)]
    <3>1. b.levels \in [Sides -> Partial(Prices, Word)] /\ p \in DOMAIN b.levels[s]
      BY <1>1, BookType DEF HasLevel
    <3> HIDE DEF s, p, n, size
    <3>2. QED BY <1>1, <1>2, <2>1, <3>1, SetLevel
  <2>6. QED BY <1>0, <1>2, <2>5, BookType DEF Books
<1>4. /\ DOMAIN c.orders = DOMAIN b.orders
      /\ \A j \in DOMAIN b.orders \ {i} : c.orders[j] = b.orders[j]
      /\ c.orders[i].side = s /\ c.orders[i].price = p
      /\ c.orders[i].quantity = n - q
  BY <1>0, <1>2
<1>5. /\ HasLevel(c, s, p) /\ c.levels[s][p] = size - q
      /\ \A s2 \in Sides, p2 \in Prices : <<s2, p2>> # <<s, p>> =>
            /\ HasLevel(c, s2, p2) <=> HasLevel(b, s2, p2)
            /\ HasLevel(b, s2, p2) => c.levels[s2][p2] = b.levels[s2][p2]
  <2>1. size - q \in Word
    BY <1>1, ModulusAssumption DEF Word
  <2>2. b.levels \in [Sides -> Partial(Prices, Word)] /\ p \in DOMAIN b.levels[s]
    BY <1>1, BookType DEF HasLevel
  <2> HIDE DEF s, p, n, size
  <2>3. /\ c.levels[s][p] = size - q
        /\ \A s2 \in Sides :
              /\ DOMAIN c.levels[s2] = DOMAIN b.levels[s2]
              /\ \A p2 : <<s2, p2>> # <<s, p>> => c.levels[s2][p2] = b.levels[s2][p2]
    BY <1>1, <1>2, <2>1, <2>2, SetLevel
  <2>4. QED BY <1>1, <2>2, <2>3 DEF HasLevel
<1> HIDE DEF s, p, n, size
<1>6. LevelsMatch(c)
  <2>1. StoredAt(c, s, p) # {}
    BY <1>4 DEF StoredAt
  <2>2. Shares(c, s, p) = Shares(b, s, p) \ ({i} \X (n - q + 1 .. n))
    <3>1. StoredAt(c, s, p) = StoredAt(b, s, p)
      BY <1>4 DEF StoredAt, s, p
    <3>2. \A j \in StoredAt(b, s, p) \ {i} : c.orders[j] = b.orders[j]
      BY <1>4 DEF StoredAt
    <3>3. b.orders[i].quantity = n /\ c.orders[i].quantity = n - q
      BY <1>4 DEF n
    <3>4. \A j \in StoredAt(b, s, p), k \in 1 .. Modulus :
             k <= c.orders[j].quantity
               <=> k <= b.orders[j].quantity /\ ~(j = i /\ k \in n - q + 1 .. n)
      BY <1>1, <3>2, <3>3, ModulusAssumption
    <3>5. \A j, k : <<j, k>> \in Shares(c, s, p)
             <=> <<j, k>> \in Shares(b, s, p) \ ({i} \X (n - q + 1 .. n))
      BY <3>1, <3>4 DEF Shares
    <3>6. QED BY <3>5 DEF Shares
  <2>3. Cardinality(Shares(c, s, p)) = Cardinality(Shares(b, s, p)) - q
    <3>1. {i} \X (n - q + 1 .. n) \subseteq Shares(b, s, p)
      <4>1. \A k \in n - q + 1 .. n : k \in 1 .. n
        BY <1>1 DEF n
      <4>2. QED BY <1>1, <4>1
    <3> DEFINE own == {i} \X (n - q + 1 .. n)
    <3>2. Cardinality(own) = q
      <4>1. /\ n - q + 1 \in Nat /\ n - q + 1 <= n + 1
            /\ n - (n - q + 1) + 1 = q
        BY <1>1 DEF n
      <4>2. Cardinality(own) = n - (n - q + 1) + 1
        BY <1>1, <4>1, SharesOfOne
      <4>3. QED BY <4>1, <4>2
    <3>3. own \in SUBSET Shares(b, s, p) /\ Shares(c, s, p) = Shares(b, s, p) \ own
      BY <2>2, <3>1
    <3> HIDE DEF own
    <3>4. QED BY <3>2, <3>3, SharesWithout
  <2>4. size = Cardinality(Shares(b, s, p))
    BY <1>1 DEF LevelsMatch, HasLevel, size
  <2>5. OnlyTouches(b, c, i, s, p)
    BY <1>4, <1>5 DEF OnlyTouches, s, p
  <2>6. QED BY <1>1, <1>3, <1>5, <2>1, <2>3, <2>4, <2>5, LevelsElsewhere
<1>7. QED
  BY <1>2, <1>3, <1>4, <1>6 DEF c

LEMMA TakenOrders ==
  ASSUME NEW b, Consistent(b), NEW i \in DOMAIN b.orders,
         NEW q \in Nat, q <= b.orders[i].quantity
  PROVE  /\ DOMAIN TakenFrom(b, i, q).orders = DOMAIN b.orders
         /\ TakenFrom(b, i, q).orders[i].side = b.orders[i].side
         /\ TakenFrom(b, i, q).orders[i].price = b.orders[i].price
<1> DEFINE d == Spent(b, i, q)
<1>1. /\ d \in Books /\ DOMAIN d.orders = DOMAIN b.orders
      /\ d.orders[i].side = b.orders[i].side
      /\ d.orders[i].price = b.orders[i].price
  BY SpentOrder DEF Consistent, Sound
<1>2. d = [orders |-> d.orders, levels |-> d.levels, dangling |-> d.dangling]
  BY <1>1, BookType
<1> HIDE DEF d
<1>3. TakenFrom(b, i, q).orders = d.orders
  BY <1>2 DEF TakenFrom, d
<1>4. QED BY <1>1, <1>3

-----------------------------------------------------------------------------
(* remove_impl, where no pointer dangles.                                  *)
Without(L, s, p) == [L EXCEPT ![s] = Drop(@, p)]

Settled(L, s, p, left) ==
  IF left = 0 THEN Without(L, s, p) ELSE WithSize(L, s, p, left)

Erased(b, i) ==
  [orders |-> Drop(b.orders, i),
   levels |-> Settled(b.levels, b.orders[i].side, b.orders[i].price,
                      b.levels[b.orders[i].side][b.orders[i].price]
                        - b.orders[i].quantity),
   dangling |-> b.dangling]

(* What is left of a level without the shares of order i.                  *)
LEMMA LevelWithout ==
  ASSUME NEW b, Sound(b), NEW i \in DOMAIN b.orders, NEW s, NEW p, NEW n,
         s = b.orders[i].side, p = b.orders[i].price, n = b.orders[i].quantity
  PROVE  Cardinality(Shares(b, s, p) \ ({i} \X (1 .. n))) = b.levels[s][p] - n
<1> USE DEF Sound
<1> DEFINE own == {i} \X (1 .. n)
<1>1. /\ s \in Sides /\ p \in Prices /\ n \in Nat /\ n < Modulus
      /\ HasLevel(b, s, p)
      /\ b.levels[s][p] \in Nat
      /\ own \in SUBSET Shares(b, s, p)
  BY StoredOrder
<1>2. Cardinality(own) = n
  BY <1>1, FirstShares
<1>3. b.levels[s][p] = Cardinality(Shares(b, s, p))
  BY <1>1 DEF LevelsMatch, HasLevel
<1> HIDE DEF own
<1>4. Cardinality(Shares(b, s, p) \ own) = b.levels[s][p] - n
  BY <1>1, <1>2, <1>3, SharesWithout
<1>5. QED BY <1>4 DEF own

(* An order that holds all the shares of its level is alone there.         *)
LEMMA LastAtLevel ==
  ASSUME NEW b, NEW i \in DOMAIN b.orders, ConsistentBut(b, i), NEW s, NEW p,
         s = b.orders[i].side, p = b.orders[i].price
  PROVE  b.levels[s][p] = b.orders[i].quantity
           <=> \A j \in StoredAt(b, s, p) : j = i
<1> USE DEF ConsistentBut, Sound
<1> DEFINE n == b.orders[i].quantity
           rest == Shares(b, s, p) \ ({i} \X (1 .. n))
<1>1. n \in Nat /\ n < Modulus /\ b.levels[s][p] \in Nat
  BY StoredOrder
<1>2. Cardinality(rest) = b.levels[s][p] - n
  BY LevelWithout
<1>3. rest = {} <=> \A j \in StoredAt(b, s, p) : j = i
  <2>1. ASSUME \A j \in StoredAt(b, s, p) : j = i PROVE rest = {}
    <3>1. \A x \in Shares(b, s, p) : x \in {i} \X (1 .. n)
      BY <1>1, <2>1 DEF Shares
    <3>2. QED BY <3>1
  <2>2. ASSUME NEW j \in StoredAt(b, s, p), j # i PROVE <<j, 1>> \in rest
    <3>1. b.orders[j].quantity \in Nat /\ b.orders[j].quantity # 0
      BY <2>2, BookType, ModulusAssumption DEF StoredAt, Orders, Word
    <3>2. QED BY <2>2, <3>1, ModulusAssumption DEF Shares
  <2>3. QED BY <2>1, <2>2
<1>4. Cardinality(rest) = 0 <=> rest = {}
  <2>1. IsFiniteSet(rest)
    BY SharesFinite, FS_Difference
  <2>2. QED BY <2>1, FS_EmptySet
<1> HIDE DEF n, rest
<1>5. b.levels[s][p] = n <=> \A j \in StoredAt(b, s, p) : j = i
  BY <1>1, <1>2, <1>3, <1>4
<1>6. QED BY <1>5 DEF n

LEMMA EraseIsErased ==
  ASSUME NEW b, NEW i \in DOMAIN b.orders, ConsistentBut(b, i)
  PROVE  EraseOrder(b, i) = {Erased(b, i)}
<1> DEFINE s == b.orders[i].side
           p == b.orders[i].price
           n == b.orders[i].quantity
           left == b.levels[s][p] - n
           c == [b EXCEPT !.levels = WithSize(@, s, p, left)]
           e == EraseLevelIfEmpty(c, s, p)
<1>1. /\ s \in Sides /\ HasLevel(b, s, p)
      /\ n \in Nat /\ b.levels[s][p] \in Nat /\ b.levels[s][p] < Modulus
      /\ n <= b.levels[s][p]
  BY StoredOrder DEF ConsistentBut
<1>2. /\ b \in Books /\ b.dangling = {}
      /\ b = [orders |-> b.orders, levels |-> b.levels, dangling |-> b.dangling]
  BY BookType DEF ConsistentBut, Sound
<1>3. left = 0 => StoredAt(b, s, p) = {i}
  <2>1. b.levels[s][p] = n <=> \A j \in StoredAt(b, s, p) : j = i
    BY LastAtLevel
  <2>2. i \in StoredAt(b, s, p)
    BY DEF StoredAt
  <2> HIDE DEF s, p, n
  <2>3. QED BY <1>1, <2>1, <2>2
<1>4. DebitLevel(b, i, n) = {c}
  BY <1>1, <1>2, DebitExact
<1>5. EraseOrder(b, i) = {DropOrder(e, i)}
  BY <1>1, <1>4 DEF EraseOrder
<1>6. /\ c.orders = b.orders /\ c.dangling = b.dangling
      /\ c.levels = WithSize(b.levels, s, p, left)
  BY <1>2
<1> HIDE DEF s, p, n, left
<1>7. c.levels[s][p] = left
  <2>1. left \in Word
    BY <1>1, ModulusAssumption DEF left, Word
  <2>2. QED BY <1>1, <1>2, <1>6, <2>1, BookType, SetLevel DEF HasLevel
<1>8. Erased(b, i) = [orders |-> Drop(b.orders, i),
                      levels |-> Settled(b.levels, s, p, left),
                      dangling |-> b.dangling]
  BY <1>2 DEF Erased, s, p, n, left
<1> HIDE DEF c
<1>9. CASE left = 0
  <2>1. /\ e.orders = b.orders /\ e.dangling = {i}
        /\ e.levels = [c.levels EXCEPT ![s] = Drop(@, p)]
        /\ e = [orders |-> e.orders, levels |-> e.levels, dangling |-> e.dangling]
    BY <1>2, <1>3, <1>6, <1>7, <1>9 DEF EraseLevelIfEmpty, StoredAt, c
  <2>2. e.levels = Without(b.levels, s, p)
    BY <1>1, <1>2, <1>6, <2>1, BookType DEF Without, WithSize, Drop
  <2> HIDE DEF e
  <2>3. DropOrder(e, i) = [orders |-> Drop(b.orders, i),
                           levels |-> Without(b.levels, s, p),
                           dangling |-> b.dangling]
    BY <1>2, <2>1, <2>2 DEF DropOrder
  <2>4. QED BY <1>5, <1>8, <1>9, <2>3 DEF Settled
<1>10. CASE left # 0
  <2>1. e = c
    BY <1>7, <1>10 DEF EraseLevelIfEmpty
  <2>2. DropOrder(c, i) = [orders |-> Drop(b.orders, i),
                           levels |-> WithSize(b.levels, s, p, left),
                           dangling |-> b.dangling]
    <3>1. b.dangling \ {i} = b.dangling
      BY <1>2
    <3>2. QED BY <1>2, <1>6, <3>1 DEF DropOrder, c
  <2>3. QED BY <1>5, <1>8, <1>10, <2>1, <2>2 DEF Settled
<1>11. QED BY <1>9, <1>10

(* The levels of an erased order's book, and what they say at its price.   *)
LEMMA SettledLevels ==
  ASSUME NEW b \in Books, NEW s \in Sides, NEW p, HasLevel(b, s, p),
         NEW left \in Word, NEW c, c.levels = Settled(b.levels, s, p, left)
  PROVE  /\ c.levels \in [Sides -> Partial(Prices, Word)]
         /\ SizeAt(c, s, p) = left
         /\ HasLevel(c, s, p) <=> left # 0
         /\ HasLevel(c, s, p) => c.levels[s][p] = left
         /\ \A s2 \in Sides : \A p2 : <<s2, p2>> # <<s, p>> =>
               /\ HasLevel(c, s2, p2) <=> HasLevel(b, s2, p2)
               /\ HasLevel(b, s2, p2) => c.levels[s2][p2] = b.levels[s2][p2]
<1> DEFINE L == b.levels
<1>1. L \in [Sides -> Partial(Prices, Word)] /\ p \in DOMAIN L[s]
  BY BookType DEF HasLevel
<1>2. CASE left = 0
  <2> DEFINE row == Drop(L[s], p)
  <2>1. /\ row \in Partial(Prices, Word)
        /\ DOMAIN row = DOMAIN L[s] \ {p}
        /\ \A p2 \in DOMAIN row : row[p2] = L[s][p2]
    BY <1>1, DropPartial DEF Drop
  <2>2. c.levels = [L EXCEPT ![s] = row]
    BY <1>2 DEF Settled, Without
  <2> HIDE DEF row
  <2>3. QED BY <1>1, <1>2, <2>1, <2>2 DEF HasLevel, SizeAt
<1>3. CASE left # 0
  <2>1. c.levels = WithSize(L, s, p, left)
    BY <1>3 DEF Settled
  <2> HIDE DEF L
  <2>2. /\ c.levels \in [Sides -> Partial(Prices, Word)]
        /\ c.levels[s][p] = left
        /\ \A s2 \in Sides :
              /\ DOMAIN c.levels[s2] = DOMAIN L[s2]
              /\ \A p2 : <<s2, p2>> # <<s, p>> => c.levels[s2][p2] = L[s2][p2]
    BY <1>1, <2>1, SetLevel
  <2>3. QED BY <1>1, <1>3, <2>2 DEF HasLevel, SizeAt, L
<1>4. QED BY <1>2, <1>3

LEMMA ErasedConsistent ==
  ASSUME NEW b, NEW i \in DOMAIN b.orders, ConsistentBut(b, i),
         NEW s, NEW p, s = b.orders[i].side, p = b.orders[i].price
  PROVE  /\ Consistent(Erased(b, i))
         /\ SizeAt(Erased(b, i), s, p) = b.levels[s][p] - b.orders[i].quantity
<1>0. b.levels[s][p] = b.orders[i].quantity
        <=> \A j \in StoredAt(b, s, p) : j = i
  BY LastAtLevel
<1> USE DEF ConsistentBut, Sound
<1> DEFINE n == b.orders[i].quantity
           left == b.levels[s][p] - n
           c == Erased(b, i)
<1>1. /\ s \in Sides /\ p \in Prices /\ n \in Nat /\ n < Modulus
      /\ HasLevel(b, s, p)
      /\ b.levels[s][p] \in Nat
      /\ left \in Word
  BY StoredOrder, ModulusAssumption DEF Word
<1>2. /\ c.orders = Drop(b.orders, i)
      /\ c.levels = Settled(b.levels, s, p, left)
      /\ c.dangling = {}
      /\ c = [orders |-> c.orders, levels |-> c.levels, dangling |-> c.dangling]
  BY DEF Erased
<1> HIDE DEF c, left
<1>3. /\ c.levels \in [Sides -> Partial(Prices, Word)]
      /\ SizeAt(c, s, p) = left
      /\ HasLevel(c, s, p) <=> left # 0
      /\ HasLevel(c, s, p) => c.levels[s][p] = left
      /\ \A s2 \in Sides : \A p2 : <<s2, p2>> # <<s, p>> =>
            /\ HasLevel(c, s2, p2) <=> HasLevel(b, s2, p2)
            /\ HasLevel(b, s2, p2) => c.levels[s2][p2] = b.levels[s2][p2]
  BY <1>1, <1>2, SettledLevels
<1>4. /\ DOMAIN c.orders = DOMAIN b.orders \ {i}
      /\ \A j \in DOMAIN c.orders : c.orders[j] = b.orders[j]
  BY <1>2 DEF Drop
<1>5. c \in Books
  <2>1. c.orders \in Partial(Ids, Orders)
    BY <1>2, BookType, DropPartial
  <2>2. QED BY <1>2, <1>3, <2>1 DEF Books
<1>6. IsFiniteSet(DOMAIN c.orders)
  BY <1>4, FS_Subset
<1>7. LevelsMatch(c)
  <2>1. StoredAt(c, s, p) = StoredAt(b, s, p) \ {i}
    BY <1>4 DEF StoredAt
  <2>2. StoredAt(c, s, p) # {} <=> left # 0
    <3>1. left = 0 <=> b.levels[s][p] = n
      BY <1>1 DEF left
    <3>2. QED BY <1>0, <2>1, <3>1
  <2>3. Cardinality(Shares(c, s, p)) = left
    <3>1. ASSUME NEW k \in 1 .. Modulus
          PROVE  k <= b.orders[i].quantity <=> k \in 1 .. n
      BY <1>1
    <3> HIDE DEF n
    <3>2. \A d, j, k : <<j, k>> \in Shares(d, s, p)
             <=> j \in StoredAt(d, s, p) /\ k \in 1 .. Modulus /\ k <= d.orders[j].quantity
      BY DEF Shares
    <3>3. \A j \in StoredAt(c, s, p) : j \in StoredAt(b, s, p) /\ c.orders[j] = b.orders[j]
      BY <1>4, <2>1 DEF StoredAt
    <3>4. \A j, k : <<j, k>> \in Shares(c, s, p)
             <=> <<j, k>> \in Shares(b, s, p) /\ ~(j = i /\ k \in 1 .. n)
      BY <2>1, <3>1, <3>2, <3>3
    <3>5. \A x \in Shares(c, s, p) \cup Shares(b, s, p) : x = <<x[1], x[2]>>
      BY DEF Shares
    <3>6. Shares(c, s, p) = Shares(b, s, p) \ ({i} \X (1 .. n))
      BY <3>4, <3>5
    <3>7. Cardinality(Shares(b, s, p) \ ({i} \X (1 .. n))) = b.levels[s][p] - n
      BY LevelWithout DEF n
    <3>8. QED BY <3>6, <3>7 DEF left
  <2>4. OnlyTouches(b, c, i, s, p)
    BY <1>3, <1>4 DEF OnlyTouches
  <2>5. QED BY <1>1, <1>3, <1>5, <2>2, <2>3, <2>4, LevelsElsewhere
<1>8. \A j \in DOMAIN c.orders : c.orders[j].quantity # 0
  BY <1>4
<1>9. Consistent(c)
  BY <1>2, <1>5, <1>6, <1>7, <1>8 DEF Consistent
<1>10. QED BY <1>3, <1>9 DEF c, left

LEMMA EraseIfSpentConsistent ==
  ASSUME NEW b, NEW i \in DOMAIN b.orders, ConsistentBut(b, i),
         NEW s, NEW p, s = b.orders[i].side, p = b.orders[i].price,
         NEW d \in EraseIfSpent(b, i)
  PROVE  /\ Consistent(d)
         /\ SizeAt(d, s, p) = b.levels[s][p]
<1>0. /\ s \in Sides /\ SizeAt(b, s, p) = b.levels[s][p]
      /\ b.levels[s][p] \in Nat
  BY StoredOrder DEF ConsistentBut
<1>1. CASE b.orders[i].quantity = 0
  <2>1. d = Erased(b, i)
    BY <1>1, EraseIsErased DEF EraseIfSpent
  <2>2. QED BY <1>0, <1>1, <2>1, ErasedConsistent
<1>2. CASE b.orders[i].quantity # 0
  BY <1>0, <1>2 DEF EraseIfSpent, ConsistentBut, Consistent
<1>3. QED BY <1>1, <1>2

-----------------------------------------------------------------------------
(* Each operation keeps a consistent book consistent.                      *)
LEMMA RemoveConsistent ==
  ASSUME NEW b, Consistent(b), NEW i, NEW d \in RemoveOrder(b, i)
  PROVE  Consistent(d)
<1>1. CASE HasOrder(b, i)
  <2>1. i \in DOMAIN b.orders /\ ConsistentBut(b, i)
    BY <1>1 DEF HasOrder, Consistent, ConsistentBut
  <2>2. d = Erased(b, i)
    BY <1>1, <2>1, EraseIsErased DEF RemoveOrder
  <2>3. QED BY <2>1, <2>2, ErasedConsistent
<1>2. CASE ~HasOrder(b, i)
  BY <1>2 DEF RemoveOrder
<1>3. QED BY <1>1, <1>2

LEMMA CancelConsistent ==
  ASSUME NEW b, Consistent(b), NEW i, NEW q \in Nat,
         HasOrder(b, i) => q <= b.orders[i].quantity,
         NEW d \in CancelOrder(b, i, q)
  PROVE  Consistent(d)
<1>1. CASE HasOrder(b, i)
  <2> DEFINE c == TakenFrom(b, i, q)
  <2>1. i \in DOMAIN b.orders /\ q <= b.orders[i].quantity
    BY <1>1 DEF HasOrder
  <2>2. d \in EraseIfSpent(c, i)
    BY <1>1, <2>1, TakeIsTaken DEF CancelOrder
  <2>3. ConsistentBut(c, i) /\ i \in DOMAIN c.orders
    BY <2>1, TakenConsistent, TakenOrders
  <2> HIDE DEF c
  <2>4. QED BY <2>2, <2>3, EraseIfSpentConsistent
<1>2. CASE ~HasOrder(b, i)
  BY <1>2 DEF CancelOrder
<1>3. QED BY <1>1, <1>2

(* execute also reports what is left at the order's price.                 *)
LEMMA ExecuteConsistent ==
  ASSUME NEW b, Consistent(b), NEW i, NEW q \in Nat,
         HasOrder(b, i) => q <= b.orders[i].quantity,
         NEW r \in ExecuteOrder(b, i, q)
  PROVE  /\ Consistent(r.book)
         /\ r.execution \in Executions
         /\ ReportsLevel(r.book, r.execution)
<1>1. CASE HasOrder(b, i)
  <2> DEFINE c == TakenFrom(b, i, q)
             s == b.orders[i].side
             p == b.orders[i].price
  <2>1. i \in DOMAIN b.orders /\ q <= b.orders[i].quantity
    BY <1>1 DEF HasOrder
  <2>2. /\ ConsistentBut(c, i) /\ i \in DOMAIN c.orders
        /\ c.orders[i].side = s /\ c.orders[i].price = p
    BY <2>1, TakenConsistent, TakenOrders
  <2>3. TakeQuantity(b, i, q) = {c}
    BY <2>1, TakeIsTaken
  <2> HIDE DEF c
  <2>4. /\ s \in Sides /\ p \in Prices /\ c.dangling = {}
        /\ c.levels[s][p] \in Word
    BY <2>2, StoredOrder, ModulusAssumption DEF ConsistentBut, Sound, Word
  <2>5. Remaining(c, i) = {c.levels[s][p]}
    BY <2>2, <2>4 DEF Remaining
  <2>6. PICK d \in EraseIfSpent(c, i) :
          r = [book |-> d, execution |-> [valid |-> TRUE, price |-> p, side |-> s,
                                          remaining |-> c.levels[s][p]]]
    BY <1>1, <2>3, <2>5 DEF ExecuteOrder
  <2> HIDE DEF s, p
  <2>7. Consistent(d) /\ SizeAt(d, s, p) = c.levels[s][p]
    BY <2>2, EraseIfSpentConsistent
  <2>8. SizeAt(d, s, p) = 0 <=> ~HasLevel(d, s, p)
    BY <2>4, <2>7, LevelNotEmpty
  <2>9. r.execution \in Executions
    BY <2>4, <2>6 DEF Executions
  <2>10. QED BY <2>6, <2>7, <2>8, <2>9 DEF ReportsLevel
<1>2. CASE ~HasOrder(b, i)
  <2>1. r = [book |-> b, execution |-> NoExecution]
    BY <1>2 DEF ExecuteOrder
  <2>2. NoExecution \in Executions
    BY ModulusAssumption DEF NoExecution, Executions, Word
  <2>3. QED BY <2>1, <2>2 DEF ReportsLevel, NoExecution
<1>3. QED BY <1>1, <1>2

-----------------------------------------------------------------------------
(* The resting orders that a book stands for.                              *)
OrderAt(b, i) == [side |-> b.orders[i].side, id |-> i,
                  price |-> b.orders[i].price,
                  quantity |-> b.orders[i].quantity]

Reduced(o, q) == [o EXCEPT !.quantity = @ - q]

RestingOf(b) == {OrderAt(b, i) : i \in DOMAIN b.orders}

LEMMA QuantityIsWord ==
  ASSUME NEW b \in Books, NEW i \in DOMAIN b.orders
  PROVE  /\ b.orders[i].quantity \in Nat /\ b.orders[i].quantity < Modulus
         /\ b.orders[i].side \in Sides /\ b.orders[i].price \in Prices
BY BookType, ModulusAssumption DEF Orders, Word

-----------------------------------------------------------------------------
(* What storing, dropping and reducing an order does to the resting orders.*)
LEMMA RestingMore ==
  ASSUME NEW b, NEW i, i \notin DOMAIN b.orders,
         NEW c, DOMAIN c.orders = DOMAIN b.orders \cup {i},
         \A j \in DOMAIN b.orders : c.orders[j] = b.orders[j]
  PROVE  RestingOf(c) = RestingOf(b) \cup {OrderAt(c, i)}
<1>1. \A j \in DOMAIN b.orders : OrderAt(c, j) = OrderAt(b, j)
  BY DEF OrderAt
<1>2. QED BY <1>1 DEF RestingOf

LEMMA RestingFewer ==
  ASSUME NEW b, NEW i \in DOMAIN b.orders,
         NEW c, DOMAIN c.orders = DOMAIN b.orders \ {i},
         \A j \in DOMAIN c.orders : /\ c.orders[j].side = b.orders[j].side
                                    /\ c.orders[j].price = b.orders[j].price
                                    /\ c.orders[j].quantity = b.orders[j].quantity
  PROVE  RestingOf(c) = RestingOf(b) \ {OrderAt(b, i)}
<1>1. \A j \in DOMAIN c.orders : OrderAt(c, j) = OrderAt(b, j)
  BY DEF OrderAt
<1>2. \A j, k : OrderAt(b, j) = OrderAt(b, k) => j = k
  BY DEF OrderAt
<1>3. QED BY <1>1, <1>2 DEF RestingOf

LEMMA RestingLess ==
  ASSUME NEW b, NEW i \in DOMAIN b.orders, NEW q,
         NEW c, DOMAIN c.orders = DOMAIN b.orders,
         \A j \in DOMAIN b.orders : /\ c.orders[j].side = b.orders[j].side
                                    /\ c.orders[j].price = b.orders[j].price,
         \A j \in DOMAIN b.orders \ {i} : c.orders[j].quantity = b.orders[j].quantity,
         c.orders[i].quantity = b.orders[i].quantity - q
  PROVE  RestingOf(c) = (RestingOf(b) \ {OrderAt(b, i)})
                           \cup {Reduced(OrderAt(b, i), q)}
<1>1. \A j \in DOMAIN b.orders \ {i} : OrderAt(c, j) = OrderAt(b, j)
  BY DEF OrderAt
<1>2. OrderAt(c, i) = Reduced(OrderAt(b, i), q)
  BY DEF OrderAt, Reduced
<1>3. \A j, k : OrderAt(b, j) = OrderAt(b, k) => j = k
  BY DEF OrderAt
<1>4. RestingOf(c) = {OrderAt(c, j) : j \in DOMAIN b.orders \ {i}} \cup {OrderAt(c, i)}
  BY DEF RestingOf
<1>5. {OrderAt(c, j) : j \in DOMAIN b.orders \ {i}} = RestingOf(b) \ {OrderAt(b, i)}
  BY <1>1, <1>3 DEF RestingOf
<1>6. QED BY <1>2, <1>4, <1>5

-----------------------------------------------------------------------------
(* The modify() of cancel and execute takes q from one order.              *)
LEMMA TakenIs ==
  ASSUME NEW b, Consistent(b), NEW i \in DOMAIN b.orders,
         NEW q \in Nat, q <= b.orders[i].quantity,
         NEW c, c = TakenFrom(b, i, q)
  PROVE  /\ DOMAIN c.orders = DOMAIN b.orders
         /\ \A j \in DOMAIN b.orders \ {i} : c.orders[j] = b.orders[j]
         /\ c.orders[i] = [side |-> b.orders[i].side, price |-> b.orders[i].price,
                           quantity |-> b.orders[i].quantity - q]
<1> DEFINE order == b.orders[i]
           less == [order EXCEPT !.quantity = @ - q]
<1>1. b \in Books /\ order \in Orders
  BY BookType DEF Consistent, Sound
<1>2. b = [orders |-> b.orders, levels |-> b.levels, dangling |-> b.dangling]
  BY <1>1, BookType
<1>3. c.orders = [b.orders EXCEPT ![i] = less]
  BY <1>2 DEF Spent, TakenFrom
<1>4. less = [side |-> order.side, price |-> order.price, quantity |-> order.quantity - q]
  BY <1>1 DEF Orders
<1> HIDE DEF less
<1>5. QED BY <1>3, <1>4

LEMMA TakenQuantities ==
  ASSUME NEW b, Consistent(b), NEW i \in DOMAIN b.orders,
         NEW q \in Nat, q <= b.orders[i].quantity,
         NEW c, c = TakenFrom(b, i, q)
  PROVE  /\ DOMAIN c.orders = DOMAIN b.orders
         /\ \A j \in DOMAIN b.orders : /\ c.orders[j].side = b.orders[j].side
                                       /\ c.orders[j].price = b.orders[j].price
         /\ \A j \in DOMAIN b.orders \ {i} : c.orders[j].quantity = b.orders[j].quantity
         /\ c.orders[i].quantity = b.orders[i].quantity - q
<1>1. /\ DOMAIN c.orders = DOMAIN b.orders
      /\ \A j \in DOMAIN b.orders \ {i} : c.orders[j] = b.orders[j]
      /\ c.orders[i] = [side |-> b.orders[i].side, price |-> b.orders[i].price,
                        quantity |-> b.orders[i].quantity - q]
  BY TakenIs
<1>2. /\ c.orders[i].side = b.orders[i].side
      /\ c.orders[i].price = b.orders[i].price
      /\ c.orders[i].quantity = b.orders[i].quantity - q
  BY <1>1
<1>3. QED BY <1>1, <1>2

(* Afterwards the order is reduced or, if nothing of it is left, gone.     *)
LEMMA TakeReduces ==
  ASSUME NEW b, Consistent(b), NEW i \in DOMAIN b.orders,
         NEW q \in Nat, q <= b.orders[i].quantity,
         NEW d \in EraseIfSpent(TakenFrom(b, i, q), i)
  PROVE  \/ RestingOf(d) = RestingOf(b) \ {OrderAt(b, i)}
         \/ /\ q < OrderAt(b, i).quantity
            /\ RestingOf(d) = (RestingOf(b) \ {OrderAt(b, i)})
                                 \cup {Reduced(OrderAt(b, i), q)}
<1> DEFINE c == TakenFrom(b, i, q)
<1>1. /\ DOMAIN c.orders = DOMAIN b.orders
      /\ \A j \in DOMAIN b.orders : /\ c.orders[j].side = b.orders[j].side
                                    /\ c.orders[j].price = b.orders[j].price
      /\ \A j \in DOMAIN b.orders \ {i} : c.orders[j].quantity = b.orders[j].quantity
      /\ c.orders[i].quantity = b.orders[i].quantity - q
  BY TakenQuantities
<1>2. ConsistentBut(c, i)
  BY TakenConsistent
<1>3. b.orders[i].quantity \in Nat /\ OrderAt(b, i).quantity = b.orders[i].quantity
  BY QuantityIsWord DEF Consistent, Sound, OrderAt
<1> HIDE DEF c
<1>4. d \in EraseIfSpent(c, i)
  BY DEF c
<1>5. CASE c.orders[i].quantity = 0
  <2>1. d = Erased(c, i)
    BY <1>1, <1>2, <1>4, <1>5, EraseIsErased DEF EraseIfSpent
  <2>2. d.orders = Drop(c.orders, i)
    BY <2>1 DEF Erased
  <2>3. /\ DOMAIN d.orders = DOMAIN b.orders \ {i}
        /\ \A j \in DOMAIN d.orders : d.orders[j] = c.orders[j]
    BY <1>1, <2>2 DEF Drop
  <2>4. QED BY <1>1, <2>3, RestingFewer
<1>6. CASE c.orders[i].quantity # 0
  <2>1. d = c
    BY <1>4, <1>6 DEF EraseIfSpent
  <2>2. q < OrderAt(b, i).quantity
    BY <1>1, <1>3, <1>6
  <2>3. RestingOf(c) = (RestingOf(b) \ {OrderAt(b, i)})
                          \cup {Reduced(OrderAt(b, i), q)}
    BY <1>1, RestingLess
  <2>4. QED BY <2>1, <2>2, <2>3
<1>7. QED BY <1>5, <1>6

(* remove takes an order from the resting ones, if it is there.            *)
LEMMA RemoveRests ==
  ASSUME NEW b, Consistent(b), NEW i, NEW d \in RemoveOrder(b, i)
  PROVE  IF HasOrder(b, i) THEN RestingOf(d) = RestingOf(b) \ {OrderAt(b, i)}
                           ELSE d = b
<1>1. CASE HasOrder(b, i)
  <2>1. i \in DOMAIN b.orders /\ ConsistentBut(b, i)
    BY <1>1 DEF HasOrder, Consistent, ConsistentBut
  <2>2. d = Erased(b, i)
    BY <1>1, <2>1, EraseIsErased DEF RemoveOrder
  <2>3. /\ DOMAIN d.orders = DOMAIN b.orders \ {i}
        /\ \A j \in DOMAIN d.orders : d.orders[j] = b.orders[j]
    BY <2>2 DEF Erased, Drop
  <2>4. QED BY <1>1, <2>1, <2>3, RestingFewer
<1>2. CASE ~HasOrder(b, i)
  BY <1>2 DEF RemoveOrder
<1>3. QED BY <1>1, <1>2


-----------------------------------------------------------------------------
(* Within the contract and beyond it: wherever a write through a dangling   *)
(* pointer goes, a book stays a book, and its orders are those that were    *)
(* there, but for the one the call is about.                                *)
LEMMA WordArithmetic ==
  ASSUME NEW a \in Int, NEW b \in Int
  PROVE  Plus(a, b) \in Word /\ Minus(a, b) \in Word
BY ModulusAssumption DEF Plus, Minus, Word

LEMMA WordIsNat == \A n \in Word : n \in Nat /\ n \in Int /\ n < Modulus
BY ModulusAssumption DEF Word

LEMMA DebitAny ==
  ASSUME NEW b \in Books, NEW s \in Sides, NEW p, NEW q \in Int,
         NEW c, c = Debit(b, s, p, q)
  PROVE  c \in Books /\ c.orders = b.orders /\ c.dangling = b.dangling
<1> DEFINE row == [b.levels[s] EXCEPT ![p] = Minus(@, q)]
<1>1. row \in Partial(Prices, Word)
  <2>1. PICK D \in SUBSET Prices : b.levels[s] \in [D -> Word]
    <3>1. b.levels[s] \in Partial(Prices, Word)
      BY BookType
    <3>2. QED BY <3>1 DEF Partial
  <2>2. \A r \in D : Minus(b.levels[s][r], q) \in Word
    BY <2>1, WordArithmetic, WordIsNat
  <2>3. row \in [D -> Word]
    BY <2>1, <2>2
  <2>4. QED BY <2>3 DEF Partial
<1>2. /\ c.orders = b.orders /\ c.dangling = b.dangling
      /\ c.levels = [b.levels EXCEPT ![s] = row]
      /\ c = [orders |-> c.orders, levels |-> c.levels, dangling |-> c.dangling]
  <2>1. b = [orders |-> b.orders, levels |-> b.levels, dangling |-> b.dangling]
    BY BookType
  <2>2. QED BY <2>1 DEF Debit
<1> HIDE DEF row
<1>3. c.levels \in [Sides -> Partial(Prices, Word)]
  BY <1>1, <1>2, BookType
<1>4. QED BY <1>2, <1>3, BookType DEF Books

LEMMA DebitLevelAny ==
  ASSUME NEW b \in Books, NEW i \in DOMAIN b.orders, NEW q \in Int,
         NEW c \in DebitLevel(b, i, q)
  PROVE  c \in Books /\ c.orders = b.orders /\ c.dangling = b.dangling
<1>1. b.orders[i].side \in Sides
  BY BookType DEF Orders
<1>2. \/ c = b
      \/ \E s \in Sides : \E p \in DOMAIN b.levels[s] : c = Debit(b, s, p, q)
      \/ c = Debit(b, b.orders[i].side, b.orders[i].price, q)
  BY DEF DebitLevel
<1>3. QED BY <1>1, <1>2, DebitAny

LEMMA EraseAny ==
  ASSUME NEW b \in Books, NEW i \in DOMAIN b.orders, NEW d \in EraseOrder(b, i)
  PROVE  d \in Books /\ d.orders = Drop(b.orders, i)
<1>1. ASSUME NEW c \in Books
      PROVE  DropOrder(c, i) \in Books /\ DropOrder(c, i).orders = Drop(c.orders, i)
  <2>1. Drop(c.orders, i) \in Partial(Ids, Orders)
    BY BookType, DropPartial
  <2>2. QED BY <2>1, BookType DEF DropOrder, Books
<1>2. ASSUME NEW c \in Books, NEW s \in Sides, NEW p,
             NEW e, e = EraseLevelIfEmpty(c, s, p)
      PROVE  e \in Books /\ e.orders = c.orders
  <2>1. CASE e = c
    BY <2>1
  <2>2. CASE e = [c EXCEPT !.levels[s] = Drop(@, p),
                           !.dangling = @ \cup StoredAt(c, s, p)]
    <3>1. Drop(c.levels[s], p) \in Partial(Prices, Word)
      BY BookType, DropPartial
    <3>2. StoredAt(c, s, p) \subseteq Ids
      BY BookType DEF StoredAt
    <3>3. /\ e.orders = c.orders
          /\ e.levels = [c.levels EXCEPT ![s] = Drop(@, p)]
          /\ e.dangling = c.dangling \cup StoredAt(c, s, p)
          /\ e = [orders |-> e.orders, levels |-> e.levels, dangling |-> e.dangling]
      <4>1. c = [orders |-> c.orders, levels |-> c.levels, dangling |-> c.dangling]
        BY BookType
      <4>2. QED BY <2>2, <4>1
    <3>4. e.levels \in [Sides -> Partial(Prices, Word)]
      BY <3>1, <3>3, BookType
    <3>5. QED BY <3>2, <3>3, <3>4, BookType DEF Books
  <2>3. QED BY <1>2, <2>1, <2>2 DEF EraseLevelIfEmpty
<1> DEFINE o == b.orders[i]
<1>3. o.side \in Sides /\ o.quantity \in Int
  BY BookType, ModulusAssumption DEF Orders, Word
<1>4. CASE HasLevel(b, o.side, o.price)
  <2>1. PICK c \in DebitLevel(b, i, o.quantity) :
               d = DropOrder(EraseLevelIfEmpty(c, o.side, o.price), i)
    BY <1>4 DEF EraseOrder
  <2>2. c \in Books /\ c.orders = b.orders
    BY <1>3, DebitLevelAny
  <2>3. QED BY <1>1, <1>2, <1>3, <2>1, <2>2
<1>5. CASE ~HasLevel(b, o.side, o.price)
  BY <1>1, <1>5 DEF EraseOrder
<1>6. QED BY <1>4, <1>5

(* The order with q less of its quantity, and all orders after that.       *)
Less(o, q) == [side |-> o.side, price |-> o.price, quantity |-> Minus(o.quantity, q)]

Afterwards(orders, i, q) ==
  IF Minus(orders[i].quantity, q) = 0
  THEN Drop(orders, i)
  ELSE [orders EXCEPT ![i] = Less(orders[i], q)]

LEMMA TakeAny ==
  ASSUME NEW b \in Books, NEW i \in DOMAIN b.orders, NEW q \in Nat,
         NEW c \in TakeQuantity(b, i, q)
  PROVE  c \in Books /\ c.orders = [b.orders EXCEPT ![i] = Less(b.orders[i], q)]
<1> DEFINE a == [b EXCEPT !.orders[i].quantity = Minus(@, q)]
<1>1. b.orders[i] \in Orders /\ Less(b.orders[i], q) \in Orders
  BY BookType, WordArithmetic, ModulusAssumption DEF Orders, Word, Less
<1>2. [b.orders[i] EXCEPT !.quantity = Minus(@, q)] = Less(b.orders[i], q)
  BY <1>1 DEF Less, Orders
<1>3. /\ a.orders = [b.orders EXCEPT ![i] = Less(b.orders[i], q)]
      /\ a.levels = b.levels /\ a.dangling = b.dangling
      /\ a = [orders |-> a.orders, levels |-> a.levels, dangling |-> a.dangling]
  BY <1>2, BookType
<1>4. a.orders \in Partial(Ids, Orders)
  <2>1. b.orders \in Partial(Ids, Orders)
    BY BookType
  <2>2. PICK D \in SUBSET Ids : b.orders \in [D -> Orders]
    BY <2>1 DEF Partial
  <2> HIDE DEF a
  <2>3. a.orders \in [D -> Orders]
    BY <1>1, <1>3, <2>2
  <2>4. QED BY <2>3 DEF Partial
<1>5. c \in DebitLevel(a, i, q)
  BY DEF TakeQuantity
<1> HIDE DEF a
<1>6. a \in Books /\ i \in DOMAIN a.orders
  BY <1>3, <1>4, BookType DEF Books
<1>7. c \in Books /\ c.orders = a.orders
  BY <1>5, <1>6, DebitLevelAny
<1>8. QED BY <1>3, <1>7

LEMMA TakenOrdersAny ==
  ASSUME NEW b \in Books, NEW i \in DOMAIN b.orders, NEW q \in Nat,
         NEW c \in TakeQuantity(b, i, q), NEW d \in EraseIfSpent(c, i)
  PROVE  d \in Books /\ d.orders = Afterwards(b.orders, i, q)
<1>1. /\ c \in Books /\ i \in DOMAIN c.orders
      /\ c.orders = [b.orders EXCEPT ![i] = Less(b.orders[i], q)]
  BY TakeAny
<1>2. c.orders[i].quantity = Minus(b.orders[i].quantity, q)
  BY <1>1 DEF Less
<1>3. Drop(c.orders, i) = Drop(b.orders, i)
  BY <1>1 DEF Drop
<1>4. CASE c.orders[i].quantity = 0
  BY <1>1, <1>2, <1>3, <1>4, EraseAny DEF EraseIfSpent, Afterwards
<1>5. CASE c.orders[i].quantity # 0
  BY <1>1, <1>2, <1>5 DEF EraseIfSpent, Afterwards
<1>6. QED BY <1>4, <1>5

LEMMA AddAny ==
  ASSUME NEW b \in Books, NEW i \in Ids, NEW s \in Sides, NEW p \in Prices, NEW q \in Word
  PROVE  /\ AddOrder(b, i, s, p, q) \in Books
         /\ AddOrder(b, i, s, p, q).orders =
              IF HasOrder(b, i) THEN b.orders
              ELSE Put(b.orders, i, [side |-> s, price |-> p, quantity |-> q])
<1> DEFINE c == AddOrder(b, i, s, p, q)
           order == [side |-> s, price |-> p, quantity |-> q]
           size == Plus(SizeAt(b, s, p), q)
           orders == IF HasOrder(b, i) THEN b.orders ELSE Put(b.orders, i, order)
           row == Put(b.levels[s], p, size)
<1>1. size \in Word
  <2>1. SizeAt(b, s, p) \in Int
    BY BookType, WordIsNat DEF SizeAt, HasLevel
  <2>2. QED BY <2>1, WordArithmetic, WordIsNat
<1>2. orders \in Partial(Ids, Orders)
  <2>1. order \in Orders
    BY DEF Orders
  <2>2. QED BY <2>1, BookType, PutPartial
<1>3. row \in Partial(Prices, Word)
  BY <1>1, BookType, PutPartial
<1>4. c = [b EXCEPT !.orders = orders, !.levels[s] = row]
  BY BookType DEF AddOrder
<1> HIDE DEF orders, row, size, c
<1>5. /\ c.orders = orders
      /\ c.levels = [b.levels EXCEPT ![s] = row]
      /\ c.dangling = b.dangling
      /\ c = [orders |-> c.orders, levels |-> c.levels, dangling |-> c.dangling]
  <2>1. b = [orders |-> b.orders, levels |-> b.levels, dangling |-> b.dangling]
    BY BookType
  <2>2. QED BY <1>4, <2>1
<1>6. c.levels \in [Sides -> Partial(Prices, Word)]
  BY <1>3, <1>5, BookType
<1>7. QED BY <1>2, <1>5, <1>6, BookType DEF Books, c, orders

LEMMA RemoveAny ==
  ASSUME NEW b \in Books, NEW i, NEW d \in RemoveOrder(b, i)
  PROVE  /\ d \in Books
         /\ d.orders = Drop(b.orders, i)
<1>1. CASE HasOrder(b, i)
  BY <1>1, EraseAny DEF RemoveOrder, HasOrder
<1>2. CASE ~HasOrder(b, i)
  <2>1. d = b
    BY <1>2 DEF RemoveOrder
  <2>2. b.orders = [x \in DOMAIN b.orders |-> b.orders[x]]
    BY BookType, PartialMember
  <2>3. QED BY <1>2, <2>1, <2>2 DEF HasOrder, Drop
<1>3. QED BY <1>1, <1>2

LEMMA CancelAny ==
  ASSUME NEW b \in Books, NEW i, NEW q \in Nat, NEW d \in CancelOrder(b, i, q)
  PROVE  /\ d \in Books
         /\ d.orders = IF HasOrder(b, i) THEN Afterwards(b.orders, i, q) ELSE b.orders
BY TakenOrdersAny DEF CancelOrder, HasOrder

LEMMA ExecuteAny ==
  ASSUME NEW b \in Books, NEW i, NEW q \in Nat, NEW r \in ExecuteOrder(b, i, q)
  PROVE  /\ r.book \in Books
         /\ HasOrder(b, i) =>
               /\ r.book.orders = Afterwards(b.orders, i, q)
               /\ r.execution.side = b.orders[i].side
               /\ r.execution.price = b.orders[i].price
               /\ r.execution.valid
         /\ ~HasOrder(b, i) => r.book = b /\ r.execution = NoExecution
<1>1. CASE HasOrder(b, i)
  <2>1. PICK c \in TakeQuantity(b, i, q) : \E n \in Remaining(c, i), d \in EraseIfSpent(c, i) :
               r = [book |-> d,
                    execution |-> [valid |-> TRUE, price |-> b.orders[i].price,
                                   side |-> b.orders[i].side, remaining |-> n]]
    BY <1>1 DEF ExecuteOrder
  <2>2. QED BY <1>1, <2>1, TakenOrdersAny DEF HasOrder
<1>2. CASE ~HasOrder(b, i)
  BY <1>2 DEF ExecuteOrder
<1>3. QED BY <1>1, <1>2

-----------------------------------------------------------------------------
(* A book that holds some orders, no more and no less.  The orders are     *)
(* those of an exchange: records that have these fields among others.      *)
Holds(b, os) ==
  /\ \A o, x \in os : o.id = x.id => o = x
  /\ DOMAIN b.orders = {o.id : o \in os}
  /\ \A o \in os : b.orders[o.id] = [side |-> o.side, price |-> o.price,
                                     quantity |-> o.quantity]

SharesOf(os) == {x \in os \X (1 .. Modulus) : x[2] <= x[1].quantity}

AtPrice(os, s, p) == {o \in os : o.side = s /\ o.price = p}

LEMMA HeldFields ==
  ASSUME NEW b, NEW os, Holds(b, os), NEW o \in os
  PROVE  /\ o.id \in DOMAIN b.orders
         /\ b.orders[o.id].side = o.side
         /\ b.orders[o.id].price = o.price
         /\ b.orders[o.id].quantity = o.quantity
<1>1. /\ o.id \in DOMAIN b.orders
      /\ b.orders[o.id] = [side |-> o.side, price |-> o.price, quantity |-> o.quantity]
  BY DEF Holds
<1>2. QED BY <1>1

(* Its levels are what those orders add up to.                             *)
LEMMA HeldShares ==
  ASSUME NEW b, Sound(b), NEW os, Holds(b, os), NEW s \in Sides, NEW p
  PROVE  /\ IsFiniteSet(SharesOf(AtPrice(os, s, p)))
         /\ Total(AtPrice(os, s, p)) = Cardinality(Shares(b, s, p))
<1> DEFINE A == AtPrice(os, s, p)
           T == SharesOf(A)
           S == Shares(b, s, p)
           F == [x \in T |-> <<x[1].id, x[2]>>]
<1>0. \A o \in os : /\ o.id \in DOMAIN b.orders
                    /\ b.orders[o.id].side = o.side
                    /\ b.orders[o.id].price = o.price
                    /\ b.orders[o.id].quantity = o.quantity
  BY HeldFields
<1>1. \A o \in A : /\ o.id \in StoredAt(b, s, p)
                   /\ b.orders[o.id].quantity = o.quantity
  BY <1>0 DEF StoredAt, AtPrice
<1>2. \A i \in StoredAt(b, s, p) : \E o \in A : o.id = i
  <2>1. \A i \in DOMAIN b.orders : \E o \in os : o.id = i
    BY DEF Holds
  <2>2. QED BY <1>0, <2>1 DEF StoredAt, AtPrice
<1>3. \A x : x \in T <=> /\ x = <<x[1], x[2]>> /\ x[1] \in A
                         /\ x[2] \in 1 .. Modulus /\ x[2] <= x[1].quantity
  BY DEF SharesOf
<1>4. \A x : x \in S <=> /\ x = <<x[1], x[2]>> /\ x[1] \in StoredAt(b, s, p)
                         /\ x[2] \in 1 .. Modulus
                         /\ x[2] <= b.orders[x[1]].quantity
  BY DEF Shares
<1>5. \A o, x \in A : o.id = x.id => o = x
  BY DEF Holds, AtPrice
<1> HIDE DEF A, T, S
<1>6. F \in [T -> S]
  <2>1. \A x \in T : <<x[1].id, x[2]>> \in S
    BY <1>1, <1>3, <1>4
  <2>2. QED BY <2>1
<1>7. \A x, y \in T : F[x] = F[y] => x = y
  BY <1>3, <1>5
<1>8. \A y \in S : \E x \in T : F[x] = y
  <2> SUFFICES ASSUME NEW y \in S PROVE \E x \in T : F[x] = y
    OBVIOUS
  <2>1. PICK o \in A : o.id = y[1]
    BY <1>2, <1>4
  <2>2. <<o, y[2]>> \in T
    BY <1>1, <1>3, <1>4, <2>1
  <2>3. F[<<o, y[2]>>] = y
    BY <1>4, <2>1, <2>2
  <2>4. QED BY <2>2, <2>3
<1>9. F \in Bijection(T, S)
  BY <1>6, <1>7, <1>8, Fun_IsBij
<1>10. F \in Injection(T, S) /\ F \in Surjection(T, S)
  BY <1>9 DEF Bijection
<1>11. IsFiniteSet(S)
  BY SharesFinite DEF S, Sound
<1> HIDE DEF F
<1>12. IsFiniteSet(T) /\ Cardinality(T) = Cardinality(S)
  BY <1>10, <1>11, FS_Injection
<1>13. QED BY <1>12 DEF Total, SharesOf, T, S, A

LEMMA HeldDepth ==
  ASSUME NEW b, Consistent(b), NEW os, Holds(b, os), NEW s \in Sides, NEW p \in Prices
  PROVE  /\ SizeAt(b, s, p) = Total(AtPrice(os, s, p))
         /\ HasLevel(b, s, p) <=> Total(AtPrice(os, s, p)) # 0
BY HeldShares, SizeIsShares, LevelNotEmpty DEF Consistent

(* One order more is its quantity more.                                    *)
LEMMA TotalMore ==
  ASSUME NEW os, IsFiniteSet(SharesOf(os)), NEW o, o \notin os,
         o.quantity \in Word
  PROVE  Total(os \cup {o}) = Total(os) + o.quantity
<1> DEFINE n == o.quantity
           own == {o} \X (1 .. n)
<1>1. n \in Nat /\ n < Modulus
  BY ModulusAssumption DEF Word
<1>2. IsFiniteSet(own) /\ Cardinality(own) = n
  BY <1>1, FirstShares
<1>3. SharesOf(os \cup {o}) = SharesOf(os) \cup own
  BY <1>1, ModulusAssumption DEF SharesOf
<1>4. SharesOf(os) \cap own = {}
  BY DEF SharesOf
<1> HIDE DEF own
<1>5. Cardinality(SharesOf(os \cup {o})) = Cardinality(SharesOf(os)) + n - Cardinality({})
  BY <1>2, <1>3, <1>4, FS_Union
<1>6. Cardinality(SharesOf(os)) \in Nat
  BY FS_CardinalityType
<1>7. QED BY <1>1, <1>5, <1>6, FS_EmptySet DEF Total, SharesOf

-----------------------------------------------------------------------------
(* What the operations do to the orders a book holds.                      *)
LEMMA HoldsNothing == Holds(EmptyBook, {})
BY DEF Holds, EmptyBook

LEMMA HoldsMore ==
  ASSUME NEW b \in Books, NEW os, Holds(b, os), NEW o, ~HasOrder(b, o.id)
  PROVE  Holds(AddOrder(b, o.id, o.side, o.price, o.quantity), os \cup {o})
<1> DEFINE c == AddOrder(b, o.id, o.side, o.price, o.quantity)
           order == [side |-> o.side, price |-> o.price, quantity |-> o.quantity]
<1>1. c.orders = Put(b.orders, o.id, order)
  <2>1. b = [orders |-> b.orders, levels |-> b.levels, dangling |-> b.dangling]
    BY BookType
  <2>2. QED BY <2>1 DEF AddOrder
<1> HIDE DEF c
<1>2. /\ o.id \notin DOMAIN b.orders
      /\ DOMAIN c.orders = DOMAIN b.orders \cup {o.id}
      /\ \A j \in DOMAIN b.orders : c.orders[j] = b.orders[j]
      /\ c.orders[o.id] = order
  BY <1>1 DEF HasOrder, Put
<1> HIDE DEF order
<1>3. \A x \in os : x.id \in DOMAIN b.orders
  BY DEF Holds
<1>4. \A x, y \in os \cup {o} : x.id = y.id => x = y
  BY <1>2, <1>3 DEF Holds
<1>5. DOMAIN c.orders = {x.id : x \in os \cup {o}}
  BY <1>2 DEF Holds
<1>6. \A x \in os \cup {o} : c.orders[x.id] = [side |-> x.side, price |-> x.price,
                                                quantity |-> x.quantity]
  BY <1>2, <1>3 DEF Holds, order
<1>7. QED BY <1>4, <1>5, <1>6 DEF Holds, c

LEMMA HoldsFewer ==
  ASSUME NEW b, NEW os, Holds(b, os), NEW o \in os, NEW c,
         c.orders = Drop(b.orders, o.id)
  PROVE  Holds(c, os \ {o})
BY DEF Holds, Drop

(* x is what is left of o.                                                 *)
LEMMA HoldsTaken ==
  ASSUME NEW b, NEW os, Holds(b, os), NEW o \in os, o.quantity \in Word,
         NEW q \in Nat, q <= o.quantity,
         NEW c, c.orders = Afterwards(b.orders, o.id, q),
         NEW x, x.id = o.id, x.side = o.side, x.price = o.price,
         x.quantity = o.quantity - q
  PROVE  Holds(c, (os \ {o}) \cup (IF q = o.quantity THEN {} ELSE {x}))
<1> DEFINE i == o.id
<1>1. /\ i \in DOMAIN b.orders /\ b.orders[i].side = o.side
      /\ b.orders[i].price = o.price /\ b.orders[i].quantity = o.quantity
  BY HeldFields
<1>2. Minus(o.quantity, q) = o.quantity - q /\ o.quantity \in Nat
  BY MinusExact, ModulusAssumption DEF Word
<1>3. CASE q = o.quantity
  <2>1. c.orders = Drop(b.orders, i)
    BY <1>1, <1>2, <1>3 DEF Afterwards
  <2>2. QED BY <1>3, <2>1, HoldsFewer
<1>4. CASE q # o.quantity
  <2>1. c.orders = [b.orders EXCEPT ![i] = Less(b.orders[i], q)]
    BY <1>1, <1>2, <1>4 DEF Afterwards
  <2>2. Less(b.orders[i], q) = [side |-> x.side, price |-> x.price, quantity |-> x.quantity]
    BY <1>1, <1>2 DEF Less
  <2>3. Holds(c, (os \ {o}) \cup {x})
    BY <1>1, <2>1, <2>2 DEF Holds
  <2>4. QED BY <1>4, <2>3
<1>5. QED BY <1>3, <1>4

-----------------------------------------------------------------------------
(* The handlers' clocks: a time taken apart and put together again.        *)
LEMMA TimesMonotone ==
  ASSUME NEW n \in Nat, NEW a \in Nat, NEW b \in Nat, a < b
  PROVE  n * a + n <= n * b
<1>1. PICK k \in Nat : b = a + 1 + k
  <2>1. b - a - 1 \in Nat /\ b = a + 1 + (b - a - 1)
    OBVIOUS
  <2>2. QED BY <2>1
<1>2. n * b = n * a + n + n * k
  BY <1>1
<1>3. n * k \in Nat /\ n * a \in Nat
  OBVIOUS
<1>4. QED BY <1>2, <1>3

LEMMA DivMod ==
  ASSUME NEW c \in Nat, NEW n \in Nat \ {0}
  PROVE  /\ c \div n \in Nat /\ c % n \in 0 .. n - 1
         /\ c = n * (c \div n) + (c % n)
  OBVIOUS

LEMMA DivUnique ==
  ASSUME NEW n \in Nat \ {0}, NEW a \in Nat, NEW r \in Nat, r < n
  PROVE  (n * a + r) \div n = a
<1> DEFINE c == n * a + r
           d == c \div n
<1>0. n * a \in Nat /\ c \in Nat
  OBVIOUS
<1>1. d \in Nat /\ c % n \in 0 .. n - 1 /\ c = n * d + (c % n)
  <2> HIDE DEF c
  <2>1. QED BY <1>0, DivMod
<1>2. n * d <= n * a + r /\ n * a + r < n * d + n /\ n * d \in Nat
  <2> HIDE DEF d
  <2>1. n * d \in Nat
    BY <1>1
  <2>2. QED BY <1>0, <1>1, <2>1
<1>3. ~(d < a)
  <2> SUFFICES ASSUME d < a PROVE FALSE
    OBVIOUS
  <2> HIDE DEF d
  <2>1. n * d + n <= n * a
    BY <1>1, TimesMonotone
  <2>2. QED BY <1>0, <1>1, <1>2, <2>1
<1>4. ~(a < d)
  <2> SUFFICES ASSUME a < d PROVE FALSE
    OBVIOUS
  <2> HIDE DEF d
  <2>1. n * a + n <= n * d
    BY <1>1, TimesMonotone
  <2>2. QED BY <1>0, <1>1, <1>2, <2>1
<1> HIDE DEF d
<1>5. d = a
  BY <1>1, <1>3, <1>4
<1>6. QED BY <1>5 DEF d

(* Within a second the quotient stays.                                     *)
LEMMA DivStays ==
  ASSUME NEW c \in Nat, NEW n \in Nat \ {0}, (c + 1) % n # 0
  PROVE  (c + 1) \div n = c \div n
<1>1. PICK d \in Nat : d = c + 1
  OBVIOUS
<1> DEFINE q == d \div n
           r == d % n
<1>2. q \in Nat /\ r \in 0 .. n - 1 /\ d = n * q + r
  BY DivMod
<1>3. r # 0
  BY <1>1
<1> HIDE DEF q, r
<1>4. n * q \in Nat
  BY <1>2
<1>5. c = n * q + (r - 1) /\ r - 1 \in Nat /\ r - 1 < n
  BY <1>1, <1>2, <1>3, <1>4
<1>6. c \div n = q
  BY <1>2, <1>5, DivUnique
<1>7. QED BY <1>1, <1>6 DEF q

LEMMA DivBelow ==
  ASSUME NEW c \in Nat, NEW n \in Nat \ {0}
  PROVE  c \div n <= c
<1> DEFINE q == c \div n
           r == c % n
<1>1. q \in Nat /\ r \in 0 .. n - 1 /\ c = n * q + r
  BY DivMod
<1> HIDE DEF q, r
<1>2. PICK m \in Nat : n = m + 1
  <2>1. n - 1 \in Nat /\ n = (n - 1) + 1
    OBVIOUS
  <2>2. QED BY <2>1
<1>3. n * q = m * q + q /\ m * q \in Nat
  BY <1>1, <1>2
<1>4. q <= c
  BY <1>1, <1>3
<1>5. QED BY <1>4 DEF q

LEMMA DivMonotone ==
  ASSUME NEW c \in Nat, NEW d \in Nat, c <= d, NEW n \in Nat \ {0}
  PROVE  c \div n <= d \div n
<1> DEFINE a == c \div n
           b == d \div n
           r == c % n
           t == d % n
<1>1. /\ a \in Nat /\ r \in 0 .. n - 1 /\ c = n * a + r
      /\ b \in Nat /\ t \in 0 .. n - 1 /\ d = n * b + t
  BY DivMod
<1>2. ~(b < a)
  <2> SUFFICES ASSUME b < a PROVE FALSE
    OBVIOUS
  <2> HIDE DEF a, b, r, t
  <2>1. n * b + n <= n * a /\ n * a \in Nat /\ n * b \in Nat
    BY <1>1, TimesMonotone
  <2>2. QED BY <1>1, <2>1
<1> HIDE DEF a, b, r, t
<1>3. a <= b
  BY <1>1, <1>2
<1>4. QED BY <1>3 DEF a, b

(* The time told in two parts.                                             *)
LEMMA TimeSplit ==
  ASSUME NEW c \in Nat, NEW m \in Nat \ {0}, NEW n \in Nat \ {0}
  PROVE  /\ m * n \in Nat \ {0}
         /\ (c \div (m * n)) * m + (c % (m * n)) \div n = c \div n
<1> DEFINE s == m * n
           q == c \div s
           r == c % s
           a == r \div n
           t == r % n
<1>1. s \in Nat \ {0}
  OBVIOUS
<1>2. q \in Nat /\ r \in 0 .. s - 1 /\ c = s * q + r
  <2> HIDE DEF s
  <2>1. QED BY <1>1, DivMod
<1> HIDE DEF q, r
<1>3. r \in Nat
  BY <1>1, <1>2
<1>4. a \in Nat /\ t \in 0 .. n - 1 /\ r = n * a + t
  BY <1>3, DivMod
<1> HIDE DEF a, t
<1>5. c = n * (q * m + a) + t /\ q * m + a \in Nat
  <2>1. s * q = n * (q * m)
    BY <1>2
  <2>2. q * m \in Nat
    BY <1>2
  <2>3. n * (q * m + a) = n * (q * m) + n * a
    BY <1>4, <2>2
  <2>4. n * (q * m) \in Nat /\ n * a \in Nat
    BY <1>4, <2>2
  <2> HIDE DEF s
  <2>5. QED BY <1>2, <1>4, <2>1, <2>2, <2>3, <2>4
<1>6. c \div n = q * m + a
  <2> DEFINE k == q * m + a
  <2>1. k \in Nat /\ c = n * k + t
    BY <1>5
  <2> HIDE DEF k
  <2>2. c \div n = k
    BY <1>4, <2>1, DivUnique
  <2>3. QED BY <2>2 DEF k
<1>7. QED BY <1>1, <1>6 DEF s, q, r, a

-----------------------------------------------------------------------------
(* The queries by level.  A price's level is the number of better prices:  *)
(* that numbers the prices from 0 on, with none left out.                  *)
Better(S, s, p) == {r \in S : Before(s, r, p)}
Rank(S, s, p)   == Cardinality(Better(S, s, p))

LEMMA RankGrows ==
  ASSUME NEW S, S \subseteq Nat, IsFiniteSet(S), NEW s, NEW p \in S
  PROVE  /\ Rank(S, s, p) \in 0 .. Cardinality(S) - 1
         /\ \A q \in S : Before(s, p, q) => Rank(S, s, p) < Rank(S, s, q)
<1>1. \A q \in S : IsFiniteSet(Better(S, s, q)) /\ Cardinality(Better(S, s, q)) \in Nat
  BY FS_Subset, FS_CardinalityType DEF Better
<1>2. p \notin Better(S, s, p) /\ p \in Nat
  BY DEF Better, Before
<1>3. /\ IsFiniteSet(Better(S, s, p) \cup {p})
      /\ Cardinality(Better(S, s, p) \cup {p}) = Rank(S, s, p) + 1
  BY <1>1, <1>2, FS_AddElement DEF Rank
<1>4. Rank(S, s, p) \in 0 .. Cardinality(S) - 1
  <2>1. Better(S, s, p) \cup {p} \subseteq S
    BY DEF Better
  <2>2. Cardinality(Better(S, s, p) \cup {p}) <= Cardinality(S)
    BY <2>1, FS_Subset
  <2>3. Cardinality(S) \in Nat /\ Rank(S, s, p) \in Nat
    BY <1>1, FS_CardinalityType DEF Rank
  <2>4. QED BY <1>3, <2>2, <2>3
<1>5. ASSUME NEW q \in S, Before(s, p, q) PROVE Rank(S, s, p) < Rank(S, s, q)
  <2>1. Better(S, s, p) \cup {p} \subseteq Better(S, s, q)
    <3>1. p \in Better(S, s, q)
      BY <1>5 DEF Better
    <3>2. ASSUME NEW r \in S, Before(s, r, p) PROVE Before(s, r, q)
      <4>1. r \in Nat /\ p \in Nat /\ q \in Nat
        OBVIOUS
      <4>2. CASE s = "buy"
        BY <1>5, <3>2, <4>1, <4>2 DEF Before
      <4>3. CASE s # "buy"
        BY <1>5, <3>2, <4>1, <4>3 DEF Before
      <4>4. QED BY <4>2, <4>3
    <3>3. QED BY <3>1, <3>2 DEF Better
  <2>2. Cardinality(Better(S, s, p) \cup {p}) <= Cardinality(Better(S, s, q))
    BY <1>1, <2>1, FS_Subset
  <2>3. Rank(S, s, p) \in Nat /\ Rank(S, s, q) \in Nat
    BY <1>1 DEF Rank
  <2>4. QED BY <1>3, <2>2, <2>3 DEF Rank
<1>6. QED BY <1>4, <1>5

LEMMA RankIsOne ==
  ASSUME NEW S, S \subseteq Nat, IsFiniteSet(S), NEW s, NEW p \in S, NEW q \in S,
         Rank(S, s, p) = Rank(S, s, q)
  PROVE  p = q
<1>1. p \in Nat /\ q \in Nat /\ Rank(S, s, p) \in Int /\ Rank(S, s, q) \in Int
  <2>1. Cardinality(S) \in Nat
    BY FS_CardinalityType
  <2>2. Rank(S, s, p) \in 0 .. Cardinality(S) - 1 /\ Rank(S, s, q) \in 0 .. Cardinality(S) - 1
    BY RankGrows
  <2>3. QED BY <2>1, <2>2
<1>2. ~Before(s, p, q) /\ ~Before(s, q, p)
  <2>1. Before(s, p, q) => Rank(S, s, p) < Rank(S, s, q)
    BY RankGrows
  <2>2. Before(s, q, p) => Rank(S, s, q) < Rank(S, s, p)
    BY RankGrows
  <2>3. QED BY <1>1, <2>1, <2>2
<1>3. QED BY <1>1, <1>2 DEF Before

LEMMA RankReached ==
  ASSUME NEW S, S \subseteq Nat, IsFiniteSet(S), NEW s, NEW n \in 0 .. Cardinality(S) - 1
  PROVE  \E p \in S : Rank(S, s, p) = n
<1> DEFINE T == 0 .. Cardinality(S) - 1
           f == [p \in S |-> Rank(S, s, p)]
<1>1. IsFiniteSet(T) /\ Cardinality(T) = Cardinality(S)
  <2>1. Cardinality(S) \in Nat
    BY FS_CardinalityType
  <2>2. QED BY <2>1, FS_Interval
<1>2. f \in Injection(S, T)
  <2>1. f \in [S -> T]
    BY RankGrows
  <2>2. \A p, q \in S : f[p] = f[q] => p = q
    BY RankIsOne
  <2> HIDE DEF f
  <2>3. QED BY <2>1, <2>2 DEF Injection, IsInjective
<1>3. f \in Surjection(S, T)
  BY <1>1, <1>2, FS_Injection
<1>4. QED BY <1>3 DEF Surjection

(* So bid_level and ask_level find the price of that rank and no other.    *)
LEMMA LevelRanked ==
  ASSUME NEW b, Sound(b), Prices \subseteq Nat, NEW s \in Sides
  PROVE  /\ LevelCount(b, s) \in Nat
         /\ \A n \in 0 .. LevelCount(b, s) - 1 :
              \E p \in DOMAIN b.levels[s] :
                /\ Rank(DOMAIN b.levels[s], s, p) = n
                /\ PricesAt(b, s, n) = {p}
                /\ LevelAt(b, s, n) = [price |-> p, size |-> b.levels[s][p]]
         /\ \A n \in Nat : n >= LevelCount(b, s) =>
              PricesAt(b, s, n) = {} /\ LevelAt(b, s, n) = [price |-> 0, size |-> 0]
<1> DEFINE S == DOMAIN b.levels[s]
<1>1. S \subseteq Nat
  BY BookType DEF Sound
<1>2. IsFiniteSet(S)
  <2> DEFINE priceOf == [i \in DOMAIN b.orders |-> b.orders[i].price]
             T == {priceOf[i] : i \in DOMAIN b.orders}
  <2>1. IsFiniteSet(T)
    <3>1. priceOf \in Surjection(DOMAIN b.orders, T)
      BY DEF Surjection
    <3>2. IsFiniteSet(DOMAIN b.orders)
      BY DEF Sound
    <3>3. QED BY <3>1, <3>2, FS_Surjection
  <2>2. S \subseteq T
    BY DEF Sound, LevelsMatch, StoredAt
  <2>3. QED BY <2>1, <2>2, FS_Subset
<1>3. \A n : PricesAt(b, s, n) = {p \in S : Rank(S, s, p) = n}
  BY DEF PricesAt, Rank, Better
<1>4. LevelCount(b, s) = Cardinality(S) /\ LevelCount(b, s) \in Nat
  BY <1>2, FS_CardinalityType DEF LevelCount
<1> HIDE DEF S
<1>5. ASSUME NEW n \in 0 .. Cardinality(S) - 1
      PROVE  \E p \in S : /\ Rank(S, s, p) = n /\ PricesAt(b, s, n) = {p}
                          /\ LevelAt(b, s, n) = [price |-> p, size |-> b.levels[s][p]]
  <2>1. PICK p \in S : Rank(S, s, p) = n
    BY <1>1, <1>2, RankReached
  <2>2. PricesAt(b, s, n) = {p}
    <3>1. \A r \in S : Rank(S, s, r) = n => r = p
      BY <1>1, <1>2, <2>1, RankIsOne
    <3>2. QED BY <1>3, <2>1, <3>1
  <2>3. (CHOOSE x \in PricesAt(b, s, n) : TRUE) = p
    BY <2>2
  <2>4. LevelAt(b, s, n) = [price |-> p, size |-> b.levels[s][p]]
    BY <2>2, <2>3 DEF LevelAt
  <2>5. QED BY <2>1, <2>2, <2>4
<1>6. ASSUME NEW n \in Nat, n >= Cardinality(S)
      PROVE  PricesAt(b, s, n) = {} /\ LevelAt(b, s, n) = [price |-> 0, size |-> 0]
  <2>1. \A p \in S : Rank(S, s, p) # n
    <3>1. Cardinality(S) \in Nat
      BY <1>4
    <3>2. \A p \in S : Rank(S, s, p) \in 0 .. Cardinality(S) - 1
      BY <1>1, <1>2, RankGrows
    <3>3. QED BY <1>6, <3>1, <3>2
  <2>2. PricesAt(b, s, n) = {}
    BY <1>3, <2>1
  <2>3. QED BY <2>2 DEF LevelAt
<1>7. QED BY <1>4, <1>5, <1>6 DEF S

=============================================================================
