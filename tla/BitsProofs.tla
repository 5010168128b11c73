----------------------------- MODULE BitsProofs -----------------------------
(***************************************************************************)
(* The integer puzzles of the data lab are the functions they are said to  *)
(* be on every word, where the runs check them on a few, and what the      *)
(* grader's score of one of them means.                                    *)
(***************************************************************************)
EXTENDS BTest, WellFoundedInduction, TLAPS

(***************************************************************************)
(* Places                                                                  *)
(***************************************************************************)

LEMMA LeastNatural ==
    ASSUME NEW S \in SUBSET Nat, S # {}
    PROVE  \E m \in S : \A n \in S : m <= n
<1>1. IsWellFoundedOn(OpToRel(<, Nat), Nat)
  BY NatLessThanWellFounded
<1>2. PICK m \in S : \A n \in S : ~ (<<n, m>> \in OpToRel(<, Nat))
  <2> HIDE DEF IsWellFoundedOn, OpToRel
  <2> QED BY <1>1, WFMin
<1>3. \A n \in S : ~ (n < m)
  BY <1>2 DEF OpToRel
<1> QED BY <1>3

LEMMA HighestPlace ==
    ASSUME NEW S \in SUBSET Bits, S # {}
    PROVE  \E m \in S : \A n \in S : n <= m
<1> DEFINE T == {31 - n : n \in S}
<1>1. T \in SUBSET Nat /\ T # {}
  <2>1. \A n \in S : 31 - n \in Nat
    BY DEF Bits
  <2>2. PICK n \in S : TRUE
    OBVIOUS
  <2>3. 31 - n \in T
    OBVIOUS
  <2> QED BY <2>1, <2>3
<1>2. PICK t \in T : \A u \in T : t <= u
  BY <1>1, LeastNatural
<1>3. PICK m \in S : t = 31 - m
  BY <1>2
<1>4. ASSUME NEW n \in S PROVE n <= m
  <2>1. 31 - n \in T
    OBVIOUS
  <2>2. 31 - m <= 31 - n
    BY <1>2, <1>3, <2>1
  <2> QED BY <2>2 DEF Bits
<1> QED BY <1>4

\* A set of places that holds the first and, with each, the next holds all.
LEMMA EveryPlace ==
    ASSUME NEW P \in SUBSET Bits, 0 \in P, \A i \in 0 .. 30 : i \in P => i + 1 \in P
    PROVE  P = Bits
<1> SUFFICES ASSUME Bits \ P # {} PROVE FALSE
  OBVIOUS
<1>1. Bits \ P \in SUBSET Nat
  BY DEF Bits
<1>2. PICK m \in Bits \ P : \A n \in Bits \ P : m <= n
  BY <1>1, LeastNatural
<1>3. m - 1 \in 0 .. 30 /\ m - 1 \in Bits /\ m - 1 + 1 = m /\ ~ (m <= m - 1)
  BY <1>2 DEF Bits
<1>4. m - 1 \in P
  BY <1>2, <1>3
<1> QED BY <1>2, <1>3, <1>4

(***************************************************************************)
(* Carries and borrows, place by place                                     *)
(***************************************************************************)

LEMMA CarryUp ==
    ASSUME NEW x, NEW y, NEW i \in 0 .. 30
    PROVE  Carry(x, y, i + 1) <=>
             \/ i \in x /\ i \in y
             \/ (i \in x \/ i \in y) /\ Carry(x, y, i)
<1>1. ASSUME Carry(x, y, i + 1) PROVE (i \in x /\ i \in y) \/ ((i \in x \/ i \in y) /\ Carry(x, y, i))
  <2>1. PICK j \in Bits : /\ j < i + 1 /\ j \in x /\ j \in y
                          /\ \A k \in Bits : j < k /\ k < i + 1 => k \in x \/ k \in y
    BY <1>1 DEF Carry
  <2>2. CASE j = i
    BY <2>1, <2>2
  <2>3. CASE j # i
    <3>1. j < i /\ i \in Bits
      BY <2>1, <2>3 DEF Bits
    <3>2. \A k \in Bits : j < k /\ k < i => k < i + 1
      BY DEF Bits
    <3>3. i \in x \/ i \in y
      BY <2>1, <3>1 DEF Bits
    <3>4. Carry(x, y, i)
      BY <2>1, <3>1, <3>2 DEF Carry
    <3> QED BY <3>3, <3>4
  <2> QED BY <2>2, <2>3
<1>2. ASSUME i \in x, i \in y PROVE Carry(x, y, i + 1)
  <2>1. i \in Bits /\ i < i + 1 /\ \A k \in Bits : ~ (i < k /\ k < i + 1)
    BY DEF Bits
  <2> QED BY <1>2, <2>1 DEF Carry
<1>3. ASSUME i \in x \/ i \in y, Carry(x, y, i) PROVE Carry(x, y, i + 1)
  <2>1. PICK j \in Bits : /\ j < i /\ j \in x /\ j \in y
                          /\ \A k \in Bits : j < k /\ k < i => k \in x \/ k \in y
    BY <1>3 DEF Carry
  <2>2. j < i + 1
    BY <2>1 DEF Bits
  <2>3. \A k \in Bits : k < i + 1 => k < i \/ k = i
    BY DEF Bits
  <2> QED BY <1>3, <2>1, <2>2, <2>3 DEF Carry
<1> QED BY <1>1, <1>2, <1>3

LEMMA NoCarry == ASSUME NEW x, NEW y PROVE ~Carry(x, y, 0)
BY DEF Carry, Bits

LEMMA Differ == \A p, q \in BOOLEAN : (p # q) <=> ~ (p <=> q)
OBVIOUS

LEMMA AddBit ==
    ASSUME NEW x, NEW y, NEW i \in Bits
    PROVE  i \in Add(x, y) <=> ((i \in x <=> i \in y) <=> Carry(x, y, i))
<1>1. i \in Xor(x, y) <=> ~ (i \in x <=> i \in y)
  BY DEF Xor
<1>2. i \in Add(x, y) <=> (i \in Xor(x, y)) # Carry(x, y, i)
  BY Zenon DEF Add
<1>3. Carry(x, y, i) \in BOOLEAN
  BY DEF Carry
<1>4. i \in Add(x, y) <=> ~ (i \in Xor(x, y) <=> Carry(x, y, i))
  BY <1>2, <1>3, Differ
<1> QED BY <1>1, <1>4

\* A one below place i, and a borrow of y - x into it.
Low(x, i) == \E j \in Bits : j < i /\ j \in x
Borrow(y, x, i) == Carry(x, Not(y), i)

LEMMA LowUp ==
    ASSUME NEW x, NEW i \in 0 .. 30
    PROVE  (Low(x, i + 1) <=> i \in x \/ Low(x, i)) /\ ~Low(x, 0)
<1>1. i \in Bits /\ i < i + 1 /\ \A j \in Bits : j < i + 1 <=> j < i \/ j = i
  BY DEF Bits
<1>2. \A j \in Bits : ~ (j < 0)
  BY DEF Bits
<1> QED BY <1>1, <1>2 DEF Low

LEMMA MinusBit ==
    ASSUME NEW x, NEW i \in Bits
    PROVE  i \in Minus(x) <=> ~ (i \in x <=> Low(x, i))
<1>1. i \in Minus(x) <=> (i \in x) # Low(x, i)
  BY Zenon DEF Minus, Low
<1>2. (i \in x) \in BOOLEAN /\ Low(x, i) \in BOOLEAN
  BY DEF Low
<1> QED BY <1>1, <1>2, Differ

LEMMA NotBit ==
    ASSUME NEW x, NEW i \in Bits
    PROVE  i \in Not(x) <=> i \notin x
BY DEF Not

LEMMA BorrowUp ==
    ASSUME NEW x, NEW y, NEW i \in 0 .. 30
    PROVE  /\ Borrow(y, x, i + 1) <=>
                \/ i \in x /\ i \notin y
                \/ (i \in x \/ i \notin y) /\ Borrow(y, x, i)
           /\ ~Borrow(y, x, 0)
<1>1. i \in Bits
  BY DEF Bits
<1> QED BY <1>1, CarryUp, NoCarry, NotBit DEF Borrow

LEMMA NextPlace == \A i \in 0 .. 30 : i \in Bits /\ i + 1 \in Bits /\ i + 1 # 0
BY DEF Bits

LEMMA OneBit == \A i \in Bits : i \in One <=> i = 0
BY DEF One

\* ~x + 1 is minus x.
LEMMA NotPlusOne ==
    ASSUME NEW x \in SUBSET Bits
    PROVE  Add(Not(x), One) = Minus(x)
<1> DEFINE P == {i \in Bits : i = 0 \/ (Carry(Not(x), One, i) <=> ~Low(x, i))}
<1>1. 0 \in P
  BY DEF Bits
<1>2. ASSUME NEW i \in 0 .. 30, i \in P PROVE i + 1 \in P
  <2>1. Carry(Not(x), One, i + 1) <=>
            (i \in Not(x) /\ i \in One) \/ ((i \in Not(x) \/ i \in One) /\ Carry(Not(x), One, i))
    BY CarryUp
  <2>2. i \in Bits /\ i + 1 \in Bits /\ (i \in Not(x) <=> i \notin x) /\ (i \in One <=> i = 0)
    BY NextPlace, NotBit, OneBit
  <2>3. Low(x, i + 1) <=> i \in x \/ Low(x, i)
    BY LowUp
  <2>4. CASE i = 0
    <3>1. ~Carry(Not(x), One, i) /\ ~Low(x, i)
      BY <2>4, NoCarry, LowUp
    <3> QED BY <2>1, <2>2, <2>3, <2>4, <3>1
  <2>5. CASE i # 0
    BY <1>2, <2>1, <2>2, <2>3, <2>5
  <2> QED BY <2>4, <2>5
<1>3. P = Bits
  <2> HIDE DEF P
  <2>1. P \in SUBSET Bits
    BY DEF P
  <2> QED BY <1>1, <1>2, <2>1, EveryPlace
<1>4. ASSUME NEW i \in Bits PROVE i \in Add(Not(x), One) <=> i \in Minus(x)
  <2>1. i = 0 \/ (Carry(Not(x), One, i) <=> ~Low(x, i))
    BY <1>3
  <2>2. i \in Add(Not(x), One) <=> ((i \in Not(x) <=> i \in One) <=> Carry(Not(x), One, i))
    BY AddBit
  <2>3. (i \in Minus(x) <=> ~ (i \in x <=> Low(x, i))) /\ (i \in Not(x) <=> i \notin x) /\ (i \in One <=> i = 0)
    BY MinusBit, NotBit, OneBit
  <2>4. CASE i = 0
    <3>1. ~Carry(Not(x), One, i) /\ ~Low(x, i)
      BY <2>4, NoCarry, LowUp
    <3> QED BY <2>2, <2>3, <2>4, <3>1
  <2>5. CASE i # 0
    BY <2>1, <2>2, <2>3, <2>5
  <2> QED BY <2>4, <2>5
<1>5. Add(Not(x), One) \subseteq Bits /\ Minus(x) \subseteq Bits
  BY DEF Add, Minus
<1> QED BY <1>4, <1>5

\* -x + y and y + ~x + 1 are both y - x: the difference with its borrow.
DiffBit(y, x, i) == (i \in x <=> i \in y) <=> Borrow(y, x, i)

LEMMA MinusPlus ==
    ASSUME NEW x \in SUBSET Bits, NEW y \in SUBSET Bits, NEW i \in Bits
    PROVE  i \in Add(Minus(x), y) <=> DiffBit(y, x, i)
<1> DEFINE P == {k \in Bits : /\ Borrow(y, x, k) <=> ~ (Low(x, k) <=> Carry(Minus(x), y, k))
                              /\ Borrow(y, x, k) => Low(x, k)}
<1>1. 0 \in P
  BY LowUp, BorrowUp, NoCarry DEF Bits
<1>2. ASSUME NEW k \in 0 .. 30, k \in P PROVE k + 1 \in P
  <2>1. Carry(Minus(x), y, k + 1) <=>
            (k \in Minus(x) /\ k \in y) \/ ((k \in Minus(x) \/ k \in y) /\ Carry(Minus(x), y, k))
    BY CarryUp
  <2>2. k \in Bits /\ k + 1 \in Bits /\ (k \in Minus(x) <=> ~ (k \in x <=> Low(x, k)))
    BY NextPlace, MinusBit
  <2>3. Low(x, k + 1) <=> k \in x \/ Low(x, k)
    BY LowUp
  <2>4. Borrow(y, x, k + 1) <=> (k \in x /\ k \notin y) \/ ((k \in x \/ k \notin y) /\ Borrow(y, x, k))
    BY BorrowUp
  <2> QED BY <1>2, <2>1, <2>2, <2>3, <2>4
<1>3. P = Bits
  <2> HIDE DEF P
  <2>1. P \in SUBSET Bits
    BY DEF P
  <2> QED BY <1>1, <1>2, <2>1, EveryPlace
<1>4. Borrow(y, x, i) <=> ~ (Low(x, i) <=> Carry(Minus(x), y, i))
  BY <1>3
<1>5. i \in Add(Minus(x), y) <=> ((i \in Minus(x) <=> i \in y) <=> Carry(Minus(x), y, i))
  BY AddBit
<1>6. i \in Minus(x) <=> ~ (i \in x <=> Low(x, i))
  BY MinusBit
<1> QED BY <1>4, <1>5, <1>6 DEF DiffBit

LEMMA PlusNotPlusOne ==
    ASSUME NEW x \in SUBSET Bits, NEW y \in SUBSET Bits, NEW i \in Bits
    PROVE  i \in Add(Add(y, Not(x)), One) <=> DiffBit(y, x, i)
<1>1. PICK a : a = Add(y, Not(x))
  OBVIOUS
<1> DEFINE P == {k \in Bits : k = 0 \/ /\ Borrow(y, x, k) <=> ~Carry(y, Not(x), k) /\ ~Carry(a, One, k)
                                       /\ ~ (Carry(y, Not(x), k) /\ Carry(a, One, k))}
<1>2. 0 \in P
  BY DEF Bits
<1>3. ASSUME NEW k \in Bits
      PROVE  /\ k \in a <=> ((k \in y <=> k \notin x) <=> Carry(y, Not(x), k))
             /\ k \in Not(x) <=> k \notin x
             /\ k \in One <=> k = 0
  BY <1>1, AddBit, NotBit, OneBit
<1>4. ASSUME NEW k \in 0 .. 30, k \in P PROVE k + 1 \in P
  <2>1. Carry(y, Not(x), k + 1) <=>
            (k \in y /\ k \in Not(x)) \/ ((k \in y \/ k \in Not(x)) /\ Carry(y, Not(x), k))
    BY CarryUp
  <2>2. Carry(a, One, k + 1) <=> (k \in a /\ k \in One) \/ ((k \in a \/ k \in One) /\ Carry(a, One, k))
    BY CarryUp
  <2>3. Borrow(y, x, k + 1) <=> (k \in x /\ k \notin y) \/ ((k \in x \/ k \notin y) /\ Borrow(y, x, k))
    BY BorrowUp
  <2>4. k \in Bits /\ k + 1 \in Bits
    BY NextPlace
  <2>5. /\ k \in a <=> ((k \in y <=> k \notin x) <=> Carry(y, Not(x), k))
        /\ k \in Not(x) <=> k \notin x
        /\ k \in One <=> k = 0
    BY <1>3, <2>4
  <2>6. CASE k = 0
    <3>1. ~Carry(y, Not(x), k) /\ ~Carry(a, One, k) /\ ~Borrow(y, x, k)
      BY <2>6, NoCarry, BorrowUp
    <3> QED BY <2>1, <2>2, <2>3, <2>4, <2>5, <2>6, <3>1
  <2>7. CASE k # 0
    BY <1>4, <2>1, <2>2, <2>3, <2>4, <2>5, <2>7
  <2> QED BY <2>6, <2>7
<1>5. P = Bits
  <2> HIDE DEF P
  <2>1. P \in SUBSET Bits
    BY DEF P
  <2> QED BY <1>2, <1>4, <2>1, EveryPlace
<1>6. i = 0 \/ /\ Borrow(y, x, i) <=> ~Carry(y, Not(x), i) /\ ~Carry(a, One, i)
               /\ ~ (Carry(y, Not(x), i) /\ Carry(a, One, i))
  BY <1>5
<1>7. i \in Add(a, One) <=> ((i \in a <=> i \in One) <=> Carry(a, One, i))
  BY AddBit
<1>8. CASE i = 0
  <2>1. ~Carry(y, Not(x), i) /\ ~Carry(a, One, i) /\ ~Borrow(y, x, i)
    BY <1>8, NoCarry, BorrowUp
  <2> QED BY <1>1, <1>3, <1>7, <1>8, <2>1 DEF DiffBit
<1>9. CASE i # 0
  BY <1>1, <1>3, <1>6, <1>7, <1>9 DEF DiffBit
<1> QED BY <1>8, <1>9

(***************************************************************************)
(* Puzzles without constants                                               *)
(***************************************************************************)

\* ~(~(~x & y) & ~(x & ~y)) is x ^ y, and 1 << 31 the least int.
LEMMA BitXorRight == ASSUME NEW x \in SUBSET Bits, NEW y \in SUBSET Bits PROVE bitXor(x, y) = Xor(x, y)
BY DEF bitXor, Xor, Not, And

LEMMA TminRight == tmin = test_tmin
BY DEF tmin, test_tmin, TMin, Shl, One, Bits

LEMMA NegateRight == ASSUME NEW x \in SUBSET Bits PROVE negate(x) = Minus(x)
BY NotPlusOne DEF negate

LEMMA SarBit ==
    ASSUME NEW x, NEW k \in Nat, NEW i \in Bits
    PROVE  /\ i + k > 31 => (i \in Sar(x, k) <=> 31 \in x)
           /\ i + k <= 31 => (i \in Sar(x, k) <=> i + k \in x)
BY DEF Sar, Bits

\* The sign of a word as a word.
LEMMA SignWord ==
    ASSUME NEW x \in SUBSET Bits
    PROVE  And(Sar(x, 31), One) = IF 31 \in x THEN One ELSE Zero
<1>1. 0 \in Bits /\ \A i \in Bits : (i + 31 > 31) \/ (i + 31 <= 31 /\ i + 31 = 31)
  BY DEF Bits
<1>2. ASSUME NEW i \in Bits PROVE i \in Sar(x, 31) <=> 31 \in x
  BY <1>1, SarBit
<1>3. Sar(x, 31) \subseteq Bits
  BY DEF Sar
<1>4. CASE 31 \in x
  BY <1>1, <1>2, <1>3, <1>4 DEF And, One
<1>5. CASE 31 \notin x
  BY <1>1, <1>2, <1>3, <1>5 DEF And, Zero
<1> QED BY <1>4, <1>5

LEMMA BangOf == /\ \A x : x = Zero => Bang(x) = One
                /\ \A x : x # Zero => Bang(x) = Zero
                /\ One # Zero
                /\ One \in SUBSET Bits /\ Zero \in SUBSET Bits
BY DEF Bang, Truth, One, Zero, Bits

LEMMA MinusOfBang == Minus(One) = Bits /\ Minus(Zero) = Zero
<1>1. ASSUME NEW i \in Bits PROVE i \in Minus(One) /\ i \notin Minus(Zero)
  <2>1. (Low(One, i) <=> i # 0) /\ ~Low(Zero, i)
    BY DEF Low, One, Zero, Bits
  <2> QED BY <2>1, MinusBit, OneBit DEF Zero
<1>2. Minus(One) \subseteq Bits /\ Minus(Zero) \subseteq Bits
  BY DEF Minus
<1> QED BY <1>1, <1>2 DEF Zero

LEMMA ConditionalRight ==
    ASSUME NEW x \in SUBSET Bits, NEW y \in SUBSET Bits, NEW z \in SUBSET Bits
    PROVE  conditional(x, y, z) = test_conditional(x, y, z)
<1>1. PICK mask : mask = Add(Not(Bang(x)), One)
  OBVIOUS
<1>2. conditional(x, y, z) = Or(And(y, Not(mask)), And(z, mask))
  BY <1>1 DEF conditional
<1>3. CASE x = Zero
  <2>1. mask = Bits
    BY <1>1, <1>3, BangOf, NotPlusOne, MinusOfBang
  <2> QED BY <1>2, <1>3, <2>1 DEF Or, And, Not, test_conditional
<1>4. CASE x # Zero
  <2>1. mask = Zero
    BY <1>1, <1>4, BangOf, NotPlusOne, MinusOfBang
  <2> QED BY <1>2, <1>4, <2>1 DEF Or, And, Not, test_conditional, Zero
<1> QED BY <1>3, <1>4

\* Of a word that is not 0 either it or its negation is negative.
LEMMA LogicalNegRight == ASSUME NEW x \in SUBSET Bits PROVE logicalNeg(x) = Bang(x)
<1>1. /\ logicalNeg(x) = Xor(Or(And(Sar(x, 31), One), And(Sar(Minus(x), 31), One)), One)
      /\ Minus(x) \in SUBSET Bits
  BY NotPlusOne DEF logicalNeg, Minus
<1>2. 31 \in Minus(x) <=> ~ (31 \in x <=> Low(x, 31))
  BY MinusBit DEF Bits
<1>3. x # Zero => 31 \in x \/ Low(x, 31)
  <2>1. \A i \in Bits : i = 31 \/ i < 31
    BY DEF Bits
  <2> QED BY <2>1 DEF Low, Zero
<1>4. x = Zero => 31 \notin x /\ ~Low(x, 31)
  BY DEF Low, Zero
<1>5. logicalNeg(x) = Xor(IF 31 \in x \/ 31 \in Minus(x) THEN One ELSE Zero, One)
  BY <1>1, SignWord DEF Or, Zero
<1>6. CASE x = Zero
  BY <1>2, <1>4, <1>5, <1>6, BangOf DEF Xor, Zero
<1>7. CASE x # Zero
  BY <1>2, <1>3, <1>5, <1>7, BangOf DEF Xor, Zero
<1> QED BY <1>6, <1>7

\* Words of one sign are in order exactly when their difference borrows
\* nothing into the sign.
LEMMA OrderIsNoBorrow ==
    ASSUME NEW x \in SUBSET Bits, NEW y \in SUBSET Bits, 31 \in x <=> 31 \in y
    PROVE  AtMost(x, y) <=> ~Borrow(y, x, 31)
<1>1. Borrow(y, x, 31) <=> \E j \in Bits : /\ j < 31 /\ j \in x \ y
                                           /\ \A k \in Bits : j < k /\ k < 31 => k \in x \/ k \notin y
  BY DEF Borrow, Carry, Not
<1>2. Below(x, y) <=> \E i \in y \ x : \A j \in Xor(x, y) : j <= i
  BY DEF Below
<1>3. CASE x = y
  BY <1>1, <1>3 DEF AtMost
<1>4. CASE x # y
  <2>1. Xor(x, y) \in SUBSET Bits /\ Xor(x, y) # {} /\ 31 \notin Xor(x, y)
    BY <1>4 DEF Xor
  <2>2. PICK m \in Xor(x, y) : \A n \in Xor(x, y) : n <= m
    BY <2>1, HighestPlace
  <2>3. m \in Bits /\ m < 31
    BY <2>1, <2>2 DEF Bits
  <2>4. CASE m \in y
    <3>1. Below(x, y)
      BY <1>2, <2>2, <2>4 DEF Xor
    <3>2. ASSUME NEW j \in Bits, j < 31, j \in x \ y,
                 \A k \in Bits : j < k /\ k < 31 => k \in x \/ k \notin y
          PROVE  FALSE
      <4>1. j \in Xor(x, y) /\ m \in y \ x
        BY <2>2, <2>4, <3>2 DEF Xor
      <4>2. j < m
        BY <2>2, <2>3, <3>2, <4>1 DEF Bits
      <4> QED BY <2>3, <3>2, <4>1, <4>2
    <3>3. ~Borrow(y, x, 31)
      BY <1>1, <3>2
    <3> QED BY <3>1, <3>3 DEF AtMost
  <2>5. CASE m \notin y
    <3>1. m \in x \ y
      BY <2>2, <2>5 DEF Xor
    <3>2. \A k \in Bits : m < k => k \notin Xor(x, y)
      BY <2>2, <2>3 DEF Bits
    <3>3. Borrow(y, x, 31)
      BY <1>1, <2>3, <3>1, <3>2 DEF Xor
    <3>4. \A i \in y \ x : i \in Xor(x, y) /\ i # m /\ i \in Bits
      BY <3>1 DEF Xor
    <3>5. ~Below(x, y)
      BY <1>2, <2>2, <2>3, <3>4 DEF Bits
    <3> QED BY <1>4, <3>3, <3>5 DEF AtMost
  <2> QED BY <2>4, <2>5
<1> QED BY <1>3, <1>4

LEMMA IsLessOrEqualRight ==
    ASSUME NEW x \in SUBSET Bits, NEW y \in SUBSET Bits
    PROVE  isLessOrEqual(x, y) = test_isLessOrEqual(x, y)
<1>1. PICK d : d = Add(Add(y, Not(x)), One)
  OBVIOUS
<1>2. d \in SUBSET Bits /\ (31 \in d <=> ((31 \in x <=> 31 \in y) <=> Borrow(y, x, 31)))
  <2>1. 31 \in Bits
    BY DEF Bits
  <2> QED BY <1>1, <2>1, PlusNotPlusOne DEF DiffBit, Add
<1>3. PICK xs, ys, less : /\ xs = (IF 31 \in x THEN One ELSE Zero)
                          /\ ys = (IF 31 \in y THEN One ELSE Zero)
                          /\ less = (IF 31 \in d THEN One ELSE Zero)
  OBVIOUS
<1>4. isLessOrEqual(x, y) = Or(And(xs, Xor(xs, ys)), Bang(Or(less, Xor(xs, ys))))
  BY <1>1, <1>2, <1>3, SignWord DEF isLessOrEqual
<1>5. CASE 31 \in x <=> 31 \in y
  <2>1. Xor(xs, ys) = Zero /\ Or(less, Zero) = less /\ And(xs, Zero) = Zero
    BY <1>3, <1>5 DEF Xor, Or, And, Zero
  <2>2. isLessOrEqual(x, y) = Bang(less)
    BY <1>4, <2>1 DEF Or, Zero, Bang, Truth
  <2>3. less = Zero <=> AtMost(x, y)
    <3>1. AtMost(x, y) <=> ~Borrow(y, x, 31)
      BY <1>5, OrderIsNoBorrow
    <3> QED BY <1>2, <1>3, <1>5, <3>1, BangOf
  <2> QED BY <2>2, <2>3, BangOf DEF test_isLessOrEqual, Truth
<1>6. CASE ~ (31 \in x <=> 31 \in y)
  <2>1. Xor(xs, ys) = One /\ And(xs, One) = xs /\ Bang(Or(less, One)) = Zero
    BY <1>3, <1>6, BangOf DEF Xor, Or, And, Zero, One
  <2>2. isLessOrEqual(x, y) = xs
    BY <1>4, <2>1 DEF Or, Zero
  <2>3. AtMost(x, y) <=> 31 \in x
    BY <1>6 DEF AtMost, Below
  <2> QED BY <1>3, <2>2, <2>3 DEF test_isLessOrEqual, Truth
<1> QED BY <1>5, <1>6

\* x + (x + 1) is x shifted by a place, with a one moved in.
LEMMA TwicePlusOne ==
    ASSUME NEW x \in SUBSET Bits
    PROVE  /\ 0 \in Add(x, Add(x, One))
           /\ \A i \in 0 .. 30 : i + 1 \in Add(x, Add(x, One)) <=> i \in x
<1>1. PICK s : s = Add(x, One)
  OBVIOUS
<1>2. ASSUME NEW k \in Bits
      PROVE  /\ k \in s <=> ((k \in x <=> k = 0) <=> Carry(x, One, k))
             /\ k \in Add(x, s) <=> ((k \in x <=> k \in s) <=> Carry(x, s, k))
             /\ k \in One <=> k = 0
  BY <1>1, AddBit, OneBit
<1>3. ~Carry(x, One, 0) /\ ~Carry(x, s, 0) /\ 0 \in Bits
  BY NoCarry DEF Bits
<1>4. ASSUME NEW k \in 0 .. 30
      PROVE  /\ Carry(x, One, k + 1) <=> (k \in x /\ k \in One) \/ ((k \in x \/ k \in One) /\ Carry(x, One, k))
             /\ Carry(x, s, k + 1) <=> (k \in x /\ k \in s) \/ ((k \in x \/ k \in s) /\ Carry(x, s, k))
             /\ k \in Bits /\ k + 1 \in Bits /\ k + 1 # 0
  BY CarryUp, NextPlace
<1> DEFINE P == {k \in Bits : ~ (Carry(x, One, k) /\ Carry(x, s, k))}
<1>5. 0 \in P
  BY <1>3
<1>6. ASSUME NEW k \in 0 .. 30, k \in P PROVE k + 1 \in P
  <2>1. CASE k = 0
    BY <1>2, <1>3, <1>4, <2>1
  <2>2. CASE k # 0
    BY <1>2, <1>4, <1>6, <2>2
  <2> QED BY <2>1, <2>2
<1>7. P = Bits
  <2> HIDE DEF P
  <2>1. P \in SUBSET Bits
    BY DEF P
  <2> QED BY <1>5, <1>6, <2>1, EveryPlace
<1>8. ASSUME NEW i \in 0 .. 30 PROVE i + 1 \in Add(x, s) <=> i \in x
  <2>1. i \in Bits /\ i + 1 \in Bits /\ i + 1 # 0
    BY <1>4
  <2>2. ~ (Carry(x, One, i) /\ Carry(x, s, i))
    BY <1>7, <2>1
  <2>3. i + 1 \in Add(x, s) <=> ~ (Carry(x, One, i + 1) <=> Carry(x, s, i + 1))
    BY <1>2, <2>1
  <2>4. CASE i = 0
    BY <1>2, <1>3, <1>4, <2>3, <2>4
  <2>5. CASE i # 0
    BY <1>2, <1>4, <2>1, <2>2, <2>3, <2>5
  <2> QED BY <2>4, <2>5
<1>9. 0 \in Add(x, s)
  BY <1>2, <1>3
<1> QED BY <1>1, <1>8, <1>9

\* Where the sum of the puzzle wraps, it is right; where the compiler takes
\* it for exact, the puzzle answers 0 for every word.
LEMMA IsTmaxRight ==
    ASSUME NEW x \in SUBSET Bits
    PROVE  /\ isTmax(x, TRUE) = test_isTmax(x)
           /\ isTmax(x, FALSE) = test_isTmax(x) <=> x # TMax
<1>1. PICK d : d = Add(x, Add(x, One))
  OBVIOUS
<1>2. d \in SUBSET Bits /\ 0 \in d /\ \A i \in 0 .. 30 : i + 1 \in d <=> i \in x
  BY <1>1, TwicePlusOne DEF Add
<1>3. d = Bits <=> 0 .. 30 \subseteq x
  <2>1. ASSUME d = Bits PROVE 0 .. 30 \subseteq x
    BY <1>2, <2>1, NextPlace
  <2>2. ASSUME 0 .. 30 \subseteq x PROVE d = Bits
    <3>1. \A i \in Bits : i # 0 => i - 1 \in 0 .. 30 /\ i - 1 + 1 = i
      BY DEF Bits
    <3> QED BY <1>2, <2>2, <3>1
  <2> QED BY <2>1, <2>2
<1>4. 0 .. 30 \subseteq x <=> x = Bits \/ x = TMax
  <2>1. \A i : i \in Bits <=> i \in 0 .. 30 \/ i = 31
    BY DEF Bits
  <2>2. ~ (31 \in 0 .. 30)
    OBVIOUS
  <2> QED BY <2>1, <2>2 DEF TMax
<1>5. Bits # TMax /\ Not(Bits) = Zero /\ \A w \in SUBSET Bits : Not(w) = Zero <=> w = Bits
  <2>1. 31 \in Bits
    BY DEF Bits
  <2> QED BY <2>1 DEF TMax, Not, Zero
<1>6. isTmax(x, TRUE) = Xor(Bang(Not(d)), Bang(Not(x)))
  BY <1>1 DEF isTmax
<1>7. isTmax(x, FALSE) = Zero
  <2>1. isTmax(x, FALSE) = Xor(Bang(Not(IF x = Bits THEN Bits ELSE Zero)), Bang(Not(x)))
    BY DEF isTmax, MinusOne
  <2>2. Zero \in SUBSET Bits /\ Zero # Bits
    BY DEF Zero, Bits
  <2>3. CASE x = Bits
    BY <2>1, <2>3 DEF Xor, Zero
  <2>4. CASE x # Bits
    BY <1>5, <2>1, <2>2, <2>4, BangOf DEF Xor, Zero
  <2> QED BY <2>3, <2>4
<1>8. isTmax(x, TRUE) = test_isTmax(x)
  <2>1. CASE x = TMax
    BY <1>2, <1>3, <1>4, <1>5, <1>6, <2>1, BangOf DEF Xor, Zero, test_isTmax, Truth
  <2>2. CASE x = Bits
    BY <1>2, <1>3, <1>4, <1>5, <1>6, <2>2, BangOf DEF Xor, Zero, test_isTmax, Truth
  <2>3. CASE x # TMax /\ x # Bits
    BY <1>2, <1>3, <1>4, <1>5, <1>6, <2>3, BangOf DEF Xor, Zero, test_isTmax, Truth
  <2> QED BY <2>1, <2>2, <2>3
<1>9. isTmax(x, FALSE) = test_isTmax(x) <=> x # TMax
  BY <1>7, BangOf DEF test_isTmax, Truth
<1> QED BY <1>8, <1>9

(***************************************************************************)
(* Puzzles with constants                                                  *)
(***************************************************************************)

\* The places of a number below 128.
LEMMA HighPowers ==
    \A i \in 7 .. 30 : \A n \in 0 .. 127 : n \div (2^i) = 0
<1> SUFFICES ASSUME NEW i \in 7 .. 30 PROVE 2^i \in Nat /\ 2^i > 127
  <2>1. \A n \in 0 .. 127, d \in Nat : d > 127 => n \div d = 0
    BY SMT
  <2> QED BY <2>1
<1>1. CASE i \in 7 .. 14
  <2>7. i = 7 => 2^i \in Nat /\ 2^i > 127
    BY SMT
  <2>8. i = 8 => 2^i \in Nat /\ 2^i > 127
    BY SMT
  <2>9. i = 9 => 2^i \in Nat /\ 2^i > 127
    BY SMT
  <2>10. i = 10 => 2^i \in Nat /\ 2^i > 127
    BY SMT
  <2>11. i = 11 => 2^i \in Nat /\ 2^i > 127
    BY SMT
  <2>12. i = 12 => 2^i \in Nat /\ 2^i > 127
    BY SMT
  <2>13. i = 13 => 2^i \in Nat /\ 2^i > 127
    BY SMT
  <2>14. i = 14 => 2^i \in Nat /\ 2^i > 127
    BY SMT
  <2>1. i = 7 \/ i = 8 \/ i = 9 \/ i = 10 \/ i = 11 \/ i = 12 \/ i = 13 \/ i = 14
    BY <1>1
  <2> QED BY <2>1, <2>7, <2>8, <2>9, <2>10, <2>11, <2>12, <2>13, <2>14
<1>2. CASE i \in 15 .. 22
  <2>15. i = 15 => 2^i \in Nat /\ 2^i > 127
    BY SMT
  <2>16. i = 16 => 2^i \in Nat /\ 2^i > 127
    BY SMT
  <2>17. i = 17 => 2^i \in Nat /\ 2^i > 127
    BY SMT
  <2>18. i = 18 => 2^i \in Nat /\ 2^i > 127
    BY SMT
  <2>19. i = 19 => 2^i \in Nat /\ 2^i > 127
    BY SMT
  <2>20. i = 20 => 2^i \in Nat /\ 2^i > 127
    BY SMT
  <2>21. i = 21 => 2^i \in Nat /\ 2^i > 127
    BY SMT
  <2>22. i = 22 => 2^i \in Nat /\ 2^i > 127
    BY SMT
  <2>1. i = 15 \/ i = 16 \/ i = 17 \/ i = 18 \/ i = 19 \/ i = 20 \/ i = 21 \/ i = 22
    BY <1>2
  <2> QED BY <2>1, <2>15, <2>16, <2>17, <2>18, <2>19, <2>20, <2>21, <2>22
<1>3. CASE i \in 23 .. 30
  <2>23. i = 23 => 2^i \in Nat /\ 2^i > 127
    BY SMT
  <2>24. i = 24 => 2^i \in Nat /\ 2^i > 127
    BY SMT
  <2>25. i = 25 => 2^i \in Nat /\ 2^i > 127
    BY SMT
  <2>26. i = 26 => 2^i \in Nat /\ 2^i > 127
    BY SMT
  <2>27. i = 27 => 2^i \in Nat /\ 2^i > 127
    BY SMT
  <2>28. i = 28 => 2^i \in Nat /\ 2^i > 127
    BY SMT
  <2>29. i = 29 => 2^i \in Nat /\ 2^i > 127
    BY SMT
  <2>30. i = 30 => 2^i \in Nat /\ 2^i > 127
    BY SMT
  <2>1. i = 23 \/ i = 24 \/ i = 25 \/ i = 26 \/ i = 27 \/ i = 28 \/ i = 29 \/ i = 30
    BY <1>3
  <2> QED BY <2>1, <2>23, <2>24, <2>25, <2>26, <2>27, <2>28, <2>29, <2>30
<1> QED BY <1>1, <1>2, <1>3

LEMMA SmallWord ==
    ASSUME NEW n \in 0 .. 127
    PROVE  /\ \A i : i \in Word(n) => i \in 0 .. 6
           /\ 0 \in Word(n) <=> n % 2 = 1
           /\ 1 \in Word(n) <=> (n \div 2) % 2 = 1
           /\ 2 \in Word(n) <=> (n \div 4) % 2 = 1
           /\ 3 \in Word(n) <=> (n \div 8) % 2 = 1
           /\ 4 \in Word(n) <=> (n \div 16) % 2 = 1
           /\ 5 \in Word(n) <=> (n \div 32) % 2 = 1
           /\ 6 \in Word(n) <=> (n \div 64) % 2 = 1
<1>1. \A i : i \in Word(n) <=> i \in 0 .. 30 /\ (n \div (2^i)) % 2 = 1
  BY DEF Word
<1>2. \A i \in 7 .. 30 : n \div (2^i) = 0
  BY HighPowers
<1>3. ASSUME NEW i \in Word(n) PROVE i \in 0 .. 6
  <2>1. i \in 0 .. 30 /\ (n \div (2^i)) % 2 = 1
    BY <1>1
  <2>2. CASE i \in 7 .. 30
    <3>1. n \div (2^i) = 0
      BY <1>2, <2>2
    <3>2. 0 % 2 = 0
      OBVIOUS
    <3>3. (n \div (2^i)) % 2 = 0
      BY Zenon, <3>1, <3>2
    <3> QED BY <2>1, <3>3
  <2> QED BY <2>1, <2>2
<1>4. ASSUME NEW i \in 0 .. 6
      PROVE  /\ i = 0 => 2^i = 1
             /\ i = 1 => 2^i = 2
             /\ i = 2 => 2^i = 4
             /\ i = 3 => 2^i = 8
             /\ i = 4 => 2^i = 16
             /\ i = 5 => 2^i = 32
             /\ i = 6 => 2^i = 64
  <2>1. i = 0 => 2^i = 1
    BY SMT
  <2>2. i = 1 => 2^i = 2
    BY SMT
  <2>3. i = 2 => 2^i = 4
    BY SMT
  <2>4. i = 3 => 2^i = 8
    BY SMT
  <2>5. i = 4 => 2^i = 16
    BY SMT
  <2>6. i = 5 => 2^i = 32
    BY SMT
  <2>7. i = 6 => 2^i = 64
    BY SMT
  <2> QED BY <2>1, <2>2, <2>3, <2>4, <2>5, <2>6, <2>7
<1>5. ASSUME NEW i \in 0 .. 6 PROVE i \in Word(n) <=> (n \div (2^i)) % 2 = 1
  <2>1. i \in 0 .. 30
    OBVIOUS
  <2> QED BY Zenon, <1>1, <2>1
<1>6. 0 \in Word(n) <=> (n \div 1) % 2 = 1
  <2>1. PICK i \in 0 .. 6 : i = 0
    OBVIOUS
  <2> QED BY <1>4, <1>5, <2>1
<1>7. 1 \in Word(n) <=> (n \div 2) % 2 = 1
  <2>1. PICK i \in 0 .. 6 : i = 1
    OBVIOUS
  <2> QED BY <1>4, <1>5, <2>1
<1>8. 2 \in Word(n) <=> (n \div 4) % 2 = 1
  <2>1. PICK i \in 0 .. 6 : i = 2
    OBVIOUS
  <2> QED BY <1>4, <1>5, <2>1
<1>9. 3 \in Word(n) <=> (n \div 8) % 2 = 1
  <2>1. PICK i \in 0 .. 6 : i = 3
    OBVIOUS
  <2> QED BY <1>4, <1>5, <2>1
<1>10. 4 \in Word(n) <=> (n \div 16) % 2 = 1
  <2>1. PICK i \in 0 .. 6 : i = 4
    OBVIOUS
  <2> QED BY <1>4, <1>5, <2>1
<1>11. 5 \in Word(n) <=> (n \div 32) % 2 = 1
  <2>1. PICK i \in 0 .. 6 : i = 5
    OBVIOUS
  <2> QED BY <1>4, <1>5, <2>1
<1>12. 6 \in Word(n) <=> (n \div 64) % 2 = 1
  <2>1. PICK i \in 0 .. 6 : i = 6
    OBVIOUS
  <2> QED BY <1>4, <1>5, <2>1
<1>13. n \div 1 = n
  OBVIOUS
<1> QED BY <1>3, <1>6, <1>7, <1>8, <1>9, <1>10, <1>11, <1>12, <1>13

LEMMA WordsUsed ==
    /\ Word(3) = {0, 1} /\ Word(9) = {0, 3} /\ Word(15) = {0, 1, 2, 3} /\ Word(85) = {0, 2, 4, 6}
    /\ Word(48) = {4, 5} /\ Word(49) = {0, 4, 5} /\ Word(50) = {1, 4, 5}
    /\ Word(51) = {0, 1, 4, 5} /\ Word(52) = {2, 4, 5} /\ Word(53) = {0, 2, 4, 5}
    /\ Word(54) = {1, 2, 4, 5} /\ Word(55) = {0, 1, 2, 4, 5} /\ Word(56) = {3, 4, 5}
    /\ Word(57) = {0, 3, 4, 5}
<1>1. \A i \in 0 .. 6 : i = 0 \/ i = 1 \/ i = 2 \/ i = 3 \/ i = 4 \/ i = 5 \/ i = 6
  OBVIOUS
<1>2. Word(3) = {0, 1}
  BY <1>1, SmallWord
<1>3. Word(9) = {0, 3}
  BY <1>1, SmallWord
<1>4. Word(15) = {0, 1, 2, 3}
  BY <1>1, SmallWord
<1>5. Word(85) = {0, 2, 4, 6}
  BY <1>1, SmallWord
<1>6. Word(48) = {4, 5}
  BY <1>1, SmallWord
<1>7. Word(49) = {0, 4, 5}
  BY <1>1, SmallWord
<1>8. Word(50) = {1, 4, 5}
  BY <1>1, SmallWord
<1>9. Word(51) = {0, 1, 4, 5}
  BY <1>1, SmallWord
<1>10. Word(52) = {2, 4, 5}
  BY <1>1, SmallWord
<1>11. Word(53) = {0, 2, 4, 5}
  BY <1>1, SmallWord
<1>12. Word(54) = {1, 2, 4, 5}
  BY <1>1, SmallWord
<1>13. Word(55) = {0, 1, 2, 4, 5}
  BY <1>1, SmallWord
<1>14. Word(56) = {3, 4, 5}
  BY <1>1, SmallWord
<1>15. Word(57) = {0, 3, 4, 5}
  BY <1>1, SmallWord
<1> QED BY <1>2, <1>3, <1>4, <1>5, <1>6, <1>7, <1>8, <1>9, <1>10, <1>11, <1>12, <1>13, <1>14, <1>15

\* 0x55 shifted and or'ed twice is the even places.
LEMMA AllOddBitsRight ==
    ASSUME NEW x \in SUBSET Bits
    PROVE  allOddBits(x) = test_allOddBits(x)
<1>1. PICK t1, t2, t : t1 = {0, 2, 4, 6} /\ t2 = Or(t1, Shl(t1, 8)) /\ t = Or(t2, Shl(t2, 16))
  OBVIOUS
<1>2. allOddBits(x) = Bang(Not(Or(t, x)))
  BY <1>1, WordsUsed DEF allOddBits
<1>3. \A i \in Bits : i \in t2 <=> i = 0 \/ i = 2 \/ i = 4 \/ i = 6 \/ i = 8 \/ i = 10 \/ i = 12 \/ i = 14
  <2>1. \A i \in Bits : i \in Shl(t1, 8) <=> i - 8 \in t1
    BY DEF Shl
  <2> QED BY <1>1, <2>1 DEF Or, Bits
<1>4. \A i \in Bits : i \in t <=> i \in t2 \/ i - 16 \in t2
  BY <1>1 DEF Or, Shl
<1>5. ASSUME NEW i \in Bits PROVE i \in t <=> i % 2 = 0
  <2>1. CASE i < 16
    <3>1. i - 16 \notin t2
      BY <1>1, <2>1 DEF Or, Shl, Bits
    <3> QED BY <1>3, <1>4, <2>1, <3>1 DEF Bits
  <2>2. CASE i >= 16
    <3>1. i - 16 \in Bits
      BY <2>2 DEF Bits
    <3> QED BY <1>3, <1>4, <2>2, <3>1 DEF Bits
  <2> QED BY <2>1, <2>2 DEF Bits
<1>6. \A i \in Bits : i % 2 = 0 \/ i % 2 = 1
  BY DEF Bits
<1>7. Not(Or(t, x)) = Zero <=> \A i \in Bits : i % 2 = 1 => i \in x
  BY <1>5, <1>6 DEF Not, Or, Zero
<1> QED BY <1>2, <1>7, BangOf DEF test_allOddBits, Truth

\* The digits: 4 and 5 alone of the high bits, and 3 not with 1 or 2.
Digit(x) == /\ \A i \in 4 .. 31 : i \in x <=> i \in {4, 5}
            /\ ~ (3 \in x /\ (1 \in x \/ 2 \in x))

LEMMA DigitWords ==
    ASSUME NEW x \in SUBSET Bits
    PROVE  x \in {Word(n) : n \in 48 .. 57} <=> Digit(x)
<1> DEFINE D == {{4, 5}, {0, 4, 5}, {1, 4, 5}, {0, 1, 4, 5}, {2, 4, 5}, {0, 2, 4, 5},
                 {1, 2, 4, 5}, {0, 1, 2, 4, 5}, {3, 4, 5}, {0, 3, 4, 5}}
<1>1. {Word(n) : n \in 48 .. 57} = D
  <2>1. \A n : n \in 48 .. 57 <=> \/ n = 48 \/ n = 49 \/ n = 50 \/ n = 51 \/ n = 52
                                  \/ n = 53 \/ n = 54 \/ n = 55 \/ n = 56 \/ n = 57
    OBVIOUS
  <2>2. ASSUME NEW n \in 48 .. 57 PROVE Word(n) \in D
    BY <2>1, WordsUsed
  <2>3. ASSUME NEW w \in D PROVE \E n \in 48 .. 57 : w = Word(n)
    <3>1. 48 \in 48 .. 57 /\ 49 \in 48 .. 57 /\ 50 \in 48 .. 57 /\ 51 \in 48 .. 57
          /\ 52 \in 48 .. 57 /\ 53 \in 48 .. 57 /\ 54 \in 48 .. 57 /\ 55 \in 48 .. 57
          /\ 56 \in 48 .. 57 /\ 57 \in 48 .. 57
      OBVIOUS
    <3> QED BY <3>1, WordsUsed
  <2> QED BY <2>2, <2>3
<1>2. \A i \in Bits : i = 0 \/ i = 1 \/ i = 2 \/ i = 3 \/ i \in 4 .. 31
  BY DEF Bits
<1>3. ASSUME x \in D PROVE Digit(x)
  BY <1>3 DEF Digit
<1>4. ASSUME Digit(x) PROVE x \in D
  <2>1. 4 \in x /\ 5 \in x /\ \A i \in x : i \in {0, 1, 2, 3, 4, 5}
    BY <1>2, <1>4 DEF Digit
  <2>2. CASE 3 \in x
    <3>1. 1 \notin x /\ 2 \notin x
      BY <1>4, <2>2 DEF Digit
    <3>2. CASE 0 \in x
      <4>1. x = {0, 3, 4, 5}
        BY <2>1, <2>2, <3>1, <3>2
      <4> QED BY <4>1
    <3>3. CASE 0 \notin x
      <4>1. x = {3, 4, 5}
        BY <2>1, <2>2, <3>1, <3>3
      <4> QED BY <4>1
    <3> QED BY <3>2, <3>3
  <2>3. CASE 3 \notin x
    <3>1. CASE 0 \in x /\ 1 \in x /\ 2 \in x
      <4>1. x = {0, 1, 2, 4, 5}
        BY <2>1, <2>3, <3>1
      <4> QED BY <4>1
    <3>2. CASE 0 \in x /\ 1 \in x /\ 2 \notin x
      <4>1. x = {0, 1, 4, 5}
        BY <2>1, <2>3, <3>2
      <4> QED BY <4>1
    <3>3. CASE 0 \in x /\ 1 \notin x /\ 2 \in x
      <4>1. x = {0, 2, 4, 5}
        BY <2>1, <2>3, <3>3
      <4> QED BY <4>1
    <3>4. CASE 0 \in x /\ 1 \notin x /\ 2 \notin x
      <4>1. x = {0, 4, 5}
        BY <2>1, <2>3, <3>4
      <4> QED BY <4>1
    <3>5. CASE 0 \notin x /\ 1 \in x /\ 2 \in x
      <4>1. x = {1, 2, 4, 5}
        BY <2>1, <2>3, <3>5
      <4> QED BY <4>1
    <3>6. CASE 0 \notin x /\ 1 \in x /\ 2 \notin x
      <4>1. x = {1, 4, 5}
        BY <2>1, <2>3, <3>6
      <4> QED BY <4>1
    <3>7. CASE 0 \notin x /\ 1 \notin x /\ 2 \in x
      <4>1. x = {2, 4, 5}
        BY <2>1, <2>3, <3>7
      <4> QED BY <4>1
    <3>8. CASE 0 \notin x /\ 1 \notin x /\ 2 \notin x
      <4>1. x = {4, 5}
        BY <2>1, <2>3, <3>8
      <4> QED BY <4>1
    <3> QED BY <3>1, <3>2, <3>3, <3>4, <3>5, <3>6, <3>7, <3>8
  <2> QED BY <2>2, <2>3
<1> QED BY <1>1, <1>3, <1>4

LEMMA IsAsciiDigitRight ==
    ASSUME NEW x \in SUBSET Bits
    PROVE  isAsciiDigit(x) = test_isAsciiDigit(x)
<1>1. PICK is_out, first_byte, d, is_greater :
          /\ is_out = Xor(Sar(x, 4), {0, 1}) /\ first_byte = And(x, {0, 1, 2, 3})
          /\ d = Add(Minus(first_byte), {0, 3}) /\ is_greater = And(Sar(d, 31), One)
  OBVIOUS
<1>2. isAsciiDigit(x) = Bang(Or(is_out, is_greater))
  <2>1. first_byte \in SUBSET Bits
    BY <1>1 DEF And
  <2>2. Add(Not(first_byte), One) = Minus(first_byte)
    BY <2>1, NotPlusOne
  <2> QED BY <1>1, <2>2, WordsUsed DEF isAsciiDigit
<1>3. is_out = Zero <=> \A i \in 4 .. 31 : i \in x <=> i \in {4, 5}
  <2>1. Sar(x, 4) \subseteq Bits /\ {0, 1} \subseteq Bits
    BY DEF Sar, Bits
  <2>2. is_out = Zero <=> \A i \in Bits : i \in Sar(x, 4) <=> i = 0 \/ i = 1
    BY <1>1, <2>1 DEF Xor, Zero
  <2>3. ASSUME NEW i \in Bits
        PROVE  /\ i + 4 <= 31 => (i \in Sar(x, 4) <=> i + 4 \in x)
               /\ i + 4 > 31 => (i \in Sar(x, 4) <=> 31 \in x)
    BY SarBit
  <2>4. ASSUME \A i \in Bits : i \in Sar(x, 4) <=> i = 0 \/ i = 1, NEW i \in 4 .. 31
        PROVE  i \in x <=> i \in {4, 5}
    <3>1. PICK k \in Bits : k + 4 = i /\ k + 4 <= 31
      <4>1. i - 4 \in Bits /\ i - 4 + 4 = i
        BY DEF Bits
      <4> QED BY <4>1
    <3>2. k = 0 \/ k = 1 <=> i = 4 \/ i = 5
      BY <3>1 DEF Bits
    <3>3. k \in Sar(x, 4) <=> i \in x
      BY <2>3, <3>1
    <3>4. k \in Sar(x, 4) <=> k = 0 \/ k = 1
      BY <2>4
    <3> QED BY <3>2, <3>3, <3>4
  <2>5. ASSUME \A i \in 4 .. 31 : i \in x <=> i \in {4, 5}, NEW i \in Bits
        PROVE  i \in Sar(x, 4) <=> i = 0 \/ i = 1
    <3>1. CASE i + 4 <= 31
      <4>1. i + 4 \in 4 .. 31 /\ (i + 4 = 4 \/ i + 4 = 5 <=> i = 0 \/ i = 1)
        BY <3>1 DEF Bits
      <4> QED BY <2>3, <2>5, <3>1, <4>1
    <3>2. CASE i + 4 > 31
      <4>1. 31 \notin x
        BY <2>5
      <4> QED BY <2>3, <3>2, <4>1 DEF Bits
    <3> QED BY <3>1, <3>2 DEF Bits
  <2> QED BY <2>2, <2>4, <2>5
<1>4. is_greater = Zero <=> ~ (3 \in x /\ (1 \in x \/ 2 \in x))
  <2>1. first_byte \in SUBSET Bits /\ {0, 3} \in SUBSET Bits /\ 31 \in Bits /\ d \in SUBSET Bits
    BY <1>1 DEF And, Bits, Add
  <2>2. 31 \in d <=> DiffBit({0, 3}, first_byte, 31)
    BY <1>1, <2>1, MinusPlus
  <2>3. 31 \notin first_byte
    BY <1>1 DEF And
  <2>4. 31 \in d <=> Borrow({0, 3}, first_byte, 31)
    BY <2>2, <2>3 DEF DiffBit
  <2>5. Borrow({0, 3}, first_byte, 31) <=>
            \E j \in Bits : /\ j < 31 /\ j \in first_byte /\ j \in Not({0, 3})
                            /\ \A k \in Bits : j < k /\ k < 31 => k \in first_byte \/ k \in Not({0, 3})
    BY DEF Borrow, Carry
  <2>6. \A k \in Bits : /\ k \in first_byte <=> k \in x /\ k \in {0, 1, 2, 3}
                        /\ k \in Not({0, 3}) <=> k # 0 /\ k # 3
    BY <1>1 DEF And, Not
  <2>7. ASSUME Borrow({0, 3}, first_byte, 31) PROVE 3 \in x /\ (1 \in x \/ 2 \in x)
    <3>1. PICK j \in Bits : /\ j < 31 /\ j \in first_byte /\ j \in Not({0, 3})
                            /\ \A k \in Bits : j < k /\ k < 31 => k \in first_byte \/ k \in Not({0, 3})
      BY <2>5, <2>7
    <3>2. (j = 1 \/ j = 2) /\ j \in x
      BY <2>6, <3>1
    <3>3. 3 \in Bits /\ j < 3
      BY <3>2 DEF Bits
    <3> QED BY <2>6, <3>1, <3>2, <3>3
  <2>8. ASSUME 3 \in x, NEW j \in {1, 2}, j \in x PROVE Borrow({0, 3}, first_byte, 31)
    <3>1. j \in Bits /\ j < 31 /\ j \in first_byte /\ j \in Not({0, 3})
      BY <2>6, <2>8 DEF Bits
    <3>2. \A k \in Bits : j < k /\ k < 31 => k = 3 \/ (k # 0 /\ k # 3)
      BY DEF Bits
    <3>3. 3 \in Bits /\ 3 \in first_byte
      BY <2>6, <2>8 DEF Bits
    <3> QED BY <2>5, <2>6, <3>1, <3>2, <3>3
  <2>9. is_greater = Zero <=> 31 \notin d
    BY <1>1, <2>1, SignWord, BangOf
  <2> QED BY <2>4, <2>7, <2>8, <2>9
<1>5. Or(is_out, is_greater) = Zero <=> Digit(x)
  BY <1>3, <1>4 DEF Or, Zero, Digit
<1> QED BY <1>2, <1>5, BangOf, DigitWords DEF test_isAsciiDigit, Truth

(***************************************************************************)
(* howManyBits                                                             *)
(***************************************************************************)

\* The equation of Num's recursive function, which a function that satisfies
\* it lets us use.
NumStep(f, S) ==
    [s \in SUBSET S |->
        IF s = {} THEN 0 ELSE LET x == CHOOSE y \in s : TRUE IN 2^x + f[s \ {x}]]

LEMMA NumRec == ASSUME NEW S, NEW g, g = NumStep(g, S)
                PROVE  \E f : f = NumStep(f, S) /\ Num(S) = f[S]
<1>1. PICK f : f = CHOOSE h : h = NumStep(h, S)
  OBVIOUS
<1>2. Num(S) = f[S]
  BY <1>1 DEF Num, MapThenSumSet, MapThenFoldSet, NumStep
<1>3. f = NumStep(f, S)
  BY <1>1
<1> QED BY <1>2, <1>3

LEMMA NumBit == Num({}) = 0 /\ Num({0}) = 1
<1>1. Num({}) = 0
  <2>1. PICK g : g = [s \in SUBSET {} |-> 0]
    OBVIOUS
  <2>2. g = NumStep(g, {})
    BY <2>1 DEF NumStep
  <2>3. PICK f : f = NumStep(f, {}) /\ Num({}) = f[{}]
    BY <2>2, NumRec
  <2> QED BY <2>3 DEF NumStep
<1>2. Num({0}) = 1
  <2>1. PICK g : g = [s \in SUBSET {0} |-> IF s = {} THEN 0 ELSE 1]
    OBVIOUS
  <2>2. /\ \A s \in SUBSET {0} : s = {} \/ s = {0}
        /\ (CHOOSE y \in {0} : TRUE) = 0
        /\ {0} \ {0} = {}
        /\ \A i : i = 0 => 2^i = 1
    <3>1. \A s \in SUBSET {0} : s = {} \/ s = {0}
      OBVIOUS
    <3>2. (CHOOSE y \in {0} : TRUE) \in {0}
      OBVIOUS
    <3>3. \A i : i = 0 => 2^i = 1
      BY SMT
    <3> QED BY <3>1, <3>2, <3>3
  <2>3. g[{}] = 0 /\ g[{0}] = 1 /\ DOMAIN g = SUBSET {0}
    BY <2>1
  <2>4. g = NumStep(g, {0})
    BY <2>1, <2>2, <2>3 DEF NumStep
  <2>5. PICK f : f = NumStep(f, {0}) /\ Num({0}) = f[{0}]
    BY <2>4, NumRec
  <2>6. f[{}] = 0
    BY <2>5 DEF NumStep
  <2>7. f[{0}] = 1
    <3>1. PICK c : c = CHOOSE y \in {0} : TRUE
      OBVIOUS
    <3>2. f[{0}] = IF {0} = {} THEN 0 ELSE 2^c + f[{0} \ {c}]
      BY <2>5, <3>1 DEF NumStep
    <3>3. c = 0 /\ 2^c = 1 /\ {0} \ {c} = {} /\ {0} # {}
      BY <2>2, <3>1
    <3>4. f[{0}] = 1 + 0
      BY <2>6, <3>2, <3>3, Zenon
    <3> QED BY <3>4
  <2> QED BY <2>5, <2>7
<1> QED BY <1>1, <1>2
\* The length of a word: the place after its highest one.
Length(w, h) == IF w = Zero THEN h = 0 ELSE h - 1 \in w /\ \A j \in w : j <= h - 1

\* A step leaves a word of half the places and counts the rest.
LEMMA HalfRight ==
    ASSUME NEW st, NEW k \in 1 .. 16, NEW h \in Nat,
           st[1] \subseteq 0 .. (2 * k - 1), 31 \notin st[1],
           st[2] \in Nat, st[2] <= h, Length(st[1], h - st[2])
    PROVE  LET r == Half(st, k)
           IN  /\ r[1] \subseteq 0 .. (k - 1) /\ 31 \notin r[1]
               /\ r[2] \in Nat /\ r[2] <= h /\ Length(r[1], h - r[2])
<1>1. PICK w, n, d : w = st[1] /\ n = st[2] /\ d = h - n
  OBVIOUS
<1>2. w \subseteq Bits /\ 31 \notin w /\ n \in Nat /\ d \in Nat /\ Length(w, d) /\ n + d = h
  <2>1. \A i \in 0 .. (2 * k - 1) : i \in Bits
    BY DEF Bits
  <2> QED BY <1>1, <2>1
<1>3. ASSUME NEW i \in Bits, NEW m \in 0 .. 16
      PROVE  i \in Sar(w, m) <=> i + m \in w
  <2>1. i + m > 31 => i + m \notin Bits
    BY DEF Bits
  <2> QED BY <1>2, <2>1, SarBit DEF Bits
<1>4. \A m : Sar(w, m) \subseteq Bits
  BY DEF Sar
<1>5. Sar(w, k) # Zero <=> \E j \in w : j >= k
  <2>1. ASSUME NEW i \in Sar(w, k) PROVE \E j \in w : j >= k
    BY <1>3, <1>4 DEF Bits
  <2>2. ASSUME NEW j \in w, j >= k PROVE j - k \in Sar(w, k)
    <3>1. j - k \in Bits /\ j - k + k = j
      BY <1>2, <2>2 DEF Bits
    <3> QED BY <1>3, <3>1
  <2> QED BY <2>1, <2>2 DEF Zero
<1>6. CASE Sar(w, k) # Zero
  <2>1. Half(st, k)[1] = Sar(w, k) /\ Half(st, k)[2] = n + k
    BY <1>1, <1>6 DEF Half
  <2>2. w # Zero /\ d - 1 \in w /\ \A j \in w : j <= d - 1
    BY <1>2, <1>5, <1>6 DEF Length, Zero
  <2>3. d - 1 >= k /\ d - 1 - k \in Bits /\ d - 1 - k + k = d - 1
    BY <1>2, <1>5, <1>6, <2>2 DEF Bits
  <2>4. d - 1 - k \in Sar(w, k)
    BY <1>3, <2>2, <2>3
  <2>5. ASSUME NEW i \in Sar(w, k) PROVE i <= d - 1 - k /\ i \in 0 .. (k - 1) /\ i # 31
    <3>1. i \in Bits /\ i + k \in w
      BY <1>3, <1>4
    <3>2. i + k <= d - 1 /\ i + k \in 0 .. (2 * k - 1)
      BY <1>1, <2>2, <3>1
    <3> QED BY <1>2, <3>1, <3>2 DEF Bits
  <2>6. h - (n + k) = d - k /\ n + k <= h /\ n + k \in Nat /\ d - k - 1 = d - 1 - k
    BY <1>1, <1>2, <2>3
  <2>7. Length(Sar(w, k), d - k)
    BY <1>6, <2>4, <2>5, <2>6 DEF Length
  <2> QED BY <2>1, <2>5, <2>6, <2>7
<1>7. CASE Sar(w, k) = Zero
  <2>1. Half(st, k)[1] = Sar(w, 0) /\ Half(st, k)[2] = n
    BY <1>1, <1>2, <1>7 DEF Half
  <2>2. Sar(w, 0) = w
    <3>1. \A i \in Bits : i + 0 = i
      BY DEF Bits
    <3>2. \A i \in Bits : i \in Sar(w, 0) <=> i \in w
      BY <1>3, <3>1
    <3> QED BY <1>2, <1>4, <3>2
  <2>3. \A j \in w : j \in 0 .. (k - 1)
    BY <1>2, <1>5, <1>7 DEF Bits
  <2> QED BY <1>1, <1>2, <2>1, <2>2, <2>3
<1> QED BY <1>6, <1>7

LEMMA HowManyBitsRight ==
    ASSUME NEW x \in SUBSET Bits
    PROVE  howManyBits(x) = test_howManyBits(x)
<1>1. PICK sign, magnitude : sign = Sar(x, 31) /\ magnitude = Or(And(Not(sign), x), And(sign, Not(x)))
  OBVIOUS
<1>2. PICK s1, s2, s3, s4, s5 :
          /\ s1 = Half(<<magnitude, 0>>, 16) /\ s2 = Half(s1, 8) /\ s3 = Half(s2, 4)
          /\ s4 = Half(s3, 2) /\ s5 = Half(s4, 1)
  OBVIOUS
<1>3. howManyBits(x) = Word(s5[2] + Num(s5[1]) + 1)
  BY <1>1, <1>2 DEF howManyBits
<1>4. magnitude = IF 31 \in x THEN Not(x) ELSE x
  <2>1. ASSUME NEW i \in Bits PROVE i \in sign <=> 31 \in x
    <3>1. i + 31 > 31 \/ (i + 31 <= 31 /\ i + 31 = 31)
      BY DEF Bits
    <3> QED BY <1>1, <3>1, SarBit
  <2>2. sign \subseteq Bits
    BY <1>1 DEF Sar
  <2> QED BY <1>1, <2>1, <2>2 DEF Or, And, Not
<1>5. magnitude \subseteq Bits /\ 31 \notin magnitude
  <2>1. 31 \in Bits
    BY DEF Bits
  <2> QED BY <1>4, <2>1 DEF Not
<1>6. PICK h \in Nat : Length(magnitude, h) /\ h = IF magnitude = Zero THEN 0 ELSE Max(magnitude) + 1
  <2>1. CASE magnitude = Zero
    BY <2>1 DEF Length
  <2>2. CASE magnitude # Zero
    <3>1. \E m \in magnitude : \A n \in magnitude : n <= m
      BY <1>5, <2>2, HighestPlace DEF Zero
    <3>2. \A m \in magnitude, n \in magnitude : n <= m <=> m >= n
      BY <1>5 DEF Bits
    <3>3. \E m \in magnitude : \A n \in magnitude : m >= n
      BY <3>1, <3>2
    <3>4. Max(magnitude) \in magnitude /\ \A n \in magnitude : Max(magnitude) >= n
      BY <3>3 DEF Max
    <3>5. PICK m : m = Max(magnitude)
      OBVIOUS
    <3>6. m \in magnitude /\ \A n \in magnitude : n <= m
      BY <3>2, <3>4, <3>5
    <3>7. m + 1 \in Nat /\ m + 1 - 1 = m
      BY <1>5, <3>6 DEF Bits
    <3>8. Length(magnitude, m + 1)
      <4>1. PICK l : l = m + 1
        OBVIOUS
      <4>2. l - 1 = m
        BY <1>5, <3>6, <4>1 DEF Bits
      <4>3. l - 1 \in magnitude /\ \A n \in magnitude : n <= l - 1
        BY <3>6, <4>2
      <4>4. Length(magnitude, l)
        BY <2>2, <4>3 DEF Length
      <4> QED BY <4>1, <4>4
    <3> QED BY <2>2, <3>5, <3>7, <3>8
  <2> QED BY <2>1, <2>2
<1> DEFINE Good(st, k) == /\ st[1] \subseteq 0 .. (k - 1) /\ 31 \notin st[1]
                          /\ st[2] \in Nat /\ st[2] <= h /\ Length(st[1], h - st[2])
<1>7. ASSUME NEW st, NEW k \in 1 .. 16, Good(st, 2 * k) PROVE Good(Half(st, k), k)
  BY <1>7, HalfRight
<1>8. Good(<<magnitude, 0>>, 2 * 16)
  <2>1. \A i \in Bits : i \in 0 .. (2 * 16 - 1)
    BY DEF Bits
  <2> QED BY <1>5, <1>6, <2>1
<1>9. Good(s5, 1)
  <2> HIDE DEF Good
  <2>1. Good(s1, 2 * 8)
    BY <1>2, <1>7, <1>8
  <2>2. Good(s2, 2 * 4)
    BY <1>2, <1>7, <2>1
  <2>3. Good(s3, 2 * 2)
    BY <1>2, <1>7, <2>2
  <2>4. Good(s4, 2 * 1)
    BY <1>2, <1>7, <2>3
  <2> QED BY <1>2, <1>7, <2>4
<1>10. h = s5[2] + Num(s5[1])
  <2>1. s5[1] \subseteq {0} /\ s5[2] \in Nat /\ Length(s5[1], h - s5[2])
    BY <1>9
  <2>2. CASE s5[1] = {}
    BY <2>1, <2>2, NumBit DEF Length, Zero
  <2>3. CASE s5[1] = {0}
    BY <2>1, <2>3, NumBit DEF Length, Zero
  <2> QED BY <2>1, <2>2, <2>3
<1>11. howManyBits(x) = Word(h + 1)
  BY <1>3, <1>10
<1>12. test_howManyBits(x) = Word(h + 1)
  BY <1>4, <1>6 DEF test_howManyBits
<1> QED BY <1>11, <1>12

(***************************************************************************)
(* The puzzles and their scores                                            *)
(***************************************************************************)

IntegerPuzzles == {"bitXor", "tmin", "isTmax", "allOddBits", "negate", "isAsciiDigit",
                   "conditional", "isLessOrEqual", "logicalNeg", "howManyBits"}

\* Every puzzle on ints of bits.c agrees with its reference on every word, but
\* for isTmax at TMax in a build that takes x + (x + 1) for exact.
THEOREM IntegerPuzzlesRight ==
    ASSUME NEW name \in IntegerPuzzles, NEW w \in BOOLEAN,
           NEW x \in SUBSET Bits, NEW y \in SUBSET Bits, NEW z \in SUBSET Bits
    PROVE  Agree(name, x, y, z, w) <=> ~ (name = "isTmax" /\ ~w /\ x = TMax)
<1>1. CASE name = "bitXor"
  BY <1>1, BitXorRight DEF Agree
<1>2. CASE name = "tmin"
  BY <1>2, TminRight DEF Agree
<1>3. CASE name = "isTmax"
  <2>1. Agree(name, x, y, z, w) <=> isTmax(x, w) = test_isTmax(x)
    BY <1>3 DEF Agree
  <2>2. CASE w = TRUE
    BY <1>3, <2>1, <2>2, IsTmaxRight
  <2>3. CASE w = FALSE
    BY <1>3, <2>1, <2>3, IsTmaxRight
  <2> QED BY <2>2, <2>3
<1>4. CASE name = "allOddBits"
  BY <1>4, AllOddBitsRight DEF Agree
<1>5. CASE name = "negate"
  BY <1>5, NegateRight DEF Agree
<1>6. CASE name = "isAsciiDigit"
  BY <1>6, IsAsciiDigitRight DEF Agree
<1>7. CASE name = "conditional"
  BY <1>7, ConditionalRight DEF Agree
<1>8. CASE name = "isLessOrEqual"
  BY <1>8, IsLessOrEqualRight DEF Agree
<1>9. CASE name = "logicalNeg"
  BY <1>9, LogicalNegRight DEF Agree
<1>10. CASE name = "howManyBits"
  BY <1>10, HowManyBitsRight DEF Agree
<1> QED BY <1>1, <1>2, <1>3, <1>4, <1>5, <1>6, <1>7, <1>8, <1>9, <1>10 DEF IntegerPuzzles

LEMMA Table ==
    /\ Puzzles = 1 .. 13
    /\ \A p \in Puzzles : ~test_set[p].float => test_set[p].name \in IntegerPuzzles
    /\ \A p \in Puzzles : test_set[p] \in Rows /\ test_set[p].float \in BOOLEAN
    /\ test_set[3].name = "isTmax" /\ test_set[3].args = 1
    /\ \A p \in Puzzles : test_set[p].name = "isTmax" => p = 3
<1>1. Puzzles = 1 .. 13
  BY DEF Puzzles, test_set
<1>2. ASSUME NEW p \in 1 .. 13
      PROVE  /\ p \in 1 .. 10 => test_set[p].name \in IntegerPuzzles
             /\ p \in 11 .. 13 => test_set[p].float
             /\ test_set[p].name = "isTmax" => p = 3
  <2>1. \/ p = 1 \/ p = 2 \/ p = 3 \/ p = 4 \/ p = 5 \/ p = 6 \/ p = 7
        \/ p = 8 \/ p = 9 \/ p = 10 \/ p = 11 \/ p = 12 \/ p = 13
    OBVIOUS
  <2> QED BY <2>1 DEF test_set, Row, IntegerPuzzles
<1>3. \A p \in 1 .. 13 : p \in 1 .. 10 \/ p \in 11 .. 13
  OBVIOUS
<1>4. test_set[3].name = "isTmax" /\ test_set[3].args = 1
  BY DEF test_set, Row
<1>5. ASSUME NEW p \in 1 .. 13 PROVE test_set[p].float \in BOOLEAN
  <2>1. \A n, a, r : \A b \in BOOLEAN : Row(n, a, r, b).float \in BOOLEAN
    BY DEF Row
  <2>2. /\ test_set[1].float \in BOOLEAN /\ test_set[2].float \in BOOLEAN
        /\ test_set[3].float \in BOOLEAN /\ test_set[4].float \in BOOLEAN
        /\ test_set[5].float \in BOOLEAN /\ test_set[6].float \in BOOLEAN
        /\ test_set[7].float \in BOOLEAN /\ test_set[8].float \in BOOLEAN
        /\ test_set[9].float \in BOOLEAN /\ test_set[10].float \in BOOLEAN
        /\ test_set[11].float \in BOOLEAN /\ test_set[12].float \in BOOLEAN
        /\ test_set[13].float \in BOOLEAN
    BY <2>1 DEF test_set
  <2>3. \/ p = 1 \/ p = 2 \/ p = 3 \/ p = 4 \/ p = 5 \/ p = 6 \/ p = 7
        \/ p = 8 \/ p = 9 \/ p = 10 \/ p = 11 \/ p = 12 \/ p = 13
    OBVIOUS
  <2> QED BY <2>2, <2>3
<1> QED BY <1>1, <1>2, <1>3, <1>4, <1>5 DEF Rows

\* Every value the grader tries on a puzzle on ints is a word.
LEMMA GeneratedWords ==
    ASSUME NEW range
    PROVE  /\ gen_vals(FALSE, range) \subseteq SUBSET Bits
           /\ range \in Nat \ {0} => TMax \in gen_vals(FALSE, range)
<1>1. \A a, b : Add(a, b) \in SUBSET Bits
  BY DEF Add
<1>2. RandomVals \subseteq SUBSET Bits
  BY ProbesAssumption
<1>3. gen_vals(FALSE, range) \subseteq SUBSET Bits
  BY <1>1, <1>2 DEF gen_vals
<1>4. Add(TMax, Minus(Word(0))) = TMax
  <2>1. Word(0) = {}
    <3>1. ASSUME NEW i \in Word(0) PROVE FALSE
      <4>1. 0 \in 0 .. 127 /\ 0 % 2 # 1 /\ (0 \div 2) % 2 # 1 /\ (0 \div 4) % 2 # 1
            /\ (0 \div 8) % 2 # 1 /\ (0 \div 16) % 2 # 1 /\ (0 \div 32) % 2 # 1
            /\ (0 \div 64) % 2 # 1
        OBVIOUS
      <4>2. i = 0 \/ i = 1 \/ i = 2 \/ i = 3 \/ i = 4 \/ i = 5 \/ i = 6
        BY <3>1, <4>1, SmallWord
      <4> QED BY <3>1, <4>1, <4>2, SmallWord
    <3> QED BY <3>1
  <2>2. Minus({}) = {}
    BY MinusOfBang DEF Zero
  <2>3. \A i \in Bits : i \in Add(TMax, {}) <=> i \in TMax
    <3>1. ASSUME NEW i \in Bits PROVE ~Carry(TMax, {}, i)
      BY DEF Carry
    <3> QED BY <3>1, AddBit
  <2>4. Add(TMax, {}) \subseteq Bits /\ TMax \subseteq Bits
    BY DEF Add, TMax
  <2> QED BY <2>1, <2>2, <2>3, <2>4
<1>5. range \in Nat \ {0} => 0 \in 0 .. range - 1
  OBVIOUS
<1>6. range \in Nat \ {0} => TMax \in {Add(TMax, Minus(Word(i))) : i \in 0 .. range - 1}
  BY <1>4, <1>5
<1> QED BY <1>3, <1>6 DEF gen_vals

\* What test_function finds of a puzzle on ints is the truth about it: it
\* passes no wrong puzzle, as TMax is a value it tries, and fails no right one.
LEMMA TestIsTruth ==
    ASSUME NEW p \in Puzzles, ~test_set[p].float, NEW w \in BOOLEAN
    PROVE  /\ <<test_set[p], w>> \notin Failing => <<test_set[p], w>> \in Right
           /\ <<test_set[p], w>> \in Failing => test_set[p].name = "isTmax" /\ ~w
<1>1. PICK row : row = test_set[p] /\ row \in Rows /\ row.name \in IntegerPuzzles /\ ~row.float
  BY Table
<1>2. PICK vals : vals = gen_vals(row.float, arg_test_range(row.args))
  OBVIOUS
<1>3. arg_test_range(1) = TEST_RANGE
  BY DEF arg_test_range
<1>4. {Zero} \subseteq SUBSET Bits /\ Probes \subseteq SUBSET Bits /\ Others \subseteq SUBSET Bits
  BY ProbesAssumption DEF Zero
<1>5. <<row, w>> \in Failing <=>
          \E x \in (IF 1 <= row.args THEN vals ELSE {Zero}),
             y \in (IF 2 <= row.args THEN vals ELSE {Zero}),
             z \in (IF 3 <= row.args THEN vals ELSE {Zero}) : ~Agree(row.name, x, y, z, w)
  BY <1>1, <1>2 DEF Failing
<1>6. ASSUME <<row, w>> \in Failing PROVE row.name = "isTmax" /\ ~w
  <2>1. vals \subseteq SUBSET Bits
    <3>1. row.float = FALSE
      BY <1>1, Table
    <3>2. vals = gen_vals(FALSE, arg_test_range(row.args))
      BY Zenon, <1>2, <3>1
    <3>3. gen_vals(FALSE, arg_test_range(row.args)) \subseteq SUBSET Bits
      BY Zenon, GeneratedWords
    <3> QED BY Zenon, <3>2, <3>3
  <2>2. PICK x \in SUBSET Bits, y \in SUBSET Bits, z \in SUBSET Bits : ~Agree(row.name, x, y, z, w)
    BY <1>4, <1>5, <1>6, <2>1
  <2> QED BY <1>1, <2>2, IntegerPuzzlesRight
<1>7. ASSUME ~ (row.name = "isTmax" /\ ~w) PROVE <<row, w>> \in Right
  <2>1. \A x \in SUBSET Bits, y \in SUBSET Bits, z \in SUBSET Bits : Agree(row.name, x, y, z, w)
    BY <1>1, <1>7, IntegerPuzzlesRight
  <2>2. row.name # "floatFloat2Int"
    BY <1>1 DEF IntegerPuzzles
  <2> DEFINE P(k) == IF row.args < k THEN {Zero} ELSE IF row.args = 1 THEN Probes ELSE Others
  <2>3. P(1) \subseteq SUBSET Bits /\ P(2) \subseteq SUBSET Bits /\ P(3) \subseteq SUBSET Bits
    BY <1>4
  <2> QED BY <1>1, <2>1, <2>2, <2>3 DEF Right
<1>8. ASSUME row.name = "isTmax", ~w PROVE <<row, w>> \in Failing
  <2>1. row = test_set[3] /\ row.args = 1
    BY <1>1, <1>8, Table
  <2>2. vals = gen_vals(FALSE, TEST_RANGE)
    <3>1. row.float = FALSE
      BY <1>1, Table
    <3> QED BY Zenon, <1>2, <1>3, <2>1, <3>1
  <2>3. TMax \in vals
    BY <2>2, GeneratedWords, TestRangeAssumption
  <2>4. ~Agree(row.name, TMax, Zero, Zero, w)
    BY <1>1, <1>4, <1>8, IntegerPuzzlesRight DEF TMax
  <2> QED BY <1>5, <2>1, <2>3, <2>4
<1> QED BY <1>1, <1>6, <1>7, <1>8

(***************************************************************************)
(* The grader                                                              *)
(***************************************************************************)

\* A pending timer is one of a timed run; a judged puzzle has the verdict of
\* its test, or fails by an alarm that stopped it.
BTestIInv ==
    /\ wraps \in BOOLEAN /\ timed \in BOOLEAN /\ puzzle \in {0} \cup Puzzles
    /\ phase \in {"gen", "jmp", "test", "judged"} => puzzle \in Puzzles
    /\ phase = "main" => timer = 0
    /\ timer # 0 \/ phase = "jmp" => timed
    /\ phase = "judged" =>
           \/ terrors = 0 /\ <<test_set[puzzle], wraps>> \notin Failing
           \/ terrors = 1 /\ (stopper # 0 \/ <<test_set[puzzle], wraps>> \in Failing)

LEMMA BTestStarts == BTestInit => BTestIInv
BY DEF BTestInit, BTestIInv

LEMMA NextIsAPuzzle == Following # {} => Min(Following) \in Puzzles
<1> SUFFICES ASSUME Following # {} PROVE Min(Following) \in Puzzles
  OBVIOUS
<1>1. Following \subseteq Puzzles /\ Following \in SUBSET Nat
  BY Table DEF Following
<1>2. \E m \in Following : \A n \in Following : m =< n
  BY <1>1, LeastNatural
<1> QED BY <1>1, <1>2 DEF Min

LEMMA BTestKeeps == BTestIInv /\ [BTestNext]_btestVars => BTestIInv'
<1> SUFFICES ASSUME BTestIInv, [BTestNext]_btestVars PROVE BTestIInv'
  OBVIOUS
<1> USE DEF BTestIInv
<1>1. CASE ParseArgs
  BY <1>1 DEF ParseArgs
<1>2. CASE NextPuzzle
  <2>1. CASE Following = {}
    BY <1>2, <2>1 DEF NextPuzzle
  <2>2. CASE Following # {}
    BY <1>2, <2>2, NextIsAPuzzle DEF NextPuzzle
  <2> QED BY <2>1, <2>2
<1>3. CASE SetJmp
  BY <1>3 DEF SetJmp
<1>4. CASE SetAlarm
  BY <1>4 DEF SetAlarm
<1>5. CASE TestFunction
  BY <1>5 DEF TestFunction
<1>6. CASE TimeoutHandler
  BY <1>6 DEF TimeoutHandler
<1>7. CASE UNCHANGED btestVars
  BY <1>7 DEF btestVars
<1> QED BY <1>1, <1>2, <1>3, <1>4, <1>5, <1>6, <1>7 DEF BTestNext

LEMMA JudgedTruly == BTestIInv => IntegersScoredRight
<1> SUFFICES ASSUME BTestIInv, phase = "judged", ~test_set[puzzle].float
             PROVE  ScoreMeansCorrect
  BY DEF IntegersScoredRight
<1>1. puzzle \in Puzzles /\ wraps \in BOOLEAN
  BY DEF BTestIInv
<1>2. /\ <<test_set[puzzle], wraps>> \notin Failing => <<test_set[puzzle], wraps>> \in Right
      /\ <<test_set[puzzle], wraps>> \in Failing => test_set[puzzle].name = "isTmax" /\ ~wraps
  BY <1>1, TestIsTruth
<1>3. CASE terrors = 0
  BY <1>2, <1>3 DEF BTestIInv, ScoreMeansCorrect
<1>4. CASE terrors # 0
  BY <1>2, <1>4 DEF BTestIInv, ScoreMeansCorrect
<1> QED BY <1>3, <1>4

\* In every run of btest, whatever values it generates, a puzzle on ints that
\* passes is right on every word probed, and one that fails is isTmax without
\* wrapping or was stopped by an alarm.
THEOREM IntegerScoresAreRight == BTestSpec => []IntegersScoredRight
<1>1. BTestSpec => []BTestIInv
  BY BTestStarts, BTestKeeps, PTL DEF BTestSpec
<1> QED BY <1>1, JudgedTruly, PTL
=============================================================================
