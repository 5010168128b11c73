-------------------------------- MODULE Bits --------------------------------
(***************************************************************************)
(* The puzzles of the data lab, lab01_bit/bits.c, and the functions of     *)
(* lab01_bit/tests.c they are compared with.                               *)
(***************************************************************************)
EXTENDS Words

(***************************************************************************)
(* Integer puzzles                                                         *)
(***************************************************************************)

bitXor(x, y) == Not(And(Not(And(Not(x), y)), Not(And(x, Not(y)))))

tmin == Shl(One, 31)

\* x += x + 1 overflows at TMax and at half of all words.  A compiler that
\* wraps finds the sum -1 at TMax too; one that takes the sum for exact, as
\* it may, finds it at -1 alone.
isTmax(x, wraps) ==
    LET doubled == IF wraps THEN Add(x, Add(x, One))
                   ELSE IF x = MinusOne THEN MinusOne ELSE Zero
    IN  Xor(Bang(Not(doubled)), Bang(Not(x)))

allOddBits(x) ==
    LET t1 == Word(85)
        t2 == Or(t1, Shl(t1, 8))
        t == Or(t2, Shl(t2, 16))
    IN  Bang(Not(Or(t, x)))

negate(x) == Add(Not(x), One)

\* Mutated: the digit is compared with ten.
isAsciiDigitTen(x) ==
    LET is_out == Xor(Sar(x, 4), Word(3))
        first_byte == And(x, Word(15))
        is_greater == And(Sar(Add(Add(Not(first_byte), One), Word(10)), 31), One)
    IN  Bang(Or(is_out, is_greater))

isAsciiDigit(x) ==
    LET is_out == Xor(Sar(x, 4), Word(3))
        first_byte == And(x, Word(15))
        is_greater == And(Sar(Add(Add(Not(first_byte), One), Word(9)), 31), One)
    IN  Bang(Or(is_out, is_greater))

conditional(x, y, z) ==
    LET mask == Add(Not(Bang(x)), One)
    IN  Or(And(y, Not(mask)), And(z, mask))

isLessOrEqual(x, y) ==
    LET x_sign == And(Sar(x, 31), One)
        y_sign == And(Sar(y, 31), One)
        is_diff_sign == Xor(x_sign, y_sign)
        a == And(x_sign, is_diff_sign)
        less == And(Sar(Add(Add(y, Not(x)), One), 31), One)
    IN  Or(a, Bang(Or(less, is_diff_sign)))

logicalNeg(x) ==
    LET sign == And(Sar(x, 31), One)
        neg_sign == And(Sar(Add(Not(x), One), 31), One)
    IN  Xor(Or(sign, neg_sign), One)

\* One step of a search by halves for the highest one: the word shifted by k
\* when it has a one from place k on, and the shifts so far.
Half(st, k) ==
    LET shift == IF Sar(st[1], k) # Zero THEN k ELSE 0
    IN  <<Sar(st[1], shift), st[2] + shift>>

howManyBits(x) ==
    LET sign == Sar(x, 31)
        magnitude == Or(And(Not(sign), x), And(sign, Not(x)))
        last == Half(Half(Half(Half(Half(<<magnitude, 0>>, 16), 8), 4), 2), 1)
    IN  Word(last[2] + Num(last[1]) + 1)

(***************************************************************************)
(* Puzzles on the bits of a float                                          *)
(***************************************************************************)

Exp(uf) == Num(Shr(uf, 23) \cap 0 .. 7)
Frac(uf) == uf \cap 0 .. 22
Sign(uf) == uf \cap TMin
Inf == 23 .. 30

\* Mutated: the case in which doubling gives an infinity is left out.
floatScale2NoInf(uf) ==
    IF Exp(uf) = 0 THEN Or(Shl(uf, 1), Sign(uf))
    ELSE IF Exp(uf) = 255 THEN uf
    ELSE Add(uf, {23})

floatScale2(uf) ==
    IF Exp(uf) = 0 THEN Or(Shl(uf, 1), Sign(uf))
    ELSE IF Exp(uf) = 255 THEN uf
    ELSE IF Exp(uf) + 1 = 255 THEN Or(Inf, Sign(uf))
    ELSE Add(uf, {23})

\* frac is the constant 0x7FFFFF and never the fraction of uf, and the sign
\* is or'ed to the magnitude.
floatFloat2Int(uf) ==
    LET frac == Or(0 .. 22, {23})
        right_shift == 23 - (Exp(uf) - 127)
        left_shift == (Exp(uf) - 127) - 23
    IN  IF Exp(uf) = 255 THEN TMin
        ELSE IF Exp(uf) < 127 THEN Zero
        ELSE IF Exp(uf) = 127 THEN IF Sign(uf) # Zero THEN MinusOne ELSE One
        ELSE IF right_shift >= 0 THEN Or(Shr(frac, right_shift), Sign(uf))
        ELSE IF left_shift > 7 THEN TMin
        ELSE Or(Shl(frac, left_shift), Sign(uf))

floatPower2(x) ==
    LET val == IF 31 \in x THEN -Num(Minus(x)) ELSE Num(x)
    IN  IF Below(Word(127), x) THEN Inf
        ELSE IF Below(x, Minus(Word(149))) THEN Zero
        ELSE IF x = Zero THEN 23 .. 29
        ELSE IF val > -127 THEN Shl(Word(val + 127), 23)
        ELSE Shl(One, 23 + (val + 126))

(***************************************************************************)
(* The references of tests.c                                               *)
(***************************************************************************)

test_tmin == TMin
test_isTmax(x) == Truth(x = TMax)
test_allOddBits(x) == Truth(\A i \in Bits : i % 2 = 1 => i \in x)
test_isAsciiDigit(x) == Truth(x \in {Word(n) : n \in 48 .. 57})
test_conditional(x, y, z) == IF x # Zero THEN y ELSE z
test_isLessOrEqual(x, y) == Truth(AtMost(x, y))
test_howManyBits(x) ==
    LET a == IF 31 \in x THEN Not(x) ELSE x
    IN  Word((IF a = Zero THEN 0 ELSE Max(a) + 1) + 1)

\* A float is a sign and a magnitude, here the set of the powers of two it
\* is the sum of.
NaN(uf) == Exp(uf) = 255 /\ Frac(uf) # Zero
Powers(uf) ==
    IF Exp(uf) = 0 THEN {i - 149 : i \in Frac(uf)}
    ELSE {Exp(uf) - 127} \cup {i - 23 + (Exp(uf) - 127) : i \in Frac(uf)}

\* Twice a number has each power one higher; beyond 127 it is an infinity.
test_floatScale2(uf, r) ==
    IF NaN(uf) THEN r = uf
    ELSE /\ Sign(r) = Sign(uf)
         /\ IF Exp(uf) = 255 \/ 127 \in Powers(uf) THEN Exp(r) = 255 /\ Frac(r) = Zero
            ELSE Exp(r) # 255 /\ Powers(r) = {p + 1 : p \in Powers(uf)}

\* (int) f cuts the fraction; what no int holds gives 0x80000000.
test_floatFloat2Int(uf) ==
    LET whole == {p \in Powers(uf) : p >= 0}
    IN  IF Exp(uf) = 255 \/ whole \ 0 .. 30 # {} THEN TMin
        ELSE IF Sign(uf) # Zero THEN Minus(whole) ELSE whole

\* Repeated squaring: exact from 2^-149 to 2^127, and 0 or infinity beyond.
test_floatPower2(x, r) ==
    IF Below(Word(127), x) THEN r = Inf
    ELSE IF Below(x, Minus(Word(149))) THEN r = Zero
    ELSE Sign(r) = Zero /\ Exp(r) # 255
         /\ Powers(r) = {IF 31 \in x THEN -Num(Minus(x)) ELSE Num(x)}
=============================================================================
