------------------------------- MODULE Words -------------------------------
(***************************************************************************)
(* The 32-bit words of C on the machine of the data lab.  A word is the    *)
(* set of its one bits, so that the bitwise operators are those of sets.   *)
(***************************************************************************)
EXTENDS Integers, FiniteSets, FiniteSetsExt

Bits == 0 .. 31
Word32 == SUBSET Bits

Zero == {}
One == {0}
MinusOne == Bits
TMin == {31}
TMax == Bits \ {31}

\* A number below 2^31, and the number of a word without bit 31.
Word(n) == {i \in 0 .. 30 : (n \div 2^i) % 2 = 1}
Num(x) == MapThenSumSet(LAMBDA i : 2^i, x)

\* The C operators ~ & | ^ and !, and the 0 or 1 of a comparison.
Not(x) == Bits \ x
And(x, y) == x \cap y
Or(x, y) == x \cup y
Xor(x, y) == (x \ y) \cup (y \ x)
Truth(p) == IF p THEN One ELSE Zero
Bang(x) == Truth(x = Zero)

\* The shifts << and >>, the latter of an int and of an unsigned.
Shl(x, k) == {i \in Bits : i - k \in x}
Sar(x, k) == {i \in Bits : (IF i + k > 31 THEN 31 ELSE i + k) \in x}
Shr(x, k) == {i \in Bits : i + k \in x}

\* Addition modulo 2^32: bit i receives a carry when a lower place generates
\* one and every place between passes it on.
Carry(x, y, i) ==
    \E j \in Bits : /\ j < i /\ j \in x /\ j \in y
                    /\ \A k \in Bits : j < k /\ k < i => k \in x \/ k \in y
Add(x, y) == {i \in Bits : (i \in Xor(x, y)) # Carry(x, y, i)}

\* Minus by its meaning: the bits above the lowest one are complemented.
Minus(x) == {i \in Bits : (i \in x) # (\E j \in Bits : j < i /\ j \in x)}

\* The order of ints: the sign bit, then the highest bit that differs.
Below(x, y) ==
    IF 31 \in x /\ 31 \notin y THEN TRUE
    ELSE IF 31 \in y /\ 31 \notin x THEN FALSE
    ELSE \E i \in y \ x : \A j \in Xor(x, y) : j <= i
AtMost(x, y) == x = y \/ Below(x, y)
=============================================================================
