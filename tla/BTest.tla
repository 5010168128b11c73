------------------------------- MODULE BTest -------------------------------
(***************************************************************************)
(* The grader of the data lab, lab01_bit/btest.c and its table decl.c:     *)
(* every puzzle is run on generated values beside its reference, under an  *)
(* alarm whose handler jumps back into test_function.                      *)
(***************************************************************************)
EXTENDS Bits, Sequences

CONSTANTS
    TEST_RANGE,    \* values generated on each side of a boundary
    RandomVals,    \* words random_val may return
    Probes,        \* words on which the score of one argument is checked
    Others         \* words for each of two or three arguments

ASSUME TestRangeAssumption == TEST_RANGE \in Nat \ {0}
ASSUME ProbesAssumption == \A w \in RandomVals \cup Probes \cup Others : w \subseteq Bits

\* The table of decl.c: name, number of arguments, rating, and whether the
\* argument ranges are {1, 1}, which stands for the bits of a float.
Row(name, args, rating, float) ==
    [name |-> name, args |-> args, rating |-> rating, float |-> float]
test_set == <<
    Row("bitXor", 2, 1, FALSE), Row("tmin", 0, 1, FALSE), Row("isTmax", 1, 1, FALSE),
    Row("allOddBits", 1, 2, FALSE), Row("negate", 1, 2, FALSE),
    Row("isAsciiDigit", 1, 3, FALSE), Row("conditional", 3, 3, FALSE),
    Row("isLessOrEqual", 2, 3, FALSE), Row("logicalNeg", 1, 4, FALSE),
    Row("howManyBits", 1, 4, FALSE), Row("floatScale2", 1, 4, TRUE),
    Row("floatFloat2Int", 1, 4, TRUE), Row("floatPower2", 1, 4, TRUE)>>
Puzzles == DOMAIN test_set
Rows == {test_set[p] : p \in Puzzles}

\* Whether solution and reference agree on the arguments.  The functions on
\* floats are declared for the bits, floatPower2 for an int.
Agree(name, x, y, z, wraps) ==
    CASE name = "bitXor" -> bitXor(x, y) = Xor(x, y)
      [] name = "tmin" -> tmin = test_tmin
      [] name = "isTmax" -> isTmax(x, wraps) = test_isTmax(x)
      [] name = "allOddBits" -> allOddBits(x) = test_allOddBits(x)
      [] name = "negate" -> negate(x) = Minus(x)
      [] name = "isAsciiDigit" -> isAsciiDigit(x) = test_isAsciiDigit(x)
      [] name = "conditional" -> conditional(x, y, z) = test_conditional(x, y, z)
      [] name = "isLessOrEqual" -> isLessOrEqual(x, y) = test_isLessOrEqual(x, y)
      [] name = "logicalNeg" -> logicalNeg(x) = Bang(x)
      [] name = "howManyBits" -> howManyBits(x) = test_howManyBits(x)
      [] name = "floatScale2" -> test_floatScale2(x, floatScale2(x))
      [] name = "floatFloat2Int" -> floatFloat2Int(x) = test_floatFloat2Int(x)
      [] name = "floatPower2" -> test_floatPower2(x, floatPower2(x))

\* The values generated for one argument; range words in each place.
gen_vals(float, range) ==
    LET up(w) == {Add(w, Word(i)) : i \in 0 .. range - 1}
        down(w) == {Add(w, Minus(Word(i))) : i \in 0 .. range - 1}
        floats == up(Zero) \cup up({23}) \cup down({23}) \cup up(23 .. 29)
                      \cup down(23 .. 29) \cup down(24 .. 30) \cup {Inf, 22 .. 30}
    IN  IF float THEN floats \cup {Or(w, TMin) : w \in floats}
        ELSE up(TMin) \cup down(TMax) \cup up(Zero) \cup down(Zero) \cup RandomVals

\* The range is the root that keeps the number of tests the same; the code's
\* power 0.333 gives the cube root of its 500000 too, rounded down.
Root(k) == Max({1} \cup {r \in 1 .. TEST_RANGE : r^k <= TEST_RANGE})
arg_test_range(args) == IF args <= 1 THEN TEST_RANGE ELSE Root(args)

\* test_0_arg to test_3_arg on every combination of values: the puzzles
\* with an error, in a build that wraps or not.
Failing == {rw \in Rows \X BOOLEAN :
    LET row == rw[1]
        vals == gen_vals(row.float, arg_test_range(row.args))
        V(k) == IF k <= row.args THEN vals ELSE {Zero}
    IN  \E x \in V(1), y \in V(2), z \in V(3) : ~Agree(row.name, x, y, z, rw[2])}

VARIABLES
    wraps,     \* whether the build wraps the overflow in isTmax
    timed,     \* timeout_limit > 0
    fname,     \* test_fname: the puzzle chosen with -f, or 0
    puzzle,    \* i of run_tests
    phase,     \* where run_tests is in the puzzle
    timer,     \* the puzzle that set the pending alarm, or 0
    envbuf,    \* the puzzle whose sigsetjmp filled envbuf, or 0
    terrors,   \* the errors of the puzzle, -1 before it is judged
    stopper    \* history: the puzzle that had set the alarm that ended the test
               \* of this one, or 0

btestVars == <<wraps, timed, fname, puzzle, phase, timer, envbuf, terrors, stopper>>

BTestInit ==
    /\ wraps = TRUE /\ timed = FALSE /\ fname = 0 /\ puzzle = 0 /\ phase = "main"
    /\ timer = 0 /\ envbuf = 0 /\ terrors = -1 /\ stopper = 0

\* main: the options -T and -f, and what the build made of bits.c.
ParseArgs ==
    /\ phase = "main" /\ phase' = "next"
    /\ wraps' \in BOOLEAN /\ timed' \in BOOLEAN /\ fname' \in {0} \cup Puzzles
    /\ UNCHANGED <<puzzle, timer, envbuf, terrors, stopper>>

\* run_tests scores the puzzle it has judged and goes to the next one it is
\* to test, or ends.
Following == {p \in Puzzles : p > puzzle /\ fname \in {0, p}}
NextPuzzle ==
    /\ phase \in {"next", "judged"} /\ terrors' = -1 /\ stopper' = 0
    /\ IF Following = {} THEN phase' = "done" /\ UNCHANGED puzzle
       ELSE phase' = "gen" /\ puzzle' = Min(Following)
    /\ UNCHANGED <<wraps, timed, fname, timer, envbuf>>

\* test_function after gen_vals: sigsetjmp, then alarm, which replaces a
\* timer that an earlier puzzle left.
SetJmp ==
    /\ phase = "gen"
    /\ IF timed THEN phase' = "jmp" /\ envbuf' = puzzle
       ELSE phase' = "test" /\ UNCHANGED envbuf
    /\ UNCHANGED <<wraps, timed, fname, puzzle, timer, terrors, stopper>>

SetAlarm ==
    /\ phase = "jmp" /\ phase' = "test" /\ timer' = puzzle
    /\ UNCHANGED <<wraps, timed, fname, puzzle, envbuf, terrors, stopper>>

\* The rest of test_function: it stops at the first error.  The timer stays.
TestFunction ==
    /\ phase = "test" /\ phase' = "judged"
    /\ terrors' = IF <<test_set[puzzle], wraps>> \in Failing THEN 1 ELSE 0
    /\ UNCHANGED <<wraps, timed, fname, puzzle, timer, envbuf, stopper>>

\* The alarm goes off and timeout_handler jumps to envbuf.  In the call that
\* filled it the puzzle fails; after that call has returned there is nothing
\* to jump to, and the process is lost.
TimeoutHandler ==
    /\ timer # 0 /\ timer' = 0 /\ phase \notin {"done", "lost"}
    /\ IF phase \in {"jmp", "test"}
       THEN phase' = "judged" /\ terrors' = 1 /\ stopper' = timer
       ELSE phase' = "lost" /\ UNCHANGED <<terrors, stopper>>
    /\ UNCHANGED <<wraps, timed, fname, puzzle, envbuf>>

BTestNext == \/ ParseArgs \/ NextPuzzle \/ SetJmp \/ SetAlarm \/ TestFunction
             \/ TimeoutHandler

BTestSpec == BTestInit /\ [][BTestNext]_btestVars

(***************************************************************************)
(* Properties                                                              *)
(***************************************************************************)

\* Where floatFloat2Int is right: below two and beyond the ints, and where
\* the fraction it made up happens to be that of the argument.
FractionAllOnes(uf) ==
    Sign(uf) = Zero /\ \A i \in 0 .. 22 : i >= 23 - (Exp(uf) - 127) => i \in uf
Float2IntRight(uf) == Exp(uf) <= 127 \/ Exp(uf) >= 158 \/ FractionAllOnes(uf)

\* The puzzles that are the functions they are said to be on the words probed,
\* floatFloat2Int being wrong where it is known to be.
Right == {rw \in Rows \X BOOLEAN :
    LET row == rw[1]
        P(k) == IF row.args < k THEN {Zero} ELSE IF row.args = 1 THEN Probes ELSE Others
    IN  \A x \in P(1), y \in P(2), z \in P(3) :
            Agree(row.name, x, y, z, rw[2])
                <=> row.name # "floatFloat2Int" \/ Float2IntRight(x)}

ScoreMeansCorrect ==
    LET row == test_set[puzzle]
    IN  IF terrors = 0 THEN <<row, wraps>> \in Right
        ELSE (row.name = "isTmax" /\ ~wraps) \/ stopper # 0

\* A puzzle on ints that test_function passes is the function it is said to
\* be, on words the grader never tried as well, and one it fails is isTmax in
\* a build that does not wrap or was stopped by an alarm: no other is failed
\* wrongly.
IntegersScoredRight ==
    phase = "judged" /\ ~test_set[puzzle].float => ScoreMeansCorrect

\* The same of a puzzle on floats, but for floatFloat2Int, which passes although
\* it is wrong for every negative float below -1 and for the positive ones from
\* two to 2^31 whose integer part is not 2^k - 1 (see Float2IntIsCast).
FloatsScoredRight ==
    phase = "judged" /\ test_set[puzzle].float => ScoreMeansCorrect

\* What bits.c:330 says of the puzzle: a floatFloat2Int that btest has passed is
\* the bit-level equivalent of (int) f.  It is not: it ignores the fraction.
Float2IntIsCast ==
    phase = "judged" /\ test_set[puzzle].name = "floatFloat2Int" /\ terrors = 0 =>
        \A uf \in Probes : floatFloat2Int(uf) = test_floatFloat2Int(uf)
=============================================================================
