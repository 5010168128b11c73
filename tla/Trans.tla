------------------------------- MODULE Trans -------------------------------
(***************************************************************************)
(* The transposes lab04_cache/trans.c as test-trans.c and tracegen.c run   *)
(* them: on the two matrices of tracegen, traced, validated, and the trace *)
(* counted by a simulated cache.                                           *)
(***************************************************************************)
EXTENDS Integers, SequencesExt

CONSTANT Shapes    \* the <<M, N>> test-trans is asked for

\* main of test-trans refuses 0 and more than MAXN.
ASSUME ShapesAssumption == Shapes \subseteq (1 .. 256) \X (1 .. 256)

VARIABLES
    M, N,          \* the shape: A has N rows of M, B has M rows of N
    stage,         \* main, trace, validate, report, timeout
    iter,          \* iterations of the transpose done
    matrixB,       \* B in memory order; an element of A is its index in A
    cache,         \* the simulated cache: the block of each set, and counts
    results        \* of test-trans: correct and misses

transVars == <<M, N, stage, iter, matrixB, cache, results>>

(***************************************************************************)
(* Memory.  Rows follow each other, so that a column too far is the next   *)
(* row.  A move loads a register from a matrix or stores one to B.         *)
(***************************************************************************)

AtA(i, j) == i * M + j
AtB(j, i) == j * N + i
LoadA(t, i, j) == [op |-> "L", mat |-> "A", idx |-> AtA(i, j), reg |-> t]
LoadB(t, j, i) == [op |-> "L", mat |-> "B", idx |-> AtB(j, i), reg |-> t]
Store(t, j, i) == [op |-> "S", mat |-> "B", idx |-> AtB(j, i), reg |-> t]

\* Where the linker put A and B, and the other globals the trace shows:
\* MARKER_START, func_list, N, M before, and MARKER_END after.
Address(mat, idx) == (IF mat = "A" THEN 1102048 ELSE 1364192) + 4 * idx
Prologue == <<1102016, 1626368, 1626340, 1626336>>
Epilogue == 1102017

\* An access of the direct-mapped cache of eval_perf(5, 1, 5).
Access(c, addr) ==
    LET block == addr \div 32
        set == block % 32
    IN  IF c.holds[set] = block THEN [c EXCEPT !.hits = @ + 1]
        ELSE [c EXCEPT !.misses = @ + 1, !.holds[set] = block,
                       !.evictions = @ + (IF c.holds[set] = -1 THEN 0 ELSE 1)]
Cold == [holds |-> [set \in 0 .. 31 |-> -1], hits |-> 0, misses |-> 0, evictions |-> 0]

\* The effect of a move on registers, B and the cache.
Moved(st, mv) ==
    LET traced == Access(st.cache, Address(mv.mat, mv.idx))
        value == IF mv.mat = "A" THEN mv.idx ELSE st.b[mv.idx]
    IN  IF mv.op = "L" THEN [st EXCEPT !.cache = traced, !.reg[mv.reg] = value]
        ELSE [st EXCEPT !.cache = traced, !.b[mv.idx] = st.reg[mv.reg]]

(***************************************************************************)
(* The moves of an iteration of the innermost loop with registers          *)
(***************************************************************************)

Eight(Move(_)) == [t \in 1 .. 8 |-> Move(t)]
Four(Move(_)) == [t \in 1 .. 4 |-> Move(t)]

\* Mutated: each element is stored before the next one is loaded.
Rows32OneByOne(ii, jj, i) ==
    [c \in 1 .. 16 |-> IF c % 2 = 1 THEN LoadA(1, i, jj + (c - 1) \div 2)
                       ELSE Store(1, jj + (c - 1) \div 2, i)]

Rows32(ii, jj, i) ==
    Eight(LAMBDA t : LoadA(t, i, jj + t - 1)) \o Eight(LAMBDA t : Store(t, jj + t - 1, i))

\* The three loops over k of transpose_64X64.
First64(ii, jj, k) ==
    Eight(LAMBDA t : LoadA(t, k, jj + t - 1))
        \o Four(LAMBDA t : Store(t, jj + t - 1, k))
        \o Four(LAMBDA t : Store(t + 4, jj + t - 1, k + 4))

\* Mutated: the row of B is overwritten before it is read.
Middle64Late(ii, jj, k) ==
    Four(LAMBDA t : LoadA(t + 4, ii + t + 3, k))
        \o Four(LAMBDA t : Store(t + 4, k, ii + t + 3))
        \o Four(LAMBDA t : LoadB(t, k, ii + t + 3))
        \o Four(LAMBDA t : Store(t, k + 4, ii + t - 1))

Middle64(ii, jj, k) ==
    Four(LAMBDA t : LoadB(t, k, ii + t + 3))
        \o Four(LAMBDA t : LoadA(t + 4, ii + t + 3, k))
        \o Four(LAMBDA t : Store(t + 4, k, ii + t + 3))
        \o Four(LAMBDA t : Store(t, k + 4, ii + t - 1))

Last64(ii, jj, k) ==
    Four(LAMBDA t : LoadA(t, k + 4, jj + t + 3)) \o Four(LAMBDA t : Store(t, jj + t + 3, k + 4))

\* The innermost loop of transpose_67X61, cut at the last column.
Row67(jj, i) ==
    LET width == IF jj + 17 < M THEN 17 ELSE M - jj
    IN  [c \in 1 .. 2 * width |->
            IF c % 2 = 1 THEN LoadA(1, i, jj + (c - 1) \div 2)
            ELSE Store(1, jj + (c - 1) \div 2, i)]

(***************************************************************************)
(* The loops over blocks: iteration n is the one in block n \div the rows   *)
(* of a block, blocks counted along jj first.                              *)
(***************************************************************************)

BlocksIn(len, size) == (len + size - 1) \div size
BlockRow(n, size, rows) == ((n \div rows) \div BlocksIn(M, size)) * size
BlockCol(n, size, rows) == ((n \div rows) % BlocksIn(M, size)) * size
Iterations(size, rows) == BlocksIn(N, size) * BlocksIn(M, size) * rows

transpose_32X32(n) ==
    LET ii == BlockRow(n, 8, 8)
    IN  Rows32(ii, BlockCol(n, 8, 8), ii + (n % 8))

transpose_64X64(n) ==
    LET ii == BlockRow(n, 8, 12)
        jj == BlockCol(n, 8, 12)
        q == n % 12
    IN  IF q < 4 THEN First64(ii, jj, ii + q)
        ELSE IF q < 8 THEN Middle64(ii, jj, jj + q - 4)
        ELSE Last64(ii, jj, ii + q - 8)

transpose_67X61(n) ==
    LET i == BlockRow(n, 17, 17) + (n % 17)
    IN  IF i < N THEN Row67(BlockCol(n, 17, 17), i) ELSE <<>>

\* transpose_submit looks at M alone.
transpose_submit(n) ==
    IF M = 32 THEN transpose_32X32(n)
    ELSE IF M = 64 THEN transpose_64X64(n)
    ELSE transpose_67X61(n)
LastIteration ==
    IF M = 32 THEN Iterations(8, 8) ELSE IF M = 64 THEN Iterations(8, 12)
    ELSE Iterations(17, 17)

(***************************************************************************)
(* Actions                                                                 *)
(***************************************************************************)

TransInit ==
    /\ M = 0 /\ N = 0 /\ stage = "main" /\ iter = 0 /\ matrixB = <<>> /\ cache = Cold
    /\ results = [correct |-> 0, misses |-> 2147483647]

\* main of test-trans starts tracegen, which fills both matrices.  B keeps
\* some junk, and the loops may leave the matrix by less than a block.
Tracegen ==
    /\ stage = "main" /\ stage' = "trace"
    /\ \E shape \in Shapes : M' = shape[1] /\ N' = shape[2]
    /\ matrixB' = [i \in 0 .. (M' + 8) * (N' + 8) |-> -1]
    /\ cache' = FoldLeft(Access, Cold, Prologue)
    /\ UNCHANGED <<iter, results>>

Iterate ==
    /\ stage = "trace" /\ iter < LastIteration /\ iter' = iter + 1
    /\ LET st == FoldLeft(Moved, [reg |-> [t \in 1 .. 8 |-> -1], b |-> matrixB,
                                  cache |-> cache], transpose_submit(iter))
       IN  matrixB' = st.b /\ cache' = st.cache
    /\ UNCHANGED <<M, N, stage, results>>

\* validate of tracegen compares B with the result of correctTrans; its
\* return value is the exit status, and test-trans goes on to the simulator
\* only if that is 0.
IsTranspose == \A i \in 0 .. N - 1, j \in 0 .. M - 1 : matrixB[AtB(j, i)] = AtA(i, j)
Validate ==
    /\ stage = "trace" /\ iter = LastIteration /\ stage' = "report"
    /\ cache' = Access(cache, Epilogue)
    /\ results' = IF IsTranspose THEN [correct |-> 1, misses |-> cache'.misses]
                  ELSE results
    /\ UNCHANGED <<M, N, iter, matrixB>>

\* alarm(120): the handler reports 0:0.
sigalrm_handler ==
    /\ stage = "trace" /\ stage' = "timeout"
    /\ results' = [correct |-> 0, misses |-> 0]
    /\ matrixB' = <<>> /\ cache' = Cold /\ iter' = 0 /\ UNCHANGED <<M, N>>

TransNext == Tracegen \/ Iterate \/ Validate \/ sigalrm_handler

(***************************************************************************)
(* Properties                                                              *)
(***************************************************************************)

\* The submission transposes every shape but those its blocks do not fit,
\* although it goes by the number of columns alone: with 32 or 64 columns
\* and a number of rows that is no multiple of 8, it reads and writes past
\* the last row and is reported as wrong.
TransposesWhatFits ==
    stage = "report" => (results.correct = 1 <=> M \notin {32, 64} \/ N % 8 = 0)

\* The three graded shapes miss rarely enough for full marks (300, 1300 and
\* 2000 misses in driver.py), and the run recorded in .csim_results, of the
\* shape graded last, is reproduced.
FullMarks ==
    stage = "report" =>
        /\ <<M, N>> = <<32, 32>> => results.misses <= 300
        /\ <<M, N>> = <<64, 64>> => results.misses <= 1300
        /\ <<M, N>> = <<61, 67>> =>
               <<cache.hits, cache.misses, cache.evictions>> = <<6228, 1951, 1919>>
=============================================================================
