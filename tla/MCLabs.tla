------------------------------- MODULE MCLabs -------------------------------
(***************************************************************************)
(* The labs' tools and puzzles that share no state, checked in one run:    *)
(* each behaviour is one of one of them, and the others stay as they       *)
(* begin.                                                                  *)
(***************************************************************************)
EXTENDS CSim, BTest, Trans, Timing, Driver, Malloc, ParseLine, JobList

VARIABLE lab
labsVars == <<lab, csimVars, btestVars, transVars, timingVars, driverVars, vars, parseVars, listVars>>

LabsInit ==
    /\ lab \in {"csim", "bits", "trans", "timing", "driver", "malloc", "parse", "jobs"}
    /\ CSimInit /\ BTestInit /\ TransInit /\ TimingInit /\ DriverInit /\ Init /\ ParseInit /\ ListInit

\* The variables of the memory labs and of the others, but for one lab's.
grading == <<lab, btestVars, parseVars, listVars>>
memory == <<lab, csimVars, transVars, timingVars, driverVars, vars>>
LabsNext ==
    \/ lab = "csim" /\ CSimNext /\ UNCHANGED <<grading, transVars, timingVars, driverVars, vars>>
    \/ lab = "trans" /\ TransNext /\ UNCHANGED <<grading, csimVars, timingVars, driverVars, vars>>
    \/ lab = "timing" /\ TimingNext /\ UNCHANGED <<grading, csimVars, transVars, driverVars, vars>>
    \/ lab = "driver" /\ DriverNext /\ UNCHANGED <<grading, csimVars, transVars, timingVars, vars>>
    \/ lab = "malloc" /\ Next /\ UNCHANGED <<grading, csimVars, transVars, timingVars, driverVars>>
    \/ lab = "bits" /\ BTestNext /\ UNCHANGED <<memory, parseVars, listVars>>
    \/ lab = "parse" /\ ParseNext /\ UNCHANGED <<memory, btestVars, listVars>>
    \/ lab = "jobs" /\ ListNext /\ UNCHANGED <<memory, btestVars, parseVars>>
LabsSpec == LabsInit /\ [][LabsNext]_labsVars

\* jobs: job IDs can grow without limit, since deletejob may put nextjid above
\* MAXJOBS (line 565).
BoundedJids == nextjid <= MaxJobs + 3

\* bits: words near the boundaries of each puzzle, and floats of every kind.
MCRandom == {{1, 3, 4, 9, 17, 20, 30}, {0, 2, 11, 19, 24, 31}}
Fracs == {{}, {0}, {22}, {21}, 0 .. 22, 11 .. 22, {0, 22}, 0 .. 21}
Exps == {0, 1, 2, 126, 127, 128, 130, 149, 150, 151, 157, 158, 159, 253, 254, 255}
FloatWord(sgn, e, f) == sgn \cup Shl(Word(e), 23) \cup f
MCProbes ==
    {Word(n) : n \in 0 .. 160} \cup {Minus(Word(n)) : n \in 1 .. 160}
        \cup {{i} : i \in Bits} \cup {Bits \ {i} : i \in Bits}
        \cup {{i \in Bits : i % 2 = 0}, {i \in Bits : i % 2 = 1}}
        \cup {FloatWord(sgn, e, f) : sgn \in {{}, {31}}, e \in Exps, f \in Fracs}
MCOthers ==
    {Word(n) : n \in 0 .. 2} \cup {Minus(Word(n)) : n \in 1 .. 3}
        \cup {{30}, {31}, Bits \ {31}, Bits \ {30}, {0, 31}, {i \in Bits : i % 2 = 0},
              {i \in Bits : i % 2 = 1}, {0, 1, 2, 31}}

\* csim: four blocks of the first set and one of the second.
MCBlocks == {0, 4, 8, 12, 2}

\* trans: the graded shapes, and shapes whose sides do or do not fit the blocks.
MCShapes ==
    ({32, 64} \X {1, 4, 7, 8, 12, 16, 24, 32, 40, 64})
        \cup {<<61, 67>>, <<31, 8>>, <<33, 32>>, <<20, 35>>, <<17, 18>>, <<1, 1>>}

\* driver: trace files that reuse identifiers, reallocate, put a payload around
\* another, fail, and lie about their length.
A(i, n) == [type |-> "a", index |-> i, size |-> n]
R(i, n) == [type |-> "r", index |-> i, size |-> n]
F(i) == [type |-> "f", index |-> i, size |-> 0]
TraceFile(ids, reqs) == [num_ids |-> ids, num_ops |-> Len(reqs), ops |-> reqs]
MCTraceFiles ==
    {TraceFile(2, <<A(0, 2), A(1, 4), R(0, 1), F(1)>>), TraceFile(3, <<A(0, 1), A(2, 4), F(0), R(2, 3)>>),
     TraceFile(2, <<A(0, 3), R(0, 4), A(1, 2), F(0)>>), TraceFile(1, <<A(0, 0)>>),
     [num_ids |-> 1, num_ops |-> 3, ops |-> <<A(0, 1), F(0)>>]}

\* parse: words plain and with a space, words that begin with &, the empty word.
MCVocabulary == {<<"a">>, <<"a", "a">>, <<"a", " ", "a">>, <<"&">>, <<"&", "a">>, <<>>, <<" ">>}
=============================================================================
