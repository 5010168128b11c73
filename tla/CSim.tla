-------------------------------- MODULE CSim --------------------------------
(***************************************************************************)
(* The cache simulator lab04_cache/csim.c: the lines of each set carry a   *)
(* counter that every access to the set ages, and a trace of loads,        *)
(* stores and modifications is counted as hits, misses and evictions.      *)
(***************************************************************************)
EXTENDS Integers, FiniteSets, SequencesExt

CONSTANTS
    s, E, b,      \* the cache: set index bits, lines per set, block bits
    Addresses,    \* the addresses of the trace
    MaxOps        \* bound: the length of the trace

\* Below 31 bits the masks are exact.  setmask and tagmask are built of the
\* int 1 << i: tagmask, which goes on to bit 63, may hold any of the low
\* bits too, and the shift to the right drops those.
ASSUME GeometryAssumption == s \in Nat /\ b \in Nat /\ s + b <= 30 /\ E \in Nat \ {0}
\* What the provers do not know of ^.
ASSUME PowersAssumption == 2^s \in Nat \ {0} /\ 2^b \in Nat \ {0}
ASSUME AddressesAssumption == Addresses \subseteq Nat
ASSUME MaxOpsAssumption == MaxOps \in Nat

VARIABLES
    line,         \* cache_line: of each set, its lines
    hit_cnt, miss_cnt, evict_cnt,
    ops           \* trace lines read

csimVars == <<line, hit_cnt, miss_cnt, evict_cnt, ops>>

Lines == 0 .. E - 1
SetIdx(a) == (a \div 2^b) % 2^s
TagOf(a) == a \div 2^(s + b)
Sets == 0 .. 2^s - 1
Tags == {TagOf(a) : a \in Addresses}

CSimInit ==
    /\ line = [i \in Sets |-> [j \in Lines |-> [valid |-> 0, tag |-> 0, LRU_cnt |-> 0]]]
    /\ hit_cnt = 0 /\ miss_cnt = 0 /\ evict_cnt = 0 /\ ops = 0

\* Mutated: the counters of the other lines stay.
TouchedAlone(set, j, tag) ==
    [set EXCEPT ![j] = [valid |-> 1, tag |-> tag, LRU_cnt |-> 0]]

\* set_and_update_count: line j holds the tag and is the youngest, every
\* other line, in use or not, is one older.
set_and_update_count(set, j, tag) ==
    [i \in Lines |-> IF i = j THEN [valid |-> 1, tag |-> tag, LRU_cnt |-> 0]
                     ELSE [set[i] EXCEPT !.LRU_cnt = @ + 1]]

\* The lines of a set that hold the tag: at most one does.
Holding(set, tag) == {j \in Lines : set[j].valid = 1 /\ set[j].tag = tag}
FreeLines(set) == {j \in Lines : set[j].valid # 1}

\* Mutated: the line of the lowest counter, the latest used.
VictimYoungest(set) ==
    Min({j \in Lines : \A i \in Lines : set[j].LRU_cnt <= set[i].LRU_cnt})

\* The first line of the greatest counter.
Victim(set) ==
    Min({j \in Lines : \A i \in Lines : set[i].LRU_cnt <= set[j].LRU_cnt})

\* The line find settles on: the one that holds the tag, the last free one,
\* or the victim.
Chosen(set, tag) ==
    IF Holding(set, tag) # {} THEN Min(Holding(set, tag))
    ELSE IF FreeLines(set) # {} THEN Max(FreeLines(set))
    ELSE Victim(set)

Evicts(set, tag) == Holding(set, tag) = {} /\ FreeLines(set) = {}

(***************************************************************************)
(* Actions.  An I line of the trace changes nothing.                       *)
(***************************************************************************)

\* load and store: one find.  modify: two, the second of which hits.
find(a, twice) ==
    LET set == line[SetIdx(a)]
        once == set_and_update_count(set, Chosen(set, TagOf(a)), TagOf(a))
        hit == Holding(set, TagOf(a)) # {}
        again == set_and_update_count(once, Chosen(once, TagOf(a)), TagOf(a))
        hitAgain == Holding(once, TagOf(a)) # {}
        Count(x) == IF x THEN 1 ELSE 0
    IN  /\ line' = [line EXCEPT ![SetIdx(a)] = IF twice THEN again ELSE once]
        /\ hit_cnt' = hit_cnt + Count(hit) + Count(twice /\ hitAgain)
        /\ miss_cnt' = miss_cnt + Count(~hit) + Count(twice /\ ~hitAgain)
        /\ evict_cnt' = evict_cnt + Count(Evicts(set, TagOf(a)))
                                  + Count(twice /\ Evicts(once, TagOf(a)))

LoadOrStore(a) == ops < MaxOps /\ ops' = ops + 1 /\ find(a, FALSE)
Modify(a) == ops < MaxOps /\ ops' = ops + 1 /\ find(a, TRUE)

CSimNext == \E a \in Addresses : LoadOrStore(a) \/ Modify(a)

CSimSpec == CSimInit /\ [][CSimNext]_csimVars

(***************************************************************************)
(* Properties                                                              *)
(***************************************************************************)

CSimTypeOK ==
    /\ line \in [Sets -> [Lines -> [valid : {0, 1}, tag : Tags \cup {0}, LRU_cnt : Nat]]]
    /\ hit_cnt \in Nat /\ miss_cnt \in Nat /\ evict_cnt \in Nat
    /\ ops \in 0 .. MaxOps

\* The tags of a set's lines in use, and which was used after which: the
\* younger one.
Resident(set) == {set[j].tag : j \in Lines \ FreeLines(set)}
UsedAfter(set) ==
    {p \in Resident(set) \X Resident(set) :
        \E j, k \in Lines \ FreeLines(set) :
            p = <<set[j].tag, set[k].tag>> /\ set[j].LRU_cnt < set[k].LRU_cnt}

LRUCache == INSTANCE LRU WITH
    resident <- [i \in Sets |-> Resident(line[i])],
    after <- [i \in Sets |-> UsedAfter(line[i])],
    hits <- hit_cnt, misses <- miss_cnt, evictions <- evict_cnt

\* The counters order the lines of a set as their uses were ordered, and the
\* simulator counts what a true LRU cache of its geometry counts.
IsLRU == LRUCache!Spec

\* No two lines of a set hold one tag or one age, so that neither the lookup
\* nor the victim depends on the order of the lines.
LinesDistinct ==
    \A i \in Sets : \A j, k \in Lines \ FreeLines(line[i]) : j # k =>
        /\ line[i][j].tag # line[i][k].tag
        /\ line[i][j].LRU_cnt # line[i][k].LRU_cnt
=============================================================================
