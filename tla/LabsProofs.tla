----------------------------- MODULE LabsProofs -----------------------------
(***************************************************************************)
(* What is proved of the labs' programs that run alone: the cache          *)
(* simulator, the timing packages, and the driver of the allocator lab.    *)
(* They share no state; each part has an invariant of its own.             *)
(***************************************************************************)
EXTENDS CSim, Timing, Driver, FiniteSetTheorems, WellFoundedInduction, TLAPS

(***************************************************************************)
(* A nonempty set of naturals has a least element.                         *)
(***************************************************************************)
LEMMA LeastNatural ==
    ASSUME NEW S \in SUBSET Nat, S # {}
    PROVE  \E m \in S : \A n \in S : m <= n
<1>1. IsWellFoundedOn(OpToRel(<, Nat), Nat)
  BY NatLessThanWellFounded
<1>2. PICK m \in S : \A n \in S : ~ (<<n, m>> \in OpToRel(<, Nat))
  <2> HIDE DEF IsWellFoundedOn, OpToRel
  <2> QED BY <1>1, WFMin
<1>3. \A n \in S : ~ (n < m)
  BY <1>2 DEF OpToRel
<1> QED BY <1>3

-----------------------------------------------------------------------------
(***************************************************************************)
(* The cache simulator: its lines are well formed and distinct, and its    *)
(* counts are those of an LRU cache, for every geometry and every trace of *)
(* any length.                                                             *)
(***************************************************************************)

\* The lines a set may have when no counter exceeds n.
LineSet(n) == [Lines -> [valid : {0, 1}, tag : Tags \cup {0}, LRU_cnt : 0 .. n]]

Distinct(set) ==
    \A j, k \in Lines \ FreeLines(set) : j # k =>
        set[j].tag # set[k].tag /\ set[j].LRU_cnt # set[k].LRU_cnt

\* The inductive invariant.  The bound of the counters is what makes a line
\* of the greatest counter exist; an access ages a set at most twice.
IInv ==
    /\ ops \in 0 .. MaxOps
    /\ hit_cnt \in Nat /\ miss_cnt \in Nat /\ evict_cnt \in Nat
    /\ line \in [Sets -> LineSet(2 * ops)]
    /\ \A i \in Sets : Distinct(line[i])

(***************************************************************************)
(* Min returns a member of a nonempty set of lines: what the first match   *)
(* of a loop over the set is.                                              *)
(***************************************************************************)
LEMMA MinMember ==
    ASSUME NEW S \in SUBSET Lines, S # {}
    PROVE  Min(S) \in S
<1>1. S \in SUBSET Nat
  BY GeometryAssumption DEF Lines
<1>2. PICK m \in S : \A n \in S : m <= n
  BY <1>1, LeastNatural
<1> QED BY <1>2 DEF Min

(***************************************************************************)
(* Max does too: the last free line find remembers.                        *)
(***************************************************************************)
LEMMA MaxMember ==
    ASSUME NEW S \in SUBSET Lines, S # {}
    PROVE  Max(S) \in S
<1> DEFINE T == {E - 1 - j : j \in S}
<1>1. T \in SUBSET Nat /\ T # {}
  <2>1. \A j \in S : E - 1 - j \in Nat
    BY GeometryAssumption DEF Lines
  <2> QED BY <2>1
<1>2. PICK m \in T : \A n \in T : m <= n
  <2> HIDE DEF T
  <2> QED BY <1>1, LeastNatural
<1>3. PICK x \in S : m = E - 1 - x
  BY <1>2
<1>4. \A y \in S : x >= y
  BY <1>2, <1>3, GeometryAssumption DEF Lines
<1> QED BY <1>4 DEF Max

(***************************************************************************)
(* A set always has a victim: some line has the greatest counter.          *)
(***************************************************************************)
LEMMA VictimIsOldest ==
    ASSUME NEW n \in Nat, NEW set \in LineSet(n)
    PROVE  Victim(set) \in Lines /\ \A i \in Lines : set[i].LRU_cnt <= set[Victim(set)].LRU_cnt
<1> DEFINE T == {n - set[j].LRU_cnt : j \in Lines}
<1> DEFINE Eldest == {j \in Lines : \A i \in Lines : set[i].LRU_cnt <= set[j].LRU_cnt}
<1>0. \A j \in Lines : set[j].LRU_cnt \in 0 .. n
  BY DEF LineSet
<1>1. T \in SUBSET Nat /\ T # {}
  <2>1. 0 \in Lines
    BY GeometryAssumption DEF Lines
  <2> QED BY <1>0, <2>1
<1>2. PICK m \in T : \A k \in T : m <= k
  <2> HIDE DEF T
  <2> QED BY <1>1, LeastNatural
<1>3. PICK j \in Lines : m = n - set[j].LRU_cnt
  BY <1>2
<1>4. j \in Eldest
  <2>1. ASSUME NEW i \in Lines PROVE set[i].LRU_cnt <= set[j].LRU_cnt
    <3>1. n - set[i].LRU_cnt \in T
      OBVIOUS
    <3>2. n - set[j].LRU_cnt <= n - set[i].LRU_cnt
      <4> HIDE DEF T
      <4> QED BY <1>2, <1>3, <3>1
    <3>3. set[i].LRU_cnt \in Int /\ set[j].LRU_cnt \in Int
      BY <1>0
    <3> QED BY <3>2, <3>3
  <2> QED BY <2>1
<1>5. Min(Eldest) \in Eldest
  <2>1. Eldest \in SUBSET Lines
    OBVIOUS
  <2> HIDE DEF Eldest
  <2> QED BY <1>4, <2>1, MinMember
<1>6. Victim(set) = Min(Eldest)
  BY DEF Victim
<1> QED BY <1>5, <1>6

(***************************************************************************)
(* find settles on a line; it is the only one that may hold the tag.       *)
(***************************************************************************)
LEMMA ChosenLine ==
    ASSUME NEW n \in Nat, NEW set \in LineSet(n), NEW tag, Distinct(set)
    PROVE  /\ Chosen(set, tag) \in Lines
           /\ \A j \in Lines \ FreeLines(set) :
                 j # Chosen(set, tag) => set[j].tag # tag
<1>1. Holding(set, tag) \in SUBSET Lines /\ FreeLines(set) \in SUBSET Lines
  BY DEF Holding, FreeLines
<1>2. CASE Holding(set, tag) # {}
  <2>1. Chosen(set, tag) \in Holding(set, tag)
    BY <1>1, <1>2, MinMember DEF Chosen
  <2>2. \A j \in Holding(set, tag) : j \in Lines \ FreeLines(set) /\ set[j].tag = tag
    BY DEF Holding, FreeLines
  <2> QED BY <2>1, <2>2 DEF Distinct
<1>3. CASE Holding(set, tag) = {}
  <2>1. \A j \in Lines \ FreeLines(set) : set[j].tag # tag
    BY <1>3 DEF Holding, FreeLines
  <2>2. CASE FreeLines(set) # {}
    BY <1>1, <1>3, <2>1, <2>2, MaxMember DEF Chosen
  <2>3. CASE FreeLines(set) = {}
    BY <1>3, <2>1, <2>3, VictimIsOldest DEF Chosen
  <2> QED BY <2>2, <2>3
<1> QED BY <1>2, <1>3

(***************************************************************************)
(* One access keeps the lines of a set well formed and distinct.           *)
(***************************************************************************)
LEMMA AccessKeepsDistinct ==
    ASSUME NEW n \in Nat, NEW set \in LineSet(n), NEW tag \in Tags, Distinct(set)
    PROVE  /\ set_and_update_count(set, Chosen(set, tag), tag) \in LineSet(n + 1)
           /\ Distinct(set_and_update_count(set, Chosen(set, tag), tag))
<1> DEFINE c == Chosen(set, tag)
           new == set_and_update_count(set, c, tag)
<1>1. /\ c \in Lines
      /\ \A j \in Lines \ FreeLines(set) : j # c => set[j].tag # tag
  BY ChosenLine
<1> HIDE DEF c
<1>2. /\ new[c] = [valid |-> 1, tag |-> tag, LRU_cnt |-> 0]
      /\ \A i \in Lines : i # c => new[i] = [set[i] EXCEPT !.LRU_cnt = @ + 1]
      /\ DOMAIN new = Lines
  BY <1>1 DEF set_and_update_count
<1>3. \A i \in Lines : /\ set[i] \in [valid : {0, 1}, tag : Tags \cup {0}, LRU_cnt : 0 .. n]
                       /\ set[i].LRU_cnt \in Nat /\ set[i].LRU_cnt <= n
  BY DEF LineSet
<1>4. \A i \in Lines : i # c =>
         /\ new[i].valid = set[i].valid /\ new[i].tag = set[i].tag
         /\ new[i].LRU_cnt = set[i].LRU_cnt + 1
  BY <1>2, <1>3
<1>5. \A i \in Lines :
         new[i] \in [valid : {0, 1}, tag : Tags \cup {0}, LRU_cnt : 0 .. n + 1]
  <2> SUFFICES ASSUME NEW i \in Lines
               PROVE  new[i] \in [valid : {0, 1}, tag : Tags \cup {0}, LRU_cnt : 0 .. n + 1]
    OBVIOUS
  <2>1. CASE i = c
    BY <1>2, <2>1
  <2>2. CASE i # c
    BY <1>2, <1>3, <2>2
  <2> QED BY <2>1, <2>2
<1>6. new \in LineSet(n + 1)
  <2>1. new = [i \in Lines |-> new[i]]
    BY DEF set_and_update_count
  <2> HIDE DEF new
  <2> QED BY <1>5, <2>1 DEF LineSet
<1>7. Distinct(new)
  <2> SUFFICES ASSUME NEW j \in Lines \ FreeLines(new), NEW k \in Lines \ FreeLines(new), j # k
               PROVE  new[j].tag # new[k].tag /\ new[j].LRU_cnt # new[k].LRU_cnt
    BY DEF Distinct
  <2>1. \A i \in Lines \ FreeLines(new) : i # c => i \in Lines \ FreeLines(set)
    BY <1>4 DEF FreeLines
  <2>2. CASE j = c
    BY <1>1, <1>2, <1>3, <1>4, <2>1, <2>2
  <2>3. CASE k = c
    BY <1>1, <1>2, <1>3, <1>4, <2>1, <2>3
  <2>4. CASE j # c /\ k # c
    <3>1. j \in Lines \ FreeLines(set) /\ k \in Lines \ FreeLines(set)
      BY <2>1, <2>4
    <3>2. set[j].tag # set[k].tag /\ set[j].LRU_cnt # set[k].LRU_cnt
      BY <3>1 DEF Distinct
    <3> QED BY <1>3, <1>4, <2>4, <3>2
  <2> QED BY <2>2, <2>3, <2>4
<1> QED BY <1>6, <1>7 DEF c

(***************************************************************************)
(* A trace line keeps the invariant.                                       *)
(***************************************************************************)
LEMMA FindKeepsIInv ==
    ASSUME IInv, NEW a \in Addresses, NEW twice \in BOOLEAN,
           ops < MaxOps, ops' = ops + 1, find(a, twice)
    PROVE  IInv'
<1> DEFINE i0 == SetIdx(a)
           set == line[i0]
           tag == TagOf(a)
           once == set_and_update_count(set, Chosen(set, tag), tag)
           again == set_and_update_count(once, Chosen(once, tag), tag)
           new == IF twice THEN again ELSE once
<1>1. tag \in Tags
  BY DEF Tags
<1>2. ops \in Nat /\ ops' \in 0 .. MaxOps /\ 2 * ops' = 2 * ops + 2
  BY MaxOpsAssumption DEF IInv
<1>3. line' = [line EXCEPT ![i0] = new]
  BY DEF find
<1>4. hit_cnt' \in Nat /\ miss_cnt' \in Nat /\ evict_cnt' \in Nat
  BY DEF find, IInv
<1>5. \A n \in Nat : \A st : st \in LineSet(n) => st \in LineSet(n + 1)
  <2> SUFFICES ASSUME NEW n \in Nat, NEW st, st \in LineSet(n) PROVE st \in LineSet(n + 1)
    OBVIOUS
  <2>1. [valid : {0, 1}, tag : Tags \cup {0}, LRU_cnt : 0 .. n]
        \subseteq [valid : {0, 1}, tag : Tags \cup {0}, LRU_cnt : 0 .. n + 1]
    OBVIOUS
  <2> QED BY <2>1 DEF LineSet
<1>6. ASSUME i0 \in Sets PROVE new \in LineSet(2 * ops + 2) /\ Distinct(new)
  <2>1. 2 * ops \in Nat /\ set \in LineSet(2 * ops) /\ Distinct(set)
    BY <1>2, <1>6 DEF IInv
  <2>2. once \in LineSet(2 * ops + 1) /\ Distinct(once)
    BY <1>1, <2>1, AccessKeepsDistinct
  <2>3. again \in LineSet((2 * ops + 1) + 1) /\ Distinct(again)
    <3> HIDE DEF once, tag
    <3> QED BY <1>1, <1>2, <2>2, AccessKeepsDistinct
  <2>4. once \in LineSet((2 * ops + 1) + 1)
    <3> HIDE DEF once
    <3> QED BY <1>2, <1>5, <2>2
  <2>5. (2 * ops + 1) + 1 = 2 * ops + 2
    BY <1>2
  <2> HIDE DEF once, again
  <2> QED BY <2>2, <2>3, <2>4, <2>5
<1>7. \A i \in Sets : line[i] \in LineSet(2 * ops + 2) /\ Distinct(line[i])
  <2> SUFFICES ASSUME NEW i \in Sets
               PROVE line[i] \in LineSet(2 * ops + 2) /\ Distinct(line[i])
    OBVIOUS
  <2>1. line[i] \in LineSet(2 * ops) /\ Distinct(line[i])
    BY DEF IInv
  <2>2. line[i] \in LineSet((2 * ops + 1) + 1)
    BY <1>2, <1>5, <2>1
  <2>3. (2 * ops + 1) + 1 = 2 * ops + 2
    BY <1>2
  <2> QED BY <2>1, <2>2, <2>3
<1> HIDE DEF new, i0
<1>8. DOMAIN line = Sets
  BY DEF IInv
<1>9. line' \in [Sets -> LineSet(2 * ops + 2)] /\ \A i \in Sets : Distinct(line'[i])
  BY <1>3, <1>6, <1>7, <1>8
<1> QED
  <2>1. line' \in [Sets -> LineSet(2 * ops')]
    BY <1>2, <1>9
  <2> QED BY <1>2, <1>4, <1>9, <2>1 DEF IInv

(***************************************************************************)
(* The inductive invariant holds of every trace.                           *)
(***************************************************************************)
THEOREM Invariance == CSimSpec => []IInv
<1>1. CSimInit => IInv
  <2> SUFFICES ASSUME CSimInit PROVE IInv
    OBVIOUS
  <2>1. ops \in 0 .. MaxOps /\ 2 * ops = 0
    BY MaxOpsAssumption DEF CSimInit
  <2>2. line \in [Sets -> LineSet(0)]
    BY DEF CSimInit, LineSet
  <2>3. \A i \in Sets : Lines \ FreeLines(line[i]) = {}
    BY DEF CSimInit, FreeLines
  <2> QED BY <2>1, <2>2, <2>3 DEF CSimInit, IInv, Distinct
<1>2. IInv /\ [CSimNext]_csimVars => IInv'
  <2> SUFFICES ASSUME IInv, [CSimNext]_csimVars PROVE IInv'
    OBVIOUS
  <2>1. ASSUME NEW a \in Addresses, LoadOrStore(a) PROVE IInv'
    BY <2>1, FindKeepsIInv DEF LoadOrStore
  <2>2. ASSUME NEW a \in Addresses, Modify(a) PROVE IInv'
    BY <2>2, FindKeepsIInv DEF Modify
  <2>3. CASE UNCHANGED csimVars
    BY <2>3 DEF csimVars, IInv, Distinct, FreeLines
  <2> QED BY <2>1, <2>2, <2>3 DEF CSimNext
<1> QED BY <1>1, <1>2, PTL DEF CSimSpec

(***************************************************************************)
(* The variables keep their types: set_and_update_count, which sets the    *)
(* counter to -1 first, never leaves it negative.                          *)
(***************************************************************************)
THEOREM TypeCorrect == CSimSpec => []CSimTypeOK
<1>1. IInv => CSimTypeOK
  <2> SUFFICES ASSUME IInv PROVE CSimTypeOK
    OBVIOUS
  <2>1. 0 .. 2 * ops \subseteq Nat
    OBVIOUS
  <2>2. LineSet(2 * ops)
        \subseteq [Lines -> [valid : {0, 1}, tag : Tags \cup {0}, LRU_cnt : Nat]]
    BY <2>1 DEF LineSet
  <2> QED BY <2>2 DEF IInv, CSimTypeOK
<1> QED BY <1>1, Invariance, PTL

(***************************************************************************)
(* No two lines of a set in use hold one tag or one age: csim.c's lookup   *)
(* has one answer and its victim is the only line of the greatest age.     *)
(***************************************************************************)
THEOREM LinesAreDistinct == CSimSpec => []LinesDistinct
<1>1. IInv => LinesDistinct
  BY DEF IInv, Distinct, LinesDistinct
<1> QED BY <1>1, Invariance, PTL

(***************************************************************************)
(* The tags of the lines in use, and what the abstract cache keeps of them *)
(***************************************************************************)
InUse(set) == Lines \ FreeLines(set)
FullTags(set) == Cardinality(Resident(set)) = E
OldestTags(set) == {u \in Resident(set) : \A v \in Resident(set) \ {u} : <<v, u>> \in UsedAfter(set)}
KeptTags(set, t) ==
    (IF t \notin Resident(set) /\ FullTags(set) THEN Resident(set) \ OldestTags(set) ELSE Resident(set)) \ {t}

LEMMA AfterPairs ==
    ASSUME NEW set, Distinct(set), NEW j \in InUse(set), NEW k \in InUse(set)
    PROVE  <<set[j].tag, set[k].tag>> \in UsedAfter(set) <=> set[j].LRU_cnt < set[k].LRU_cnt
<1>1. set[j].tag \in Resident(set) /\ set[k].tag \in Resident(set)
  BY DEF Resident, InUse
<1>2. ASSUME NEW m \in Lines \ FreeLines(set), NEW n \in Lines \ FreeLines(set),
             <<set[j].tag, set[k].tag>> = <<set[m].tag, set[n].tag>>
      PROVE  m = j /\ n = k
  BY <1>2 DEF Distinct, InUse
<1> QED BY <1>1, <1>2 DEF UsedAfter, InUse

\* A set with no free line holds as many blocks as it has lines, any other
\* fewer.
LEMMA FullMeansNoFree ==
    ASSUME NEW set, Distinct(set)
    PROVE  FullTags(set) <=> FreeLines(set) = {}
<1> DEFINE U == InUse(set)
           R == Resident(set)
           f == [j \in U |-> set[j].tag]
<1>1. IsFiniteSet(Lines) /\ Cardinality(Lines) = E /\ E \in Nat
  <2>1. 0 \in Int /\ E - 1 \in Int /\ E - 1 - 0 + 1 = E /\ ~(0 > E - 1)
    BY GeometryAssumption
  <2> QED BY <2>1, GeometryAssumption, FS_Interval DEF Lines
<1>2. f \in Injection(U, R) /\ f \in Surjection(U, R)
  BY DEF Injection, Surjection, IsInjective, Resident, InUse, Distinct
<1>3. U \subseteq Lines /\ IsFiniteSet(U) /\ Cardinality(U) \in Nat
  BY <1>1, FS_Subset, FS_CardinalityType DEF InUse
<1>4. Cardinality(R) = Cardinality(U)
  <2> HIDE DEF f, U, R
  <2> QED BY <1>2, <1>3, FS_Surjection
<1>5. Cardinality(U) = E <=> U = Lines
  <2> HIDE DEF U
  <2> QED BY <1>1, <1>3, FS_Subset
<1>6. U = Lines <=> FreeLines(set) = {}
  BY DEF InUse, FreeLines
<1> QED BY <1>4, <1>5, <1>6 DEF FullTags

\* The blocks an access leaves are those of the lines in use that it does
\* not choose.
LEMMA KeptLines ==
    ASSUME NEW n \in Nat, NEW set \in LineSet(n), NEW tag, Distinct(set)
    PROVE  /\ KeptTags(set, tag) = {set[j].tag : j \in InUse(set) \ {Chosen(set, tag)}}
           /\ Holding(set, tag) # {} <=> tag \in Resident(set)
           /\ Evicts(set, tag) <=> tag \notin Resident(set) /\ FullTags(set)
<1> DEFINE c == Chosen(set, tag)
           U == InUse(set)
<1>1. Holding(set, tag) # {} <=> tag \in Resident(set)
  BY DEF Holding, Resident, FreeLines
<1>2. Evicts(set, tag) <=> tag \notin Resident(set) /\ FullTags(set)
  BY <1>1, FullMeansNoFree DEF Evicts
<1>3. \A j, k \in U : set[j].tag = set[k].tag => j = k
  BY DEF Distinct, InUse
<1>4. Resident(set) = {set[j].tag : j \in U}
  BY DEF Resident, InUse
<1>5. c \in Lines /\ \A j \in U : j # c => set[j].tag # tag
  BY ChosenLine DEF InUse
<1>6. Holding(set, tag) \in SUBSET Lines /\ FreeLines(set) \in SUBSET Lines
  BY DEF Holding, FreeLines
<1>7. CASE Holding(set, tag) # {}
  <2>1. c \in Holding(set, tag)
    BY <1>6, <1>7, MinMember DEF Chosen
  <2>2. c \in U /\ set[c].tag = tag
    BY <2>1 DEF Holding, InUse, FreeLines
  <2>3. KeptTags(set, tag) = Resident(set) \ {tag}
    BY <1>1, <1>7 DEF KeptTags
  <2> HIDE DEF c, U
  <2>4. KeptTags(set, tag) = {set[j].tag : j \in U \ {c}}
    BY <1>3, <1>4, <2>2, <2>3
  <2> QED BY <1>1, <1>2, <2>4 DEF c, U
<1>8. CASE Holding(set, tag) = {} /\ FreeLines(set) # {}
  <2>1. c \in FreeLines(set)
    BY <1>6, <1>8, MaxMember DEF Chosen
  <2>2. c \notin U
    BY <2>1 DEF InUse
  <2>3. KeptTags(set, tag) = Resident(set)
    BY <1>1, <1>8, FullMeansNoFree DEF KeptTags
  <2> HIDE DEF c, U
  <2>4. KeptTags(set, tag) = {set[j].tag : j \in U \ {c}}
    BY <1>4, <2>2, <2>3
  <2> QED BY <1>1, <1>2, <2>4 DEF c, U
<1>9. CASE Holding(set, tag) = {} /\ FreeLines(set) = {}
  <2>1. c = Victim(set) /\ U = Lines
    BY <1>9 DEF Chosen, InUse
  <2>2. c \in U /\ \A i \in U : set[i].LRU_cnt <= set[c].LRU_cnt
    BY <2>1, VictimIsOldest
  <2>3. \A i \in U : set[i].LRU_cnt \in Nat
    BY DEF LineSet, InUse
  <2>4. \A i \in U : i # c => set[i].LRU_cnt < set[c].LRU_cnt
    <3>1. \A i \in U : i # c => set[i].LRU_cnt # set[c].LRU_cnt
      BY <2>2 DEF Distinct, InUse
    <3> HIDE DEF c, U
    <3> QED BY <2>2, <2>3, <3>1
  <2>5. \A j, k \in U : <<set[j].tag, set[k].tag>> \in UsedAfter(set) <=> set[j].LRU_cnt < set[k].LRU_cnt
    BY AfterPairs
  <2>6. OldestTags(set) = {set[c].tag}
    <3> HIDE DEF c, U
    <3>1. set[c].tag \in OldestTags(set)
      BY <1>4, <2>2, <2>4, <2>5 DEF OldestTags
    <3>2. ASSUME NEW k \in U, k # c, set[k].tag \in OldestTags(set) PROVE FALSE
      <4>1. set[c].tag \in Resident(set) \ {set[k].tag}
        BY <1>3, <1>4, <2>2, <3>2
      <4>2. <<set[c].tag, set[k].tag>> \in UsedAfter(set)
        BY <3>2, <4>1 DEF OldestTags
      <4>3. set[c].LRU_cnt < set[k].LRU_cnt
        BY <2>2, <2>5, <3>2, <4>2
      <4> QED BY <2>2, <2>3, <2>4, <3>2, <4>3
    <3> QED BY <1>4, <3>1, <3>2 DEF OldestTags
  <2>7. KeptTags(set, tag) = Resident(set) \ {set[c].tag}
    BY <1>1, <1>9, <2>6, FullMeansNoFree DEF KeptTags
  <2> HIDE DEF c, U
  <2>8. KeptTags(set, tag) = {set[j].tag : j \in U \ {c}}
    BY <1>3, <1>4, <2>2, <2>7
  <2> QED BY <1>1, <1>2, <2>8 DEF c, U
<1> QED BY <1>7, <1>8, <1>9

(***************************************************************************)
(* One access does to the blocks of a set what it does in an LRU cache.    *)
(***************************************************************************)
LEMMA AccessIsLRU ==
    ASSUME NEW n \in Nat, NEW set \in LineSet(n), NEW tag \in Tags, Distinct(set),
           NEW new, new = set_and_update_count(set, Chosen(set, tag), tag)
    PROVE  /\ Resident(new) = KeptTags(set, tag) \cup {tag}
           /\ UsedAfter(new) = (UsedAfter(set) \cap (KeptTags(set, tag) \X KeptTags(set, tag)))
                           \cup ({tag} \X KeptTags(set, tag))
<1> DEFINE c == Chosen(set, tag)
           K == KeptTags(set, tag)
           U == InUse(set) \ {c}
<1>1. c \in Lines /\ \A j \in U : set[j].tag # tag
  BY ChosenLine DEF InUse
<1>2. K = {set[j].tag : j \in U}
  BY KeptLines
<1>3. \A j \in Lines : set[j] \in [valid : {0, 1}, tag : Tags \cup {0}, LRU_cnt : 0 .. n]
  BY DEF LineSet
<1> HIDE DEF c
<1>4. new[c] = [valid |-> 1, tag |-> tag, LRU_cnt |-> 0]
      /\ \A i \in Lines : i # c => /\ new[i].valid = set[i].valid /\ new[i].tag = set[i].tag
                                   /\ new[i].LRU_cnt = set[i].LRU_cnt + 1
  BY <1>1, <1>3 DEF set_and_update_count, c
<1>5. InUse(new) = U \cup {c}
  BY <1>1, <1>4 DEF InUse, FreeLines
<1>6. \A j \in U : /\ j \in Lines /\ j # c /\ j \in InUse(set)
                   /\ set[j].LRU_cnt \in Nat
  BY <1>3 DEF InUse
<1>7. Distinct(new)
  BY AccessKeepsDistinct
<1> HIDE DEF U, K
<1>8. Resident(new) = K \cup {tag}
  <2>1. Resident(new) = {new[j].tag : j \in U \cup {c}}
    BY <1>5 DEF Resident, InUse
  <2> QED BY <1>2, <1>4, <1>6, <2>1
<1>9. ASSUME NEW x \in K \cup {tag}, NEW y \in K \cup {tag}
      PROVE  <<x, y>> \in UsedAfter(new) <=> (x \in K /\ y \in K /\ <<x, y>> \in UsedAfter(set)) \/ (x = tag /\ y \in K)
  <2>1. CASE x \in K /\ y \in K
    <3>1. PICK j \in U, k \in U : x = set[j].tag /\ y = set[k].tag
      BY <1>2, <2>1
    <3>2. j \in InUse(new) /\ k \in InUse(new) /\ new[j].tag = x /\ new[k].tag = y
          /\ new[j].LRU_cnt = set[j].LRU_cnt + 1 /\ new[k].LRU_cnt = set[k].LRU_cnt + 1
      BY <1>4, <1>5, <1>6, <3>1
    <3>3. <<x, y>> \in UsedAfter(new) <=> set[j].LRU_cnt + 1 < set[k].LRU_cnt + 1
      BY <1>7, <3>2, AfterPairs
    <3>4. <<x, y>> \in UsedAfter(set) <=> set[j].LRU_cnt < set[k].LRU_cnt
      BY <1>6, <3>1, AfterPairs
    <3>5. x # tag
      BY <1>1, <3>1
    <3> QED BY <1>6, <2>1, <3>3, <3>4, <3>5
  <2>2. tag \notin K
    BY <1>1, <1>2
  <2>3. CASE x = tag /\ y \in K
    <3>1. PICK k \in U : y = set[k].tag
      BY <1>2, <2>3
    <3>2. c \in InUse(new) /\ k \in InUse(new) /\ new[c].tag = x /\ new[k].tag = y
          /\ new[c].LRU_cnt = 0 /\ new[k].LRU_cnt = set[k].LRU_cnt + 1
      BY <1>4, <1>5, <1>6, <2>3, <3>1
    <3>3. <<x, y>> \in UsedAfter(new) <=> 0 < set[k].LRU_cnt + 1
      BY <1>7, <3>2, AfterPairs
    <3> QED BY <1>6, <2>3, <3>1, <3>3
  <2>4. CASE y = tag
    <3>1. PICK j \in U \cup {c} : new[j].tag = x
      BY <1>2, <1>4, <1>6
    <3>2. j \in InUse(new) /\ c \in InUse(new) /\ new[c].tag = y /\ new[c].LRU_cnt = 0
          /\ new[j].LRU_cnt \in Nat
      BY <1>4, <1>5, <1>6, <2>4, <3>1
    <3>3. <<x, y>> \in UsedAfter(new) <=> new[j].LRU_cnt < 0
      BY <1>7, <3>1, <3>2, AfterPairs
    <3> QED BY <2>2, <2>4, <3>2, <3>3
  <2> QED BY <2>1, <2>2, <2>3, <2>4
<1>10. UsedAfter(new) \subseteq (K \cup {tag}) \X (K \cup {tag})
  BY <1>8 DEF UsedAfter
<1>11. UsedAfter(new) = (UsedAfter(set) \cap (K \X K)) \cup ({tag} \X K)
  BY <1>9, <1>10
<1> QED BY <1>8, <1>11 DEF K

(***************************************************************************)
(* The second access of a modify hits, and leaves the order as it is.      *)
(***************************************************************************)
LEMMA AgainIsHit ==
    ASSUME NEW n \in Nat, NEW set \in LineSet(n), NEW tag \in Tags, Distinct(set),
           NEW once, once = set_and_update_count(set, Chosen(set, tag), tag),
           NEW again, again = set_and_update_count(once, Chosen(once, tag), tag)
    PROVE  /\ Holding(once, tag) # {} /\ ~Evicts(once, tag)
           /\ Resident(again) = Resident(once) /\ UsedAfter(again) = UsedAfter(once)
<1> DEFINE K == KeptTags(set, tag)
<1>1. once \in LineSet(n + 1) /\ Distinct(once)
  BY AccessKeepsDistinct
<1>2. /\ Resident(once) = K \cup {tag}
      /\ UsedAfter(once) = (UsedAfter(set) \cap (K \X K)) \cup ({tag} \X K)
  BY AccessIsLRU
<1>3. n + 1 \in Nat
  OBVIOUS
<1>4. tag \notin K
  BY DEF KeptTags
<1> HIDE DEF K
<1>5. KeptTags(once, tag) = K
  BY <1>2, <1>4 DEF KeptTags
<1>6. Holding(once, tag) # {} /\ ~Evicts(once, tag)
  BY <1>1, <1>2, <1>3, KeptLines
<1>7. /\ Resident(again) = K \cup {tag}
      /\ UsedAfter(again) = (UsedAfter(once) \cap (K \X K)) \cup ({tag} \X K)
  BY <1>1, <1>3, <1>5, AccessIsLRU
<1>8. UsedAfter(again) = UsedAfter(once)
  BY <1>2, <1>4, <1>7
<1> QED BY <1>2, <1>6, <1>7, <1>8

(***************************************************************************)
(* A trace line of the simulator is an access of the LRU cache.            *)
(***************************************************************************)
LEMMA FindIsAccess ==
    ASSUME IInv, NEW a \in Addresses, NEW twice \in BOOLEAN, find(a, twice)
    PROVE  LRUCache!Next
<1> DEFINE i0 == SetIdx(a)
           set == line[i0]
           tag == TagOf(a)
           once == set_and_update_count(set, Chosen(set, tag), tag)
           again == set_and_update_count(once, Chosen(once, tag), tag)
           new == IF twice THEN again ELSE once
           R == [i \in Sets |-> Resident(line[i])]
           A == [i \in Sets |-> UsedAfter(line[i])]
           K == KeptTags(set, tag)
<1>1. tag \in Tags
  BY DEF Tags
<1>2. i0 \in Sets
  <2>1. a \in Nat
    BY AddressesAssumption
  <2> QED BY <2>1, GeometryAssumption, PowersAssumption DEF SetIdx, Sets
<1>3. 2 * ops \in Nat /\ set \in LineSet(2 * ops) /\ Distinct(set)
  BY <1>2, MaxOpsAssumption DEF IInv
<1>4. DOMAIN line = Sets
  BY DEF IInv
<1>5. /\ line' = [line EXCEPT ![i0] = new]
      /\ hit_cnt' = hit_cnt + (IF Holding(set, tag) # {} THEN 1 ELSE 0)
                            + (IF twice /\ Holding(once, tag) # {} THEN 1 ELSE 0)
      /\ miss_cnt' = miss_cnt + (IF ~(Holding(set, tag) # {}) THEN 1 ELSE 0)
                              + (IF twice /\ ~(Holding(once, tag) # {}) THEN 1 ELSE 0)
      /\ evict_cnt' = evict_cnt + (IF Evicts(set, tag) THEN 1 ELSE 0)
                                + (IF twice /\ Evicts(once, tag) THEN 1 ELSE 0)
  BY DEF find
<1>6. hit_cnt \in Nat /\ miss_cnt \in Nat /\ evict_cnt \in Nat
  BY DEF IInv
<1> HIDE DEF set, tag
<1>7. /\ Holding(once, tag) # {} /\ ~Evicts(once, tag)
      /\ Resident(again) = Resident(once) /\ UsedAfter(again) = UsedAfter(once)
  BY <1>1, <1>3, AgainIsHit
<1>8. /\ Resident(once) = K \cup {tag}
      /\ UsedAfter(once) = (UsedAfter(set) \cap (K \X K)) \cup ({tag} \X K)
  BY <1>1, <1>3, AccessIsLRU
<1>9. /\ Holding(set, tag) # {} <=> tag \in Resident(set)
      /\ Evicts(set, tag) <=> tag \notin Resident(set) /\ FullTags(set)
  BY <1>3, KeptLines
<1> HIDE DEF once, again
<1>10. Resident(new) = K \cup {tag} /\ UsedAfter(new) = (UsedAfter(set) \cap (K \X K)) \cup ({tag} \X K)
  BY <1>7, <1>8
<1> HIDE DEF new, i0
<1>11. R[i0] = Resident(set) /\ A[i0] = UsedAfter(set)
  BY <1>2 DEF set
<1>12. LRUCache!Hit(i0, tag) <=> tag \in Resident(set)
  BY <1>11 DEF LRUCache!Hit
<1>13. LRUCache!Evicts(i0, tag) <=> tag \notin Resident(set) /\ FullTags(set)
  BY <1>11 DEF LRUCache!Evicts, LRUCache!Hit, FullTags, LRUCache!Cardinality, Cardinality
<1>14. LRUCache!Oldest(i0) = OldestTags(set)
  BY <1>11 DEF LRUCache!Oldest, OldestTags
<1>15. LRUCache!Kept(i0, tag) = K
  BY <1>11, <1>13, <1>14 DEF LRUCache!Kept, KeptTags
<1>16. \A i \in Sets : line'[i] = IF i = i0 THEN new ELSE line[i]
  BY <1>2, <1>4, <1>5
<1> HIDE DEF K
<1>17. [i \in Sets |-> Resident(line'[i])] = [R EXCEPT ![i0] = K \cup {tag}]
  BY <1>2, <1>10, <1>16
<1>18. [i \in Sets |-> UsedAfter(line'[i])]
         = [A EXCEPT ![i0] = (A[i0] \cap (K \X K)) \cup ({tag} \X K)]
  BY <1>2, <1>10, <1>11, <1>16
<1>19. /\ hit_cnt' = hit_cnt + (IF LRUCache!Hit(i0, tag) THEN 1 ELSE 0) + (IF twice THEN 1 ELSE 0)
       /\ miss_cnt' = miss_cnt + (IF LRUCache!Hit(i0, tag) THEN 0 ELSE 1)
       /\ evict_cnt' = evict_cnt + (IF LRUCache!Evicts(i0, tag) THEN 1 ELSE 0)
  <2>1. hit_cnt' = hit_cnt + (IF LRUCache!Hit(i0, tag) THEN 1 ELSE 0) + (IF twice THEN 1 ELSE 0)
    BY <1>5, <1>6, <1>7, <1>9, <1>12
  <2>2. miss_cnt' = miss_cnt + (IF LRUCache!Hit(i0, tag) THEN 0 ELSE 1)
    BY <1>5, <1>6, <1>7, <1>9, <1>12
  <2>3. evict_cnt' = evict_cnt + (IF LRUCache!Evicts(i0, tag) THEN 1 ELSE 0)
    BY <1>5, <1>6, <1>7, <1>9, <1>13
  <2> QED BY <2>1, <2>2, <2>3
<1>20. LRUCache!Access(i0, tag, twice)
  BY <1>15, <1>17, <1>18, <1>19 DEF LRUCache!Access
<1> QED BY <1>1, <1>2, <1>20 DEF LRUCache!Next

(***************************************************************************)
(* What csim.c counts is what an LRU cache of its geometry counts.         *)
(***************************************************************************)
THEOREM CountsAreLRU == CSimSpec => IsLRU
<1>1. CSimInit => LRUCache!Init
  <2> SUFFICES ASSUME CSimInit PROVE LRUCache!Init
    OBVIOUS
  <2>1. \A i \in Sets : Lines \ FreeLines(line[i]) = {}
    BY DEF CSimInit, FreeLines
  <2>2. \A i \in Sets : Resident(line[i]) = {} /\ UsedAfter(line[i]) = {}
    BY <2>1 DEF Resident, UsedAfter
  <2> QED BY <2>2 DEF CSimInit, LRUCache!Init
<1>2. IInv /\ [CSimNext]_csimVars => [LRUCache!Next]_LRUCache!vars
  <2> SUFFICES ASSUME IInv, [CSimNext]_csimVars PROVE LRUCache!Next \/ UNCHANGED LRUCache!vars
    OBVIOUS
  <2>1. ASSUME NEW a \in Addresses, LoadOrStore(a) PROVE LRUCache!Next
    BY <2>1, FindIsAccess DEF LoadOrStore
  <2>2. ASSUME NEW a \in Addresses, Modify(a) PROVE LRUCache!Next
    BY <2>2, FindIsAccess DEF Modify
  <2>3. CASE UNCHANGED csimVars
    BY <2>3 DEF csimVars, LRUCache!vars, Resident, UsedAfter
  <2> QED BY <2>1, <2>2, <2>3 DEF CSimNext
<1> QED BY <1>1, <1>2, Invariance, PTL DEF CSimSpec, IsLRU, LRUCache!Spec

-----------------------------------------------------------------------------
(***************************************************************************)
(* The timing packages measure the calls they make, for every base of the  *)
(* counter, every k, epsilon and cost of a tick.                           *)
(***************************************************************************)

(***************************************************************************)
(* The counter: digits and borrow give the difference.                     *)
(***************************************************************************)
LEMMA DigitsOf ==
    ASSUME NEW t \in Nat
    PROVE  /\ t \div W \in Nat /\ t % W \in 0 .. W - 1
           /\ t = W * (t \div W) + (t % W)
<1>1. W \in Nat /\ W > 0
  BY CounterAssumption
<1> QED BY <1>1, Z3

\* Digits are what is left of a number below one more of the base.
LEMMA DigitIs ==
    ASSUME NEW q \in Int, NEW r \in 0 .. W - 1
    PROVE  (W * q + r) % W = r /\ (W * q + r) \div W = q
<1>1. W \in Nat /\ W > 0
  BY CounterAssumption
<1> QED BY <1>1, Z3

LEMMA LowDigit ==
    ASSUME NEW a \in 0 .. W - 1, NEW c \in 0 .. W - 1
    PROVE  (a - c) % W = IF c <= a THEN a - c ELSE a - c + W
<1>1. W \in Nat /\ W > 0
  BY CounterAssumption
<1>2. CASE c <= a
  <2>1. a - c \in 0 .. W - 1 /\ a - c = W * 0 + (a - c)
    BY <1>1, <1>2
  <2> QED BY <1>2, <2>1, DigitIs
<1>3. CASE a < c
  <2>1. a - c + W \in 0 .. W - 1 /\ a - c = W * (-1) + (a - c + W)
    BY <1>1, <1>3
  <2> QED BY <1>3, <2>1, DigitIs
<1> QED BY <1>2, <1>3

LEMMA CounterDifference ==
    ASSUME NEW t0 \in Nat, NEW d \in Nat, d < W * W
    PROVE  get_counter(Hi(t0), Lo(t0), t0 + d) = d
<1> DEFINE t == t0 + d
           q0 == t0 \div W
           r0 == t0 % W
           q == t \div W
           r == t % W
           lo == (r - r0) % W
           borrow == IF lo > r THEN 1 ELSE 0
           k == q - q0 - borrow
<1>1. W \in Nat /\ W > 0
  BY CounterAssumption
<1>2. /\ q0 \in Nat /\ r0 \in 0 .. W - 1 /\ t0 = W * q0 + r0
      /\ q \in Nat /\ r \in 0 .. W - 1 /\ t = W * q + r
  <2>1. t \in Nat
    OBVIOUS
  <2> HIDE DEF t
  <2> QED BY <2>1, DigitsOf
<1>3. lo = (IF r0 <= r THEN r - r0 ELSE r - r0 + W) /\ lo \in 0 .. W - 1
  <2>1. lo = IF r0 <= r THEN r - r0 ELSE r - r0 + W
    <3> HIDE DEF r, r0
    <3> QED BY <1>2, LowDigit
  <2> HIDE DEF lo, r, r0
  <2> QED BY <1>1, <1>2, <2>1
<1>4. borrow = IF r0 <= r THEN 0 ELSE 1
  <2> HIDE DEF lo, r, r0
  <2> QED BY <1>1, <1>2, <1>3
<1>5. k \in Int /\ d = W * k + lo
  <2>1. d = t - t0 /\ t \in Nat
    OBVIOUS
  <2> HIDE DEF lo, r, r0, q, q0, borrow, t
  <2>2. d = W * q + r - (W * q0 + r0)
    BY <1>1, <1>2, <2>1
  <2>3. W * (q - q0) = W * q - W * q0 /\ W * (q - q0 - 1) = W * q - W * q0 - W
    BY <1>1, <1>2
  <2>4. CASE r0 <= r
    BY <1>1, <1>2, <1>3, <1>4, <2>2, <2>3, <2>4
  <2>5. CASE ~ (r0 <= r)
    BY <1>1, <1>2, <1>3, <1>4, <2>2, <2>3, <2>5
  <2> QED BY <2>4, <2>5
<1>6. k \in 0 .. W - 1
  <2> HIDE DEF lo, k
  <2>1. ASSUME k < 0 PROVE FALSE
    <3>1. W * k <= -W
      BY <1>1, <1>5, <2>1, Z3
    <3> QED BY <1>1, <1>3, <1>5, <3>1
  <2>2. ASSUME k >= W PROVE FALSE
    <3>1. W * k >= W * W
      BY <1>1, <1>5, <2>2, Z3
    <3>2. W * k \in Int /\ W * W \in Int
      BY <1>1, <1>5
    <3> QED BY <1>1, <1>3, <1>5, <3>1, <3>2
  <2> QED BY <1>1, <1>5, <2>1, <2>2
<1>7. (Hi(t) - Hi(t0) - borrow) % W = k
  <2> DEFINE h == q % W
             h0 == q0 % W
             a == q \div W
             a0 == q0 \div W
  <2>1. h \in 0 .. W - 1 /\ a \in Nat /\ q = W * a + h /\ h0 \in 0 .. W - 1 /\ a0 \in Nat /\ q0 = W * a0 + h0
    <3> HIDE DEF q, q0
    <3> QED BY <1>2, DigitsOf
  <2>2. h - h0 - borrow = W * (a0 - a) + k
    <3> HIDE DEF q, q0, h, h0, a, a0, borrow
    <3>1. W * (a0 - a) = W * a0 - W * a
      BY <1>1, <2>1
    <3> QED BY <1>1, <1>2, <1>4, <2>1, <3>1
  <2>3. (h - h0 - borrow) % W = k
    <3> HIDE DEF q, q0, h, h0, a, a0, borrow, k
    <3> QED BY <1>6, <2>1, <2>2, DigitIs
  <2> QED BY <2>3 DEF Hi
<1>8. get_counter(Hi(t0), Lo(t0), t) = k * W + lo
  BY <1>7 DEF get_counter, Lo
<1> HIDE DEF k, lo
<1> QED BY <1>1, <1>3, <1>5, <1>6, <1>8

(***************************************************************************)
(* Ranks.  S holds m samples; Below and UpTo count those less than v, and  *)
(* those that are not more.                                                *)
(***************************************************************************)
Below(S, m, v) == {i \in 1 .. m : S[i] < v}
UpTo(S, m, v) == {i \in 1 .. m : S[i] <= v}
Rank(S, m, v, n) == Cardinality(Below(S, m, v)) < n /\ n <= Cardinality(UpTo(S, m, v))

\* The first places of vals hold the least of the samples, in order.
Best(vals, S, m) ==
    /\ \A n \in 1 .. kbest : n <= m => Rank(S, m, vals[n], n)
    /\ \A i, j \in 1 .. kbest : i <= j /\ j <= m => vals[i] <= vals[j]

LEMMA CountsBounded ==
    ASSUME NEW m \in Nat, NEW S \in [1 .. m -> Int], NEW v \in Int
    PROVE  /\ IsFiniteSet(Below(S, m, v)) /\ IsFiniteSet(UpTo(S, m, v))
           /\ Cardinality(Below(S, m, v)) \in 0 .. m
           /\ Cardinality(UpTo(S, m, v)) \in 0 .. m
<1>1. IsFiniteSet(1 .. m) /\ Cardinality(1 .. m) = m
  BY FS_Interval
<1>2. Below(S, m, v) \in SUBSET (1 .. m) /\ UpTo(S, m, v) \in SUBSET (1 .. m)
  BY DEF Below, UpTo
<1> QED BY <1>1, <1>2, FS_Subset, FS_CardinalityType

LEMMA CountsOrdered ==
    ASSUME NEW m \in Nat, NEW S \in [1 .. m -> Int], NEW v \in Int, NEW w \in Int, v <= w
    PROVE  /\ Cardinality(Below(S, m, v)) <= Cardinality(Below(S, m, w))
           /\ Cardinality(UpTo(S, m, v)) <= Cardinality(UpTo(S, m, w))
<1>1. Below(S, m, v) \in SUBSET Below(S, m, w) /\ UpTo(S, m, v) \in SUBSET UpTo(S, m, w)
  BY DEF Below, UpTo
<1> QED BY <1>1, CountsBounded, FS_Subset

\* One more sample is one more below each v that is above it.
LEMMA CountsGrow ==
    ASSUME NEW m \in Nat, NEW S \in [1 .. m -> Int], NEW T \in [1 .. m + 1 -> Int],
           \A i \in 1 .. m : T[i] = S[i], NEW v \in Int
    PROVE  /\ Cardinality(Below(T, m + 1, v)) =
                   Cardinality(Below(S, m, v)) + (IF T[m + 1] < v THEN 1 ELSE 0)
           /\ Cardinality(UpTo(T, m + 1, v)) =
                   Cardinality(UpTo(S, m, v)) + (IF T[m + 1] <= v THEN 1 ELSE 0)
<1>1. m + 1 \notin Below(S, m, v) /\ m + 1 \notin UpTo(S, m, v)
  BY DEF Below, UpTo
<1>5. /\ Cardinality(Below(S, m, v)) \in 0 .. m /\ Cardinality(UpTo(S, m, v)) \in 0 .. m
      /\ IsFiniteSet(Below(S, m, v)) /\ IsFiniteSet(UpTo(S, m, v))
  BY CountsBounded
<1>2. 1 .. m + 1 = (1 .. m) \cup {m + 1} /\ T[m + 1] \in Int
  OBVIOUS
<1>3. Below(T, m + 1, v) = IF T[m + 1] < v THEN Below(S, m, v) \cup {m + 1} ELSE Below(S, m, v)
  BY <1>2 DEF Below
<1>4. UpTo(T, m + 1, v) = IF T[m + 1] <= v THEN UpTo(S, m, v) \cup {m + 1} ELSE UpTo(S, m, v)
  BY <1>2 DEF UpTo
<1>6. /\ Cardinality(Below(S, m, v) \cup {m + 1}) = Cardinality(Below(S, m, v)) + 1
      /\ Cardinality(UpTo(S, m, v) \cup {m + 1}) = Cardinality(UpTo(S, m, v)) + 1
  BY <1>1, <1>5, FS_AddElement
<1> QED BY <1>2, <1>3, <1>4, <1>5, <1>6

\* A value that has a rank is one of the samples.
LEMMA RankedIsSample ==
    ASSUME NEW m \in Nat, NEW S \in [1 .. m -> Int], NEW v \in Int, NEW n \in Nat,
           Rank(S, m, v, n)
    PROVE  \E i \in 1 .. m : S[i] = v
<1>1. SUFFICES ASSUME \A i \in 1 .. m : S[i] # v PROVE FALSE
  OBVIOUS
<1>2. UpTo(S, m, v) = Below(S, m, v)
  BY <1>1 DEF UpTo, Below
<1> QED BY <1>2, CountsBounded DEF Rank

\* The least value of rank 1 is below no sample.
LEMMA RankOneIsLeast ==
    ASSUME NEW m \in Nat, NEW S \in [1 .. m -> Int], NEW v \in Int, Rank(S, m, v, 1)
    PROVE  \A i \in 1 .. m : v <= S[i]
<1>1. Cardinality(Below(S, m, v)) = 0 /\ IsFiniteSet(Below(S, m, v))
  BY CountsBounded DEF Rank
<1>2. Below(S, m, v) = {}
  BY <1>1, FS_EmptySet
<1> QED BY <1>2 DEF Below

(***************************************************************************)
(* add_sample: what is above the new value among the first places is the   *)
(* places from to to pos - 1, which move up by one.                        *)
(***************************************************************************)
LEMMA PlaceOf ==
    ASSUME NEW vals \in [1 .. kbest -> Int], NEW val \in Int, NEW pos \in 1 .. kbest,
           \A i, j \in 1 .. kbest : i <= j /\ j < pos => vals[i] <= vals[j]
    PROVE  LET up == {i \in 1 .. pos - 1 : vals[i] > val}
               to == pos - Cardinality(up)
           IN  /\ to \in 1 .. pos
               /\ \A i \in 1 .. to - 1 : vals[i] <= val
               /\ \A i \in to .. pos - 1 : vals[i] > val
<1> DEFINE up == {i \in 1 .. pos - 1 : vals[i] > val}
           ends == {t \in 1 .. pos : \A i \in t .. pos - 1 : vals[i] > val}
<1>1. kbest \in Nat /\ kbest > 0 /\ pos \in Nat /\ 1 <= pos /\ pos <= kbest
  BY SchemeAssumption
<1>2. ends \in SUBSET Nat /\ pos \in ends
  BY <1>1
<1>3. PICK t \in ends : \A e \in ends : t <= e
  <2> HIDE DEF ends
  <2> QED BY <1>2, LeastNatural
<1>4. t \in 1 .. pos /\ \A i \in t .. pos - 1 : vals[i] > val
  BY <1>3
<1>5. ASSUME NEW i \in 1 .. t - 1 PROVE vals[i] <= val
  <2>1. t - 1 \in 1 .. pos /\ t - 1 \notin ends
    BY <1>1, <1>3, <1>4, <1>5
  <2>2. ~ (vals[t - 1] > val)
    BY <1>1, <1>4, <2>1
  <2>3. vals[i] <= vals[t - 1] /\ vals[i] \in Int /\ vals[t - 1] \in Int
    BY <1>1, <1>4, <1>5
  <2> QED BY <2>2, <2>3
<1>6. up = t .. pos - 1
  BY <1>1, <1>4, <1>5
<1>7. Cardinality(up) = pos - t
  <2>1. Cardinality(t .. pos - 1) = pos - t
    BY <1>1, <1>4, FS_Interval
  <2> QED BY <1>6, <2>1
<1>8. pos - Cardinality(up) = t
  BY <1>1, <1>4, <1>7
<1> HIDE DEF up
<1> QED BY <1>1, <1>4, <1>5, <1>8 DEF up

\* The numbers of samples below v and up to v among the first m, as counts.
B(S, m, v) == Cardinality(Below(S, m, v))
U(S, m, v) == Cardinality(UpTo(S, m, v))

LEMMA CountFacts ==
    ASSUME NEW m \in Nat, NEW S \in [1 .. m -> Int], NEW v \in Int
    PROVE  /\ B(S, m, v) \in Nat /\ U(S, m, v) \in Nat /\ B(S, m, v) <= m
           /\ \A w \in Int : v <= w => B(S, m, v) <= B(S, m, w) /\ U(S, m, v) <= U(S, m, w)
           /\ \A n \in Nat : Rank(S, m, v, n) <=> B(S, m, v) < n /\ n <= U(S, m, v)
<1>1. B(S, m, v) \in 0 .. m /\ U(S, m, v) \in 0 .. m
  BY CountsBounded DEF B, U
<1>2. \A w \in Int : v <= w => B(S, m, v) <= B(S, m, w) /\ U(S, m, v) <= U(S, m, w)
  BY CountsOrdered DEF B, U
<1>3. \A n \in Nat : Rank(S, m, v, n) <=> B(S, m, v) < n /\ n <= U(S, m, v)
  BY DEF B, U, Rank
<1> QED BY <1>1, <1>2, <1>3

\* A value keeps its rank when the new sample is not below it, and moves up by
\* one when it is.
LEMMA RankGrows ==
    ASSUME NEW m \in Nat, NEW S \in [1 .. m -> Int], NEW T \in [1 .. m + 1 -> Int],
           \A i \in 1 .. m : T[i] = S[i], NEW v \in Int, NEW n \in Nat
    PROVE  /\ v <= T[m + 1] /\ B(S, m, v) < n /\ n <= U(S, m, v) => Rank(T, m + 1, v, n)
           /\ v > T[m + 1] /\ B(S, m, v) < n /\ n <= U(S, m, v) => Rank(T, m + 1, v, n + 1)
           /\ v = T[m + 1] /\ B(S, m, v) < n /\ n <= U(S, m, v) + 1 => Rank(T, m + 1, v, n)
<1>1. /\ Cardinality(Below(T, m + 1, v)) = B(S, m, v) + (IF T[m + 1] < v THEN 1 ELSE 0)
      /\ Cardinality(UpTo(T, m + 1, v)) = U(S, m, v) + (IF T[m + 1] <= v THEN 1 ELSE 0)
  BY CountsGrow DEF B, U
<1>2. B(S, m, v) \in Nat /\ U(S, m, v) \in Nat
  BY CountFacts
<1>3. T[m + 1] \in Int
  OBVIOUS
<1> QED BY <1>1, <1>2, <1>3 DEF Rank

LEMMA InsertedKeeps ==
    ASSUME NEW m \in Nat, NEW S \in [1 .. m -> Int], NEW T \in [1 .. m + 1 -> Int],
           \A i \in 1 .. m : T[i] = S[i],
           NEW vals \in [1 .. kbest -> Int], Best(vals, S, m),
           NEW val \in Int, val = T[m + 1],
           NEW pos \in 1 .. kbest, pos = (IF m < kbest THEN m + 1 ELSE kbest),
           m >= kbest => val < vals[kbest],
           NEW to \in 1 .. pos,
           \A i \in 1 .. to - 1 : vals[i] <= val,
           \A i \in to .. pos - 1 : vals[i] > val,
           NEW new \in [1 .. kbest -> Int], new[to] = val,
           \A i \in 1 .. to - 1 : new[i] = vals[i],
           \A i \in to + 1 .. pos : new[i] = vals[i - 1]
    PROVE  Best(new, T, m + 1)
<1>1. /\ kbest \in Nat /\ kbest > 0 /\ pos \in Nat /\ to \in Nat /\ 1 <= to /\ to <= pos /\ pos <= kbest
      /\ pos <= m + 1 /\ \A i \in 1 .. kbest : (i <= m + 1 => i <= pos) /\ (i < pos => i <= m)
  BY SchemeAssumption
<1>2. \A i \in 1 .. kbest : vals[i] \in Int
  OBVIOUS
<1>3. \A i, j \in 1 .. kbest : i <= j /\ j < pos => vals[i] <= vals[j]
  BY <1>1 DEF Best
<1>4. ASSUME NEW n \in 1 .. kbest, n <= m
      PROVE  /\ n \in Nat /\ vals[n] \in Int
             /\ B(S, m, vals[n]) \in Nat /\ B(S, m, vals[n]) < n
             /\ U(S, m, vals[n]) \in Nat /\ n <= U(S, m, vals[n])
  <2>1. Rank(S, m, vals[n], n) /\ vals[n] \in Int /\ n \in Nat
    BY <1>4 DEF Best
  <2> QED BY <2>1, CountFacts
<1>5. ASSUME NEW n \in 1 .. kbest, n <= m + 1
      PROVE  Rank(T, m + 1, new[n], n)
  <2>1. n <= pos /\ n \in Nat
    BY <1>1, <1>5
  <2>2. CASE n < to
    <3>1. n <= m /\ new[n] = vals[n] /\ vals[n] <= T[m + 1]
      BY <1>1, <2>1, <2>2
    <3> QED BY <1>4, <3>1, RankGrows
  <2>3. CASE n = to
    <3>1. B(S, m, val) \in Nat /\ U(S, m, val) \in Nat /\ B(S, m, val) <= m
      BY CountFacts
    <3>2. B(S, m, val) < to
      <4>1. CASE to < pos
        <5>1. val <= vals[to] /\ to \in 1 .. kbest /\ to <= m /\ vals[to] \in Int
          BY <1>1, <1>2, <4>1
        <5>2. B(S, m, val) <= B(S, m, vals[to])
          BY <5>1, CountFacts
        <5>3. B(S, m, vals[to]) \in Nat /\ B(S, m, vals[to]) < to
          BY <1>4, <5>1
        <5> QED BY <1>1, <3>1, <5>2, <5>3
      <4>2. CASE to = pos /\ m < kbest
        BY <1>1, <3>1, <4>2
      <4>3. CASE to = pos /\ ~ (m < kbest)
        <5>1. val <= vals[kbest] /\ kbest \in 1 .. kbest /\ kbest <= m /\ vals[kbest] \in Int /\ to = kbest
          BY <1>1, <1>2, <4>3
        <5>2. B(S, m, val) <= B(S, m, vals[kbest])
          BY <5>1, CountFacts
        <5>3. B(S, m, vals[kbest]) \in Nat /\ B(S, m, vals[kbest]) < kbest
          BY <1>4, <5>1
        <5> QED BY <1>1, <3>1, <5>1, <5>2, <5>3
      <4> QED BY <1>1, <4>1, <4>2, <4>3
    <3>3. to <= U(S, m, val) + 1
      <4>1. CASE to = 1
        BY <3>1, <4>1
      <4>2. CASE to > 1
        <5> DEFINE p == to - 1
        <5>1. vals[p] <= val /\ p \in 1 .. kbest /\ p <= m /\ vals[p] \in Int
          BY <1>1, <1>2, <4>2
        <5> HIDE DEF p
        <5>2. U(S, m, vals[p]) <= U(S, m, val)
          BY <5>1, CountFacts
        <5>3. U(S, m, vals[p]) \in Nat /\ p <= U(S, m, vals[p])
          BY <1>4, <5>1
        <5> QED BY <1>1, <3>1, <5>1, <5>2, <5>3 DEF p
      <4> QED BY <1>1, <4>1, <4>2
    <3> QED BY <1>1, <2>3, <3>2, <3>3, RankGrows
  <2>4. CASE n > to
    <3> DEFINE p == n - 1
    <3>1. p \in 1 .. kbest /\ p <= m /\ new[n] = vals[p] /\ vals[p] > T[m + 1] /\ p + 1 = n
      BY <1>1, <2>1, <2>4
    <3> HIDE DEF p
    <3>2. Rank(T, m + 1, vals[p], p + 1)
      BY <1>4, <3>1, RankGrows
    <3> QED BY <3>1, <3>2
  <2> QED BY <1>1, <2>1, <2>2, <2>3, <2>4
<1>6. ASSUME NEW i \in 1 .. kbest, NEW j \in 1 .. kbest, i <= j, j <= m + 1
      PROVE  new[i] <= new[j]
  <2>1. i \in Nat /\ j \in Nat /\ 1 <= i /\ i <= pos /\ j <= pos /\ val <= val
    BY <1>1, <1>6
  <2>2. ASSUME NEW p \in 1 .. pos
        PROVE  \/ p < to /\ new[p] = vals[p] /\ vals[p] <= val /\ vals[p] \in Int
               \/ p = to /\ new[p] = val
               \/ p > to /\ new[p] = vals[p - 1] /\ vals[p - 1] > val /\ vals[p - 1] \in Int /\ p - 1 \in 1 .. kbest
    <3>1. CASE p < to
      BY <1>1, <1>2, <3>1
    <3>2. CASE p > to
      BY <1>1, <1>2, <3>2
    <3> QED BY <1>1, <3>1, <3>2
  <2>3. i \in 1 .. pos /\ j \in 1 .. pos
    BY <1>1, <2>1, <1>6
  <2>8. \/ i < to /\ new[i] = vals[i] /\ vals[i] <= val /\ vals[i] \in Int
        \/ i = to /\ new[i] = val
        \/ i > to /\ new[i] = vals[i - 1] /\ vals[i - 1] > val /\ vals[i - 1] \in Int /\ i - 1 \in 1 .. kbest
    BY <2>2, <2>3
  <2>9. \/ j < to /\ new[j] = vals[j] /\ vals[j] <= val /\ vals[j] \in Int
        \/ j = to /\ new[j] = val
        \/ j > to /\ new[j] = vals[j - 1] /\ vals[j - 1] > val /\ vals[j - 1] \in Int /\ j - 1 \in 1 .. kbest
    BY <2>2, <2>3
  <2>4. CASE j < to
    BY <1>1, <1>3, <1>6, <2>1, <2>4, <2>8, <2>9
  <2>5. CASE j = to
    BY <1>1, <1>6, <2>1, <2>8, <2>9, <2>5
  <2>6. CASE j > to /\ i <= to
    <3>1. new[j] = vals[j - 1] /\ vals[j - 1] > val /\ vals[j - 1] \in Int
      BY <1>1, <2>1, <2>8, <2>9, <2>6
    <3>2. new[i] <= val /\ new[i] \in Int
      BY <1>1, <2>1, <2>8, <2>9, <2>6
    <3> QED BY <3>1, <3>2
  <2>7. CASE i > to
    <3>1. i - 1 \in 1 .. kbest /\ j - 1 \in 1 .. kbest /\ i - 1 <= j - 1 /\ j - 1 < pos
      BY <1>1, <1>6, <2>1, <2>7
    <3>2. vals[i - 1] <= vals[j - 1]
      BY <1>3, <3>1
    <3>3. new[i] = vals[i - 1]
      BY <1>1, <2>1, <2>8, <2>9, <2>7
    <3>4. new[j] = vals[j - 1]
      BY <1>1, <1>6, <2>1, <2>8, <2>9, <2>7
    <3> QED BY <3>2, <3>3, <3>4
  <2> QED BY <1>1, <1>6, <2>1, <2>4, <2>5, <2>6, <2>7
<1> QED BY <1>5, <1>6 DEF Best

LEMMA AddedKeeps ==
    ASSUME NEW m \in Nat, NEW S \in [1 .. m -> Int], NEW T \in [1 .. m + 1 -> Int],
           \A i \in 1 .. m : T[i] = S[i],
           NEW vals \in [1 .. kbest -> Int], Best(vals, S, m)
    PROVE  /\ Added(vals, m, T[m + 1]) \in [1 .. kbest -> Int]
           /\ Best(Added(vals, m, T[m + 1]), T, m + 1)
<1>1. PICK val \in Int : val = T[m + 1]
  OBVIOUS
<1>2. PICK pos \in 1 .. kbest : pos = IF m < kbest THEN m + 1 ELSE kbest
  BY SchemeAssumption
<1>3. PICK new : new = Added(vals, m, val)
  OBVIOUS
<1>4. kbest \in Nat /\ kbest > 0
  BY SchemeAssumption
<1>5. CASE m >= kbest /\ val >= vals[kbest]
  <2>1. new = vals
    BY <1>3, <1>5 DEF Added
  <2>2. ASSUME NEW n \in 1 .. kbest, n <= m + 1 PROVE Rank(T, m + 1, vals[n], n)
    <3>1. n <= m /\ n \in Nat /\ vals[n] \in Int /\ Rank(S, m, vals[n], n)
      BY <1>4, <1>5, <2>2 DEF Best
    <3>2. vals[n] <= T[m + 1]
      BY <1>1, <1>4, <1>5, <3>1 DEF Best
    <3>3. B(S, m, vals[n]) < n /\ n <= U(S, m, vals[n])
      BY <3>1, CountFacts
    <3> QED BY <3>1, <3>2, <3>3, RankGrows
  <2>3. \A i, j \in 1 .. kbest : i <= j /\ j <= m + 1 => vals[i] <= vals[j]
    BY <1>4, <1>5 DEF Best
  <2> QED BY <1>1, <1>3, <2>1, <2>2, <2>3 DEF Best
<1>6. CASE ~ (m >= kbest /\ val >= vals[kbest])
  <2>1. \A i, j \in 1 .. kbest : i <= j /\ j < pos => vals[i] <= vals[j]
    BY <1>2, <1>4 DEF Best
  <2>2. PICK to \in 1 .. pos :
            /\ to = pos - Cardinality({i \in 1 .. pos - 1 : vals[i] > val})
            /\ \A i \in 1 .. to - 1 : vals[i] <= val
            /\ \A i \in to .. pos - 1 : vals[i] > val
    BY <2>1, PlaceOf
  <2>3. new = [i \in 1 .. kbest |-> IF i = to THEN val
                                    ELSE IF i \in to + 1 .. pos THEN vals[i - 1] ELSE vals[i]]
    BY <1>2, <1>3, <1>6, <2>2 DEF Added
  <2>4. /\ new \in [1 .. kbest -> Int] /\ new[to] = val
        /\ \A i \in 1 .. to - 1 : new[i] = vals[i]
        /\ \A i \in to + 1 .. pos : new[i] = vals[i - 1]
    BY <1>4, <2>3
  <2>5. m >= kbest => val < vals[kbest]
    BY <1>4, <1>6
  <2>6. Best(new, T, m + 1)
    BY <1>1, <1>2, <2>2, <2>4, <2>5, InsertedKeeps
  <2> QED BY <1>1, <1>3, <2>4, <2>6
<1> QED BY <1>5, <1>6

(***************************************************************************)
(* The inductive invariant                                                 *)
(***************************************************************************)
Sampling == method \in {"fcyc", "compensated"}
Averaging == method \in {"itimer", "gettod"}
Call == [alone : Nat, tick : {0, 1}, stray : {0, 1}, price : Nat]
Current == taken[Len(taken)]
Spent(c) == c.alone + c.tick * tick_cost
Samples == [i \in 1 .. samplecount |-> Elapsed(taken[i])]

TimingType ==
    /\ method \in {"none", "fcyc", "compensated", "itimer", "gettod"}
    /\ at \in {"init", "begin", "callibrate", "ticks", "running", "stop", "read", "done"}
    /\ now \in Nat /\ utime \in Nat /\ cyc_hi \in Nat /\ cyc_lo \in Nat
    /\ tick_cost \in Nat /\ (at # "init" => tick_cost \in TickCosts)
    /\ cyc_per_tick \in Nat /\ events \in Nat /\ carried \in {-1, 0, 1} /\ missed \in BOOLEAN
    /\ start_tick \in Nat /\ time \in Int
    /\ at # "init" => values \in [1 .. kbest -> Int]
    /\ samplecount \in Nat /\ taken \in Seq(Call) /\ result \in Int

\* One call is under way between begin and the sample that is made of it.
CallsInOrder ==
    /\ at = "init" <=> method = "none"
    /\ at = "init" => samplecount = 0
    /\ at \in {"init", "begin", "callibrate"} => Len(taken) = samplecount
    /\ at \in {"ticks", "running", "stop", "read"} => Len(taken) = samplecount + 1
    /\ Averaging => samplecount = 0 /\ at \notin {"ticks", "read"}
    /\ at \in {"callibrate", "ticks"} => method = "compensated"
    /\ at # "done" => samplecount < maxsamples
    /\ at = "done" => Len(taken) >= 1 /\ Len(taken) = (IF Averaging THEN 1 ELSE samplecount)

\* A price that was recorded is above RECORDTHRESH, and that of a tick up to
\* callibrate's own time in a gap, or up to a tick more, and perhaps less, when a
\* tick was counted with another gap than its own.
Priced(p) ==
    p # 0 => /\ p > RECORDTHRESH
             /\ missed \/ p >= tick_cost
             /\ \E e \in Slack : p <= tick_cost + e + Wrong

\* There is no price only where none was worth recording.
Unpriced(p) == p = 0 => missed \/ tick_cost <= RECORDTHRESH

Calibrated ==
    /\ at = "init" => cyc_per_tick = 0
    /\ Priced(cyc_per_tick)
    /\ at = "callibrate" =>
           /\ carried # 0 => missed
           /\ events # 0 => Unpriced(cyc_per_tick)
    /\ method = "compensated" =>
           \A i \in 1 .. Len(taken) : Priced(taken[i].price) /\ Unpriced(taken[i].price)
    /\ at \in {"ticks", "running", "stop", "read"} =>
           Current.price = IF method = "compensated" THEN cyc_per_tick ELSE 0
    /\ method # "compensated" => \A i \in 1 .. Len(taken) : taken[i].price = 0

\* The digits kept are those of the time at which the call began, and the
\* ticks counted those that fell between the readings.
Measured ==
    /\ at \in {"ticks", "running"} => Current.alone = 0 /\ Current.tick = 0
    /\ at = "ticks" => utime - start_tick = Current.stray
    /\ at \in {"running", "stop"} =>
           \E t0 \in 0 .. now : /\ cyc_lo = Lo(t0)
                           /\ cyc_hi = (IF Averaging THEN t0 \div W ELSE Hi(t0))
                           /\ now = t0 + Spent(Current)
    /\ at \in {"running", "stop", "read"} /\ Sampling => Spent(Current) < W * W
    /\ at \in {"running", "stop", "read"} /\ method = "compensated" =>
           utime - start_tick = Current.tick + Current.stray
    /\ at = "read" => time = Spent(Current)

Kept == at # "init" => Best(values, Samples, samplecount)

Finished ==
    at = "done" =>
        IF Averaging THEN result = Elapsed(taken[1]) \div Runs
        ELSE result = values[1] /\ (samplecount = maxsamples \/ has_converged(values, samplecount))

TimingIInv == TimingType /\ CallsInOrder /\ Calibrated /\ Measured /\ Kept /\ Finished

LEMMA CallFacts ==
    ASSUME TimingType, NEW c \in Call
    PROVE  /\ Spent(c) \in Nat /\ Elapsed(c) \in Int
           /\ Spent(c) = c.alone + (IF c.tick = 1 THEN tick_cost ELSE 0)
           /\ Elapsed(c) = Spent(c) - (c.tick + c.stray) * c.price
<1>1. c.alone \in Nat /\ c.tick \in {0, 1} /\ c.stray \in {0, 1} /\ tick_cost \in Nat /\ c.price \in Nat
  BY DEF Call, TimingType
<1>2. (c.tick + c.stray) * c.price \in Nat
  <2>1. c.tick + c.stray \in {0, 1, 2}
    BY <1>1
  <2> QED BY <1>1, <2>1
<1>3. c.tick * tick_cost = IF c.tick = 1 THEN tick_cost ELSE 0
  BY <1>1
<1> QED BY <1>1, <1>2, <1>3 DEF Spent, Elapsed

LEMMA SamplesAre ==
    ASSUME TimingType, samplecount <= Len(taken)
    PROVE  Samples \in [1 .. samplecount -> Int]
<1>1. \A i \in 1 .. samplecount : taken[i] \in Call
  BY DEF TimingType
<1>2. \A i \in 1 .. samplecount : Elapsed(taken[i]) \in Int
  BY <1>1, CallFacts
<1> QED BY <1>2 DEF Samples

\* While a call is under way the samples of the earlier ones stay.
LEMMA SamplesStay ==
    ASSUME TimingIInv, at # "init", tick_cost' = tick_cost,
           samplecount' = samplecount, values' = values,
           \A i \in 1 .. samplecount : taken'[i] = taken[i]
    PROVE  Kept'
<1>1. \A i \in 1 .. samplecount : Elapsed(taken[i])' = Elapsed(taken[i])
  BY DEF Elapsed
<1>2. Samples' = Samples
  BY <1>1 DEF Samples
<1>3. Best(values, Samples, samplecount)
  BY DEF TimingIInv, Kept
<1> QED BY <1>2, <1>3 DEF Kept

LEMMA TimingStarts == TimingInit => TimingIInv
<1> SUFFICES ASSUME TimingInit PROVE TimingIInv
  OBVIOUS
<1> USE DEF TimingInit
<1>1. TimingType
  <2>1. carried = 0 /\ missed = FALSE
    OBVIOUS
  <2>2. taken \in Seq(Call)
    OBVIOUS
  <2>3. carried \in {-1, 0, 1} /\ missed \in BOOLEAN
    BY <2>1
  <2>4. /\ now \in Nat /\ utime \in Nat /\ cyc_hi \in Nat /\ cyc_lo \in Nat /\ tick_cost \in Nat
        /\ cyc_per_tick \in Nat /\ events \in Nat /\ start_tick \in Nat /\ time \in Int
        /\ samplecount \in Nat /\ result \in Int
    OBVIOUS
  <2> QED BY <2>2, <2>3, <2>4 DEF TimingType
<1>2. CallsInOrder
  BY SchemeAssumption DEF CallsInOrder, Averaging
<1>3. Calibrated /\ Measured /\ Kept /\ Finished
  <2>1. Len(taken) = 0
    OBVIOUS
  <2> QED BY <2>1 DEF Calibrated, Priced, Measured, Kept, Finished
<1> QED BY <1>1, <1>2, <1>3 DEF TimingIInv

LEMMA FsecsKeeps ==
    ASSUME TimingIInv, fsecs
    PROVE  TimingIInv'
<1> USE DEF TimingIInv, fsecs, counterVars, callibrateVars
<1>1. TimingType'
  BY CounterAssumption DEF TimingType
<1>2. taken = <<>> /\ samplecount = 0 /\ method = "none" /\ cyc_per_tick = 0
  BY DEF CallsInOrder, TimingType, Calibrated
<1>3. CallsInOrder'
  BY <1>2, SchemeAssumption DEF CallsInOrder, Averaging
<1>4. Calibrated' /\ Measured' /\ Finished'
  BY <1>2 DEF Calibrated, Priced, Measured, Finished
<1>5. Kept'
  BY <1>2, SchemeAssumption DEF Kept, Best
<1> QED BY <1>1, <1>3, <1>4, <1>5

\* The quotient of a gap lies between the bounds of each of its parts.
LEMMA Multiples ==
    ASSUME NEW n \in Nat, NEW x \in Nat, NEW y \in Nat, x <= y
    PROVE  n * x <= n * y
<1>1. PICK d \in Nat : y = x + d
  <2>1. y - x \in Nat /\ y = x + (y - x)
    OBVIOUS
  <2> QED BY <2>1
<1>2. n * (x + d) = n * x + n * d /\ n * d \in Nat /\ n * x \in Nat
  BY Z3
<1> QED BY <1>1, <1>2

LEMMA PartsOfGap ==
    ASSUME NEW n \in Nat \ {0}, NEW g \in Nat, NEW u \in Nat
    PROVE  /\ g \div n \in Nat
           /\ n * u <= g => u <= g \div n
           /\ g <= n * u => g \div n <= u
<1>1. n \in Nat /\ n > 0
  OBVIOUS
<1>2. g \div n \in Nat /\ g % n \in 0 .. n - 1 /\ g = n * (g \div n) + (g % n)
  BY <1>1, Z3
<1>3. PICK q \in Nat : q = g \div n
  BY <1>2
<1>4. n * (q + 1) = n * q + n /\ n * q \in Nat /\ n * u \in Nat /\ n * (u + 1) = n * u + n
  BY <1>1, Z3
<1>5. n * q <= g /\ g < n * (q + 1)
  BY <1>1, <1>2, <1>3, <1>4
<1>6. ASSUME n * u <= g PROVE u <= q
  <2>1. CASE u > q
    <3>1. n * (q + 1) <= n * u
      BY <1>1, <2>1, Multiples
    <3> QED BY <1>4, <1>5, <1>6, <3>1
  <2> QED BY <2>1
<1>7. ASSUME g <= n * u PROVE q <= u
  <2>1. CASE q > u
    <3>1. n * (u + 1) <= n * q
      BY <1>1, <2>1, Multiples
    <3> QED BY <1>1, <1>4, <1>5, <1>7, <3>1
  <2> QED BY <2>1
<1> QED BY <1>2, <1>3, <1>6, <1>7

\* What a gap of ticks and their cost says of the price of one.
LEMMA GapPrice ==
    ASSUME NEW c \in Nat, NEW e \in Nat, NEW m \in Nat, NEW n \in Nat \ {0}, m <= n + 1
    PROVE  /\ (m * c + e) \div n \in Nat
           /\ m = n => (m * c + e) \div n >= c /\ (m * c + e) \div n <= c + e
           /\ (m * c + e) \div n <= c + e + c
<1>1. n \in Nat /\ n > 0 /\ m * c = c * m /\ m * c \in Nat /\ n * c \in Nat /\ n * e \in Nat
  BY Z3
<1>2. PICK g \in Nat : g = m * c + e
  BY <1>1
<1>3. e <= n * e /\ c <= n * c
  <2>1. e * 1 <= e * n /\ c * 1 <= c * n
    BY <1>1, Multiples
  <2>2. e * n = n * e /\ c * n = n * c
    BY <1>1, Z3
  <2> QED BY <1>1, <2>1, <2>2
<1>4. n * (c + e) = n * c + n * e /\ n * (c + e + c) = n * c + n * e + n * c
  BY <1>1, Z3
<1>5. m * c <= n * c + c
  <2>1. c * m <= c * (n + 1) /\ c * (n + 1) = n * c + c
    <3>1. c * (n + 1) = n * c + c
      BY <1>1, Z3
    <3>2. c * m <= c * (n + 1)
      BY <1>1, Multiples
    <3> QED BY <3>1, <3>2
  <2> QED BY <1>1, <2>1
<1>6. g <= n * (c + e + c)
  BY <1>1, <1>2, <1>3, <1>4, <1>5
<1>7. m = n => n * c <= g /\ g <= n * (c + e)
  BY <1>1, <1>2, <1>3, <1>4
<1>8. c + e \in Nat /\ c + e + c \in Nat
  OBVIOUS
<1> QED BY <1>2, <1>6, <1>7, <1>8, PartsOfGap

\* Prices stay right while calls are measured.
Charged == IF method = "compensated" THEN cyc_per_tick ELSE 0

LEMMA PricesStay ==
    ASSUME TimingIInv, at # "init", at' \notin {"init", "callibrate"},
           tick_cost' = tick_cost, method' = method, cyc_per_tick' = cyc_per_tick, missed' = missed,
           at' \in {"ticks", "running", "stop", "read"} => Current'.price = Charged,
           \A i \in 1 .. Len(taken') :
               \/ i \in 1 .. Len(taken) /\ taken'[i].price = taken[i].price
               \/ taken'[i].price = Charged /\ (method = "compensated" => Unpriced(cyc_per_tick))
    PROVE  Calibrated'
<1>2. /\ Priced(cyc_per_tick)
      /\ method = "compensated" =>
             \A i \in 1 .. Len(taken) : Priced(taken[i].price) /\ Unpriced(taken[i].price)
      /\ method # "compensated" => \A i \in 1 .. Len(taken) : taken[i].price = 0
  BY DEF TimingIInv, Calibrated
<1>3. Priced(cyc_per_tick)'
  BY <1>2 DEF Priced, Wrong
<1>4. ASSUME method = "compensated", NEW i \in 1 .. Len(taken')
      PROVE  Priced(taken[i].price)' /\ Unpriced(taken[i].price)'
  <2>1. Priced(taken'[i].price) /\ Unpriced(taken'[i].price)
    BY <1>2, <1>4 DEF Charged
  <2> QED BY <2>1 DEF Priced, Unpriced, Wrong
<1>5. method # "compensated" => \A i \in 1 .. Len(taken') : taken'[i].price = 0
  BY <1>2 DEF Charged
<1> QED BY <1>3, <1>4, <1>5 DEF Calibrated, Charged

\* A price that was right stays so when a tick is counted wrongly later.
LEMMA WrongGrows ==
    ASSUME TimingType, tick_cost' = tick_cost, missed => missed', NEW p \in Nat, Priced(p)
    PROVE  p # 0 => /\ p > RECORDTHRESH
                    /\ missed' \/ p >= tick_cost'
                    /\ \E e \in Slack : p <= tick_cost' + e + Wrong'
<1> SUFFICES ASSUME p # 0
             PROVE  /\ p > RECORDTHRESH /\ (missed' \/ p >= tick_cost)
                    /\ \E e \in Slack : p <= tick_cost + e + Wrong'
  OBVIOUS
<1>1. PICK e \in Slack : p <= tick_cost + e + Wrong
  BY DEF Priced
<1>2. e \in Nat /\ tick_cost \in Nat /\ missed \in BOOLEAN
  BY CallibrateAssumption DEF TimingType
<1>3. Wrong \in Nat /\ Wrong' \in Nat /\ Wrong <= Wrong'
  <2>1. CASE missed
    BY <1>2, <2>1 DEF Wrong
  <2>2. CASE ~ missed
    BY <1>2, <2>2 DEF Wrong
  <2> QED BY <2>1, <2>2
<1>4. p <= tick_cost + e + Wrong'
  <2>1. PICK v \in Nat, w \in Nat : v = Wrong /\ w = Wrong'
    BY <1>3
  <2>2. p <= tick_cost + e + v /\ v <= w
    BY <1>1, <1>3, <2>1
  <2>3. p <= tick_cost + e + w
    BY <1>2, <2>2
  <2> QED BY <2>1, <2>3
<1> QED BY <1>4 DEF Priced

LEMMA OldPrices ==
    ASSUME TimingIInv, tick_cost' = tick_cost, missed => missed', taken' = taken
    PROVE  method = "compensated" =>
               \A i \in 1 .. Len(taken) : Priced(taken[i].price)' /\ Unpriced(taken[i].price)'
<1> SUFFICES ASSUME method = "compensated", NEW i \in 1 .. Len(taken)
             PROVE  Priced(taken[i].price)' /\ Unpriced(taken[i].price)'
  OBVIOUS
<1>1. Priced(taken[i].price) /\ Unpriced(taken[i].price)
  BY DEF TimingIInv, Calibrated
<1>2. PICK p \in Nat : p = taken[i].price
  <2>1. taken[i] \in Call
    BY DEF TimingIInv, TimingType
  <2> QED BY <2>1 DEF Call
<1>3. p # 0 => /\ p > RECORDTHRESH
               /\ missed' \/ p >= tick_cost'
               /\ \E e \in Slack : p <= tick_cost' + e + Wrong'
  BY <1>1, <1>2, WrongGrows DEF TimingIInv
<1>4. Priced(taken[i].price)'
  BY <1>2, <1>3 DEF Priced
<1> QED BY <1>1, <1>4 DEF Unpriced

LEMMA EnterCallibrateKeeps ==
    ASSUME TimingIInv, EnterCallibrate
    PROVE  TimingIInv'
<1> USE DEF TimingIInv, EnterCallibrate, counterVars, samplerVars
<1>1. TimingType'
  BY DEF TimingType
<1>2. CallsInOrder'
  BY DEF CallsInOrder, Averaging
<1>3. (carried' # 0 => missed') /\ events' = 0 /\ (missed => missed')
  <2>1. PICK early \in {0, 1} : carried' = -early /\ missed' = (missed \/ early = 1)
    OBVIOUS
  <2>2. early # 1 => early = 0 /\ carried' = 0
    BY <2>1
  <2> QED BY <2>1, <2>2
<1>4. Calibrated'
  <2>2. method = "compensated" =>
            \A i \in 1 .. Len(taken) : Priced(taken[i].price)' /\ Unpriced(taken[i].price)'
    BY <1>3, OldPrices
  <2>3. Priced(cyc_per_tick)'
    BY DEF Priced
  <2> QED BY <1>3, <2>2, <2>3 DEF Calibrated
<1>5. Measured' /\ Finished'
  BY DEF Measured, Finished
<1>6. Kept'
  BY SamplesStay
<1> QED BY <1>1, <1>2, <1>4, <1>5, <1>6

LEMMA CallibrateKeeps ==
    ASSUME TimingIInv, callibrate
    PROVE  TimingIInv'
<1> USE DEF TimingIInv, callibrate, counterVars, samplerVars
<1>1. PICK e \in Slack, ticks \in 0 .. MaxTicks, late \in {0, 1}, m \in Nat, n \in Nat :
          /\ m = ticks + (IF carried = 1 THEN 1 ELSE 0)
          /\ n = ticks + late + (IF carried = -1 THEN 1 ELSE 0)
          /\ carried' = late /\ missed' = (missed \/ late = 1)
          /\ IF n = 0 THEN cyc_per_tick' = cyc_per_tick /\ events' = events
             ELSE events' = events + 1 /\ cyc_per_tick' = Recorded((m * tick_cost + e) \div n)
  <2>1. PICK e \in Slack, ticks \in 0 .. MaxTicks, late \in {0, 1} :
            LET gap == (ticks + (IF carried = 1 THEN 1 ELSE 0)) * tick_cost + e
                counted == ticks + late + (IF carried = -1 THEN 1 ELSE 0)
            IN  /\ gap >= THRESHOLD /\ (counted > 0 \/ carried = 1)
                /\ carried' = late /\ missed' = (missed \/ late = 1)
                /\ IF counted = 0 THEN UNCHANGED <<cyc_per_tick, events>>
                   ELSE events' = events + 1 /\ cyc_per_tick' = Recorded(gap \div counted)
    OBVIOUS
  <2>2. /\ ticks + (IF carried = 1 THEN 1 ELSE 0) \in Nat
        /\ ticks + late + (IF carried = -1 THEN 1 ELSE 0) \in Nat
    BY CallibrateAssumption
  <2> QED BY <2>1, <2>2
<1>2. /\ e \in Nat /\ tick_cost \in Nat /\ cyc_per_tick \in Nat /\ events \in Nat
      /\ RECORDTHRESH \in Nat /\ at # "init"
  BY CallibrateAssumption DEF TimingType
<1>3. /\ (carried' # 0 => missed') /\ (missed => missed') /\ (~ missed' => m = n)
      /\ m <= n + 1
  <2>1. carried # 0 => missed
    BY DEF Calibrated
  <2>2. carried \in {-1, 0, 1}
    BY DEF TimingType
  <2>3. (missed \/ late = 1) => missed'
    BY <1>1
  <2>4. missed' => (missed \/ late = 1)
    BY <1>1
  <2>5. late # 1 => carried' = 0
    BY <1>1
  <2>6. late # 1 /\ carried = 0 => m = n
    BY <1>1
  <2>7. m <= n + 1
    BY <1>1, <2>2
  <2> QED BY <2>1, <2>3, <2>4, <2>5, <2>6, <2>7
<1>4. /\ cyc_per_tick' \in Nat /\ events' \in Nat
      /\ Priced(cyc_per_tick)' /\ (events' # 0 => Unpriced(cyc_per_tick)')
  <2>1. /\ events # 0 => Unpriced(cyc_per_tick)
        /\ cyc_per_tick' = cyc_per_tick => Priced(cyc_per_tick)'
    <3>1. Priced(cyc_per_tick) /\ (events # 0 => Unpriced(cyc_per_tick))
      BY DEF Calibrated
    <3>2. PICK p \in Nat : p = cyc_per_tick
      BY <1>2
    <3>3. p # 0 => /\ p > RECORDTHRESH
                   /\ missed' \/ p >= tick_cost'
                   /\ \E x \in Slack : p <= tick_cost' + x + Wrong'
      BY <1>3, <3>1, <3>2, WrongGrows
    <3> QED BY <3>1, <3>2, <3>3 DEF Priced
  <2>2. CASE n = 0
    <3>1. cyc_per_tick' = cyc_per_tick /\ events' = events
      BY <1>1, <2>2
    <3> QED BY <1>2, <1>3, <2>1, <3>1 DEF Unpriced
  <2>3. CASE n # 0
    <3>1. PICK cpt : cpt = (m * tick_cost + e) \div n
      OBVIOUS
    <3>2. /\ cpt \in Nat /\ cpt <= tick_cost + e + tick_cost
          /\ ~ missed' => cpt >= tick_cost /\ cpt <= tick_cost + e
      BY <1>1, <1>2, <1>3, <2>3, <3>1, GapPrice
    <3>3. cyc_per_tick' = Recorded(cpt) /\ events' \in Nat /\ events' = events + 1
      BY <1>1, <1>2, <2>3, <3>1
    <3>4. CASE (cyc_per_tick = 0 \/ cyc_per_tick > cpt) /\ cpt > RECORDTHRESH
      <4>1. cyc_per_tick' = cpt /\ cpt # 0
        BY <1>2, <3>2, <3>3, <3>4 DEF Recorded
      <4>2. tick_cost' = tick_cost /\ cpt <= tick_cost + e + Wrong'
        BY <1>2, <3>2 DEF Wrong
      <4> QED BY <3>2, <3>3, <3>4, <4>1, <4>2 DEF Priced, Unpriced
    <3>5. CASE ~ ((cyc_per_tick = 0 \/ cyc_per_tick > cpt) /\ cpt > RECORDTHRESH)
      <4>1. cyc_per_tick' = cyc_per_tick
        BY <3>3, <3>5 DEF Recorded
      <4>2. cyc_per_tick = 0 /\ ~ missed' => tick_cost <= RECORDTHRESH
        BY <1>2, <3>2, <3>5
      <4> QED BY <1>2, <2>1, <3>3, <4>1, <4>2 DEF Unpriced
    <3> QED BY <3>4, <3>5
  <2> QED BY <2>2, <2>3
<1>5. TimingType'
  BY <1>1, <1>4 DEF TimingType
<1>6. CallsInOrder'
  BY DEF CallsInOrder, Averaging
<1>7. Calibrated'
  <2>1. method = "compensated" =>
            \A i \in 1 .. Len(taken) : Priced(taken[i].price)' /\ Unpriced(taken[i].price)'
    BY <1>3, OldPrices
  <2>2. method = "compensated"
    BY DEF CallsInOrder
  <2> QED BY <1>3, <1>4, <2>1, <2>2 DEF Calibrated
<1>8. Measured' /\ Finished'
  BY DEF Measured, Finished
<1>9. Kept'
  BY <1>2, SamplesStay
<1> QED BY <1>5, <1>6, <1>7, <1>8, <1>9

LEMMA FreshCall ==
    ASSUME TimingIInv, at \in {"begin", "callibrate"}, NEW p \in Nat, taken' = Append(taken, Fresh(p))
    PROVE  /\ taken' \in Seq(Call) /\ taken' # <<>> /\ Len(taken') = samplecount + 1
           /\ Current' = Fresh(p) /\ \A i \in 1 .. samplecount : taken'[i] = taken[i]
           /\ Len(taken) = samplecount /\ taken'[samplecount + 1] = Fresh(p) /\ samplecount \in Nat
<1>1. Fresh(p) \in Call
  BY DEF Fresh, Call
<1>2. taken \in Seq(Call) /\ Len(taken) = samplecount /\ samplecount \in Nat
  BY DEF TimingIInv, TimingType, CallsInOrder
<1>3. /\ taken' \in Seq(Call) /\ Len(taken') = samplecount + 1 /\ taken'[samplecount + 1] = Fresh(p)
      /\ \A i \in 1 .. samplecount : taken'[i] = taken[i]
  BY <1>1, <1>2
<1> QED BY <1>2, <1>3 DEF Current

LEMMA FreshFields ==
    ASSUME NEW p \in Nat
    PROVE  Fresh(p).alone = 0 /\ Fresh(p).tick = 0 /\ Fresh(p).stray = 0 /\ Fresh(p).price = p /\ Fresh(p) \in Call
BY DEF Fresh, Call

LEMMA TimesKeeps ==
    ASSUME TimingIInv, times
    PROVE  TimingIInv'
<1> USE DEF TimingIInv, times, counterVars
<1>1. at \in {"begin", "callibrate"} /\ cyc_per_tick \in Nat /\ method = "compensated"
  BY DEF CallsInOrder, TimingType
<1>2. /\ taken' \in Seq(Call) /\ taken' # <<>> /\ Len(taken') = samplecount + 1
      /\ Current' = Fresh(cyc_per_tick) /\ \A i \in 1 .. samplecount : taken'[i] = taken[i]
      /\ Len(taken) = samplecount /\ taken'[samplecount + 1] = Fresh(cyc_per_tick)
      /\ samplecount \in Nat
  BY <1>1, FreshCall
<1>3. /\ Fresh(cyc_per_tick).alone = 0 /\ Fresh(cyc_per_tick).tick = 0
      /\ Fresh(cyc_per_tick).stray = 0 /\ Fresh(cyc_per_tick).price = cyc_per_tick
  BY <1>1, FreshFields
<1>4. TimingType'
  BY <1>2 DEF TimingType
<1>5. CallsInOrder'
  BY <1>1, <1>2 DEF CallsInOrder, Averaging
<1>6. Unpriced(cyc_per_tick)
  BY CallibrateAssumption DEF Calibrated, Unpriced
<1>7. Calibrated'
  BY <1>1, <1>2, <1>3, <1>6, PricesStay DEF Charged
<1>8. Measured' /\ Finished'
  BY <1>1, <1>2, <1>3 DEF Measured, Finished, TimingType
<1>9. Kept'
  BY <1>1, <1>2, SamplesStay
<1> QED BY <1>4, <1>5, <1>7, <1>8, <1>9

LEMMA StartKeeps ==
    ASSUME TimingIInv, start_counter
    PROVE  TimingIInv'
<1> USE DEF TimingIInv, start_counter, counterVars, callibrateVars
<1>1. /\ taken' \in Seq(Call) /\ taken' # <<>> /\ Len(taken') = samplecount + 1
      /\ Current'.alone = 0 /\ Current'.tick = 0 /\ Current' \in Call
      /\ method = "compensated" => utime - start_tick = Current'.tick + Current'.stray
      /\ Current'.price = Charged
      /\ \A i \in 1 .. samplecount : taken'[i] = taken[i]
      /\ \A i \in 1 .. Len(taken') : \/ i \in 1 .. Len(taken) /\ taken'[i].price = taken[i].price
                                     \/ taken'[i].price = Charged /\ method # "compensated"
  <2>1. CASE method = "compensated"
    <3>1. taken' = taken /\ Len(taken) = samplecount + 1 /\ taken \in Seq(Call) /\ samplecount \in Nat
      BY <2>1 DEF CallsInOrder, TimingType
    <3>2. Current' = Current /\ Current \in Call /\ taken # <<>>
      BY <3>1 DEF Current
    <3>3. Current.alone = 0 /\ Current.tick = 0 /\ utime - start_tick = Current.stray
      BY <2>1 DEF Measured
    <3>4. Current.stray \in {0, 1}
      BY <3>2 DEF Call
    <3>5. Current.price = Charged
      BY <2>1 DEF Calibrated, Charged
    <3> QED BY <2>1, <3>1, <3>2, <3>3, <3>4, <3>5
  <2>2. CASE method # "compensated"
    <3>1. at \in {"begin", "callibrate"} /\ taken' = Append(taken, Fresh(0)) /\ 0 \in Nat
      BY <2>2
    <3>2. /\ taken' \in Seq(Call) /\ taken' # <<>> /\ Len(taken') = samplecount + 1
          /\ Current' = Fresh(0) /\ \A i \in 1 .. samplecount : taken'[i] = taken[i]
          /\ Len(taken) = samplecount /\ taken'[samplecount + 1] = Fresh(0)
          /\ samplecount \in Nat
      BY <3>1, FreshCall
    <3>3. Fresh(0).alone = 0 /\ Fresh(0).tick = 0 /\ Fresh(0).price = 0 /\ Fresh(0) \in Call
      BY FreshFields
    <3>4. Charged = 0
      BY <2>2 DEF Charged
    <3> QED BY <2>2, <3>2, <3>3, <3>4
  <2> QED BY <2>1, <2>2
<1>2. now \in Nat /\ Hi(now) \in Nat /\ Lo(now) \in Nat /\ now \div W \in Nat
  <2>1. now \in Nat
    BY DEF TimingType
  <2>2. now \div W \in Nat /\ now % W \in 0 .. W - 1
    BY <2>1, DigitsOf
  <2>3. (now \div W) % W \in 0 .. W - 1
    BY <2>2, DigitsOf
  <2> QED BY <2>1, <2>2, <2>3 DEF Hi, Lo
<1>3. TimingType'
  BY <1>1, <1>2 DEF TimingType
<1>4. at \in {"begin", "ticks"} /\ at' = "running" /\ method # "none"
  BY DEF CallsInOrder
<1>5. CallsInOrder'
  BY <1>1, <1>4 DEF CallsInOrder, Averaging
<1>6. Calibrated'
  BY <1>1, <1>4, PricesStay
<1>7. Spent(Current)' = 0
  <2>1. Spent(Current)' = Current'.alone + Current'.tick * tick_cost /\ tick_cost \in Nat
    BY DEF Spent, TimingType
  <2> QED BY <1>1, <2>1
<1>8. Measured'
  <2>1. /\ cyc_lo' = Lo(now) /\ cyc_hi' = (IF Averaging' THEN now \div W ELSE Hi(now))
        /\ now' = now + Spent(Current)' /\ now \in 0 .. now'
    BY <1>2, <1>7 DEF Averaging
  <2>2. 0 < W * W
    <3>1. W \in Nat /\ W > 0
      BY CounterAssumption
    <3> QED BY <3>1, Z3
  <2> QED BY <1>1, <1>4, <1>7, <2>1, <2>2 DEF Measured
<1>9. Finished' /\ Kept'
  BY <1>1, <1>4, SamplesStay DEF Finished
<1> QED BY <1>3, <1>5, <1>6, <1>8, <1>9

\* A call changed in its last component only.
LEMMA LastChanged ==
    ASSUME TimingIInv, at \in {"ticks", "running", "stop", "read"}, NEW c \in Call,
           taken' = [taken EXCEPT ![Len(taken)] = c]
    PROVE  /\ taken' \in Seq(Call) /\ taken' # <<>> /\ Len(taken') = samplecount + 1
           /\ Current' = c /\ \A i \in 1 .. samplecount : taken'[i] = taken[i]
<1>1. taken \in Seq(Call) /\ Len(taken) = samplecount + 1 /\ samplecount \in Nat
  BY DEF TimingIInv, TimingType, CallsInOrder
<1>2. /\ taken' \in Seq(Call) /\ Len(taken') = samplecount + 1 /\ taken'[samplecount + 1] = c
      /\ \A i \in 1 .. samplecount : taken'[i] = taken[i]
  BY <1>1
<1> QED BY <1>1, <1>2 DEF Current

LEMMA CurrentIsCall ==
    ASSUME TimingIInv, at \in {"ticks", "running", "stop", "read"}
    PROVE  /\ Current \in Call /\ taken \in Seq(Call) /\ taken # <<>> /\ Len(taken) = samplecount + 1
           /\ samplecount \in Nat /\ Current = taken[samplecount + 1]
<1>1. taken \in Seq(Call) /\ Len(taken) = samplecount + 1 /\ samplecount \in Nat
  BY DEF TimingIInv, TimingType, CallsInOrder
<1> QED BY <1>1 DEF Current

\* Nor do prices change when only the call under way does.
LEMMA LastPriceStays ==
    ASSUME TimingIInv, at \in {"ticks", "running", "stop", "read"},
           at' \in {"ticks", "running", "stop", "read"},
           tick_cost' = tick_cost, method' = method, cyc_per_tick' = cyc_per_tick, missed' = missed,
           Len(taken') = samplecount + 1, Current'.price = Current.price,
           \A i \in 1 .. samplecount : taken'[i] = taken[i]
    PROVE  Calibrated'
<1>1. Len(taken) = samplecount + 1 /\ Current = taken[samplecount + 1] /\ samplecount \in Nat
  BY CurrentIsCall
<1>2. Current.price = Charged /\ Current' = taken'[samplecount + 1]
  BY <1>1 DEF TimingIInv, Calibrated, Charged, Current
<1>3. ASSUME NEW i \in 1 .. Len(taken')
      PROVE  i \in 1 .. Len(taken) /\ taken'[i].price = taken[i].price
  <2>1. i \in 1 .. samplecount \/ i = samplecount + 1
    BY <1>1
  <2> QED BY <1>1, <1>2, <2>1
<1> QED BY <1>2, <1>3, PricesStay

LEMMA RunKeeps ==
    ASSUME TimingIInv, RunF
    PROVE  TimingIInv'
<1> USE DEF TimingIInv, RunF, counterVars, callibrateVars
<1> DEFINE n == IF Averaging THEN Runs ELSE 1
<1>1. PICK d \in Durations, tick \in {0, 1} :
          /\ now' = now + n * d + tick * tick_cost /\ utime' = utime + tick
          /\ taken' = [taken EXCEPT ![Len(taken)] = [Current EXCEPT !.alone = n * d, !.tick = tick]]
  <2>1. n = IF method \in {"itimer", "gettod"} THEN Runs ELSE 1
    BY DEF Averaging
  <2> HIDE DEF n
  <2>2. \E d \in Durations, tick \in {0, 1} :
            LET num == IF method \in {"itimer", "gettod"} THEN Runs ELSE 1
            IN  /\ now' = now + num * d + tick * tick_cost /\ utime' = utime + tick
                /\ taken' = [taken EXCEPT ![Len(taken)] = [@ EXCEPT !.alone = num * d, !.tick = tick]]
    BY Zenon
  <2>3. PICK d \in Durations, tick \in {0, 1} :
            /\ now' = now + n * d + tick * tick_cost /\ utime' = utime + tick
            /\ taken' = [taken EXCEPT ![Len(taken)] = [@ EXCEPT !.alone = n * d, !.tick = tick]]
    BY <2>1, <2>2, Zenon
  <2> QED BY <2>3, Zenon DEF Current
<1>2. /\ d \in Nat /\ Runs \in Nat /\ tick_cost \in TickCosts /\ tick_cost \in Nat /\ n * d \in Nat /\ tick * tick_cost \in Nat
      /\ ~ Averaging => n * d = d
      /\ tick * tick_cost <= tick_cost
  <2>1. d \in Nat /\ Runs \in Nat /\ tick_cost \in TickCosts /\ tick_cost \in Nat
    BY CounterAssumption, SchemeAssumption DEF TimingType
  <2>2. n \in Nat /\ (~ Averaging => n = 1)
    BY <2>1
  <2> HIDE DEF n
  <2>3. n * d \in Nat /\ (~ Averaging => n * d = d)
    BY <2>1, <2>2
  <2>4. tick * tick_cost \in Nat /\ tick * tick_cost <= tick_cost
    <3>1. CASE tick = 0
      BY <2>1, <3>1
    <3>2. CASE tick = 1
      BY <2>1, <3>2
    <3> QED BY <3>1, <3>2
  <2> QED BY <2>1, <2>3, <2>4
<1> DEFINE c == [Current EXCEPT !.alone = n * d, !.tick = tick]
<1>3. Current \in Call /\ taken \in Seq(Call) /\ taken # <<>>
  BY CurrentIsCall
<1>4. c \in Call /\ c.alone = n * d /\ c.tick = tick /\ c.stray = Current.stray /\ c.price = Current.price
  BY <1>2, <1>3 DEF Call
<1> HIDE DEF n, c
<1>5. /\ taken' \in Seq(Call) /\ taken' # <<>> /\ Len(taken') = samplecount + 1
      /\ Current' = c /\ \A i \in 1 .. samplecount : taken'[i] = taken[i]
  BY <1>1, <1>4, LastChanged DEF c
<1>6. Spent(Current)' = n * d + tick * tick_cost /\ Spent(Current) = 0
  <2>1. Current.alone = 0 /\ Current.tick = 0
    BY DEF Measured
  <2>2. Spent(Current)' = Current'.alone + Current'.tick * tick_cost
    BY DEF Spent
  <2> QED BY <1>2, <1>4, <1>5, <2>1, <2>2 DEF Spent
<1>7. now \in Nat /\ utime \in Nat /\ now' = now + Spent(Current)' /\ now' \in Nat /\ utime' \in Nat
  <2>1. now \in Nat /\ utime \in Nat
    BY DEF TimingType
  <2>2. utime' \in Nat
    BY <1>1, <2>1
  <2>3. now' = now + n * d + tick * tick_cost
    BY <1>1 DEF n
  <2> QED BY <1>2, <1>6, <2>1, <2>2, <2>3
<1>8. TimingType'
  BY <1>5, <1>7 DEF TimingType
<1>9. CallsInOrder'
  BY <1>5 DEF CallsInOrder, Averaging
<1>10. Calibrated' /\ Finished'
  <2>1. Current.price = Charged
    BY DEF Calibrated, Charged
  <2> QED BY <1>4, <1>5, <2>1, LastPriceStays DEF Finished
<1>11. Kept'
  BY <1>5, SamplesStay
<1>12. Measured'
  <2>1. PICK t0 \in 0 .. now :
            /\ cyc_lo = Lo(t0) /\ cyc_hi = (IF Averaging THEN t0 \div W ELSE Hi(t0))
            /\ now = t0 + Spent(Current)
    BY DEF Measured
  <2>2. t0 = now /\ t0 \in 0 .. now'
    BY <1>2, <1>6, <1>7, <2>1
  <2>3. /\ cyc_lo' = Lo(t0) /\ cyc_hi' = (IF Averaging' THEN t0 \div W ELSE Hi(t0))
        /\ now' = t0 + Spent(Current)'
    BY <1>7, <2>1, <2>2 DEF Averaging
  <2>4. Sampling => Spent(Current)' < W * W
    <3>1. ASSUME Sampling PROVE n * d = d
      BY <1>2, <3>1 DEF Sampling, Averaging
    <3>2. d + tick_cost < W * W /\ W * W \in Int
      BY <1>2, CounterAssumption
    <3> QED BY <1>2, <1>6, <3>1, <3>2
  <2>5. method = "compensated" => utime' - start_tick' = Current'.tick + Current'.stray
    <3>1. Current.stray \in {0, 1} /\ start_tick \in Nat /\ Current.tick = 0
      BY <1>3 DEF Call, TimingType, Measured
    <3>2. method = "compensated" => utime - start_tick = Current.stray
      BY <3>1 DEF Measured
    <3> QED BY <1>1, <1>4, <1>5, <1>7, <3>1, <3>2
  <2> QED BY <2>2, <2>3, <2>4, <2>5 DEF Measured, Sampling
<1> QED BY <1>8, <1>9, <1>10, <1>11, <1>12

LEMMA InterruptKeeps ==
    ASSUME TimingIInv, Interrupt
    PROVE  TimingIInv'
<1> USE DEF TimingIInv, Interrupt, counterVars, callibrateVars
<1> DEFINE c == [Current EXCEPT !.stray = 1]
<1>1. Current \in Call /\ taken \in Seq(Call) /\ taken # <<>>
  BY CurrentIsCall
<1>2. /\ c \in Call /\ c.alone = Current.alone /\ c.tick = Current.tick /\ c.stray = 1 /\ Current.stray = 0
      /\ c.price = Current.price
  BY <1>1 DEF Call, Current
<1>3. taken' = [taken EXCEPT ![Len(taken)] = c]
  BY DEF Current
<1> HIDE DEF c
<1>4. /\ taken' \in Seq(Call) /\ taken' # <<>> /\ Len(taken') = samplecount + 1
      /\ Current' = c /\ \A i \in 1 .. samplecount : taken'[i] = taken[i]
  BY <1>2, <1>3, LastChanged
<1>5. Spent(Current)' = Spent(Current)
  BY <1>2, <1>4 DEF Spent
<1>6. TimingType'
  <2>1. now \in Nat /\ utime \in Nat /\ tick_cost \in Nat
    BY DEF TimingType
  <2>2. now' \in Nat /\ utime' \in Nat
    BY <2>1
  <2> QED BY <1>4, <2>2 DEF TimingType
<1>7. CallsInOrder'
  BY <1>4 DEF CallsInOrder, Averaging
<1>8. Calibrated' /\ Finished'
  BY <1>2, <1>4, LastPriceStays DEF Finished
<1>9. Kept'
  BY <1>4, SamplesStay
<1>10. Measured'
  <2>1. Current'.alone = Current.alone /\ Current'.tick = Current.tick /\ Current'.stray = 1
    BY <1>2, <1>4
  <2>2. utime \in Nat /\ start_tick \in Nat /\ utime' = utime + 1 /\ Current.tick \in {0, 1}
    BY <1>1 DEF TimingType, Call
  <2>3. at' = at /\ method' = method /\ start_tick' = start_tick /\ time' = time
    OBVIOUS
  <2>4. at \in {"ticks", "running"} => Current'.alone = 0 /\ Current'.tick = 0
    BY <2>1 DEF Measured
  <2>5. at = "ticks" => utime' - start_tick' = Current'.stray
    BY <1>2, <2>1, <2>2, <2>3 DEF Measured
  <2>6. at = "read" /\ method = "compensated" => utime' - start_tick' = Current'.tick + Current'.stray
    BY <1>2, <2>1, <2>2, <2>3 DEF Measured
  <2>7. at = "read" => time' = Spent(Current)' /\ (Sampling => Spent(Current)' < W * W)
    BY <1>5, <2>3 DEF Measured
  <2> QED BY <2>3, <2>4, <2>5, <2>6, <2>7 DEF Measured, Sampling
<1> QED BY <1>6, <1>7, <1>8, <1>9, <1>10

LEMMA ReadKeeps ==
    ASSUME TimingIInv, ReadCounter
    PROVE  TimingIInv'
<1> USE DEF TimingIInv, ReadCounter, counterVars, callibrateVars, samplerVars
<1>1. Current \in Call /\ taken # <<>> /\ Len(taken) = samplecount + 1
  BY CurrentIsCall
<1>2. Current' = Current /\ Spent(Current)' = Spent(Current)
  BY DEF Current, Spent
<1>3. time' = Spent(Current) /\ Spent(Current) \in Nat
  <2>1. PICK t0 \in 0 .. now : cyc_lo = Lo(t0) /\ cyc_hi = Hi(t0) /\ now = t0 + Spent(Current)
    BY DEF Measured, Averaging
  <2>2. t0 \in Nat /\ Spent(Current) \in Nat
    BY <1>1, CallFacts DEF TimingType
  <2>3. Spent(Current) < W * W
    BY DEF Measured, Sampling
  <2> QED BY <2>1, <2>2, <2>3, CounterDifference
<1>4. TimingType'
  BY <1>3 DEF TimingType
<1>5. CallsInOrder'
  BY DEF CallsInOrder, Averaging
<1>6. Calibrated' /\ Finished'
  BY <1>1, <1>2, LastPriceStays DEF Finished
<1>7. Kept'
  BY SamplesStay
<1>8. Measured'
  BY <1>2, <1>3 DEF Measured, Sampling
<1> QED BY <1>4, <1>5, <1>6, <1>7, <1>8

LEMMA SampleKeeps ==
    ASSUME TimingIInv, Sample
    PROVE  TimingIInv'
<1> USE DEF TimingIInv, Sample, counterVars, callibrateVars
<1> DEFINE ticks == IF method = "compensated" THEN utime - start_tick ELSE 0
<1>1. /\ Current \in Call /\ taken \in Seq(Call) /\ taken # <<>> /\ Len(taken) = samplecount + 1
      /\ samplecount \in Nat /\ Current = taken[samplecount + 1]
  BY CurrentIsCall
<1>2. method \in {"fcyc", "compensated"} /\ ~ Averaging
  BY DEF CallsInOrder, TimingType, Averaging
<1>3. time - ticks * cyc_per_tick = Elapsed(Current) /\ Elapsed(Current) \in Int
  <2>1. time = Spent(Current) /\ Spent(Current) \in Nat /\ cyc_per_tick \in Nat
    BY <1>1, CallFacts DEF Measured, TimingType
  <2>2. method = "compensated" => utime - start_tick = Current.tick + Current.stray
    BY DEF Measured
  <2>3. /\ Elapsed(Current) \in Int
        /\ Elapsed(Current) = Spent(Current) - (Current.tick + Current.stray) * Current.price
    BY <1>1, CallFacts
  <2>4. Current.price = IF method = "compensated" THEN cyc_per_tick ELSE 0
    BY DEF Calibrated
  <2>5. Current.tick \in {0, 1} /\ Current.stray \in {0, 1}
    BY <1>1 DEF Call
  <2>6. CASE method = "compensated"
    BY <2>1, <2>2, <2>3, <2>4, <2>6
  <2>7. CASE method # "compensated"
    BY <2>1, <2>3, <2>4, <2>5, <2>7
  <2> QED BY <2>6, <2>7
<1>4. Samples \in [1 .. samplecount -> Int] /\ Best(values, Samples, samplecount)
  <2>1. TimingType /\ samplecount <= Len(taken)
    BY <1>1
  <2> QED BY <2>1, SamplesAre DEF Kept
<1>5. /\ Samples' \in [1 .. samplecount + 1 -> Int] /\ Samples'[samplecount + 1] = Elapsed(Current)
      /\ \A i \in 1 .. samplecount : Samples'[i] = Samples[i]
  <2>1. \A i \in 1 .. samplecount + 1 : taken[i] \in Call
    BY <1>1
  <2>2. \A i \in 1 .. samplecount + 1 : Elapsed(taken[i]) \in Int
    BY <2>1, CallFacts
  <2>3. Samples' = [i \in 1 .. samplecount + 1 |-> Elapsed(taken[i])]
    BY DEF Samples, Elapsed
  <2> QED BY <1>1, <2>2, <2>3 DEF Samples
<1>6. values' = Added(values, samplecount, Samples'[samplecount + 1])
  BY <1>3, <1>5
<1>7. values' \in [1 .. kbest -> Int] /\ Best(values', Samples', samplecount + 1)
  <2>1. values \in [1 .. kbest -> Int]
    BY DEF TimingType
  <2>2. PICK S \in [1 .. samplecount -> Int], T \in [1 .. samplecount + 1 -> Int] : S = Samples /\ T = Samples'
    BY <1>4, <1>5
  <2>3. /\ Added(values, samplecount, T[samplecount + 1]) \in [1 .. kbest -> Int]
        /\ Best(Added(values, samplecount, T[samplecount + 1]), T, samplecount + 1)
    BY <1>1, <1>4, <1>5, <2>1, <2>2, AddedKeeps
  <2> QED BY <1>6, <2>2, <2>3
<1>8. samplecount' = samplecount + 1 /\ samplecount' \in Nat /\ values'[1] \in Int
  BY <1>1, <1>7, SchemeAssumption
<1>9. TimingType'
  BY <1>7, <1>8 DEF TimingType
<1>10. CallsInOrder'
  <2>1. maxsamples \in Nat /\ samplecount < maxsamples
    BY SchemeAssumption DEF CallsInOrder
  <2>2. at' = "begin" => samplecount' < maxsamples
    BY <1>8, <2>1
  <2> QED BY <1>1, <1>2, <1>8, <2>1, <2>2 DEF CallsInOrder, Averaging
<1>11. Calibrated'
  BY PricesStay
<1>12. Measured'
  BY DEF Measured
<1>13. Kept'
  BY <1>7, <1>8 DEF Kept
<1>14. Finished'
  <2>1. ASSUME at' = "done"
        PROVE  result' = values'[1] /\ (samplecount' = maxsamples \/ has_converged(values', samplecount'))
    <3>1. maxsamples \in Nat /\ samplecount < maxsamples
      BY SchemeAssumption DEF CallsInOrder
    <3>2. samplecount' >= maxsamples => samplecount' = maxsamples
      BY <1>1, <1>8, <3>1
    <3> QED BY <2>1, <3>2
  <2>2. ~ Averaging' /\ has_converged(values, samplecount)' = has_converged(values', samplecount')
    BY <1>2 DEF Averaging, has_converged
  <2> QED BY <2>1, <2>2 DEF Finished
<1> QED BY <1>9, <1>10, <1>11, <1>12, <1>13, <1>14

LEMMA AverageKeeps ==
    ASSUME TimingIInv, Average
    PROVE  TimingIInv'
<1> USE DEF TimingIInv, Average, counterVars, callibrateVars, samplerVars
<1>1. /\ Current \in Call /\ taken \in Seq(Call) /\ taken # <<>> /\ Len(taken) = samplecount + 1
      /\ Current = taken[samplecount + 1] /\ Averaging /\ samplecount = 0
  BY CurrentIsCall DEF CallsInOrder, Averaging
<1>2. PICK t0 \in 0 .. now : cyc_lo = Lo(t0) /\ cyc_hi = t0 \div W /\ now = t0 + Spent(Current)
  BY <1>1 DEF Measured
<1>3. Spent(Current) \in Nat /\ Elapsed(Current) = Spent(Current)
  <2>1. Current.price = 0 /\ Current.tick \in {0, 1} /\ Current.stray \in {0, 1}
    BY <1>1 DEF Calibrated, Averaging, Call
  <2>2. /\ Spent(Current) \in Nat
        /\ Elapsed(Current) = Spent(Current) - (Current.tick + Current.stray) * Current.price
    BY <1>1, CallFacts
  <2> QED BY <2>1, <2>2
<1>4. now \in Nat /\ t0 \in Nat
  BY DEF TimingType
<1>5. (now \div W - cyc_hi) * W + (Lo(now) - cyc_lo) = Spent(Current)
  <2>1. /\ now \div W \in Nat /\ now % W \in 0 .. W - 1 /\ now = W * (now \div W) + (now % W)
        /\ t0 \div W \in Nat /\ t0 % W \in 0 .. W - 1 /\ t0 = W * (t0 \div W) + (t0 % W)
    BY <1>4, DigitsOf
  <2>2. W \in Nat
    BY CounterAssumption
  <2>3. ASSUME NEW x \in Nat, NEW y \in Nat
        PROVE  (x - y) * W = W * x - W * y
    BY <2>2
  <2>4. (now \div W - t0 \div W) * W = W * (now \div W) - W * (t0 \div W)
    BY <2>1, <2>3
  <2> QED BY <2>4, <1>2, <1>3, <1>4, <2>1, <2>2, <2>3 DEF Lo
<1>6. result' = Elapsed(taken[1]) \div Runs /\ result' \in Int
  <2>1. Spent(Current) \div Runs \in Int
    BY <1>3, SchemeAssumption
  <2> QED BY <1>1, <1>3, <1>5, <2>1
<1>7. TimingType'
  BY <1>6 DEF TimingType
<1>8. CallsInOrder'
  BY <1>1 DEF CallsInOrder, Averaging
<1>9. Calibrated' /\ Measured'
  BY <1>1, PricesStay DEF Measured
<1>10. Kept'
  BY SamplesStay
<1>11. Finished'
  <2>1. Averaging' /\ Elapsed(taken[1])' = Elapsed(taken[1])
    BY <1>1 DEF Averaging, Elapsed
  <2> QED BY <1>6, <2>1 DEF Finished
<1> QED BY <1>7, <1>8, <1>9, <1>10, <1>11

(***************************************************************************)
(* Every property of the packages follows from the invariant.              *)
(***************************************************************************)
LEMMA TimingStutters ==
    ASSUME TimingIInv, UNCHANGED timingVars
    PROVE  TimingIInv'
<1> USE DEF TimingIInv, timingVars
<1>1. TimingType' /\ CallsInOrder' /\ Calibrated'
  BY DEF TimingType, CallsInOrder, Calibrated, Averaging, Priced, Unpriced, Wrong, Current
<1>2. Measured'
  BY DEF Measured, Averaging, Sampling, Current, Spent
<1>3. Samples' = Samples
  BY DEF Samples, Elapsed
<1>4. Kept'
  BY <1>3 DEF Kept
<1>5. Finished'
  BY DEF Finished, Averaging, Elapsed, has_converged
<1> QED BY <1>1, <1>2, <1>4, <1>5

\* The invariant of the timing packages: one call at a time is measured, its
\* sample is the time of the call, and the first places of the table hold the
\* least of the samples in order.
THEOREM TimingInvariance == TimingSpec => []TimingIInv
<1>1. TimingInit => TimingIInv
  BY TimingStarts
<1>2. TimingIInv /\ [TimingNext]_timingVars => TimingIInv'
  BY FsecsKeeps, EnterCallibrateKeeps, CallibrateKeeps, TimesKeeps, StartKeeps, RunKeeps, InterruptKeeps, ReadKeeps,
     SampleKeeps, AverageKeeps, TimingStutters DEF TimingNext
<1> QED BY <1>1, <1>2, PTL DEF TimingSpec

LEMMA RanksAre ==
    ASSUME TimingIInv, at = "done", NEW n \in 1 .. kbest, n <= Len(taken), ~ Averaging
    PROVE  Ranked(values[n], n) /\ Rank(Samples, samplecount, values[n], n)
<1>1. Len(taken) = samplecount /\ taken \in Seq(Call) /\ DOMAIN taken = 1 .. samplecount
  BY DEF TimingIInv, CallsInOrder, TimingType
<1>2. Rank(Samples, samplecount, values[n], n)
  BY <1>1 DEF TimingIInv, Kept, Best
<1>3. /\ Below(Samples, samplecount, values[n]) = {i \in DOMAIN taken : Elapsed(taken[i]) < values[n]}
      /\ UpTo(Samples, samplecount, values[n]) = {i \in DOMAIN taken : Elapsed(taken[i]) <= values[n]}
  BY <1>1 DEF Below, UpTo, Samples
<1> QED BY <1>2, <1>3 DEF Ranked, Rank

\* Whatever digit of the counter wraps, the samples fcyc keeps are the k least
\* of those taken, in order, and it stops only when they lie within epsilon or
\* at the last sample; the averages are those of the time that passed
\* (add_sample and has_converged of fcyc.c, get_counter of clock.c).
THEOREM KBestIsKept == TimingSpec => []KBestKept
<1>1. TimingIInv => KBestKept
  <2> SUFFICES ASSUME TimingIInv, at = "done" PROVE KBestKept
    BY DEF KBestKept
  <2> USE DEF TimingIInv
  <2>1. CASE Averaging
    BY <2>1 DEF KBestKept, Finished, Averaging
  <2>2. CASE ~ Averaging
    <3>1. method \in {"fcyc", "compensated"} /\ Len(taken) = samplecount
      BY <2>2 DEF CallsInOrder, TimingType, Averaging
    <3>2. result = values[1] /\ (samplecount = maxsamples \/ has_converged(values, samplecount))
      BY <2>2 DEF Finished
    <3>3. \A n \in 1 .. kbest : n <= Len(taken) => Ranked(values[n], n)
      BY <2>2, RanksAre
    <3> QED BY <3>1, <3>2, <3>3 DEF KBestKept, has_converged
  <2> QED BY <2>1, <2>2
<1> QED BY <1>1, TimingInvariance, PTL

LEMMA Once ==
    ASSUME NEW a \in {0, 1}, NEW h \in {0, 1}, NEW x \in Nat
    PROVE  /\ a * x = (IF a = 1 THEN x ELSE 0) /\ a * x \in Nat
           /\ (a + h) * x = (IF a = 1 THEN x ELSE 0) + (IF h = 1 THEN x ELSE 0) /\ (a + h) * x \in Nat
<1>1. CASE a = 0 /\ h = 0
  BY <1>1
<1>2. CASE a = 0 /\ h = 1
  BY <1>2
<1>3. CASE a = 1 /\ h = 0
  BY <1>3
<1>4. CASE a = 1 /\ h = 1
  BY <1>4
<1> QED BY <1>1, <1>2, <1>3, <1>4

\* A compensated sample is never more than the call by itself and what its tick
\* is not paid for, nor less than by a tick's error: callibrate's THRESHOLD,
\* RECORDTHRESH and division included (get_comp_counter of clock.c).
LEMMA SampleBounds ==
    ASSUME TimingIInv, method = "compensated", NEW i \in 1 .. Len(taken)
    PROVE  LET c == taken[i]
               unpaid == IF c.price = 0 THEN tick_cost ELSE IF missed THEN Beyond ELSE 0
           IN  /\ Elapsed(c) <= c.alone + c.tick * unpaid
               /\ \E e \in Slack : Elapsed(c) >= c.alone - c.tick * (e + Wrong)
                                                   - c.stray * (tick_cost + e + Wrong)
<1> DEFINE c == taken[i]
           unpaid == IF c.price = 0 THEN tick_cost ELSE IF missed THEN Beyond ELSE 0
<1>1. c \in Call
  BY DEF TimingIInv, TimingType
<1>2. c.alone \in Nat /\ c.tick \in {0, 1} /\ c.stray \in {0, 1} /\ c.price \in Nat
  BY <1>1 DEF Call
<1>3. tick_cost \in Nat /\ RECORDTHRESH \in Nat /\ missed \in BOOLEAN
  BY CallibrateAssumption DEF TimingIInv, TimingType
<1>4. Wrong \in Nat /\ Beyond \in Nat /\ unpaid \in Nat
  BY <1>3 DEF Wrong, Beyond
<1>5. Elapsed(c) = c.alone + c.tick * tick_cost - (c.tick + c.stray) * c.price
  BY DEF Elapsed
<1>6. Priced(c.price)
  BY DEF TimingIInv, Calibrated
<1>7. PICK e \in Slack : c.price <= tick_cost + e + Wrong
  <2>1. CASE c.price = 0
    <3>1. PICK e \in Slack : e \in Nat
      BY CallibrateAssumption
    <3> QED BY <1>3, <1>4, <2>1, <3>1
  <2>2. CASE c.price # 0
    BY <1>6, <2>2 DEF Priced
  <2> QED BY <2>1, <2>2
<1>8. e \in Nat
  BY CallibrateAssumption
<1>9. tick_cost <= c.price + unpaid
  <2>1. CASE c.price = 0
    BY <1>3, <2>1
  <2>2. CASE c.price # 0
    <3>1. c.price > RECORDTHRESH /\ (missed \/ c.price >= tick_cost)
      BY <1>6, <2>2 DEF Priced
    <3>2. CASE missed
      <4>1. unpaid = Beyond
        BY <2>2, <3>2
      <4> QED BY <1>2, <1>3, <3>1, <4>1 DEF Beyond
    <3>3. CASE ~ missed
      BY <1>2, <1>3, <1>4, <3>1, <3>3
    <3> QED BY <3>2, <3>3
  <2> QED BY <2>1, <2>2
<1>10. c.alone \in Nat
  BY <1>2
<1> HIDE DEF c, unpaid
<1>11. Elapsed(c) <= c.alone + c.tick * unpaid
  <2>1. PICK p \in Nat, t \in Nat, u \in Nat : p = c.price /\ t = tick_cost /\ u = unpaid
    BY <1>2, <1>3, <1>4
  <2>2. ASSUME NEW a \in {0, 1}, NEW h \in {0, 1}
        PROVE  a * t - (a + h) * p <= a * u
    <3>1. t <= p + u
      BY <1>9, <2>1
    <3>2. a * t = (IF a = 1 THEN t ELSE 0) /\ a * u = (IF a = 1 THEN u ELSE 0)
      BY Once
    <3>3. (a + h) * p = (IF a = 1 THEN p ELSE 0) + (IF h = 1 THEN p ELSE 0)
      BY Once
    <3> QED BY <3>1, <3>2, <3>3
  <2>3. c.tick * t - (c.tick + c.stray) * p <= c.tick * u
    BY <1>2, <2>2
  <2>4. c.tick * t \in Int /\ (c.tick + c.stray) * p \in Int /\ c.tick * u \in Int
    <3>1. PICK a \in {0, 1}, h \in {0, 1} : a = c.tick /\ h = c.stray
      BY <1>2
    <3>2. a * t \in Nat /\ (a + h) * p \in Nat /\ a * u \in Nat
      BY Once
    <3> QED BY <3>1, <3>2
  <2>5. Elapsed(c) = c.alone + c.tick * t - (c.tick + c.stray) * p
    BY <1>2, <1>5, <2>1
  <2>6. PICK x \in Int, y \in Int, z \in Int : x = c.tick * t /\ y = (c.tick + c.stray) * p /\ z = c.tick * u
    BY <2>4
  <2>7. Elapsed(c) <= c.alone + c.tick * u
    <3>1. Elapsed(c) = c.alone + x - y /\ x - y <= z
      BY <2>3, <2>5, <2>6
    <3>2. Elapsed(c) <= c.alone + z
      BY <1>10, <3>1
    <3> QED BY <2>6, <3>2
  <2> QED BY <2>1, <2>7
<1>12. Elapsed(c) >= c.alone - c.tick * (e + Wrong) - c.stray * (tick_cost + e + Wrong)
  <2>1. PICK p \in Nat, t \in Nat, w \in Nat : p = c.price /\ t = tick_cost /\ w = Wrong
    BY <1>2, <1>3, <1>4
  <2>2. ASSUME NEW a \in {0, 1}, NEW h \in {0, 1}
        PROVE  a * t - (a + h) * p >= 0 - a * (e + w) - h * (t + e + w)
    <3>1. p <= t + e + w /\ e + w \in Nat /\ t + e + w \in Nat
      BY <1>7, <1>8, <2>1
    <3>2. /\ a * t = (IF a = 1 THEN t ELSE 0) /\ a * (e + w) = (IF a = 1 THEN e + w ELSE 0)
          /\ h * (t + e + w) = IF h = 1 THEN t + e + w ELSE 0
      BY <3>1, Once
    <3>3. (a + h) * p = (IF a = 1 THEN p ELSE 0) + (IF h = 1 THEN p ELSE 0)
      BY Once
    <3> QED BY <1>8, <3>1, <3>2, <3>3
  <2>3. c.tick * t - (c.tick + c.stray) * p >= 0 - c.tick * (e + w) - c.stray * (t + e + w)
    BY <1>2, <2>2
  <2>4. /\ c.tick * t \in Int /\ (c.tick + c.stray) * p \in Int /\ c.tick * (e + w) \in Int
        /\ c.stray * (t + e + w) \in Int
    <3>1. e + w \in Nat /\ t + e + w \in Nat
      BY <1>8
    <3> QED BY <1>2, <3>1, Once
  <2>5. Elapsed(c) = c.alone + c.tick * t - (c.tick + c.stray) * p
    BY <1>2, <1>5, <2>1
  <2>6. Elapsed(c) >= c.alone - c.tick * (e + w) - c.stray * (t + e + w)
    <3>1. PICK x \in Int, y \in Int, z \in Int, v \in Int :
              /\ x = c.tick * t /\ y = (c.tick + c.stray) * p
              /\ z = c.tick * (e + w) /\ v = c.stray * (t + e + w)
      BY <2>4
    <3>2. Elapsed(c) = c.alone + x - y /\ x - y >= 0 - z - v
      BY <2>3, <2>5, <3>1
    <3>3. Elapsed(c) >= c.alone - z - v
      BY <1>10, <3>2
    <3> QED BY <3>1, <3>3
  <2> QED BY <2>1, <2>6
<1> QED BY <1>11, <1>12 DEF c, unpaid

\* The compensated time is never more than the fastest call's own, where
\* callibrate found a price and counted each tick with its gap; it finds none only
\* for ticks of no more than RECORDTHRESH or after a tick counted wrongly.  It is
\* less by a tick's error at most, but for a tick between the two readings
\* (callibrate and get_comp_counter of clock.c).
THEOREM TicksAreCompensated == TimingSpec => []TicksCompensated
<1>1. TimingIInv => TicksCompensated
  <2> SUFFICES ASSUME TimingIInv, at = "done", method = "compensated" PROVE TicksCompensated
    BY DEF TicksCompensated
  <2> USE DEF TimingIInv
  <2>1. /\ ~ Averaging /\ Len(taken) = samplecount /\ samplecount >= 1 /\ samplecount \in Nat
        /\ taken \in Seq(Call) /\ DOMAIN taken = 1 .. samplecount /\ 1 \in 1 .. kbest
    BY SchemeAssumption DEF CallsInOrder, TimingType, Averaging
  <2>2. result = values[1] /\ values[1] \in Int
    BY <2>1 DEF Finished, TimingType
  <2>3. Samples \in [1 .. samplecount -> Int]
    BY <2>1, SamplesAre
  <2>4. Rank(Samples, samplecount, values[1], 1)
    BY <2>1, RanksAre
  <2>5. \A i \in 1 .. samplecount : values[1] <= Samples[i]
    BY <2>1, <2>2, <2>3, <2>4, RankOneIsLeast
  <2>6. \E i \in 1 .. samplecount : Samples[i] = values[1]
    BY <2>1, <2>2, <2>3, <2>4, RankedIsSample
  <2>7. \A i \in 1 .. samplecount : Samples[i] = Elapsed(taken[i])
    BY DEF Samples
  <2>8. ASSUME NEW i \in DOMAIN taken
        PROVE  LET c == taken[i]
                   unpaid == IF c.price = 0 THEN tick_cost ELSE IF missed THEN Beyond ELSE 0
               IN  /\ result <= c.alone + c.tick * unpaid
                   /\ c.price = 0 => missed \/ tick_cost <= RECORDTHRESH
    <3> DEFINE unpaid == IF taken[i].price = 0 THEN tick_cost ELSE IF missed THEN Beyond ELSE 0
    <3>1. taken[i] \in Call /\ Unpriced(taken[i].price)
      BY <2>1 DEF Calibrated
    <3>2. /\ taken[i].alone \in Nat /\ taken[i].tick \in {0, 1} /\ tick_cost \in Nat
          /\ RECORDTHRESH \in Nat /\ Elapsed(taken[i]) \in Int
      BY <3>1, CallFacts, CallibrateAssumption DEF Call, TimingType
    <3>3. Elapsed(taken[i]) <= taken[i].alone + taken[i].tick * unpaid
      BY <2>1, SampleBounds
    <3>4. unpaid \in Nat
      BY <3>2 DEF Beyond
    <3>5. result <= Elapsed(taken[i])
      BY <2>1, <2>2, <2>5, <2>7
    <3> HIDE DEF unpaid
    <3>6. taken[i].tick * unpaid \in Int
      BY <3>2, <3>4
    <3>7. result <= taken[i].alone + taken[i].tick * unpaid
      BY <2>2, <3>2, <3>3, <3>5, <3>6
    <3> QED BY <3>1, <3>7 DEF Unpriced, unpaid
  <2>9. \E i \in DOMAIN taken, e \in Slack :
            result >= taken[i].alone - taken[i].tick * (e + Wrong)
                          - taken[i].stray * (tick_cost + e + Wrong)
    <3>1. PICK i \in DOMAIN taken : Elapsed(taken[i]) = result
      BY <2>1, <2>2, <2>6, <2>7
    <3> QED BY <2>1, <3>1, SampleBounds
  <2> QED BY <2>8, <2>9 DEF TicksCompensated
<1> QED BY <1>1, TimingInvariance, PTL

-----------------------------------------------------------------------------
(***************************************************************************)
(* The driver: the ranges it accepts, the verdict on a right allocator and *)
(* the sum of the payloads, for every set of traces and every heap.        *)
(***************************************************************************)

(***************************************************************************)
(* Max returns the greatest member of a finite set of naturals: the one    *)
(* with the fewest members above it.                                       *)
(***************************************************************************)
LEMMA GreatestOf ==
    ASSUME NEW S \in SUBSET Int, IsFiniteSet(S), S # {}
    PROVE  Max(S) \in S /\ \A y \in S : y <= Max(S)
<1> DEFINE Above(x) == {y \in S : y > x}
           T == {Cardinality(Above(x)) : x \in S}
<1>1. \A x \in S : IsFiniteSet(Above(x)) /\ Cardinality(Above(x)) \in Nat
  BY FS_Subset, FS_CardinalityType
<1>2. PICK m \in S : \A x \in S : Cardinality(Above(m)) <= Cardinality(Above(x))
  <2>1. T \in SUBSET Nat /\ T # {}
    BY <1>1
  <2>2. PICK c \in T : \A n \in T : c <= n
    <3> HIDE DEF T
    <3> QED BY <2>1, LeastNatural
  <2> QED BY <2>2
<1>3. ASSUME NEW y \in S, y > m
      PROVE  FALSE
  <2>1. Above(y) \in SUBSET Above(m) /\ y \in Above(m) /\ y \notin Above(y)
    <3>1. m \in Int /\ y \in Int /\ \A z \in S : z \in Int
      OBVIOUS
    <3>2. \A z \in S : z > y => z > m
      BY <1>3, <3>1
    <3>3. Above(y) \subseteq Above(m)
      BY <3>2
    <3>4. y \in Above(m) /\ y \notin Above(y)
      BY <1>3, <3>1
    <3> QED BY <3>3, <3>4
  <2>2. Cardinality(Above(y)) <= Cardinality(Above(m)) /\ Cardinality(Above(m)) # Cardinality(Above(y))
    <3> HIDE DEF Above
    <3> QED BY <1>1, <2>1, FS_Subset
  <2>3. Cardinality(Above(m)) <= Cardinality(Above(y))
    BY <1>2
  <2>4. Cardinality(Above(m)) \in Nat /\ Cardinality(Above(y)) \in Nat
    BY <1>1
  <2> QED BY <2>2, <2>3, <2>4
<1>4. \A y \in S : m >= y
  BY <1>3
<1> QED BY <1>4 DEF Max

(***************************************************************************)
(* A trace that read_trace takes: its requests, and the blocks in use.     *)
(***************************************************************************)
Request == [type : {"a", "r", "f"}, index : Nat, size : Nat]
Sound(f) == f \in TraceFiles /\ WellFormed(f)

LEMMA RequestsAre ==
    ASSUME NEW f, Sound(f)
    PROVE  /\ f.num_ops \in Nat /\ Len(f.ops) = f.num_ops /\ f.num_ids \in Nat
           /\ \A i \in 1 .. f.num_ops :
                  f.ops[i] \in Request /\ f.ops[i].size \in Nat /\ f.ops[i].index \in Nat
<1>1. f.ops \in Seq(Request) /\ Len(f.ops) = f.num_ops /\ f.num_ids \in Nat /\ f.num_ops \in Nat
  BY DriverAssumption DEF Sound, WellFormed, Request
<1>2. \A i \in 1 .. f.num_ops : f.ops[i] \in Request
  BY <1>1
<1> QED BY <1>1, <1>2 DEF Request

LEMMA HoldersAre ==
    ASSUME NEW f, Sound(f), NEW i \in 1 .. f.num_ops + 1, NEW j \in Holders(f, i)
    PROVE  /\ j \in 1 .. f.num_ops /\ j < i /\ f.ops[j].type # "f"
           /\ f.ops[j] \in Request /\ f.ops[j].size \in Nat
<1>1. f.num_ops \in Nat
  BY RequestsAre
<1>2. j \in 1 .. f.num_ops /\ j < i /\ f.ops[j].type # "f"
  BY <1>1 DEF Holders
<1> QED BY <1>2, RequestsAre

LEMMA HoldersFinite ==
    ASSUME NEW f, NEW i \in Nat
    PROVE  IsFiniteSet(Holders(f, i))
<1>1. Holders(f, i) \in SUBSET (1 .. i - 1) /\ IsFiniteSet(1 .. i - 1)
  BY FS_Interval DEF Holders
<1> QED BY <1>1, FS_Subset

LEMMA OneHolder ==
    ASSUME NEW f, NEW i \in Nat, NEW j \in Holders(f, i), NEW k \in Holders(f, i),
           f.ops[j].index = f.ops[k].index
    PROVE  j = k
<1>1. j \in 1 .. i - 1 /\ k \in 1 .. i - 1
  BY DEF Holders
<1>2. ~ (j < k)
  <2>1. ASSUME j < k PROVE FALSE
    <3>1. k \in j + 1 .. i - 1
      BY <1>1, <2>1
    <3> QED BY <3>1 DEF Holders
  <2> QED BY <2>1
<1>3. ~ (k < j)
  <2>1. ASSUME k < j PROVE FALSE
    <3>1. j \in k + 1 .. i - 1
      BY <1>1, <2>1
    <3> QED BY <3>1 DEF Holders
  <2> QED BY <2>1
<1> QED BY <1>1, <1>2, <1>3

Others(f, i) == {j \in Holders(f, i) : f.ops[j].index # f.ops[i].index}

LEMMA HoldersNext ==
    ASSUME NEW f, Sound(f), NEW i \in 1 .. f.num_ops
    PROVE  /\ Holders(f, i + 1) = IF f.ops[i].type = "f" THEN Others(f, i) ELSE Others(f, i) \cup {i}
           /\ f.ops[i].type = "a" => Others(f, i) = Holders(f, i)
           /\ f.ops[i].type # "a" => \E j \in Holders(f, i) : f.ops[j].index = f.ops[i].index
<1>1. f.num_ops \in Nat
  BY RequestsAre
<1>2. ASSUME NEW j \in Holders(f, i + 1), j # i
      PROVE  j \in Others(f, i)
  <2>1. j \in 1 .. i - 1 /\ i \in j + 1 .. i + 1 - 1
    BY <1>1, <1>2 DEF Holders
  <2>2. \A l \in j + 1 .. i - 1 : l \in j + 1 .. i + 1 - 1
    BY <1>1, <2>1
  <2> QED BY <2>1, <2>2 DEF Holders, Others
<1>3. ASSUME NEW j \in Others(f, i)
      PROVE  j \in Holders(f, i + 1)
  <2>1. j \in 1 .. i - 1 /\ f.ops[i].index # f.ops[j].index /\ f.ops[j].type # "f"
        /\ \A l \in j + 1 .. i - 1 : f.ops[l].index # f.ops[j].index
    BY DEF Holders, Others
  <2>2. j \in 1 .. i + 1 - 1 /\ \A l \in j + 1 .. i + 1 - 1 : l = i \/ l \in j + 1 .. i - 1
    BY <1>1, <2>1
  <2> QED BY <2>1, <2>2 DEF Holders
<1>4. i \in Holders(f, i + 1) <=> f.ops[i].type # "f"
  <2>1. i \in 1 .. i + 1 - 1 /\ i + 1 .. i + 1 - 1 = {}
    BY <1>1
  <2> QED BY <2>1 DEF Holders
<1>5. i \notin Others(f, i)
  BY DEF Others
<1>6. Holders(f, i + 1) = IF f.ops[i].type = "f" THEN Others(f, i) ELSE Others(f, i) \cup {i}
  BY <1>2, <1>3, <1>4, <1>5
<1>7. f.ops[i].type = "a" <=> \A j \in Holders(f, i) : f.ops[j].index # f.ops[i].index
  BY TraceAssumption DEF Sound
<1> QED BY <1>6, <1>7 DEF Others

\* The assertion on the greatest identifier keeps every request in the arrays.
LEMMA IndexInArrays ==
    ASSUME NEW f, Sound(f), NEW i \in 1 .. f.num_ops
    PROVE  f.ops[i].index \in 0 .. f.num_ids - 1
<1> DEFINE D == {j \in DOMAIN f.ops : f.ops[j].type # "f"}
           I == {f.ops[j].index : j \in D}
<1>1. /\ f.num_ops \in Nat /\ f.num_ids \in Nat /\ DOMAIN f.ops = 1 .. f.num_ops
      /\ \A j \in 1 .. f.num_ops : f.ops[j].index \in Nat
  <2>1. f.ops \in Seq(Request) /\ f.num_ops \in Nat /\ Len(f.ops) = f.num_ops
    BY RequestsAre, DriverAssumption DEF Sound, Request
  <2> QED BY <2>1, RequestsAre
<1>2. IsFiniteSet(D)
  <2>1. IsFiniteSet(1 .. f.num_ops)
    BY <1>1, FS_Interval
  <2>2. D \in SUBSET (1 .. f.num_ops)
    BY <1>1
  <2> HIDE DEF D
  <2> QED BY <2>1, <2>2, FS_Subset
<1>3. IsFiniteSet(I)
  <2>1. [j \in D |-> f.ops[j].index] \in Surjection(D, I)
    BY DEF Surjection
  <2> HIDE DEF D, I
  <2> QED BY <1>2, <2>1, FS_Surjection
<1>4. Max({0} \cup I) = f.num_ids - 1
  BY DEF Sound, WellFormed
<1>5. \A y \in {0} \cup I : y <= f.num_ids - 1
  <2>1. {0} \cup I \in SUBSET Int /\ {0} \cup I # {}
    BY <1>1
  <2>2. IsFiniteSet({0} \cup I)
    <3>1. IsFiniteSet({0})
      BY FS_Singleton
    <3> HIDE DEF I
    <3> QED BY <1>3, <3>1, FS_Union
  <2> HIDE DEF I
  <2> QED BY <1>4, <2>1, <2>2, GreatestOf
<1>6. ASSUME NEW j \in 1 .. f.num_ops, f.ops[j].type # "f"
      PROVE  f.ops[j].index \in 0 .. f.num_ids - 1
  <2>1. f.ops[j].index \in I
    BY <1>1, <1>6
  <2>2. f.ops[j].index \in Nat /\ f.ops[j].index <= f.num_ids - 1
    BY <1>1, <1>5, <2>1
  <2> QED BY <1>1, <2>2
<1>7. CASE f.ops[i].type # "f"
  BY <1>6, <1>7
<1>8. CASE f.ops[i].type = "f"
  <2>1. PICK j \in Holders(f, i) : f.ops[j].index = f.ops[i].index
    BY <1>8, HoldersNext
  <2>2. j \in 1 .. f.num_ops /\ f.ops[j].type # "f"
    <3>1. i \in 1 .. f.num_ops + 1
      BY <1>1
    <3> QED BY <3>1, HoldersAre
  <2> QED BY <1>6, <2>1, <2>2
<1> QED BY <1>7, <1>8

(***************************************************************************)
(* Where the payloads lie: of the answers ans, those of the requests that  *)
(* hold a block before the i-th.                                           *)
(***************************************************************************)
Payload(f, ans, j) == ans[j] .. ans[j] + f.ops[j].size - 1
Spans(f, ans, i) == {<<ans[j], ans[j] + f.ops[j].size - 1>> : j \in Holders(f, i)}
Held(f, ans, i) == UNION {Payload(f, ans, j) : j \in Holders(f, i)}

Fit(f, ans, i) ==
    /\ \A j \in Holders(f, i) :
           /\ f.ops[j].size # 0 /\ ans[j] \in Int
           /\ Payload(f, ans, j) \subseteq 0 .. HeapSize - 1
    /\ \A j, k \in Holders(f, i) : j # k => Payload(f, ans, j) \cap Payload(f, ans, k) = {}

\* blocks[] and block_sizes[] hold the addresses and the sizes of these blocks.
Placed(f, ans, i, bl, bs) ==
    \A j \in Holders(f, i) : bl[f.ops[j].index] = ans[j] /\ bs[f.ops[j].index] = f.ops[j].size

\* A request before the i-th is answered by ans2 as by ans.
Continues(f, i, ans, ans2) == \A j \in 1 .. i - 1 : ans2[j] = ans[j]

\* arr with what the i-th request stores in it.
Stored(f, i, arr, v) == IF f.ops[i].type = "f" THEN arr ELSE [arr EXCEPT ![f.ops[i].index] = v]

LEMMA PlacedNext ==
    ASSUME NEW f, Sound(f), NEW i \in 1 .. f.num_ops, NEW ans, NEW ans2, Continues(f, i, ans, ans2),
           NEW bl \in [0 .. f.num_ids - 1 -> Int], NEW bs \in [0 .. f.num_ids - 1 -> Int],
           Placed(f, ans, i, bl, bs)
    PROVE  Placed(f, ans2, i + 1, Stored(f, i, bl, ans2[i]), Stored(f, i, bs, f.ops[i].size))
<1> DEFINE bl2 == Stored(f, i, bl, ans2[i])
           bs2 == Stored(f, i, bs, f.ops[i].size)
<1>1. \A j \in Holders(f, i) : j \in 1 .. i - 1 /\ j \in 1 .. f.num_ops
  BY RequestsAre DEF Holders
<1>2. f.ops[i].index \in 0 .. f.num_ids - 1
      /\ \A j \in Holders(f, i) : f.ops[j].index \in 0 .. f.num_ids - 1
  BY <1>1, IndexInArrays
<1>3. ASSUME NEW j \in Others(f, i)
      PROVE  bl2[f.ops[j].index] = ans2[j] /\ bs2[f.ops[j].index] = f.ops[j].size
  <2>1. j \in Holders(f, i) /\ f.ops[j].index # f.ops[i].index
    BY DEF Others
  <2>2. bl[f.ops[j].index] = ans[j] /\ bs[f.ops[j].index] = f.ops[j].size /\ ans2[j] = ans[j]
    BY <1>1, <2>1 DEF Placed, Continues
  <2>3. bl2[f.ops[j].index] = bl[f.ops[j].index] /\ bs2[f.ops[j].index] = bs[f.ops[j].index]
    BY <1>2, <2>1 DEF Stored
  <2> QED BY <2>2, <2>3
<1>4. ASSUME f.ops[i].type # "f"
      PROVE  bl2[f.ops[i].index] = ans2[i] /\ bs2[f.ops[i].index] = f.ops[i].size
  BY <1>2, <1>4 DEF Stored
<1>5. Holders(f, i + 1) = IF f.ops[i].type = "f" THEN Others(f, i) ELSE Others(f, i) \cup {i}
  BY HoldersNext
<1> HIDE DEF bl2, bs2
<1>6. Placed(f, ans2, i + 1, bl2, bs2)
  BY <1>3, <1>4, <1>5 DEF Placed
<1> QED BY <1>6 DEF bl2, bs2

\* An answer given later moves no block that is held.
LEMMA AnswersStay ==
    ASSUME NEW f, NEW i \in Nat, NEW ans, NEW ans2, Continues(f, i, ans, ans2)
    PROVE  /\ Spans(f, ans2, i) = Spans(f, ans, i) /\ Held(f, ans2, i) = Held(f, ans, i)
           /\ Fit(f, ans2, i) <=> Fit(f, ans, i)
<1>1. \A j \in Holders(f, i) : ans2[j] = ans[j]
  BY DEF Holders, Continues
<1>2. \A j \in Holders(f, i) : Payload(f, ans2, j) = Payload(f, ans, j)
  BY <1>1 DEF Payload
<1> QED BY <1>1, <1>2 DEF Spans, Held, Fit

OtherSpans(f, ans, i) == {<<ans[j], ans[j] + f.ops[j].size - 1>> : j \in Others(f, i)}

\* Two blocks that are held do not begin at one address, so remove_range
\* takes out one range.
LEMMA OneRemoved ==
    ASSUME NEW f, Sound(f), NEW i \in 1 .. f.num_ops, NEW ans, Fit(f, ans, i),
           NEW k \in Holders(f, i), f.ops[k].index = f.ops[i].index
    PROVE  /\ remove_range(Spans(f, ans, i), ans[k]) = OtherSpans(f, ans, i)
           /\ Others(f, i) = Holders(f, i) \ {k}
<1>1. Others(f, i) = Holders(f, i) \ {k}
  <2>1. \A j \in Holders(f, i) : f.ops[j].index = f.ops[k].index => j = k
    BY OneHolder
  <2> QED BY <2>1 DEF Others
<1>2. ASSUME NEW j \in Holders(f, i), j # k
      PROVE  ans[j] # ans[k]
  <2>1. i \in 1 .. f.num_ops + 1
    BY RequestsAre
  <2>2. /\ ans[j] \in Int /\ ans[k] \in Int
        /\ f.ops[j].size \in Nat \ {0} /\ f.ops[k].size \in Nat \ {0}
    BY <2>1, HoldersAre DEF Fit
  <2>3. ans[j] \in Payload(f, ans, j) /\ ans[k] \in Payload(f, ans, k)
    BY <2>2 DEF Payload
  <2>4. Payload(f, ans, j) \cap Payload(f, ans, k) = {}
    BY <1>2 DEF Fit
  <2> QED BY <2>3, <2>4
<1> QED BY <1>1, <1>2 DEF remove_range, Spans, OtherSpans

\* What one request changes, when its answer is right.
RightAnswer(f, i, ans, ans2) ==
    f.ops[i].type # "f" => /\ ans2[i] \in Int /\ f.ops[i].size # 0
                           /\ Truly(OtherSpans(f, ans, i), ans2[i], f.ops[i].size)
NextSpans(f, i, ans, ans2) ==
    IF f.ops[i].type = "f" THEN OtherSpans(f, ans, i)
    ELSE OtherSpans(f, ans, i) \cup {<<ans2[i], ans2[i] + f.ops[i].size - 1>>}

LEMMA FitNext ==
    ASSUME NEW f, Sound(f), NEW i \in 1 .. f.num_ops, NEW ans, Fit(f, ans, i),
           NEW ans2, Continues(f, i, ans, ans2), RightAnswer(f, i, ans, ans2)
    PROVE  Fit(f, ans2, i + 1) /\ Spans(f, ans2, i + 1) = NextSpans(f, i, ans, ans2)
<1> USE DEF RightAnswer
<1> DEFINE rest == OtherSpans(f, ans, i)
<1>1. Holders(f, i + 1) = IF f.ops[i].type = "f" THEN Others(f, i) ELSE Others(f, i) \cup {i}
  BY HoldersNext
<1>2. \A j \in Others(f, i) : /\ j \in Holders(f, i) /\ ans2[j] = ans[j]
                              /\ Payload(f, ans2, j) = Payload(f, ans, j)
  BY DEF Others, Holders, Payload, Continues
<1>3. ASSUME f.ops[i].type # "f"
      PROVE  /\ Payload(f, ans2, i) \subseteq 0 .. HeapSize - 1
             /\ \A j \in Others(f, i) : Payload(f, ans2, j) \cap Payload(f, ans2, i) = {}
  <2>1. PICK p \in Int, n \in Nat : p = ans2[i] /\ n = f.ops[i].size
    BY <1>3, RequestsAre
  <2>2. Payload(f, ans2, i) = p .. p + n - 1 /\ Truly(rest, p, n)
    BY <1>3, <2>1 DEF Payload
  <2>3. p .. p + n - 1 \subseteq 0 .. HeapSize - 1
    BY <2>2, DriverAssumption DEF Truly, InHeap
  <2>4. ASSUME NEW j \in Others(f, i)
        PROVE  Payload(f, ans2, j) \cap Payload(f, ans2, i) = {}
    <3>1. <<ans[j], ans[j] + f.ops[j].size - 1>> \in rest
      BY DEF OtherSpans
    <3>2. (p .. p + n - 1) \cap (ans[j] .. ans[j] + f.ops[j].size - 1) = {}
      BY <2>2, <3>1 DEF Truly
    <3>3. Payload(f, ans2, j) = ans[j] .. ans[j] + f.ops[j].size - 1
      BY <1>2 DEF Payload
    <3> QED BY <2>2, <3>2, <3>3
  <2> QED BY <2>2, <2>3, <2>4
<1>4. ASSUME NEW j \in Holders(f, i + 1)
      PROVE  /\ f.ops[j].size # 0 /\ ans2[j] \in Int
             /\ Payload(f, ans2, j) \subseteq 0 .. HeapSize - 1
  <2>1. CASE j \in Others(f, i)
    BY <1>2, <2>1 DEF Fit
  <2>2. CASE j = i /\ f.ops[i].type # "f"
    BY <1>3, <2>2
  <2> QED BY <1>1, <2>1, <2>2
<1>5. ASSUME NEW j \in Holders(f, i + 1), NEW k \in Holders(f, i + 1), j # k
      PROVE  Payload(f, ans2, j) \cap Payload(f, ans2, k) = {}
  <2>1. CASE j \in Others(f, i) /\ k \in Others(f, i)
    BY <1>2, <1>5, <2>1 DEF Fit
  <2>2. CASE j = i /\ f.ops[i].type # "f" /\ k \in Others(f, i)
    BY <1>3, <2>2
  <2>3. CASE k = i /\ f.ops[i].type # "f" /\ j \in Others(f, i)
    BY <1>3, <2>3
  <2> QED BY <1>1, <1>5, <2>1, <2>2, <2>3
<1>6. Spans(f, ans2, i + 1) = NextSpans(f, i, ans, ans2)
  BY <1>1, <1>2 DEF Spans, OtherSpans, NextSpans
<1> QED BY <1>4, <1>5, <1>6 DEF Fit

(***************************************************************************)
(* The sum of eval_mm_util is the number of bytes held.                    *)
(***************************************************************************)
LEMMA PayloadBytes ==
    ASSUME NEW p \in Int, NEW n \in Nat
    PROVE  IsFiniteSet(p .. p + n - 1) /\ Cardinality(p .. p + n - 1) = n
<1>1. /\ p + n - 1 \in Int /\ (p > p + n - 1 => n = 0)
      /\ (p + n - 1) - p + 1 = n
  OBVIOUS
<1>2. IsFiniteSet(p .. p + n - 1)
      /\ Cardinality(p .. p + n - 1) = IF p > p + n - 1 THEN 0 ELSE (p + n - 1) - p + 1
  BY <1>1, FS_Interval
<1> QED BY <1>1, <1>2

LEMMA JoinedBytes ==
    ASSUME NEW S, IsFiniteSet(S), NEW T, IsFiniteSet(T), S \cap T = {}
    PROVE  Cardinality(S \cup T) = Cardinality(S) + Cardinality(T)
<1>1. Cardinality(S \cup T) = Cardinality(S) + Cardinality(T) - Cardinality(S \cap T)
  BY FS_Union
<1>2. Cardinality(S \cap T) = 0 /\ Cardinality(S) \in Nat /\ Cardinality(T) \in Nat
  BY FS_EmptySet, FS_CardinalityType
<1> QED BY <1>1, <1>2

LEMMA HeldInHeap ==
    ASSUME NEW f, NEW ans, NEW i, Fit(f, ans, i)
    PROVE  /\ IsFiniteSet(Held(f, ans, i)) /\ Cardinality(Held(f, ans, i)) \in Nat
           /\ Cardinality(Held(f, ans, i)) <= HeapSize
<1>1. Held(f, ans, i) \in SUBSET (0 .. HeapSize - 1)
  BY DEF Held, Fit
<1>2. HeapSize \in Nat /\ HeapSize - 1 = 0 + HeapSize - 1
  BY DriverAssumption
<1>3. IsFiniteSet(0 .. HeapSize - 1) /\ Cardinality(0 .. HeapSize - 1) = HeapSize
  BY <1>2, PayloadBytes
<1>4. IsFiniteSet(Held(f, ans, i)) /\ Cardinality(Held(f, ans, i)) <= HeapSize
  BY <1>1, <1>3, FS_Subset
<1> QED BY <1>4, FS_CardinalityType

\* The operation that mdriver adds to total_size: op's size, less the size
\* that bs holds for its identifier.
Changed(op, bs) ==
    CASE op.type = "a" -> op.size
      [] op.type = "r" -> op.size - bs[op.index]
      [] op.type = "f" -> -bs[op.index]

LEMMA HeldNext ==
    ASSUME NEW f, Sound(f), NEW i \in 1 .. f.num_ops, NEW ans, Fit(f, ans, i), Fit(f, ans, i + 1),
           NEW bl, NEW bs, Placed(f, ans, i, bl, bs)
    PROVE  Cardinality(Held(f, ans, i + 1)) = Cardinality(Held(f, ans, i)) + Changed(f.ops[i], bs)
<1> DEFINE Rest == UNION {Payload(f, ans, j) : j \in Others(f, i)}
           H == Holders(f, i)
<1>1. /\ f.num_ops \in Nat /\ i \in 1 .. f.num_ops + 1 /\ i + 1 \in 1 .. f.num_ops + 1
      /\ f.ops[i].size \in Nat /\ f.ops[i].type \in {"a", "r", "f"}
  BY RequestsAre DEF Request
<1>2. Holders(f, i + 1) = IF f.ops[i].type = "f" THEN Others(f, i) ELSE Others(f, i) \cup {i}
  BY HoldersNext
<1>3. Others(f, i) \subseteq H /\ i \notin Others(f, i)
  BY DEF Others
<1>4. IsFiniteSet(Rest) /\ Cardinality(Rest) \in Nat
  <2>1. Rest \in SUBSET Held(f, ans, i)
    BY <1>3 DEF Held
  <2>2. IsFiniteSet(Rest)
    <3> HIDE DEF Rest
    <3> QED BY <2>1, HeldInHeap, FS_Subset
  <2> QED BY <2>2, FS_CardinalityType
<1>5. ASSUME f.ops[i].type # "f"
      PROVE  Cardinality(Held(f, ans, i + 1)) = Cardinality(Rest) + f.ops[i].size
  <2>1. Held(f, ans, i + 1) = Rest \cup Payload(f, ans, i)
    BY <1>2, <1>5 DEF Held
  <2>2. Rest \cap Payload(f, ans, i) = {}
    <3>1. i \in Holders(f, i + 1) /\ \A j \in Others(f, i) : j \in Holders(f, i + 1) /\ j # i
      BY <1>2, <1>3, <1>5
    <3> QED BY <3>1 DEF Fit
  <2>3. ans[i] \in Int
    BY <1>2, <1>5 DEF Fit
  <2>4. IsFiniteSet(Payload(f, ans, i)) /\ Cardinality(Payload(f, ans, i)) = f.ops[i].size
    BY <1>1, <2>3, PayloadBytes DEF Payload
  <2> HIDE DEF Rest
  <2> QED BY <1>4, <2>1, <2>2, <2>4, JoinedBytes
<1>6. ASSUME f.ops[i].type = "f"
      PROVE  Cardinality(Held(f, ans, i + 1)) = Cardinality(Rest)
  BY <1>2, <1>6 DEF Held
<1>7. ASSUME f.ops[i].type # "a"
      PROVE  /\ Cardinality(Held(f, ans, i)) = Cardinality(Rest) + bs[f.ops[i].index]
             /\ bs[f.ops[i].index] \in Nat
  <2>1. PICK k \in H : f.ops[k].index = f.ops[i].index
    BY <1>7, HoldersNext
  <2>2. Others(f, i) = H \ {k}
    BY <2>1, OneRemoved
  <2>3. Held(f, ans, i) = Rest \cup Payload(f, ans, k)
    BY <2>2 DEF Held
  <2>4. Rest \cap Payload(f, ans, k) = {}
    BY <2>2 DEF Fit
  <2>5. ans[k] \in Int /\ f.ops[k].size \in Nat /\ bs[f.ops[i].index] = f.ops[k].size
    <3>1. f.ops[k].size \in Nat
      BY <1>1, HoldersAre
    <3> QED BY <2>1, <3>1 DEF Fit, Placed
  <2>6. IsFiniteSet(Payload(f, ans, k)) /\ Cardinality(Payload(f, ans, k)) = f.ops[k].size
    BY <2>5, PayloadBytes DEF Payload
  <2> HIDE DEF Rest
  <2> QED BY <1>4, <2>3, <2>4, <2>5, <2>6, JoinedBytes
<1>8. CASE f.ops[i].type = "a"
  <2>1. Others(f, i) = H
    BY <1>8, HoldersNext
  <2>2. Held(f, ans, i) = Rest
    BY <2>1 DEF Held
  <2> HIDE DEF Rest
  <2> QED BY <1>1, <1>4, <1>5, <1>8, <2>2 DEF Changed
<1>9. CASE f.ops[i].type = "r"
  <2> HIDE DEF Rest
  <2> QED BY <1>1, <1>4, <1>5, <1>7, <1>9 DEF Changed
<1>10. CASE f.ops[i].type = "f"
  <2> HIDE DEF Rest
  <2> QED BY <1>4, <1>6, <1>7, <1>10 DEF Changed
<1> QED BY <1>1, <1>8, <1>9, <1>10

(***************************************************************************)
(* The test of add_range: of the ranges that lie in the heap, the one it   *)
(* takes meets only those that it strictly contains.                       *)
(***************************************************************************)
RangesSound(rs) ==
    /\ rs \in SUBSET (Int \X Int)
    /\ \A r \in rs : Aligned(r[1]) /\ r[1] <= r[2] /\ Bytes(r) \subseteq 0 .. HeapSize - 1

\* Of two that overlap, the one put in later contains the other.
Ordered(rs, st) ==
    \A r, q \in rs : q # r /\ st[r[1]] <= st[q[1]] /\ Bytes(q) \cap Bytes(r) # {} =>
                        q[1] < r[1] /\ r[2] < q[2]
Before(rs, st, n) == \A r \in rs : st[r[1]] < n
Orders == [0 .. HeapSize - 1 -> Nat]

LEMMA FewerRanges ==
    ASSUME NEW rs, RangesSound(rs), NEW qs \in SUBSET rs
    PROVE  RangesSound(qs)
BY DEF RangesSound

LEMMA FewerOrdered ==
    ASSUME NEW rs, NEW st, NEW n, Ordered(rs, st), Before(rs, st, n), NEW qs \in SUBSET rs
    PROVE  Ordered(qs, st) /\ Before(qs, st, n)
BY DEF Ordered, Before

LEMMA TakenInHeap ==
    ASSUME NEW rs, NEW p \in Int, NEW n \in Nat, add_range(rs, p, n) = "none"
    PROVE  /\ n # 0 /\ Aligned(p) /\ InHeap(p, n) /\ \A r \in rs : ~ Overlap(p, p + n - 1, r)
           /\ p <= p + n - 1 /\ p .. p + n - 1 \subseteq 0 .. HeapSize - 1
<1>1. n # 0 /\ Aligned(p) /\ InHeap(p, n) /\ \A r \in rs : ~ Overlap(p, p + n - 1, r)
  BY DEF add_range
<1>2. p \in 0 .. HeapSize - 1 /\ p + n - 1 \in 0 .. HeapSize - 1 /\ HeapSize \in Nat
  BY <1>1, DriverAssumption DEF InHeap
<1> QED BY <1>1, <1>2

LEMMA OneMoreRange ==
    ASSUME NEW rs, RangesSound(rs), NEW p \in Int, NEW n \in Nat, add_range(rs, p, n) = "none"
    PROVE  /\ RangesSound(rs \cup {<<p, p + n - 1>>})
           /\ \A q \in rs : q[1] # p
           /\ \A q \in rs : Bytes(q) \cap Bytes(<<p, p + n - 1>>) # {} =>
                               p < q[1] /\ q[2] < p + n - 1
<1>1. PICK hi \in Int : hi = p + n - 1
  OBVIOUS
<1>2. /\ Aligned(p) /\ \A r \in rs : ~ Overlap(p, hi, r)
      /\ p <= hi /\ p .. hi \subseteq 0 .. HeapSize - 1
  BY <1>1, TakenInHeap
<1> DEFINE new == <<p, hi>>
<1>3. \A r \in rs : r \in Int \X Int /\ r[1] \in Int /\ r[2] \in Int /\ r = <<r[1], r[2]>> /\ r[1] <= r[2]
  BY DEF RangesSound
<1>4. ASSUME NEW q \in rs
      PROVE  q[1] # p /\ (Bytes(q) \cap Bytes(new) # {} => p < q[1] /\ q[2] < hi)
  <2>1. p \notin q[1] .. q[2] /\ hi \notin q[1] .. q[2]
    BY <1>2 DEF Overlap
  <2>2. q[1] \in Int /\ q[2] \in Int /\ q[1] <= q[2]
    BY <1>3
  <2>3. ASSUME Bytes(q) \cap Bytes(new) # {}
        PROVE  p < q[1] /\ q[2] < hi
    <3>1. PICK a : a \in q[1] .. q[2] /\ a \in p .. hi
      BY <2>3 DEF Bytes
    <3> QED BY <2>1, <2>2, <3>1
  <2> QED BY <2>1, <2>2, <2>3
<1>5. Aligned(new[1]) /\ new[1] <= new[2] /\ Bytes(new) \subseteq 0 .. HeapSize - 1 /\ new \in Int \X Int
  BY <1>2 DEF Bytes
<1>6. RangesSound(rs \cup {new})
  <2> HIDE DEF new
  <2> QED BY <1>5 DEF RangesSound
<1> QED BY <1>1, <1>4, <1>6

LEMMA LowEndInHeap ==
    ASSUME NEW rs, RangesSound(rs), NEW q \in rs
    PROVE  q[1] \in 0 .. HeapSize - 1
<1>1. q[1] \in Int /\ q[2] \in Int /\ q[1] <= q[2] /\ q[1] .. q[2] \subseteq 0 .. HeapSize - 1
  BY DEF RangesSound, Bytes
<1> QED BY <1>1

\* The new range is the last in order, and contains what it overlaps.
LEMMA LastInOrder ==
    ASSUME NEW rs, RangesSound(rs), NEW p \in Int, NEW n \in Nat, add_range(rs, p, n) = "none",
           NEW st \in Orders, NEW k \in Nat, Ordered(rs, st), Before(rs, st, k)
    PROVE  /\ [st EXCEPT ![p] = k] \in Orders
           /\ Ordered(rs \cup {<<p, p + n - 1>>}, [st EXCEPT ![p] = k])
           /\ Before(rs \cup {<<p, p + n - 1>>}, [st EXCEPT ![p] = k], k + 1)
<1> DEFINE new == <<p, p + n - 1>>
           next == [st EXCEPT ![p] = k]
<1>1. p \in 0 .. HeapSize - 1
  BY TakenInHeap DEF InHeap, add_range
<1>2. next \in Orders /\ next[p] = k /\ new[1] = p
  BY <1>1 DEF Orders
<1>3. ASSUME NEW q \in rs
      PROVE  /\ next[q[1]] = st[q[1]] /\ st[q[1]] \in Nat /\ st[q[1]] < k
             /\ Bytes(q) \cap Bytes(new) # {} => new[1] < q[1] /\ q[2] < new[2]
  <2>1. q[1] # p /\ (Bytes(q) \cap Bytes(new) # {} => p < q[1] /\ q[2] < p + n - 1)
    BY OneMoreRange
  <2>2. q[1] \in 0 .. HeapSize - 1
    BY LowEndInHeap
  <2> QED BY <2>1, <2>2 DEF Orders, Before
<1> HIDE DEF next, new
<1>4. Ordered(rs \cup {new}, next)
  <2> SUFFICES ASSUME NEW r \in rs \cup {new}, NEW q \in rs \cup {new}, q # r, next[r[1]] <= next[q[1]],
                      Bytes(q) \cap Bytes(r) # {}
               PROVE  q[1] < r[1] /\ r[2] < q[2]
    BY DEF Ordered
  <2>1. CASE r \in rs /\ q \in rs
    BY <1>3, <2>1 DEF Ordered
  <2>2. CASE r \in rs /\ q = new
    BY <1>3, <2>2
  <2>3. CASE r = new /\ q \in rs
    BY <1>2, <1>3, <2>3
  <2> QED BY <2>1, <2>2, <2>3
<1>5. Before(rs \cup {new}, next, k + 1)
  BY <1>2, <1>3 DEF Before
<1> QED BY <1>2, <1>4, <1>5 DEF next, new

(***************************************************************************)
(* The inductive invariant.                                                *)
(***************************************************************************)
DriverType ==
    /\ RangesSound(ranges) /\ answers \in Seq(Int) /\ errors \in Nat /\ valid \in Seq(BOOLEAN)
    /\ total_size \in Int /\ max_total_size \in Int

\* The list is in the order of the requests.
InOrder ==
    /\ since \in Orders /\ Ordered(ranges, since)
    /\ pass = "valid" => Before(ranges, since, opnum)

\* In a trace nothing has been said of it yet, and its arrays have their
\* lengths.
Reading ==
    pass \in {"libc_valid", "libc_speed", "reset", "valid", "util", "speed"} =>
        /\ Sound(trace) /\ why = "none"
        /\ opnum \in 1 .. trace.num_ops + 1 /\ (pass = "reset" => opnum = 1)
        /\ blocks \in [0 .. trace.num_ids - 1 -> Int] /\ block_sizes \in [0 .. trace.num_ids - 1 -> Int]

\* The arrays say where the blocks in use are, in both passes.
Tracked ==
    pass \in {"valid", "util"} => Placed(trace, answers, opnum, blocks, block_sizes)

\* What an allocator that is right has out is what the range list holds, and
\* it fitted the heap at every request.
RightSoFar ==
    /\ pass = "valid" => Len(answers) = opnum - 1
    /\ pass = "valid" /\ honest =>
           /\ ranges = granted /\ granted = Spans(trace, answers, opnum)
           /\ \A i \in 1 .. opnum : Fit(trace, answers, i)
    /\ pass \in {"util", "speed"} => Len(answers) = trace.num_ops
    /\ pass \in {"util", "speed"} /\ honest =>
           \A i \in 1 .. trace.num_ops + 1 : Fit(trace, answers, i)

\* The sums are numbers of bytes of the heap.
Counted ==
    /\ pass = "util" /\ honest => total_size = Cardinality(Held(trace, answers, opnum))
    /\ pass \in {"util", "speed"} /\ honest => max_total_size \in 0 .. HeapSize

Excused(reason, op) == reason = "null" \/ (reason = "data" /\ Signed(Fill(op.index)) < 0)

Blamed == honest /\ pass = "free" /\ why # "none" => Excused(why, Op)

Verdicts ==
    /\ errors = 0 => \A i \in DOMAIN valid : valid[i]
    /\ reported => errors = 0 /\ pass = "summary"

DriverIInv == DriverType /\ InOrder /\ Reading /\ Tracked /\ RightSoFar /\ Counted /\ Blamed /\ Verdicts

LEMMA NoneHeldYet ==
    ASSUME NEW f, NEW ans, NEW bl, NEW bs
    PROVE  /\ Placed(f, ans, 1, bl, bs) /\ Spans(f, ans, 1) = {} /\ Fit(f, ans, 1)
           /\ Cardinality(Held(f, ans, 1)) = 0
<1>1. Holders(f, 1) = {}
  BY DEF Holders
<1>2. Held(f, ans, 1) = {}
  BY <1>1 DEF Held
<1> QED BY <1>1, <1>2, FS_EmptySet DEF Placed, Spans, Fit

LEMMA DriverStarts == DriverInit => DriverIInv
<1> SUFFICES ASSUME DriverInit PROVE DriverIInv
  OBVIOUS
<1>1. DriverType /\ Reading /\ Tracked /\ RightSoFar /\ Counted /\ Blamed /\ Verdicts
  BY DEF DriverInit, DriverType, RangesSound, Reading, Tracked, RightSoFar, Counted, Blamed, Verdicts
<1>2. InOrder
  BY DEF DriverInit, InOrder, NeverIn, Orders, Ordered
<1> QED BY <1>1, <1>2 DEF DriverIInv

\* The passes that leave the list alone.
LEMMA OrderStays ==
    ASSUME DriverIInv, pass' # "valid", UNCHANGED <<ranges, since>>
    PROVE  InOrder'
<1>1. since \in Orders /\ Ordered(ranges, since)
  BY DEF DriverIInv, InOrder
<1>2. Ordered(ranges, since)'
  BY <1>1 DEF Ordered
<1> QED BY <1>1, <1>2 DEF InOrder

\* A verdict appended to those of the traces before.
LEMMA OneMoreVerdict ==
    ASSUME DriverType, Verdicts, pass # "summary", NEW ok \in BOOLEAN, valid' = Append(valid, ok),
           errors' \in Nat, ok => errors' = errors, ~ ok => errors' # 0, UNCHANGED reported
    PROVE  valid' \in Seq(BOOLEAN) /\ Verdicts'
<1>1. /\ valid' \in Seq(BOOLEAN) /\ DOMAIN valid' = 1 .. Len(valid) + 1
      /\ valid'[Len(valid) + 1] = ok /\ \A i \in 1 .. Len(valid) : valid'[i] = valid[i]
      /\ DOMAIN valid = 1 .. Len(valid) /\ Len(valid) \in Nat
  BY DEF DriverType
<1>2. errors' = 0 => \A i \in DOMAIN valid' : valid'[i]
  <2>1. ASSUME errors' = 0, NEW i \in DOMAIN valid'
        PROVE  valid'[i]
    <3>1. ok /\ errors = 0
      BY <2>1
    <3>2. i = Len(valid) + 1 \/ i \in DOMAIN valid
      BY <1>1
    <3> QED BY <1>1, <3>1, <3>2 DEF Verdicts
  <2> QED BY <2>1
<1> QED BY <1>1, <1>2 DEF Verdicts

(***************************************************************************)
(* The steps between the passes.                                           *)
(***************************************************************************)
LEMMA OptionsKeeps ==
    ASSUME DriverIInv, Options
    PROVE  DriverIInv'
<1> USE DEF DriverIInv, Options, heapVars, sumVars, totals
<1>1. DriverType' /\ InOrder'
  BY OrderStays DEF DriverType
<1>2. Reading' /\ Tracked' /\ RightSoFar' /\ Counted' /\ Blamed' /\ Verdicts'
  BY DEF Reading, Tracked, RightSoFar, Counted, Blamed, Verdicts
<1> QED BY <1>1, <1>2

LEMMA ReadTraceKeeps ==
    ASSUME DriverIInv, ReadTrace
    PROVE  DriverIInv'
<1> USE DEF DriverIInv, ReadTrace, heapVars, sumVars, totals
<1>1. DriverType' /\ InOrder'
  BY OrderStays DEF DriverType
<1>2. pass' \in {"abort", "libc_valid", "reset"} /\ (pass' # "abort" => Sound(trace'))
  BY DEF Sound
<1>3. Reading'
  <2>1. trace'.num_ops \in Nat /\ trace'.num_ids \in Nat
    BY DriverAssumption
  <2>2. 1 \in 1 .. trace'.num_ops + 1
    BY <2>1
  <2> QED BY <1>2, <2>1, <2>2 DEF Reading
<1>4. Tracked' /\ RightSoFar' /\ Counted' /\ Blamed' /\ Verdicts'
  BY <1>2 DEF Tracked, RightSoFar, Counted, Blamed, Verdicts
<1> QED BY <1>1, <1>3, <1>4

LEMMA LibcOpKeeps ==
    ASSUME DriverIInv, LibcOp
    PROVE  DriverIInv'
<1> USE DEF DriverIInv, LibcOp, heapVars, sumVars, totals
<1>1. DriverType' /\ InOrder'
  BY OrderStays DEF DriverType
<1>2. pass' \in {"libc_valid", "libc_speed", "exit"}
  OBVIOUS
<1>3. Reading'
  <2>1. CASE pass' = "exit"
    BY <2>1 DEF Reading
  <2>2. CASE pass' # "exit"
    <3>1. Sound(trace) /\ opnum \in 1 .. trace.num_ops + 1 /\ opnum <= trace.num_ops
      BY DEF Reading
    <3>2. opnum + 1 \in 1 .. trace.num_ops + 1
      BY <3>1, RequestsAre
    <3>3. blocks' \in [0 .. trace.num_ids - 1 -> Int]
      <4>1. blocks \in [0 .. trace.num_ids - 1 -> Int] /\ -2 \in Int
        BY DEF Reading
      <4>2. blocks' = blocks \/ blocks' = [blocks EXCEPT ![Op.index] = -2]
        BY <2>2
      <4> QED BY <4>1, <4>2
    <3> QED BY <1>2, <2>2, <3>2, <3>3 DEF Reading
  <2> QED BY <2>1, <2>2
<1>4. Tracked' /\ RightSoFar' /\ Counted' /\ Blamed' /\ Verdicts'
  BY <1>2 DEF Tracked, RightSoFar, Counted, Blamed, Verdicts
<1> QED BY <1>1, <1>3, <1>4

LEMMA LibcEndKeeps ==
    ASSUME DriverIInv, LibcEnd
    PROVE  DriverIInv'
<1> USE DEF DriverIInv, LibcEnd, heapVars, sumVars, totals
<1>1. DriverType' /\ InOrder'
  BY OrderStays DEF DriverType
<1>2. pass' \in {"libc_speed", "free"} /\ why' = "none" /\ Sound(trace)
  BY DEF Reading
<1>3. Reading'
  <2>1. 1 \in 1 .. trace.num_ops + 1
    BY <1>2, RequestsAre
  <2> QED BY <1>2, <2>1 DEF Reading
<1>4. Tracked' /\ RightSoFar' /\ Counted' /\ Blamed' /\ Verdicts'
  BY <1>2 DEF Tracked, RightSoFar, Counted, Blamed, Verdicts
<1> QED BY <1>1, <1>3, <1>4

LEMMA LoopsKeep ==
    ASSUME DriverIInv, FreeTrace \/ LibcResults \/ Summary
    PROVE  DriverIInv'
<1> USE DEF DriverIInv, FreeTrace, LibcResults, Summary, heapVars, sumVars, totals
<1>1. DriverType' /\ InOrder'
  BY OrderStays DEF DriverType
<1>2. pass' \in {"read", "summary"}
  OBVIOUS
<1>3. Reading' /\ Tracked' /\ RightSoFar' /\ Counted' /\ Blamed'
  BY <1>2 DEF Reading, Tracked, RightSoFar, Counted, Blamed
<1>4. Verdicts'
  <2>1. CASE Summary
    BY <2>1 DEF Verdicts
  <2>2. CASE FreeTrace \/ LibcResults
    <3>1. reported' = reported /\ pass # "summary" /\ UNCHANGED <<errors, valid>>
      BY <2>2
    <3> QED BY <3>1 DEF Verdicts
  <2> QED BY <2>1, <2>2
<1> QED BY <1>1, <1>3, <1>4

LEMMA MmInitKeeps ==
    ASSUME DriverIInv, MmInit
    PROVE  DriverIInv'
<1> USE DEF DriverIInv, MmInit, heapVars, sumVars, totals
<1>1. RangesSound(ranges') /\ InOrder' /\ answers' \in Seq(Int) /\ Len(answers') = 0
  BY DEF RangesSound, InOrder, NeverIn, Orders, Ordered, Before
<1>2. opnum = 1 /\ Sound(trace) /\ why = "none"
  BY DEF Reading
<1>3. CASE pass' = "valid"
  <2>1. UNCHANGED <<why, errors, valid>>
    BY <1>3
  <2>2. DriverType' /\ Verdicts'
    BY <1>1, <2>1 DEF DriverType, Verdicts
  <2>3. Reading'
    BY <1>2, <1>3, <2>1 DEF Reading
  <2>4. Tracked' /\ RightSoFar'
    <3>1. \A i \in 1 .. 1 : i = 1
      OBVIOUS
    <3> QED BY <1>1, <1>2, <1>3, <3>1, NoneHeldYet DEF Tracked, RightSoFar
  <2>5. Counted' /\ Blamed'
    BY <1>3 DEF Counted, Blamed
  <2> QED BY <1>1, <2>2, <2>3, <2>4, <2>5
<1>4. CASE pass' = "free"
  <2>1. why' = "null" /\ errors' = errors + 1 /\ valid' = Append(valid, FALSE)
    BY <1>4
  <2>2. errors' \in Nat /\ errors' # 0
    BY <2>1 DEF DriverType
  <2>3. valid' \in Seq(BOOLEAN) /\ Verdicts'
    BY <2>1, <2>2, OneMoreVerdict
  <2>4. DriverType'
    BY <1>1, <2>2, <2>3 DEF DriverType
  <2>5. Reading' /\ Tracked' /\ RightSoFar' /\ Counted' /\ Blamed'
    BY <1>4, <2>1 DEF Reading, Tracked, RightSoFar, Counted, Blamed, Excused
  <2> QED BY <1>1, <2>3, <2>4, <2>5
<1> QED BY <1>3, <1>4

(***************************************************************************)
(* eval_mm_valid                                                           *)
(***************************************************************************)
\* The request at hand.
LEMMA AtRequest ==
    ASSUME DriverIInv, pass \in {"valid", "util", "speed"}, opnum <= trace.num_ops
    PROVE  /\ Sound(trace) /\ opnum \in 1 .. trace.num_ops /\ opnum \in Nat
           /\ opnum + 1 \in 1 .. trace.num_ops + 1 /\ trace.num_ops \in Nat
           /\ Op = trace.ops[opnum] /\ Op.type \in {"a", "r", "f"} /\ Op.size \in Nat
           /\ Op.index \in 0 .. trace.num_ids - 1 /\ blocks[Op.index] \in Int /\ block_sizes[Op.index] \in Int
<1>1. /\ Sound(trace) /\ opnum \in 1 .. trace.num_ops + 1
      /\ blocks \in [0 .. trace.num_ids - 1 -> Int] /\ block_sizes \in [0 .. trace.num_ids - 1 -> Int]
  BY DEF DriverIInv, Reading
<1>2. trace.num_ops \in Nat
  BY <1>1, RequestsAre
<1>3. opnum \in 1 .. trace.num_ops /\ opnum \in Nat /\ opnum + 1 \in 1 .. trace.num_ops + 1
  BY <1>1, <1>2
<1>4. Op = trace.ops[opnum] /\ Op \in Request
  BY <1>1, <1>3, RequestsAre DEF Op
<1>5. Op.index \in 0 .. trace.num_ids - 1
  BY <1>1, <1>3, <1>4, IndexInArrays
<1> QED BY <1>1, <1>2, <1>3, <1>4, <1>5 DEF Request

\* What is left of the range list when the block of the request is taken out.
LEMMA LeftOver ==
    ASSUME DriverIInv, pass = "valid", opnum <= trace.num_ops, honest, Op.type # "a"
    PROVE  remove_range(ranges, blocks[Op.index]) = OtherSpans(trace, answers, opnum)
<1>1. Sound(trace) /\ opnum \in 1 .. trace.num_ops /\ opnum \in Nat /\ Op = trace.ops[opnum]
  BY AtRequest
<1>2. PICK k \in Holders(trace, opnum) : trace.ops[k].index = Op.index
  BY <1>1, HoldersNext
<1>3. blocks[Op.index] = answers[k]
  BY <1>2 DEF DriverIInv, Tracked, Placed
<1>4. ranges = Spans(trace, answers, opnum) /\ Fit(trace, answers, opnum)
  BY <1>1 DEF DriverIInv, RightSoFar
<1> QED BY <1>1, <1>2, <1>3, <1>4, OneRemoved

\* A request that is answered, and the answer taken: rest is what is in the
\* list beside the new range.
LEMMA AnswerKeeps ==
    ASSUME DriverIInv, pass = "valid", opnum <= trace.num_ops, NEW p \in Int, NEW rest,
           rest = (IF Op.type = "a" THEN ranges ELSE remove_range(ranges, blocks[Op.index])),
           answers' = Append(answers, p),
           ranges' = (IF Op.type = "f" THEN rest ELSE rest \cup {<<p, p + Op.size - 1>>}),
           since' = (IF Op.type = "f" THEN since ELSE [since EXCEPT ![p] = opnum]),
           blocks' = (IF Op.type = "f" THEN blocks ELSE [blocks EXCEPT ![Op.index] = p]),
           block_sizes' = (IF Op.type = "f" THEN block_sizes ELSE [block_sizes EXCEPT ![Op.index] = Op.size]),
           Op.type # "f" => add_range(rest, p, Op.size) = "none",
           opnum' = opnum + 1,
           honest' => honest /\ granted' = ranges' /\ (Op.type # "f" => Truly(rest, p, Op.size)),
           UNCHANGED <<pass, trace, why, sumVars, totals>>
    PROVE  DriverIInv'
<1> USE DEF sumVars, totals
<1>1. /\ Sound(trace) /\ opnum \in 1 .. trace.num_ops /\ opnum \in Nat /\ opnum + 1 \in 1 .. trace.num_ops + 1
      /\ Op = trace.ops[opnum] /\ Op.type \in {"a", "r", "f"} /\ Op.size \in Nat
      /\ Op.index \in 0 .. trace.num_ids - 1
  BY AtRequest
<1>2. /\ answers \in Seq(Int) /\ Len(answers) = opnum - 1 /\ RangesSound(ranges)
      /\ blocks \in [0 .. trace.num_ids - 1 -> Int] /\ block_sizes \in [0 .. trace.num_ids - 1 -> Int]
  BY DEF DriverIInv, DriverType, Reading, RightSoFar
<1>3. /\ answers' \in Seq(Int) /\ Len(answers') = opnum /\ answers'[opnum] = p
      /\ \A j \in 1 .. opnum - 1 : answers'[j] = answers[j]
      /\ Continues(trace, opnum, answers, answers')
  BY <1>1, <1>2 DEF Continues
<1>4. RangesSound(ranges')
  <2>1. rest \in SUBSET ranges
    BY DEF remove_range
  <2>2. RangesSound(rest)
    BY <1>2, <2>1, FewerRanges
  <2> QED BY <1>1, <2>2, OneMoreRange
<1>5. DriverType' /\ Verdicts'
  BY <1>3, <1>4 DEF DriverIInv, DriverType, Verdicts
<1>6. Reading'
  <2>1. blocks' \in [0 .. trace.num_ids - 1 -> Int] /\ block_sizes' \in [0 .. trace.num_ids - 1 -> Int]
    BY <1>1, <1>2
  <2> QED BY <1>1, <2>1 DEF DriverIInv, Reading
<1>7. Tracked'
  <2>1. Placed(trace, answers, opnum, blocks, block_sizes)
    BY DEF DriverIInv, Tracked
  <2>2. /\ blocks' = Stored(trace, opnum, blocks, answers'[opnum])
        /\ block_sizes' = Stored(trace, opnum, block_sizes, trace.ops[opnum].size)
    BY <1>1, <1>3 DEF Stored
  <2>3. PICK ans2 : ans2 = answers'
    OBVIOUS
  <2>4. Placed(trace, ans2, opnum + 1, Stored(trace, opnum, blocks, ans2[opnum]),
               Stored(trace, opnum, block_sizes, trace.ops[opnum].size))
    <3>1. /\ Sound(trace) /\ opnum \in 1 .. trace.num_ops /\ Continues(trace, opnum, answers, ans2)
          /\ blocks \in [0 .. trace.num_ids - 1 -> Int] /\ block_sizes \in [0 .. trace.num_ids - 1 -> Int]
      BY <1>1, <1>2, <1>3, <2>3
    <3> QED BY ONLY <2>1, <3>1, PlacedNext
  <2>5. Placed(trace, answers', opnum + 1, blocks', block_sizes')
    BY <2>2, <2>3, <2>4
  <2> QED BY <2>5 DEF Tracked
<1>8. RightSoFar'
  <2>1. ASSUME honest'
        PROVE  /\ ranges' = granted' /\ granted' = Spans(trace, answers', opnum + 1)
               /\ \A i \in 1 .. opnum + 1 : Fit(trace, answers', i)
    <3>1. honest /\ ranges = Spans(trace, answers, opnum) /\ \A i \in 1 .. opnum : Fit(trace, answers, i)
      BY <2>1 DEF DriverIInv, RightSoFar
    <3>2. rest = OtherSpans(trace, answers, opnum)
      <4>1. CASE Op.type = "a"
        <5>1. Others(trace, opnum) = Holders(trace, opnum)
          BY <1>1, <4>1, HoldersNext
        <5> QED BY <3>1, <4>1, <5>1 DEF Spans, OtherSpans
      <4>2. CASE Op.type # "a"
        BY <3>1, <4>2, LeftOver
      <4> QED BY <4>1, <4>2
    <3>3. Op.type # "f" => answers'[opnum] \in Int /\ Op.size # 0 /\ Truly(rest, answers'[opnum], Op.size)
      BY <1>1, <1>3, <2>1, TakenInHeap
    <3>4. Fit(trace, answers, opnum)
      BY <1>1, <3>1
    <3>5. /\ Fit(trace, answers', opnum + 1)
          /\ Spans(trace, answers', opnum + 1) =
                 IF Op.type = "f" THEN rest
                 ELSE rest \cup {<<answers'[opnum], answers'[opnum] + Op.size - 1>>}
      <4>1. RightAnswer(trace, opnum, answers, answers')
        BY <1>1, <3>2, <3>3 DEF RightAnswer
      <4>2. /\ Fit(trace, answers', opnum + 1)
            /\ Spans(trace, answers', opnum + 1) = NextSpans(trace, opnum, answers, answers')
        BY <1>1, <1>3, <3>4, <4>1, FitNext
      <4> QED BY <1>1, <3>2, <4>2 DEF NextSpans
    <3>6. ASSUME NEW i \in 1 .. opnum
          PROVE  Fit(trace, answers', i)
      <4>1. i \in Nat /\ Continues(trace, i, answers, answers')
        BY <1>1, <1>3 DEF Continues
      <4> QED BY <3>1, <4>1, AnswersStay
    <3>7. \A i \in 1 .. opnum + 1 : i \in 1 .. opnum \/ i = opnum + 1
      BY <1>1
    <3> QED BY <1>3, <2>1, <3>5, <3>6, <3>7
  <2> QED BY <1>1, <1>3, <2>1 DEF RightSoFar
<1>9. Counted' /\ Blamed'
  BY DEF Counted, Blamed
<1>10. InOrder'
  <2>1. since \in Orders /\ Ordered(rest, since) /\ Before(rest, since, opnum)
    <3>1. rest \in SUBSET ranges
      BY DEF remove_range
    <3>2. since \in Orders /\ Ordered(ranges, since) /\ Before(ranges, since, opnum)
      BY DEF DriverIInv, InOrder
    <3> QED BY <3>1, <3>2, FewerOrdered
  <2>2. RangesSound(rest)
    <3>1. rest \in SUBSET ranges
      BY DEF remove_range
    <3> QED BY <1>2, <3>1, FewerRanges
  <2>3. since' \in Orders /\ Ordered(ranges', since') /\ Before(ranges', since', opnum')
    <3>1. CASE Op.type = "f"
      <4>1. \A x \in Nat : x < opnum => x < opnum + 1
        BY <1>1
      <4>2. \A r \in rest : since[r[1]] \in Nat
        <5>1. \A r \in rest : r[1] \in 0 .. HeapSize - 1
          BY <2>2, LowEndInHeap
        <5> QED BY <2>1, <5>1 DEF Orders
      <4> QED BY <2>1, <3>1, <4>1, <4>2 DEF Before
    <3>2. CASE Op.type # "f"
      BY <1>1, <2>1, <2>2, <3>2, LastInOrder
    <3> QED BY <3>1, <3>2
  <2> QED BY <2>3 DEF InOrder
<1> QED BY <1>5, <1>6, <1>7, <1>8, <1>9, <1>10 DEF DriverIInv

LEMMA FailureKeeps ==
    ASSUME DriverIInv, pass = "valid", NEW reason, Failed(reason), RangesSound(ranges'), answers' \in Seq(Int),
           since' \in Orders, Ordered(ranges', since'),
           honest' => reason = "assert" \/ Excused(reason, Op), UNCHANGED <<trace, totals>>
    PROVE  DriverIInv'
<1> USE DEF Failed, totals
<1>1. pass' \in {"abort", "free"} /\ Op' = Op
  BY DEF Op
<1>2. DriverType' /\ Verdicts'
  <2>1. CASE reason = "assert"
    BY <2>1 DEF DriverIInv, DriverType, Verdicts
  <2>2. CASE reason # "assert"
    <3>1. errors' \in Nat /\ errors' # 0
      BY <2>2 DEF DriverIInv, DriverType
    <3>2. valid' \in Seq(BOOLEAN) /\ Verdicts'
      BY <2>2, <3>1, OneMoreVerdict DEF DriverIInv
    <3> QED BY <3>1, <3>2 DEF DriverIInv, DriverType
  <2> QED BY <2>1, <2>2
<1>3. Reading' /\ Tracked' /\ RightSoFar' /\ Counted'
  BY <1>1 DEF Reading, Tracked, RightSoFar, Counted
<1>4. Blamed'
  <2>1. reason = "assert" => pass' = "abort"
    OBVIOUS
  <2> QED BY <1>1, <2>1 DEF Blamed, Excused
<1>5. InOrder'
  BY <1>1 DEF InOrder
<1> QED BY <1>2, <1>3, <1>4, <1>5 DEF DriverIInv

\* What add_range finds wrong is wrong.
LEMMA TrulyTaken ==
    ASSUME NEW rs, RangesSound(rs), NEW p \in Int, NEW n \in Nat, Truly(rs, p, n)
    PROVE  add_range(rs, p, n) \in {"none", "assert"}
<1>1. Aligned(p) /\ InHeap(p, n) /\ \A r \in rs : (p .. p + n - 1) \cap (r[1] .. r[2]) = {}
  BY DEF Truly
<1>2. ASSUME n # 0, NEW r \in rs
      PROVE  ~ Overlap(p, p + n - 1, r)
  <2>1. p \in p .. p + n - 1 /\ p + n - 1 \in p .. p + n - 1
    BY <1>2
  <2>2. (p .. p + n - 1) \cap (r[1] .. r[2]) = {}
    BY <1>1
  <2> QED BY <2>1, <2>2 DEF Overlap
<1> QED BY <1>1, <1>2 DEF add_range

LEMMA ValidAllocKeeps ==
    ASSUME DriverIInv, ValidAlloc
    PROVE  DriverIInv'
<1> USE DEF ValidAlloc, AtOp
<1>1. /\ pass = "valid" /\ opnum <= trace.num_ops /\ Op.type = "a" /\ Op.size \in Nat
      /\ RangesSound(ranges) /\ answers \in Seq(Int)
  BY AtRequest DEF DriverIInv, DriverType
<1>2. PICK p \in Pointers :
          /\ answers' = Append(answers, p)
          /\ honest' = (honest /\ (p = -1 \/ Truly(granted, p, Op.size)))
          /\ LET said == IF p = -1 THEN "null" ELSE add_range(ranges, p, Op.size)
             IN  IF said = "none"
                 THEN Accepted(ranges, p) /\ bytes' = FillBytes(bytes, p, Op.size, Op.index)
                 ELSE Failed(said) /\ UNCHANGED <<ranges, since, bytes>>
  OBVIOUS
<1>3. p \in Int /\ answers' \in Seq(Int) /\ UNCHANGED <<trace, totals>>
  BY <1>1, <1>2, DriverAssumption DEF Pointers
<1>4. honest => ranges = granted
  BY <1>1 DEF DriverIInv, RightSoFar
<1>5. PICK said : said = IF p = -1 THEN "null" ELSE add_range(ranges, p, Op.size)
  OBVIOUS
<1>6. CASE said = "none"
  <2>1. p # -1 /\ add_range(ranges, p, Op.size) = "none" /\ Accepted(ranges, p)
    BY <1>2, <1>5, <1>6
  <2>2. /\ ranges' = ranges \cup {<<p, p + Op.size - 1>>} /\ since' = [since EXCEPT ![p] = opnum]
        /\ granted' = granted \cup {<<p, p + Op.size - 1>>}
        /\ blocks' = [blocks EXCEPT ![Op.index] = p] /\ block_sizes' = [block_sizes EXCEPT ![Op.index] = Op.size]
        /\ opnum' = opnum + 1 /\ UNCHANGED <<pass, why, sumVars>>
    BY <1>1, <2>1 DEF Accepted, PutFirst
  <2>3. honest' => honest /\ granted' = ranges' /\ Truly(ranges, p, Op.size)
    BY <1>2, <1>4, <2>1, <2>2
  <2> QED BY <1>1, <1>2, <1>3, <2>1, <2>2, <2>3, AnswerKeeps DEF totals
<1>7. CASE said # "none"
  <2>1. Failed(said) /\ ranges' = ranges /\ since' = since
    BY <1>2, <1>5, <1>7
  <2>2. honest' => said = "assert" \/ Excused(said, Op)
    <3>1. ASSUME honest', p # -1 PROVE said = "assert"
      <4>1. Truly(ranges, p, Op.size)
        BY <1>2, <1>4, <3>1
      <4> QED BY <1>1, <1>3, <1>5, <1>7, <3>1, <4>1, TrulyTaken
    <3> QED BY <1>5, <3>1 DEF Excused
  <2>3. since' \in Orders /\ Ordered(ranges', since')
    BY <2>1 DEF DriverIInv, InOrder
  <2> QED BY <1>1, <1>3, <2>1, <2>2, <2>3, FailureKeeps
<1> QED BY <1>6, <1>7

LEMMA ValidFreeKeeps ==
    ASSUME DriverIInv, ValidFree
    PROVE  DriverIInv'
<1> USE DEF ValidFree, AtOp
<1>1. /\ pass = "valid" /\ opnum <= trace.num_ops /\ Op.type = "f"
      /\ UNCHANGED <<trace, pass, since, blocks, block_sizes, honest, why, sumVars, totals>>
  OBVIOUS
<1>2. honest => ranges = granted
  BY <1>1 DEF DriverIInv, RightSoFar
<1>3. honest' => honest /\ granted' = ranges'
  BY <1>1, <1>2
<1> QED BY <1>1, <1>3, AnswerKeeps

\* A byte that memset wrote and that is read back is what was written, or
\* what was written is negative as a signed char.
LEMMA ReadBack ==
    ASSUME NEW index \in Nat, Signed(Fill(index)) # Fill(index)
    PROVE  Signed(Fill(index)) < 0
<1>1. FillBase \in Nat /\ FillBase > 0
  BY DriverAssumption
<1>2. Fill(index) \in 0 .. FillBase - 1
  BY <1>1, Z3 DEF Fill
<1>3. PICK byte \in 0 .. FillBase - 1 : byte = Fill(index)
  BY <1>2
<1> QED BY <1>1, <1>3 DEF Signed

LEMMA ValidReallocKeeps ==
    ASSUME DriverIInv, ValidRealloc
    PROVE  DriverIInv'
<1> USE DEF ValidRealloc, AtOp
<1>1. /\ pass = "valid" /\ opnum <= trace.num_ops /\ Op.type = "r" /\ Op.size \in Nat
      /\ Op.index \in 0 .. trace.num_ids - 1 /\ RangesSound(ranges) /\ answers \in Seq(Int)
  BY AtRequest DEF DriverIInv, DriverType
<1> DEFINE Common == Min({block_sizes[Op.index], Op.size})
           HeldBytes(keeps) == {IF keeps THEN bytes[blocks[Op.index] + j] ELSE -1 : j \in 0 .. Common - 1}
<1>2. PICK rest : rest = remove_range(ranges, blocks[Op.index])
  OBVIOUS
<1>3. PICK p \in Pointers, keeps \in BOOLEAN :
          /\ answers' = Append(answers, p)
          /\ honest' = (honest /\ (p = -1 \/ /\ Truly(remove_range(granted, blocks[Op.index]), p, Op.size)
                                             /\ HeldBytes(keeps) \subseteq {Fill(Op.index)}))
          /\ IF (IF p = -1 THEN "null" ELSE add_range(rest, p, Op.size)) = "none"
                /\ \A byte \in HeldBytes(keeps) : Signed(byte) = Fill(Op.index)
             THEN Accepted(rest, p)
             ELSE /\ Failed(IF (IF p = -1 THEN "null" ELSE add_range(rest, p, Op.size)) = "none" THEN "data"
                            ELSE (IF p = -1 THEN "null" ELSE add_range(rest, p, Op.size)))
                  /\ IF (IF p = -1 THEN "null" ELSE add_range(rest, p, Op.size)) = "none" THEN PutFirst(rest, p)
                     ELSE /\ ranges' = IF (IF p = -1 THEN "null" ELSE add_range(rest, p, Op.size)) = "null"
                                       THEN ranges ELSE rest
                          /\ UNCHANGED since
  <2> HIDE DEF Accepted, PutFirst, Failed
  <2> HIDE DEF Common
  <2>1. \E p \in Pointers, keeps \in BOOLEAN :
           LET lst == remove_range(ranges, blocks[Op.index])
               said == IF p = -1 THEN "null" ELSE add_range(lst, p, Op.size)
           IN  /\ answers' = Append(answers, p)
               /\ honest' = (honest /\ (p = -1 \/ (Truly(remove_range(granted, blocks[Op.index]), p, Op.size)
                                                   /\ HeldBytes(keeps) \subseteq {Fill(Op.index)})))
               /\ IF said = "none" /\ \A byte \in HeldBytes(keeps) : Signed(byte) = Fill(Op.index)
                  THEN Accepted(lst, p) /\ bytes' = FillBytes(bytes, p, Op.size, Op.index)
                  ELSE /\ Failed(IF said = "none" THEN "data" ELSE said) /\ UNCHANGED bytes
                       /\ IF said = "none" THEN PutFirst(lst, p)
                          ELSE ranges' = (IF said = "null" THEN ranges ELSE lst) /\ UNCHANGED since
    BY Zenon DEF Common
  <2> HIDE DEF HeldBytes, ValidRealloc
  <2> QED BY <1>2, <2>1
<1>4. PICK said, held :
          said = (IF p = -1 THEN "null" ELSE add_range(rest, p, Op.size)) /\ held = HeldBytes(keeps)
  OBVIOUS
<1> HIDE DEF HeldBytes
<1>5. /\ said = (IF p = -1 THEN "null" ELSE add_range(rest, p, Op.size))
      /\ answers' = Append(answers, p)
      /\ honest' = (honest /\ (p = -1 \/ /\ Truly(remove_range(granted, blocks[Op.index]), p, Op.size)
                                         /\ held \subseteq {Fill(Op.index)}))
      /\ IF said = "none" /\ \A byte \in held : Signed(byte) = Fill(Op.index)
         THEN Accepted(rest, p)
         ELSE /\ Failed(IF said = "none" THEN "data" ELSE said)
              /\ IF said = "none" THEN PutFirst(rest, p)
                 ELSE ranges' = (IF said = "null" THEN ranges ELSE rest) /\ UNCHANGED since
  BY <1>3, <1>4
<1>6. p \in Int /\ answers' \in Seq(Int) /\ UNCHANGED <<trace, totals>>
  BY <1>1, <1>5, DriverAssumption DEF Pointers
<1>7. honest => remove_range(granted, blocks[Op.index]) = rest
  BY <1>1, <1>2 DEF DriverIInv, RightSoFar
<1>8. RangesSound(rest)
  <2>1. rest \in SUBSET ranges
    BY <1>2 DEF remove_range
  <2> QED BY <1>1, <2>1, FewerRanges
<1>9. since \in Orders /\ Ordered(rest, since) /\ Before(rest, since, opnum)
  <2>1. rest \in SUBSET ranges
    BY <1>2 DEF remove_range
  <2> QED BY <1>1, <2>1, FewerOrdered DEF DriverIInv, InOrder
<1>10. CASE said = "none" /\ \A byte \in held : Signed(byte) = Fill(Op.index)
  <2>1. p # -1 /\ add_range(rest, p, Op.size) = "none" /\ Accepted(rest, p)
    BY <1>5, <1>10
  <2>2. /\ ranges' = rest \cup {<<p, p + Op.size - 1>>} /\ since' = [since EXCEPT ![p] = opnum]
        /\ granted' = remove_range(granted, blocks[Op.index]) \cup {<<p, p + Op.size - 1>>}
        /\ blocks' = [blocks EXCEPT ![Op.index] = p] /\ block_sizes' = [block_sizes EXCEPT ![Op.index] = Op.size]
        /\ opnum' = opnum + 1 /\ UNCHANGED <<pass, why, sumVars>>
    BY <1>1, <2>1 DEF Accepted, PutFirst
  <2>3. honest' => honest /\ granted' = ranges' /\ Truly(rest, p, Op.size)
    BY <1>5, <1>7, <2>1, <2>2
  <2> QED BY <1>1, <1>2, <1>5, <1>6, <2>1, <2>2, <2>3, AnswerKeeps DEF totals
<1>11. CASE ~ (said = "none" /\ \A byte \in held : Signed(byte) = Fill(Op.index))
  <2>1. PICK reason : reason = IF said = "none" THEN "data" ELSE said
    OBVIOUS
  <2>2. Failed(reason)
    BY <1>5, <1>11, <2>1
  <2>3. RangesSound(ranges') /\ since' \in Orders /\ Ordered(ranges', since')
    <3>1. CASE said = "none"
      <4>1. /\ add_range(rest, p, Op.size) = "none" /\ ranges' = rest \cup {<<p, p + Op.size - 1>>}
            /\ since' = [since EXCEPT ![p] = opnum]
        BY <1>5, <1>11, <3>1 DEF PutFirst
      <4>2. opnum \in Nat
        BY <1>1, AtRequest
      <4> QED BY <1>1, <1>6, <1>8, <1>9, <4>1, <4>2, OneMoreRange, LastInOrder
    <3>2. CASE said # "none"
      <4>1. since' = since /\ (ranges' = ranges \/ ranges' = rest)
        BY <1>5, <1>11, <3>2
      <4>2. Ordered(ranges, since)
        BY DEF DriverIInv, InOrder
      <4> QED BY <1>1, <1>8, <1>9, <4>1, <4>2
    <3> QED BY <3>1, <3>2
  <2>4. ASSUME honest' PROVE reason = "assert" \/ Excused(reason, Op)
    <3>1. CASE p = -1
      BY <1>5, <2>1, <3>1 DEF Excused
    <3>2. CASE p # -1
      <4>1. honest /\ Truly(rest, p, Op.size) /\ held \subseteq {Fill(Op.index)}
        BY <1>5, <1>7, <2>4, <3>2
      <4>2. said = "none" \/ said = "assert"
        BY <1>1, <1>5, <1>6, <1>8, <3>2, <4>1, TrulyTaken
      <4>3. ASSUME said = "none" PROVE Excused(reason, Op)
        <5>1. PICK byte \in held : Signed(byte) # Fill(Op.index)
          BY <1>11, <4>3
        <5>2. byte = Fill(Op.index) /\ Op.index \in Nat
          BY <1>1, <4>1
        <5>3. Signed(Fill(Op.index)) < 0
          BY <5>1, <5>2, ReadBack
        <5> QED BY <2>1, <4>3, <5>3 DEF Excused
      <4> QED BY <2>1, <4>2, <4>3
    <3> QED BY <3>1, <3>2
  <2> QED BY <1>1, <1>6, <2>2, <2>3, <2>4, FailureKeeps
<1> QED BY <1>10, <1>11

LEMMA ValidEndKeeps ==
    ASSUME DriverIInv, ValidEnd
    PROVE  DriverIInv'
<1> USE DEF DriverIInv, ValidEnd, heapVars, sumVars, totals
<1>1. Sound(trace) /\ opnum = trace.num_ops + 1 /\ trace.num_ops \in Nat
  <2>1. Sound(trace) /\ opnum \in 1 .. trace.num_ops + 1
    BY DEF Reading
  <2> QED BY <2>1, RequestsAre
<1>2. errors' = errors /\ errors \in Nat /\ valid' \in Seq(BOOLEAN) /\ Verdicts'
  BY OneMoreVerdict DEF DriverType
<1>3. DriverType' /\ InOrder'
  BY <1>2, OrderStays DEF DriverType
<1>4. Reading'
  <2>1. 1 \in 1 .. trace.num_ops + 1
    BY <1>1
  <2> QED BY <2>1 DEF Reading
<1>5. Tracked' /\ Counted' /\ Blamed'
  BY NoneHeldYet, DriverAssumption DEF Tracked, Counted, Blamed
<1>6. RightSoFar'
  BY <1>1 DEF RightSoFar
<1> QED BY <1>2, <1>3, <1>4, <1>5, <1>6

(***************************************************************************)
(* eval_mm_util and eval_mm_speed                                          *)
(***************************************************************************)
LEMMA GreaterOf ==
    ASSUME NEW x \in Int, NEW y \in Int
    PROVE  Max({x, y}) = IF x >= y THEN x ELSE y
<1>1. CASE x >= y
  <2>1. \A m \in {x, y} : (\A n \in {x, y} : m >= n) <=> m = x
    BY <1>1
  <2> QED BY <1>1, <2>1 DEF Max
<1>2. CASE ~ (x >= y)
  <2>1. \A m \in {x, y} : (\A n \in {x, y} : m >= n) <=> m = y
    BY <1>2
  <2> QED BY <1>2, <2>1 DEF Max
<1> QED BY <1>1, <1>2

LEMMA UtilOpKeeps ==
    ASSUME DriverIInv, UtilOp
    PROVE  DriverIInv'
<1> USE DEF UtilOp, Replayed, heapVars, sumVars
<1>1. /\ Sound(trace) /\ opnum \in 1 .. trace.num_ops /\ opnum \in Nat /\ opnum + 1 \in 1 .. trace.num_ops + 1
      /\ trace.num_ops \in Nat /\ Op = trace.ops[opnum] /\ Op.type \in {"a", "r", "f"} /\ Op.size \in Nat
      /\ Op.index \in 0 .. trace.num_ids - 1 /\ block_sizes[Op.index] \in Int
  BY AtRequest
<1>2. /\ blocks \in [0 .. trace.num_ids - 1 -> Int] /\ block_sizes \in [0 .. trace.num_ids - 1 -> Int]
      /\ answers \in Seq(Int) /\ Len(answers) = trace.num_ops /\ total_size \in Int /\ max_total_size \in Int
  BY DEF DriverIInv, DriverType, Reading, RightSoFar
<1>3. answers[opnum] \in Int /\ Continues(trace, opnum, answers, answers)
  BY <1>1, <1>2 DEF Continues
<1>4. /\ blocks' = Stored(trace, opnum, blocks, answers[opnum])
      /\ block_sizes' = Stored(trace, opnum, block_sizes, trace.ops[opnum].size)
  BY <1>1 DEF Stored
<1>5. blocks' \in [0 .. trace.num_ids - 1 -> Int] /\ block_sizes' \in [0 .. trace.num_ids - 1 -> Int]
  BY <1>1, <1>2, <1>3
<1>6. Reading'
  BY <1>1, <1>5 DEF DriverIInv, Reading
<1>7. Placed(trace, answers, opnum, blocks, block_sizes)
  BY DEF DriverIInv, Tracked
<1>8. Tracked'
  <2>1. Placed(trace, answers, opnum + 1, blocks', block_sizes')
    BY <1>1, <1>2, <1>3, <1>4, <1>7, PlacedNext
  <2> QED BY <2>1 DEF Tracked
<1>9. Change = Changed(Op, block_sizes) /\ Change \in Int
  BY <1>1 DEF Change, Changed
<1>10. total_size' \in Int /\ max_total_size' = (IF max_total_size >= total_size' THEN max_total_size ELSE total_size')
  BY <1>2, <1>9, GreaterOf
<1>11. DriverType' /\ Verdicts' /\ RightSoFar' /\ Blamed'
  BY <1>10 DEF DriverIInv, DriverType, Verdicts, RightSoFar, Blamed
<1>12. Counted'
  <2>1. ASSUME honest
        PROVE  /\ total_size' = Cardinality(Held(trace, answers, opnum + 1))
               /\ max_total_size' \in 0 .. HeapSize
    <3>1. /\ Fit(trace, answers, opnum) /\ Fit(trace, answers, opnum + 1)
          /\ total_size = Cardinality(Held(trace, answers, opnum)) /\ max_total_size \in 0 .. HeapSize
      BY <1>1, <2>1 DEF DriverIInv, RightSoFar, Counted
    <3>2. Cardinality(Held(trace, answers, opnum + 1)) =
              Cardinality(Held(trace, answers, opnum)) + Changed(trace.ops[opnum], block_sizes)
      BY <1>1, <1>7, <3>1, HeldNext
    <3>3. total_size' = Cardinality(Held(trace, answers, opnum + 1))
      BY <1>1, <1>9, <3>1, <3>2
    <3>4. total_size' \in Nat /\ total_size' <= HeapSize
      BY <3>1, <3>3, HeldInHeap
    <3>5. max_total_size' \in 0 .. HeapSize
      BY <1>10, <3>1, <3>4, DriverAssumption
    <3> QED BY <3>3, <3>5
  <2> QED BY <2>1 DEF Counted
<1>13. InOrder'
  BY OrderStays
<1> QED BY <1>6, <1>8, <1>11, <1>12, <1>13 DEF DriverIInv

LEMMA SpeedOpKeeps ==
    ASSUME DriverIInv, SpeedOp
    PROVE  DriverIInv'
<1> USE DEF SpeedOp, Replayed, heapVars, sumVars, totals
<1>1. /\ Sound(trace) /\ opnum \in 1 .. trace.num_ops /\ opnum + 1 \in 1 .. trace.num_ops + 1
      /\ Op.index \in 0 .. trace.num_ids - 1
  BY AtRequest
<1>2. blocks \in [0 .. trace.num_ids - 1 -> Int] /\ answers \in Seq(Int) /\ Len(answers) = trace.num_ops
  BY DEF DriverIInv, DriverType, Reading, RightSoFar
<1>3. blocks' \in [0 .. trace.num_ids - 1 -> Int]
  <2>1. answers[opnum] \in Int
    BY <1>1, <1>2
  <2> QED BY <1>1, <1>2, <2>1
<1>4. Reading'
  BY <1>1, <1>3 DEF DriverIInv, Reading
<1>5. DriverType' /\ Tracked' /\ RightSoFar' /\ Counted' /\ Blamed' /\ Verdicts'
  BY DEF DriverIInv, DriverType, Tracked, RightSoFar, Counted, Blamed, Verdicts
<1>6. InOrder'
  BY OrderStays
<1> QED BY <1>4, <1>5, <1>6 DEF DriverIInv

LEMMA PassEndKeeps ==
    ASSUME DriverIInv, PassEnd
    PROVE  DriverIInv'
<1> USE DEF DriverIInv, PassEnd, heapVars, sumVars, totals
<1>1. Sound(trace) /\ 1 \in 1 .. trace.num_ops + 1 /\ why = "none" /\ pass' \in {"speed", "free"}
  <2>1. Sound(trace) /\ why = "none"
    BY DEF Reading
  <2> QED BY <2>1, RequestsAre
<1>2. Reading'
  BY <1>1 DEF Reading
<1>3. DriverType' /\ Tracked' /\ Blamed' /\ Verdicts'
  BY <1>1 DEF DriverType, Tracked, Blamed, Verdicts
<1>4. RightSoFar' /\ Counted'
  BY <1>1 DEF RightSoFar, Counted
<1>5. InOrder'
  BY <1>1, OrderStays
<1> QED BY <1>2, <1>3, <1>4, <1>5

LEMMA DriverStutters ==
    ASSUME DriverIInv, UNCHANGED driverVars
    PROVE  DriverIInv'
<1> USE DEF DriverIInv, driverVars
<1>1. DriverType' /\ Reading' /\ Tracked' /\ RightSoFar'
  BY DEF DriverType, Reading, Tracked, RightSoFar
<1>2. Op' = Op
  BY DEF Op
<1>3. Counted' /\ Blamed' /\ Verdicts'
  BY <1>2 DEF Counted, Blamed, Verdicts
<1>4. InOrder'
  BY DEF InOrder, Ordered, Before
<1> QED BY <1>1, <1>3, <1>4

\* The invariant of the driver: the range list of a right allocator holds
\* what it gave out, which fits the heap at every request of a trace.
THEOREM DriverInvariance == DriverSpec => []DriverIInv
<1>1. DriverInit => DriverIInv
  BY DriverStarts
<1>2. DriverIInv /\ [DriverNext]_driverVars => DriverIInv'
  BY OptionsKeeps, ReadTraceKeeps, LibcOpKeeps, LibcEndKeeps, MmInitKeeps, ValidAllocKeeps,
     ValidReallocKeeps, ValidFreeKeeps, ValidEndKeeps, UtilOpKeeps, SpeedOpKeeps, PassEndKeeps,
     LoopsKeep, DriverStutters DEF DriverNext
<1> QED BY <1>1, <1>2, PTL DEF DriverSpec

\* Whatever a package answers to whatever trace, the payloads that add_range
\* accepts lie aligned in the heap, and one overlaps another accepted before it
\* only by containing it strictly.
THEOREM AcceptedAreSound == DriverSpec => []AcceptedRangesSound
<1>1. DriverIInv => AcceptedRangesSound
  <2> SUFFICES ASSUME DriverIInv PROVE AcceptedRangesSound
    OBVIOUS
  <2>1. RangesSound(ranges) /\ Ordered(ranges, since)
    BY DEF DriverIInv, DriverType, InOrder
  <2> QED BY <2>1 DEF RangesSound, Ordered, AcceptedRangesSound
<1> QED BY <1>1, DriverInvariance, PTL

\* A package that is right is never failed but for lack of memory or a byte
\* that reads back negative, is never credited with more payload than its
\* heap holds, and main reports an index only when every trace passed.
THEOREM HonestPasses == DriverSpec => []HonestAllocatorPasses
<1>1. DriverIInv => HonestAllocatorPasses
  <2> SUFFICES ASSUME DriverIInv PROVE HonestAllocatorPasses
    OBVIOUS
  <2>1. honest /\ pass = "free" /\ why # "none" =>
            why = "null" \/ (why = "data" /\ Signed(Fill(Op.index)) < 0)
    BY DEF DriverIInv, Blamed, Excused
  <2>2. honest /\ pass = "speed" => max_total_size <= HeapSize
    BY DriverAssumption DEF DriverIInv, Counted
  <2>3. reported => \A i \in DOMAIN valid : valid[i]
    BY DEF DriverIInv, Verdicts
  <2> QED BY <2>1, <2>2, <2>3 DEF HonestAllocatorPasses
<1> QED BY <1>1, DriverInvariance, PTL
=============================================================================
