-------------------------- MODULE ProxyCacheProofs --------------------------
(***************************************************************************)
(* The proxy's cache under any number of workers, with any number of       *)
(* entries: locks, bodies, total, copies, ages and evictions.              *)
(***************************************************************************)
EXTENDS ProxyCache, FiniteSetTheorems, TLAPS

(***************************************************************************)
(* Entries                                                                 *)
(***************************************************************************)

LEMMA LeastNatural ==
    ASSUME NEW S \in SUBSET Nat, S # {}
    PROVE  \E m \in S : \A n \in S : m <= n
<1>1. IsWellFoundedOn(OpToRel(<, Nat), Nat)
  BY NatLessThanWellFounded
<1>2. PICK m \in S : \A n \in S : ~ (<<n, m>> \in OpToRel(<, Nat))
  <2> HIDE DEF IsWellFoundedOn, OpToRel
  <2> QED
    BY <1>1, WFMin
<1>3. \A n \in S : ~ (n < m)
  BY <1>2 DEF OpToRel
<1> QED
  BY <1>3

LEMMA EntriesAre == Entries \subseteq Nat /\ IsFiniteSet(Entries) /\ -1 \notin Entries
<1>1. IsFiniteSet(0 .. NCACHE - 1)
  BY FS_Interval, NCACHEAssumption
<1> QED
  BY <1>1, NCACHEAssumption DEF Entries

LEMMA LengthsAre == \A n \in Lengths \cup {0} : n \in Nat
BY LengthsAssumption

\* A loop over the entries that returns the first match returns a match.
LEMMA MinIsOne ==
    ASSUME NEW S \in SUBSET Entries, S # {}
    PROVE  Min(S) \in S
<1>1. S \in SUBSET Nat
  BY EntriesAre
<1>2. \E m \in S : \A n \in S : m <= n
  BY <1>1, LeastNatural
<1> QED
  BY <1>2 DEF Min

\* Some entry has the greatest age.
LEMMA OldestExists ==
    ASSUME NEW S, IsFiniteSet(S), S # {}, NEW f \in [S -> Nat]
    PROVE  \E i \in S : \A j \in S : f[j] <= f[i]
<1> DEFINE Bad == {T \in SUBSET S : T # {} /\ \A i \in T : \E j \in T : f[j] > f[i]}
<1>1. IsWellFoundedOn(StrictSubsetOrdering(S), FiniteSubsetsOf(S))
  BY FS_StrictSubsetOrderingWellFounded
<1>2. FiniteSubsetsOf(S) = SUBSET S
  BY FS_FiniteSubsetsOfFinite
<1>3. Bad = {}
  <2> SUFFICES ASSUME Bad # {} PROVE FALSE
    OBVIOUS
  <2>1. PICK T \in Bad : \A U \in Bad : ~ (<<U, T>> \in StrictSubsetOrdering(S))
    <3>1. Bad \subseteq SUBSET S
      OBVIOUS
    <3> HIDE DEF Bad, IsWellFoundedOn, StrictSubsetOrdering
    <3> QED
      BY <1>1, <1>2, <3>1, WFMin
  <2>2. PICK x \in T : TRUE
    BY <2>1
  <2>3. T \ {x} \notin Bad
    BY <2>1, <2>2 DEF StrictSubsetOrdering
  <2>4. T \ {x} # {}
    BY <2>1, <2>2
  <2>5. PICK i \in T \ {x} : \A j \in T \ {x} : ~ (f[j] > f[i])
    BY <2>1, <2>3, <2>4
  <2>6. \A j \in T : f[j] \in Nat
    BY <2>1
  <2>7. CASE f[x] > f[i]
    BY <2>1, <2>2, <2>5, <2>6, <2>7
  <2>8. CASE ~(f[x] > f[i])
    BY <2>1, <2>2, <2>5, <2>6, <2>8
  <2> QED
    BY <2>7, <2>8
<1>4. \E i \in S : \A j \in S : ~ (f[j] > f[i])
  BY <1>3
<1> QED
  BY <1>4

LEMMA IsinFinds ==
    ASSUME NEW site
    PROVE  IF \E i \in InUse : cache[i].site = site
           THEN Isin(site) \in InUse /\ cache[Isin(site)].site = site
           ELSE Isin(site) = -1
<1> DEFINE hits == {i \in InUse : cache[i].site = site}
<1>1. CASE hits # {}
  <2>1. Min(hits) \in hits
    BY <1>1, MinIsOne DEF InUse
  <2> QED
    BY <1>1, <2>1 DEF Isin
<1>2. CASE hits = {}
  BY <1>2 DEF Isin
<1> QED
  BY <1>1, <1>2

LEMMA FindFinds == IF InUse = Entries THEN Find = -1 ELSE Find \in Entries \ InUse
<1>1. ASSUME InUse # Entries PROVE Min(Entries \ InUse) \in Entries \ InUse
  <2>1. Entries \ InUse # {}
    BY <1>1 DEF InUse
  <2> QED
    BY <2>1, MinIsOne
<1> QED
  BY <1>1 DEF Find

LEMMA VictimIsOldest ==
    ASSUME \A i \in Entries : cache[i].lru \in Nat
    PROVE  IF \E i \in Entries : cache[i].lru > 0
           THEN /\ Victim \in Entries
                /\ \A j \in Entries : cache[j].lru <= cache[Victim].lru
           ELSE Victim = -1
<1> DEFINE oldest == {i \in Entries : /\ cache[i].lru > 0
                                      /\ \A j \in Entries : cache[j].lru <= cache[i].lru}
<1>1. ASSUME \E i \in Entries : cache[i].lru > 0 PROVE oldest # {}
  <2> DEFINE f == [i \in Entries |-> cache[i].lru]
  <2>1. f \in [Entries -> Nat] /\ Entries # {}
    BY <1>1
  <2>2. PICK i \in Entries : \A j \in Entries : f[j] <= f[i]
    <3> HIDE DEF f
    <3> QED
      BY <2>1, EntriesAre, OldestExists
  <2>3. cache[i].lru > 0
    BY <1>1, <2>2
  <2> QED
    BY <2>2, <2>3
<1>2. oldest # {} => Min(oldest) \in oldest
  BY MinIsOne
<1> QED
  BY <1>1, <1>2 DEF Victim

(***************************************************************************)
(* Steps                                                                   *)
(***************************************************************************)

\* What a worker does, but for ending the process.
Step(t) == Request(t) \/ Reader(t) \/ Respond(t) \/ Fetch(t) \/ Writer(t)

Moves(t) == t \in Workers /\ \A u \in Workers \ {t} : pc'[u] = pc[u]

LEMMA StepMoves ==
    ASSUME TypeOK, NEW t \in Workers, Step(t)
    PROVE  Moves(t)
BY DEF TypeOK, Step, Reader, Writer, Moves, Goto, Request, ReaderLock, ReaderEnter, ReaderWait, Unlock,
       ReaderFind, ReaderSize, ReaderCopy, UpdateLock, ReaderUpdate, ReaderReset, LeaveLock,
       ReaderLeave, Respond, Fetch, WriterLock, WriterCheck, WriterFind, WriterEvict,
       WriterTotal, WriterPut, WriterUpdate, WriterStore, WriterUnlock

(***************************************************************************)
(* The locks                                                               *)
(***************************************************************************)

\* The mutex is taken, given back, or not touched.
Takes(t) == mutex = 1 /\ mutex' = 0 /\ ~InMutex(t) /\ InMutex(t)'
Gives(t) == mutex' = 1 /\ InMutex(t) /\ ~InMutex(t)'
Keeps(t) == mutex' = mutex /\ InMutex(t)' = InMutex(t)

LEMMA MutexSteps ==
    ASSUME TypeOK, NEW t \in Workers, Step(t)
    PROVE  Takes(t) \/ Gives(t) \/ Keeps(t)
<1> USE DEF TypeOK, Takes, Gives, Keeps, InMutex, Goto, lockVars
<1>1. CASE Request(t) \/ Respond(t) \/ Fetch(t)
  BY <1>1 DEF Request, Respond, Fetch
<1>2. CASE Reader(t)
  BY <1>2 DEF Reader, ReaderLock, ReaderEnter, ReaderWait, Unlock, ReaderFind, ReaderSize,
              ReaderCopy, UpdateLock, ReaderUpdate, ReaderReset, LeaveLock, ReaderLeave
<1>3. CASE Writer(t)
  BY <1>3 DEF Writer, WriterLock, WriterCheck, WriterFind, WriterEvict, WriterTotal, WriterPut,
              WriterUpdate, WriterStore, WriterUnlock
<1> QED
  BY <1>1, <1>2, <1>3 DEF Step

LEMMA MutexKept ==
    ASSUME TypeOK, MutexHeld, NEW t \in Workers, Step(t)
    PROVE  MutexHeld'
<1>1. \A u \in Workers \ {t} : InMutex(u)' = InMutex(u)
  BY StepMoves DEF Moves, InMutex
<1>2. CASE Takes(t)
  BY <1>1, <1>2 DEF MutexHeld, Takes
<1>3. CASE Gives(t)
  BY <1>1, <1>3 DEF MutexHeld, Gives
<1>4. CASE Keeps(t)
  BY <1>1, <1>4 DEF MutexHeld, Keeps
<1> QED
  BY <1>2, <1>3, <1>4, MutexSteps

\* A reader is counted, or counted no more, or none of this happens.
Enters(t) ==
    /\ ~Counted(t) /\ Counted(t)' /\ readcnt' = readcnt + 1
    /\ InMutex(t) /\ pc'[t] = (IF readcnt = 0 THEN "rWait" ELSE "rUnlock") /\ w' = w
Leaves(t) ==
    /\ Reading(t) /\ ~Counted(t)' /\ readcnt' = readcnt - 1
    /\ InMutex(t) /\ w' = (IF readcnt = 1 THEN 1 ELSE w)
Remains(t) == readcnt' = readcnt /\ Counted(t)' = Counted(t) /\ pc'[t] # "rWait"

\* The cache is taken by the first reader or by a writer, given back by a
\* writer, or passed over.
Locks(t) ==
    /\ w = 1 /\ w' = 0 /\ ~Reading(t) /\ ~Writing(t)
    /\ \/ pc[t] = "rWait" /\ Reading(t)'
       \/ pc[t] = "wLock" /\ Writing(t)'
Unlocks(t) == w' = 1 /\ Writing(t) /\ ~Writing(t)' /\ ~Reading(t)'
Passes(t) == w' = w /\ Reading(t)' = Reading(t) /\ Writing(t)' = Writing(t)

LEMMA CountSteps ==
    ASSUME TypeOK, NEW t \in Workers, Step(t)
    PROVE  \/ Enters(t) /\ ~Reading(t) /\ ~Writing(t) /\ ~Writing(t)'
           \/ Leaves(t) /\ ~Writing(t) /\ ~Reading(t)' /\ ~Writing(t)'
           \/ Remains(t) /\ (Locks(t) \/ Unlocks(t) \/ Passes(t))
<1> USE DEF TypeOK, Enters, Leaves, Remains, Locks, Unlocks, Passes,
            Counted, InMutex, Reading, Writing, WriterAt, Goto, lockVars
<1>1. CASE Request(t) \/ Respond(t) \/ Fetch(t)
  BY <1>1 DEF Request, Respond, Fetch
<1>2. CASE Reader(t)
  <2>0. CASE ReaderEnter(t)
    <3>1. /\ pc[t] = "rEnter" /\ readcnt' = readcnt + 1 /\ w' = w
          /\ pc'[t] = (IF readcnt = 0 THEN "rWait" ELSE "rUnlock")
      BY <2>0 DEF ReaderEnter
    <3>2. pc'[t] = "rWait" \/ pc'[t] = "rUnlock"
      BY <3>1
    <3> QED
      BY <3>1, <3>2
  <2>1. CASE ReaderLock(t) \/ Unlock(t, "rUnlock", "find")
    BY <2>1 DEF ReaderLock, Unlock
  <2>4. CASE ReaderWait(t)
    <3>1. pc[t] = "rWait" /\ pc'[t] = "rUnlock" /\ readcnt' = readcnt /\ w = 1 /\ w' = 0
      BY <2>4 DEF ReaderWait
    <3>2. Counted(t) /\ Counted(t)' /\ Remains(t)
      BY <3>1
    <3>3. Locks(t)
      BY <3>1
    <3> QED
      BY <3>2, <3>3
  <2>2. CASE ReaderFind(t) \/ ReaderSize(t) \/ ReaderCopy(t) \/ UpdateLock(t) \/ ReaderUpdate(t)
             \/ ReaderReset(t) \/ Unlock(t, "uUnlock", "xLock")
    BY <2>2 DEF ReaderFind, ReaderSize, ReaderCopy, UpdateLock, ReaderUpdate, ReaderReset, Unlock
  <2>3. CASE LeaveLock(t) \/ ReaderLeave(t)
             \/ Unlock(t, "xUnlock", IF idx[t] = -1 THEN "fetch" ELSE "respond")
    BY <2>3 DEF LeaveLock, ReaderLeave, Unlock
  <2> QED
    BY <1>2, <2>0, <2>1, <2>2, <2>3, <2>4 DEF Reader
<1>3. CASE Writer(t)
  BY <1>3 DEF Writer, WriterLock, WriterCheck, WriterFind, WriterEvict, WriterTotal, WriterPut,
              WriterUpdate, WriterStore, WriterUnlock
<1> QED
  BY <1>1, <1>2, <1>3 DEF Step

LEMMA SetOfWorkers ==
    ASSUME NEW C \in SUBSET Workers
    PROVE
    /\ IsFiniteSet(C) /\ Cardinality(C) \in 0 .. Cardinality(Workers)
    /\ Cardinality(C) = 0 <=> C = {}
    /\ \A t \in C : Cardinality(C) = 1 => C = {t}
    /\ \A t : /\ t \notin C => Cardinality(C \cup {t}) = Cardinality(C) + 1
              /\ t \in C => Cardinality(C \ {t}) = Cardinality(C) - 1
<1>1. IsFiniteSet(C) /\ Cardinality(C) <= Cardinality(Workers)
  BY WorkersAssumption, FS_Subset
<1>2. Cardinality(C) \in Nat /\ Cardinality(Workers) \in Nat
  BY <1>1, WorkersAssumption, FS_CardinalityType
<1>3. Cardinality(C) = 0 <=> C = {}
  BY <1>1, FS_EmptySet
<1>4. Cardinality(C) = 1 => \E x : C = {x}
  BY <1>1, FS_Singleton
<1>5. \A t : t \notin C => Cardinality(C \cup {t}) = Cardinality(C) + 1
  BY <1>1, FS_AddElement
<1>6. \A t : t \in C => Cardinality(C \ {t}) = Cardinality(C) - 1
  BY <1>1, FS_RemoveElement
<1>7. \A t \in C : Cardinality(C) = 1 => C = {t}
  BY <1>4
<1>8. Cardinality(C) \in 0 .. Cardinality(Workers)
  BY <1>1, <1>2
<1> QED
  BY <1>1, <1>3, <1>5, <1>6, <1>7, <1>8

LEMMA CountKept ==
    ASSUME TypeOK, MutexHeld, ReadersCounted, NEW t \in Workers, Step(t)
    PROVE  ReadersCounted'
<1> DEFINE C == {u \in Workers : Counted(u)}
<1>0. C \in SUBSET Workers
  OBVIOUS
<1>1. \A u \in Workers \ {t} : pc'[u] = pc[u] /\ Counted(u)' = Counted(u)
  BY StepMoves DEF Moves, Counted, Reading
<1>2. C' = IF Counted(t)' THEN C \cup {t} ELSE C \ {t}
  BY <1>1
<1>3. readcnt = Cardinality(C) /\ readcnt \in Int
  BY SetOfWorkers DEF ReadersCounted, TypeOK
<1>4. CASE Enters(t)
  <2>1. C' = C \cup {t} /\ t \notin C
    BY <1>2, <1>4 DEF Enters
  <2>2. Cardinality(C') = Cardinality(C) + 1
    <3> HIDE DEF C
    <3> QED
      BY <2>1, <1>0, SetOfWorkers
  <2>3. readcnt = 0 => C = {}
    BY <1>3, SetOfWorkers
  <2>4. \A u \in Workers : pc[u] # "rWait"
    BY <1>4 DEF Enters, MutexHeld, InMutex, Counted
  <2>5. \A u, v \in Workers : pc'[u] = "rWait" /\ Counted(v)' => u = v
    BY <1>1, <1>4, <2>3, <2>4 DEF Enters
  <2> QED
    BY <1>3, <1>4, <2>2, <2>5 DEF ReadersCounted, Enters
<1>5. CASE Leaves(t)
  <2>1. C' = C \ {t} /\ t \in C
    BY <1>2, <1>5 DEF Leaves, Counted
  <2>2. Cardinality(C') = Cardinality(C) - 1
    <3> HIDE DEF C
    <3> QED
      BY <2>1, <1>0, SetOfWorkers
  <2>3. \A u, v \in Workers : pc'[u] = "rWait" /\ Counted(v)' => u = v
    BY <1>1, <1>5 DEF Leaves, Counted, ReadersCounted
  <2> QED
    BY <1>3, <1>5, <2>2, <2>3 DEF ReadersCounted, Leaves
<1>6. CASE Remains(t)
  <2>1. C' = C
    BY <1>2, <1>6 DEF Remains
  <2>2. \A u, v \in Workers : pc'[u] = "rWait" /\ Counted(v)' => u = v
    BY <1>1, <1>6 DEF Remains, ReadersCounted
  <2> QED
    BY <1>3, <1>6, <2>1, <2>2 DEF ReadersCounted, Remains
<1> QED
  BY <1>4, <1>5, <1>6, CountSteps

LEMMA HeldKept ==
    ASSUME TypeOK, MutexHeld, ReadersCounted, CacheHeld, NEW t \in Workers, Step(t)
    PROVE  CacheHeld'
<1> DEFINE C == {u \in Workers : Counted(u)}
<1>0. C \in SUBSET Workers
  OBVIOUS
<1>1. \A u \in Workers \ {t} : Reading(u)' = Reading(u) /\ Writing(u)' = Writing(u)
  BY StepMoves DEF Moves, Reading, Writing
<1>2. readcnt = Cardinality(C) /\ \A u : Counted(u) <=> Reading(u) \/ pc[u] = "rWait"
  BY DEF ReadersCounted, Counted
<1>3. \A u \in Workers : InMutex(t) /\ u # t => pc[u] # "rWait"
  BY DEF MutexHeld, InMutex
<1>4. \A u \in Workers : Reading(u) /\ Writing(u) => FALSE
  BY DEF Reading, Writing, WriterAt
<1>5. CASE Enters(t) /\ ~Reading(t) /\ ~Writing(t) /\ ~Writing(t)'
  <2>1. CASE readcnt = 0
    <3>1. ~Reading(t)'
      BY <1>5, <2>1 DEF Enters, Reading
    <3> QED
      BY <1>1, <1>5, <3>1 DEF CacheHeld, Enters
  <2>2. CASE readcnt # 0
    <3>1. PICK u \in C : TRUE
      BY <1>2, <2>2, SetOfWorkers
    <3>2. u # t /\ Reading(u)
      BY <1>2, <1>3, <1>5, <3>1 DEF Enters
    <3>3. w = 0 /\ w' = 0 /\ Reading(u)' /\ \A v \in Workers : ~Writing(v)
      BY <1>1, <1>4, <1>5, <3>1, <3>2 DEF CacheHeld, Enters
    <3> QED
      BY <1>1, <1>5, <3>1, <3>2, <3>3 DEF CacheHeld
  <2> QED
    BY <2>1, <2>2
<1>6. CASE Leaves(t) /\ ~Writing(t) /\ ~Reading(t)' /\ ~Writing(t)'
  <2>1. t \in C /\ \A v \in Workers : ~Writing(v)
    BY <1>2, <1>4, <1>6 DEF Leaves, CacheHeld
  <2>2. CASE readcnt = 1
    <3>1. \A u \in Workers \ {t} : ~Reading(u)
      <4>1. C = {t}
        <5> HIDE DEF C
        <5>1. Cardinality(C) = 1 /\ t \in C
          BY <1>2, <2>1, <2>2
        <5> QED
          BY <1>0, <5>1, SetOfWorkers
      <4> QED
        BY <1>2, <4>1
    <3> QED
      BY <1>1, <1>6, <2>1, <2>2, <3>1 DEF CacheHeld, Leaves
  <2>3. CASE readcnt # 1
    <3>1. C # {t}
      <4>1. Cardinality({t}) = 1
        BY FS_Singleton
      <4> QED
        BY <1>2, <2>3, <4>1
    <3>2. PICK u \in C : u # t
      BY <2>1, <3>1
    <3>3. Reading(u)
      BY <1>2, <1>3, <1>6, <3>2 DEF Leaves
    <3>4. w = 0 /\ w' = 0 /\ Reading(u)'
      BY <1>1, <1>6, <2>3, <3>2, <3>3 DEF CacheHeld, Leaves
    <3> QED
      BY <1>1, <1>6, <2>1, <3>2, <3>4 DEF CacheHeld
  <2> QED
    BY <2>2, <2>3
<1>7. CASE Locks(t)
  <2>1. \A u \in Workers : ~Reading(u) /\ ~Writing(u)
    BY <1>7 DEF CacheHeld, Locks
  <2>2. ~(Reading(t)' /\ Writing(t)')
    BY DEF Reading, Writing, WriterAt
  <2> QED
    BY <1>1, <1>7, <2>1, <2>2 DEF CacheHeld, Locks
<1>8. CASE Unlocks(t)
  BY <1>1, <1>8 DEF CacheHeld, Unlocks
<1>9. CASE Passes(t)
  BY <1>1, <1>9 DEF CacheHeld, Passes
<1> QED
  BY <1>5, <1>6, <1>7, <1>8, <1>9, CountSteps

(***************************************************************************)
(* The data                                                                *)
(***************************************************************************)

\* The steps that touch the cache, its total or its bodies; only who reads may
\* age entries, only who writes does more.
AgesSome(t) == ReaderUpdate(t) \/ ReaderReset(t)
WritesSome(t) ==
    \/ WriterEvict(t) \/ WriterTotal(t) \/ WriterPut(t) \/ WriterUpdate(t) \/ WriterStore(t)

LEMMA StepShared ==
    ASSUME TypeOK, NEW t \in Workers, Step(t)
    PROVE  \/ Reading(t) /\ AgesSome(t)
           \/ Writing(t) /\ WritesSome(t)
           \/ UNCHANGED sharedVars
<1> USE DEF TypeOK, AgesSome, WritesSome, Reading, Writing, WriterAt, Goto, sharedVars
<1>1. CASE Request(t) \/ Respond(t) \/ Fetch(t)
  BY <1>1 DEF Request, Respond, Fetch
<1>2. CASE Reader(t)
  BY <1>2 DEF Reader, ReaderLock, ReaderEnter, ReaderWait, Unlock, ReaderFind, ReaderSize,
              ReaderCopy, UpdateLock, ReaderUpdate, ReaderReset, LeaveLock, ReaderLeave
<1>3. CASE Writer(t)
  BY <1>3 DEF Writer, WriterLock, WriterCheck, WriterFind, WriterEvict, WriterTotal, WriterPut,
              WriterUpdate, WriterStore, WriterUnlock
<1> QED
  BY <1>1, <1>2, <1>3 DEF Step

LEMMA StepLocals ==
    ASSUME TypeOK, NEW t \in Workers, Step(t), NEW u \in Workers, u # t
    PROVE  url'[u] = url[u] /\ idx'[u] = idx[u] /\ size'[u] = size[u] /\ body'[u] = body[u]
<1> USE DEF TypeOK, localVars
<1>1. CASE Request(t) \/ Respond(t) \/ Fetch(t)
  BY <1>1 DEF Request, Respond, Fetch
<1>2. CASE Reader(t)
  BY <1>2 DEF Reader, ReaderLock, ReaderEnter, ReaderWait, Unlock, ReaderFind, ReaderSize,
              ReaderCopy, UpdateLock, ReaderUpdate, ReaderReset, LeaveLock, ReaderLeave
<1>3. CASE Writer(t)
  BY <1>3 DEF Writer, WriterLock, WriterCheck, WriterFind, WriterEvict, WriterTotal, WriterPut,
              WriterUpdate, WriterStore, WriterUnlock
<1> QED
  BY <1>1, <1>2, <1>3 DEF Step

\* While a worker writes, no other worker touches anything; while one reads, no
\* other does more than age entries.
LEMMA Alone ==
    ASSUME TypeOK, CacheHeld, NEW t \in Workers, Step(t), NEW u \in Workers, u # t
    PROVE  /\ Writing(u) => UNCHANGED sharedVars
           /\ Reading(u) => UNCHANGED sharedVars \/ AgesSome(t)
BY StepShared DEF CacheHeld

(***************************************************************************)
(* The bytes held                                                          *)
(***************************************************************************)

Bytes(i, n) == {i} \X (1 .. n)
HeldIn(n) == UNION {Bytes(i, n[i]) : i \in Entries}

LEMMA BytesCounted ==
    ASSUME NEW i, NEW n \in Nat
    PROVE  IsFiniteSet(Bytes(i, n)) /\ Cardinality(Bytes(i, n)) = n
<1>1. IsFiniteSet({i}) /\ Cardinality({i}) = 1
  BY FS_Singleton
<1>2. IsFiniteSet(1 .. n) /\ Cardinality(1 .. n) = n
  BY FS_Interval
<1> QED
  <2>1. IsFiniteSet({i} \X (1 .. n)) /\ Cardinality({i} \X (1 .. n)) = Cardinality({i}) * Cardinality(1 .. n)
    BY <1>1, <1>2, FS_Product
  <2> QED
    BY <1>1, <1>2, <2>1 DEF Bytes

LEMMA HeldIsFinite ==
    ASSUME NEW n \in [Entries -> Nat], NEW E \in SUBSET Entries
    PROVE  LET H == UNION {Bytes(i, n[i]) : i \in E}
           IN  IsFiniteSet(H) /\ Cardinality(H) \in Nat
<1> DEFINE H == UNION {Bytes(i, n[i]) : i \in E}
<1>1. PICK i \in Entries : \A j \in Entries : n[j] <= n[i]
  <2>1. Entries # {}
    BY NCACHEAssumption DEF Entries
  <2> QED
    BY <2>1, EntriesAre, OldestExists
<1>2. H \subseteq Entries \X (1 .. n[i])
  BY <1>1 DEF Bytes
<1>3. IsFiniteSet(Entries \X (1 .. n[i]))
  <2>1. IsFiniteSet(1 .. n[i])
    BY FS_Interval
  <2> QED
    BY <2>1, FS_Product, EntriesAre
<1>4. IsFiniteSet(H)
  BY <1>2, <1>3, FS_Subset
<1> QED
  BY <1>4, FS_CardinalityType

\* What the entries but one hold, and what that one holds.
LEMMA HeldApart ==
    ASSUME NEW n \in [Entries -> Nat], NEW i \in Entries
    PROVE  Cardinality(HeldIn(n)) = Cardinality(UNION {Bytes(j, n[j]) : j \in Entries \ {i}}) + n[i]
<1> DEFINE R == UNION {Bytes(j, n[j]) : j \in Entries \ {i}}
<1>1. HeldIn(n) = R \cup Bytes(i, n[i])
  BY DEF HeldIn
<1>2. R \cap Bytes(i, n[i]) = {}
  BY DEF Bytes
<1>3. IsFiniteSet(R) /\ Cardinality(R) \in Nat
  BY HeldIsFinite
<1>4. IsFiniteSet(Bytes(i, n[i])) /\ Cardinality(Bytes(i, n[i])) = n[i]
  BY BytesCounted
<1> HIDE DEF R
<1>5. Cardinality(R \cup Bytes(i, n[i])) = Cardinality(R) + n[i] - Cardinality(R \cap Bytes(i, n[i]))
  BY <1>3, <1>4, FS_Union
<1>6. Cardinality(R \cap Bytes(i, n[i])) = 0
  BY <1>2, FS_EmptySet
<1>7. Cardinality(HeldIn(n)) = Cardinality(R) + n[i]
  BY <1>1, <1>3, <1>5, <1>6
<1> QED
  BY <1>7 DEF R

LEMMA HeldChanges ==
    ASSUME NEW n \in [Entries -> Nat], NEW m \in [Entries -> Nat], NEW i \in Entries,
           \A j \in Entries \ {i} : m[j] = n[j]
    PROVE  /\ Cardinality(HeldIn(n)) \in Nat /\ Cardinality(HeldIn(n)) >= n[i]
           /\ Cardinality(HeldIn(m)) = Cardinality(HeldIn(n)) - n[i] + m[i]
<1> DEFINE R == UNION {Bytes(j, n[j]) : j \in Entries \ {i}}
<1>1. R = UNION {Bytes(j, m[j]) : j \in Entries \ {i}}
  OBVIOUS
<1>2. Cardinality(R) \in Nat
  BY HeldIsFinite
<1>3. Cardinality(HeldIn(n)) = Cardinality(R) + n[i]
  BY HeldApart
<1>4. Cardinality(HeldIn(m)) = Cardinality(R) + m[i]
  BY <1>1, HeldApart
<1> HIDE DEF R
<1> QED
  BY <1>2, <1>3, <1>4

LEMMA HeldIs == Held = HeldIn([i \in Entries |-> cache[i].state])
BY DEF Held, HeldIn, Bytes

LEMMA TypeKept ==
    ASSUME TypeOK, MutexHeld, ReadersCounted, CacheHeld, ReadersHold, WritersHold, TotalHeld,
           NEW t \in Workers, Step(t),
           WriterEvict(t) /\ Victim # -1 => totalCache >= cache[Victim].state
    PROVE  TypeOK'
<1>1. readcnt' \in 0 .. Cardinality(Workers)
  <2> DEFINE C == {u \in Workers : Counted(u)'}
  <2>1. C \in SUBSET Workers /\ readcnt' = Cardinality(C)
    BY CountKept DEF ReadersCounted
  <2> HIDE DEF C
  <2> QED
    BY <2>1, SetOfWorkers
<1>2. pc' \in [Workers -> WorkerAt]
  <2> USE DEF TypeOK, WorkerAt, ReaderAt, WriterAt, Goto
  <2>1. CASE Request(t) \/ Respond(t) \/ Fetch(t)
    BY <2>1 DEF Request, Respond, Fetch
  <2>2. CASE Reader(t)
    BY <2>2 DEF Reader, ReaderLock, ReaderEnter, ReaderWait, Unlock, ReaderFind, ReaderSize,
                ReaderCopy, UpdateLock, ReaderUpdate, ReaderReset, LeaveLock, ReaderLeave
  <2>3. CASE Writer(t)
    BY <2>3 DEF Writer, WriterLock, WriterCheck, WriterFind, WriterEvict, WriterTotal, WriterPut,
                WriterUpdate, WriterStore, WriterUnlock
  <2> QED
    BY <2>1, <2>2, <2>3 DEF Step
<1>3. mutex' \in {0, 1} /\ w' \in {0, 1}
  BY MutexSteps, CountSteps DEF TypeOK, Takes, Gives, Keeps, Enters, Leaves, Locks, Unlocks, Passes
<1>4. url' \in [Workers -> Urls \cup {NoUrl}] /\ requests' \in 0 .. MaxRequests
  <2> USE MaxRequestsAssumption DEF TypeOK, localVars, NoUrl
  <2>1. CASE Request(t) \/ Respond(t) \/ Fetch(t)
    BY <2>1 DEF Request, Respond, Fetch
  <2>2. CASE Reader(t)
    BY <2>2 DEF Reader, ReaderLock, ReaderEnter, ReaderWait, Unlock, ReaderFind, ReaderSize,
                ReaderCopy, UpdateLock, ReaderUpdate, ReaderReset, LeaveLock, ReaderLeave
  <2>3. CASE Writer(t)
    BY <2>3 DEF Writer, WriterLock, WriterCheck, WriterFind, WriterEvict, WriterTotal, WriterPut,
                WriterUpdate, WriterStore, WriterUnlock
  <2> QED
    BY <2>1, <2>2, <2>3 DEF Step
<1>5. cache' \in [Entries -> [site : Sites \cup {NoSite}, state : Lengths \cup {0}, lru : Nat]]
      /\ pool' \in [Entries -> Bodies] /\ totalCache' \in Nat /\ usedBefore' \subseteq Entries \X Entries
  <2> USE DEF TypeOK, localVars
  <2>1. CASE UNCHANGED sharedVars
    BY <2>1 DEF sharedVars
  <2>2. CASE AgesSome(t)
    <3>1. CASE ReaderUpdate(t)
      BY <3>1 DEF ReaderUpdate, Updated, lockVars
    <3>2. CASE ReaderReset(t)
      <4>1. idx[t] \in InUse
        BY <3>2 DEF ReaderReset, Goto, ReadersHold, AtEntry
      <4> QED
        BY <3>2, <4>1 DEF ReaderReset, UsedLast, InUse
    <3> QED
      BY <2>2, <3>1, <3>2 DEF AgesSome
  <2>3. CASE WritesSome(t)
    <3>0. size[t] \in Nat /\ url[t].site \in Sites \cup {NoSite}
      BY LengthsAssumption DEF Sites, NoUrl
    <3>1. CASE WriterEvict(t)
      <4>1. Victim \in Entries \cup {-1}
        BY VictimIsOldest
      <4>2. CASE Victim = -1
        BY <3>1, <4>2 DEF WriterEvict
      <4>3. CASE Victim # -1
        <5>1. /\ totalCache' = totalCache - cache[Victim].state
              /\ cache' = [cache EXCEPT ![Victim].state = 0, ![Victim].lru = 0]
              /\ usedBefore' = Forgotten(Victim) /\ pool' = pool
          BY <3>1, <4>3 DEF WriterEvict
        <5>2. totalCache' \in Nat
          <6>1. cache[Victim].state \in Nat
            <7>1. Victim \in Entries
              BY <4>1, <4>3
            <7>2. cache[Victim].state \in Lengths \cup {0}
              BY <7>1
            <7> QED
              BY <7>2, LengthsAre
          <6> QED
            BY <3>1, <4>3, <5>1, <6>1
        <5> QED
          BY <4>1, <4>3, <5>1, <5>2 DEF Forgotten
      <4> QED
        BY <4>2, <4>3
    <3>2. CASE WriterTotal(t)
      BY <3>0, <3>2 DEF WriterTotal
    <3>3. CASE WriterPut(t)
      BY <3>0, <3>3 DEF WriterPut, UsedLast, InUse
    <3>4. CASE WriterUpdate(t)
      BY <3>4 DEF WriterUpdate, Updated
    <3>5. CASE WriterStore(t)
      <4>1. body[t] \in Bodies
        <5>1. body[t] = [from |-> url[t], len |-> size[t]]
          BY <3>5 DEF WriterStore, Goto, WritersHold, WriterAt
        <5> QED
          BY <5>1 DEF Bodies
      <4> QED
        BY <3>5, <4>1 DEF WriterStore
    <3> QED
      BY <2>3, <3>1, <3>2, <3>3, <3>4, <3>5 DEF WritesSome
  <2> QED
    BY <2>1, <2>2, <2>3, StepShared
<1>6. idx' \in [Workers -> Entries \cup {-1}] /\ size' \in [Workers -> Lengths \cup {0}]
      /\ body' \in [Workers -> Bodies \cup {TornBody}]
  <2> USE DEF TypeOK, localVars
  <2>1. CASE Request(t)
    BY <2>1 DEF Request
  <2>2. CASE Respond(t) \/ WriterUnlock(t)
    <3>1. NoBody \in Bodies
      BY DEF NoBody, Bodies
    <3> QED
      BY <2>2, <3>1 DEF Respond, WriterUnlock
  <2>3. CASE Fetch(t)
    <3>1. PICK n \in Lengths : /\ size' = [size EXCEPT ![t] = n]
                               /\ body' = [body EXCEPT ![t] = [from |-> url[t], len |-> n]]
      BY <2>3 DEF Fetch
    <3>2. [from |-> url[t], len |-> n] \in Bodies
      BY DEF Bodies
    <3> QED
      BY <2>3, <3>1, <3>2 DEF Fetch
  <2>4. CASE ReaderFind(t)
    <3>1. Isin(url[t].site) \in Entries \cup {-1}
      BY IsinFinds DEF InUse
    <3> QED
      BY <2>4, <3>1 DEF ReaderFind
  <2>5. CASE ReaderSize(t)
    <3>1. cache[idx[t]].state \in Lengths \cup {0}
      BY <2>5 DEF ReaderSize, Goto, ReadersHold, AtEntry, InUse
    <3> QED
      BY <2>5, <3>1 DEF ReaderSize
  <2>6. CASE ReaderCopy(t)
    <3>1. idx[t] \in Entries
      BY <2>6 DEF ReaderCopy, Goto, ReadersHold, AtEntry, InUse
    <3> QED
      BY <2>6, <3>1 DEF ReaderCopy
  <2>7. CASE WriterFind(t) \/ WriterEvict(t)
    <3>1. Find \in Entries \cup {-1} /\ Victim \in Entries \cup {-1}
      BY FindFinds, VictimIsOldest DEF InUse
    <3> QED
      BY <2>7, <3>1 DEF WriterFind, WriterEvict
  <2>8. CASE ReaderLock(t) \/ ReaderEnter(t) \/ ReaderWait(t) \/ Unlock(t, "rUnlock", "find")
             \/ UpdateLock(t) \/ ReaderUpdate(t) \/ ReaderReset(t) \/ Unlock(t, "uUnlock", "xLock")
             \/ LeaveLock(t) \/ ReaderLeave(t)
             \/ Unlock(t, "xUnlock", IF idx[t] = -1 THEN "fetch" ELSE "respond")
    BY <2>8 DEF ReaderLock, ReaderEnter, ReaderWait, Unlock, UpdateLock, ReaderUpdate, ReaderReset,
                LeaveLock, ReaderLeave
  <2>9. CASE WriterLock(t) \/ WriterCheck(t) \/ WriterTotal(t) \/ WriterPut(t) \/ WriterUpdate(t)
             \/ WriterStore(t)
    BY <2>9 DEF WriterLock, WriterCheck, WriterTotal, WriterPut, WriterUpdate, WriterStore
  <2> QED
    BY <2>1, <2>2, <2>3, <2>4, <2>5, <2>6, <2>7, <2>8, <2>9 DEF Step, Reader, Writer
<1> QED
  BY <1>1, <1>2, <1>3, <1>4, <1>5, <1>6 DEF TypeOK

(***************************************************************************)
(* What readers and writers rely on                                        *)
(***************************************************************************)

\* Aging, counting and copying leave sites and lengths as they are.
LEMMA EntriesStay ==
    ASSUME TypeOK, ReadersHold, NEW t \in Workers, Step(t), ~WriterEvict(t), ~WriterPut(t)
    PROVE  /\ \A i \in Entries : cache'[i].state = cache[i].state /\ cache'[i].site = cache[i].site
           /\ InUse' = InUse /\ Held' = Held
<1>1. \A i \in Entries : cache'[i].state = cache[i].state /\ cache'[i].site = cache[i].site
  <2> USE DEF TypeOK
  <2>1. CASE UNCHANGED sharedVars
    BY <2>1 DEF sharedVars
  <2>2. CASE ReaderUpdate(t) \/ WriterUpdate(t)
    BY <2>2 DEF ReaderUpdate, WriterUpdate, Updated
  <2>3. CASE ReaderReset(t)
    <3>1. cache' = [cache EXCEPT ![idx[t]].lru = 0]
      BY <2>3 DEF ReaderReset
    <3> QED
      BY <3>1
  <2>4. CASE WriterTotal(t) \/ WriterStore(t)
    BY <2>4 DEF WriterTotal, WriterStore
  <2> QED
    BY <2>1, <2>2, <2>3, <2>4, StepShared DEF AgesSome, WritesSome
<1> QED
  BY <1>1 DEF InUse, Held

LEMMA ReadersKept ==
    ASSUME TypeOK, CacheHeld, ReadersHold, WritersHold, EntriesWhole, NEW t \in Workers, Step(t)
    PROVE  ReadersHold'
<1>1. ASSUME NEW u \in Workers, u # t
      PROVE  /\ pc'[u] \in AtEntry => idx'[u] \in InUse' /\ cache'[idx'[u]].site = url'[u].site
             /\ pc'[u] = "copy" => size'[u] = cache'[idx'[u]].state
             /\ HasCopy(u)' => /\ body'[u].len = size'[u] /\ size'[u] # 0
                               /\ body'[u].from.site = url'[u].site
  <2>1. pc'[u] = pc[u]
    BY <1>1, StepMoves DEF Moves
  <2>2. url'[u] = url[u] /\ idx'[u] = idx[u] /\ size'[u] = size[u] /\ body'[u] = body[u]
    BY <1>1, StepLocals
  <2>3. ASSUME pc[u] \in AtEntry
        PROVE  /\ InUse' = InUse /\ idx[u] \in Entries
               /\ cache'[idx[u]].site = cache[idx[u]].site /\ cache'[idx[u]].state = cache[idx[u]].state
    <3>1. Reading(u)
      BY <2>3 DEF AtEntry, Reading
    <3>2. ~Writing(t)
      BY <1>1, <3>1 DEF CacheHeld
    <3>3. ~WriterEvict(t) /\ ~WriterPut(t)
      BY <3>2 DEF WriterEvict, WriterPut, Goto, Writing, WriterAt
    <3>4. idx[u] \in Entries
      BY <2>3 DEF ReadersHold, InUse
    <3> QED
      BY <3>3, <3>4, EntriesStay
  <2>4. pc[u] = "copy" => pc[u] \in AtEntry
    BY DEF AtEntry
  <2> QED
    BY <2>1, <2>2, <2>3, <2>4 DEF ReadersHold, HasCopy
<1>2. /\ pc'[t] \in AtEntry => idx'[t] \in InUse' /\ cache'[idx'[t]].site = url'[t].site
      /\ pc'[t] = "copy" => size'[t] = cache'[idx'[t]].state
      /\ HasCopy(t)' => /\ body'[t].len = size'[t] /\ size'[t] # 0
                        /\ body'[t].from.site = url'[t].site
  <2> USE DEF AtEntry, HasCopy, Goto, localVars
  <2>1. CASE Request(t) \/ Respond(t) \/ Fetch(t)
    BY <2>1 DEF Request, Respond, Fetch, TypeOK
  <2>2. CASE ReaderLock(t) \/ ReaderEnter(t) \/ ReaderWait(t) \/ Unlock(t, "rUnlock", "find")
    BY <2>2 DEF ReaderLock, ReaderEnter, ReaderWait, Unlock, TypeOK
  <2>3. CASE ReaderFind(t)
    <3>1. /\ pc'[t] = (IF Isin(url[t].site) = -1 THEN "xLock" ELSE "size")
          /\ idx'[t] = Isin(url[t].site) /\ cache' = cache /\ InUse' = InUse /\ url' = url
      BY <2>3 DEF ReaderFind, TypeOK, sharedVars, InUse
    <3> QED
      BY <3>1, IsinFinds
  <2>4. CASE ReaderSize(t)
    BY <2>4 DEF ReaderSize, ReadersHold, TypeOK, sharedVars, InUse
  <2>5. CASE ReaderCopy(t)
    <3>1. idx[t] \in InUse /\ cache[idx[t]].site = url[t].site /\ size[t] = cache[idx[t]].state
      BY <2>5 DEF ReaderCopy, ReadersHold
    <3>2. Reading(t)
      BY <2>5 DEF ReaderCopy, Reading
    <3>3. \A u \in Workers : ~(pc[u] \in {"age", "store"})
      BY <3>2 DEF CacheHeld, Writing, Reading, WriterAt
    <3>4. pool[idx[t]].len = cache[idx[t]].state /\ pool[idx[t]].from.site = cache[idx[t]].site
      BY <3>1, <3>3 DEF EntriesWhole
    <3>5. /\ pc'[t] = "uLock" /\ body'[t] = pool[idx[t]] /\ size' = size /\ idx' = idx /\ url' = url
          /\ InUse' = InUse /\ cache' = cache
      BY <2>5, <3>1, <3>4 DEF ReaderCopy, TypeOK, sharedVars, InUse
    <3>6. size[t] # 0
      BY <3>1 DEF InUse
    <3> QED
      BY <3>1, <3>4, <3>5, <3>6
  <2>6. CASE UpdateLock(t) \/ ReaderUpdate(t) \/ ReaderReset(t) \/ Unlock(t, "uUnlock", "xLock")
    <3>1. /\ pc[t] \in {"uLock", "update", "reset", "uUnlock"}
          /\ pc'[t] \in {"update", "reset", "uUnlock", "xLock"} /\ UNCHANGED localVars
      BY <2>6 DEF UpdateLock, ReaderUpdate, ReaderReset, Unlock, TypeOK
    <3>2. ~WriterEvict(t) /\ ~WriterPut(t)
      BY <3>1 DEF WriterEvict, WriterPut
    <3>3. idx[t] \in InUse /\ cache[idx[t]].site = url[t].site
      BY <3>1 DEF ReadersHold
    <3>4. InUse' = InUse /\ cache'[idx[t]].site = cache[idx[t]].site
      BY <3>2, <3>3, EntriesStay DEF InUse
    <3> QED
      BY <3>1, <3>3, <3>4 DEF ReadersHold
  <2>7. CASE LeaveLock(t) \/ ReaderLeave(t)
             \/ Unlock(t, "xUnlock", IF idx[t] = -1 THEN "fetch" ELSE "respond")
    BY <2>7 DEF LeaveLock, ReaderLeave, Unlock, ReadersHold, TypeOK
  <2>8. CASE Writer(t)
    <3>1. pc'[t] \in WriterAt \cup {"idle"}
      BY <2>8 DEF Writer, WriterLock, WriterCheck, WriterFind, WriterEvict, WriterTotal, WriterPut,
                  WriterUpdate, WriterStore, WriterUnlock, WriterAt, TypeOK
    <3> QED
      BY <3>1 DEF WriterAt
  <2> QED
    BY <2>1, <2>2, <2>3, <2>4, <2>5, <2>6, <2>7, <2>8 DEF Step, Reader
<1>3. \A u \in Workers :
          /\ pc'[u] \in AtEntry => idx'[u] \in InUse' /\ cache'[idx'[u]].site = url'[u].site
          /\ pc'[u] = "copy" => size'[u] = cache'[idx'[u]].state
          /\ HasCopy(u)' => /\ body'[u].len = size'[u] /\ size'[u] # 0
                            /\ body'[u].from.site = url'[u].site
  BY <1>1, <1>2
<1> QED
  BY <1>3 DEF ReadersHold

LEMMA WritersKept ==
    ASSUME TypeOK, CacheHeld, ReadersHold, WritersHold, NEW t \in Workers, Step(t)
    PROVE  WritersHold'
<1> DEFINE Good(u) ==
        /\ pc[u] \in WriterAt => body[u] = [from |-> url[u], len |-> size[u]]
        /\ pc[u] \in {"choose", "total"} => totalCache + size[u] <= MaxCacheSize
        /\ pc[u] \in {"total", "put"} /\ idx[u] # -1 => cache[idx[u]].state = 0
        /\ pc[u] \in {"age", "store"} =>
               /\ idx[u] # -1
               /\ cache[idx[u]].site = url[u].site /\ cache[idx[u]].state = size[u]
<1>1. ASSUME NEW u \in Workers, u # t PROVE Good(u)'
  <2>1. pc'[u] = pc[u]
    BY <1>1, StepMoves DEF Moves
  <2>2. url'[u] = url[u] /\ idx'[u] = idx[u] /\ size'[u] = size[u] /\ body'[u] = body[u]
    BY <1>1, StepLocals
  <2>3. Writing(u) => cache' = cache /\ totalCache' = totalCache
    BY <1>1, Alone DEF sharedVars
  <2>4. pc[u] \in {"choose", "total", "put", "age", "store"} => Writing(u)
    BY DEF Writing, WriterAt
  <2>5. Good(u)
    BY DEF WritersHold
  <2> QED
    BY <2>1, <2>2, <2>3, <2>4, <2>5
<1>2. Good(t)'
  <2> USE DEF WriterAt, Goto, localVars
  <2>1. CASE Request(t) \/ Respond(t)
    BY <2>1 DEF Request, Respond, TypeOK
  <2>2. CASE Fetch(t)
    BY <2>2 DEF Fetch, TypeOK
  <2>3. CASE Reader(t)
    <3>1. pc'[t] \in ReaderAt \cup {"fetch", "respond"}
      BY <2>3 DEF Reader, ReaderLock, ReaderEnter, ReaderWait, Unlock, ReaderFind, ReaderSize, ReaderCopy,
                  UpdateLock, ReaderUpdate, ReaderReset, LeaveLock, ReaderLeave, ReaderAt, TypeOK
    <3> QED
      BY <3>1 DEF ReaderAt
  <2>4. CASE WriterLock(t)
    BY <2>4 DEF WriterLock, WritersHold, TypeOK
  <2>5. CASE WriterCheck(t)
    <3>1. /\ pc'[t] = (IF size[t] > MaxObjectSize \/ totalCache + size[t] > MaxCacheSize
                       THEN "wUnlock" ELSE "choose")
          /\ pc[t] = "check" /\ UNCHANGED <<cache, totalCache, localVars>>
      BY <2>5 DEF WriterCheck, TypeOK, sharedVars
    <3>2. size[t] \in Nat /\ totalCache \in Nat
      BY LengthsAre DEF TypeOK
    <3> QED
      BY <3>1, <3>2, MaxSizesAssumption DEF WritersHold
  <2>6. CASE WriterFind(t)
    <3>1. Find \in Entries \ InUse
      BY <2>6, FindFinds DEF WriterFind
    <3>2. cache[Find].state = 0
      BY <3>1 DEF InUse
    <3>3. /\ pc[t] = "choose" /\ pc'[t] = "total" /\ idx'[t] = Find
          /\ UNCHANGED <<cache, totalCache, url, size, body>>
      BY <2>6 DEF WriterFind, TypeOK, sharedVars
    <3> QED
      BY <3>2, <3>3 DEF WritersHold
  <2>7. CASE WriterEvict(t)
    <3>1. Victim \in Entries \cup {-1}
      BY VictimIsOldest DEF TypeOK
    <3>2. /\ pc[t] = "choose" /\ pc'[t] = "total" /\ idx'[t] = Victim /\ UNCHANGED <<url, size, body>>
      BY <2>7 DEF WriterEvict, TypeOK
    <3>3. CASE Victim = -1
      <4>1. UNCHANGED <<cache, totalCache>>
        BY <2>7, <3>3 DEF WriterEvict
      <4> QED
        BY <3>2, <3>3, <4>1 DEF WritersHold
    <3>4. CASE Victim # -1
      <4>1. cache'[Victim].state = 0 /\ totalCache' = totalCache - cache[Victim].state
        BY <2>7, <3>1, <3>4 DEF WriterEvict, TypeOK
      <4>2. cache[Victim].state \in Nat /\ totalCache \in Nat /\ size[t] \in Nat
        BY <3>1, <3>4, LengthsAre DEF TypeOK
      <4> QED
        BY <3>2, <4>1, <4>2, MaxSizesAssumption DEF WritersHold
    <3> QED
      BY <3>3, <3>4
  <2>8. CASE WriterTotal(t)
    BY <2>8 DEF WriterTotal, WritersHold, TypeOK
  <2>9. CASE WriterPut(t)
    <3>1. idx[t] \in Entries
      BY <2>9 DEF WriterPut, TypeOK
    <3> QED
      BY <2>9, <3>1 DEF WriterPut, WritersHold, TypeOK
  <2>10. CASE WriterUpdate(t)
    <3>1. pc[t] = "age" /\ pc'[t] = "store" /\ UNCHANGED localVars
      BY <2>10 DEF WriterUpdate, TypeOK
    <3>2. ~WriterEvict(t) /\ ~WriterPut(t) /\ idx[t] \in Entries
      BY <3>1 DEF WriterEvict, WriterPut, WritersHold, TypeOK
    <3>3. cache'[idx[t]].site = cache[idx[t]].site /\ cache'[idx[t]].state = cache[idx[t]].state
      BY <3>2, EntriesStay
    <3> QED
      BY <3>1, <3>3 DEF WritersHold
  <2>11. CASE WriterStore(t) \/ WriterUnlock(t)
    BY <2>11 DEF WriterStore, WriterUnlock, WritersHold, TypeOK
  <2> QED
    BY <2>1, <2>2, <2>3, <2>4, <2>5, <2>6, <2>7, <2>8, <2>9, <2>10, <2>11 DEF Step, Writer
<1>3. \A u \in Workers : Good(u)'
  BY <1>1, <1>2
<1> QED
  BY <1>3 DEF WritersHold

\* What a step may do to one entry, and leaves to the others.
LEMMA OneEntry ==
    ASSUME TypeOK, NEW t \in Workers, (WriterEvict(t) /\ Victim # -1) \/ WriterPut(t)
    PROVE  /\ idx'[t] \in Entries
           /\ \A i \in Entries \ {idx'[t]} : cache'[i] = cache[i]
           /\ cache'[idx'[t]].lru = 0
           /\ WriterEvict(t) => cache'[idx'[t]].state = 0
           /\ WriterPut(t) => cache'[idx'[t]].state = size[t] /\ cache'[idx'[t]].site = url[t].site
<1> USE DEF TypeOK, localVars
<1>1. CASE WriterEvict(t) /\ Victim # -1
  <2>1. Victim \in Entries
    BY <1>1, VictimIsOldest
  <2>2. idx'[t] = Victim /\ cache' = [cache EXCEPT ![Victim].state = 0, ![Victim].lru = 0]
    BY <1>1 DEF WriterEvict
  <2>3. ~WriterPut(t)
    BY <1>1 DEF WriterEvict, WriterPut, Goto
  <2> QED
    BY <2>1, <2>2, <2>3
<1>2. CASE WriterPut(t)
  <2>1. ~WriterEvict(t)
    BY <1>2 DEF WriterEvict, WriterPut, Goto
  <2> QED
    BY <1>2, <2>1 DEF WriterPut
<1> QED
  BY <1>1, <1>2

LEMMA EntriesKept ==
    ASSUME TypeOK, CacheHeld, ReadersHold, WritersHold, EntriesWhole, NEW t \in Workers, Step(t)
    PROVE  EntriesWhole'
<1> DEFINE Whole(i) == pool[i].len = cache[i].state /\ pool[i].from.site = cache[i].site
           Torn(i) == \E u \in Workers : pc[u] \in {"age", "store"} /\ idx[u] = i
<1>0. \A i \in InUse : Whole(i) \/ Torn(i)
  BY DEF EntriesWhole
<1> SUFFICES ASSUME NEW i \in InUse' PROVE Whole(i)' \/ Torn(i)'
  BY DEF EntriesWhole
<1>1. i \in Entries
  BY DEF InUse
<1>2. CASE WriterEvict(t) \/ WriterPut(t)
  <2>1. pool' = pool /\ Writing(t) /\ ~(pc[t] \in {"age", "store"})
    BY <1>2 DEF WriterEvict, WriterPut, Goto, Writing, WriterAt
  <2>2. ~Torn(i)
    BY <2>1 DEF CacheHeld, Writing, WriterAt
  <2>3. CASE WriterEvict(t) /\ Victim = -1
    BY <1>0, <2>1, <2>2, <2>3 DEF WriterEvict, InUse
  <2>4. CASE WriterEvict(t) /\ Victim # -1
    <3>1. i # idx'[t]
      BY <2>4, OneEntry DEF InUse
    <3>2. cache'[i] = cache[i]
      BY <1>1, <2>4, <3>1, OneEntry
    <3> QED
      BY <1>0, <1>1, <2>1, <2>2, <3>2 DEF InUse
  <2>5. CASE WriterPut(t)
    <3>1. pc'[t] = "age" /\ idx' = idx
      BY <2>5 DEF WriterPut, Goto, TypeOK, localVars
    <3>2. CASE i = idx[t]
      BY <3>1, <3>2
    <3>3. CASE i # idx[t]
      <4>1. cache'[i] = cache[i]
        BY <1>1, <2>5, <3>1, <3>3, OneEntry
      <4> QED
        BY <1>0, <1>1, <2>1, <2>2, <4>1 DEF InUse
    <3> QED
      BY <3>2, <3>3
  <2> QED
    BY <1>2, <2>3, <2>4, <2>5
<1>3. CASE ~WriterEvict(t) /\ ~WriterPut(t)
  <2>1. cache'[i].state = cache[i].state /\ cache'[i].site = cache[i].site /\ i \in InUse
    BY <1>1, <1>3, EntriesStay
  <2>2. CASE WriterStore(t)
    <3>1. /\ pool' = [pool EXCEPT ![idx[t]] = body[t]] /\ pc[t] = "store" /\ UNCHANGED cache
      BY <2>2 DEF WriterStore, Goto
    <3>2. body[t] = [from |-> url[t], len |-> size[t]] /\ idx[t] \in Entries
          /\ cache[idx[t]].site = url[t].site /\ cache[idx[t]].state = size[t]
      BY <3>1 DEF WritersHold, WriterAt, TypeOK
    <3>3. CASE i = idx[t]
      BY <3>1, <3>2, <3>3 DEF TypeOK
    <3>4. CASE i # idx[t]
      <4>1. ~Torn(i)
        BY <3>1, <3>4 DEF CacheHeld, Writing, WriterAt
      <4> QED
        BY <1>0, <2>1, <3>1, <3>4, <4>1 DEF TypeOK
    <3> QED
      BY <3>3, <3>4
  <2>3. CASE ~WriterStore(t)
    <3>1. pool' = pool
      <4>1. ReaderUpdate(t) \/ ReaderReset(t) \/ WriterTotal(t) \/ WriterUpdate(t) \/ UNCHANGED sharedVars
        BY <1>3, <2>3, StepShared DEF AgesSome, WritesSome
      <4> QED
        BY <4>1 DEF ReaderUpdate, ReaderReset, WriterTotal, WriterUpdate, sharedVars
    <3>2. Torn(i) => Torn(i)'
      <4> SUFFICES ASSUME NEW u \in Workers, pc[u] \in {"age", "store"}, idx[u] = i PROVE Torn(i)'
        OBVIOUS
      <4>1. CASE u # t
        <5>1. pc'[u] = pc[u] /\ idx'[u] = idx[u]
          BY <4>1, StepMoves, StepLocals DEF Moves
        <5> QED
          BY <5>1
      <4>2. CASE u = t
        <5>1. WriterUpdate(t)
          <6> USE DEF Goto
          <6>1. ~Reader(t)
            BY <4>2 DEF Reader, ReaderLock, ReaderEnter, ReaderWait, Unlock, ReaderFind, ReaderSize,
                        ReaderCopy, UpdateLock, ReaderUpdate, ReaderReset, LeaveLock, ReaderLeave
          <6> QED
            BY <1>3, <2>3, <4>2, <6>1 DEF Step, Request, Respond, Fetch, Writer, WriterLock, WriterCheck,
                 WriterFind, WriterEvict, WriterTotal, WriterPut, WriterUnlock
        <5>2. pc'[t] = "store" /\ idx' = idx
          BY <5>1 DEF WriterUpdate, Goto, TypeOK, localVars
        <5> QED
          BY <4>2, <5>2
      <4> QED
        BY <4>1, <4>2
    <3> QED
      BY <1>0, <2>1, <3>1, <3>2
  <2> QED
    BY <2>2, <2>3
<1> QED
  BY <1>2, <1>3

(***************************************************************************)
(* The total                                                               *)
(***************************************************************************)

\* Of what is held when an entry changes its length.
LEMMA HeldAfter ==
    ASSUME TypeOK, NEW i \in Entries, \A j \in Entries \ {i} : cache'[j] = cache[j], cache'[i].state \in Nat
    PROVE  /\ Cardinality(Held) \in Nat /\ Cardinality(Held) >= cache[i].state /\ cache[i].state \in Nat
           /\ Cardinality(Held)' = Cardinality(Held) - cache[i].state + cache'[i].state
<1> DEFINE n == [j \in Entries |-> cache[j].state]
           m == [j \in Entries |-> cache'[j].state]
<1>1. n \in [Entries -> Nat]
  BY LengthsAre DEF TypeOK
<1>2. \A j \in Entries \ {i} : m[j] = n[j]
  OBVIOUS
<1>3. m \in [Entries -> Nat]
  <2>1. \A j \in Entries : m[j] \in Nat
    BY <1>1, <1>2
  <2> QED
    BY <2>1
<1>4. Held = HeldIn(n) /\ Held' = HeldIn(m)
  BY HeldIs DEF Held, HeldIn, Bytes
<1>5. n[i] = cache[i].state /\ m[i] = cache'[i].state
  OBVIOUS
<1> HIDE DEF n, m
<1> QED
  BY <1>1, <1>2, <1>3, <1>4, <1>5, HeldChanges

LEMMA EvictedCounted ==
    ASSUME TypeOK, CacheHeld, TotalHeld, NEW t \in Workers, WriterEvict(t), Victim # -1
    PROVE  /\ totalCache >= cache[Victim].state /\ cache[Victim].state \in Nat
           /\ totalCache' = Cardinality(Held)'
<1>1. Victim \in Entries
  BY VictimIsOldest DEF TypeOK
<1>2. totalCache = Cardinality(Held)
  <2>1. Writing(t) /\ pc[t] # "put"
    BY DEF WriterEvict, Goto, Writing, WriterAt
  <2>2. \A u \in Workers : pc[u] # "put"
    BY <2>1 DEF CacheHeld, Writing, WriterAt
  <2> QED
    BY <2>2 DEF TotalHeld
<1>3. /\ totalCache' = totalCache - cache[Victim].state
      /\ cache' = [cache EXCEPT ![Victim].state = 0, ![Victim].lru = 0]
  BY DEF WriterEvict
<1>4. cache'[Victim].state = 0 /\ \A j \in Entries \ {Victim} : cache'[j] = cache[j]
  BY <1>1, <1>3 DEF TypeOK
<1>5. /\ Cardinality(Held) >= cache[Victim].state /\ cache[Victim].state \in Nat
      /\ Cardinality(Held)' = Cardinality(Held) - cache[Victim].state + 0
  BY <1>1, <1>4, HeldAfter
<1> QED
  BY <1>2, <1>3, <1>5 DEF TypeOK

LEMMA TotalKept ==
    ASSUME TypeOK, CacheHeld, ReadersHold, WritersHold, TotalHeld, totalCache <= MaxCacheSize,
           NEW t \in Workers, Step(t)
    PROVE  TotalHeld' /\ totalCache' <= MaxCacheSize
<1>0. size[t] \in Nat /\ totalCache \in Nat /\ MaxCacheSize \in Nat
  BY LengthsAre, MaxSizesAssumption DEF TypeOK
<1>1. \A u \in Workers \ {t} : pc'[u] = pc[u] /\ size'[u] = size[u]
  BY StepMoves, StepLocals DEF Moves
<1>2. Writing(t) => \A u \in Workers \ {t} : pc[u] # "put" /\ pc'[u] # "put"
  BY <1>1 DEF CacheHeld, Writing, WriterAt
<1>3. CASE WriterEvict(t)
  <2>1. pc'[t] = "total" /\ Writing(t)
    BY <1>3 DEF WriterEvict, Goto, Writing, WriterAt, TypeOK
  <2>2. \A u \in Workers : pc'[u] # "put"
    BY <1>2, <2>1
  <2>3. totalCache' = Cardinality(Held)' /\ totalCache' <= MaxCacheSize
    <3>1. CASE Victim = -1
      <4>1. totalCache' = totalCache /\ cache' = cache
        BY <1>3, <3>1 DEF WriterEvict
      <4>2. totalCache = Cardinality(Held)
        BY <1>3, <2>1, <1>2 DEF TotalHeld, WriterEvict, Goto
      <4> QED
        BY <4>1, <4>2 DEF Held
    <3>2. CASE Victim # -1
      <4>1. /\ totalCache >= cache[Victim].state /\ cache[Victim].state \in Nat
            /\ totalCache' = Cardinality(Held)'
        BY <1>3, <3>2, EvictedCounted
      <4>2. totalCache' = totalCache - cache[Victim].state
        BY <1>3, <3>2 DEF WriterEvict
      <4> QED
        BY <1>0, <4>1, <4>2
    <3> QED
      BY <3>1, <3>2
  <2> QED
    BY <2>2, <2>3 DEF TotalHeld
<1>4. CASE WriterPut(t)
  <2>1. pc[t] = "put" /\ pc'[t] = "age" /\ totalCache' = totalCache /\ Writing(t) /\ idx[t] # -1
        /\ idx'[t] = idx[t]
    BY <1>4 DEF WriterPut, Goto, Writing, WriterAt, TypeOK, localVars
  <2>2. totalCache = Cardinality(Held) + size[t]
    BY <2>1 DEF TotalHeld
  <2>3. cache[idx[t]].state = 0
    BY <2>1 DEF WritersHold
  <2>4. idx[t] \in Entries /\ cache'[idx[t]].state = size[t] /\ \A j \in Entries \ {idx[t]} : cache'[j] = cache[j]
    BY <1>4, <2>1, OneEntry
  <2>5. Cardinality(Held) \in Nat /\ Cardinality(Held)' = Cardinality(Held) - 0 + size[t]
    BY <1>0, <2>3, <2>4, HeldAfter
  <2>6. totalCache' = Cardinality(Held)'
    BY <1>0, <2>1, <2>2, <2>5
  <2>7. \A u \in Workers : pc'[u] # "put"
    BY <1>2, <2>1
  <2> QED
    BY <2>1, <2>6, <2>7 DEF TotalHeld
<1>5. CASE WriterTotal(t)
  <2>1. /\ pc[t] = "total" /\ pc'[t] = "put" /\ totalCache' = totalCache + size[t] /\ cache' = cache
        /\ size' = size /\ Writing(t)
    BY <1>5 DEF WriterTotal, Goto, Writing, WriterAt, TypeOK, localVars
  <2>2. totalCache = Cardinality(Held)
    BY <1>2, <2>1 DEF TotalHeld
  <2>3. Cardinality(Held)' = Cardinality(Held)
    BY <2>1 DEF Held
  <2>4. totalCache' <= MaxCacheSize
    BY <2>1 DEF WritersHold
  <2>5. totalCache' = Cardinality(Held)' + size'[t]
    BY <2>1, <2>2, <2>3
  <2> QED
    BY <1>2, <2>1, <2>4, <2>5 DEF TotalHeld
<1>6. CASE ~WriterEvict(t) /\ ~WriterPut(t) /\ ~WriterTotal(t)
  <2>1. Held' = Held
    BY <1>6, EntriesStay
  <2>2. totalCache' = totalCache
    <3>1. \/ ReaderUpdate(t) \/ ReaderReset(t) \/ WriterUpdate(t) \/ WriterStore(t)
          \/ UNCHANGED sharedVars
      BY <1>6, StepShared DEF AgesSome, WritesSome
    <3> QED
      BY <3>1 DEF ReaderUpdate, ReaderReset, WriterUpdate, WriterStore, sharedVars
  <2>3. pc[t] # "put" /\ pc'[t] # "put"
    <3> USE DEF Goto, TypeOK
    <3>1. CASE Request(t) \/ Respond(t) \/ Fetch(t)
      BY <3>1 DEF Request, Respond, Fetch
    <3>2. CASE Reader(t)
      BY <3>2 DEF Reader, ReaderLock, ReaderEnter, ReaderWait, Unlock, ReaderFind, ReaderSize, ReaderCopy,
                  UpdateLock, ReaderUpdate, ReaderReset, LeaveLock, ReaderLeave
    <3>3. CASE Writer(t)
      <4>1. WriterLock(t) \/ WriterCheck(t) \/ WriterFind(t) \/ WriterUpdate(t) \/ WriterStore(t)
            \/ WriterUnlock(t)
        BY <1>6, <3>3 DEF Writer
      <4> QED
        BY <4>1 DEF WriterLock, WriterCheck, WriterFind, WriterUpdate, WriterStore, WriterUnlock
    <3> QED
      BY <3>1, <3>2, <3>3 DEF Step
  <2>4. \A u \in Workers : pc'[u] = "put" <=> pc[u] = "put"
    BY <1>1, <2>3
  <2>5. \A u \in Workers : pc[u] = "put" => size'[u] = size[u]
    BY <1>1, <2>3
  <2> QED
    BY <2>1, <2>2, <2>4, <2>5 DEF TotalHeld
<1> QED
  BY <1>3, <1>4, <1>5, <1>6

(***************************************************************************)
(* Ages and the order of uses                                              *)
(***************************************************************************)

\* An entry is used: it becomes the last, of age 0.
LEMMA UsedLastOrdered ==
    ASSUME TypeOK, UsesOrdered, NEW i \in Entries,
           InUse' = InUse \cup {i}, usedBefore' = UsedLast(i), cache'[i].lru = 0,
           \A j \in InUse \ {i} : cache'[j].lru = cache[j].lru,
           \A k, j \in InUse \ {i} : <<k, j>> \in usedBefore => cache[k].lru > 0
    PROVE  UsesOrdered'
<1>1. \A j \in InUse : cache[j].lru \in Nat
  BY DEF TypeOK, InUse
<1>2. \A p : p \in usedBefore' <=> \/ p \in usedBefore /\ p[1] # i
                                   \/ \E j \in InUse \ {i} : p = <<j, i>>
  BY DEF UsedLast
<1>3. \A p \in usedBefore' : p[1] \in InUse' /\ p[2] \in InUse' /\ p[1] # p[2]
  BY <1>2 DEF UsesOrdered
<1>4. \A j, k \in InUse' : j = k \/ <<j, k>> \in usedBefore' \/ <<k, j>> \in usedBefore'
  <2> SUFFICES ASSUME NEW j \in InUse', NEW k \in InUse', j # k
               PROVE  <<j, k>> \in usedBefore' \/ <<k, j>> \in usedBefore'
    OBVIOUS
  <2>1. CASE j = i \/ k = i
    BY <1>2, <2>1
  <2>2. CASE j # i /\ k # i
    BY <1>2, <2>2 DEF UsesOrdered
  <2> QED
    BY <2>1, <2>2
<1>5. \A j, k : <<j, k>> \in usedBefore' => /\ j \in InUse \ {i}
                                            /\ k # i => k \in InUse /\ <<j, k>> \in usedBefore
  BY <1>2 DEF UsesOrdered
<1>6. \A j, k \in InUse' : <<k, j>> \in usedBefore' => cache'[k].lru >= cache'[j].lru
  BY <1>1, <1>5 DEF UsesOrdered
<1>7. \A h, j, k \in InUse' :
          <<k, j>> \in usedBefore' /\ <<j, h>> \in usedBefore' => cache'[k].lru > cache'[h].lru
  BY <1>1, <1>5 DEF UsesOrdered
<1> QED
  BY <1>3, <1>4, <1>6, <1>7 DEF UsesOrdered

\* An entry is given up.
LEMMA ForgottenOrdered ==
    ASSUME TypeOK, UsesOrdered, NEW i \in Entries,
           InUse' = InUse \ {i}, usedBefore' = Forgotten(i),
           \A j \in InUse \ {i} : cache'[j].lru = cache[j].lru
    PROVE  UsesOrdered'
<1>1. \A p : p \in usedBefore' <=> p \in usedBefore /\ p[1] # i /\ p[2] # i
  BY DEF Forgotten
<1>2. \A j, k : <<j, k>> \in usedBefore' <=> <<j, k>> \in usedBefore /\ j # i /\ k # i
  BY <1>1
<1>3. \A p \in usedBefore' : p[1] \in InUse' /\ p[2] \in InUse' /\ p[1] # p[2]
  BY <1>1 DEF UsesOrdered
<1>4. \A j, k \in InUse' : j = k \/ <<j, k>> \in usedBefore' \/ <<k, j>> \in usedBefore'
  BY <1>2 DEF UsesOrdered
<1>5. \A j, k \in InUse' : <<k, j>> \in usedBefore' => cache'[k].lru >= cache'[j].lru
  BY <1>2 DEF UsesOrdered
<1>6. \A h, j, k \in InUse' :
          <<k, j>> \in usedBefore' /\ <<j, h>> \in usedBefore' => cache'[k].lru > cache'[h].lru
  BY <1>2 DEF UsesOrdered
<1> QED
  BY <1>3, <1>4, <1>5, <1>6 DEF UsesOrdered

\* Every entry in use grows older.
LEMMA AgedOrdered ==
    ASSUME TypeOK, UsesOrdered, cache' = Updated(cache), usedBefore' = usedBefore
    PROVE  UsesOrdered' /\ \A i \in InUse' : cache'[i].lru > 0
<1>1. \A i \in Entries : cache[i].lru \in Nat /\ cache'[i].state = cache[i].state
  BY DEF TypeOK, Updated
<1>2. InUse' = InUse
  BY <1>1 DEF InUse
<1>3. \A i \in InUse : cache'[i].lru = cache[i].lru + 1 /\ cache[i].lru \in Nat
  BY DEF InUse, Updated, TypeOK
<1>4. \A j, k \in InUse : <<k, j>> \in usedBefore => cache'[k].lru >= cache'[j].lru
  BY <1>3 DEF UsesOrdered
<1>5. \A h, j, k \in InUse :
          <<k, j>> \in usedBefore /\ <<j, h>> \in usedBefore => cache'[k].lru > cache'[h].lru
  BY <1>3 DEF UsesOrdered
<1>6. \A i \in InUse' : cache'[i].lru > 0
  BY <1>2, <1>3
<1> QED
  BY <1>2, <1>4, <1>5, <1>6 DEF UsesOrdered

LEMMA AgesKept ==
    ASSUME TypeOK, MutexHeld, CacheHeld, ReadersHold, WritersHold, AgesApart, UsesOrdered,
           NEW t \in Workers, Step(t)
    PROVE  AgesApart' /\ UsesOrdered'
<1>1. \A u \in Workers \ {t} : pc'[u] = pc[u] /\ idx'[u] = idx[u]
  BY StepMoves, StepLocals DEF Moves
<1>2. Writing(t) => \A u \in Workers \ {t} : ~Writing(u) /\ ~Reading(u)
  BY DEF CacheHeld
<1>3. Reading(t) => \A u \in Workers : ~Writing(u)
  BY DEF CacheHeld, Reading, Writing, WriterAt
<1>4. \A u \in Workers : /\ pc[u] = "reset" => Reading(u) /\ InMutex(u)
                         /\ pc[u] = "age" => Writing(u)
  BY DEF Reading, InMutex, Writing, WriterAt
<1>5. CASE ReaderUpdate(t) \/ WriterUpdate(t)
  <2>1. cache' = Updated(cache) /\ usedBefore' = usedBefore
    BY <1>5 DEF ReaderUpdate, WriterUpdate
  <2>2. UsesOrdered' /\ \A i \in InUse' : cache'[i].lru > 0
    BY <2>1, AgedOrdered
  <2> QED
    BY <2>2 DEF AgesApart
<1>6. CASE ReaderReset(t)
  <2>1. pc[t] = "reset" /\ pc'[t] = "uUnlock" /\ usedBefore' = UsedLast(idx[t])
        /\ cache' = [cache EXCEPT ![idx[t]].lru = 0]
    BY <1>6 DEF ReaderReset, Goto, TypeOK
  <2>2. idx[t] \in InUse /\ idx[t] \in Entries
    BY <2>1 DEF ReadersHold, AtEntry, InUse
  <2>3. InUse' = InUse /\ cache'[idx[t]].lru = 0 /\ \A j \in InUse \ {idx[t]} : cache'[j].lru = cache[j].lru
    BY <2>1, <2>2 DEF InUse, TypeOK
  <2>4. \A j \in InUse : cache[j].lru > 0
    BY <2>1 DEF AgesApart
  <2>5. UsesOrdered'
    <3>1. InUse' = InUse \cup {idx[t]}
      BY <2>2, <2>3
    <3> QED
      BY <2>1, <2>2, <2>3, <2>4, <3>1, UsedLastOrdered
  <2>6. \A u \in Workers : pc'[u] # "reset"
    <3>1. \A u \in Workers \ {t} : pc[u] # "reset"
      BY <1>4, <2>1 DEF MutexHeld
    <3> QED
      BY <1>1, <2>1, <3>1
  <2>7. \A i, j \in InUse' : cache'[i].lru = 0 /\ cache'[j].lru = 0 => i = j
    BY <2>3, <2>4
  <2> QED
    BY <2>5, <2>6, <2>7 DEF AgesApart
<1>7. CASE WriterEvict(t)
  <2>1. pc[t] = "choose" /\ pc'[t] = "total" /\ Writing(t)
    BY <1>7 DEF WriterEvict, Goto, TypeOK, Writing, WriterAt
  <2>2. \A u \in Workers : pc[u] # "age" /\ pc'[u] # "reset"
    BY <1>1, <1>2, <1>4, <2>1
  <2>3. CASE Victim = -1
    <3>1. cache' = cache /\ usedBefore' = usedBefore
      BY <1>7, <2>3 DEF WriterEvict
    <3>2. InUse' = InUse
      BY <3>1 DEF InUse
    <3> QED
      BY <2>2, <3>1, <3>2 DEF AgesApart, UsesOrdered
  <2>4. CASE Victim # -1
    <3>1. Victim \in Entries
      BY <2>4, VictimIsOldest DEF TypeOK
    <3>2. cache' = [cache EXCEPT ![Victim].state = 0, ![Victim].lru = 0] /\ usedBefore' = Forgotten(Victim)
      BY <1>7, <2>4 DEF WriterEvict
    <3>3. InUse' = InUse \ {Victim} /\ \A j \in InUse \ {Victim} : cache'[j].lru = cache[j].lru
      BY <3>1, <3>2 DEF InUse, TypeOK
    <3>4. UsesOrdered'
      BY <3>1, <3>2, <3>3, ForgottenOrdered
    <3>5. \A i, j \in InUse' : cache'[i].lru = 0 /\ cache'[j].lru = 0 => i = j
      BY <2>2, <3>3 DEF AgesApart
    <3> QED
      BY <2>2, <3>4, <3>5 DEF AgesApart
  <2> QED
    BY <2>3, <2>4
<1>8. CASE WriterPut(t)
  <2>1. /\ pc[t] = "put" /\ pc'[t] = "age" /\ Writing(t) /\ idx[t] # -1 /\ idx'[t] = idx[t]
        /\ cache' = [cache EXCEPT ![idx[t]] = [site |-> url[t].site, state |-> size[t], lru |-> 0]]
        /\ usedBefore' = IF size[t] = 0 THEN usedBefore ELSE UsedLast(idx[t])
    BY <1>8 DEF WriterPut, Goto, TypeOK, Writing, WriterAt, localVars
  <2>2. \A u \in Workers : pc[u] # "age" /\ pc'[u] # "reset"
    BY <1>1, <1>2, <1>4, <2>1
  <2>3. idx[t] \in Entries /\ idx[t] \notin InUse
    BY <2>1 DEF WritersHold, InUse, TypeOK
  <2>4. \A j \in InUse : cache'[j].lru = cache[j].lru /\ cache[j].lru \in Nat
    BY <2>1, <2>3 DEF InUse, TypeOK
  <2>5. \A i, j \in InUse : cache[i].lru = 0 /\ cache[j].lru = 0 => i = j
    BY <2>2 DEF AgesApart
  <2>6. CASE size[t] = 0
    <3>1. usedBefore' = usedBefore
      BY <2>1, <2>6
    <3>2. InUse' = InUse
      BY <2>1, <2>3, <2>6 DEF InUse, TypeOK
    <3> QED
      BY <2>2, <2>4, <2>5, <3>1, <3>2 DEF AgesApart, UsesOrdered
  <2>7. CASE size[t] # 0
    <3>1. usedBefore' = UsedLast(idx[t])
      BY <2>1, <2>7
    <3>2. InUse' = InUse \cup {idx[t]} /\ cache'[idx[t]].lru = 0
      BY <2>1, <2>3, <2>7 DEF InUse, TypeOK
    <3>3. \A k, j \in InUse : <<k, j>> \in usedBefore => cache[k].lru > 0
      <4> SUFFICES ASSUME NEW k \in InUse, NEW j \in InUse, <<k, j>> \in usedBefore, cache[k].lru = 0
                   PROVE  FALSE
        BY <2>4
      <4>1. cache[j].lru = 0
        BY <2>4 DEF UsesOrdered
      <4>2. k # j
        BY DEF UsesOrdered
      <4> QED
        BY <2>5, <4>1, <4>2
    <3>4. UsesOrdered'
      BY <2>3, <2>4, <3>1, <3>2, <3>3, UsedLastOrdered
    <3>5. \A i, j \in InUse' : cache'[i].lru = 0 /\ cache'[j].lru = 0 => i = j \/ idx[t] \in {i, j}
      BY <2>4, <2>5, <3>2
    <3> QED
      BY <2>1, <2>2, <3>4, <3>5 DEF AgesApart
  <2> QED
    BY <2>6, <2>7
<1>9. CASE ~ReaderUpdate(t) /\ ~WriterUpdate(t) /\ ~ReaderReset(t) /\ ~WriterEvict(t) /\ ~WriterPut(t)
  <2>1. cache' = cache /\ usedBefore' = usedBefore
    <3>1. WriterTotal(t) \/ WriterStore(t) \/ UNCHANGED sharedVars
      BY <1>9, StepShared DEF AgesSome, WritesSome
    <3> QED
      BY <3>1 DEF WriterTotal, WriterStore, sharedVars
  <2>2. pc'[t] # "reset" /\ pc[t] # "age"
    <3> USE DEF Goto, TypeOK
    <3>1. CASE Request(t) \/ Respond(t) \/ Fetch(t)
      BY <3>1 DEF Request, Respond, Fetch
    <3>2. CASE Reader(t)
      <4>1. CASE Unlock(t, "xUnlock", IF idx[t] = -1 THEN "fetch" ELSE "respond")
        BY <4>1 DEF Unlock
      <4>2. CASE ReaderLock(t) \/ ReaderEnter(t) \/ ReaderWait(t) \/ Unlock(t, "rUnlock", "find")
                 \/ ReaderFind(t) \/ ReaderSize(t) \/ ReaderCopy(t) \/ UpdateLock(t)
                 \/ Unlock(t, "uUnlock", "xLock") \/ LeaveLock(t) \/ ReaderLeave(t)
        BY <4>2 DEF ReaderLock, ReaderEnter, ReaderWait, Unlock, ReaderFind, ReaderSize, ReaderCopy,
                    UpdateLock, LeaveLock, ReaderLeave
      <4> QED
        BY <1>9, <3>2, <4>1, <4>2 DEF Reader
    <3>3. CASE Writer(t)
      <4>1. WriterLock(t) \/ WriterCheck(t) \/ WriterFind(t) \/ WriterTotal(t) \/ WriterStore(t)
            \/ WriterUnlock(t)
        BY <1>9, <3>3 DEF Writer
      <4> QED
        BY <4>1 DEF WriterLock, WriterCheck, WriterFind, WriterTotal, WriterStore, WriterUnlock
    <3> QED
      BY <3>1, <3>2, <3>3 DEF Step
  <2>3. InUse' = InUse
    BY <2>1 DEF InUse
  <2>4. \A u \in Workers : /\ pc'[u] = "reset" => pc[u] = "reset"
                           /\ pc[u] = "age" => pc'[u] = "age" /\ idx'[u] = idx[u]
    BY <1>1, <2>2
  <2> QED
    BY <2>1, <2>3, <2>4 DEF AgesApart, UsesOrdered
<1> QED
  BY <1>5, <1>6, <1>7, <1>8, <1>9

\* With two entries or more, a full cache has one that is not of age 0.
LEMMA EvictionKept ==
    ASSUME TypeOK, CacheHeld, AgesApart, EvictionFinds, NCACHE > 1, NEW t \in Workers, Step(t)
    PROVE  EvictionFinds'
<1>1. \A u \in Workers \ {t} : pc'[u] = pc[u] /\ idx'[u] = idx[u]
  BY StepMoves, StepLocals DEF Moves
<1>2. pc'[t] = "total" => WriterFind(t) \/ WriterEvict(t)
  <2> USE DEF Goto, TypeOK
  <2>1. CASE Request(t) \/ Respond(t) \/ Fetch(t)
    BY <2>1 DEF Request, Respond, Fetch
  <2>2. CASE Reader(t)
    BY <2>2 DEF Reader, ReaderLock, ReaderEnter, ReaderWait, Unlock, ReaderFind, ReaderSize, ReaderCopy,
                UpdateLock, ReaderUpdate, ReaderReset, LeaveLock, ReaderLeave
  <2>3. CASE Writer(t)
    BY <2>3 DEF Writer, WriterLock, WriterCheck, WriterTotal, WriterPut, WriterUpdate, WriterStore,
                WriterUnlock
  <2> QED
    BY <2>1, <2>2, <2>3 DEF Step
<1>3. CASE WriterFind(t)
  <2>1. idx'[t] = Find /\ Find # -1
    BY <1>3 DEF WriterFind, TypeOK
  <2> QED
    BY <1>1, <2>1 DEF EvictionFinds
<1>4. CASE WriterEvict(t)
  <2>1. pc[t] = "choose" /\ Find = -1 /\ idx'[t] = Victim
    BY <1>4 DEF WriterEvict, Goto, TypeOK
  <2>2. InUse = Entries
    BY <2>1, FindFinds, EntriesAre
  <2>3. 0 \in Entries /\ 1 \in Entries
    BY NCACHEAssumption DEF Entries
  <2>4. \A u \in Workers : pc[u] # "age"
    BY <2>1 DEF CacheHeld, Writing, WriterAt
  <2>5. cache[0].lru # 0 \/ cache[1].lru # 0
    BY <2>2, <2>3, <2>4 DEF AgesApart
  <2>6. \E i \in Entries : cache[i].lru > 0
    BY <2>3, <2>5 DEF TypeOK
  <2>7. Victim \in Entries
    BY <2>6, VictimIsOldest DEF TypeOK
  <2> QED
    BY <1>1, <2>1, <2>7, EntriesAre DEF EvictionFinds
<1> QED
  BY <1>1, <1>2, <1>3, <1>4 DEF EvictionFinds

(***************************************************************************)
(* Copies of one site                                                      *)
(***************************************************************************)

Copies(s) == {i \in InUse : cache[i].site = s}

LEMMA CopiesFinite ==
    ASSUME NEW C \in SUBSET Entries
    PROVE  /\ IsFiniteSet(C) /\ Cardinality(C) \in Nat
           /\ \A D : D \subseteq C => Cardinality(D) \in Nat /\ Cardinality(D) <= Cardinality(C)
           /\ \A i \in Entries : Cardinality(C \cup {i}) \in Nat /\ Cardinality(C \cup {i}) <= Cardinality(C) + 1
<1>1. IsFiniteSet(C)
  BY EntriesAre, FS_Subset
<1>2. Cardinality(C) \in Nat
  BY <1>1, FS_CardinalityType
<1>3. \A D : D \subseteq C => Cardinality(D) \in Nat /\ Cardinality(D) <= Cardinality(C)
  BY <1>1, FS_Subset, FS_CardinalityType
<1>4. \A i \in Entries : Cardinality(C \cup {i}) \in Nat /\ Cardinality(C \cup {i}) <= Cardinality(C) + 1
  <2> TAKE i \in Entries
  <2>1. CASE i \in C
    <3>1. C \cup {i} = C
      BY <2>1
    <3> QED
      BY <1>2, <3>1
  <2>2. CASE i \notin C
    <3>1. Cardinality(C \cup {i}) = Cardinality(C) + 1
      BY <1>1, <2>2, FS_AddElement
    <3> QED
      BY <1>2, <3>1
  <2> QED
    BY <2>1, <2>2
<1> QED
  BY <1>1, <1>2, <1>3, <1>4

LEMMA SmallerStoring ==
    ASSUME NEW C \in SUBSET Workers, NEW D \in SUBSET C
    PROVE  Cardinality(D) <= Cardinality(C) /\ Cardinality(D) \in Nat /\ Cardinality(C) \in Nat
<1>1. IsFiniteSet(C)
  BY SetOfWorkers
<1>2. IsFiniteSet(D)
  BY <1>1, FS_Subset
<1> QED
  BY <1>1, <1>2, FS_Subset, FS_CardinalityType

\* A worker comes to store a site only by missing it; it stays about to store
\* it, or leaves without a copy, or leaves by the copy it stores.
LEMMA StoringSteps ==
    ASSUME TypeOK, ReadersHold, NEW t \in Workers, Step(t), NEW s, t \in Storing(s)', t \notin Storing(s)
    PROVE  Copies(s)' = {}
<1> DEFINE St(u) ==
        /\ url[u].site = s
        /\ \/ pc[u] \in {"xLock", "xLeave", "xUnlock"} /\ idx[u] = -1
           \/ pc[u] \in {"fetch", "wLock", "check", "choose", "total", "put"}
<1>1. St(t)' /\ ~St(t)
  BY DEF Storing
<1> USE DEF Goto, TypeOK, localVars
<1>2. CASE ReaderFind(t)
  <2>1. /\ pc'[t] = (IF Isin(url[t].site) = -1 THEN "xLock" ELSE "size")
        /\ url' = url /\ cache' = cache
    BY <1>2 DEF ReaderFind, sharedVars
  <2>2. Isin(s) = -1 /\ url[t].site = s
    BY <1>1, <2>1
  <2>3. \A i \in InUse : cache[i].site # s
    BY <2>2, IsinFinds, EntriesAre DEF InUse
  <2> QED
    BY <2>1, <2>3 DEF Copies, InUse
<1>3. CASE Request(t) \/ Respond(t) \/ Fetch(t)
  BY <1>1, <1>3 DEF Request, Respond, Fetch
<1>4. CASE Unlock(t, "uUnlock", "xLock")
  <2>1. idx[t] \in Entries
    BY <1>4 DEF Unlock, ReadersHold, AtEntry, InUse
  <2> QED
    BY <1>1, <1>4, <2>1, EntriesAre DEF Unlock
<1>5. CASE Unlock(t, "xUnlock", IF idx[t] = -1 THEN "fetch" ELSE "respond")
  BY <1>1, <1>5 DEF Unlock
<1>6. CASE ReaderEnter(t)
  BY <1>1, <1>6 DEF ReaderEnter
<1>7. CASE ReaderLock(t) \/ ReaderWait(t) \/ Unlock(t, "rUnlock", "find")
           \/ ReaderSize(t) \/ ReaderCopy(t) \/ UpdateLock(t) \/ ReaderUpdate(t) \/ ReaderReset(t)
           \/ LeaveLock(t) \/ ReaderLeave(t)
  BY <1>1, <1>7 DEF ReaderLock, ReaderWait, Unlock, ReaderSize, ReaderCopy, UpdateLock, ReaderUpdate,
                    ReaderReset, LeaveLock, ReaderLeave
<1>8. CASE WriterCheck(t)
  BY <1>1, <1>8 DEF WriterCheck
<1>10. CASE WriterFind(t) \/ WriterEvict(t)
  BY <1>1, <1>10 DEF WriterFind, WriterEvict
<1>9. CASE WriterLock(t) \/ WriterTotal(t) \/ WriterPut(t) \/ WriterUpdate(t) \/ WriterStore(t)
           \/ WriterUnlock(t)
  BY <1>1, <1>9 DEF WriterLock, WriterTotal, WriterPut, WriterUpdate, WriterStore, WriterUnlock
<1> QED
  BY <1>2, <1>3, <1>4, <1>5, <1>6, <1>7, <1>8, <1>9, <1>10 DEF Step, Reader, Writer

LEMMA CopiesKept ==
    ASSUME TypeOK, CacheHeld, ReadersHold, WritersHold, CopiesBounded, NEW t \in Workers, Step(t)
    PROVE  CopiesBounded'
<1> SUFFICES ASSUME NEW s \in Sites
             PROVE  Cardinality(Copies(s)') + Cardinality(Storing(s)') <= Cardinality(Workers)
  BY DEF CopiesBounded, Copies, Sites
<1>1. Cardinality(Copies(s)) + Cardinality(Storing(s)) <= Cardinality(Workers)
  BY DEF CopiesBounded, Copies
<1>2. Copies(s) \in SUBSET Entries /\ Storing(s) \in SUBSET Workers /\ Storing(s)' \in SUBSET Workers
  BY DEF Copies, InUse, Storing
<1>3. \A u \in Workers \ {t} : u \in Storing(s)' <=> u \in Storing(s)
  <2>1. \A u \in Workers \ {t} : pc'[u] = pc[u] /\ url'[u] = url[u] /\ idx'[u] = idx[u]
    BY StepMoves, StepLocals DEF Moves
  <2> QED
    BY <2>1 DEF Storing
<1>4. CASE t \in Storing(s)' /\ t \notin Storing(s)
  <2>1. Copies(s)' = {}
    BY <1>4, StoringSteps
  <2>2. Cardinality(Copies(s)') = 0
    BY <2>1, FS_EmptySet
  <2>3. Cardinality(Storing(s)') \in 0 .. Cardinality(Workers)
    BY <1>2, SetOfWorkers
  <2> QED
    BY <2>2, <2>3
<1>5. CASE ~(t \in Storing(s)' /\ t \notin Storing(s))
  <2>1. Storing(s)' \in SUBSET Storing(s)
    BY <1>2, <1>3, <1>5
  <2>2. Cardinality(Storing(s)') <= Cardinality(Storing(s)) /\ Cardinality(Storing(s)) \in Nat
        /\ Cardinality(Storing(s)') \in Nat /\ Cardinality(Workers) \in Nat
    <3> HIDE DEF Storing
    <3> QED
      BY <1>2, <2>1, SmallerStoring
  <2>3. CASE Copies(s)' \subseteq Copies(s)
    <3>1. Cardinality(Copies(s)') <= Cardinality(Copies(s)) /\ Cardinality(Copies(s)) \in Nat
          /\ Cardinality(Copies(s)') \in Nat
      BY <1>2, <2>3, CopiesFinite
    <3> QED
      BY <1>1, <2>2, <3>1
  <2>4. CASE ~(Copies(s)' \subseteq Copies(s))
    <3>1. WriterPut(t) /\ url[t].site = s /\ idx[t] \in Entries /\ Copies(s)' \subseteq Copies(s) \cup {idx[t]}
      <4>1. CASE ~WriterEvict(t) /\ ~WriterPut(t)
        BY <2>4, <4>1, EntriesStay DEF Copies, InUse
      <4>2. CASE WriterEvict(t) /\ Victim = -1
        BY <2>4, <4>2 DEF WriterEvict, Copies, InUse
      <4>3. CASE WriterEvict(t) /\ Victim # -1
        BY <2>4, <4>3, OneEntry DEF Copies, InUse
      <4>4. CASE WriterPut(t)
        <5>1. idx' = idx
          BY <4>4 DEF WriterPut, localVars
        <5>2. idx[t] \in Entries /\ \A i \in Entries \ {idx[t]} : cache'[i] = cache[i]
          BY <4>4, <5>1, OneEntry
        <5>3. cache'[idx[t]].site = url[t].site
          BY <4>4, <5>1, OneEntry
        <5>4. Copies(s)' \subseteq Copies(s) \cup {idx[t]}
          BY <5>2 DEF Copies, InUse
        <5>5. idx[t] \in Copies(s)'
          BY <2>4, <5>4
        <5> QED
          BY <4>4, <5>2, <5>3, <5>4, <5>5 DEF Copies
      <4> QED
        BY <4>1, <4>2, <4>3, <4>4
    <3>2. t \in Storing(s) /\ t \notin Storing(s)'
      BY <3>1 DEF WriterPut, Goto, Storing, TypeOK
    <3>3. Storing(s)' = Storing(s) \ {t}
      BY <1>2, <1>3, <3>2
    <3>4. Cardinality(Storing(s)') = Cardinality(Storing(s)) - 1
      <4> HIDE DEF Storing
      <4> QED
        BY <1>2, <3>2, <3>3, SetOfWorkers
    <3>5. /\ IsFiniteSet(Copies(s) \cup {idx[t]}) /\ Cardinality(Copies(s)) \in Nat
          /\ Cardinality(Copies(s) \cup {idx[t]}) <= Cardinality(Copies(s)) + 1
          /\ Cardinality(Copies(s) \cup {idx[t]}) \in Nat
      <4> HIDE DEF Copies
      <4>1. Copies(s) \cup {idx[t]} \in SUBSET Entries
        BY <1>2, <3>1
      <4> QED
        BY <1>2, <3>1, <4>1, CopiesFinite
    <3>6. Cardinality(Copies(s)') <= Cardinality(Copies(s)) + 1 /\ Cardinality(Copies(s)') \in Nat
      BY <3>1, <3>5, FS_Subset, FS_CardinalityType
    <3> QED
      BY <1>1, <2>2, <3>4, <3>5, <3>6
  <2> QED
    BY <2>3, <2>4
<1> QED
  BY <1>4, <1>5

(***************************************************************************)
(* The invariant                                                           *)
(***************************************************************************)

LEMMA CacheIInvInit == Init => CacheIInv
<1> SUFFICES ASSUME Init PROVE CacheIInv
  OBVIOUS
<1> USE DEF Init
<1>1. InUse = {} /\ Held = {}
  <2>1. \A i \in Entries : cache[i].state = 0
    OBVIOUS
  <2> QED
    BY <2>1 DEF InUse, Held
<1>2. \A t \in Workers : pc[t] = "idle"
  OBVIOUS
<1>3. Cardinality({}) = 0 /\ Cardinality(Workers) \in Nat
  BY FS_EmptySet, WorkersAssumption, FS_CardinalityType
<1>4. TypeOK
  <2>1. NoBody \in Bodies /\ NoUrl \in Urls \cup {NoUrl}
    BY DEF NoBody, Bodies
  <2> QED
    BY <1>3, <2>1, MaxRequestsAssumption DEF TypeOK, WorkerAt
<1>5. \A s \in Sites : {i \in InUse : cache[i].site = s} = {} /\ Storing(s) = {}
  BY <1>1, <1>2 DEF Storing
<1>6. CopiesBounded
  <2> SUFFICES ASSUME NEW s \in Sites
               PROVE  Cardinality({i \in InUse : cache[i].site = s}) + Cardinality(Storing(s)) <= Cardinality(Workers)
    BY DEF CopiesBounded
  <2>1. Cardinality({i \in InUse : cache[i].site = s}) = 0 /\ Cardinality(Storing(s)) = 0
    BY <1>3, <1>5
  <2> QED
    BY <1>3, <2>1
<1>7. totalCache <= MaxCacheSize
  BY MaxSizesAssumption
<1>8. Alive /\ MutexHeld /\ CacheHeld
  BY <1>2 DEF Alive, MutexHeld, CacheHeld, InMutex, Reading, Writing, WriterAt
<1>9. ReadersCounted
  <2>1. {t \in Workers : Counted(t)} = {}
    BY <1>2 DEF Counted, Reading
  <2> QED
    BY <1>2, <1>3, <2>1 DEF ReadersCounted
<1>10. ReadersHold /\ WritersHold
  BY <1>2 DEF ReadersHold, WritersHold, AtEntry, HasCopy, WriterAt
<1>11. EntriesWhole /\ UsesOrdered /\ AgesApart
  BY <1>1, <1>2 DEF EntriesWhole, UsesOrdered, AgesApart
<1>12. TotalHeld /\ EvictionFinds
  BY <1>1, <1>2, <1>3 DEF TotalHeld, EvictionFinds
<1> QED
  BY <1>4, <1>6, <1>7, <1>8, <1>9, <1>10, <1>11, <1>12 DEF CacheIInv, AliveInv

\* A step of a worker keeps all of it.
LEMMA StepKeeps ==
    ASSUME CacheIInv, NEW t \in Workers, Step(t)
    PROVE  CacheIInv' /\ Alive
<1>1. pc[t] # "exited"
  BY DEF Step, Reader, Writer, Goto, Request, ReaderLock, ReaderEnter, ReaderWait, Unlock,
         ReaderFind, ReaderSize, ReaderCopy, UpdateLock, ReaderUpdate, ReaderReset, LeaveLock,
         ReaderLeave, Respond, Fetch, WriterLock, WriterCheck, WriterFind, WriterEvict,
         WriterTotal, WriterPut, WriterUpdate, WriterStore, WriterUnlock
<1>2. TypeOK /\ CopiesBounded /\ totalCache <= MaxCacheSize /\ Alive /\ AliveInv
  BY <1>1 DEF CacheIInv, Gone
<1>3. /\ MutexHeld /\ ReadersCounted /\ CacheHeld /\ ReadersHold /\ WritersHold /\ EntriesWhole
      /\ TotalHeld /\ AgesApart /\ UsesOrdered /\ (NCACHE > 1 => EvictionFinds)
  BY <1>2 DEF AliveInv
<1>4. WriterEvict(t) /\ Victim # -1 => totalCache >= cache[Victim].state
  BY <1>2, <1>3, EvictedCounted
<1>5. TypeOK'
  BY <1>2, <1>3, <1>4, TypeKept
<1>6. MutexHeld' /\ ReadersCounted' /\ CacheHeld'
  BY <1>2, <1>3, MutexKept, CountKept, HeldKept
<1>7. ReadersHold' /\ WritersHold' /\ EntriesWhole'
  BY <1>2, <1>3, ReadersKept, WritersKept, EntriesKept
<1>8. TotalHeld' /\ totalCache' <= MaxCacheSize /\ AgesApart' /\ UsesOrdered'
  BY <1>2, <1>3, TotalKept, AgesKept
<1>9. (NCACHE > 1 => EvictionFinds)' /\ CopiesBounded'
  BY <1>2, <1>3, EvictionKept, CopiesKept
<1>10. Alive'
  <2>1. \A u \in Workers \ {t} : pc'[u] = pc[u]
    BY <1>2, StepMoves DEF Moves
  <2>2. pc'[t] # "exited"
    <3> USE <1>2 DEF TypeOK, Goto
    <3>1. CASE Request(t) \/ Respond(t) \/ Fetch(t)
      BY <3>1 DEF Request, Respond, Fetch
    <3>2. CASE Reader(t)
      BY <3>2 DEF Reader, ReaderLock, ReaderEnter, ReaderWait, Unlock, ReaderFind, ReaderSize,
                  ReaderCopy, UpdateLock, ReaderUpdate, ReaderReset, LeaveLock, ReaderLeave
    <3>3. CASE Writer(t)
      BY <3>3 DEF Writer, WriterLock, WriterCheck, WriterFind, WriterEvict, WriterTotal, WriterPut,
                  WriterUpdate, WriterStore, WriterUnlock
    <3> QED
      BY <3>1, <3>2, <3>3 DEF Step
  <2> QED
    BY <1>2, <2>1, <2>2 DEF Alive
<1> QED
  BY <1>2, <1>5, <1>6, <1>7, <1>8, <1>9, <1>10 DEF CacheIInv, AliveInv

\* The process may end at any point; what was stored stays as it is.
LEMMA ExitKeeps ==
    ASSUME CacheIInv, NEW t \in Workers, Exit(t)
    PROVE  CacheIInv'
<1>1. pc' = [u \in Workers |-> "exited"] /\ UNCHANGED <<sharedVars, lockVars, localVars, requests>>
  BY DEF Exit
<1>2. Gone' /\ totalCache' <= MaxCacheSize
  BY <1>1 DEF Gone, CacheIInv, sharedVars
<1>3. TypeOK'
  BY <1>1 DEF TypeOK, CacheIInv, sharedVars, lockVars, localVars, WorkerAt
<1>4. ASSUME NEW s \in Sites
      PROVE  Cardinality(Copies(s)') + Cardinality(Storing(s)') <= Cardinality(Workers)
  <2>1. Storing(s)' = {} /\ Storing(s) \in SUBSET Workers
    BY <1>1 DEF Storing
  <2>2. Copies(s)' = Copies(s)
    BY <1>1 DEF Copies, InUse, sharedVars
  <2>3. Cardinality(Storing(s)') = 0
    BY <2>1, FS_EmptySet
  <2>4. Cardinality(Storing(s)) \in 0 .. Cardinality(Workers) /\ Cardinality(Workers) \in Nat
    BY <2>1, SetOfWorkers, WorkersAssumption, FS_CardinalityType
  <2>5. Cardinality(Copies(s)) \in Nat
    BY CopiesFinite DEF Copies, InUse
  <2>6. Cardinality(Copies(s)) + Cardinality(Storing(s)) <= Cardinality(Workers)
    BY DEF CacheIInv, CopiesBounded, Copies
  <2> QED
    BY <2>2, <2>3, <2>4, <2>5, <2>6
<1>5. CopiesBounded'
  BY <1>4 DEF CopiesBounded, Copies, Sites
<1> QED
  BY <1>2, <1>3, <1>5 DEF CacheIInv

LEMMA CacheIInvNext == CacheIInv /\ [Next]_vars => CacheIInv'
<1> SUFFICES ASSUME CacheIInv, [Next]_vars PROVE CacheIInv'
  OBVIOUS
<1>1. CASE UNCHANGED vars
  <2> USE <1>1 DEF vars, sharedVars, lockVars, localVars
  <2>1. TypeOK' /\ CopiesBounded' /\ totalCache' <= MaxCacheSize /\ Gone' = Gone /\ Alive' = Alive
    BY DEF CacheIInv, TypeOK, CopiesBounded, InUse, Storing, Gone, Alive
  <2>2. AliveInv' = AliveInv
    <3>1. MutexHeld' = MutexHeld /\ ReadersCounted' = ReadersCounted /\ CacheHeld' = CacheHeld
      BY DEF MutexHeld, ReadersCounted, CacheHeld, InMutex, Counted, Reading, Writing
    <3>2. ReadersHold' = ReadersHold /\ WritersHold' = WritersHold /\ EntriesWhole' = EntriesWhole
      BY DEF ReadersHold, WritersHold, EntriesWhole, HasCopy, InUse
    <3>3. TotalHeld' = TotalHeld /\ AgesApart' = AgesApart /\ UsesOrdered' = UsesOrdered
          /\ EvictionFinds' = EvictionFinds
      BY DEF TotalHeld, Held, AgesApart, UsesOrdered, InUse, EvictionFinds
    <3> QED
      BY <3>1, <3>2, <3>3 DEF AliveInv
  <2> QED
    BY <2>1, <2>2 DEF CacheIInv
<1>2. ASSUME NEW t \in Workers, Step(t) PROVE CacheIInv'
  BY <1>2, StepKeeps
<1>3. ASSUME NEW t \in Workers, Exit(t) PROVE CacheIInv'
  BY <1>3, ExitKeeps
<1> QED
  BY <1>1, <1>2, <1>3 DEF Next, Done, Step

\* What the theorems below follow from: locks, entries, copies, total and ages,
\* for any number of workers and entries.
THEOREM CacheInvariant == Spec => []CacheIInv
BY CacheIInvInit, CacheIInvNext, PTL DEF Spec

(***************************************************************************)
(* Theorems                                                                *)
(***************************************************************************)

\* The readers and writers lock of proxy.c: one writer or any number of readers,
\* readcnt counts them, and what is taken has a worker to give it back.
THEOREM LocksAreAccounted == Spec => []LocksAccounted
<1>1. CacheIInv => LocksAccounted
  <2> SUFFICES ASSUME CacheIInv, Alive
               PROVE  /\ readcnt = Cardinality({t \in Workers : Counted(t)})
                      /\ Cardinality({t \in Workers : InMutex(t)}) = 1 - mutex
                      /\ (w = 0 <=> \E t \in Workers : Reading(t) \/ Writing(t))
                      /\ \A t, u \in Workers : Writing(t) /\ (Writing(u) \/ Reading(u)) => t = u
    BY DEF LocksAccounted, Alive, CacheIInv
  <2>1. MutexHeld /\ ReadersCounted /\ CacheHeld /\ mutex \in {0, 1}
    BY WorkersAssumption DEF CacheIInv, AliveInv, Gone, Alive, TypeOK
  <2>2. Cardinality({t \in Workers : InMutex(t)}) = 1 - mutex
    <3>1. CASE mutex = 0
      <4>1. PICK t \in Workers : InMutex(t)
        BY <2>1, <3>1 DEF MutexHeld
      <4>2. {u \in Workers : InMutex(u)} = {t}
        BY <2>1, <4>1 DEF MutexHeld
      <4> QED
        BY <3>1, <4>2, FS_Singleton
    <3>2. CASE mutex = 1
      <4>1. {u \in Workers : InMutex(u)} = {}
        BY <2>1, <3>2 DEF MutexHeld
      <4> QED
        BY <3>2, <4>1, FS_EmptySet
    <3> QED
      BY <2>1, <3>1, <3>2
  <2> QED
    BY <2>1, <2>2 DEF ReadersCounted, CacheHeld
<1> QED
  BY <1>1, CacheInvariant, PTL

\* A hit sends the whole of one stored answer for the site asked for.
THEOREM HitsAreWhole == Spec => []HitIsWhole
<1>1. CacheIInv => HitIsWhole
  BY DEF CacheIInv, Gone, AliveInv, ReadersHold, HasCopy, HitIsWhole
<1> QED
  BY <1>1, CacheInvariant, PTL

\* total_cache is what the entries hold, and never passes MAX_CACHE_SIZE.
THEOREM TotalIsKept == Spec => []TotalIsSum
<1>1. CacheIInv => TotalIsSum
  <2> SUFFICES ASSUME CacheIInv, \A t \in Workers : pc[t] \notin (WriterAt \ {"wLock"}) \cup {"exited"}
               PROVE  totalCache = Cardinality(Held)
    BY DEF CacheIInv, TotalIsSum
  <2> QED
    BY WorkersAssumption DEF CacheIInv, Gone, AliveInv, TotalHeld, WriterAt
<1> QED
  BY <1>1, CacheInvariant, PTL

\* Copies of a site and the workers about to store it never outnumber the
\* workers.
THEOREM CopiesAreBounded == Spec => []CopiesBounded
<1>1. CacheIInv => CopiesBounded
  BY DEF CacheIInv
<1> QED
  BY <1>1, CacheInvariant, PTL

\* A full cache has an entry to evict, for a cache of more than one entry: the
\* only entry of a cache of one would keep the age 0 it is stored with.
THEOREM EvictionsFind == NCACHE > 1 => (Spec => []EvictionFinds)
<1> SUFFICES ASSUME NCACHE > 1 PROVE Spec => []EvictionFinds
  OBVIOUS
<1>1. CacheIInv => EvictionFinds
  BY DEF CacheIInv, Gone, AliveInv, EvictionFinds
<1> QED
  BY <1>1, CacheInvariant, PTL

\* The entry evicted has at most one entry that was used before it.
THEOREM EvictionsAreLeastRecent == Spec => EvictsLeastRecent
<1> DEFINE Recent ==
      \A i \in Entries : cache[i].state # 0 /\ cache'[i].state = 0 =>
          Cardinality({j \in Entries : <<j, i>> \in usedBefore}) <= 1
<1>1. CacheIInv /\ [Next]_vars => Recent \/ UNCHANGED vars
  <2> SUFFICES ASSUME CacheIInv, Next,
                      NEW i \in Entries, cache[i].state # 0, cache'[i].state = 0
               PROVE  Cardinality({j \in Entries : <<j, i>> \in usedBefore}) <= 1
    OBVIOUS
  <2> DEFINE J == {j \in Entries : <<j, i>> \in usedBefore}
  <2>1. PICK t \in Workers : Step(t)
    <3>1. ~ UNCHANGED cache
      OBVIOUS
    <3> QED
      BY <3>1 DEF Next, Done, Exit, Step, vars, sharedVars
  <2>2. TypeOK /\ ReadersHold /\ WritersHold /\ UsesOrdered
    BY <2>1, StepKeeps DEF CacheIInv, AliveInv, Alive, Gone
  <2>3. WriterEvict(t) \/ WriterPut(t)
    BY <2>1, <2>2, EntriesStay
  <2>4. ~WriterPut(t)
    <3> SUFFICES ASSUME WriterPut(t) PROVE FALSE
      OBVIOUS
    <3>1. idx'[t] = idx[t] /\ idx[t] # -1 /\ pc[t] = "put"
      BY DEF WriterPut, Goto, localVars
    <3>2. cache[idx[t]].state = 0
      BY <2>2, <3>1 DEF WritersHold
    <3> QED
      BY <2>2, <3>1, <3>2, OneEntry
  <2>5. Victim # -1
    BY <2>3, <2>4 DEF WriterEvict
  <2>6. i = Victim
    <3>1. idx'[t] = Victim
      BY <2>2, <2>3, <2>4 DEF WriterEvict, TypeOK
    <3> QED
      BY <2>2, <2>3, <2>4, <2>5, <3>1, OneEntry
  <2>7. \A j \in Entries : cache[j].lru <= cache[i].lru /\ cache[j].lru \in Nat
    BY <2>2, <2>5, <2>6, VictimIsOldest DEF TypeOK
  <2>8. \A j, k \in J : j = k
    <3> SUFFICES ASSUME NEW j \in J, NEW k \in J, j # k, <<k, j>> \in usedBefore PROVE FALSE
      BY <2>2 DEF UsesOrdered
    <3>1. cache[k].lru > cache[i].lru
      BY <2>2 DEF UsesOrdered
    <3> QED
      BY <2>7, <3>1
  <2>9. ASSUME J = {} PROVE Cardinality(J) <= 1
    <3>1. Cardinality({}) = 0
      BY FS_EmptySet
    <3> HIDE DEF J
    <3> QED
      BY <2>9, <3>1
  <2>10. ASSUME NEW j \in J PROVE Cardinality(J) <= 1
    <3>1. J = {j}
      BY <2>8, <2>10
    <3>2. Cardinality({j}) = 1
      BY FS_Singleton
    <3> HIDE DEF J
    <3> QED
      BY <3>1, <3>2
  <2>11. Cardinality(J) <= 1
    BY <2>9, <2>10
  <2> QED
    BY <2>11
<1> QED
  BY <1>1, CacheInvariant, PTL DEF Spec, EvictsLeastRecent
=============================================================================
