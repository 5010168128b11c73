--------------------------- MODULE JobTableProofs ---------------------------
(***************************************************************************)
(* What the job-table helpers return and preserve, for every size of the   *)
(* table and every set of pids.  The lemmas are cited by TshProofs.        *)
(***************************************************************************)
EXTENDS JobTable, WellFoundedInduction, TLAPS

(***************************************************************************)
(* A nonempty set of naturals has a least element.  Every scan of the      *)
(* table (First) and every minimal-counterexample argument rests on it.    *)
(***************************************************************************)
LEMMA LeastNat ==
    ASSUME NEW S \in SUBSET Nat, S # {}
    PROVE  \E m \in S : \A n \in S : m <= n
<1>1. IsWellFoundedOn(OpToRel(<, Nat), Nat)
  BY NatLessThanWellFounded
<1>2. PICK m \in S : \A n \in S : ~ (<<n, m>> \in OpToRel(<, Nat))
  <2> HIDE DEF IsWellFoundedOn, OpToRel
  <2> QED BY <1>1, WFMin
<1>3. \A n \in S : ~ (n < m)
  BY <1>2 DEF OpToRel
<1> QED BY <1>3

(***************************************************************************)
(* First returns a member of a nonempty set of slots, and NULL exactly     *)
(* for the empty one: the scans of tsh.c return a slot iff one qualifies.  *)
(***************************************************************************)
LEMMA FirstMember ==
    ASSUME NEW S \in SUBSET Slots
    PROVE  /\ First(S) \in Slots \cup {NULL}
           /\ First(S) = NULL <=> S = {}
           /\ S # {} => First(S) \in S
<1>1. S \in SUBSET Nat /\ NULL \notin S
  BY MaxJobsAssumption DEF Slots, NULL
<1>2. CASE S = {}
  BY <1>2 DEF First
<1>3. CASE S # {}
  <2>1. \E m \in S : \A n \in S : m <= n
    BY <1>1, <1>3, LeastNat
  <2>2. First(S) \in S
    BY <1>3, <2>1 DEF First
  <2> QED BY <1>1, <1>3, <2>2
<1> QED BY <1>2, <1>3

(***************************************************************************)
(* maxjid returns the largest job ID of the table: a natural number that   *)
(* no job ID exceeds and that some slot holds, 0 where every slot holds 0. *)
(* The proof takes a shortest prefix of the table whose job IDs have no    *)
(* upper bound, then a least upper bound of the whole table.               *)
(***************************************************************************)
LEMMA MaxjidBounds ==
    ASSUME NEW jobs \in Table
    PROVE  /\ maxjid(jobs) \in Nat
           /\ \A i \in Slots : jobs[i].jid <= maxjid(jobs)
           /\ \E i \in Slots : jobs[i].jid = maxjid(jobs)
<1> DEFINE Bounds(n) == {b \in Nat : \A i \in 1..n : i \in Slots => jobs[i].jid <= b}
<1> DEFINE Bad == {n \in 0..MaxJobs : Bounds(n) = {}}
<1>0. \A i \in Slots : jobs[i].jid \in Nat
  BY DEF Table, Job
<1>1. Bad = {}
  <2>1. SUFFICES ASSUME Bad # {} PROVE FALSE
    OBVIOUS
  <2>2. Bad \in SUBSET Nat
    BY MaxJobsAssumption
  <2>3. PICK n \in Bad : \A m \in Bad : n <= m
    <3> HIDE DEF Bad
    <3> QED BY <2>1, <2>2, LeastNat
  <2>4. n # 0
    <3>1. 0 \in Bounds(0)
      OBVIOUS
    <3> QED BY <3>1
  <2>5. n \in 1..MaxJobs /\ n - 1 \in 0..MaxJobs /\ n - 1 \notin Bad
    BY <2>3, <2>4, MaxJobsAssumption
  <2>6. PICK b \in Nat : \A i \in 1..(n - 1) : i \in Slots => jobs[i].jid <= b
    BY <2>5
  <2>7. jobs[n].jid \in Nat
    BY <1>0, <2>5 DEF Slots
  <2>8. b + jobs[n].jid \in Bounds(n)
    <3>1. SUFFICES ASSUME NEW i \in 1..n, i \in Slots
                   PROVE  jobs[i].jid <= b + jobs[n].jid
      BY <2>7
    <3>2. CASE i = n
      BY <2>7, <3>2
    <3>3. CASE i # n
      <4>1. i \in 1..(n - 1)
        BY <2>5, <3>3
      <4> QED BY <1>0, <2>6, <2>7, <3>1, <4>1
    <3> QED BY <3>2, <3>3
  <2> QED BY <2>3, <2>8
<1>2. Bounds(MaxJobs) # {}
  BY <1>1, MaxJobsAssumption
<1>3. PICK m \in Bounds(MaxJobs) : \A b \in Bounds(MaxJobs) : m <= b
  <2>1. Bounds(MaxJobs) \in SUBSET Nat
    OBVIOUS
  <2> HIDE DEF Bounds
  <2> QED BY <1>2, <2>1, LeastNat
<1>4. \A i \in Slots : jobs[i].jid <= m
  BY <1>3 DEF Slots
<1>5. m \in {0} \cup {jobs[i].jid : i \in Slots}
  <2>1. CASE m = 0
    BY <2>1
  <2>2. CASE m # 0
    <3>1. m - 1 \in Nat /\ m - 1 \notin Bounds(MaxJobs)
      BY <1>3, <2>2
    <3>2. PICK i \in Slots : ~ (jobs[i].jid <= m - 1)
      BY <3>1 DEF Slots
    <3>3. jobs[i].jid = m
      BY <1>0, <1>3, <1>4, <3>2
    <3> QED BY <3>3
  <2> QED BY <2>1, <2>2
<1>6. /\ maxjid(jobs) \in {0} \cup {jobs[i].jid : i \in Slots}
      /\ \A i \in Slots : jobs[i].jid <= maxjid(jobs)
  <2> HIDE DEF Bounds
  <2> QED BY <1>4, <1>5 DEF maxjid
<1>7. \E i \in Slots : jobs[i].jid = maxjid(jobs)
  <2>1. CASE maxjid(jobs) = 0
    <3>1. 1 \in Slots
      BY MaxJobsAssumption DEF Slots
    <3>2. jobs[1].jid \in Nat /\ jobs[1].jid <= 0
      BY <1>0, <1>6, <2>1, <3>1
    <3> QED BY <2>1, <3>1, <3>2
  <2>2. CASE maxjid(jobs) # 0
    BY <1>6, <2>2
  <2> QED BY <2>1, <2>2
<1> QED BY <1>0, <1>6, <1>7

(***************************************************************************)
(* getjobpid finds the slot of a listed pid, and NULL for any other.       *)
(***************************************************************************)
LEMMA GetjobpidFinds ==
    ASSUME NEW jobs \in Table, NEW pid \in Pids \cup {NoPid}
    PROVE  /\ getjobpid(jobs, pid) \in Slots \cup {NULL}
           /\ getjobpid(jobs, pid) # NULL <=> pid \in Listed(jobs)
           /\ pid \in Listed(jobs) => /\ getjobpid(jobs, pid) \in Slots
                                      /\ jobs[getjobpid(jobs, pid)].pid = pid
<1> DEFINE S == {i \in Slots : pid # NoPid /\ jobs[i].pid = pid}
<1>1. S \in SUBSET Slots /\ getjobpid(jobs, pid) = First(S)
  BY DEF getjobpid
<1>2. S # {} <=> pid \in Listed(jobs)
  BY DEF Listed
<1>3. /\ First(S) \in Slots \cup {NULL}
      /\ First(S) = NULL <=> S = {}
      /\ S # {} => First(S) \in S
  <2> HIDE DEF S
  <2> QED BY <1>1, FirstMember
<1> QED BY <1>1, <1>2, <1>3

(***************************************************************************)
(* getjobjid returns a slot or NULL.                                       *)
(***************************************************************************)
LEMMA GetjobjidType ==
    ASSUME NEW jobs \in Table, NEW jid \in Nat
    PROVE  getjobjid(jobs, jid) \in Slots \cup {NULL}
<1> DEFINE S == {i \in Slots : jid >= 1 /\ jobs[i].jid = jid}
<1>1. First(S) \in Slots \cup {NULL}
  <2>1. S \in SUBSET Slots
    OBVIOUS
  <2> HIDE DEF S
  <2> QED BY <2>1, FirstMember
<1> QED BY <1>1 DEF getjobjid

(***************************************************************************)
(* fgpid returns a listed pid or NoPid.                                    *)
(***************************************************************************)
LEMMA FgpidListed ==
    ASSUME NEW jobs \in Table
    PROVE  fgpid(jobs) \in Listed(jobs) \cup {NoPid} /\ fgpid(jobs) \in Pids \cup {NoPid}
<1> DEFINE S == {i \in Slots : jobs[i].state = "FG"}
<1>1. FgSlot(jobs) \in Slots \cup {NULL}
  <2>1. S \in SUBSET Slots
    OBVIOUS
  <2> HIDE DEF S
  <2>2. First(S) \in Slots \cup {NULL}
    BY <2>1, FirstMember
  <2> QED BY <2>2 DEF FgSlot, S
<1>2. CASE FgSlot(jobs) = NULL
  BY <1>2 DEF fgpid
<1>3. CASE FgSlot(jobs) # NULL
  <2>1. FgSlot(jobs) \in Slots /\ fgpid(jobs) = jobs[FgSlot(jobs)].pid
    BY <1>1, <1>3 DEF fgpid
  <2>2. jobs[FgSlot(jobs)] \in Job
    BY <2>1 DEF Table
  <2> QED BY <2>1, <2>2 DEF Listed, Job
<1> QED BY <1>2, <1>3

(***************************************************************************)
(* addjob keeps the table well formed, lists no pid but the one it is      *)
(* given, and keeps pids unique when that one was not listed.              *)
(***************************************************************************)
LEMMA AddjobEffect ==
    ASSUME NEW jobs \in Table, NEW nextjid \in Nat, NEW pid \in Pids, NEW state \in States
    PROVE  /\ addjob(jobs, nextjid, pid, state) \in Table
           /\ nextjidAdd(jobs, nextjid) \in Nat
           /\ Listed(addjob(jobs, nextjid, pid, state)) \subseteq Listed(jobs) \cup {pid}
           /\ UniquePids(jobs) /\ pid \notin Listed(jobs) =>
                UniquePids(addjob(jobs, nextjid, pid, state))
<1> DEFINE new == [pid |-> pid, jid |-> nextjid, state |-> state]
<1> DEFINE k == FreeSlot(jobs)
<1>1. new \in Job
  BY DEF Job
<1>2. nextjidAdd(jobs, nextjid) \in Nat
  BY DEF nextjidAdd
<1>3. CASE k = NULL
  BY <1>2, <1>3 DEF addjob
<1>4. CASE k # NULL
  <2>1. addjob(jobs, nextjid, pid, state) = [jobs EXCEPT ![k] = new]
    BY <1>4 DEF addjob
  <2> HIDE DEF new, k
  <2>2. [jobs EXCEPT ![k] = new] \in Table
    BY <1>1 DEF Table
  <2>3. \A i \in Slots : [jobs EXCEPT ![k] = new][i] = IF i = k THEN new ELSE jobs[i]
    BY DEF Table
  <2>4. new.pid = pid
    BY DEF new
  <2>5. Listed([jobs EXCEPT ![k] = new]) \subseteq Listed(jobs) \cup {pid}
    BY <2>3, <2>4 DEF Listed
  <2>6. ASSUME UniquePids(jobs), pid \notin Listed(jobs)
        PROVE  UniquePids([jobs EXCEPT ![k] = new])
    <3>1. \A i \in Slots : jobs[i].pid # pid
      BY <2>6, NoPidAssumption DEF Listed
    <3> QED BY <2>3, <2>4, <2>6, <3>1 DEF UniquePids
  <2> QED BY <1>2, <2>1, <2>2, <2>5, <2>6
<1> QED BY <1>3, <1>4

(***************************************************************************)
(* deletejob of a listed pid keeps the table well formed and lists no new  *)
(* pid; with unique pids the deleted one is gone.                          *)
(***************************************************************************)
LEMMA DeletejobEffect ==
    ASSUME NEW jobs \in Table, NEW pid \in Pids, pid \in Listed(jobs)
    PROVE  /\ deletejob(jobs, pid) \in Table
           /\ nextjidDelete(jobs, pid) \in Nat
           /\ Listed(deletejob(jobs, pid)) \subseteq Listed(jobs)
           /\ UniquePids(jobs) => /\ UniquePids(deletejob(jobs, pid))
                                  /\ Listed(deletejob(jobs, pid)) = Listed(jobs) \ {pid}
<1> DEFINE k == getjobpid(jobs, pid)
<1>1. k \in Slots /\ jobs[k].pid = pid
  BY GetjobpidFinds
<1>2. clearjob \in Job /\ clearjob.pid = NoPid
  BY DEF clearjob, Job, States
<1> HIDE DEF k
<1>3. [jobs EXCEPT ![k] = clearjob] \in Table
  BY <1>2 DEF Table
<1>4. \A i \in Slots : [jobs EXCEPT ![k] = clearjob][i] = IF i = k THEN clearjob ELSE jobs[i]
  BY DEF Table
<1>5. deletejob(jobs, pid) = [jobs EXCEPT ![k] = clearjob]
  BY DEF deletejob, k
<1>6. nextjidDelete(jobs, pid) \in Nat
  BY <1>3, <1>5, MaxjidBounds DEF nextjidDelete
<1>7. Listed([jobs EXCEPT ![k] = clearjob]) \subseteq Listed(jobs)
  BY <1>2, <1>4 DEF Listed
<1>8. ASSUME UniquePids(jobs)
      PROVE  /\ UniquePids([jobs EXCEPT ![k] = clearjob])
             /\ Listed([jobs EXCEPT ![k] = clearjob]) = Listed(jobs) \ {pid}
  <2>1. \A i \in Slots : jobs[i].pid = pid => i = k
    BY <1>1, <1>8, NoPidAssumption DEF UniquePids
  <2>2. UniquePids([jobs EXCEPT ![k] = clearjob])
    BY <1>2, <1>4, <1>8 DEF UniquePids
  <2>3. pid \notin Listed([jobs EXCEPT ![k] = clearjob])
    BY <1>2, <1>4, <2>1, NoPidAssumption DEF Listed
  <2>4. Listed(jobs) \ {pid} \subseteq Listed([jobs EXCEPT ![k] = clearjob])
    BY <1>1, <1>4 DEF Listed
  <2> QED BY <1>7, <2>2, <2>3, <2>4
<1> QED BY <1>3, <1>5, <1>6, <1>7, <1>8

(***************************************************************************)
(* An assignment to the state of a slot moves no pid.                      *)
(***************************************************************************)
LEMMA SetStateEffect ==
    ASSUME NEW jobs \in Table, NEW k, NEW state \in States
    PROVE  /\ [jobs EXCEPT ![k].state = state] \in Table
           /\ Listed([jobs EXCEPT ![k].state = state]) = Listed(jobs)
           /\ UniquePids(jobs) => UniquePids([jobs EXCEPT ![k].state = state])
<1> DEFINE new == [jobs EXCEPT ![k].state = state]
<1>1. \A i \in Slots : jobs[i] \in Job
  BY DEF Table
<1>2. \A i \in Slots : /\ new[i] \in Job
                       /\ new[i].pid = jobs[i].pid
  BY <1>1 DEF Table, Job
<1>3. new \in Table
  BY <1>2 DEF Table
<1> HIDE DEF new
<1>4. Listed(new) = Listed(jobs)
  BY <1>2 DEF Listed
<1>5. UniquePids(jobs) => UniquePids(new)
  BY <1>2 DEF UniquePids
<1> QED BY <1>3, <1>4, <1>5 DEF new

(***************************************************************************)
(* addjob lists the pid in the free slot, with the next job ID.            *)
(***************************************************************************)
LEMMA AddjobSlots ==
    ASSUME NEW tbl \in Table, NEW next \in Nat, NEW pid \in Pids, NEW state \in States, next > 0
    PROVE  /\ \A i \in Slots :
                \/ addjob(tbl, next, pid, state)[i] = tbl[i]
                \/ addjob(tbl, next, pid, state)[i] = [pid |-> pid, jid |-> next, state |-> state]
           /\ nextjidAdd(tbl, next) > 0
           /\ FreeSlot(tbl) \in Slots /\ tbl[FreeSlot(tbl)].pid = NoPid =>
                \A q : q \in Listed(addjob(tbl, next, pid, state)) <=> q \in Listed(tbl) \/ q = pid
<1> DEFINE new == [pid |-> pid, jid |-> next, state |-> state]
           k == FreeSlot(tbl)
<1>1. nextjidAdd(tbl, next) > 0
  BY DEF nextjidAdd
<1>2. CASE k = NULL
  <2>1. addjob(tbl, next, pid, state) = tbl /\ NULL \notin Slots
    BY <1>2 DEF addjob, NULL, Slots
  <2> QED BY <1>1, <1>2, <2>1
<1>3. CASE k # NULL
  <2>1. addjob(tbl, next, pid, state) = [tbl EXCEPT ![k] = new]
    BY <1>3 DEF addjob
  <2> HIDE DEF new, k
  <2>2. \A i \in Slots : [tbl EXCEPT ![k] = new][i] = IF i = k THEN new ELSE tbl[i]
    BY DEF Table
  <2>3. ASSUME k \in Slots, tbl[k].pid = NoPid
        PROVE  Listed([tbl EXCEPT ![k] = new]) = Listed(tbl) \cup {pid}
    <3>1. new.pid = pid /\ pid # NoPid
      BY NoPidAssumption DEF new
    <3> QED BY <2>2, <2>3, <3>1 DEF Listed
  <2>4. \A i \in Slots : addjob(tbl, next, pid, state)[i] = tbl[i] \/ addjob(tbl, next, pid, state)[i] = new
    BY <2>1, <2>2
  <2>5. k \in Slots /\ tbl[k].pid = NoPid =>
          \A q : q \in Listed(addjob(tbl, next, pid, state)) <=> q \in Listed(tbl) \/ q = pid
    BY <2>1, <2>3
  <2> QED BY <1>1, <2>4, <2>5 DEF new, k
<1> QED BY <1>2, <1>3

(***************************************************************************)
(* deletejob changes no slot but the one it clears.                        *)
(***************************************************************************)
LEMMA DeletejobSlots ==
    ASSUME NEW tbl \in Table, NEW pid
    PROVE  /\ \A i \in Slots : deletejob(tbl, pid)[i] = tbl[i] \/ deletejob(tbl, pid)[i] = clearjob
           /\ deletejob(tbl, pid) \in Table => nextjidDelete(tbl, pid) > 0
<1>1. \A i \in Slots : deletejob(tbl, pid)[i] = tbl[i] \/ deletejob(tbl, pid)[i] = clearjob
  BY DEF deletejob, Table
<1>2. ASSUME deletejob(tbl, pid) \in Table PROVE nextjidDelete(tbl, pid) > 0
  <2>1. maxjid(deletejob(tbl, pid)) \in Nat
    BY <1>2, MaxjidBounds
  <2> QED BY <2>1 DEF nextjidDelete
<1> QED BY <1>1, <1>2
=============================================================================
