--------------------------- MODULE JobListProofs ---------------------------
(***************************************************************************)
(* The job IDs of tsh.c for every table size and every history of adds and *)
(* deletes.                                                                *)
(***************************************************************************)
EXTENDS JobList, JobTableProofs

\* The inductive invariant: a job ID is positive because nextjid is.
IInv == ListTypeOK /\ nextjid >= 1 /\ UniqueUntilWrap /\ FreeHasNoJid

LEMMA InitIInv == ListInit => IInv
<1> SUFFICES ASSUME ListInit PROVE IInv
  OBVIOUS
<1>1. \A i \in Slots : jobs[i].pid = NoPid /\ jobs[i].jid = 0
  BY DEF ListInit, initjobs, clearjob
<1>2. jobs \in Table
  BY DEF ListInit, initjobs, clearjob, Table, Job, States
<1>3. ListTypeOK /\ nextjid = 1
  BY <1>2 DEF ListInit, ListTypeOK
<1>4. UniqueUntilWrap
  BY <1>1, <1>3 DEF UniqueUntilWrap, UniqueJids
<1>5. FreeHasNoJid
  BY <1>1 DEF FreeHasNoJid
<1> QED BY <1>3, <1>4, <1>5 DEF IInv

(***************************************************************************)
(* addjob gives the free slot the next job ID; the others stay below it.   *)
(***************************************************************************)
LEMMA AddStep ==
    ASSUME IInv, NEW pid \in Pids, AddJob(pid)
    PROVE  IInv'
<1> DEFINE k == FreeSlot(jobs)
<1>1. k \in Slots
  <2> DEFINE S == {i \in Slots : jobs[i].pid = NoPid}
  <2>1. S \in SUBSET Slots
    OBVIOUS
  <2> HIDE DEF S
  <2>2. First(S) \in Slots \cup {NULL}
    BY <2>1, FirstMember
  <2> QED BY <2>2 DEF AddJob, FreeSlot, S
<1>2. PICK state \in {"FG", "BG"} : jobs' = addjob(jobs, nextjid, pid, state)
  BY DEF AddJob
<1>3. jobs' \in Table /\ nextjid' \in Nat
  BY <1>2, AddjobEffect DEF AddJob, IInv, ListTypeOK, States
<1>4. jobs' = [jobs EXCEPT ![k] = [pid |-> pid, jid |-> nextjid, state |-> state]]
  BY <1>2 DEF AddJob, addjob
<1>5. nextjid' = IF nextjid + 1 > MaxJobs THEN 1 ELSE nextjid + 1
  BY DEF AddJob, nextjidAdd
<1>6. wrapped' = (wrapped \/ nextjid + 1 > MaxJobs)
  BY DEF AddJob
<1> HIDE DEF k
<1>7. \A i \in Slots : /\ jobs'[i].pid = IF i = k THEN pid ELSE jobs[i].pid
                       /\ jobs'[i].jid = IF i = k THEN nextjid ELSE jobs[i].jid
  <2> DEFINE new == [pid |-> pid, jid |-> nextjid, state |-> state]
  <2>1. new.pid = pid /\ new.jid = nextjid
    OBVIOUS
  <2>2. jobs' = [jobs EXCEPT ![k] = new]
    BY <1>4
  <2> HIDE DEF new
  <2>3. \A i \in Slots : jobs'[i] = IF i = k THEN new ELSE jobs[i]
    BY <2>2 DEF IInv, ListTypeOK, Table
  <2> QED BY <2>1, <2>3
<1>8. \A i \in Slots : jobs[i].jid \in Nat
  BY DEF IInv, ListTypeOK, Table, Job
<1>9. nextjid' >= 1 /\ nextjid \in Nat /\ nextjid >= 1
  BY <1>5 DEF IInv, ListTypeOK
<1>10. UniqueUntilWrap'
  <2>1. SUFFICES ASSUME ~ wrapped'
                 PROVE  UniqueJids' /\ \A i \in Slots : jobs'[i].jid < nextjid'
    BY DEF UniqueUntilWrap
  <2>2. UniqueJids /\ (\A i \in Slots : jobs[i].jid < nextjid) /\ nextjid' = nextjid + 1
    BY <1>5, <1>6, <2>1 DEF IInv, UniqueUntilWrap
  <2>3. \A i \in Slots : jobs'[i].jid < nextjid'
    <3>1. ASSUME NEW i \in Slots
          PROVE  jobs'[i].jid <= nextjid
      BY <1>7, <1>8, <1>9, <2>2
    <3>2. \A i \in Slots : jobs'[i].jid \in Nat
      BY <1>7, <1>8, <1>9
    <3> QED BY <1>9, <2>2, <3>1, <3>2
  <2>4. UniqueJids'
    <3>1. SUFFICES ASSUME NEW i \in Slots, NEW j \in Slots, i # j,
                          jobs'[i].pid # NoPid, jobs'[j].pid # NoPid
                   PROVE  jobs'[i].jid # jobs'[j].jid
      BY DEF UniqueJids
    <3>2. CASE i # k /\ j # k
      BY <1>7, <2>2, <3>1, <3>2 DEF UniqueJids
    <3>3. CASE i = k
      BY <1>7, <1>8, <1>9, <2>2, <3>1, <3>3
    <3>4. CASE j = k
      BY <1>7, <1>8, <1>9, <2>2, <3>1, <3>4
    <3> QED BY <3>2, <3>3, <3>4
  <2> QED BY <2>3, <2>4
<1>11. FreeHasNoJid'
  <2>1. ASSUME NEW i \in Slots
        PROVE  jobs'[i].pid = NoPid <=> jobs'[i].jid = 0
    <3>1. CASE i = k
      BY <1>7, <1>9, <3>1, NoPidAssumption
    <3>2. CASE i # k
      BY <1>7, <3>2 DEF IInv, FreeHasNoJid
    <3> QED BY <3>1, <3>2
  <2> QED BY <2>1 DEF FreeHasNoJid
<1>12. wrapped' \in BOOLEAN
  BY <1>6
<1> QED BY <1>3, <1>9, <1>10, <1>11, <1>12 DEF IInv, ListTypeOK

(***************************************************************************)
(* deletejob clears one slot and restarts nextjid above all job IDs.       *)
(***************************************************************************)
LEMMA DeleteStep ==
    ASSUME IInv, NEW pid \in Pids, DeleteJob(pid)
    PROVE  IInv'
<1>1. pid \in Listed(jobs) /\ getjobpid(jobs, pid) \in Slots
  BY GetjobpidFinds DEF DeleteJob, IInv, ListTypeOK
<1>2. jobs' \in Table /\ nextjid' \in Nat
  BY <1>1, DeletejobEffect DEF DeleteJob, IInv, ListTypeOK
<1>3. maxjid(jobs') \in Nat /\ \A i \in Slots : jobs'[i].jid <= maxjid(jobs')
  BY <1>2, MaxjidBounds
<1>4. nextjid' = maxjid(jobs') + 1
  BY DEF DeleteJob, nextjidDelete
<1>5. \A i \in Slots : \/ jobs'[i].pid = NoPid /\ jobs'[i].jid = 0
                       \/ jobs'[i] = jobs[i]
  BY DEF DeleteJob, deletejob, clearjob, IInv, ListTypeOK, Table
<1>6. \A i \in Slots : jobs'[i].jid \in Nat
  BY <1>2 DEF Table, Job
<1>7. UniqueUntilWrap'
  <2>1. \A i \in Slots : jobs'[i].jid < nextjid'
    BY <1>3, <1>4, <1>6
  <2>2. ASSUME ~ wrapped
        PROVE  UniqueJids'
    BY <1>5, <2>2 DEF IInv, UniqueUntilWrap, UniqueJids
  <2> QED BY <2>1, <2>2 DEF UniqueUntilWrap, DeleteJob
<1>8. FreeHasNoJid'
  BY <1>5 DEF IInv, FreeHasNoJid
<1> QED BY <1>2, <1>3, <1>4, <1>7, <1>8 DEF IInv, ListTypeOK, DeleteJob

THEOREM Invariance == ListSpec => []IInv
<1>1. IInv /\ [ListNext]_listVars => IInv'
  <2>1. ASSUME IInv, UNCHANGED listVars
        PROVE  IInv'
    BY <2>1 DEF listVars, IInv, ListTypeOK, UniqueUntilWrap, UniqueJids, FreeHasNoJid
  <2> QED BY <2>1, AddStep, DeleteStep DEF ListNext
<1> QED BY <1>1, InitIInv, PTL DEF ListSpec

(***************************************************************************)
(* Until nextjid wraps, no two jobs share a job ID, and the next one is    *)
(* above them all: a job can be named by its ID.  A slot is free exactly   *)
(* when it has no job ID (addjob, deletejob, lines 528 to 577).            *)
(***************************************************************************)
THEOREM TableIsSound == ListSpec => []TableSound
<1>1. IInv => TableSound
  BY DEF IInv, TableSound
<1> QED BY <1>1, Invariance, PTL
=============================================================================
