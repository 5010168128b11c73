------------------------------ MODULE JobTable ------------------------------
(***************************************************************************)
(* The shell's job table and the helper routines that search and change    *)
(* it, lab05_shell/tsh.c lines 47-53 and 501-619.  A table is a function   *)
(* from slots to job records; a helper that returns a pointer returns the  *)
(* slot pointed at, and 0 for NULL.  Command lines are left out.           *)
(***************************************************************************)
EXTENDS Integers

CONSTANTS
    Pids,       \* process identifiers the kernel may hand out
    NoPid,      \* the pid 0 of a slot that holds no job
    MaxJobs     \* MAXJOBS: the number of slots

ASSUME MaxJobsAssumption == MaxJobs \in Nat \ {0}
ASSUME NoPidAssumption == NoPid \notin Pids

Slots == 1..MaxJobs
States == {"UNDEF", "FG", "BG", "ST"}
Job == [pid : Pids \cup {NoPid}, jid : Nat, state : States]
Table == [Slots -> Job]

NULL == 0

\* The first slot of S in the order in which every scan runs.
First(S) == IF S = {} THEN NULL ELSE CHOOSE i \in S : \A j \in S : i <= j

clearjob == [pid |-> NoPid, jid |-> 0, state |-> "UNDEF"]
initjobs == [i \in Slots |-> clearjob]

\* Whether no two slots hold the same pid: what a table built by addjob on
\* fresh pids has, and what makes the first match of a scan the only one.
UniquePids(jobs) ==
    \A i, j \in Slots : jobs[i].pid # NoPid /\ jobs[i].pid = jobs[j].pid => i = j

Listed(jobs) == {jobs[i].pid : i \in Slots} \ {NoPid}

maxjid(jobs) ==
    CHOOSE m \in {0} \cup {jobs[i].jid : i \in Slots} :
        \A i \in Slots : jobs[i].jid <= m

getjobpid(jobs, pid) == First({i \in Slots : pid # NoPid /\ jobs[i].pid = pid})
getjobjid(jobs, jid) == First({i \in Slots : jid >= 1 /\ jobs[i].jid = jid})

pid2jid(jobs, pid) ==
    LET i == getjobpid(jobs, pid) IN IF i = NULL THEN 0 ELSE jobs[i].jid

\* The pid in the first slot whose state is FG, which may be a cleared slot.
FgSlot(jobs) == First({i \in Slots : jobs[i].state = "FG"})
fgpid(jobs) == IF FgSlot(jobs) = NULL THEN NoPid ELSE jobs[FgSlot(jobs)].pid

\* Mutant: the scan starts at the second slot.
FreeSlotFromSecond(jobs) == First({i \in Slots : i > 1 /\ jobs[i].pid = NoPid})

\* addjob takes the first free slot; with none it changes nothing and returns 0.
FreeSlot(jobs) == First({i \in Slots : jobs[i].pid = NoPid})

addjob(jobs, nextjid, pid, state) ==
    IF FreeSlot(jobs) = NULL THEN jobs
    ELSE [jobs EXCEPT ![FreeSlot(jobs)] =
            [pid |-> pid, jid |-> nextjid, state |-> state]]

nextjidAdd(jobs, nextjid) ==
    IF FreeSlot(jobs) = NULL THEN nextjid
    ELSE IF nextjid + 1 > MaxJobs THEN 1 ELSE nextjid + 1

\* Mutants: the slot keeps its pid and job ID; the largest ID in use, and the
\* one below it, in place of the one above.
deletejobKeepsPid(jobs, pid) ==
    [jobs EXCEPT ![getjobpid(jobs, pid)].state = "UNDEF"]
nextjidInUse(jobs, pid) == maxjid([jobs EXCEPT ![getjobpid(jobs, pid)] = clearjob])
nextjidBelow(jobs, pid) == maxjid([jobs EXCEPT ![getjobpid(jobs, pid)] = clearjob]) - 1

\* deletejob clears the slot of a listed pid and recomputes the next job ID.
deletejob(jobs, pid) == [jobs EXCEPT ![getjobpid(jobs, pid)] = clearjob]
nextjidDelete(jobs, pid) == maxjid(deletejob(jobs, pid)) + 1
=============================================================================
