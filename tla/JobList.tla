------------------------------ MODULE JobList ------------------------------
(***************************************************************************)
(* The job table of tsh.c as its callers use it, away from signals: jobs   *)
(* are added and deleted in any order, every call with signals blocked     *)
(* (tsh.c lines 220-221, 416-417, 428-429).                                *)
(***************************************************************************)
EXTENDS JobTable

VARIABLES
    jobs,       \* the table
    nextjid,    \* the next job ID to allocate
    wrapped     \* history: whether nextjid has started again at 1

listVars == <<jobs, nextjid, wrapped>>

ListInit == jobs = initjobs /\ nextjid = 1 /\ wrapped = FALSE

\* The kernel gives a child a pid no listed (hence unreaped) child has.
AddJob(pid) ==
    /\ pid \notin Listed(jobs)
    /\ FreeSlot(jobs) # NULL
    /\ \E state \in {"FG", "BG"} : jobs' = addjob(jobs, nextjid, pid, state)
    /\ nextjid' = nextjidAdd(jobs, nextjid)
    /\ wrapped' = (wrapped \/ nextjid + 1 > MaxJobs)

DeleteJob(pid) ==
    /\ getjobpid(jobs, pid) # NULL
    /\ jobs' = deletejob(jobs, pid)
    /\ nextjid' = nextjidDelete(jobs, pid)
    /\ UNCHANGED wrapped

ListNext == \E pid \in Pids : AddJob(pid) \/ DeleteJob(pid)
ListSpec == ListInit /\ [][ListNext]_listVars

-----------------------------------------------------------------------------
\* Type invariant.
ListTypeOK == jobs \in Table /\ nextjid \in Nat /\ wrapped \in BOOLEAN

\* Line 594: a job is found by its job ID, so no two jobs share one.
UniqueJids ==
    \A i, j \in Slots :
        jobs[i].pid # NoPid /\ jobs[j].pid # NoPid /\ jobs[i].jid = jobs[j].jid => i = j

\* The part of it that the code keeps: job IDs are distinct, and the next one
\* is above them all, until nextjid wraps to 1 (line 541).
UniqueUntilWrap ==
    ~ wrapped => UniqueJids /\ \A i \in Slots : jobs[i].jid < nextjid

\* Free slots and slots without a job ID are the same slots, whatever was
\* added and deleted: addjob looks for one (line 537), getjobjid for the other.
FreeHasNoJid == \A i \in Slots : jobs[i].pid = NoPid <=> jobs[i].jid = 0

\* What holds of the table whatever was added and deleted.
TableSound == UniqueUntilWrap /\ FreeHasNoJid
=============================================================================
