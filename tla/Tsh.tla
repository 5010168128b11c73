-------------------------------- MODULE Tsh --------------------------------
(***************************************************************************)
(* The job-control shell lab05_shell/tsh.c: its read/eval loop, its three  *)
(* signal handlers, the job table they share, and the children and signals *)
(* the kernel keeps for it.                                                *)
(*                                                                         *)
(* The shell is one thread.  Handlers preempt it and one another: a        *)
(* delivered signal pushes a frame, and only the top frame (the main loop  *)
(* when there is none) takes steps.  A step is a stretch of code no signal *)
(* can split with a visible effect: one access to the table, one system    *)
(* call, or a stretch with every signal blocked.  As POSIX has it, a       *)
(* pending signal that is not blocked is delivered before the next step.   *)
(* The children, the terminal and other processes act at any time.         *)
(***************************************************************************)
EXTENDS JobTable, FiniteSets

CONSTANTS
    MaxFrames,  \* bound: how many handlers may be stacked
    PrevAll,    \* the masks the uninitialized prev_all (line 408) may hold
    Outsiders,  \* whether other processes send SIGCONT and SIGKILL to jobs
    Keys        \* the signals the terminal sends: ctrl-c INT, ctrl-z TSTP

Signals == {"CHLD", "INT", "TSTP"}
Masks == SUBSET Signals

ASSUME PidsAssumption == IsFiniteSet(Pids)
ASSUME MaxFramesAssumption == MaxFrames \in Nat \ {0}
ASSUME PrevAllAssumption == PrevAll \subseteq Masks
ASSUME OutsidersAssumption == Outsiders \in BOOLEAN
ASSUME KeysAssumption == Keys \subseteq {"INT", "TSTP"}

VARIABLES
    jobs,       \* the job table
    nextjid,    \* the next job ID to allocate
    proc,       \* what each child is doing
    unreported, \* stopped children whose stop waitpid has not returned yet
    pending,    \* signals pending for the shell
    mask,       \* signals blocked in the shell
    main,       \* where the read/eval loop is, and its locals
    depth,      \* how many handlers are on the stack
    frame,      \* the stacked handlers: where each is, its locals, saved mask
    ended       \* "no", or why the shell exited

tableVars == <<jobs, nextjid>>
procVars == <<proc, unreported>>
ctlVars == <<mask, main, depth, frame>>
vars == <<jobs, nextjid, proc, unreported, pending, mask, main, depth, frame, ended>>

\* forked: before execve, the shell's own handlers still installed and so
\* deaf to kill(-pid); doomed: stopped with a SIGINT pending.
ProcStates == {"none", "forked", "running", "stopped", "doomed",
               "exited", "killed", "reaped"}
Zombie == {"exited", "killed"}

MainAt == {"read", "add", "bgjid", "setstate", "cont", "waitfg", "suspend", "suspended"}
FrameAt == {"none", "wait", "delete", "getjob", "setst", "fgpid", "getfg", "kill"}
Endings == {"no", "quit", "fork error", "background pid2jid error",
            "sigchld_handler error", "null job"}

Main == [at : MainAt, pid : Pids \cup {NoPid}, slot : Slots \cup {NULL},
         bg : BOOLEAN, prev : Masks]
Frame == [sig : Signals \cup {"none"}, at : FrameAt, pid : Pids \cup {NoPid},
          slot : Slots \cup {NULL}, saved : Masks]

Idle == [at |-> "read", pid |-> NoPid, slot |-> NULL, bg |-> FALSE, prev |-> {}]
NoFrame == [sig |-> "none", at |-> "none", pid |-> NoPid, slot |-> NULL, saved |-> {}]

Init ==
    /\ jobs = initjobs
    /\ nextjid = 1
    /\ proc = [p \in Pids |-> "none"]
    /\ unreported = {}
    /\ pending = {}
    /\ mask = {}
    /\ main = Idle
    /\ depth = 0
    /\ frame = [d \in 1..MaxFrames |-> NoFrame]
    /\ ended = "no"

-----------------------------------------------------------------------------
Alive == ended = "no"
Deliverable == IF depth < MaxFrames THEN pending \ mask ELSE {}

MainRuns(at) == Alive /\ Deliverable = {} /\ depth = 0 /\ main.at = at
FrameRuns(d, sig, at) ==
    /\ Alive
    /\ Deliverable = {}
    /\ depth = d
    /\ frame[d].sig = sig
    /\ frame[d].at = at

\* unix_error and exit: nothing but the reason matters any more.
Exit(why) ==
    /\ ended' = why
    /\ UNCHANGED <<tableVars, procVars, pending, ctlVars>>

-----------------------------------------------------------------------------
(* What kill(2) does to the process (group) of a job.                      *)

Dies(p, how) ==
    /\ proc' = [proc EXCEPT ![p] = how]
    /\ unreported' = unreported \ {p}
    /\ pending' = pending \cup {"CHLD"}

\* kill(-p, SIGINT); kill(0, SIGINT) reaches the shell's own group.
KillInt(p) ==
    \/ p = NoPid /\ pending' = pending \cup {"INT"} /\ UNCHANGED procVars
    \/ p # NoPid /\ proc[p] = "running" /\ Dies(p, "killed")
    \/ /\ p # NoPid
       /\ proc[p] # "running"
       /\ proc' = [proc EXCEPT ![p] = IF @ = "stopped" THEN "doomed" ELSE @]
       /\ UNCHANGED <<unreported, pending>>

Stops(p) ==
    /\ proc' = [proc EXCEPT ![p] = "stopped"]
    /\ unreported' = unreported \cup {p}
    /\ pending' = pending \cup {"CHLD"}

KillTstp(p) ==
    \/ proc[p] = "running" /\ Stops(p)
    \/ proc[p] # "running" /\ UNCHANGED <<procVars, pending>>

\* SIGCONT wakes a stopped child; a SIGINT it had pending then kills it.
Continues(p) ==
    /\ proc' = [proc EXCEPT ![p] = IF @ = "doomed" THEN "killed" ELSE "running"]
    /\ unreported' = unreported \ {p}
    /\ pending' = pending \cup {"CHLD"}

KillCont(p) ==
    \/ p # NoPid /\ proc[p] \in {"stopped", "doomed"} /\ Continues(p)
    \/ /\ p # NoPid => proc[p] \notin {"stopped", "doomed"}
       /\ UNCHANGED <<procVars, pending>>

-----------------------------------------------------------------------------
(* The read/eval loop.                                                     *)

\* Mutant: SIGCHLD stays unblocked across the fork.
EvalUnblocked(p, bg) ==
    /\ MainRuns("read")
    /\ proc[p] = "none"
    /\ proc' = [proc EXCEPT ![p] = "forked"]
    /\ main' = [Idle EXCEPT !.at = "add", !.pid = p, !.bg = bg, !.prev = mask]
    /\ UNCHANGED <<tableVars, unreported, pending, mask, depth, frame, ended>>

\* eval up to the fork: SIGCHLD is blocked so that the child cannot be
\* reaped before addjob.
Eval(p, bg) ==
    /\ MainRuns("read")
    /\ proc[p] = "none"
    /\ proc' = [proc EXCEPT ![p] = "forked"]
    /\ mask' = mask \cup {"CHLD"}
    /\ main' = [Idle EXCEPT !.at = "add", !.pid = p, !.bg = bg, !.prev = mask]
    /\ UNCHANGED <<tableVars, unreported, pending, depth, frame, ended>>

EvalForkFails == MainRuns("read") /\ Exit("fork error")

\* Mutant: the mask is not restored after addjob.
EvalAddJobKeepsMask ==
    /\ MainRuns("add")
    /\ jobs' = addjob(jobs, nextjid, main.pid, IF main.bg THEN "BG" ELSE "FG")
    /\ nextjid' = nextjidAdd(jobs, nextjid)
    /\ main' = [main EXCEPT !.at = IF main.bg THEN "bgjid" ELSE "waitfg"]
    /\ UNCHANGED <<procVars, pending, mask, depth, frame, ended>>

\* eval from the second sigprocmask: addjob with all signals blocked, its
\* result ignored, then the mask of before the fork.
EvalAddJob ==
    /\ MainRuns("add")
    /\ jobs' = addjob(jobs, nextjid, main.pid, IF main.bg THEN "BG" ELSE "FG")
    /\ nextjid' = nextjidAdd(jobs, nextjid)
    /\ mask' = main.prev
    /\ main' = [main EXCEPT !.at = IF main.bg THEN "bgjid" ELSE "waitfg"]
    /\ UNCHANGED <<procVars, pending, depth, frame, ended>>

EvalBgJid ==
    /\ MainRuns("bgjid")
    /\ \/ pid2jid(jobs, main.pid) = 0 /\ Exit("background pid2jid error")
       \/ /\ pid2jid(jobs, main.pid) # 0
          /\ main' = Idle
          /\ UNCHANGED <<tableVars, procVars, pending, mask, depth, frame, ended>>

\* The driver's SIGQUIT at any step; quit and end of file do no more.
Quit == Alive /\ Exit("quit")

\* do_bgfg up to the lookup: the argument is a pid or the ID of some job.
\* An argument that names no job only prints.
DoBgFg(bg) ==
    /\ MainRuns("read")
    /\ \E slot \in {getjobpid(jobs, p) : p \in Pids}
                   \cup {getjobjid(jobs, jobs[i].jid) : i \in Slots} :
          /\ slot # NULL
          /\ main' = [Idle EXCEPT !.at = "setstate", !.slot = slot, !.bg = bg]
    /\ UNCHANGED <<tableVars, procVars, pending, mask, depth, frame, ended>>

\* The assignment through the job pointer, all signals blocked.
DoBgFgSetState ==
    /\ MainRuns("setstate")
    /\ jobs' = [jobs EXCEPT ![main.slot].state = IF main.bg THEN "BG" ELSE "FG"]
    /\ main' = [main EXCEPT !.at = "cont"]
    /\ UNCHANGED <<nextjid, procVars, pending, mask, depth, frame, ended>>

\* Mutant: the job's state is changed but no SIGCONT is sent.
DoBgFgNoCont ==
    /\ MainRuns("cont")
    /\ main' = IF main.bg THEN Idle ELSE [Idle EXCEPT !.at = "waitfg"]
    /\ UNCHANGED <<tableVars, procVars, pending, mask, depth, frame, ended>>

DoBgFgCont ==
    /\ MainRuns("cont")
    /\ KillCont(jobs[main.slot].pid)
    /\ main' = IF main.bg THEN Idle ELSE [Idle EXCEPT !.at = "waitfg"]
    /\ UNCHANGED <<tableVars, mask, depth, frame, ended>>

WaitFg ==
    /\ MainRuns("waitfg")
    /\ main' = IF fgpid(jobs) = NoPid THEN Idle ELSE [main EXCEPT !.at = "suspend"]
    /\ UNCHANGED <<tableVars, procVars, pending, mask, depth, frame, ended>>

\* sigsuspend with an empty mask: the loop sleeps until a handler has run.
WaitFgSuspend ==
    /\ MainRuns("suspend")
    /\ main' = [main EXCEPT !.at = "suspended"]
    /\ UNCHANGED <<tableVars, procVars, pending, mask, depth, frame, ended>>

NewCommand ==
    \/ \E p \in Pids, bg \in BOOLEAN : Eval(p, bg)
    \/ EvalForkFails
    \/ \E bg \in BOOLEAN : DoBgFg(bg)

\* The rest of a command once it has started.
CommandStep ==
    \/ EvalAddJob
    \/ EvalBgJid
    \/ DoBgFgSetState
    \/ DoBgFgCont
    \/ WaitFg
    \/ WaitFgSuspend

-----------------------------------------------------------------------------
(* Signal delivery and the handlers.                                       *)

EntryPoint(s) == IF s = "CHLD" THEN "wait" ELSE "fgpid"

\* The kernel saves the mask, blocks the signal (sigaction with an empty
\* sa_mask, line 694) and runs the handler; sigsuspend ends.
Deliver(s) ==
    /\ Alive
    /\ s \in Deliverable
    /\ pending' = pending \ {s}
    /\ depth' = depth + 1
    /\ frame' = [frame EXCEPT ![depth + 1] =
                   [NoFrame EXCEPT !.sig = s, !.at = EntryPoint(s), !.saved = mask]]
    /\ mask' = mask \cup {s}
    /\ main' = IF main.at = "suspended" THEN [main EXCEPT !.at = "waitfg"] ELSE main
    /\ UNCHANGED <<tableVars, procVars, ended>>

\* The handler's return: the kernel restores the mask it saved.
Return(d) ==
    /\ depth' = d - 1
    /\ mask' = frame[d].saved
    /\ frame' = [frame EXCEPT ![d] = NoFrame]
    /\ UNCHANGED <<main, ended>>

Goto(d, at) == frame' = [frame EXCEPT ![d].at = at]

\* waitpid returns a dead child.
ChldReap(d, p) ==
    /\ FrameRuns(d, "CHLD", "wait")
    /\ proc[p] \in Zombie
    /\ proc' = [proc EXCEPT ![p] = "reaped"]
    /\ frame' = [frame EXCEPT ![d].at = "delete", ![d].pid = p]
    /\ UNCHANGED <<tableVars, unreported, pending, mask, main, depth, ended>>

\* All signals blocked, deletejob, then a mask nobody initialized.  (A child
\* a signal killed is also looked up before, line 424, with the same end.)
ChldDelete(d) ==
    /\ FrameRuns(d, "CHLD", "delete")
    /\ \/ /\ getjobpid(jobs, frame[d].pid) = NULL
          /\ Exit("sigchld_handler error")
       \/ /\ getjobpid(jobs, frame[d].pid) # NULL
          /\ jobs' = deletejob(jobs, frame[d].pid)
          /\ nextjid' = nextjidDelete(jobs, frame[d].pid)
          /\ mask' \in PrevAll
          /\ frame' = [frame EXCEPT ![d].at = "wait", ![d].pid = NoPid]
          /\ UNCHANGED <<procVars, pending, main, depth, ended>>

\* waitpid returns a stopped child.
ChldStopped(d, p) ==
    /\ FrameRuns(d, "CHLD", "wait")
    /\ p \in unreported
    /\ unreported' = unreported \ {p}
    /\ frame' = [frame EXCEPT ![d].at = "getjob", ![d].pid = p]
    /\ UNCHANGED <<tableVars, proc, pending, mask, main, depth, ended>>

ChldGetJob(d) ==
    /\ FrameRuns(d, "CHLD", "getjob")
    /\ LET slot == getjobpid(jobs, frame[d].pid) IN
       \/ slot = NULL /\ Exit("sigchld_handler error")
       \/ /\ slot # NULL
          /\ frame' = [frame EXCEPT ![d].at = "setst", ![d].slot = slot]
          /\ UNCHANGED <<tableVars, procVars, pending, mask, main, depth, ended>>

ChldSetSt(d) ==
    /\ FrameRuns(d, "CHLD", "setst")
    /\ jobs' = [jobs EXCEPT ![frame[d].slot].state = "ST"]
    /\ frame' = [frame EXCEPT ![d].at = "wait", ![d].pid = NoPid, ![d].slot = NULL]
    /\ UNCHANGED <<nextjid, procVars, pending, mask, main, depth, ended>>

Waitable(p) == proc[p] \in Zombie \/ p \in unreported

\* Mutant: the handler calls waitpid once, if in place of while.
ChldReturnEarly(d) ==
    /\ FrameRuns(d, "CHLD", "wait")
    /\ Return(d)
    /\ UNCHANGED <<tableVars, procVars, pending>>

ChldReturn(d) ==
    /\ FrameRuns(d, "CHLD", "wait")
    /\ \A p \in Pids : ~ Waitable(p)
    /\ Return(d)
    /\ UNCHANGED <<tableVars, procVars, pending>>

\* sigint_handler and sigtstp_handler both start with fgpid.
FgHandlerPid(d, sig) ==
    /\ FrameRuns(d, sig, "fgpid")
    /\ \/ /\ fgpid(jobs) = NoPid
          /\ Return(d)
          /\ UNCHANGED <<tableVars, procVars, pending>>
       \/ /\ fgpid(jobs) # NoPid
          /\ frame' = [frame EXCEPT ![d].at = IF sig = "INT" THEN "getfg" ELSE "kill",
                                    ![d].pid = fgpid(jobs)]
          /\ UNCHANGED <<tableVars, procVars, pending, mask, main, depth, ended>>

IntGetJob(d) ==
    /\ FrameRuns(d, "INT", "getfg")
    /\ frame' = [frame EXCEPT ![d].at = "kill", ![d].slot = getjobpid(jobs, frame[d].pid)]
    /\ UNCHANGED <<tableVars, procVars, pending, mask, main, depth, ended>>

\* fgjob is dereferenced unchecked, and only now.
IntKill(d) ==
    /\ FrameRuns(d, "INT", "kill")
    /\ \/ frame[d].slot = NULL /\ Exit("null job")
       \/ /\ frame[d].slot # NULL
          /\ KillInt(jobs[frame[d].slot].pid)
          /\ Return(d)
          /\ UNCHANGED tableVars

TstpKill(d) ==
    /\ FrameRuns(d, "TSTP", "kill")
    /\ KillTstp(frame[d].pid)
    /\ Return(d)
    /\ UNCHANGED tableVars

HandlerStep(d) ==
    \/ \E p \in Pids : ChldReap(d, p) \/ ChldStopped(d, p)
    \/ ChldDelete(d)
    \/ ChldGetJob(d)
    \/ ChldSetSt(d)
    \/ ChldReturn(d)
    \/ FgHandlerPid(d, "INT")
    \/ FgHandlerPid(d, "TSTP")
    \/ IntGetJob(d)
    \/ IntKill(d)
    \/ TstpKill(d)

-----------------------------------------------------------------------------
(* The children, the terminal, and other processes.                        *)

\* The child has called setpgid and execve.
ChildExec(p) ==
    /\ proc[p] = "forked"
    /\ proc' = [proc EXCEPT ![p] = "running"]
    /\ UNCHANGED <<unreported, pending>>

\* It exits (also when execve fails), or dies of a signal of its own.
ChildEnds(p) ==
    /\ proc[p] \in {"forked", "running"}
    /\ \E how \in Zombie : Dies(p, how)

ChildStops(p) == proc[p] = "running" /\ Stops(p)

OutsiderCont(p) ==
    /\ Outsiders
    /\ proc[p] \in {"stopped", "doomed"}
    /\ Continues(p)

OutsiderKill(p) ==
    /\ Outsiders
    /\ proc[p] \in {"forked", "running", "stopped", "doomed"}
    /\ Dies(p, "killed")

\* ctrl-c and ctrl-z, or the driver's kill, send a signal to the shell.
Terminal ==
    /\ \E s \in Keys : pending' = pending \cup {s}
    /\ UNCHANGED procVars

Environment ==
    /\ Alive
    /\ \/ \E p \in Pids : \/ ChildExec(p) \/ ChildEnds(p) \/ ChildStops(p)
                          \/ OutsiderCont(p) \/ OutsiderKill(p)
       \/ Terminal
    /\ UNCHANGED <<tableVars, ctlVars, ended>>

Next ==
    \/ NewCommand
    \/ CommandStep
    \/ Quit
    \/ \E s \in Signals : Deliver(s)
    \/ \E d \in 1..MaxFrames : HandlerStep(d)
    \/ Environment

Spec == Init /\ [][Next]_vars

\* The processor runs the shell: a delivery, a handler or a started command
\* that can go on does.  Nobody has to type a command, no child has to end.
Fairness ==
    /\ WF_vars(CommandStep)
    /\ \A s \in Signals : WF_vars(Deliver(s))
    /\ \A d \in 1..MaxFrames : WF_vars(HandlerStep(d))

\* The user does not lean on ctrl-c for ever.
KeysRest == <>[][\A s \in Keys : s \in pending' => s \in pending]_vars

FairSpec == Spec /\ Fairness /\ KeysRest
-----------------------------------------------------------------------------
(* Properties.                                                             *)

\* Type invariant: every variable stays in its range.
TypeOK ==
    /\ jobs \in Table
    /\ nextjid \in Nat
    /\ proc \in [Pids -> ProcStates]
    /\ unreported \subseteq Pids
    /\ pending \subseteq Signals
    /\ mask \subseteq Signals
    /\ main \in Main
    /\ depth \in 0..MaxFrames
    /\ frame \in [1..MaxFrames -> Frame]
    /\ ended \in Endings

Active == {d \in 1..MaxFrames : d <= depth}
ChldAt(d, at) == d \in Active /\ frame[d].sig = "CHLD" /\ frame[d].at = at

\* SIGCHLD is not queued: one delivery may stand for many children.  While
\* waitpid still has something to return, a SIGCHLD is pending or its
\* handler is running and will call waitpid again (the loop of line 411).
NoMissedChild ==
    Alive /\ (\E p \in Pids : Waitable(p)) =>
        "CHLD" \in pending \/ \E d \in Active : frame[d].sig = "CHLD"

\* The table holds no ghost: a listed pid was forked, and once reaped it
\* stays listed only until the handler that reaped it reaches deletejob.
NoGhostJob ==
    \A p \in Listed(jobs) :
        /\ proc[p] # "none"
        /\ proc[p] = "reaped" => \E d \in Active : ChldAt(d, "delete") /\ frame[d].pid = p

\* No job is lost: with room in the table, a child that has not been reaped
\* is listed, or eval is about to add it.
NoLostJob ==
    Alive /\ Cardinality(Pids) <= MaxJobs =>
        \A p \in Pids : proc[p] \notin {"none", "reaped"} =>
            p \in Listed(jobs) \/ (main.at = "add" /\ main.pid = p)

\* A stopped child whose stop has been reported is not listed as running:
\* its state is ST, unless the handler that got the report or the bg/fg
\* command that is about to continue it holds its job.
StoppedJobIsST ==
    \A i \in Slots, p \in Pids :
        /\ jobs[i].pid = p
        /\ proc[p] \in {"stopped", "doomed"}
        /\ p \notin unreported
        => \/ jobs[i].state = "ST"
           \/ main.at = "cont" /\ main.slot = i
           \/ \E d \in Active : frame[d].sig = "CHLD" /\ frame[d].pid = p

\* Every path gives the caller its mask back: outside the handlers SIGCHLD is
\* blocked exactly between fork and addjob, and nothing else ever is.
MainMask == depth = 0 => mask = IF main.at = "add" THEN {"CHLD"} ELSE {}

\* With room in the table, an internal error (line 231, 424, 437, or the
\* dereference of line 467) means that the child the running code was about
\* to look up had been reaped and unlisted behind its back.  For the SIGCHLD
\* handler that takes a stop report overtaken by a re-entered handler, which
\* cannot happen if prev_all blocks SIGCHLD; its deletejob never fails.
AbortsExplained ==
    Cardinality(Pids) <= MaxJobs =>
        /\ ended = "background pid2jid error" => proc[main.pid] = "reaped"
        /\ ended = "null job" => proc[frame[depth].pid] = "reaped"
        /\ ended = "sigchld_handler error" =>
             /\ ChldAt(depth, "getjob")
             /\ proc[frame[depth].pid] = "reaped"
             /\ \E m \in PrevAll : "CHLD" \notin m

\* Every child that has died or stopped is eventually returned by waitpid,
\* however many of them one SIGCHLD stood for, unless the shell exits.
ChildReported == \A p \in Pids : Waitable(p) ~> ~ Waitable(p) \/ ~ Alive

-----------------------------------------------------------------------------
(* The inductive invariant behind the safety properties.                   *)

\* While eval is between fork and addjob, no SIGCHLD handler runs or can
\* run: SIGCHLD is blocked now and in every mask a handler will restore.
NoChldWhileAdding ==
    main.at = "add" =>
        /\ main.prev = {}
        /\ "CHLD" \in mask
        /\ \A d \in Active : frame[d].sig # "CHLD" /\ "CHLD" \in frame[d].saved

\* The bottom handler restores the mask the main loop had.
BottomMask ==
    depth > 0 => frame[1].saved = IF main.at = "add" THEN {"CHLD"} ELSE {}

\* So the child being added is not listed yet and cannot have been reaped.
AddedChild ==
    main.at = "add" =>
        /\ main.pid \in Pids
        /\ proc[main.pid] \notin {"none", "reaped"}
        /\ main.pid \notin Listed(jobs)

\* What each handler's locals hold at the steps that use them.
FrameLocals ==
    \A d \in Active :
        /\ ChldAt(d, "delete") => frame[d].pid \in Pids /\ proc[frame[d].pid] = "reaped"
        /\ ChldAt(d, "getjob") => frame[d].pid \in Pids
        /\ frame[d].sig = "TSTP" /\ frame[d].at = "kill" => frame[d].pid \in Pids
        /\ frame[d].sig = "INT" /\ frame[d].at = "getfg" => frame[d].pid \in Pids

IInv ==
    /\ TypeOK
    /\ MainMask
    /\ BottomMask
    /\ NoChldWhileAdding
    /\ AddedChild
    /\ FrameLocals
    /\ UniquePids(jobs)
    /\ NoMissedChild
    /\ NoGhostJob

\* What keeps the states of the jobs right: a child being added has had no
\* stop reported; a handler that got a report, and no other, remembers whose;
\* the slot it found is still that child's, or the child is listed no more.
StopsRemembered ==
    /\ main.at = "add" /\ proc[main.pid] \in {"stopped", "doomed"} => main.pid \in unreported
    /\ \A d \in Active :
        /\ ChldAt(d, "wait") => frame[d].pid = NoPid
        /\ ChldAt(d, "setst") =>
            /\ frame[d].slot \in Slots /\ frame[d].pid \in Pids
            /\ jobs[frame[d].slot].pid = frame[d].pid \/ frame[d].pid \notin Listed(jobs)

\* A job has a job ID.
JidsPositive ==
    /\ nextjid > 0
    /\ \A i \in Slots : jobs[i].pid # NoPid => jobs[i].jid > 0

\* A pid that running code holds is that of a child, no one else's to add.
PidsHeld ==
    /\ main.at = "bgjid" => main.pid \in Pids /\ proc[main.pid] # "none"
    /\ \A p \in unreported : proc[p] \in {"stopped", "doomed"}
    /\ \A d \in Active :
        /\ ChldAt(d, "getjob") => proc[frame[d].pid] # "none"
        /\ frame[d].sig = "INT" /\ frame[d].at = "getfg" =>
              proc[frame[d].pid] # "none" /\ ~(main.at = "add" /\ main.pid = frame[d].pid)

\* With room in the table, a job not found is a child already reaped, and
\* every reaped child has one handler on its way to delete it, and its job.
JobsFound ==
    Cardinality(Pids) <= MaxJobs =>
        \A d \in Active :
            /\ frame[d].sig = "INT" /\ frame[d].at = "kill" /\ frame[d].slot = NULL =>
                  frame[d].pid \in Pids /\ proc[frame[d].pid] = "reaped"
            /\ ChldAt(d, "delete") =>
                  /\ frame[d].pid \in Listed(jobs)
                  /\ \A e \in Active : ChldAt(e, "delete") /\ frame[e].pid = frame[d].pid => e = d

\* If prev_all always blocks SIGCHLD, its handler is never re-entered.
NoReentry ==
    (\A m \in PrevAll : "CHLD" \in m) =>
        \A d \in Active : frame[d].sig = "CHLD" =>
            /\ "CHLD" \in mask
            /\ \A e \in Active : /\ frame[e].sig = "CHLD" => e = d
                                 /\ e > d => "CHLD" \in frame[e].saved
            /\ frame[d].at = "getjob" => proc[frame[d].pid] # "reaped"

JInv ==
    /\ IInv
    /\ NoLostJob
    /\ StoppedJobIsST /\ StopsRemembered
    /\ JidsPositive /\ PidsHeld /\ JobsFound /\ NoReentry
    /\ AbortsExplained

-----------------------------------------------------------------------------
(* What comments and error checks of tsh.c say, and the code does not keep. *)

\* Line 37: at most 1 job can be in the FG state.
AtMostOneFG ==
    \A p, q \in Listed(jobs) :
        /\ jobs[getjobpid(jobs, p)].state = "FG"
        /\ jobs[getjobpid(jobs, q)].state = "FG"
        => p = q

\* Line 379: waitfg blocks until there is no foreground process, not longer.
WaitFgReturns ==
    main.at = "suspended" /\ fgpid(jobs) = NoPid ~> main.at # "suspended" \/ ~ Alive
=============================================================================
