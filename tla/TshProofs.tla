----------------------------- MODULE TshProofs -----------------------------
(***************************************************************************)
(* Safety of the shell's job control for every set of pids, table size,    *)
(* depth of handlers, and every value the uninitialized mask may have.     *)
(***************************************************************************)
EXTENDS Tsh, JobTableProofs, FiniteSetTheorems

(***************************************************************************)
(* What kill(2) does keeps the kernel's variables in their ranges.         *)
(***************************************************************************)
LEMMA DiesType ==
    ASSUME TypeOK, NEW p, NEW how \in Zombie, Dies(p, how)
    PROVE  proc' \in [Pids -> ProcStates] /\ unreported' \subseteq Pids /\ pending' \subseteq Signals
BY DEF TypeOK, Dies, Zombie, ProcStates, Signals

LEMMA KillTypes ==
    ASSUME TypeOK, NEW p
    PROVE  /\ \/ KillInt(p)
              \/ KillCont(p)
              \/ Continues(p)
              \/ p \in Pids /\ KillTstp(p)
              \/ p \in Pids /\ Stops(p)
              => /\ proc' \in [Pids -> ProcStates]
                 /\ unreported' \subseteq Pids
                 /\ pending' \subseteq Signals
<1>1. ASSUME KillInt(p)
      PROVE  proc' \in [Pids -> ProcStates] /\ unreported' \subseteq Pids /\ pending' \subseteq Signals
  BY <1>1, DiesType DEF KillInt, TypeOK, ProcStates, Signals, procVars, Zombie
<1>2. ASSUME Continues(p)
      PROVE  proc' \in [Pids -> ProcStates] /\ unreported' \subseteq Pids /\ pending' \subseteq Signals
  BY <1>2 DEF Continues, TypeOK, ProcStates, Signals
<1>3. ASSUME p \in Pids, Stops(p)
      PROVE  proc' \in [Pids -> ProcStates] /\ unreported' \subseteq Pids /\ pending' \subseteq Signals
  BY <1>3 DEF Stops, TypeOK, ProcStates, Signals
<1>4. ASSUME KillCont(p)
      PROVE  proc' \in [Pids -> ProcStates] /\ unreported' \subseteq Pids /\ pending' \subseteq Signals
  BY <1>2, <1>4 DEF KillCont, TypeOK, procVars
<1>5. ASSUME p \in Pids, KillTstp(p)
      PROVE  proc' \in [Pids -> ProcStates] /\ unreported' \subseteq Pids /\ pending' \subseteq Signals
  BY <1>3, <1>5 DEF KillTstp, TypeOK, procVars
<1> QED BY <1>1, <1>2, <1>3, <1>4, <1>5

(***************************************************************************)
(* A handler's return and a jump inside a handler keep the types.          *)
(***************************************************************************)
LEMMA ReturnType ==
    ASSUME TypeOK, NEW d \in 1..MaxFrames, depth = d, Return(d)
    PROVE  /\ mask' \subseteq Signals
           /\ main' \in Main
           /\ depth' \in 0..MaxFrames
           /\ frame' \in [1..MaxFrames -> Frame]
           /\ ended' \in Endings
<1>1. frame[d] \in Frame
  BY DEF TypeOK
<1>2. NoFrame \in Frame
  BY DEF NoFrame, Frame, FrameAt, Masks
<1> QED BY <1>1, <1>2, MaxFramesAssumption DEF Return, TypeOK, Frame, Masks

LEMMA IdleType == Idle \in Main
BY DEF Idle, Main, MainAt, Masks

(***************************************************************************)
(* Every step preserves the type invariant.                                *)
(***************************************************************************)
LEMMA TypeStep ==
    ASSUME TypeOK, AddedChild, FrameLocals, [Next]_vars
    PROVE  TypeOK'
<1> USE DEF tableVars, procVars, ctlVars
<1>1. CASE UNCHANGED vars
  BY <1>1 DEF vars, TypeOK
<1>2. ASSUME NEW why \in Endings, Exit(why)
      PROVE  TypeOK'
  BY <1>2 DEF Exit, TypeOK
<1>3. ASSUME NEW p \in Pids, NEW bg \in BOOLEAN, Eval(p, bg)
      PROVE  TypeOK'
  BY <1>3 DEF Eval, TypeOK, Main, MainAt, Idle, ProcStates, Signals, Masks
<1>4. CASE EvalForkFails
  BY <1>2, <1>4 DEF EvalForkFails, Endings
<1>5. CASE EvalAddJob
  <2>1. main.pid \in Pids
    BY <1>5 DEF EvalAddJob, MainRuns, AddedChild
  <2>2. jobs' \in Table /\ nextjid' \in Nat
    BY <1>5, <2>1, AddjobEffect DEF EvalAddJob, TypeOK, States
  <2> QED BY <1>5, <2>2 DEF EvalAddJob, TypeOK, Main, MainAt, Masks
<1>6. CASE EvalBgJid
  BY <1>2, <1>6, IdleType DEF EvalBgJid, TypeOK, Endings
<1>7. CASE Quit
  BY <1>2, <1>7 DEF Quit, Endings
<1>8. ASSUME NEW bg \in BOOLEAN, DoBgFg(bg)
      PROVE  TypeOK'
  <2>1. PICK slot \in {getjobpid(jobs, p) : p \in Pids} \cup {getjobjid(jobs, jobs[i].jid) : i \in Slots} :
           main' = [Idle EXCEPT !.at = "setstate", !.slot = slot, !.bg = bg]
    BY <1>8 DEF DoBgFg
  <2>2. slot \in Slots \cup {NULL}
    <3>1. \A p \in Pids : getjobpid(jobs, p) \in Slots \cup {NULL}
      BY GetjobpidFinds DEF TypeOK
    <3>2. \A i \in Slots : getjobjid(jobs, jobs[i].jid) \in Slots \cup {NULL}
      BY GetjobjidType DEF TypeOK, Table, Job
    <3> QED BY <3>1, <3>2
  <2>3. main' \in Main
    BY <2>1, <2>2 DEF Idle, Main, MainAt, Masks
  <2> QED BY <1>8, <2>3 DEF DoBgFg, TypeOK
<1>9. CASE DoBgFgSetState
  <2>1. jobs' \in Table
    BY <1>9, SetStateEffect DEF DoBgFgSetState, TypeOK, States
  <2> QED BY <1>9, <2>1 DEF DoBgFgSetState, TypeOK, Main, MainAt
<1>10. CASE DoBgFgCont
  <2>1. proc' \in [Pids -> ProcStates] /\ unreported' \subseteq Pids /\ pending' \subseteq Signals
    BY <1>10, KillTypes DEF DoBgFgCont
  <2>2. main' \in Main
    BY <1>10 DEF DoBgFgCont, Idle, Main, MainAt, Masks
  <2> QED BY <1>10, <2>1, <2>2 DEF DoBgFgCont, TypeOK
<1>11. CASE WaitFg
  BY <1>11, IdleType DEF WaitFg, TypeOK, Main, MainAt
<1>12. CASE WaitFgSuspend
  BY <1>12 DEF WaitFgSuspend, TypeOK, Main, MainAt
<1>13. ASSUME NEW s \in Signals, Deliver(s)
       PROVE  TypeOK'
  <2>1. depth + 1 \in 1..MaxFrames
    BY <1>13, MaxFramesAssumption DEF Deliver, Deliverable, TypeOK
  <2>2. [NoFrame EXCEPT !.sig = s, !.at = EntryPoint(s), !.saved = mask] \in Frame
    BY DEF NoFrame, Frame, FrameAt, EntryPoint, Masks, TypeOK
  <2>3. frame' \in [1..MaxFrames -> Frame]
    BY <1>13, <2>1, <2>2 DEF Deliver, TypeOK
  <2>4. main' \in Main
    BY <1>13 DEF Deliver, TypeOK, Main, MainAt
  <2> QED BY <1>13, <2>1, <2>3, <2>4 DEF Deliver, TypeOK, Signals
<1>14. ASSUME NEW d \in 1..MaxFrames, HandlerStep(d)
       PROVE  TypeOK'
  <2> USE DEF FrameRuns
  <2>0. frame[d] \in Frame /\ d \in 1..MaxFrames
    BY DEF TypeOK
  <2>1. ASSUME NEW p \in Pids, ChldReap(d, p)
        PROVE  TypeOK'
    BY <2>0, <2>1 DEF ChldReap, TypeOK, Frame, FrameAt, ProcStates
  <2>2. ASSUME NEW p \in Pids, ChldStopped(d, p)
        PROVE  TypeOK'
    BY <2>0, <2>2 DEF ChldStopped, TypeOK, Frame, FrameAt
  <2>3. CASE ChldDelete(d)
    <3>0. d \in Active /\ ChldAt(d, "delete")
      <4>1. depth = d /\ frame[d].sig = "CHLD" /\ frame[d].at = "delete"
        BY <2>3 DEF ChldDelete
      <4> QED BY <4>1 DEF ChldAt, Active
    <3>1. frame[d].pid \in Pids
      BY <3>0 DEF FrameLocals
    <3>2. CASE Exit("sigchld_handler error")
      BY <1>2, <3>2 DEF Endings
    <3>3. CASE ~ Exit("sigchld_handler error")
      <4>0. /\ getjobpid(jobs, frame[d].pid) # NULL
            /\ jobs' = deletejob(jobs, frame[d].pid)
            /\ nextjid' = nextjidDelete(jobs, frame[d].pid)
            /\ mask' \in PrevAll
            /\ frame' = [frame EXCEPT ![d].at = "wait", ![d].pid = NoPid]
            /\ UNCHANGED <<procVars, pending, main, depth, ended>>
        BY <2>3, <3>3 DEF ChldDelete
      <4>1. frame[d].pid \in Listed(jobs)
        BY <3>1, <4>0, GetjobpidFinds DEF TypeOK
      <4>2. jobs' \in Table /\ nextjid' \in Nat
        BY <3>1, <4>0, <4>1, DeletejobEffect DEF TypeOK
      <4>3. mask' \subseteq Signals
        BY <4>0, PrevAllAssumption DEF Masks
      <4>4. frame' \in [1..MaxFrames -> Frame]
        BY <2>0, <4>0 DEF TypeOK, Frame, FrameAt
      <4> QED BY <4>0, <4>2, <4>3, <4>4 DEF TypeOK
    <3> QED BY <3>2, <3>3
  <2>4. CASE ChldGetJob(d)
    <3>1. getjobpid(jobs, frame[d].pid) \in Slots \cup {NULL}
      BY <2>0, GetjobpidFinds DEF TypeOK, Frame
    <3>2. CASE Exit("sigchld_handler error")
      BY <1>2, <3>2 DEF Endings
    <3>3. CASE ~ Exit("sigchld_handler error")
      <4>1. /\ frame' = [frame EXCEPT ![d].at = "setst", ![d].slot = getjobpid(jobs, frame[d].pid)]
            /\ UNCHANGED <<tableVars, procVars, pending, mask, main, depth, ended>>
        BY <2>4, <3>3 DEF ChldGetJob
      <4> QED BY <2>0, <3>1, <4>1 DEF TypeOK, Frame, FrameAt
    <3> QED BY <3>2, <3>3
  <2>5. CASE ChldSetSt(d)
    <3>1. jobs' \in Table
      BY <2>5, SetStateEffect DEF ChldSetSt, TypeOK, States
    <3> QED BY <2>0, <2>5, <3>1 DEF ChldSetSt, TypeOK, Frame, FrameAt
  <2>6. CASE ChldReturn(d)
    BY <2>6, ReturnType DEF ChldReturn, TypeOK
  <2>7. ASSUME NEW sig \in {"INT", "TSTP"}, FgHandlerPid(d, sig)
        PROVE  TypeOK'
    <3>1. CASE fgpid(jobs) = NoPid
      BY <2>7, <3>1, ReturnType DEF FgHandlerPid, TypeOK
    <3>2. CASE fgpid(jobs) # NoPid
      <4>1. fgpid(jobs) \in Pids \cup {NoPid}
        BY FgpidListed DEF TypeOK
      <4> QED BY <2>0, <2>7, <3>2, <4>1 DEF FgHandlerPid, TypeOK, Frame, FrameAt
    <3> QED BY <3>1, <3>2
  <2>8. CASE IntGetJob(d)
    <3>1. getjobpid(jobs, frame[d].pid) \in Slots \cup {NULL}
      BY <2>0, GetjobpidFinds DEF TypeOK, Frame
    <3> QED BY <2>0, <2>8, <3>1 DEF IntGetJob, TypeOK, Frame, FrameAt
  <2>9. CASE IntKill(d)
    <3>1. CASE frame[d].slot = NULL
      BY <1>2, <2>9, <3>1 DEF IntKill, Endings
    <3>2. CASE frame[d].slot # NULL
      <4>1. proc' \in [Pids -> ProcStates] /\ unreported' \subseteq Pids /\ pending' \subseteq Signals
        BY <2>9, <3>2, KillTypes DEF IntKill
      <4> QED BY <2>9, <3>2, <4>1, ReturnType DEF IntKill, TypeOK
    <3> QED BY <3>1, <3>2
  <2>10. CASE TstpKill(d)
    <3>1. frame[d].pid \in Pids
      BY <2>10 DEF TstpKill, FrameLocals, Active
    <3>2. proc' \in [Pids -> ProcStates] /\ unreported' \subseteq Pids /\ pending' \subseteq Signals
      BY <2>10, <3>1, KillTypes DEF TstpKill
    <3> QED BY <2>10, <3>2, ReturnType DEF TstpKill, TypeOK
  <2> QED BY <1>14, <2>1, <2>2, <2>3, <2>4, <2>5, <2>6, <2>7, <2>8, <2>9, <2>10 DEF HandlerStep
<1>15. CASE Environment
  <2>1. proc' \in [Pids -> ProcStates] /\ unreported' \subseteq Pids /\ pending' \subseteq Signals
    <3>1. ASSUME NEW p \in Pids, ChildExec(p)
          PROVE  proc' \in [Pids -> ProcStates] /\ unreported' \subseteq Pids /\ pending' \subseteq Signals
      BY <3>1 DEF ChildExec, TypeOK, ProcStates
    <3>2. ASSUME NEW p \in Pids, ChildEnds(p) \/ OutsiderKill(p)
          PROVE  proc' \in [Pids -> ProcStates] /\ unreported' \subseteq Pids /\ pending' \subseteq Signals
      BY <3>2, DiesType DEF ChildEnds, OutsiderKill, Zombie
    <3>3. ASSUME NEW p \in Pids, ChildStops(p) \/ OutsiderCont(p)
          PROVE  proc' \in [Pids -> ProcStates] /\ unreported' \subseteq Pids /\ pending' \subseteq Signals
      BY <3>3, KillTypes DEF ChildStops, OutsiderCont
    <3>4. ASSUME Terminal
          PROVE  proc' \in [Pids -> ProcStates] /\ unreported' \subseteq Pids /\ pending' \subseteq Signals
      BY <3>4, KeysAssumption DEF Terminal, TypeOK, Signals
    <3> QED BY <1>15, <3>1, <3>2, <3>3, <3>4 DEF Environment
  <2> QED BY <1>15, <2>1 DEF Environment, TypeOK
<1> QED BY <1>1, <1>3, <1>4, <1>5, <1>6, <1>7, <1>8, <1>9, <1>10, <1>11, <1>12, <1>13, <1>14, <1>15
        DEF Next, NewCommand, CommandStep

(***************************************************************************)
(* The mask discipline is preserved: nothing but ChldDelete, which only    *)
(* runs when no job is being added, disturbs a blocked SIGCHLD.            *)
(***************************************************************************)
MaskInv == MainMask /\ BottomMask /\ NoChldWhileAdding

LEMMA MaskStep ==
    ASSUME TypeOK, MaskInv, [Next]_vars
    PROVE  MaskInv'
<1> USE DEF MaskInv
<1>1. ASSUME UNCHANGED ctlVars
      PROVE  MaskInv'
  BY <1>1 DEF ctlVars, MainMask, BottomMask, NoChldWhileAdding, Active
<1>2. ASSUME NEW why, Exit(why)
      PROVE  MaskInv'
  BY <1>1, <1>2 DEF Exit
<1>3. ASSUME depth = 0, depth' = 0, main.at # "add", main'.at # "add", mask' = mask
      PROVE  MaskInv'
  BY <1>3 DEF MainMask, BottomMask, NoChldWhileAdding
<1>4. CASE UNCHANGED vars
  BY <1>1, <1>4 DEF vars, ctlVars
<1>5. ASSUME NEW p \in Pids, NEW bg \in BOOLEAN, Eval(p, bg)
      PROVE  MaskInv'
  <2>1. depth = 0 /\ depth' = 0 /\ mask = {}
    BY <1>5 DEF Eval, MainRuns, MainMask
  <2>2. main'.at = "add" /\ main'.prev = mask /\ mask' = mask \cup {"CHLD"}
    BY <1>5 DEF Eval, Idle
  <2> QED BY <2>1, <2>2 DEF MainMask, BottomMask, NoChldWhileAdding, Active
<1>6. CASE EvalForkFails
  BY <1>2, <1>6 DEF EvalForkFails
<1>7. CASE EvalAddJob
  <2>1. depth = 0 /\ depth' = 0 /\ mask' = {}
    BY <1>7 DEF EvalAddJob, MainRuns, NoChldWhileAdding
  <2>2. main'.at # "add"
    BY <1>7 DEF EvalAddJob, TypeOK, Main
  <2> QED BY <2>1, <2>2 DEF MainMask, BottomMask, NoChldWhileAdding
<1>8. CASE EvalBgJid
  <2>1. CASE Exit("background pid2jid error")
    BY <1>2, <2>1
  <2>2. CASE ~ Exit("background pid2jid error")
    <3>1. depth = 0 /\ main.at = "bgjid" /\ main' = Idle /\ UNCHANGED <<mask, depth>>
      BY <1>8, <2>2 DEF EvalBgJid, MainRuns
    <3> QED BY <1>3, <3>1 DEF Idle
  <2> QED BY <2>1, <2>2
<1>9. CASE Quit
  BY <1>2, <1>9 DEF Quit
<1>10. ASSUME NEW bg \in BOOLEAN, DoBgFg(bg)
       PROVE  MaskInv'
  BY <1>3, <1>10 DEF DoBgFg, MainRuns, Idle
<1>11. CASE DoBgFgSetState
  BY <1>3, <1>11 DEF DoBgFgSetState, MainRuns, TypeOK, Main
<1>12. CASE DoBgFgCont
  BY <1>3, <1>12 DEF DoBgFgCont, MainRuns, Idle
<1>13. CASE WaitFg
  BY <1>3, <1>13 DEF WaitFg, MainRuns, TypeOK, Main, Idle
<1>14. CASE WaitFgSuspend
  BY <1>3, <1>14 DEF WaitFgSuspend, MainRuns, TypeOK, Main
<1>15. ASSUME NEW s \in Signals, Deliver(s)
       PROVE  MaskInv'
  <2>1. /\ depth' = depth + 1
        /\ depth \in Nat /\ depth + 1 \in 1..MaxFrames
        /\ s \notin mask
        /\ mask' = mask \cup {s}
    BY <1>15, MaxFramesAssumption DEF Deliver, Deliverable, TypeOK
  <2>2. /\ frame'[depth + 1].sig = s
        /\ frame'[depth + 1].saved = mask
        /\ \A d \in 1..MaxFrames : d # depth + 1 => frame'[d] = frame[d]
    BY <1>15, <2>1 DEF Deliver, TypeOK, NoFrame
  <2>3. (main'.at = "add" <=> main.at = "add") /\ (main.at = "add" => main' = main)
    BY <1>15 DEF Deliver, TypeOK, Main
  <2>4. MainMask'
    BY <2>1 DEF MainMask
  <2>5. BottomMask'
    <3>1. CASE depth = 0
      BY <2>1, <2>2, <2>3, <3>1 DEF MainMask, BottomMask
    <3>2. CASE depth # 0
      <4>1. 1 \in 1..MaxFrames /\ 1 # depth + 1 /\ depth > 0
        BY <2>1, <3>2, MaxFramesAssumption
      <4>2. frame'[1] = frame[1]
        BY <2>2, <4>1
      <4> QED BY <2>3, <4>1, <4>2 DEF BottomMask
    <3> QED BY <3>1, <3>2
  <2>6. NoChldWhileAdding'
    <3>1. SUFFICES ASSUME main.at = "add"
                   PROVE  /\ main'.prev = {}
                          /\ "CHLD" \in mask'
                          /\ \A d \in Active' : frame'[d].sig # "CHLD" /\ "CHLD" \in frame'[d].saved
      BY <2>3 DEF NoChldWhileAdding
    <3>2. main'.prev = {} /\ "CHLD" \in mask /\ "CHLD" \in mask' /\ s # "CHLD"
      BY <2>1, <2>3, <3>1 DEF NoChldWhileAdding
    <3>3. ASSUME NEW d \in Active'
          PROVE  frame'[d].sig # "CHLD" /\ "CHLD" \in frame'[d].saved
      <4>1. d = depth + 1 \/ d \in Active
        BY <2>1, <3>3 DEF Active
      <4>2. d \in 1..MaxFrames
        BY <3>3 DEF Active
      <4>3. CASE d = depth + 1
        BY <2>2, <3>2, <4>3
      <4>4. CASE d # depth + 1
        BY <2>2, <3>1, <4>1, <4>2, <4>4 DEF NoChldWhileAdding
      <4> QED BY <4>3, <4>4
    <3> QED BY <3>2, <3>3
  <2> QED BY <2>4, <2>5, <2>6
<1>16. ASSUME NEW d \in 1..MaxFrames, depth = d, Return(d)
       PROVE  MaskInv'
  <2>1. /\ depth' = d - 1
        /\ mask' = frame[d].saved
        /\ main' = main
        /\ \A e \in 1..MaxFrames : e # d => frame'[e] = frame[e]
    BY <1>16 DEF Return, TypeOK
  <2>2. d \in Active /\ \A e \in Active' : e \in Active /\ e # d /\ e \in 1..MaxFrames
    BY <1>16, <2>1 DEF Active
  <2>3. MainMask'
    BY <1>16, <2>1 DEF MainMask, BottomMask
  <2>4. BottomMask'
    <3>1. SUFFICES ASSUME d - 1 > 0
                   PROVE  frame'[1] = frame[1] /\ depth > 0
      BY <2>1 DEF BottomMask
    <3>2. 1 \in 1..MaxFrames /\ d # 1 /\ d > 0
      BY <3>1, MaxFramesAssumption
    <3> QED BY <1>16, <2>1, <3>2
  <2>5. NoChldWhileAdding'
    <3>1. ASSUME main.at = "add"
          PROVE  main.prev = {} /\ "CHLD" \in frame[d].saved
      BY <2>2, <3>1 DEF NoChldWhileAdding
    <3>2. ASSUME main.at = "add", NEW e \in Active'
          PROVE  frame'[e].sig # "CHLD" /\ "CHLD" \in frame'[e].saved
      BY <2>1, <2>2, <3>2 DEF NoChldWhileAdding
    <3> QED BY <2>1, <3>1, <3>2 DEF NoChldWhileAdding
  <2> QED BY <2>3, <2>4, <2>5
<1>17. ASSUME NEW d \in 1..MaxFrames, depth = d, main' = main, depth' = depth,
              mask' = mask \/ frame[d].sig = "CHLD",
              \A e \in 1..MaxFrames : frame'[e].sig = frame[e].sig /\ frame'[e].saved = frame[e].saved
       PROVE  MaskInv'
  <2>1. d \in Active /\ Active' = Active
    BY <1>17 DEF Active
  <2>2. MainMask' /\ BottomMask'
    <3>1. 1 \in 1..MaxFrames /\ d # 0
      BY MaxFramesAssumption
    <3> QED BY <1>17, <3>1 DEF MainMask, BottomMask
  <2>3. NoChldWhileAdding'
    <3>1. ASSUME main.at = "add"
          PROVE  "CHLD" \in mask'
      BY <1>17, <2>1, <3>1 DEF NoChldWhileAdding
    <3> QED BY <1>17, <2>1, <3>1 DEF NoChldWhileAdding, Active
  <2> QED BY <2>2, <2>3
<1>18. ASSUME NEW d \in 1..MaxFrames, HandlerStep(d)
       PROVE  MaskInv'
  <2>0. depth = d /\ frame[d] \in Frame /\ \A e \in 1..MaxFrames : frame[e] \in Frame
    BY <1>18 DEF HandlerStep, FrameRuns, ChldReap, ChldStopped, ChldDelete, ChldGetJob, ChldSetSt,
                 ChldReturn, FgHandlerPid, IntGetJob, IntKill, TstpKill, TypeOK
  <2>1. ASSUME NEW p \in Pids, ChldReap(d, p) \/ ChldStopped(d, p)
        PROVE  MaskInv'
    <3>1. /\ UNCHANGED <<mask, main, depth>>
          /\ \E at \in FrameAt : frame' = [frame EXCEPT ![d].at = at, ![d].pid = p]
      BY <2>1 DEF ChldReap, ChldStopped, FrameAt
    <3> QED BY <1>17, <2>0, <3>1 DEF TypeOK, Frame
  <2>2. CASE ChldDelete(d)
    <3>1. CASE Exit("sigchld_handler error")
      BY <1>2, <3>1
    <3>2. CASE ~ Exit("sigchld_handler error")
      <4>1. /\ frame[d].sig = "CHLD"
            /\ frame' = [frame EXCEPT ![d].at = "wait", ![d].pid = NoPid]
            /\ UNCHANGED <<main, depth>>
        BY <2>2, <3>2 DEF ChldDelete, FrameRuns
      <4> QED BY <1>17, <2>0, <4>1 DEF TypeOK, Frame
    <3> QED BY <3>1, <3>2
  <2>3. CASE ChldGetJob(d)
    <3>1. CASE Exit("sigchld_handler error")
      BY <1>2, <3>1
    <3>2. CASE ~ Exit("sigchld_handler error")
      <4>1. /\ frame' = [frame EXCEPT ![d].at = "setst", ![d].slot = getjobpid(jobs, frame[d].pid)]
            /\ UNCHANGED <<main, depth, mask>>
        BY <2>3, <3>2 DEF ChldGetJob
      <4> QED BY <1>17, <2>0, <4>1 DEF TypeOK, Frame
    <3> QED BY <3>1, <3>2
  <2>4. CASE ChldSetSt(d)
    BY <1>17, <2>0, <2>4 DEF ChldSetSt, TypeOK, Frame
  <2>5. CASE ChldReturn(d)
    BY <1>16, <2>0, <2>5 DEF ChldReturn
  <2>6. ASSUME NEW sig \in {"INT", "TSTP"}, FgHandlerPid(d, sig)
        PROVE  MaskInv'
    <3>1. CASE Return(d)
      BY <1>16, <2>0, <3>1
    <3>2. CASE ~ Return(d)
      <4>1. /\ frame' = [frame EXCEPT ![d].at = IF sig = "INT" THEN "getfg" ELSE "kill",
                                      ![d].pid = fgpid(jobs)]
            /\ UNCHANGED <<main, depth, mask>>
        BY <2>6, <3>2 DEF FgHandlerPid
      <4> QED BY <1>17, <2>0, <4>1 DEF TypeOK, Frame
    <3> QED BY <3>1, <3>2
  <2>7. CASE IntGetJob(d)
    BY <1>17, <2>0, <2>7 DEF IntGetJob, TypeOK, Frame
  <2>8. CASE IntKill(d)
    BY <1>2, <1>16, <2>0, <2>8 DEF IntKill
  <2>9. CASE TstpKill(d)
    BY <1>16, <2>0, <2>9 DEF TstpKill
  <2> QED BY <1>18, <2>1, <2>2, <2>3, <2>4, <2>5, <2>6, <2>7, <2>8, <2>9 DEF HandlerStep
<1>19. CASE Environment
  BY <1>1, <1>19 DEF Environment
<1> QED BY <1>4, <1>5, <1>6, <1>7, <1>8, <1>9, <1>10, <1>11, <1>12, <1>13, <1>14, <1>15, <1>18, <1>19
        DEF Next, NewCommand, CommandStep

(***************************************************************************)
(* What the kernel may do to the children in any step but fork and         *)
(* waitpid: none appears or is reaped, and whatever becomes waitable       *)
(* raises SIGCHLD.  Of a stop it makes, nobody has been told yet.          *)
(***************************************************************************)
Halted(q) == proc[q] \in {"stopped", "doomed"}
Told(q) == Halted(q) /\ q \notin unreported

KernelMove ==
    /\ \A q \in Pids : /\ proc'[q] = "none" <=> proc[q] = "none"
                       /\ proc'[q] = "reaped" <=> proc[q] = "reaped"
                       /\ Told(q)' => Told(q)
                       /\ q \in unreported' /\ ~ Halted(q)' => q \in unreported /\ ~ Halted(q)
    /\ "CHLD" \in pending' \/ \A q \in Pids : Waitable(q)' => Waitable(q)
    /\ "CHLD" \in pending => "CHLD" \in pending'

LEMMA NoKernelMove ==
    ASSUME UNCHANGED <<procVars, pending>>
    PROVE  KernelMove
BY DEF KernelMove, Told, Halted, procVars, Waitable

LEMMA KillMoves ==
    ASSUME TypeOK, NEW p
    PROVE  /\ KillInt(p) => KernelMove
           /\ KillCont(p) => KernelMove
           /\ p \in Pids /\ KillTstp(p) => KernelMove
<1>1. ASSUME UNCHANGED <<procVars, pending>>
      PROVE  KernelMove
  BY <1>1, NoKernelMove
<1>2. ASSUME KillInt(p)
      PROVE  KernelMove
  <2>1. CASE p = NoPid /\ pending' = pending \cup {"INT"} /\ UNCHANGED procVars
    BY <2>1 DEF KernelMove, Told, Halted, procVars, Waitable
  <2>2. CASE proc[p] = "running" /\ Dies(p, "killed")
    BY <2>2 DEF Dies, KernelMove, Told, Halted, TypeOK
  <2>3. CASE /\ proc' = [proc EXCEPT ![p] = IF @ = "stopped" THEN "doomed" ELSE @]
             /\ UNCHANGED <<unreported, pending>>
    BY <2>3 DEF KernelMove, Told, Halted, TypeOK, Waitable, Zombie
  <2> QED BY <1>2, <2>1, <2>2, <2>3 DEF KillInt
<1>3. ASSUME KillCont(p)
      PROVE  KernelMove
  <2>1. CASE proc[p] \in {"stopped", "doomed"} /\ Continues(p)
    BY <2>1 DEF Continues, KernelMove, Told, Halted, TypeOK
  <2> QED BY <1>1, <1>3, <2>1 DEF KillCont
<1>4. ASSUME p \in Pids, KillTstp(p)
      PROVE  KernelMove
  <2>1. CASE proc[p] = "running" /\ Stops(p)
    BY <2>1 DEF Stops, KernelMove, Told, Halted, TypeOK
  <2> QED BY <1>1, <1>4, <2>1 DEF KillTstp
<1> QED BY <1>2, <1>3, <1>4

LEMMA EnvironmentMoves ==
    ASSUME TypeOK, Environment
    PROVE  KernelMove
<1>1. ASSUME NEW p \in Pids, ChildExec(p)
      PROVE  KernelMove
  BY <1>1 DEF ChildExec, KernelMove, Told, Halted, TypeOK, Waitable, Zombie
<1>2. ASSUME NEW p \in Pids, ChildEnds(p) \/ OutsiderKill(p)
      PROVE  KernelMove
  <2>1. proc[p] \in {"forked", "running", "stopped", "doomed"}
    BY <1>2 DEF ChildEnds, OutsiderKill
  <2>2. PICK how \in Zombie : Dies(p, how)
    BY <1>2 DEF ChildEnds, OutsiderKill, Zombie
  <2> QED BY <2>1, <2>2 DEF Dies, KernelMove, Told, Halted, TypeOK, Zombie
<1>3. ASSUME NEW p \in Pids, ChildStops(p)
      PROVE  KernelMove
  BY <1>3 DEF ChildStops, Stops, KernelMove, Told, Halted, TypeOK
<1>4. ASSUME NEW p \in Pids, OutsiderCont(p)
      PROVE  KernelMove
  BY <1>4 DEF OutsiderCont, Continues, KernelMove, Told, Halted, TypeOK
<1>5. ASSUME Terminal
      PROVE  KernelMove
  BY <1>5 DEF Terminal, KernelMove, Told, Halted, procVars, Waitable
<1> QED BY <1>1, <1>2, <1>3, <1>4, <1>5 DEF Environment

(***************************************************************************)
(* The shapes a step can have, as far as the remaining invariants can tell. *)
(***************************************************************************)
SamePids == /\ Listed(jobs') = Listed(jobs)
            /\ UniquePids(jobs) => UniquePids(jobs')

QuietMove ==        \* the environment acts, the shell exits, or nothing happens
    /\ UNCHANGED <<jobs, main, depth, frame>>
    /\ KernelMove
    /\ Alive' => Alive

MainMove ==         \* a step of the main loop but fork and addjob
    /\ depth = 0 /\ depth' = 0
    /\ main'.at # "add"
    /\ Alive
    /\ SamePids
    /\ KernelMove

GotoMove(d) ==      \* a handler goes on, but neither reaps nor deletes
    /\ depth = d /\ depth' = d
    /\ Alive
    /\ SamePids
    /\ UNCHANGED <<proc, pending, main>>
    /\ unreported' \subseteq unreported
    /\ frame[d].at # "delete"
    /\ \E new \in Frame :
          /\ frame' = [frame EXCEPT ![d] = new]
          /\ new.sig = frame[d].sig
          /\ new.at # "delete"
          /\ new.at \in {"getjob", "getfg", "kill"} => new.pid \in Pids

ReturnMove(d) ==    \* a handler returns
    /\ depth = d /\ Return(d)
    /\ Alive
    /\ UNCHANGED jobs
    /\ KernelMove
    /\ frame[d].at # "delete"
    /\ frame[d].sig = "CHLD" => \A p \in Pids : ~ Waitable(p)'

DeleteMove(d) ==    \* a handler deletes the job of the child it reaped
    /\ FrameRuns(d, "CHLD", "delete")
    /\ getjobpid(jobs, frame[d].pid) # NULL
    /\ jobs' = deletejob(jobs, frame[d].pid)
    /\ frame' = [frame EXCEPT ![d].at = "wait", ![d].pid = NoPid]
    /\ UNCHANGED <<procVars, pending, main, depth, ended>>

LEMMA StepShape ==
    ASSUME TypeOK, FrameLocals, [Next]_vars
    PROVE  \/ QuietMove
           \/ MainMove
           \/ \E p \in Pids, bg \in BOOLEAN : Eval(p, bg)
           \/ EvalAddJob
           \/ \E s \in Signals : Deliver(s)
           \/ \E d \in 1..MaxFrames : \/ GotoMove(d)
                                      \/ ReturnMove(d)
                                      \/ DeleteMove(d)
                                      \/ \E p \in Pids : ChldReap(d, p)
<1>1. CASE UNCHANGED vars
  BY <1>1, NoKernelMove DEF vars, procVars, QuietMove, Alive
<1>2. ASSUME NEW why, why # "no", Exit(why)
      PROVE  QuietMove
  BY <1>2, NoKernelMove DEF Exit, tableVars, ctlVars, QuietMove, Alive
<1>3. ASSUME UNCHANGED jobs
      PROVE  SamePids
  BY <1>3 DEF SamePids
<1>4. CASE NewCommand
  <2>1. CASE EvalForkFails
    BY <1>2, <2>1 DEF EvalForkFails
  <2>2. ASSUME NEW bg \in BOOLEAN, DoBgFg(bg)
        PROVE  MainMove
    BY <1>3, <2>2, NoKernelMove DEF DoBgFg, MainRuns, MainMove, tableVars, Idle
  <2> QED BY <1>4, <2>1, <2>2 DEF NewCommand
<1>5. CASE CommandStep
  <2>1. CASE EvalBgJid
    <3>1. CASE Exit("background pid2jid error")
      BY <1>2, <3>1
    <3>2. CASE ~ Exit("background pid2jid error")
      <4>1. /\ MainRuns("bgjid")
            /\ main' = Idle
            /\ UNCHANGED <<tableVars, procVars, pending, depth>>
        BY <2>1, <3>2 DEF EvalBgJid
      <4> QED BY <1>3, <4>1, NoKernelMove DEF MainRuns, MainMove, tableVars, Idle
    <3> QED BY <3>1, <3>2
  <2>2. CASE DoBgFgSetState
    <3>1. SamePids
      BY <2>2, SetStateEffect DEF DoBgFgSetState, SamePids, TypeOK, States
    <3>2. main'.at # "add"
      BY <2>2 DEF DoBgFgSetState, TypeOK, Main
    <3> QED BY <2>2, <3>1, <3>2, NoKernelMove DEF DoBgFgSetState, MainRuns, MainMove
  <2>3. CASE DoBgFgCont
    BY <1>3, <2>3, KillMoves DEF DoBgFgCont, MainRuns, MainMove, tableVars, Idle
  <2>4. CASE WaitFg
    <3>1. main'.at # "add"
      BY <2>4 DEF WaitFg, TypeOK, Main, Idle
    <3> QED BY <1>3, <2>4, <3>1, NoKernelMove DEF WaitFg, MainRuns, MainMove, tableVars
  <2>5. CASE WaitFgSuspend
    <3>1. main'.at # "add"
      BY <2>5 DEF WaitFgSuspend, TypeOK, Main
    <3> QED BY <1>3, <2>5, <3>1, NoKernelMove DEF WaitFgSuspend, MainRuns, MainMove, tableVars
  <2> QED BY <1>5, <2>1, <2>2, <2>3, <2>4, <2>5 DEF CommandStep
<1>6. CASE Quit
  BY <1>2, <1>6 DEF Quit
<1>7. CASE Environment
  BY <1>7, EnvironmentMoves DEF Environment, QuietMove, tableVars, ctlVars, Alive
<1>8. ASSUME NEW d \in 1..MaxFrames, HandlerStep(d)
      PROVE  \/ QuietMove
             \/ GotoMove(d)
             \/ ReturnMove(d)
             \/ DeleteMove(d)
             \/ \E p \in Pids : ChldReap(d, p)
  <2>0. frame[d] \in Frame
    BY DEF TypeOK
  <2>1. ASSUME NEW p \in Pids, ChldStopped(d, p)
        PROVE  GotoMove(d)
    <3>1. [frame[d] EXCEPT !.at = "getjob", !.pid = p] \in Frame
      BY <2>0 DEF Frame, FrameAt
    <3>2. frame' = [frame EXCEPT ![d] = [frame[d] EXCEPT !.at = "getjob", !.pid = p]]
      BY <2>0, <2>1 DEF ChldStopped, TypeOK
    <3> QED BY <1>3, <2>0, <2>1, <3>1, <3>2 DEF ChldStopped, FrameRuns, GotoMove, tableVars, Frame
  <2>2. CASE ChldDelete(d)
    BY <1>2, <2>2 DEF ChldDelete, DeleteMove
  <2>3. CASE ChldGetJob(d)
    <3>1. CASE Exit("sigchld_handler error")
      BY <1>2, <3>1
    <3>2. CASE ~ Exit("sigchld_handler error")
      <4> DEFINE slot == getjobpid(jobs, frame[d].pid)
      <4>1. /\ FrameRuns(d, "CHLD", "getjob")
            /\ frame' = [frame EXCEPT ![d].at = "setst", ![d].slot = slot]
            /\ UNCHANGED <<tableVars, procVars, pending, main, depth>>
        BY <2>3, <3>2 DEF ChldGetJob
      <4>2. slot \in Slots \cup {NULL}
        BY <2>0, GetjobpidFinds DEF TypeOK, Frame
      <4> HIDE DEF slot
      <4>3. [frame[d] EXCEPT !.at = "setst", !.slot = slot] \in Frame
        BY <2>0, <4>2 DEF Frame, FrameAt
      <4>4. frame' = [frame EXCEPT ![d] = [frame[d] EXCEPT !.at = "setst", !.slot = slot]]
        BY <2>0, <4>1 DEF TypeOK
      <4> QED BY <1>3, <2>0, <4>1, <4>3, <4>4 DEF FrameRuns, GotoMove, tableVars, procVars, Frame
    <3> QED BY <3>1, <3>2
  <2>4. CASE ChldSetSt(d)
    <3>1. SamePids
      BY <2>4, SetStateEffect DEF ChldSetSt, SamePids, TypeOK, States
    <3>2. [frame[d] EXCEPT !.at = "wait", !.pid = NoPid, !.slot = NULL] \in Frame
      BY <2>0 DEF Frame, FrameAt
    <3>3. frame' = [frame EXCEPT ![d] = [frame[d] EXCEPT !.at = "wait", !.pid = NoPid, !.slot = NULL]]
      BY <2>0, <2>4 DEF ChldSetSt, TypeOK
    <3> QED BY <2>0, <2>4, <3>1, <3>2, <3>3 DEF ChldSetSt, FrameRuns, GotoMove, procVars, Frame
  <2>5. CASE ChldReturn(d)
    <3>1. \A p \in Pids : ~ Waitable(p)'
      BY <2>5 DEF ChldReturn, procVars, Waitable
    <3> QED BY <2>5, <3>1, NoKernelMove DEF ChldReturn, FrameRuns, ReturnMove, tableVars
  <2>6. ASSUME NEW sig \in {"INT", "TSTP"}, FgHandlerPid(d, sig)
        PROVE  GotoMove(d) \/ ReturnMove(d)
    <3>1. CASE fgpid(jobs) = NoPid
      BY <2>6, <3>1, NoKernelMove DEF FgHandlerPid, FrameRuns, ReturnMove, tableVars
    <3>2. CASE fgpid(jobs) # NoPid
      <4> DEFINE at == IF sig = "INT" THEN "getfg" ELSE "kill"
      <4>1. fgpid(jobs) \in Pids /\ at \in {"getfg", "kill"}
        BY <3>2, FgpidListed DEF TypeOK
      <4>2. /\ FrameRuns(d, sig, "fgpid")
            /\ frame' = [frame EXCEPT ![d].at = at, ![d].pid = fgpid(jobs)]
            /\ UNCHANGED <<tableVars, procVars, pending, main, depth>>
        BY <2>6, <3>2 DEF FgHandlerPid
      <4> HIDE DEF at
      <4>3. [frame[d] EXCEPT !.at = at, !.pid = fgpid(jobs)] \in Frame
        BY <2>0, <4>1 DEF Frame, FrameAt
      <4>4. frame' = [frame EXCEPT ![d] = [frame[d] EXCEPT !.at = at, !.pid = fgpid(jobs)]]
        BY <2>0, <4>2 DEF TypeOK
      <4> QED BY <1>3, <2>0, <4>1, <4>2, <4>3, <4>4 DEF FrameRuns, GotoMove, tableVars, procVars, Frame
    <3> QED BY <3>1, <3>2
  <2>7. CASE IntGetJob(d)
    <3> DEFINE slot == getjobpid(jobs, frame[d].pid)
    <3>1. slot \in Slots \cup {NULL}
      BY <2>0, GetjobpidFinds DEF TypeOK, Frame
    <3>2. frame[d].pid \in Pids
      BY <2>7 DEF IntGetJob, FrameRuns, FrameLocals, Active
    <3>3. /\ FrameRuns(d, "INT", "getfg")
          /\ frame' = [frame EXCEPT ![d].at = "kill", ![d].slot = slot]
          /\ UNCHANGED <<tableVars, procVars, pending, main, depth>>
      BY <2>7 DEF IntGetJob
    <3> HIDE DEF slot
    <3>4. [frame[d] EXCEPT !.at = "kill", !.slot = slot] \in Frame
      BY <2>0, <3>1 DEF Frame, FrameAt
    <3>5. frame' = [frame EXCEPT ![d] = [frame[d] EXCEPT !.at = "kill", !.slot = slot]]
      BY <2>0, <3>3 DEF TypeOK
    <3> QED BY <1>3, <2>0, <3>2, <3>3, <3>4, <3>5 DEF FrameRuns, GotoMove, tableVars, procVars, Frame
  <2>8. CASE IntKill(d)
    <3>1. CASE Exit("null job")
      BY <1>2, <3>1
    <3>2. CASE ~ Exit("null job")
      BY <2>8, <3>2, KillMoves DEF IntKill, FrameRuns, ReturnMove, tableVars
    <3> QED BY <3>1, <3>2
  <2>9. CASE TstpKill(d)
    <3>1. frame[d].pid \in Pids
      BY <2>9 DEF TstpKill, FrameRuns, FrameLocals, Active
    <3> QED BY <2>9, <3>1, KillMoves DEF TstpKill, FrameRuns, ReturnMove, tableVars
  <2> QED BY <1>8, <2>1, <2>2, <2>3, <2>4, <2>5, <2>6, <2>7, <2>8, <2>9 DEF HandlerStep
<1> QED BY <1>1, <1>4, <1>5, <1>6, <1>7, <1>8 DEF Next, NewCommand, CommandStep

(***************************************************************************)
(* Where the handlers are after each kind of step.                         *)
(***************************************************************************)
LEMMA FramesAfter ==
    ASSUME TypeOK
    PROVE  /\ \A s \in Signals : Deliver(s) =>
                /\ Active' = Active \cup {depth + 1} /\ depth + 1 \notin Active
                /\ depth + 1 \in 1..MaxFrames
                /\ frame'[depth + 1].sig = s
                /\ frame'[depth + 1].at \in {"wait", "fgpid"}
                /\ \A e \in Active : frame'[e] = frame[e]
           /\ \A d \in 1..MaxFrames : depth = d =>
                /\ d \in Active
                /\ Return(d) => Active' = Active \ {d} /\ \A e \in Active' : frame'[e] = frame[e]
                /\ \A new : frame' = [frame EXCEPT ![d] = new] /\ depth' = depth =>
                      /\ Active' = Active
                      /\ \A e \in Active : frame'[e] = IF e = d THEN new ELSE frame[e]
<1>1. ASSUME NEW s \in Signals, Deliver(s)
      PROVE  /\ Active' = Active \cup {depth + 1} /\ depth + 1 \notin Active
             /\ depth + 1 \in 1..MaxFrames
             /\ frame'[depth + 1].sig = s
             /\ frame'[depth + 1].at \in {"wait", "fgpid"}
             /\ \A e \in Active : frame'[e] = frame[e]
  <2>1. depth \in Nat /\ depth + 1 \in 1..MaxFrames /\ depth' = depth + 1
    BY <1>1, MaxFramesAssumption DEF Deliver, Deliverable, TypeOK
  <2>2. Active' = Active \cup {depth + 1} /\ depth + 1 \notin Active
    BY <2>1 DEF Active
  <2> DEFINE new == [NoFrame EXCEPT !.sig = s, !.at = EntryPoint(s), !.saved = mask]
  <2>3. frame' = [frame EXCEPT ![depth + 1] = new]
    BY <1>1 DEF Deliver
  <2>4. new.sig = s /\ new.at \in {"wait", "fgpid"}
    BY DEF NoFrame, EntryPoint
  <2> HIDE DEF new
  <2> QED BY <2>1, <2>2, <2>3, <2>4 DEF Active, TypeOK
<1>2. ASSUME NEW d \in 1..MaxFrames, depth = d
      PROVE  d \in Active
  BY <1>2 DEF Active
<1>3. ASSUME NEW d \in 1..MaxFrames, depth = d, Return(d)
      PROVE  Active' = Active \ {d} /\ \A e \in Active' : frame'[e] = frame[e]
  <2>1. Active' = Active \ {d}
    BY <1>3 DEF Return, Active
  <2> QED BY <1>3, <2>1 DEF Return, Active, TypeOK
<1>4. ASSUME NEW d \in 1..MaxFrames, depth = d, NEW new,
             frame' = [frame EXCEPT ![d] = new], depth' = depth
      PROVE  /\ Active' = Active
             /\ \A e \in Active : frame'[e] = IF e = d THEN new ELSE frame[e]
  BY <1>4 DEF Active, TypeOK
<1> QED BY <1>1, <1>2, <1>3, <1>4

(***************************************************************************)
(* A reap or a delete moves the top frame to a known place.                *)
(***************************************************************************)
LEMMA ReapFrame ==
    ASSUME TypeOK, NEW d \in 1..MaxFrames, NEW p \in Pids, ChldReap(d, p)
    PROVE  /\ depth = d /\ d \in Active /\ Active' = Active
           /\ frame[d].sig = "CHLD" /\ frame[d].at = "wait"
           /\ frame'[d].sig = "CHLD" /\ frame'[d].at = "delete" /\ frame'[d].pid = p
           /\ \A e \in Active : e # d => frame'[e] = frame[e]
BY DEF ChldReap, FrameRuns, Active, TypeOK, Frame

LEMMA DeleteFrame ==
    ASSUME TypeOK, NEW d \in 1..MaxFrames, DeleteMove(d)
    PROVE  /\ depth = d /\ d \in Active /\ Active' = Active
           /\ ChldAt(d, "delete")
           /\ frame'[d].sig = "CHLD" /\ frame'[d].at = "wait"
           /\ \A e \in Active : e # d => frame'[e] = frame[e]
BY DEF DeleteMove, FrameRuns, Active, ChldAt, TypeOK, Frame

(***************************************************************************)
(* No child is missed: every step preserves NoMissedChild.                 *)
(***************************************************************************)
LEMMA MissedStep ==
    ASSUME TypeOK, FrameLocals, NoMissedChild, [Next]_vars
    PROVE  NoMissedChild'
<1> DEFINE Kept == \A e \in Active : frame[e].sig = "CHLD" => e \in Active' /\ frame'[e].sig = "CHLD"
<1>1. ASSUME KernelMove, Alive' => Alive, Kept
      PROVE  NoMissedChild'
  BY <1>1 DEF NoMissedChild, KernelMove
<1>2. CASE QuietMove
  <2>1. Kept
    BY <1>2 DEF QuietMove, Active
  <2> QED BY <1>1, <1>2, <2>1 DEF QuietMove
<1>3. CASE MainMove
  <2>1. Kept
    BY <1>3 DEF MainMove, Active
  <2> QED BY <1>1, <1>3, <2>1 DEF MainMove
<1>4. ASSUME NEW p \in Pids, NEW bg \in BOOLEAN, Eval(p, bg)
      PROVE  NoMissedChild'
  <2>1. Kept
    BY <1>4 DEF Eval, Active
  <2>2. (\A q \in Pids : Waitable(q)' => Waitable(q)) /\ pending' = pending /\ Alive
    BY <1>4 DEF Eval, MainRuns, Waitable, Zombie, TypeOK
  <2> QED BY <2>1, <2>2 DEF NoMissedChild
<1>5. CASE EvalAddJob
  <2>1. Kept
    BY <1>5 DEF EvalAddJob, Active
  <2> QED BY <1>1, <1>5, <2>1, NoKernelMove DEF EvalAddJob, MainRuns
<1>6. ASSUME NEW s \in Signals, Deliver(s)
      PROVE  NoMissedChild'
  <2>1. Kept
    BY <1>6, FramesAfter
  <2>2. Alive /\ pending' = pending \ {s} /\ \A q \in Pids : Waitable(q)' => Waitable(q)
    BY <1>6 DEF Deliver, procVars, Waitable
  <2>3. CASE s = "CHLD"
    BY <1>6, <2>3, FramesAfter DEF NoMissedChild
  <2>4. CASE s # "CHLD"
    BY <2>1, <2>2, <2>4 DEF NoMissedChild
  <2> QED BY <2>3, <2>4
<1>7. ASSUME NEW d \in 1..MaxFrames, GotoMove(d)
      PROVE  NoMissedChild'
  <2>1. Kept
    <3>1. PICK new \in Frame : frame' = [frame EXCEPT ![d] = new] /\ new.sig = frame[d].sig
      BY <1>7 DEF GotoMove
    <3>2. Active' = Active /\ \A e \in Active : frame'[e] = IF e = d THEN new ELSE frame[e]
      BY <1>7, <3>1, FramesAfter DEF GotoMove
    <3> QED BY <3>1, <3>2
  <2>2. Alive /\ pending' = pending /\ \A q \in Pids : Waitable(q)' => Waitable(q)
    BY <1>7 DEF GotoMove, Waitable
  <2> QED BY <2>1, <2>2 DEF NoMissedChild
<1>8. ASSUME NEW d \in 1..MaxFrames, ReturnMove(d)
      PROVE  NoMissedChild'
  <2>1. CASE frame[d].sig = "CHLD"
    BY <1>8, <2>1 DEF ReturnMove, NoMissedChild
  <2>2. CASE frame[d].sig # "CHLD"
    <3>1. Kept
      BY <1>8, <2>2, FramesAfter DEF ReturnMove
    <3> QED BY <1>1, <1>8, <3>1 DEF ReturnMove
  <2> QED BY <2>1, <2>2
<1>9. ASSUME NEW d \in 1..MaxFrames, DeleteMove(d)
      PROVE  NoMissedChild'
  <2>1. d \in Active' /\ frame'[d].sig = "CHLD"
    BY <1>9, DeleteFrame
  <2> QED BY <2>1 DEF NoMissedChild
<1>10. ASSUME NEW d \in 1..MaxFrames, NEW p \in Pids, ChldReap(d, p)
       PROVE  NoMissedChild'
  <2>1. d \in Active' /\ frame'[d].sig = "CHLD"
    BY <1>10, ReapFrame
  <2> QED BY <2>1 DEF NoMissedChild
<1> QED BY <1>2, <1>3, <1>4, <1>5, <1>6, <1>7, <1>8, <1>9, <1>10, StepShape

(***************************************************************************)
(* Every step preserves what the handlers' locals mean.                    *)
(***************************************************************************)
LEMMA LocalsStep ==
    ASSUME TypeOK, FrameLocals, [Next]_vars
    PROVE  FrameLocals'
<1> DEFINE Good(f) ==
      /\ f.sig = "CHLD" /\ f.at = "delete" => f.pid \in Pids /\ proc'[f.pid] = "reaped"
      /\ f.sig = "CHLD" /\ f.at = "getjob" => f.pid \in Pids
      /\ f.sig = "TSTP" /\ f.at = "kill" => f.pid \in Pids
      /\ f.sig = "INT" /\ f.at = "getfg" => f.pid \in Pids
<1>1. ASSUME \A e \in Active' : Good(frame'[e])
      PROVE  FrameLocals'
  BY <1>1 DEF FrameLocals, ChldAt
<1>2. ASSUME \A q \in Pids : proc[q] = "reaped" => proc'[q] = "reaped"
      PROVE  \A e \in Active : Good(frame[e])
  BY <1>2 DEF FrameLocals, ChldAt
<1>3. CASE QuietMove
  BY <1>1, <1>2, <1>3 DEF QuietMove, KernelMove, Active
<1>4. CASE MainMove
  BY <1>1, <1>4 DEF MainMove, Active
<1>5. ASSUME NEW p \in Pids, NEW bg \in BOOLEAN, Eval(p, bg)
      PROVE  FrameLocals'
  <2>1. depth' = 0
    BY <1>5 DEF Eval, MainRuns
  <2> QED BY <1>1, <2>1 DEF Active
<1>6. CASE EvalAddJob
  <2>1. depth' = 0
    BY <1>6 DEF EvalAddJob, MainRuns
  <2> QED BY <1>1, <2>1 DEF Active
<1>7. ASSUME NEW s \in Signals, Deliver(s)
      PROVE  FrameLocals'
  <2>1. \A e \in Active : Good(frame[e])
    BY <1>2, <1>7 DEF Deliver, procVars
  <2>2. Good(frame'[depth + 1])
    BY <1>7, FramesAfter
  <2>3. Active' = Active \cup {depth + 1} /\ \A e \in Active : frame'[e] = frame[e]
    BY <1>7, FramesAfter
  <2> HIDE DEF Good
  <2> QED BY <1>1, <2>1, <2>2, <2>3
<1>8. ASSUME NEW d \in 1..MaxFrames, GotoMove(d)
      PROVE  FrameLocals'
  <2>1. \A e \in Active : Good(frame[e])
    BY <1>2, <1>8 DEF GotoMove
  <2>2. PICK new \in Frame :
          /\ frame' = [frame EXCEPT ![d] = new]
          /\ new.sig = frame[d].sig
          /\ new.at # "delete"
          /\ new.at \in {"getjob", "getfg", "kill"} => new.pid \in Pids
    BY <1>8 DEF GotoMove
  <2>3. Good(new)
    BY <2>2
  <2>4. Active' = Active /\ \A e \in Active : frame'[e] = IF e = d THEN new ELSE frame[e]
    BY <1>8, <2>2, FramesAfter DEF GotoMove
  <2> HIDE DEF Good
  <2> QED BY <1>1, <2>1, <2>3, <2>4
<1>9. ASSUME NEW d \in 1..MaxFrames, ReturnMove(d)
      PROVE  FrameLocals'
  <2>1. \A e \in Active : Good(frame[e])
    BY <1>2, <1>9 DEF ReturnMove, KernelMove
  <2>2. Active' = Active \ {d} /\ \A e \in Active' : frame'[e] = frame[e]
    BY <1>9, FramesAfter DEF ReturnMove
  <2> HIDE DEF Good
  <2> QED BY <1>1, <2>1, <2>2
<1>10. ASSUME NEW d \in 1..MaxFrames, DeleteMove(d)
       PROVE  FrameLocals'
  <2>1. \A e \in Active : Good(frame[e])
    BY <1>2, <1>10 DEF DeleteMove, procVars
  <2>2. Good(frame'[d])
    BY <1>10, DeleteFrame
  <2>3. Active' = Active /\ \A e \in Active : e # d => frame'[e] = frame[e]
    BY <1>10, DeleteFrame
  <2> HIDE DEF Good
  <2> QED BY <1>1, <2>1, <2>2, <2>3
<1>11. ASSUME NEW d \in 1..MaxFrames, NEW p \in Pids, ChldReap(d, p)
       PROVE  FrameLocals'
  <2>1. proc'[p] = "reaped" /\ \A q \in Pids : proc[q] = "reaped" => proc'[q] = "reaped"
    BY <1>11 DEF ChldReap, TypeOK
  <2>2. \A e \in Active : Good(frame[e])
    BY <1>2, <2>1
  <2>3. Good(frame'[d])
    BY <1>11, <2>1, ReapFrame
  <2>4. Active' = Active /\ \A e \in Active : e # d => frame'[e] = frame[e]
    BY <1>11, ReapFrame
  <2> HIDE DEF Good
  <2> QED BY <1>1, <2>2, <2>3, <2>4
<1> QED BY <1>3, <1>4, <1>5, <1>6, <1>7, <1>8, <1>9, <1>10, <1>11, StepShape

(***************************************************************************)
(* Every step preserves what is known of the child being added, and keeps  *)
(* the pids of the table unique.  A reap would contradict it, but no       *)
(* SIGCHLD handler runs while a child is being added.                      *)
(***************************************************************************)
LEMMA AddedStep ==
    ASSUME IInv, [Next]_vars
    PROVE  AddedChild' /\ UniquePids(jobs)'
<1> USE DEF IInv
<1>1. ASSUME main.at = "add" => main'.pid = main.pid, main'.at = "add" => main.at = "add",
             Listed(jobs') \subseteq Listed(jobs), UniquePids(jobs'),
             main.at = "add" => \A q \in Pids : proc[q] \notin {"none", "reaped"}
                                                 => proc'[q] \notin {"none", "reaped"}
      PROVE  AddedChild' /\ UniquePids(jobs)'
  BY <1>1 DEF AddedChild
<1>2. CASE QuietMove
  BY <1>1, <1>2 DEF QuietMove, KernelMove
<1>3. CASE MainMove
  BY <1>3 DEF MainMove, SamePids, AddedChild
<1>4. ASSUME NEW p \in Pids, NEW bg \in BOOLEAN, Eval(p, bg)
      PROVE  AddedChild' /\ UniquePids(jobs)'
  <2>1. main'.pid = p /\ jobs' = jobs /\ proc[p] = "none" /\ proc'[p] = "forked"
    BY <1>4 DEF Eval, Idle, tableVars, TypeOK
  <2>2. p \notin Listed(jobs)
    BY <2>1 DEF NoGhostJob
  <2> QED BY <2>1, <2>2 DEF AddedChild
<1>5. CASE EvalAddJob
  <2>1. main.pid \in Pids /\ main.pid \notin Listed(jobs)
    BY <1>5 DEF EvalAddJob, MainRuns, AddedChild
  <2>2. UniquePids(jobs')
    BY <1>5, <2>1, AddjobEffect DEF EvalAddJob, TypeOK, States
  <2>3. main'.at # "add"
    BY <1>5 DEF EvalAddJob, TypeOK, Main
  <2> QED BY <2>2, <2>3 DEF AddedChild
<1>6. ASSUME NEW s \in Signals, Deliver(s)
      PROVE  AddedChild' /\ UniquePids(jobs)'
  BY <1>1, <1>6 DEF Deliver, tableVars, procVars, TypeOK, Main
<1>7. ASSUME NEW d \in 1..MaxFrames, GotoMove(d)
      PROVE  AddedChild' /\ UniquePids(jobs)'
  BY <1>1, <1>7 DEF GotoMove, SamePids
<1>8. ASSUME NEW d \in 1..MaxFrames, ReturnMove(d)
      PROVE  AddedChild' /\ UniquePids(jobs)'
  BY <1>1, <1>8 DEF ReturnMove, Return, KernelMove
<1>9. ASSUME NEW d \in 1..MaxFrames, DeleteMove(d)
      PROVE  AddedChild' /\ UniquePids(jobs)'
  <2>1. frame[d].pid \in Pids
    BY <1>9, DeleteFrame DEF FrameLocals
  <2>2. frame[d].pid \in Listed(jobs)
    BY <1>9, <2>1, GetjobpidFinds DEF DeleteMove, TypeOK
  <2>3. Listed(jobs') \subseteq Listed(jobs) /\ UniquePids(jobs')
    BY <1>9, <2>1, <2>2, DeletejobEffect DEF DeleteMove, TypeOK
  <2> QED BY <1>1, <1>9, <2>3 DEF DeleteMove, procVars
<1>10. ASSUME NEW d \in 1..MaxFrames, NEW p \in Pids, ChldReap(d, p)
       PROVE  AddedChild' /\ UniquePids(jobs)'
  <2>1. d \in Active /\ frame[d].sig = "CHLD"
    BY <1>10, ReapFrame
  <2>2. main.at # "add"
    BY <2>1 DEF NoChldWhileAdding
  <2> QED BY <1>1, <1>10, <2>2 DEF ChldReap, tableVars
<1> QED BY <1>2, <1>3, <1>4, <1>5, <1>6, <1>7, <1>8, <1>9, <1>10, StepShape

(***************************************************************************)
(* No ghost appears in the table: every step preserves NoGhostJob.         *)
(***************************************************************************)
LEMMA GhostStep ==
    ASSUME IInv, [Next]_vars
    PROVE  NoGhostJob'
<1> USE DEF IInv
<1> DEFINE Deletes(e, q) == e \in Active /\ frame[e].sig = "CHLD" /\ frame[e].at = "delete" /\ frame[e].pid = q
<1>0. \A q \in Listed(jobs) : q \in Pids
  BY DEF Listed, TypeOK, Table, Job
<1>1. ASSUME Listed(jobs') \subseteq Listed(jobs),
             \A q \in Listed(jobs') :
                /\ proc[q] # "none" => proc'[q] # "none"
                /\ proc'[q] = "reaped" =>
                     \/ proc[q] = "reaped" /\ \A e \in Active : Deletes(e, q) => Deletes(e, q)'
                     \/ \E e \in Active' : Deletes(e, q)'
      PROVE  NoGhostJob'
  <2>1. SUFFICES ASSUME NEW q \in Listed(jobs')
                 PROVE  /\ proc'[q] # "none"
                        /\ proc'[q] = "reaped" => \E e \in Active' : Deletes(e, q)'
    BY DEF NoGhostJob, ChldAt
  <2>2. proc[q] # "none" /\ (proc[q] = "reaped" => \E e \in Active : Deletes(e, q))
    BY <1>1, <2>1 DEF NoGhostJob, ChldAt
  <2> QED BY <1>1, <2>1, <2>2
<1>2. CASE QuietMove
  <2>1. \A q, e : Deletes(e, q) => Deletes(e, q)'
    BY <1>2 DEF QuietMove, Active
  <2> HIDE DEF Deletes
  <2> QED BY <1>0, <1>1, <1>2, <2>1 DEF QuietMove, KernelMove
<1>3. CASE MainMove
  <2>1. Active = {}
    BY <1>3 DEF MainMove, Active
  <2> HIDE DEF Deletes
  <2> QED BY <1>0, <1>1, <1>3, <2>1 DEF MainMove, SamePids, KernelMove
<1>4. ASSUME NEW p \in Pids, NEW bg \in BOOLEAN, Eval(p, bg)
      PROVE  NoGhostJob'
  <2>1. Active = {}
    BY <1>4 DEF Eval, MainRuns, Active
  <2>2. jobs' = jobs /\ \A q \in Pids : proc'[q] = IF q = p THEN "forked" ELSE proc[q]
    BY <1>4 DEF Eval, tableVars, TypeOK
  <2> HIDE DEF Deletes
  <2> QED BY <1>0, <1>1, <2>1, <2>2
<1>5. CASE EvalAddJob
  <2>1. main.pid \in Pids /\ proc[main.pid] \notin {"none", "reaped"}
    BY <1>5 DEF EvalAddJob, MainRuns, AddedChild
  <2>2. Listed(jobs') \subseteq Listed(jobs) \cup {main.pid}
    BY <1>5, <2>1, AddjobEffect DEF EvalAddJob, TypeOK, States
  <2>3. Active = {} /\ proc' = proc
    BY <1>5 DEF EvalAddJob, MainRuns, Active, procVars
  <2> QED BY <2>1, <2>2, <2>3 DEF NoGhostJob
<1>6. ASSUME NEW s \in Signals, Deliver(s)
      PROVE  NoGhostJob'
  <2>1. \A q, e : Deletes(e, q) => Deletes(e, q)'
    BY <1>6, FramesAfter
  <2> HIDE DEF Deletes
  <2> QED BY <1>1, <1>6, <2>1 DEF Deliver, tableVars, procVars
<1>7. ASSUME NEW d \in 1..MaxFrames, GotoMove(d)
      PROVE  NoGhostJob'
  <2>1. PICK new \in Frame : frame' = [frame EXCEPT ![d] = new]
    BY <1>7 DEF GotoMove
  <2>2. Active' = Active /\ \A e \in Active : frame'[e] = IF e = d THEN new ELSE frame[e]
    BY <1>7, <2>1, FramesAfter DEF GotoMove
  <2>3. \A q, e : Deletes(e, q) => Deletes(e, q)'
    BY <1>7, <2>2 DEF GotoMove
  <2> HIDE DEF Deletes
  <2> QED BY <1>1, <1>7, <2>3 DEF GotoMove, SamePids
<1>8. ASSUME NEW d \in 1..MaxFrames, ReturnMove(d)
      PROVE  NoGhostJob'
  <2>1. Active' = Active \ {d} /\ \A e \in Active' : frame'[e] = frame[e]
    BY <1>8, FramesAfter DEF ReturnMove
  <2>2. \A q, e : Deletes(e, q) => Deletes(e, q)'
    BY <1>8, <2>1 DEF ReturnMove
  <2> HIDE DEF Deletes
  <2> QED BY <1>0, <1>1, <1>8, <2>2 DEF ReturnMove, KernelMove
<1>9. ASSUME NEW d \in 1..MaxFrames, DeleteMove(d)
      PROVE  NoGhostJob'
  <2>1. frame[d].pid \in Pids
    BY <1>9, DeleteFrame DEF FrameLocals
  <2>2. frame[d].pid \in Listed(jobs)
    BY <1>9, <2>1, GetjobpidFinds DEF DeleteMove, TypeOK
  <2>3. Listed(jobs') = Listed(jobs) \ {frame[d].pid}
    BY <1>9, <2>1, <2>2, DeletejobEffect DEF DeleteMove, TypeOK
  <2>4. \A q \in Listed(jobs'), e \in Active : Deletes(e, q) => Deletes(e, q)'
    BY <1>9, <2>3, DeleteFrame
  <2> HIDE DEF Deletes
  <2> QED BY <1>1, <1>9, <2>3, <2>4 DEF DeleteMove, procVars
<1>10. ASSUME NEW d \in 1..MaxFrames, NEW p \in Pids, ChldReap(d, p)
       PROVE  NoGhostJob'
  <2>1. jobs' = jobs /\ \A q \in Pids : proc'[q] = IF q = p THEN "reaped" ELSE proc[q]
    BY <1>10 DEF ChldReap, tableVars, TypeOK
  <2>2. d \in Active' /\ Deletes(d, p)'
    BY <1>10, ReapFrame
  <2>3. \A q, e : Deletes(e, q) => Deletes(e, q)'
    BY <1>10, ReapFrame
  <2> HIDE DEF Deletes
  <2> QED BY <1>0, <1>1, <2>1, <2>2, <2>3
<1> QED BY <1>2, <1>3, <1>4, <1>5, <1>6, <1>7, <1>8, <1>9, <1>10, StepShape

(***************************************************************************)
(* The inductive invariant holds at the start and in every step.           *)
(***************************************************************************)
LEMMA InitIInv == Init => IInv
<1> SUFFICES ASSUME Init PROVE IInv
  OBVIOUS
<1>1. initjobs \in Table /\ UniquePids(initjobs) /\ Listed(initjobs) = {}
  BY DEF initjobs, clearjob, Table, Job, States, UniquePids, Listed
<1>2. TypeOK
  <2>1. NoFrame \in Frame
    BY DEF NoFrame, Frame, FrameAt, Masks
  <2> QED BY <1>1, <2>1, IdleType, MaxFramesAssumption DEF Init, TypeOK, ProcStates, Endings
<1>3. Active = {}
  BY DEF Init, Active
<1>4. \A p \in Pids : ~ Waitable(p)
  BY DEF Init, Waitable, Zombie
<1>5. depth = 0 /\ main.at = "read" /\ mask = {} /\ jobs = initjobs
  BY DEF Init, Idle
<1> QED BY <1>1, <1>2, <1>3, <1>4, <1>5
        DEF IInv, MainMask, BottomMask, NoChldWhileAdding, AddedChild, FrameLocals, NoMissedChild, NoGhostJob

LEMMA NextIInv == IInv /\ [Next]_vars => IInv'
<1> SUFFICES ASSUME IInv, [Next]_vars PROVE IInv'
  OBVIOUS
<1>1. TypeOK'
  BY TypeStep DEF IInv
<1>2. MaskInv'
  BY MaskStep DEF IInv, MaskInv
<1>3. NoMissedChild' /\ FrameLocals'
  BY MissedStep, LocalsStep DEF IInv
<1>4. AddedChild' /\ UniquePids(jobs)' /\ NoGhostJob'
  BY AddedStep, GhostStep
<1> QED BY <1>1, <1>2, <1>3, <1>4 DEF IInv, MaskInv

THEOREM Invariance == Spec => []IInv
BY InitIInv, NextIInv, PTL DEF Spec

(***************************************************************************)
(* Type correctness of the shell.                                          *)
(***************************************************************************)
THEOREM TypeCorrect == Spec => []TypeOK
<1>1. IInv => TypeOK
  BY DEF IInv
<1> QED BY <1>1, Invariance, PTL

(***************************************************************************)
(* A SIGCHLD that stands for several children loses none of them.          *)
(***************************************************************************)
THEOREM ChildrenNotMissed == Spec => []NoMissedChild
<1>1. IInv => NoMissedChild
  BY DEF IInv
<1> QED BY <1>1, Invariance, PTL

(***************************************************************************)
(* A reaped child leaves the table with the handler that reaped it.        *)
(***************************************************************************)
THEOREM NoGhosts == Spec => []NoGhostJob
<1>1. IInv => NoGhostJob
  BY DEF IInv
<1> QED BY <1>1, Invariance, PTL

(***************************************************************************)
(* Outside the handlers SIGCHLD is blocked exactly from fork to addjob,    *)
(* whatever masks the handlers have installed in between.                  *)
(***************************************************************************)
THEOREM MaskRestored == Spec => []MainMask
<1>1. IInv => MainMask
  BY DEF IInv
<1> QED BY <1>1, Invariance, PTL

(***************************************************************************)
(* Room in the table                                                       *)
(***************************************************************************)

\* A table as large as the set of pids has a free slot for one not listed.
LEMMA FreeSlotFound ==
    ASSUME NEW tbl \in Table, Cardinality(Pids) <= MaxJobs, NEW pid \in Pids, pid \notin Listed(tbl),
           UniquePids(tbl)
    PROVE  FreeSlot(tbl) \in Slots /\ tbl[FreeSlot(tbl)].pid = NoPid
<1> DEFINE free == {i \in Slots : tbl[i].pid = NoPid}
           f == [i \in Slots |-> tbl[i].pid]
<1>1. ASSUME free = {} PROVE FALSE
  <2>1. f \in [Slots -> Pids \ {pid}]
    <3>1. \A i \in Slots : tbl[i] \in Job /\ tbl[i].pid # NoPid /\ tbl[i].pid # pid
      BY <1>1 DEF Table, Listed
    <3> QED BY <3>1 DEF Job
  <2>2. IsFiniteSet(Pids) /\ IsFiniteSet(Pids \ {pid}) /\ Cardinality(Pids \ {pid}) = Cardinality(Pids) - 1
        /\ Cardinality(Pids) \in Nat
    BY PidsAssumption, FS_RemoveElement, FS_CardinalityType
  <2>3. IsFiniteSet(Slots) /\ Cardinality(Slots) = MaxJobs
    BY MaxJobsAssumption, FS_Interval DEF Slots
  <2>4. Cardinality(Pids \ {pid}) < Cardinality(Slots)
    BY <2>2, <2>3, MaxJobsAssumption
  <2>5. \E x, y \in Slots : x # y /\ f[x] = f[y]
    <3> HIDE DEF f
    <3> QED BY <2>1, <2>2, <2>3, <2>4, FS_PigeonHole
  <2> QED BY <1>1, <2>5 DEF UniquePids
<1>2. First(free) \in free
  <2>1. free \in SUBSET Slots /\ free # {}
    BY <1>1
  <2> HIDE DEF free
  <2> QED BY <2>1, FirstMember
<1> QED BY <1>2 DEF FreeSlot

(***************************************************************************)
(* The steps again, with what they do to masks, slots and stop reports     *)
(***************************************************************************)

StillMove ==        \* nothing but the children and pending signals, or the end
    /\ UNCHANGED <<jobs, nextjid, main, depth, frame, mask>>
    /\ KernelMove
    /\ Alive' => Alive

CommandMove ==      \* a step of the main loop that leaves the table alone
    /\ Alive /\ depth = 0 /\ depth' = 0
    /\ UNCHANGED tableVars
    /\ KernelMove
    /\ main.at \notin {"add", "cont"}
    /\ main'.at \notin {"add", "cont", "bgjid"}

ArriveMove(s) ==    \* a signal is delivered
    /\ Alive
    /\ Active' = Active \cup {depth + 1} /\ depth + 1 \notin Active
    /\ \A e \in Active : frame'[e] = frame[e] /\ e < depth + 1
    /\ frame'[depth + 1].sig = s /\ frame'[depth + 1].at \in {"wait", "fgpid"}
    /\ frame'[depth + 1].pid = NoPid /\ frame'[depth + 1].saved = mask
    /\ s \notin mask /\ mask' = mask \cup {s}
    /\ \/ main' = main
       \/ main.at \notin {"add", "cont", "bgjid"} /\ main'.at \notin {"add", "cont", "bgjid"}
    /\ UNCHANGED <<tableVars, procVars>>

LeaveMove(d) ==     \* a handler returns
    /\ Alive
    /\ d \in Active /\ Active' = Active \ {d} /\ \A e \in Active' : frame'[e] = frame[e] /\ e < d
    /\ frame[d].sig = "CHLD" => frame[d].at = "wait"
    /\ mask' = frame[d].saved
    /\ KernelMove
    /\ UNCHANGED <<tableVars, main>>

Stays(d, sig, at) == \* a handler goes on from here
    /\ Alive
    /\ d \in Active /\ Active' = Active /\ main' = main
    /\ \A e \in Active : e # d => frame'[e] = frame[e]
    /\ frame[d].sig = sig /\ frame'[d].sig = sig /\ frame[d].at = at
    /\ frame'[d].saved = frame[d].saved

ReportMove(d) ==
    /\ Stays(d, "CHLD", "wait")
    /\ frame'[d].at = "getjob" /\ frame'[d].pid \in unreported
    /\ unreported' = unreported \ {frame'[d].pid}
    /\ UNCHANGED <<tableVars, proc, mask>>

FoundMove(d) ==
    /\ Stays(d, "CHLD", "getjob")
    /\ frame'[d].at = "setst" /\ frame'[d].pid = frame[d].pid
    /\ frame'[d].slot = getjobpid(jobs, frame[d].pid) /\ frame'[d].slot # NULL
    /\ UNCHANGED <<tableVars, procVars, mask>>

SetStMove(d) ==
    /\ Stays(d, "CHLD", "setst")
    /\ frame'[d].at = "wait" /\ frame'[d].pid = NoPid
    /\ jobs' = [jobs EXCEPT ![frame[d].slot].state = "ST"]
    /\ UNCHANGED <<nextjid, procVars, mask>>

FgMove(d, sig) ==
    /\ Stays(d, sig, "fgpid") /\ sig \in {"INT", "TSTP"}
    /\ frame'[d].at = (IF sig = "INT" THEN "getfg" ELSE "kill")
    /\ frame'[d].pid \in Listed(jobs)
    /\ UNCHANGED <<tableVars, procVars, mask>>

FgJobMove(d) ==
    /\ Stays(d, "INT", "getfg")
    /\ frame'[d].at = "kill" /\ frame'[d].pid = frame[d].pid
    /\ frame'[d].slot = getjobpid(jobs, frame[d].pid)
    /\ UNCHANGED <<tableVars, procVars, mask>>

ReapMove(d) ==
    /\ Stays(d, "CHLD", "wait")
    /\ frame'[d].at = "delete" /\ frame'[d].pid \in Pids /\ proc[frame'[d].pid] \in Zombie
    /\ proc' = [proc EXCEPT ![frame'[d].pid] = "reaped"]
    /\ UNCHANGED <<tableVars, unreported, mask>>

DropMove(d) ==
    /\ Stays(d, "CHLD", "delete")
    /\ frame'[d].at = "wait" /\ frame'[d].pid = NoPid
    /\ getjobpid(jobs, frame[d].pid) # NULL
    /\ jobs' = deletejob(jobs, frame[d].pid)
    /\ nextjid' = nextjidDelete(jobs, frame[d].pid)
    /\ mask' \in PrevAll
    /\ UNCHANGED procVars

LEMMA HandlerCases ==
    ASSUME TypeOK, FrameLocals, NEW d \in 1..MaxFrames, HandlerStep(d)
    PROVE  \/ StillMove \/ LeaveMove(d) \/ ReportMove(d) \/ FoundMove(d) \/ SetStMove(d)
           \/ \E sig \in Signals : FgMove(d, sig)
           \/ FgJobMove(d) \/ ReapMove(d) \/ DropMove(d)
<1>0. frame[d] \in Frame /\ frame \in [1..MaxFrames -> Frame]
  BY DEF TypeOK
<1>1. ASSUME NEW why, why # "no", Exit(why)
      PROVE  StillMove
  BY <1>1, NoKernelMove DEF Exit, tableVars, ctlVars, StillMove, Alive
<1>2. ASSUME depth = d, Return(d), Alive, KernelMove, UNCHANGED tableVars,
             frame[d].sig = "CHLD" => frame[d].at = "wait"
      PROVE  LeaveMove(d)
  <2>1. d \in Active /\ Active' = Active \ {d} /\ \A e \in Active' : frame'[e] = frame[e]
    BY <1>2, FramesAfter
  <2>2. \A e \in Active' : e < d
    BY <1>2 DEF Return, Active
  <2> QED BY <1>2, <2>1, <2>2 DEF Return, LeaveMove
<1>3. ASSUME NEW sig \in Signals, NEW at, FrameRuns(d, sig, at), NEW new \in Frame,
             frame' = [frame EXCEPT ![d] = new], new.sig = sig, new.saved = frame[d].saved,
             UNCHANGED <<main, depth>>
      PROVE  Stays(d, sig, at) /\ frame'[d] = new
  <2>1. depth = d /\ depth' = depth /\ Alive /\ frame[d].sig = sig /\ frame[d].at = at
    BY <1>3 DEF FrameRuns
  <2>2. d \in Active /\ Active' = Active /\ \A e \in Active : frame'[e] = IF e = d THEN new ELSE frame[e]
    BY <1>3, <2>1, FramesAfter
  <2> QED BY <1>3, <2>1, <2>2 DEF Stays
<1> USE DEF Signals
<1>4. ASSUME NEW p \in Pids, ChldStopped(d, p)
      PROVE  ReportMove(d)
  <2> DEFINE new == [frame[d] EXCEPT !.at = "getjob", !.pid = p]
  <2>1. FrameRuns(d, "CHLD", "wait") /\ frame' = [frame EXCEPT ![d] = new]
        /\ UNCHANGED <<tableVars, proc, mask, main, depth>> /\ p \in unreported /\ unreported' = unreported \ {p}
    BY <1>0, <1>4 DEF ChldStopped
  <2>2. new \in Frame /\ new.sig = "CHLD" /\ new.saved = frame[d].saved /\ new.at = "getjob" /\ new.pid = p
    BY <1>0, <2>1 DEF Frame, FrameAt, FrameRuns
  <2> HIDE DEF new
  <2>3. Stays(d, "CHLD", "wait") /\ frame'[d] = new
    BY <1>3, <2>1, <2>2
  <2> QED BY <2>1, <2>2, <2>3 DEF ReportMove
<1>5. CASE ChldGetJob(d)
  <2> DEFINE slot == getjobpid(jobs, frame[d].pid)
             new == [frame[d] EXCEPT !.at = "setst", !.slot = slot]
  <2>1. CASE Exit("sigchld_handler error")
    BY <1>1, <2>1
  <2>2. CASE ~ Exit("sigchld_handler error")
    <3>1. FrameRuns(d, "CHLD", "getjob") /\ frame' = [frame EXCEPT ![d] = new]
          /\ UNCHANGED <<tableVars, procVars, mask, main, depth>> /\ slot # NULL
      BY <1>0, <1>5, <2>2 DEF ChldGetJob
    <3>2. slot \in Slots \cup {NULL}
      BY <1>0, GetjobpidFinds DEF TypeOK, Frame
    <3>3. new \in Frame /\ new.sig = "CHLD" /\ new.saved = frame[d].saved /\ new.at = "setst"
          /\ new.pid = frame[d].pid /\ new.slot = slot
      BY <1>0, <3>1, <3>2 DEF Frame, FrameAt, FrameRuns
    <3> HIDE DEF new
    <3>4. Stays(d, "CHLD", "getjob") /\ frame'[d] = new
      BY <1>3, <3>1, <3>3
    <3>5. FoundMove(d)
      BY <3>1, <3>3, <3>4 DEF FoundMove
    <3> QED BY <3>5
  <2> QED BY <2>1, <2>2
<1>6. CASE ChldSetSt(d)
  <2> DEFINE new == [frame[d] EXCEPT !.at = "wait", !.pid = NoPid, !.slot = NULL]
  <2>1. FrameRuns(d, "CHLD", "setst") /\ frame' = [frame EXCEPT ![d] = new]
        /\ UNCHANGED <<nextjid, procVars, mask, main, depth>>
        /\ jobs' = [jobs EXCEPT ![frame[d].slot].state = "ST"]
    BY <1>0, <1>6 DEF ChldSetSt
  <2>2. new \in Frame /\ new.sig = "CHLD" /\ new.saved = frame[d].saved /\ new.at = "wait" /\ new.pid = NoPid
    BY <1>0, <2>1 DEF Frame, FrameAt, FrameRuns
  <2> HIDE DEF new
  <2>3. Stays(d, "CHLD", "setst") /\ frame'[d] = new
    BY <1>3, <2>1, <2>2
  <2> QED BY <2>1, <2>2, <2>3 DEF SetStMove
<1>7. CASE ChldReturn(d)
  BY <1>2, <1>7, NoKernelMove DEF ChldReturn, FrameRuns
<1>8. ASSUME NEW sig \in {"INT", "TSTP"}, FgHandlerPid(d, sig)
      PROVE  FgMove(d, sig) \/ LeaveMove(d)
  <2>1. CASE fgpid(jobs) = NoPid
    <3>1. FrameRuns(d, sig, "fgpid") /\ Return(d) /\ UNCHANGED <<tableVars, procVars, pending>>
      BY <1>8, <2>1 DEF FgHandlerPid
    <3> QED BY <1>2, <3>1, NoKernelMove DEF FrameRuns
  <2>2. CASE fgpid(jobs) # NoPid
    <3> DEFINE at == IF sig = "INT" THEN "getfg" ELSE "kill"
               new == [frame[d] EXCEPT !.at = at, !.pid = fgpid(jobs)]
    <3>1. fgpid(jobs) \in Pids /\ fgpid(jobs) \in Listed(jobs) /\ at \in {"getfg", "kill"}
      BY <2>2, FgpidListed DEF TypeOK
    <3>2. FrameRuns(d, sig, "fgpid") /\ frame' = [frame EXCEPT ![d] = new]
          /\ UNCHANGED <<tableVars, procVars, mask, main, depth>>
      BY <1>0, <1>8, <2>2 DEF FgHandlerPid
    <3> HIDE DEF at
    <3>3. new \in Frame /\ new.sig = sig /\ new.saved = frame[d].saved /\ new.at = at /\ new.pid = fgpid(jobs)
      BY <1>0, <3>1, <3>2 DEF Frame, FrameAt, FrameRuns
    <3> HIDE DEF new
    <3>4. Stays(d, sig, "fgpid") /\ frame'[d] = new
      BY <1>3, <3>2, <3>3
    <3>5. frame'[d].at = (IF sig = "INT" THEN "getfg" ELSE "kill")
      BY <3>3, <3>4 DEF at
    <3> QED BY <3>1, <3>2, <3>3, <3>4, <3>5 DEF FgMove
  <2> QED BY <2>1, <2>2
<1>9. CASE IntGetJob(d)
  <2> DEFINE slot == getjobpid(jobs, frame[d].pid)
             new == [frame[d] EXCEPT !.at = "kill", !.slot = slot]
  <2>1. FrameRuns(d, "INT", "getfg") /\ frame' = [frame EXCEPT ![d] = new]
        /\ UNCHANGED <<tableVars, procVars, mask, main, depth>>
    BY <1>0, <1>9 DEF IntGetJob
  <2>2. slot \in Slots \cup {NULL}
    BY <1>0, GetjobpidFinds DEF TypeOK, Frame
  <2>3. new \in Frame /\ new.sig = "INT" /\ new.saved = frame[d].saved /\ new.at = "kill"
        /\ new.pid = frame[d].pid /\ new.slot = slot
    BY <1>0, <2>1, <2>2 DEF Frame, FrameAt, FrameRuns
  <2> HIDE DEF new
  <2>4. Stays(d, "INT", "getfg") /\ frame'[d] = new
    BY <1>3, <2>1, <2>3
  <2>5. FgJobMove(d)
    BY <2>1, <2>3, <2>4 DEF FgJobMove
  <2> QED BY <2>5
<1>10. CASE IntKill(d)
  <2>1. CASE Exit("null job")
    BY <1>1, <2>1
  <2>2. CASE ~ Exit("null job")
    <3>1. FrameRuns(d, "INT", "kill") /\ Return(d) /\ UNCHANGED tableVars /\ KernelMove
      BY <1>10, <2>2, KillMoves DEF IntKill
    <3> QED BY <1>2, <3>1 DEF FrameRuns
  <2> QED BY <2>1, <2>2
<1>11. CASE TstpKill(d)
  <2>1. frame[d].pid \in Pids
    BY <1>11 DEF TstpKill, FrameRuns, FrameLocals, Active
  <2>2. FrameRuns(d, "TSTP", "kill") /\ Return(d) /\ UNCHANGED tableVars /\ KernelMove
    BY <1>11, <2>1, KillMoves DEF TstpKill
  <2> QED BY <1>2, <2>2 DEF FrameRuns
<1>12. ASSUME NEW p \in Pids, ChldReap(d, p)
       PROVE  ReapMove(d)
  <2> DEFINE new == [frame[d] EXCEPT !.at = "delete", !.pid = p]
  <2>1. FrameRuns(d, "CHLD", "wait") /\ frame' = [frame EXCEPT ![d] = new]
        /\ UNCHANGED <<tableVars, unreported, mask, main, depth>> /\ proc[p] \in Zombie
        /\ proc' = [proc EXCEPT ![p] = "reaped"]
    BY <1>0, <1>12 DEF ChldReap
  <2>2. new \in Frame /\ new.sig = "CHLD" /\ new.saved = frame[d].saved /\ new.at = "delete" /\ new.pid = p
    BY <1>0, <2>1 DEF Frame, FrameAt, FrameRuns
  <2> HIDE DEF new
  <2>3. Stays(d, "CHLD", "wait") /\ frame'[d] = new
    BY <1>3, <2>1, <2>2
  <2> QED BY <2>1, <2>2, <2>3 DEF ReapMove
<1>13. CASE ChldDelete(d)
  <2> DEFINE new == [frame[d] EXCEPT !.at = "wait", !.pid = NoPid]
  <2>1. CASE Exit("sigchld_handler error")
    BY <1>1, <2>1
  <2>2. CASE ~ Exit("sigchld_handler error")
    <3>1. FrameRuns(d, "CHLD", "delete") /\ frame' = [frame EXCEPT ![d] = new]
          /\ UNCHANGED <<procVars, main, depth>> /\ mask' \in PrevAll
          /\ getjobpid(jobs, frame[d].pid) # NULL /\ jobs' = deletejob(jobs, frame[d].pid)
          /\ nextjid' = nextjidDelete(jobs, frame[d].pid)
      BY <1>0, <1>13, <2>2 DEF ChldDelete
    <3>2. new \in Frame /\ new.sig = "CHLD" /\ new.saved = frame[d].saved /\ new.at = "wait" /\ new.pid = NoPid
      BY <1>0, <3>1 DEF Frame, FrameAt, FrameRuns
    <3> HIDE DEF new
    <3>3. Stays(d, "CHLD", "delete") /\ frame'[d] = new
      BY <1>3, <3>1, <3>2
    <3>4. DropMove(d)
      BY <3>1, <3>2, <3>3 DEF DropMove
    <3> QED BY <3>4
  <2> QED BY <2>1, <2>2
<1> QED BY <1>4, <1>5, <1>6, <1>7, <1>8, <1>9, <1>10, <1>11, <1>12, <1>13 DEF HandlerStep

LEMMA StepCases ==
    ASSUME TypeOK, FrameLocals, [Next]_vars
    PROVE  \/ StillMove \/ CommandMove \/ DoBgFgSetState \/ DoBgFgCont
           \/ \E p \in Pids, bg \in BOOLEAN : Eval(p, bg)
           \/ EvalAddJob
           \/ \E s \in Signals : ArriveMove(s)
           \/ \E d \in 1..MaxFrames :
                 \/ LeaveMove(d) \/ ReportMove(d) \/ FoundMove(d) \/ SetStMove(d)
                 \/ \E sig \in Signals : FgMove(d, sig)
                 \/ FgJobMove(d) \/ ReapMove(d) \/ DropMove(d)
<1>1. CASE UNCHANGED vars
  BY <1>1, NoKernelMove DEF vars, procVars, StillMove, Alive
<1>2. ASSUME NEW why, why # "no", Exit(why)
      PROVE  StillMove
  BY <1>2, NoKernelMove DEF Exit, tableVars, ctlVars, StillMove, Alive
<1>3. CASE EvalForkFails \/ Quit
  BY <1>2, <1>3 DEF EvalForkFails, Quit
<1>4. ASSUME NEW bg \in BOOLEAN, DoBgFg(bg)
      PROVE  CommandMove
  BY <1>4, NoKernelMove DEF DoBgFg, MainRuns, CommandMove, Idle
<1>5. CASE EvalBgJid
  <2>1. CASE Exit("background pid2jid error")
    BY <1>2, <2>1
  <2>2. CASE ~ Exit("background pid2jid error")
    <3>1. /\ MainRuns("bgjid") /\ main' = Idle
          /\ UNCHANGED <<tableVars, procVars, pending, depth>>
      BY <1>5, <2>2 DEF EvalBgJid
    <3> QED BY <3>1, NoKernelMove DEF MainRuns, CommandMove, Idle
  <2> QED BY <2>1, <2>2
<1>6. CASE WaitFg \/ WaitFgSuspend
  <2>1. main'.at \in {"read", "suspend", "suspended"}
    BY <1>6 DEF WaitFg, WaitFgSuspend, TypeOK, Main, Idle
  <2> QED BY <1>6, <2>1, NoKernelMove DEF WaitFg, WaitFgSuspend, MainRuns, CommandMove
<1>7. CASE Environment
  BY <1>7, EnvironmentMoves DEF Environment, StillMove, tableVars, ctlVars, Alive
<1>8. ASSUME NEW s \in Signals, Deliver(s)
      PROVE  ArriveMove(s)
  <2>1. /\ Active' = Active \cup {depth + 1} /\ depth + 1 \notin Active
        /\ depth + 1 \in 1..MaxFrames
        /\ frame'[depth + 1].sig = s
        /\ frame'[depth + 1].at \in {"wait", "fgpid"}
        /\ \A e \in Active : frame'[e] = frame[e]
    BY <1>8, FramesAfter
  <2>2. frame'[depth + 1].pid = NoPid /\ frame'[depth + 1].saved = mask
    BY <1>8, <2>1 DEF Deliver, TypeOK, NoFrame
  <2>3. \A e \in Active : e < depth + 1
    BY DEF Active, TypeOK
  <2>4. s \notin mask /\ mask' = mask \cup {s} /\ Alive /\ UNCHANGED <<tableVars, procVars>>
    BY <1>8 DEF Deliver, Deliverable
  <2>5. \/ main' = main
        \/ main.at \notin {"add", "cont", "bgjid"} /\ main'.at \notin {"add", "cont", "bgjid"}
    BY <1>8 DEF Deliver, TypeOK, Main
  <2> QED BY <2>1, <2>2, <2>3, <2>4, <2>5 DEF ArriveMove
<1> QED BY <1>1, <1>3, <1>4, <1>5, <1>6, <1>7, <1>8, HandlerCases DEF Next, NewCommand, CommandStep

(***************************************************************************)
(* No job is lost                                                          *)
(***************************************************************************)
LEMMA LostStep ==
    ASSUME IInv, NoLostJob, nextjid > 0, [Next]_vars
    PROVE  NoLostJob'
<1> USE DEF IInv
<1> DEFINE Here(q) == q \in Listed(jobs) \/ (main.at = "add" /\ main.pid = q)
<1> SUFFICES ASSUME Alive', Cardinality(Pids) <= MaxJobs, NEW p \in Pids, proc'[p] \notin {"none", "reaped"}
             PROVE  Here(p)'
  BY DEF NoLostJob
<1>0. Alive => (proc[p] \notin {"none", "reaped"} => Here(p))
  BY DEF NoLostJob
<1>1. CASE StillMove
  <2>1. Alive /\ jobs' = jobs /\ main' = main /\ proc[p] \notin {"none", "reaped"}
    BY <1>1 DEF StillMove, KernelMove
  <2> QED BY <1>0, <2>1
<1>2. CASE CommandMove
  <2>1. Alive /\ jobs' = jobs /\ main.at # "add" /\ proc[p] \notin {"none", "reaped"}
    BY <1>2 DEF CommandMove, KernelMove, tableVars
  <2> QED BY <1>0, <2>1
<1>3. CASE DoBgFgSetState
  <2>1. Alive /\ main.at # "add" /\ proc' = proc /\ Listed(jobs') = Listed(jobs)
    BY <1>3, SetStateEffect DEF DoBgFgSetState, MainRuns, procVars, TypeOK, States
  <2> QED BY <1>0, <2>1
<1>4. CASE DoBgFgCont
  <2>1. Alive /\ main.at # "add" /\ jobs' = jobs /\ KernelMove
    BY <1>4, KillMoves DEF DoBgFgCont, MainRuns, tableVars
  <2>2. proc[p] \notin {"none", "reaped"}
    BY <2>1 DEF KernelMove
  <2> QED BY <1>0, <2>1, <2>2
<1>5. ASSUME NEW q \in Pids, NEW bg \in BOOLEAN, Eval(q, bg)
      PROVE  Here(p)'
  <2>1. Alive /\ main.at # "add" /\ jobs' = jobs /\ main'.at = "add" /\ main'.pid = q
        /\ proc' = [proc EXCEPT ![q] = "forked"]
    BY <1>5 DEF Eval, MainRuns, tableVars, Idle
  <2>2. p # q => proc[p] \notin {"none", "reaped"}
    BY <2>1 DEF TypeOK
  <2> QED BY <1>0, <2>1, <2>2
<1>6. CASE EvalAddJob
  <2>1. Alive /\ main.at = "add" /\ proc' = proc
        /\ jobs' = addjob(jobs, nextjid, main.pid, IF main.bg THEN "BG" ELSE "FG")
    BY <1>6 DEF EvalAddJob, MainRuns, procVars
  <2>2. main.pid \in Pids /\ main.pid \notin Listed(jobs)
    BY <2>1 DEF AddedChild
  <2>3. FreeSlot(jobs) \in Slots /\ jobs[FreeSlot(jobs)].pid = NoPid
    BY <2>2, FreeSlotFound DEF TypeOK
  <2> DEFINE st == IF main.bg THEN "BG" ELSE "FG"
  <2>4. st \in States /\ jobs \in Table /\ nextjid \in Nat
    BY DEF States, TypeOK
  <2>5. \A q : q \in Listed(jobs') <=> q \in Listed(jobs) \/ q = main.pid
    <3>1. jobs' = addjob(jobs, nextjid, main.pid, st)
      BY <2>1
    <3> HIDE DEF st
    <3>2. \A q : q \in Listed(addjob(jobs, nextjid, main.pid, st)) <=> q \in Listed(jobs) \/ q = main.pid
      BY <2>2, <2>3, <2>4, AddjobSlots
    <3> QED BY <3>1, <3>2
  <2> QED BY <1>0, <2>1, <2>5
<1>7. ASSUME NEW s \in Signals, ArriveMove(s)
      PROVE  Here(p)'
  BY <1>0, <1>7 DEF ArriveMove, tableVars, procVars
<1>8. ASSUME NEW d \in 1..MaxFrames, LeaveMove(d)
      PROVE  Here(p)'
  BY <1>0, <1>8 DEF LeaveMove, tableVars, KernelMove
<1>9. ASSUME NEW d \in 1..MaxFrames, ReportMove(d) \/ FoundMove(d) \/ FgJobMove(d)
      PROVE  Here(p)'
  BY <1>0, <1>9 DEF ReportMove, FoundMove, FgJobMove, Stays, tableVars, procVars
<1>10. ASSUME NEW d \in 1..MaxFrames, NEW sig \in Signals, FgMove(d, sig)
       PROVE  Here(p)'
  BY <1>0, <1>10 DEF FgMove, Stays, tableVars, procVars
<1>11. ASSUME NEW d \in 1..MaxFrames, SetStMove(d)
       PROVE  Here(p)'
  <2>1. Alive /\ main' = main /\ proc' = proc /\ Listed(jobs') = Listed(jobs)
    BY <1>11, SetStateEffect DEF SetStMove, Stays, procVars, TypeOK, States
  <2> QED BY <1>0, <2>1
<1>12. ASSUME NEW d \in 1..MaxFrames, ReapMove(d)
       PROVE  Here(p)'
  <2>1. Alive /\ main' = main /\ jobs' = jobs /\ proc[p] \notin {"none", "reaped"}
    BY <1>12 DEF ReapMove, Stays, tableVars, Zombie, TypeOK
  <2> QED BY <1>0, <2>1
<1>13. ASSUME NEW d \in 1..MaxFrames, DropMove(d)
       PROVE  Here(p)'
  <2>1. Alive /\ main' = main /\ proc' = proc /\ ChldAt(d, "delete") /\ d \in Active
        /\ getjobpid(jobs, frame[d].pid) # NULL /\ jobs' = deletejob(jobs, frame[d].pid)
    BY <1>13 DEF DropMove, Stays, procVars, ChldAt
  <2>2. frame[d].pid \in Pids /\ proc[frame[d].pid] = "reaped"
    BY <2>1 DEF FrameLocals
  <2>3. frame[d].pid \in Listed(jobs)
    BY <2>1, <2>2, GetjobpidFinds DEF TypeOK
  <2>4. Listed(jobs') = Listed(jobs) \ {frame[d].pid}
    BY <2>1, <2>2, <2>3, DeletejobEffect DEF TypeOK
  <2> QED BY <1>0, <2>1, <2>2, <2>4
<1> QED BY <1>1, <1>2, <1>3, <1>4, <1>5, <1>6, <1>7, <1>8, <1>9, <1>10, <1>11, <1>12, <1>13, StepCases

(***************************************************************************)
(* Every job has an ID                                                     *)
(***************************************************************************)
LEMMA JidsStep ==
    ASSUME IInv, JidsPositive, [Next]_vars
    PROVE  JidsPositive'
<1> USE DEF IInv
<1>1. ASSUME UNCHANGED tableVars PROVE JidsPositive'
  BY <1>1 DEF JidsPositive, tableVars
<1>2. ASSUME NEW k, NEW state \in States, jobs' = [jobs EXCEPT ![k].state = state], nextjid' = nextjid
      PROVE  JidsPositive'
  BY <1>2 DEF JidsPositive, TypeOK, Table, Job
<1>3. CASE StillMove \/ CommandMove \/ DoBgFgCont \/ (\E p \in Pids, bg \in BOOLEAN : Eval(p, bg))
           \/ (\E s \in Signals : ArriveMove(s))
  BY <1>1, <1>3 DEF StillMove, CommandMove, DoBgFgCont, Eval, ArriveMove, tableVars
<1>4. CASE DoBgFgSetState
  BY <1>2, <1>4 DEF DoBgFgSetState, States
<1>5. CASE EvalAddJob
  <2>1. main.pid \in Pids /\ (IF main.bg THEN "BG" ELSE "FG") \in States
    BY <1>5 DEF EvalAddJob, MainRuns, AddedChild, States
  <2>2. /\ jobs' = addjob(jobs, nextjid, main.pid, IF main.bg THEN "BG" ELSE "FG")
        /\ nextjid' = nextjidAdd(jobs, nextjid)
    BY <1>5 DEF EvalAddJob
  <2>3. nextjid > 0 /\ nextjid \in Nat /\ jobs \in Table
    BY DEF JidsPositive, TypeOK
  <2>4. nextjid' > 0 /\ \A i \in Slots :
           \/ jobs'[i] = jobs[i]
           \/ jobs'[i] = [pid |-> main.pid, jid |-> nextjid, state |-> IF main.bg THEN "BG" ELSE "FG"]
    BY <2>1, <2>2, <2>3, AddjobSlots
  <2> QED BY <2>3, <2>4 DEF JidsPositive
<1>6. ASSUME NEW d \in 1..MaxFrames,
             LeaveMove(d) \/ ReportMove(d) \/ FoundMove(d) \/ (\E sig \in Signals : FgMove(d, sig))
             \/ FgJobMove(d) \/ ReapMove(d)
      PROVE  JidsPositive'
  BY <1>1, <1>6 DEF LeaveMove, ReportMove, FoundMove, FgMove, FgJobMove, ReapMove
<1>7. ASSUME NEW d \in 1..MaxFrames, SetStMove(d)
      PROVE  JidsPositive'
  BY <1>2, <1>7 DEF SetStMove, States
<1>8. ASSUME NEW d \in 1..MaxFrames, DropMove(d)
      PROVE  JidsPositive'
  <2>1. jobs' = deletejob(jobs, frame[d].pid) /\ nextjid' = nextjidDelete(jobs, frame[d].pid)
    BY <1>8 DEF DropMove
  <2>2. jobs \in Table /\ jobs' \in Table
    <3>1. TypeOK'
      BY TypeStep
    <3> QED BY <3>1 DEF TypeOK
  <2>3. nextjid' > 0 /\ \A i \in Slots : jobs'[i] = jobs[i] \/ jobs'[i] = clearjob
    BY <2>1, <2>2, DeletejobSlots
  <2> QED BY <2>3 DEF JidsPositive, clearjob
<1> QED BY <1>3, <1>4, <1>5, <1>6, <1>7, <1>8, StepCases

(***************************************************************************)
(* What a handler remembers of a stop it was told of                       *)
(***************************************************************************)
LEMMA StopsStep ==
    ASSUME IInv, StopsRemembered, [Next]_vars
    PROVE  StopsRemembered'
<1> USE DEF IInv
<1> DEFINE Good(f, tbl) ==
      /\ f.sig = "CHLD" /\ f.at = "wait" => f.pid = NoPid
      /\ f.sig = "CHLD" /\ f.at = "setst" =>
           /\ f.slot \in Slots /\ f.pid \in Pids
           /\ tbl[f.slot].pid = f.pid \/ f.pid \notin Listed(tbl)
<1>1. ASSUME main'.at = "add" /\ Halted(main.pid)' => main'.pid \in unreported',
             main'.at = "add" => main'.pid = main.pid,
             \A e \in Active' : Good(frame'[e], jobs')
      PROVE  StopsRemembered'
  BY <1>1 DEF StopsRemembered, ChldAt, Halted
<1>2. \A e \in Active : Good(frame[e], jobs)
  BY DEF StopsRemembered, ChldAt
<1>3. main.at = "add" => ~ Told(main.pid) /\ main.pid \in Pids
  BY DEF StopsRemembered, AddedChild, Told, Halted
<1>4. ASSUME main'.at = "add" => main.at = "add" /\ main'.pid = main.pid,
             \A q \in Pids : Told(q)' => Told(q),
             jobs' = jobs \/ \E i : \E s \in States : jobs' = [jobs EXCEPT ![i].state = s],
             \A e \in Active' : \/ e \in Active /\ frame'[e] = frame[e]
                                \/ Good(frame'[e], jobs)
      PROVE  StopsRemembered'
  <2>1. Listed(jobs') = Listed(jobs) /\ \A i \in Slots : jobs'[i].pid = jobs[i].pid
    <3>1. jobs \in Table
      BY DEF TypeOK
    <3>2. ASSUME NEW i, NEW s \in States, jobs' = [jobs EXCEPT ![i].state = s]
          PROVE  Listed(jobs') = Listed(jobs) /\ \A k \in Slots : jobs'[k].pid = jobs[k].pid
      <4>1. Listed(jobs') = Listed(jobs)
        BY <3>1, <3>2, SetStateEffect
      <4> QED BY <3>1, <3>2, <4>1 DEF Table, Job
    <3> QED BY <1>4, <3>2
  <2>2. \A f : Good(f, jobs) => Good(f, jobs')
    BY <2>1
  <2>3. \A e \in Active' : Good(frame'[e], jobs')
    <3> HIDE DEF Good
    <3> QED BY <1>2, <1>4, <2>2
  <2>4. main'.at = "add" /\ Halted(main.pid)' => main'.pid \in unreported'
    BY <1>3, <1>4 DEF Told
  <2> HIDE DEF Good
  <2> QED BY <1>1, <1>4, <2>3, <2>4
<1>5. CASE StillMove
  BY <1>4, <1>5 DEF StillMove, KernelMove, tableVars, Active
<1>6. CASE CommandMove
  BY <1>4, <1>6 DEF CommandMove, KernelMove, tableVars, Active
<1>7. CASE DoBgFgSetState
  <2>1. /\ main'.at # "add" /\ Active' = {} /\ UNCHANGED procVars
        /\ jobs' = [jobs EXCEPT ![main.slot].state = IF main.bg THEN "BG" ELSE "FG"]
    BY <1>7 DEF DoBgFgSetState, MainRuns, Active, TypeOK, Main
  <2>2. (IF main.bg THEN "BG" ELSE "FG") \in States
    BY DEF States
  <2> QED BY <1>4, <2>1, <2>2 DEF procVars, Told, Halted
<1>8. CASE DoBgFgCont
  <2>1. main'.at # "add" /\ Active' = {}
    BY <1>8 DEF DoBgFgCont, MainRuns, Active, Idle
  <2> QED BY <1>1, <2>1
<1>9. ASSUME NEW p \in Pids, NEW bg \in BOOLEAN, Eval(p, bg)
      PROVE  StopsRemembered'
  <2>1. Active' = {} /\ main'.pid = p /\ proc'[p] = "forked"
    BY <1>9 DEF Eval, MainRuns, Active, Idle, TypeOK
  <2> QED BY <2>1 DEF StopsRemembered
<1>10. CASE EvalAddJob
  <2>1. main'.at # "add" /\ Active' = {}
    BY <1>10 DEF EvalAddJob, MainRuns, Active, TypeOK, Main
  <2> QED BY <1>1, <2>1
<1>11. ASSUME NEW s \in Signals, ArriveMove(s)
       PROVE  StopsRemembered'
  <2>1. \A e \in Active' : (e \in Active /\ frame'[e] = frame[e]) \/ Good(frame'[e], jobs)
    BY <1>11 DEF ArriveMove
  <2> HIDE DEF Good
  <2> QED BY <1>4, <1>11, <2>1 DEF ArriveMove, tableVars, procVars, Told, Halted
<1>12. ASSUME NEW d \in 1..MaxFrames, LeaveMove(d)
       PROVE  StopsRemembered'
  BY <1>4, <1>12 DEF LeaveMove, KernelMove, tableVars
<1>13. ASSUME NEW d \in 1..MaxFrames, NEW sig, NEW at, Stays(d, sig, at), Good(frame'[d], jobs),
              jobs' = jobs \/ \E i : \E s \in States : jobs' = [jobs EXCEPT ![i].state = s],
              \A q \in Pids : Told(q)' => Told(q)
       PROVE  StopsRemembered'
  <2>1. main' = main /\ \A e \in Active' : (e \in Active /\ frame'[e] = frame[e]) \/ Good(frame'[e], jobs)
    BY <1>13 DEF Stays
  <2> HIDE DEF Good
  <2> QED BY <1>4, <1>13, <2>1
<1>14. ASSUME NEW d \in 1..MaxFrames, ReportMove(d)
       PROVE  StopsRemembered'
  <2>1. /\ Stays(d, "CHLD", "wait") /\ main' = main /\ d \in Active /\ frame[d].sig = "CHLD"
        /\ frame'[d].at = "getjob" /\ jobs' = jobs
    BY <1>14 DEF ReportMove, Stays, tableVars
  <2>2. main'.at # "add"
    BY <2>1 DEF NoChldWhileAdding
  <2>3. \A e \in Active' : Good(frame'[e], jobs')
    BY <1>2, <2>1 DEF Stays
  <2> HIDE DEF Good
  <2> QED BY <1>1, <2>2, <2>3
<1>15. ASSUME NEW d \in 1..MaxFrames, FoundMove(d)
       PROVE  StopsRemembered'
  <2>1. /\ Stays(d, "CHLD", "getjob") /\ jobs' = jobs /\ UNCHANGED procVars
        /\ frame'[d].at = "setst" /\ frame'[d].pid = frame[d].pid
        /\ frame'[d].slot = getjobpid(jobs, frame[d].pid) /\ frame'[d].slot # NULL
    BY <1>15 DEF FoundMove, tableVars
  <2>2. frame[d].pid \in Pids
    BY <2>1 DEF Stays, FrameLocals, ChldAt
  <2>3. frame'[d].slot \in Slots /\ jobs[frame'[d].slot].pid = frame'[d].pid
    BY <2>1, <2>2, GetjobpidFinds DEF TypeOK
  <2>4. Good(frame'[d], jobs)
    BY <2>1, <2>2, <2>3
  <2> HIDE DEF Good
  <2> QED BY <1>13, <2>1, <2>4 DEF procVars, Told, Halted
<1>16. ASSUME NEW d \in 1..MaxFrames, SetStMove(d)
       PROVE  StopsRemembered'
  <2>1. Good(frame'[d], jobs) /\ Stays(d, "CHLD", "setst")
    BY <1>16 DEF SetStMove
  <2>2. jobs' = [jobs EXCEPT ![frame[d].slot].state = "ST"] /\ "ST" \in States /\ UNCHANGED procVars
    BY <1>16 DEF SetStMove, States
  <2> HIDE DEF Good
  <2> QED BY <1>13, <2>1, <2>2 DEF procVars, Told, Halted
<1>17. ASSUME NEW d \in 1..MaxFrames, NEW sig \in Signals, FgMove(d, sig)
       PROVE  StopsRemembered'
  <2>1. Good(frame'[d], jobs) /\ Stays(d, sig, "fgpid") /\ jobs' = jobs /\ UNCHANGED procVars
    BY <1>17 DEF FgMove, Stays, tableVars
  <2> HIDE DEF Good
  <2> QED BY <1>13, <2>1 DEF procVars, Told, Halted
<1>18. ASSUME NEW d \in 1..MaxFrames, FgJobMove(d)
       PROVE  StopsRemembered'
  <2>1. Good(frame'[d], jobs) /\ Stays(d, "INT", "getfg") /\ jobs' = jobs /\ UNCHANGED procVars
    BY <1>18 DEF FgJobMove, Stays, tableVars
  <2> HIDE DEF Good
  <2> QED BY <1>13, <2>1 DEF procVars, Told, Halted
<1>19. ASSUME NEW d \in 1..MaxFrames, ReapMove(d)
       PROVE  StopsRemembered'
  <2>1. Good(frame'[d], jobs) /\ Stays(d, "CHLD", "wait") /\ jobs' = jobs
    BY <1>19 DEF ReapMove, Stays, tableVars
  <2>2. \A q \in Pids : Told(q)' => Told(q)
    BY <1>19 DEF ReapMove, Told, Halted, TypeOK
  <2> HIDE DEF Good
  <2> QED BY <1>13, <2>1, <2>2
<1>20. ASSUME NEW d \in 1..MaxFrames, DropMove(d)
       PROVE  StopsRemembered'
  <2>1. /\ Stays(d, "CHLD", "delete") /\ main' = main /\ d \in Active /\ frame[d].sig = "CHLD"
        /\ frame'[d].at = "wait" /\ frame'[d].pid = NoPid
        /\ getjobpid(jobs, frame[d].pid) # NULL /\ jobs' = deletejob(jobs, frame[d].pid)
    BY <1>20 DEF DropMove, Stays
  <2> DEFINE k == getjobpid(jobs, frame[d].pid)
  <2>2. main'.at # "add"
    BY <2>1 DEF NoChldWhileAdding
  <2>3. frame[d].pid \in Pids
    BY <2>1 DEF FrameLocals, ChldAt, Stays
  <2>4. frame[d].pid \in Listed(jobs) /\ k \in Slots /\ jobs[k].pid = frame[d].pid
    BY <2>1, <2>3, GetjobpidFinds DEF TypeOK
  <2>5. Listed(jobs') = Listed(jobs) \ {frame[d].pid}
    BY <2>1, <2>3, <2>4, DeletejobEffect DEF TypeOK
  <2>6. \A i \in Slots : i # k => jobs'[i] = jobs[i]
    BY <2>1 DEF deletejob, TypeOK, Table
  <2>7. \A f : Good(f, jobs) => Good(f, jobs')
    <3> HIDE DEF k
    <3> QED BY <2>4, <2>5, <2>6
  <2>8. \A e \in Active' : Good(frame'[e], jobs')
    <3>1. \A e \in Active' : e \in Active /\ (e # d => frame'[e] = frame[e])
      BY <2>1 DEF Stays
    <3>2. Good(frame'[d], jobs')
      BY <2>1
    <3> HIDE DEF Good
    <3> QED BY <1>2, <2>7, <3>1, <3>2
  <2> HIDE DEF Good
  <2> QED BY <1>1, <2>2, <2>8
<1> HIDE DEF Good
<1> QED BY <1>5, <1>6, <1>7, <1>8, <1>9, <1>10, <1>11, <1>12, <1>14, <1>15, <1>16, <1>17, <1>18, <1>19, <1>20,
           StepCases

(***************************************************************************)
(* A child known to be stopped is listed as stopped                        *)
(***************************************************************************)
LEMMA StoppedStep ==
    ASSUME IInv, StopsRemembered, StoppedJobIsST, [Next]_vars
    PROVE  StoppedJobIsST'
<1> USE DEF IInv
<1> DEFINE Ok(i, p) == \/ jobs[i].state = "ST"
                       \/ main.at = "cont" /\ main.slot = i
                       \/ \E d \in Active : frame[d].sig = "CHLD" /\ frame[d].pid = p
<1> SUFFICES ASSUME NEW i \in Slots, NEW p \in Pids, jobs'[i].pid = p, Told(p)'
             PROVE  Ok(i, p)'
  BY DEF StoppedJobIsST, Told, Halted
<1>0. jobs[i].pid = p /\ Told(p) => Ok(i, p)
  BY DEF StoppedJobIsST, Told, Halted
<1>1. p # NoPid
  BY NoPidAssumption
<1>2. ASSUME jobs'[i] = jobs[i], Told(p), (main'.at = main.at /\ main'.slot = main.slot) \/ main.at # "cont",
             \A e \in Active : frame[e].sig = "CHLD" /\ frame[e].pid = p =>
                                 e \in Active' /\ frame'[e].sig = "CHLD" /\ frame'[e].pid = p
      PROVE  Ok(i, p)'
  BY <1>0, <1>2
<1>3. CASE StillMove
  BY <1>2, <1>3 DEF StillMove, KernelMove, tableVars, Active
<1>4. CASE CommandMove
  <2>1. jobs' = jobs /\ main.at # "cont" /\ Active = {} /\ Told(p)
    BY <1>4 DEF CommandMove, KernelMove, tableVars, Active
  <2> QED BY <1>2, <2>1
<1>5. CASE DoBgFgSetState
  <2>1. /\ main.at # "cont" /\ Active = {} /\ UNCHANGED procVars
        /\ main'.at = "cont" /\ main'.slot = main.slot
        /\ jobs' = [jobs EXCEPT ![main.slot].state = IF main.bg THEN "BG" ELSE "FG"]
    BY <1>5 DEF DoBgFgSetState, MainRuns, Active, TypeOK, Main
  <2>2. i # main.slot => jobs'[i] = jobs[i]
    BY <2>1 DEF TypeOK, Table
  <2>3. Told(p)
    BY <2>1 DEF procVars, Told, Halted
  <2> QED BY <1>2, <2>1, <2>2, <2>3
<1>6. CASE DoBgFgCont
  <2>1. main.at = "cont" /\ Active = {} /\ KillCont(jobs[main.slot].pid) /\ jobs' = jobs
    BY <1>6 DEF DoBgFgCont, MainRuns, Active, tableVars
  <2>2. Told(p)
    BY <2>1, KillMoves DEF KernelMove
  <2>3. main.slot # i
    <3>1. ASSUME main.slot = i PROVE FALSE
      <4>1. KillCont(p) /\ Halted(p)
        BY <2>1, <2>2, <3>1 DEF Told
      <4>2. proc' = [proc EXCEPT ![p] = IF @ = "doomed" THEN "killed" ELSE "running"]
        BY <1>1, <4>1 DEF KillCont, Continues, Halted
      <4>3. ~ Halted(p)'
        BY <4>2 DEF Halted, TypeOK
      <4> QED BY <4>3 DEF Told
    <3> QED BY <3>1
  <2> QED BY <1>0, <2>1, <2>2, <2>3
<1>7. ASSUME NEW q \in Pids, NEW bg \in BOOLEAN, Eval(q, bg)
      PROVE  Ok(i, p)'
  <2>1. /\ main.at # "cont" /\ Active = {} /\ jobs' = jobs /\ unreported' = unreported
        /\ proc' = [proc EXCEPT ![q] = "forked"]
    BY <1>7 DEF Eval, MainRuns, Active, tableVars
  <2>2. Told(p)
    BY <2>1 DEF Told, Halted, TypeOK
  <2> QED BY <1>2, <2>1, <2>2
<1>8. CASE EvalAddJob
  <2>1. /\ main.at = "add" /\ Active = {} /\ UNCHANGED procVars
        /\ jobs' = addjob(jobs, nextjid, main.pid, IF main.bg THEN "BG" ELSE "FG")
    BY <1>8 DEF EvalAddJob, MainRuns, Active
  <2>2. Told(p)
    BY <2>1 DEF procVars, Told, Halted
  <2>3. p # main.pid
    BY <2>1, <2>2 DEF StopsRemembered, Told, Halted
  <2>4. jobs'[i] = jobs[i]
    <3> DEFINE new == [pid |-> main.pid, jid |-> nextjid, state |-> IF main.bg THEN "BG" ELSE "FG"]
    <3>1. jobs'[i] = jobs[i] \/ jobs'[i] = new
      BY <2>1 DEF addjob, TypeOK, Table
    <3> QED BY <2>3, <3>1
  <2> QED BY <1>2, <2>1, <2>2, <2>4
<1>9. ASSUME NEW s \in Signals, ArriveMove(s)
      PROVE  Ok(i, p)'
  BY <1>2, <1>9 DEF ArriveMove, tableVars, procVars, Told, Halted
<1>10. ASSUME NEW d \in 1..MaxFrames, LeaveMove(d)
       PROVE  Ok(i, p)'
  <2>1. Told(p) /\ jobs' = jobs /\ main' = main /\ Active' = Active \ {d} /\ d \in Active
        /\ \A e \in Active' : frame'[e] = frame[e]
    BY <1>10 DEF LeaveMove, KernelMove, tableVars
  <2>2. frame[d].sig = "CHLD" => frame[d].pid # p
    BY <1>1, <1>10 DEF LeaveMove, StopsRemembered, ChldAt
  <2> QED BY <1>2, <2>1, <2>2
<1>11. ASSUME NEW d \in 1..MaxFrames, NEW sig, NEW at, Stays(d, sig, at), jobs'[i] = jobs[i], Told(p),
              frame[d].sig = "CHLD" /\ frame[d].pid = p => frame'[d].pid = p
       PROVE  Ok(i, p)'
  BY <1>2, <1>11 DEF Stays
<1>12. ASSUME NEW d \in 1..MaxFrames, Stays(d, "CHLD", "wait")
       PROVE  frame[d].pid # p
  BY <1>1, <1>12 DEF Stays, StopsRemembered, ChldAt
<1>13. ASSUME NEW d \in 1..MaxFrames, ReportMove(d)
       PROVE  Ok(i, p)'
  <2>1. Stays(d, "CHLD", "wait") /\ jobs' = jobs /\ proc' = proc
        /\ unreported' = unreported \ {frame'[d].pid}
    BY <1>13 DEF ReportMove, tableVars
  <2>2. CASE frame'[d].pid = p
    BY <2>1, <2>2 DEF Stays
  <2>3. CASE frame'[d].pid # p
    <3>1. Told(p)
      BY <2>1, <2>3 DEF Told, Halted
    <3> QED BY <1>11, <1>12, <2>1, <3>1
  <2> QED BY <2>2, <2>3
<1>14. ASSUME NEW d \in 1..MaxFrames, FoundMove(d)
       PROVE  Ok(i, p)'
  <2>1. Stays(d, "CHLD", "getjob") /\ jobs' = jobs /\ UNCHANGED procVars /\ frame'[d].pid = frame[d].pid
    BY <1>14 DEF FoundMove, tableVars
  <2> QED BY <1>11, <2>1 DEF procVars, Told, Halted
<1>15. ASSUME NEW d \in 1..MaxFrames, SetStMove(d)
       PROVE  Ok(i, p)'
  <2>1. Stays(d, "CHLD", "setst") /\ UNCHANGED procVars
        /\ jobs' = [jobs EXCEPT ![frame[d].slot].state = "ST"]
    BY <1>15 DEF SetStMove
  <2>2. Told(p)
    BY <2>1 DEF procVars, Told, Halted
  <2>3. CASE i = frame[d].slot
    BY <2>1, <2>3 DEF TypeOK, Table, Job
  <2>4. CASE i # frame[d].slot
    <3>1. jobs'[i] = jobs[i]
      BY <2>1, <2>4 DEF TypeOK, Table
    <3>2. frame[d].pid # p
      <4>1. /\ frame[d].slot \in Slots
            /\ jobs[frame[d].slot].pid = frame[d].pid \/ frame[d].pid \notin Listed(jobs)
        BY <2>1 DEF Stays, StopsRemembered, ChldAt
      <4>2. p \in Listed(jobs)
        BY <1>1, <3>1 DEF Listed
      <4> QED BY <1>1, <2>4, <3>1, <4>1, <4>2 DEF UniquePids
    <3> QED BY <1>11, <2>1, <2>2, <3>1, <3>2
  <2> QED BY <2>3, <2>4
<1>16. ASSUME NEW d \in 1..MaxFrames, NEW sig \in Signals, FgMove(d, sig)
       PROVE  Ok(i, p)'
  <2>1. Stays(d, sig, "fgpid") /\ frame[d].sig # "CHLD" /\ jobs' = jobs /\ UNCHANGED procVars
    BY <1>16 DEF FgMove, Stays, tableVars
  <2> QED BY <1>11, <2>1 DEF procVars, Told, Halted
<1>17. ASSUME NEW d \in 1..MaxFrames, FgJobMove(d)
       PROVE  Ok(i, p)'
  <2>1. Stays(d, "INT", "getfg") /\ frame[d].sig # "CHLD" /\ jobs' = jobs /\ UNCHANGED procVars
    BY <1>17 DEF FgJobMove, Stays, tableVars
  <2> QED BY <1>11, <2>1 DEF procVars, Told, Halted
<1>18. ASSUME NEW d \in 1..MaxFrames, ReapMove(d)
       PROVE  Ok(i, p)'
  <2>1. Stays(d, "CHLD", "wait") /\ jobs' = jobs
    BY <1>18 DEF ReapMove, tableVars
  <2>2. Told(p)
    BY <1>18 DEF ReapMove, Told, Halted, TypeOK
  <2> QED BY <1>11, <1>12, <2>1, <2>2
<1>19. ASSUME NEW d \in 1..MaxFrames, DropMove(d)
       PROVE  Ok(i, p)'
  <2>1. Stays(d, "CHLD", "delete") /\ UNCHANGED procVars /\ jobs' = deletejob(jobs, frame[d].pid)
    BY <1>19 DEF DropMove
  <2>2. Told(p)
    BY <2>1 DEF procVars, Told, Halted
  <2>3. frame[d].pid # p
    BY <2>1, <2>2 DEF Stays, FrameLocals, ChldAt, Told, Halted
  <2>4. jobs'[i] = jobs[i]
    <3>1. jobs'[i] = jobs[i] \/ jobs'[i] = clearjob
      BY <2>1, DeletejobSlots DEF TypeOK
    <3> QED BY <1>1, <3>1 DEF clearjob
  <2> QED BY <1>11, <2>1, <2>2, <2>3, <2>4
<1> QED BY <1>3, <1>4, <1>5, <1>6, <1>7, <1>8, <1>9, <1>10, <1>13, <1>14, <1>15, <1>16, <1>17, <1>18, <1>19,
           StepCases

(***************************************************************************)
(* The pids that running code holds                                        *)
(***************************************************************************)
LEMMA PidsHeldStep ==
    ASSUME IInv, PidsHeld, [Next]_vars
    PROVE  PidsHeld'
<1> USE DEF IInv
<1> DEFINE Good(f) ==
      /\ f.sig = "CHLD" /\ f.at = "getjob" => f.pid \in Pids /\ proc[f.pid] # "none"
      /\ f.sig = "INT" /\ f.at = "getfg" =>
           f.pid \in Pids /\ proc[f.pid] # "none" /\ ~(main.at = "add" /\ main.pid = f.pid)
<1>1. \A e \in Active : Good(frame[e])
  BY DEF PidsHeld, FrameLocals, ChldAt
<1>2. ASSUME \A q \in Pids : proc[q] # "none" => proc'[q] # "none",
             \A q \in unreported' : proc'[q] \in {"stopped", "doomed"},
             main' = main \/ main'.at \notin {"add", "bgjid"},
             \A e \in Active' : (e \in Active /\ frame'[e] = frame[e]) \/ Good(frame'[e])
      PROVE  PidsHeld'
  <2>1. main'.at = "bgjid" => main'.pid \in Pids /\ proc'[main'.pid] # "none"
    BY <1>2 DEF PidsHeld
  <2>2. ASSUME NEW e \in Active' PROVE Good(frame'[e])
    <3> HIDE DEF Good
    <3> QED BY <1>1, <1>2, <2>2
  <2>3. ASSUME NEW f, Good(f) PROVE Good(f)'
    BY <1>2, <2>3
  <2> QED BY <1>2, <2>1, <2>2, <2>3 DEF PidsHeld, ChldAt
<1>3. ASSUME KernelMove
      PROVE  /\ \A q \in Pids : proc[q] # "none" => proc'[q] # "none"
             /\ \A q \in unreported' : proc'[q] \in {"stopped", "doomed"}
  <2>1. TypeOK'
    BY TypeStep
  <2> QED BY <1>3, <2>1 DEF KernelMove, PidsHeld, Halted, TypeOK
<1>4. ASSUME UNCHANGED procVars
      PROVE  /\ \A q \in Pids : proc[q] # "none" => proc'[q] # "none"
             /\ \A q \in unreported' : proc'[q] \in {"stopped", "doomed"}
  BY <1>4 DEF procVars, PidsHeld
<1>5. CASE StillMove
  BY <1>2, <1>3, <1>5 DEF StillMove, Active
<1>6. CASE CommandMove
  BY <1>2, <1>3, <1>6 DEF CommandMove, Active
<1>7. CASE DoBgFgSetState
  <2>1. Active' = {} /\ main'.at = "cont" /\ UNCHANGED procVars
    BY <1>7 DEF DoBgFgSetState, MainRuns, Active, TypeOK, Main
  <2> QED BY <1>2, <1>4, <2>1
<1>8. CASE DoBgFgCont
  <2>1. Active' = {} /\ main'.at \in {"read", "waitfg"} /\ KernelMove
    BY <1>8, KillMoves DEF DoBgFgCont, MainRuns, Active, Idle
  <2> QED BY <1>2, <1>3, <2>1
<1>9. ASSUME NEW p \in Pids, NEW bg \in BOOLEAN, Eval(p, bg)
      PROVE  PidsHeld'
  <2>1. Active' = {} /\ main'.at = "add" /\ unreported' = unreported /\ proc[p] = "none"
        /\ proc' = [proc EXCEPT ![p] = "forked"]
    BY <1>9 DEF Eval, MainRuns, Active, Idle
  <2>2. \A q \in unreported' : q # p /\ proc'[q] \in {"stopped", "doomed"}
    BY <2>1 DEF PidsHeld, TypeOK
  <2> QED BY <2>1, <2>2 DEF PidsHeld
<1>10. CASE EvalAddJob
  <2>1. Active' = {} /\ main'.pid = main.pid /\ main.at = "add" /\ UNCHANGED procVars
    BY <1>10 DEF EvalAddJob, MainRuns, Active, TypeOK, Main
  <2> QED BY <1>4, <2>1 DEF AddedChild, PidsHeld, procVars
<1>11. ASSUME NEW s \in Signals, ArriveMove(s)
       PROVE  PidsHeld'
  <2>1. \A e \in Active' : (e \in Active /\ frame'[e] = frame[e]) \/ Good(frame'[e])
    BY <1>11 DEF ArriveMove
  <2> HIDE DEF Good
  <2> QED BY <1>2, <1>4, <1>11, <2>1 DEF ArriveMove
<1>12. ASSUME NEW d \in 1..MaxFrames, LeaveMove(d)
       PROVE  PidsHeld'
  BY <1>2, <1>3, <1>12 DEF LeaveMove
<1>13. ASSUME NEW d \in 1..MaxFrames, NEW sig, NEW at, Stays(d, sig, at), Good(frame'[d]),
              \A q \in Pids : proc[q] # "none" => proc'[q] # "none",
              \A q \in unreported' : proc'[q] \in {"stopped", "doomed"}
       PROVE  PidsHeld'
  <2>1. main' = main /\ \A e \in Active' : (e \in Active /\ frame'[e] = frame[e]) \/ Good(frame'[e])
    BY <1>13 DEF Stays
  <2> HIDE DEF Good
  <2> QED BY <1>2, <1>13, <2>1
<1>14. ASSUME NEW d \in 1..MaxFrames, ReportMove(d)
       PROVE  PidsHeld'
  <2>1. Stays(d, "CHLD", "wait") /\ frame'[d].at = "getjob" /\ frame'[d].sig = "CHLD"
        /\ frame'[d].pid \in unreported /\ unreported' = unreported \ {frame'[d].pid} /\ proc' = proc
    BY <1>14 DEF ReportMove, Stays
  <2>2. Good(frame'[d])
    BY <2>1 DEF PidsHeld, TypeOK
  <2> HIDE DEF Good
  <2> QED BY <1>13, <2>1, <2>2 DEF PidsHeld
<1>15. ASSUME NEW d \in 1..MaxFrames, FoundMove(d) \/ SetStMove(d) \/ FgJobMove(d) \/ DropMove(d)
       PROVE  PidsHeld'
  <2>1. Good(frame'[d]) /\ UNCHANGED procVars
    BY <1>15 DEF FoundMove, SetStMove, FgJobMove, DropMove, Stays
  <2> HIDE DEF Good
  <2> QED BY <1>4, <1>13, <1>15, <2>1 DEF FoundMove, SetStMove, FgJobMove, DropMove
<1>16. ASSUME NEW d \in 1..MaxFrames, NEW sig \in Signals, FgMove(d, sig)
       PROVE  PidsHeld'
  <2>1. Stays(d, sig, "fgpid") /\ frame'[d].pid \in Listed(jobs) /\ UNCHANGED procVars
        /\ frame'[d].sig = sig /\ sig # "CHLD"
    BY <1>16 DEF FgMove, Stays
  <2>2. frame'[d].pid \in Pids
    BY <2>1 DEF Listed, TypeOK, Table, Job
  <2>3. Good(frame'[d])
    BY <2>1, <2>2 DEF NoGhostJob, AddedChild
  <2> HIDE DEF Good
  <2> QED BY <1>4, <1>13, <2>1, <2>3
<1>17. ASSUME NEW d \in 1..MaxFrames, ReapMove(d)
       PROVE  PidsHeld'
  <2>1. Good(frame'[d]) /\ Stays(d, "CHLD", "wait")
    BY <1>17 DEF ReapMove
  <2>2. \A q \in Pids : proc[q] # "none" => proc'[q] # "none"
    BY <1>17 DEF ReapMove, TypeOK
  <2>3. \A q \in unreported' : proc'[q] \in {"stopped", "doomed"}
    BY <1>17 DEF ReapMove, TypeOK, PidsHeld, Zombie
  <2> HIDE DEF Good
  <2> QED BY <1>13, <2>1, <2>2, <2>3
<1> HIDE DEF Good
<1> QED BY <1>5, <1>6, <1>7, <1>8, <1>9, <1>10, <1>11, <1>12, <1>14, <1>15, <1>16, <1>17, StepCases

(***************************************************************************)
(* Every reaped child has its job, and one handler that will delete it     *)
(***************************************************************************)
LEMMA JobsFoundStep ==
    ASSUME IInv, NoLostJob, PidsHeld, JobsFound, [Next]_vars
    PROVE  JobsFound'
<1> USE DEF IInv
<1> SUFFICES ASSUME Cardinality(Pids) <= MaxJobs PROVE JobsFound'
  BY DEF JobsFound
<1> DEFINE Deletes(f) == f.sig = "CHLD" /\ f.at = "delete"
           Good(f) == f.sig = "INT" /\ f.at = "kill" /\ f.slot = NULL => f.pid \in Pids /\ proc[f.pid] = "reaped"
           GoodNext(f) == f.sig = "INT" /\ f.at = "kill" /\ f.slot = NULL => f.pid \in Pids /\ proc'[f.pid] = "reaped"
<1>1. /\ \A e \in Active : Good(frame[e])
      /\ \A e \in Active : Deletes(frame[e]) => frame[e].pid \in Listed(jobs)
      /\ \A e, f \in Active : Deletes(frame[e]) /\ Deletes(frame[f]) /\ frame[e].pid = frame[f].pid => e = f
  BY DEF JobsFound, ChldAt
<1>2. ASSUME \A e \in Active' : GoodNext(frame'[e]),
             \A e \in Active' : Deletes(frame'[e]) => frame'[e].pid \in Listed(jobs'),
             \A e, f \in Active' : Deletes(frame'[e]) /\ Deletes(frame'[f]) /\ frame'[e].pid = frame'[f].pid => e = f
      PROVE  JobsFound'
  BY <1>2 DEF JobsFound, ChldAt
<1>3. \A e \in Active : Deletes(frame[e]) => frame[e].pid \in Pids /\ proc[frame[e].pid] = "reaped"
  BY DEF FrameLocals, ChldAt
<1>4. ASSUME \A q \in Pids : proc[q] = "reaped" => proc'[q] = "reaped", NEW f, Good(f)
      PROVE  GoodNext(f)
  BY <1>4
<1>5. ASSUME \A q \in Pids : proc[q] = "reaped" => proc'[q] = "reaped",
             Listed(jobs') = Listed(jobs),
             \A e \in Active' : \/ e \in Active /\ frame'[e] = frame[e]
                                \/ Good(frame'[e]) /\ ~ Deletes(frame'[e])
      PROVE  JobsFound'
  <2> HIDE DEF Good, GoodNext, Deletes
  <2> QED BY <1>1, <1>2, <1>4, <1>5
<1>6. ASSUME Active' = {} PROVE JobsFound'
  BY <1>6 DEF JobsFound
<1>7. CASE StillMove
  BY <1>5, <1>7 DEF StillMove, KernelMove, Active
<1>8. CASE CommandMove
  BY <1>6, <1>8 DEF CommandMove, Active
<1>9. CASE DoBgFgSetState \/ DoBgFgCont \/ EvalAddJob \/ \E p \in Pids, bg \in BOOLEAN : Eval(p, bg)
  <2>1. depth' = 0
    BY <1>9 DEF DoBgFgSetState, DoBgFgCont, EvalAddJob, Eval, MainRuns
  <2> QED BY <1>6, <2>1 DEF Active
<1>10. ASSUME NEW s \in Signals, ArriveMove(s)
       PROVE  JobsFound'
  <2>1. \A e \in Active' : (e \in Active /\ frame'[e] = frame[e]) \/ (Good(frame'[e]) /\ ~ Deletes(frame'[e]))
    BY <1>10 DEF ArriveMove
  <2> HIDE DEF Good, GoodNext, Deletes
  <2> QED BY <1>5, <1>10, <2>1 DEF ArriveMove, tableVars, procVars
<1>11. ASSUME NEW d \in 1..MaxFrames, LeaveMove(d)
       PROVE  JobsFound'
  BY <1>5, <1>11 DEF LeaveMove, KernelMove, tableVars
<1>12. ASSUME NEW d \in 1..MaxFrames, NEW sig, NEW at, Stays(d, sig, at),
              Good(frame'[d]), ~ Deletes(frame'[d]), proc' = proc, Listed(jobs') = Listed(jobs)
       PROVE  JobsFound'
  <2>1. \A e \in Active' : (e \in Active /\ frame'[e] = frame[e]) \/ (Good(frame'[e]) /\ ~ Deletes(frame'[e]))
    BY <1>12 DEF Stays
  <2> HIDE DEF Good, GoodNext, Deletes
  <2> QED BY <1>5, <1>12, <2>1
<1>13. ASSUME NEW d \in 1..MaxFrames, ReportMove(d) \/ FoundMove(d) \/ \E sig \in Signals : FgMove(d, sig)
       PROVE  JobsFound'
  <2>1. Good(frame'[d]) /\ ~ Deletes(frame'[d]) /\ proc' = proc /\ jobs' = jobs
    BY <1>13 DEF ReportMove, FoundMove, FgMove, Stays, tableVars, procVars
  <2> HIDE DEF Good, GoodNext, Deletes
  <2> QED BY <1>12, <1>13, <2>1 DEF ReportMove, FoundMove, FgMove
<1>14. ASSUME NEW d \in 1..MaxFrames, SetStMove(d)
       PROVE  JobsFound'
  <2>1. Good(frame'[d]) /\ ~ Deletes(frame'[d]) /\ proc' = proc /\ Stays(d, "CHLD", "setst")
    BY <1>14 DEF SetStMove, Stays, procVars
  <2>2. Listed(jobs') = Listed(jobs)
    BY <1>14, SetStateEffect DEF SetStMove, TypeOK, States
  <2> HIDE DEF Good, GoodNext, Deletes
  <2> QED BY <1>12, <2>1, <2>2
<1>15. ASSUME NEW d \in 1..MaxFrames, FgJobMove(d)
       PROVE  JobsFound'
  <2>1. /\ Stays(d, "INT", "getfg") /\ proc' = proc /\ jobs' = jobs /\ ~ Deletes(frame'[d])
        /\ frame'[d].pid = frame[d].pid /\ frame'[d].slot = getjobpid(jobs, frame[d].pid)
    BY <1>15 DEF FgJobMove, Stays, tableVars, procVars
  <2>2. /\ Alive /\ frame[d].pid \in Pids /\ proc[frame[d].pid] # "none"
        /\ ~(main.at = "add" /\ main.pid = frame[d].pid)
    BY <2>1 DEF Stays, FrameLocals, PidsHeld
  <2>3. frame'[d].slot = NULL => frame[d].pid \notin Listed(jobs)
    BY <2>1, <2>2, GetjobpidFinds DEF TypeOK
  <2>4. Good(frame'[d])
    BY <2>1, <2>2, <2>3 DEF NoLostJob
  <2> HIDE DEF Good, GoodNext, Deletes
  <2> QED BY <1>12, <2>1, <2>4
<1>16. ASSUME NEW d \in 1..MaxFrames, ReapMove(d)
       PROVE  JobsFound'
  <2> DEFINE q == frame'[d].pid
  <2>1. /\ Stays(d, "CHLD", "wait") /\ q \in Pids /\ proc[q] \in Zombie /\ jobs' = jobs
        /\ proc' = [proc EXCEPT ![q] = "reaped"] /\ Deletes(frame'[d])
    BY <1>16 DEF ReapMove, Stays, tableVars
  <2>2. main.at # "add" /\ Alive
    BY <2>1 DEF Stays, NoChldWhileAdding
  <2>3. q \in Listed(jobs)
    BY <2>1, <2>2 DEF NoLostJob, Zombie
  <2>4. \A e \in Active : Deletes(frame[e]) => frame[e].pid # q
    <3> HIDE DEF q, Deletes
    <3> QED BY <1>3, <2>1 DEF Zombie
  <2>5. \A p \in Pids : proc[p] = "reaped" => proc'[p] = "reaped"
    BY <2>1 DEF TypeOK
  <2>6. Good(frame'[d])
    BY <2>1 DEF Stays
  <2>7. \A e \in Active' : e \in Active /\ (e # d => frame'[e] = frame[e])
    BY <2>1 DEF Stays
  <2>8. \A e \in Active' : GoodNext(frame'[e])
    <3> HIDE DEF Good, GoodNext, Deletes
    <3> QED BY <1>1, <1>4, <2>5, <2>6, <2>7
  <2>9. \A e \in Active' : Deletes(frame'[e]) => frame'[e].pid \in Listed(jobs')
    <3> HIDE DEF Good, GoodNext, Deletes
    <3> QED BY <1>1, <2>1, <2>3, <2>7
  <2>10. \A e, f \in Active' : Deletes(frame'[e]) /\ Deletes(frame'[f]) /\ frame'[e].pid = frame'[f].pid => e = f
    <3> HIDE DEF Good, GoodNext, Deletes
    <3> QED BY <1>1, <2>4, <2>7
  <2> HIDE DEF Good, GoodNext, Deletes
  <2> QED BY <1>2, <2>8, <2>9, <2>10
<1>17. ASSUME NEW d \in 1..MaxFrames, DropMove(d)
       PROVE  JobsFound'
  <2>1. /\ Stays(d, "CHLD", "delete") /\ d \in Active /\ Deletes(frame[d]) /\ ~ Deletes(frame'[d]) /\ proc' = proc
        /\ Good(frame'[d]) /\ jobs' = deletejob(jobs, frame[d].pid)
    BY <1>17 DEF DropMove, Stays, procVars
  <2>2. Listed(jobs') = Listed(jobs) \ {frame[d].pid}
    <3>1. frame[d].pid \in Pids /\ frame[d].pid \in Listed(jobs)
      BY <1>1, <1>3, <2>1
    <3> QED BY <2>1, <3>1, DeletejobEffect DEF TypeOK
  <2>3. \A e \in Active' : e \in Active /\ (e # d => frame'[e] = frame[e])
    BY <2>1 DEF Stays
  <2> HIDE DEF Good, GoodNext, Deletes
  <2>4. \A e \in Active' : GoodNext(frame'[e])
    BY <1>1, <1>4, <2>1, <2>3
  <2>5. \A e \in Active' : Deletes(frame'[e]) => frame'[e].pid \in Listed(jobs')
    BY <1>1, <2>1, <2>2, <2>3
  <2>6. \A e, f \in Active' : Deletes(frame'[e]) /\ Deletes(frame'[f]) /\ frame'[e].pid = frame'[f].pid => e = f
    BY <1>1, <2>1, <2>3
  <2> QED BY <1>2, <2>4, <2>5, <2>6
<1> HIDE DEF Good, GoodNext, Deletes
<1> QED BY <1>7, <1>8, <1>9, <1>10, <1>11, <1>13, <1>14, <1>15, <1>16, <1>17, StepCases

(***************************************************************************)
(* A mask that blocks SIGCHLD keeps its handler from being re-entered      *)
(***************************************************************************)
LEMMA NoReentryStep ==
    ASSUME IInv, PidsHeld, NoReentry, [Next]_vars
    PROVE  NoReentry'
<1> USE DEF IInv
<1> SUFFICES ASSUME \A m \in PrevAll : "CHLD" \in m PROVE NoReentry'
  BY DEF NoReentry
<1> DEFINE Gets(f) == f.sig = "CHLD" /\ f.at = "getjob"
<1>1. /\ \A d, e \in Active : frame[d].sig = "CHLD" /\ frame[e].sig = "CHLD" => e = d
      /\ \A d, e \in Active : frame[d].sig = "CHLD" /\ e > d => "CHLD" \in frame[e].saved
      /\ \A d \in Active : frame[d].sig = "CHLD" => "CHLD" \in mask
      /\ \A d \in Active : Gets(frame[d]) => frame[d].pid \in Pids /\ proc[frame[d].pid] # "reaped"
  BY DEF NoReentry, FrameLocals, ChldAt
<1>2. ASSUME \A d, e \in Active' : frame'[d].sig = "CHLD" /\ frame'[e].sig = "CHLD" => e = d,
             \A d, e \in Active' : frame'[d].sig = "CHLD" /\ e > d => "CHLD" \in frame'[e].saved,
             \A d \in Active' : frame'[d].sig = "CHLD" => "CHLD" \in mask',
             \A d \in Active' : Gets(frame'[d]) => proc'[frame'[d].pid] # "reaped"
      PROVE  NoReentry'
  BY <1>2 DEF NoReentry
<1>3. ASSUME Active' = {} PROVE NoReentry'
  BY <1>3 DEF NoReentry
<1>4. CASE StillMove
  <2>1. UNCHANGED <<frame, mask>> /\ Active' = Active
    BY <1>4 DEF StillMove, Active
  <2>2. \A d \in Active' : Gets(frame'[d]) => proc'[frame'[d].pid] # "reaped"
    BY <1>1, <1>4, <2>1 DEF StillMove, KernelMove
  <2> HIDE DEF Gets
  <2> QED BY <1>1, <1>2, <2>1, <2>2
<1>5. CASE CommandMove
  BY <1>3, <1>5 DEF CommandMove, Active
<1>6. CASE DoBgFgSetState \/ DoBgFgCont \/ EvalAddJob \/ \E p \in Pids, bg \in BOOLEAN : Eval(p, bg)
  <2>1. depth' = 0
    BY <1>6 DEF DoBgFgSetState, DoBgFgCont, EvalAddJob, Eval, MainRuns
  <2> QED BY <1>3, <2>1 DEF Active
<1>7. ASSUME NEW s \in Signals, ArriveMove(s)
      PROVE  NoReentry'
  <2> DEFINE k == depth + 1
  <2>1. /\ Active' = Active \cup {k} /\ \A e \in Active : frame'[e] = frame[e] /\ e < k
        /\ frame'[k].sig = s /\ frame'[k].saved = mask /\ frame'[k].at # "getjob"
        /\ s \notin mask /\ mask' = mask \cup {s} /\ proc' = proc
    BY <1>7 DEF ArriveMove, procVars
  <2>2. \A d \in Active : frame[d].sig = "CHLD" => s # "CHLD"
    BY <1>1, <2>1
  <2>3. Active \subseteq Int /\ k \in Int
    BY DEF Active, TypeOK
  <2> HIDE DEF k
  <2>4. \A d, e \in Active' : frame'[d].sig = "CHLD" /\ frame'[e].sig = "CHLD" => e = d
    BY <1>1, <2>1, <2>2
  <2>5. \A d, e \in Active' : frame'[d].sig = "CHLD" /\ e > d => "CHLD" \in frame'[e].saved
    BY <1>1, <2>1, <2>3
  <2>6. \A d \in Active' : frame'[d].sig = "CHLD" => "CHLD" \in mask'
    BY <1>1, <2>1
  <2>7. \A d \in Active' : Gets(frame'[d]) => proc'[frame'[d].pid] # "reaped"
    BY <1>1, <2>1
  <2> HIDE DEF Gets
  <2> QED BY <1>2, <2>4, <2>5, <2>6, <2>7
<1>8. ASSUME NEW k \in 1..MaxFrames, LeaveMove(k)
      PROVE  NoReentry'
  <2>1. /\ k \in Active /\ \A e \in Active' : e \in Active /\ frame'[e] = frame[e] /\ k > e
        /\ mask' = frame[k].saved /\ KernelMove
    <3>1. \A e \in Active' : e < k => k > e
      BY DEF Active
    <3> QED BY <1>8, <3>1 DEF LeaveMove
  <2>2. \A d \in Active' : Gets(frame'[d]) => proc'[frame'[d].pid] # "reaped"
    BY <1>1, <2>1 DEF KernelMove
  <2> HIDE DEF Gets
  <2> QED BY <1>1, <1>2, <2>1, <2>2
<1>9. ASSUME NEW k \in 1..MaxFrames, NEW sig, NEW at, Stays(k, sig, at),
             sig = "CHLD" \/ proc' = proc, mask' = mask \/ mask' \in PrevAll,
             Gets(frame'[k]) => proc'[frame'[k].pid] # "reaped"
      PROVE  NoReentry'
  <2>1. /\ Active' = Active /\ k \in Active
        /\ \A e \in Active : /\ e # k => frame'[e] = frame[e]
                             /\ frame'[e].sig = frame[e].sig /\ frame'[e].saved = frame[e].saved
        /\ frame[k].sig = sig
    BY <1>9 DEF Stays
  <2>2. \A d \in Active' : Gets(frame'[d]) => proc'[frame'[d].pid] # "reaped"
    <3>1. \A e \in Active : Gets(frame'[e]) /\ e # k => proc'[frame'[e].pid] # "reaped"
      BY <1>1, <1>9, <2>1
    <3> HIDE DEF Gets
    <3> QED BY <1>9, <2>1, <3>1
  <2>3. \A e \in Active' : frame'[e].sig = "CHLD" => "CHLD" \in mask'
    BY <1>1, <1>9, <2>1
  <2>4. \A e, f \in Active' : frame'[f].sig = "CHLD" /\ frame'[e].sig = "CHLD" => e = f
    BY <1>1, <2>1
  <2>5. \A e, f \in Active' : frame'[f].sig = "CHLD" /\ e > f => "CHLD" \in frame'[e].saved
    BY <1>1, <2>1
  <2> HIDE DEF Gets
  <2> QED BY <1>2, <2>2, <2>3, <2>4, <2>5
<1>10. ASSUME NEW k \in 1..MaxFrames, ReportMove(k)
       PROVE  NoReentry'
  <2>1. proc[frame'[k].pid] \in {"stopped", "doomed"} /\ proc' = proc
    BY <1>10 DEF ReportMove, PidsHeld
  <2> HIDE DEF Gets
  <2> QED BY <1>9, <1>10, <2>1 DEF ReportMove
<1>11. ASSUME NEW k \in 1..MaxFrames, FoundMove(k) \/ SetStMove(k) \/ FgJobMove(k) \/ DropMove(k)
       PROVE  NoReentry'
  <2>1. ~ Gets(frame'[k]) /\ proc' = proc /\ (mask' = mask \/ mask' \in PrevAll)
    BY <1>11 DEF FoundMove, SetStMove, FgJobMove, DropMove, procVars
  <2> HIDE DEF Gets
  <2> QED BY <1>9, <1>11, <2>1 DEF FoundMove, SetStMove, FgJobMove, DropMove
<1>12. ASSUME NEW k \in 1..MaxFrames, NEW sig \in Signals, FgMove(k, sig)
       PROVE  NoReentry'
  <2>1. ~ Gets(frame'[k]) /\ proc' = proc /\ mask' = mask
    BY <1>12 DEF FgMove, procVars
  <2> HIDE DEF Gets
  <2> QED BY <1>9, <1>12, <2>1 DEF FgMove
<1>13. ASSUME NEW k \in 1..MaxFrames, ReapMove(k)
       PROVE  NoReentry'
  <2>1. ~ Gets(frame'[k]) /\ mask' = mask
    BY <1>13 DEF ReapMove
  <2> HIDE DEF Gets
  <2> QED BY <1>9, <1>13, <2>1 DEF ReapMove
<1> QED BY <1>4, <1>5, <1>6, <1>7, <1>8, <1>10, <1>11, <1>12, <1>13, StepCases

(***************************************************************************)
(* The ways the shell ends, and why                                        *)
(***************************************************************************)
LEMMA EndStep ==
    ASSUME [Next]_vars
    PROVE  \/ ended' = ended
           \/ ended' \in {"quit", "fork error"}
           \/ MainRuns("bgjid") /\ pid2jid(jobs, main.pid) = 0 /\ Exit("background pid2jid error")
           \/ \E d \in 1..MaxFrames :
                 \/ FrameRuns(d, "INT", "kill") /\ frame[d].slot = NULL /\ Exit("null job")
                 \/ /\ FrameRuns(d, "CHLD", "delete") \/ FrameRuns(d, "CHLD", "getjob")
                    /\ getjobpid(jobs, frame[d].pid) = NULL
                    /\ Exit("sigchld_handler error")
<1>1. CASE UNCHANGED vars
  BY <1>1 DEF vars
<1>2. CASE NewCommand
  BY <1>2 DEF NewCommand, Eval, EvalForkFails, DoBgFg, Exit
<1>3. CASE CommandStep
  BY <1>3 DEF CommandStep, EvalAddJob, EvalBgJid, DoBgFgSetState, DoBgFgCont, WaitFg, WaitFgSuspend
<1>4. CASE Quit
  BY <1>4 DEF Quit, Exit
<1>5. CASE \E s \in Signals : Deliver(s)
  BY <1>5 DEF Deliver
<1>6. ASSUME NEW d \in 1..MaxFrames, HandlerStep(d)
      PROVE  \/ ended' = ended
             \/ FrameRuns(d, "INT", "kill") /\ frame[d].slot = NULL /\ Exit("null job")
             \/ /\ FrameRuns(d, "CHLD", "delete") \/ FrameRuns(d, "CHLD", "getjob")
                /\ getjobpid(jobs, frame[d].pid) = NULL
                /\ Exit("sigchld_handler error")
  BY <1>6 DEF HandlerStep, ChldReap, ChldStopped, ChldDelete, ChldGetJob, ChldSetSt, ChldReturn,
              FgHandlerPid, IntGetJob, IntKill, TstpKill, Return
<1>7. CASE Environment
  BY <1>7 DEF Environment
<1> QED BY <1>1, <1>2, <1>3, <1>4, <1>5, <1>6, <1>7 DEF Next

LEMMA AbortsStep ==
    ASSUME JInv, [Next]_vars
    PROVE  AbortsExplained'
<1> USE DEF JInv, IInv
<1> SUFFICES ASSUME Cardinality(Pids) <= MaxJobs PROVE AbortsExplained'
  BY DEF AbortsExplained
<1>1. CASE ~ Alive
  <2>1. UNCHANGED vars
    BY <1>1 DEF Next, NewCommand, CommandStep, Quit, Environment, HandlerStep, Eval, EvalForkFails, DoBgFg,
                EvalAddJob, EvalBgJid, DoBgFgSetState, DoBgFgCont, WaitFg, WaitFgSuspend, Deliver,
                ChldReap, ChldStopped, ChldDelete, ChldGetJob, ChldSetSt, ChldReturn, FgHandlerPid,
                IntGetJob, IntKill, TstpKill, MainRuns, FrameRuns
  <2> QED BY <2>1 DEF vars, AbortsExplained, ChldAt, Active
<1>2. CASE Alive /\ ended' \in {"no", "quit", "fork error"}
  BY <1>2 DEF AbortsExplained
<1>3. ASSUME MainRuns("bgjid"), pid2jid(jobs, main.pid) = 0, Exit("background pid2jid error")
      PROVE  AbortsExplained'
  <2>1. /\ ended' = "background pid2jid error" /\ main' = main /\ proc' = proc
        /\ Alive /\ main.at = "bgjid"
    BY <1>3 DEF Exit, MainRuns, procVars, ctlVars
  <2>2. main.pid \in Pids /\ proc[main.pid] # "none"
    BY <2>1 DEF PidsHeld
  <2>3. main.pid \notin Listed(jobs)
    <3> DEFINE k == getjobpid(jobs, main.pid)
    <3>1. ASSUME main.pid \in Listed(jobs) PROVE FALSE
      <4>1. k # NULL /\ k \in Slots /\ jobs[k].pid = main.pid
        BY <2>2, <3>1, GetjobpidFinds DEF TypeOK
      <4>2. jobs[k].jid > 0
        BY <2>2, <4>1, NoPidAssumption DEF JidsPositive
      <4>3. pid2jid(jobs, main.pid) = jobs[k].jid
        BY <4>1 DEF pid2jid
      <4>4. pid2jid(jobs, main.pid) = 0
        BY <1>3
      <4>5. jobs[k].jid = 0
        BY <4>3, <4>4
      <4> QED BY <4>2, <4>5
    <3> QED BY <3>1
  <2>4. proc[main.pid] = "reaped"
    BY <2>1, <2>2, <2>3 DEF NoLostJob
  <2> QED BY <2>1, <2>4 DEF AbortsExplained
<1>4. ASSUME NEW d \in 1..MaxFrames, FrameRuns(d, "INT", "kill"), frame[d].slot = NULL, Exit("null job")
      PROVE  AbortsExplained'
  <2>0. depth = d /\ d \in Active
    <3>1. depth = d
      BY <1>4 DEF FrameRuns
    <3> QED BY <3>1 DEF Active
  <2>1. ended' = "null job" /\ depth' = d /\ frame' = frame /\ proc' = proc /\ d \in Active
    BY <1>4, <2>0 DEF Exit, procVars, ctlVars
  <2>2. proc[frame[d].pid] = "reaped"
    BY <1>4, <2>1 DEF JobsFound, FrameRuns
  <2> QED BY <2>1, <2>2 DEF AbortsExplained
<1>5. ASSUME NEW d \in 1..MaxFrames, FrameRuns(d, "CHLD", "delete") \/ FrameRuns(d, "CHLD", "getjob"),
             getjobpid(jobs, frame[d].pid) = NULL, Exit("sigchld_handler error")
      PROVE  AbortsExplained'
  <2>0. depth = d /\ d \in Active /\ Alive /\ frame[d].sig = "CHLD"
    <3>1. depth = d /\ Alive /\ frame[d].sig = "CHLD"
      BY <1>5 DEF FrameRuns
    <3> QED BY <3>1 DEF Active
  <2>1. /\ ended' = "sigchld_handler error" /\ depth' = d /\ frame' = frame /\ proc' = proc
        /\ d \in Active /\ Active' = Active /\ Alive /\ frame[d].sig = "CHLD"
    BY <1>5, <2>0 DEF Exit, procVars, ctlVars, Active
  <2>2. frame[d].pid \in Pids
    BY <1>5, <2>1 DEF FrameRuns, FrameLocals, ChldAt
  <2>3. frame[d].pid \notin Listed(jobs)
    BY <1>5, <2>2, GetjobpidFinds DEF TypeOK
  <2>4. ChldAt(d, "getjob")
    BY <1>5, <2>1, <2>3 DEF FrameRuns, JobsFound, ChldAt
  <2>5. proc[frame[d].pid] = "reaped"
    <3>1. proc[frame[d].pid] # "none" /\ main.at # "add"
      BY <2>1, <2>4 DEF PidsHeld, NoChldWhileAdding, ChldAt
    <3> QED BY <2>1, <2>2, <2>3, <3>1 DEF NoLostJob
  <2>6. \E m \in PrevAll : "CHLD" \notin m
    BY <2>1, <2>4, <2>5 DEF NoReentry, ChldAt
  <2> QED BY <2>1, <2>4, <2>5, <2>6 DEF AbortsExplained, ChldAt
<1> QED BY <1>1, <1>2, <1>3, <1>4, <1>5, EndStep DEF Alive

(***************************************************************************)
(* The strengthened invariant                                              *)
(***************************************************************************)
LEMMA InitJInv == Init => JInv
<1> SUFFICES ASSUME Init PROVE JInv
  OBVIOUS
<1>1. IInv
  BY InitIInv
<1>2. Active = {} /\ main.at = "read" /\ ended = "no" /\ nextjid = 1 /\ unreported = {}
      /\ proc = [p \in Pids |-> "none"] /\ jobs = initjobs
  BY DEF Init, Active, Idle
<1>3. \A i \in Slots : jobs[i].pid = NoPid
  BY <1>2 DEF initjobs, clearjob
<1> QED BY <1>1, <1>2, <1>3, NoPidAssumption
        DEF JInv, NoLostJob, StoppedJobIsST, StopsRemembered, JidsPositive, PidsHeld, JobsFound, NoReentry,
            AbortsExplained, ChldAt

LEMMA NextJInv == JInv /\ [Next]_vars => JInv'
<1> SUFFICES ASSUME JInv, [Next]_vars PROVE JInv'
  OBVIOUS
<1>1. IInv'
  BY NextIInv DEF JInv
<1>2. NoLostJob'
  BY LostStep DEF JInv, JidsPositive
<1>3. StoppedJobIsST' /\ StopsRemembered'
  BY StoppedStep, StopsStep DEF JInv
<1>4. JidsPositive' /\ PidsHeld' /\ JobsFound' /\ NoReentry'
  BY JidsStep, PidsHeldStep, JobsFoundStep, NoReentryStep DEF JInv
<1>5. AbortsExplained'
  BY AbortsStep
<1> QED BY <1>1, <1>2, <1>3, <1>4, <1>5 DEF JInv

THEOREM JobsInvariance == Spec => []JInv
BY InitJInv, NextJInv, PTL DEF Spec

(***************************************************************************)
(* With a slot for every child, addjob and deletejob lose no job, however  *)
(* the handlers that run them interrupt the main loop and one another.     *)
(***************************************************************************)
THEOREM NoJobLost == Spec => []NoLostJob
<1>1. JInv => NoLostJob
  BY DEF JInv
<1> QED BY <1>1, JobsInvariance, PTL

(***************************************************************************)
(* A child whose stop waitpid has returned is listed as stopped, or the    *)
(* code that will change its state is running.                             *)
(***************************************************************************)
THEOREM StoppedJobsAreST == Spec => []StoppedJobIsST
<1>1. JInv => StoppedJobIsST
  BY DEF JInv
<1> QED BY <1>1, JobsInvariance, PTL

(***************************************************************************)
(* With a slot for every child, the shell ends with an internal error only *)
(* when the child it looks up was reaped behind its back; the SIGCHLD      *)
(* handler does so only if the uninitialized mask lets it be re-entered.   *)
(***************************************************************************)
THEOREM AbortsAreExplained == Spec => []AbortsExplained
<1>1. JInv => AbortsExplained
  BY DEF JInv
<1> QED BY <1>1, JobsInvariance, PTL
=============================================================================
