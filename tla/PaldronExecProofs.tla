-------------------------- MODULE PaldronExecProofs --------------------------
(***************************************************************************)
(* Safety of a sandbox run and of `paldron exec` around it, for every      *)
(* number of processes and files and both builds: the run's outcome tells  *)
(* what happened, exit 0 is earned, and runExec keeps its contract.        *)
(*                                                                         *)
(* The argument about the run has two halves.  Whatever the tree does, and *)
(* whatever paldron does to it apart from starting the leader, some facts  *)
(* are stable: nobody left holding the pipes, nobody left in the group,    *)
(* nobody left at all, a leader that was reaped (TreeSettles).  The        *)
(* control state of the three goroutines then only has to remember which   *)
(* of these facts held when it moved on (RunInv).                          *)
(*                                                                         *)
(* A step of runExec, of the sandbox or of the command is a step of        *)
(* CommandRun or leaves it alone, so RunInv carries over.  On top of it    *)
(* the stage of runExec remembers what the stages before it established.   *)
(***************************************************************************)
EXTENDS PaldronExec, TLAPS

-----------------------------------------------------------------------------
(* The process tree.                                                       *)

(* A process that does not exist is in no group, holds no pipe and has no  *)
(* status, and nothing exists before the leader.                           *)
TreeInv ==
  /\ \A p \in Procs : proc[p] = "none" => p \notin holds /\ p \notin group
  /\ ~Started => /\ status = "none"
                 /\ \A p \in Procs : proc[p] = "none"

(* What every step but the start of the leader preserves.                  *)
TreeSettles ==
  /\ TreeTypeOK'
  /\ TreeInv'
  /\ platform' = platform
  /\ Started' <=> Started
  /\ Running = {} => Running' = {}
  /\ Holders = {} => Holders' = {}
  /\ Members = {} => Members' = {}
  /\ proc[Leader] \in {"none", "gone"} => proc'[Leader] = proc[Leader] /\ status' = status

(* Signals, exits and forks cannot bring back what is gone: once the       *)
(* leader exists, no step of the kernel or of paldron gives an empty group *)
(* or an abandoned pipe a new process.                                     *)
LEMMA StutterSettles ==
  ASSUME TreeTypeOK, TreeInv, UNCHANGED treeVars
  PROVE  TreeSettles
  BY DEF TreeTypeOK, TreeInv, treeVars, TreeSettles, Started, Running, Holders, Members

(* Killing some of the running processes settles the tree: it starts none. *)
LEMMA DieSettles ==
  ASSUME TreeTypeOK, TreeInv, NEW S \in SUBSET Running, Die(S),
         stranger' \in {"none", "present", "killed"}
  PROVE  TreeSettles
  BY TreeAssumption
  DEF TreeTypeOK, TreeInv, Die, TreeSettles, Started, Running, Holders, Members

(* So does the kill of the tree (cancelProcessTree, killProcessTree),      *)
LEMMA KillTreeSettles ==
  ASSUME TreeTypeOK, TreeInv, KillTree
  PROVE  TreeSettles
<1>1. Targets \in SUBSET Running
  BY DEF Targets, Members, Running
<1>2. stranger' \in {"none", "present", "killed"}
  BY DEF KillTree, TreeTypeOK
<1> QED
  BY <1>1, <1>2, DieSettles DEF KillTree

(* the kill of the leader by its handle (os.Process.Kill),                 *)
LEMMA KillLeaderSettles ==
  ASSUME TreeTypeOK, TreeInv, KillLeader
  PROVE  TreeSettles
<1>1. stranger' \in {"none", "present", "killed"}
  BY DEF KillLeader, TreeTypeOK
<1> QED
  BY <1>1, DieSettles DEF KillLeader

(* os.Process.Wait, which reaps the leader,                                *)
LEMMA ReapSettles ==
  ASSUME TreeTypeOK, TreeInv, ReapLeader
  PROVE  TreeSettles
  BY TreeAssumption
  DEF TreeTypeOK, TreeInv, ReapLeader, TreeSettles, Started, Running, Holders, Members

(* and whatever the processes of the command do by themselves.             *)
LEMMA TreeStepSettles ==
  ASSUME TreeTypeOK, TreeInv, TreeStep
  PROVE  TreeSettles
<1> USE TreeAssumption
    DEF TreeTypeOK, TreeInv, TreeSettles, Started, Running, Holders, Members
<1>1. ASSUME NEW p \in Procs, NEW q \in Procs, Fork(p, q)
      PROVE  TreeSettles
  BY <1>1 DEF Fork
<1>2. ASSUME NEW p \in Procs, Detach(p)
      PROVE  TreeSettles
  BY <1>2 DEF Detach
<1>3. ASSUME NEW p \in Procs, Release(p)
      PROVE  TreeSettles
  BY <1>3 DEF Release
<1>4. ASSUME NEW p \in Procs, Exit(p)
      PROVE  TreeSettles
  BY <1>4 DEF Exit
<1>5. CASE Recycle
  BY <1>5 DEF Recycle
<1> QED
  BY <1>1, <1>2, <1>3, <1>4, <1>5 DEF TreeStep

(* On Unix the kill of the tree empties the group.                         *)
LEMMA KillTreeEmptiesGroup ==
  ASSUME TreeTypeOK, platform = "unix", KillTree
  PROVE  Members' = {}
  BY DEF TreeTypeOK, KillTree, Die, Targets, Members, Running

-----------------------------------------------------------------------------
(* The three goroutines.                                                   *)

BeforeStart == {"idle", "start"}
AfterReap   == {"handoff", "drain", "closing", "collect", "sweep", "cleanup", "done"}
AfterRun    == {"collect", "sweep", "cleanup", "done"}

(* The main goroutine: the leader exists from Start to Wait, and an error  *)
(* that is still absent after Wait means exit status 0.                    *)
MainInv ==
  /\ run \in BeforeStart => ~Started
  /\ run \in AfterReap => proc[Leader] \in {"none", "gone"}
  /\ run \in {"handoff", "drain", "closing", "collect"} /\ err = "none" => status = "ok"
  /\ outcome # "none" => run \in {"sweep", "cleanup", "done"}
  /\ run = "idle" => ~expired

(* The watcher acts only after the deadline, and not at all once Wait has  *)
(* taken its result.                                                       *)
WatchInv ==
  /\ run \in BeforeStart => watcher = "off"
  /\ run \in AfterRun \cup {"drain", "closing"} => watcher \in {"off", "done"}
  /\ watcher = "off" => watchErr = "none"
  /\ watcher \in {"delay", "closing", "closed"} \/ watchErr # "none" => expired

(* The pipes are cut early only after the deadline or with an error, so    *)
(* copiers that ended without either have seen the last writer go and have *)
(* taken what it wrote.                                                    *)
PipeInv ==
  /\ copying /\ ~pipes => expired \/ err # "none"
  /\ ~copying => Drained \/ expired \/ err # "none"
  /\ run \in BeforeStart \cup AfterRun => ~copying

HomeInv ==
  /\ run = "idle" => home = "none"
  /\ home \in {"removed", "left"} => run = "done"

RunInv ==
  /\ TypeOK
  /\ TreeInv
  /\ MainInv
  /\ WatchInv
  /\ PipeInv
  /\ HomeInv
  /\ SuccessIsComplete
  /\ OutputIsCapped
  /\ TimeoutKillsGroup
  /\ KillMeansTimeout
  /\ HomeForTheRun

(* The invariant holds before executeParts has done anything.              *)
LEMMA RunInvInit == Init => RunInv
<1> SUFFICES ASSUME Init
             PROVE  RunInv
  OBVIOUS
<1>0. kept = 0 /\ truncated = FALSE /\ written = 0 /\ copied = 0
  BY DEF Init, BufferInit
<1>1. OutputIsCapped
  BY <1>0, LimitAssumption DEF OutputIsCapped, CapsAt, Smaller
<1>2. DataTypeOK /\ copied = written
  <2>1. kept \in Nat /\ written \in Nat /\ copied \in 0..written /\ copied = written
    BY <1>0
  <2>2. truncated \in BOOLEAN
    BY <1>0
  <2> QED
    BY <2>1, <2>2 DEF DataTypeOK, BufferTypeOK
<1>3. TreeTypeOK /\ TreeInv /\ ~Started /\ Running = {} /\ Holders = {}
  BY TreeAssumption DEF Init, TreeInit, TreeTypeOK, TreeInv, Started, Running, Holders
<1>4. TypeOK
  BY <1>2, <1>3 DEF Init, TypeOK, ControlTypeOK
<1>5. MainInv /\ WatchInv /\ HomeInv
  BY <1>3 DEF Init, MainInv, WatchInv, HomeInv, BeforeStart, AfterReap, AfterRun
<1>6. PipeInv
  BY <1>2, <1>3 DEF Init, PipeInv, Drained, BeforeStart, AfterRun
<1>7. SuccessIsComplete /\ TimeoutKillsGroup /\ KillMeansTimeout /\ HomeForTheRun
  BY DEF Init, SuccessIsComplete, TimeoutKillsGroup, KillMeansTimeout, HomeForTheRun
<1> QED
  BY <1>1, <1>3, <1>4, <1>5, <1>6, <1>7 DEF RunInv

(* A write to the buffer keeps what its invariant says, for every chunk.   *)
LEMMA WriteCaps ==
  ASSUME BufferTypeOK, NEW total \in Nat, CapsAt(total), NEW n \in Nat, n # 0, Write(n)
  PROVE  /\ BufferTypeOK'
         /\ kept' = Smaller(total + n, Limit)
         /\ truncated' <=> total + n > Limit
<1>1. truncated' = (truncated \/ n > Limit - kept) /\ kept' = kept + Smaller(n, Limit - kept)
  BY DEF Write
<1>2. kept = Smaller(total, Limit) /\ (truncated <=> total > Limit) /\ kept \in Nat
  BY DEF CapsAt, BufferTypeOK
<1>3. kept' = Smaller(total + n, Limit) /\ kept' \in Nat
  BY <1>1, <1>2, LimitAssumption DEF Smaller
<1>4. n > Limit - kept <=> total + n > Limit \/ total > Limit
  BY <1>2, LimitAssumption DEF Smaller
<1>5. truncated' <=> total + n > Limit
  <2>1. truncated' <=> truncated \/ n > Limit - kept
    BY <1>1
  <2> QED
    BY <2>1, <1>2, <1>4, LimitAssumption
<1>6. truncated' \in BOOLEAN
  BY <1>1
<1> QED
  BY <1>3, <1>5, <1>6 DEF BufferTypeOK

(* What every step preserves of the output.                                *)
DataSettles ==
  /\ DataTypeOK'
  /\ OutputIsCapped'
  /\ Drained => Drained'

(* A step that moves no bytes and brings no holder back keeps it,          *)
LEMMA StillDataSettles ==
  ASSUME DataTypeOK, OutputIsCapped, TreeSettles, UNCHANGED dataVars
  PROVE  DataSettles
<1>1. DataTypeOK' /\ (Drained => Drained')
  BY DEF DataTypeOK, BufferTypeOK, Drained, TreeSettles, dataVars, bufferVars
<1>2. OutputIsCapped'
  BY DEF OutputIsCapped, CapsAt, dataVars, bufferVars
<1> QED
  BY <1>1, <1>2 DEF DataSettles

(* so does a copier that moves a chunk into the buffer (Write),            *)
LEMMA CopySettles ==
  ASSUME DataTypeOK, OutputIsCapped, NEW n \in 1..MaxBytes, Copy(n)
  PROVE  DataSettles
<1>1. n \in Nat /\ n # 0 /\ copied \in Nat /\ written \in Nat
  BY BytesAssumption DEF DataTypeOK
<1>2. /\ BufferTypeOK'
      /\ kept' = Smaller(copied + n, Limit)
      /\ truncated' <=> copied + n > Limit
  BY <1>1, WriteCaps DEF Copy, DataTypeOK, OutputIsCapped
<1>3. OutputIsCapped'
  BY <1>2 DEF Copy, OutputIsCapped, CapsAt
<1>4. DataTypeOK' /\ ~Drained
  BY <1>1, <1>2 DEF Copy, DataTypeOK, Drained
<1> QED
  BY <1>3, <1>4 DEF DataSettles

(* and a process that writes to the pipe.                                  *)
LEMMA OutputSettles ==
  ASSUME DataTypeOK, OutputIsCapped, NEW n \in 1..MaxBytes, Output(n)
  PROVE  DataSettles
<1>1. DataTypeOK' /\ ~Drained
  BY BytesAssumption DEF Output, DataTypeOK, BufferTypeOK, bufferVars, Drained
<1>2. OutputIsCapped'
  BY DEF Output, OutputIsCapped, CapsAt, bufferVars
<1> QED
  BY <1>1, <1>2 DEF DataSettles

(* One step per action.  All but the start of the leader settle the tree,  *)
(* which is all that is needed to know about it.                           *)
LEMMA RunInvNext == RunInv /\ [Next]_vars => RunInv'
<1> SUFFICES ASSUME RunInv, [Next]_vars
             PROVE  RunInv'
  OBVIOUS
<1>a. TypeOK /\ TreeTypeOK /\ DataTypeOK /\ ControlTypeOK /\ TreeInv
  BY DEF RunInv, TypeOK
<1> DEFINE Rest == /\ MainInv' /\ WatchInv' /\ PipeInv' /\ HomeInv'
                   /\ SuccessIsComplete' /\ TimeoutKillsGroup'
                   /\ KillMeansTimeout' /\ HomeForTheRun'
           Control == ControlTypeOK' /\ Rest
<1>b. ASSUME TreeSettles, UNCHANGED dataVars
      PROVE  TreeSettles /\ DataSettles
  BY <1>a, <1>b, StillDataSettles DEF RunInv
<1>b1. ASSUME UNCHANGED treeVars, UNCHANGED dataVars
       PROVE  TreeSettles /\ DataSettles
  BY <1>a, <1>b, <1>b1, StutterSettles
<1>c. ASSUME TreeSettles, DataSettles, Control
      PROVE  RunInv'
  BY <1>c DEF RunInv, TypeOK, TreeSettles, DataSettles
<1> USE <1>a
    DEF ControlTypeOK, DataSettles, MainInv, WatchInv, PipeInv, HomeInv,
        SuccessIsComplete, TimeoutKillsGroup, KillMeansTimeout, HomeForTheRun,
        BeforeStart, AfterReap, AfterRun
<1>1. CASE Launch
  <2>1. TreeSettles /\ DataSettles
    BY <1>1, <1>b1 DEF Launch, Prepare
  <2> QED
    BY <1>1, <1>c, <2>1 DEF Launch, Prepare, watchVars, ioVars, RunInv, TreeSettles, Started
<1>2. CASE Refuse
  <2>1. TreeSettles /\ DataSettles
    BY <1>2, <1>b1 DEF Refuse
  <2> QED
    BY <1>2, <1>c, <2>1 DEF Refuse, watchVars, ioVars, RunInv, TreeSettles, Started
<1>3. CASE RefuseWithHome
  <2>1. TreeSettles /\ DataSettles
    BY <1>3, <1>b1 DEF RefuseWithHome
  <2> QED
    BY <1>3, <1>c, <2>1 DEF RefuseWithHome, watchVars, ioVars, RunInv, TreeSettles, Started
<1>4. CASE StartFailed
  <2>1. TreeSettles /\ DataSettles
    BY <1>4, <1>b1 DEF StartFailed
  <2> QED
    BY <1>4, <1>c, <2>1 DEF StartFailed, watchVars, ioVars, RunInv, TreeSettles, Started
<1>5. CASE StartCommand
  <2>1. TreeTypeOK' /\ TreeInv' /\ Started'
    BY <1>5, TreeAssumption DEF StartCommand, Spawn, RunInv, TreeTypeOK, TreeInv, Started
  <2>2. DataTypeOK' /\ OutputIsCapped'
    BY <1>5 DEF StartCommand, dataVars, bufferVars, RunInv, DataTypeOK, BufferTypeOK,
                OutputIsCapped, CapsAt
  <2> QED
    BY <1>5, <2>1, <2>2 DEF StartCommand, RunInv, TypeOK
<1>6. CASE Reap
  <2>1. TreeSettles /\ DataSettles /\ proc'[Leader] = "gone"
    BY <1>6, <1>b, ReapSettles, TreeAssumption DEF Reap, ReapLeader, TreeTypeOK
  <2>2. status' = status
    BY <1>6 DEF Reap, ReapLeader
  <2> QED
    BY <1>6, <1>c, <2>1, <2>2
    DEF Reap, watchVars, ioVars, RunInv, TreeSettles, Started, Running
<1>7. CASE Handoff
  <2>1. TreeSettles /\ DataSettles
    BY <1>7, <1>b1 DEF Handoff
  <2>2. ControlTypeOK'
    <3>1. run' = "drain" /\ watcher' = "done"
      BY <1>7 DEF Handoff
    <3>2. err' \in {err, watchErr} /\ timer' \in {timer, "off"}
      BY <1>7 DEF Handoff
    <3>3. UNCHANGED <<outcome, watchErr, copying, pipes, expired, home>>
      BY <1>7 DEF Handoff
    <3> QED
      BY <3>1, <3>2, <3>3
  <2>3. MainInv'
    BY <1>7, <2>1 DEF Handoff, RunInv, TreeSettles, Started
  <2>4. WatchInv'
    BY <1>7, <2>1 DEF Handoff, RunInv, TreeSettles, Started
  <2>5. PipeInv'
    BY <1>7, <2>1 DEF Handoff, RunInv, TreeSettles, Started
  <2>6. HomeInv' /\ HomeForTheRun'
    BY <1>7, <2>1 DEF Handoff, RunInv, TreeSettles, Started
  <2>7. SuccessIsComplete' /\ TimeoutKillsGroup' /\ KillMeansTimeout'
    BY <1>7, <2>1 DEF Handoff, RunInv, TreeSettles, Started
  <2> QED
    BY <1>c, <2>1, <2>2, <2>3, <2>4, <2>5, <2>6, <2>7
<1>8. CASE DrainArm
  <2>1. TreeSettles /\ DataSettles
    BY <1>8, <1>b1 DEF DrainArm
  <2> QED
    BY <1>8, <1>c, <2>1 DEF DrainArm, mainVars, watchVars, RunInv, TreeSettles
<1>9. CASE DrainDone
  <2>1. TreeSettles /\ DataSettles
    BY <1>9, <1>b1 DEF DrainDone
  <2>2. ControlTypeOK'
    <3>1. run' = "collect" /\ timer' = "off" /\ pipes' \in BOOLEAN
      BY <1>9 DEF DrainDone
    <3>2. UNCHANGED <<err, outcome, watcher, watchErr, copying, expired, home>>
      BY <1>9 DEF DrainDone, watchVars
    <3> QED
      BY <3>1, <3>2
  <2>3. MainInv'
    BY <1>9, <2>1 DEF DrainDone, watchVars, RunInv, TreeSettles, Started
  <2>4. WatchInv'
    BY <1>9, <2>1 DEF DrainDone, watchVars, RunInv, TreeSettles, Started
  <2>5. PipeInv'
    BY <1>9, <2>1 DEF DrainDone, watchVars, RunInv, TreeSettles, Started
  <2>6. HomeInv' /\ HomeForTheRun'
    BY <1>9, <2>1 DEF DrainDone, watchVars, RunInv, TreeSettles, Started
  <2>7. SuccessIsComplete' /\ TimeoutKillsGroup' /\ KillMeansTimeout'
    BY <1>9, <2>1 DEF DrainDone, watchVars, RunInv, TreeSettles, Started
  <2> QED
    BY <1>c, <2>1, <2>2, <2>3, <2>4, <2>5, <2>6, <2>7
<1>10. CASE DrainOverrun
  <2>1. TreeSettles /\ DataSettles
    BY <1>10, <1>b1 DEF DrainOverrun
  <2>2. ControlTypeOK'
    <3>1. run' = "closing" /\ pipes' \in BOOLEAN /\ err' \in {"delay", err}
      BY <1>10 DEF DrainOverrun
    <3>2. UNCHANGED <<outcome, watcher, watchErr, timer, copying, expired, home>>
      BY <1>10 DEF DrainOverrun, watchVars
    <3> QED
      BY <3>1, <3>2
  <2>3. MainInv'
    BY <1>10, <2>1 DEF DrainOverrun, watchVars, RunInv, TreeSettles, Started
  <2>4. WatchInv'
    BY <1>10, <2>1 DEF DrainOverrun, watchVars, RunInv, TreeSettles, Started
  <2>5. PipeInv'
    BY <1>10, <2>1 DEF DrainOverrun, watchVars, RunInv, TreeSettles, Started
  <2>6. HomeInv' /\ HomeForTheRun'
    BY <1>10, <2>1 DEF DrainOverrun, watchVars, RunInv, TreeSettles, Started
  <2>7. SuccessIsComplete' /\ TimeoutKillsGroup' /\ KillMeansTimeout'
    BY <1>10, <2>1 DEF DrainOverrun, watchVars, RunInv, TreeSettles, Started
  <2> QED
    BY <1>c, <2>1, <2>2, <2>3, <2>4, <2>5, <2>6, <2>7
<1>11. CASE Collect
  <2>1. TreeSettles /\ DataSettles
    BY <1>11, <1>b1 DEF Collect
  <2> QED
    BY <1>11, <1>c, <2>1 DEF Collect, watchVars, ioVars, RunInv, TreeSettles
<1>12. CASE Sweep
  <2>1. TreeSettles /\ DataSettles
    BY <1>12, <1>b, <1>b1, KillTreeSettles DEF Sweep
  <2>2. platform = "unix" => Members' = {}
    <3>1. CASE Started
      BY <1>12, <3>1, KillTreeEmptiesGroup DEF Sweep
    <3>2. CASE ~Started
      BY <1>12, <3>2, <2>1 DEF Sweep, TreeInv, TreeSettles, Members, Running
    <3> QED
      BY <3>1, <3>2
  <2> QED
    BY <1>12, <1>c, <2>1, <2>2 DEF Sweep, watchVars, ioVars, RunInv, TreeSettles
<1>13. CASE Cleanup
  <2>1. TreeSettles /\ DataSettles
    BY <1>13, <1>b1 DEF Cleanup
  <2> QED
    BY <1>13, <1>c, <2>1 DEF Cleanup, watchVars, ioVars, RunInv, TreeSettles, Running
<1>14. CASE WatchCancel
  <2>1. TreeSettles /\ DataSettles
    BY <1>14, <1>b, KillTreeSettles DEF WatchCancel
  <2> QED
    BY <1>14, <1>c, <2>1 DEF WatchCancel, mainVars, RunInv, TreeSettles, Running
<1>15. CASE WatchOverrun
  <2>1. TreeSettles /\ DataSettles
    BY <1>15, <1>b, KillLeaderSettles DEF WatchOverrun
  <2>2. ControlTypeOK'
    <3>1. watcher' \in {"closing", "closed"} /\ watchErr' \in {"delay", watchErr}
      BY <1>15 DEF WatchOverrun
    <3>2. pipes' \in BOOLEAN
      BY <1>15 DEF WatchOverrun
    <3>3. UNCHANGED <<run, err, outcome, timer, copying, expired, home>>
      BY <1>15 DEF WatchOverrun, mainVars
    <3> QED
      BY <3>1, <3>2, <3>3
  <2>3. MainInv'
    BY <1>15, <2>1 DEF WatchOverrun, mainVars, RunInv, TreeSettles, Started
  <2>4. WatchInv'
    BY <1>15, <2>1 DEF WatchOverrun, mainVars, RunInv, TreeSettles, Started
  <2>5. PipeInv'
    BY <1>15, <2>1 DEF WatchOverrun, mainVars, RunInv, TreeSettles, Started
  <2>6. HomeInv' /\ HomeForTheRun'
    BY <1>15, <2>1 DEF WatchOverrun, mainVars, RunInv, TreeSettles, Started
  <2>7. SuccessIsComplete' /\ TimeoutKillsGroup' /\ KillMeansTimeout'
    BY <1>15, <2>1 DEF WatchOverrun, mainVars, RunInv, TreeSettles, Started
  <2> QED
    BY <1>c, <2>1, <2>2, <2>3, <2>4, <2>5, <2>6, <2>7
<1>16. CASE WatchClosed
  <2>1. TreeSettles /\ DataSettles
    BY <1>16, <1>b1 DEF WatchClosed
  <2> QED
    BY <1>16, <1>c, <2>1 DEF WatchClosed, mainVars, ioVars, RunInv, TreeSettles, Running
<1>17. CASE CopyEnd
  <2>1. TreeSettles /\ DataSettles
    BY <1>17, <1>b1 DEF CopyEnd
  <2>2. ControlTypeOK'
    <3>1. copying' \in BOOLEAN
      BY <1>17 DEF CopyEnd
    <3>2. UNCHANGED <<run, err, outcome, watcher, watchErr, timer, pipes, expired, home>>
      BY <1>17 DEF CopyEnd, mainVars, watchVars
    <3> QED
      BY <3>1, <3>2
  <2>3. MainInv'
    BY <1>17, <2>1 DEF CopyEnd, mainVars, watchVars, RunInv, TreeSettles, Started
  <2>4. WatchInv'
    BY <1>17, <2>1 DEF CopyEnd, mainVars, watchVars, RunInv, TreeSettles, Started
  <2>5. PipeInv'
    BY <1>17, <2>1 DEF CopyEnd, mainVars, watchVars, RunInv, TreeSettles, Started
  <2>6. HomeInv' /\ HomeForTheRun'
    BY <1>17, <2>1 DEF CopyEnd, mainVars, watchVars, RunInv, TreeSettles, Started
  <2>7. SuccessIsComplete' /\ TimeoutKillsGroup' /\ KillMeansTimeout'
    BY <1>17, <2>1 DEF CopyEnd, mainVars, watchVars, RunInv, TreeSettles, Started
  <2> QED
    BY <1>c, <2>1, <2>2, <2>3, <2>4, <2>5, <2>6, <2>7
<1>17a. ASSUME NEW n \in 1..MaxBytes, Copy(n)
        PROVE  RunInv'
  <2>1. TreeSettles /\ DataSettles
    BY <1>17a, StutterSettles, CopySettles DEF Copy, RunInv
  <2> QED
    BY <1>17a, <1>c, <2>1
    DEF Copy, mainVars, watchVars, ioVars, RunInv, TreeSettles, Running
<1>18. CASE TimerFire
  <2>1. TreeSettles /\ DataSettles
    BY <1>18, <1>b1 DEF TimerFire
  <2> QED
    BY <1>18, <1>c, <2>1 DEF TimerFire, mainVars, watchVars, RunInv, TreeSettles, Running
<1>19. CASE Deadline
  <2>1. TreeSettles /\ DataSettles
    BY <1>19, <1>b1 DEF Deadline
  <2> QED
    BY <1>19, <1>c, <2>1 DEF Deadline, mainVars, watchVars, ioVars, RunInv, TreeSettles, Running
<1>20. CASE ProcessStep
  <2>1. TreeSettles /\ DataSettles
    <3>1. CASE TreeStep /\ UNCHANGED dataVars
      BY <3>1, <1>b, TreeStepSettles
    <3>2. ASSUME NEW n \in 1..MaxBytes, Output(n)
          PROVE  TreeSettles /\ DataSettles
      BY <3>2, StutterSettles, OutputSettles DEF Output, RunInv
    <3> QED
      BY <1>20, <3>1, <3>2 DEF ProcessStep
  <2> QED
    BY <1>20, <1>c, <2>1
    DEF ProcessStep, mainVars, watchVars, ioVars, RunInv, TreeSettles, Running
<1>21. CASE UNCHANGED vars
  <2>1. TreeSettles /\ DataSettles
    BY <1>21, <1>b1 DEF vars
  <2> QED
    BY <1>21, <1>c, <2>1 DEF vars, mainVars, watchVars, ioVars, RunInv, TreeSettles, Running
<1> QED
  BY <1>1, <1>2, <1>3, <1>4, <1>5, <1>6, <1>7, <1>8, <1>9, <1>10, <1>11, <1>12, <1>13,
     <1>14, <1>15, <1>16, <1>17, <1>17a, <1>18, <1>19, <1>20, <1>21
  DEF Next, RunStep, MainStep, WatchStep, CopyStep, Returned

(* Every state of a run satisfies the invariant above.                     *)
THEOREM RunInvariant == Spec => []RunInv
  BY RunInvInit, RunInvNext, PTL DEF Spec

(* The state of executeParts, os/exec and the process tree is well-typed.  *)
THEOREM TypeCorrect == Spec => []TypeOK
<1>1. RunInv => TypeOK
  BY DEF RunInv
<1> QED
  BY <1>1, RunInvariant, PTL

(* An error-free result of executeParts stands for a command that exited   *)
(* with status 0 and whose output was read to its end, however many        *)
(* descendants it had and whatever they did with the pipes.                *)
THEOREM SuccessComplete == Spec => []SuccessIsComplete
<1>1. RunInv => SuccessIsComplete
  BY DEF RunInv
<1> QED
  BY <1>1, RunInvariant, PTL

(* The captured output is what its cap leaves of the copied bytes, for     *)
(* every limit and every split into chunks, and marked if it is cut.       *)
THEOREM OutputCapped == Spec => []OutputIsCapped
<1>1. RunInv => OutputIsCapped
  BY DEF RunInv
<1> QED
  BY <1>1, RunInvariant, PTL

(* After a timeout no process of the command's group is left on Unix, in   *)
(* whatever order deadline, exit, Wait and the two kills happened.         *)
THEOREM TimeoutLeavesNoMember == Spec => []TimeoutKillsGroup
<1>1. RunInv => TimeoutKillsGroup
  BY DEF RunInv
<1> QED
  BY <1>1, RunInvariant, PTL

(* What cmd.Cancel did is never reported as the command's own doing.       *)
THEOREM CancelIsReported == Spec => []KillMeansTimeout
<1>1. RunInv => KillMeansTimeout
  BY DEF RunInv
<1> QED
  BY <1>1, RunInvariant, PTL

(* The ephemeral home is there while the leader runs and its removal was   *)
(* tried when the result is returned.                                      *)
THEOREM HomeLifetime == Spec => []HomeForTheRun
<1>1. RunInv => HomeForTheRun
  BY DEF RunInv
<1> QED
  BY <1>1, RunInvariant, PTL

-----------------------------------------------------------------------------
(* Nobody waits in vain.                                                   *)

(* Whatever the main goroutine waits for, there is somebody to bring it    *)
(* about without the command's help: for the leader to end, the deadline   *)
(* and the watcher's kill, or the timer and the kill by handle; for the    *)
(* watcher's result, the watcher, who waits for copiers only with their    *)
(* pipes cut; and so for the copiers, whom otherwise the timer cuts off.   *)
NobodyWaitsInVain ==
  /\ run = "wait" => \/ proc[Leader] = "zombie"
                     \/ watcher = "select"
                     \/ watcher = "delay" /\ timer \in {"armed", "fired"}
  /\ run = "handoff" => \/ watcher \in {"select", "delay", "closed"}
                        \/ watcher = "closing" /\ (copying => ~pipes)
  /\ run = "closing" => (copying => ~pipes)

(* What the watcher has done when it is where it is.                       *)
WaitInv ==
  /\ run = "wait" => proc[Leader] \in {"running", "zombie"}
  /\ run \in {"wait", "handoff"} => watcher \in {"select", "delay", "closing", "closed"}
  /\ run = "wait" /\ watcher \in {"closing", "closed"} => proc[Leader] = "zombie"
  /\ watcher = "delay" => timer \in {"armed", "fired"}
  /\ watcher = "closing" \/ run = "closing" => ~pipes

(* A leader that waits to be reaped waits, and one that runs becomes one,  *)
(* whatever the kernel and the command do.                                 *)
LEMMA LeaderWaits ==
  ASSUME TreeTypeOK, proc[Leader] \in {"running", "zombie"},
         \/ UNCHANGED treeVars \/ TreeStep \/ KillTree \/ KillLeader
  PROVE  /\ proc'[Leader] \in {"running", "zombie"}
         /\ proc[Leader] = "zombie" => proc'[Leader] = "zombie"
         /\ KillLeader => proc'[Leader] = "zombie"
<1> USE TreeAssumption DEF TreeTypeOK
<1>1. ASSUME NEW S, S \subseteq Running, Die(S)
      PROVE  /\ proc'[Leader] \in {"running", "zombie"}
             /\ proc[Leader] = "zombie" => proc'[Leader] = "zombie"
             /\ Leader \in S => proc'[Leader] = "zombie"
  BY <1>1 DEF Die, Running
<1>2. CASE KillLeader
  <2>1. proc[Leader] = "running" => Leader \in Running \cap {Leader}
    BY DEF Running
  <2> QED  BY <1>1, <1>2, <2>1 DEF KillLeader
<1>3. CASE KillTree
  <2>1. Targets \subseteq Running
    BY DEF Targets, Members
  <2>2. proc'[Leader] \in {"running", "zombie"} /\ (proc[Leader] = "zombie" => proc'[Leader] = "zombie")
    BY <1>1, <1>3, <2>1 DEF KillTree
  <2> QED  BY <1>2, <2>2
<1>4. CASE UNCHANGED treeVars
  BY <1>2, <1>4 DEF treeVars
<1>5. CASE TreeStep
  <2>1. proc'[Leader] \in {"running", "zombie"} /\ (proc[Leader] = "zombie" => proc'[Leader] = "zombie")
    <3>1. ASSUME NEW p \in Procs, NEW q \in Procs, Fork(p, q)
          PROVE  proc'[Leader] = proc[Leader]
      BY <3>1 DEF Fork
    <3>2. ASSUME NEW p \in Procs, Detach(p) \/ Release(p)
          PROVE  proc'[Leader] = proc[Leader]
      BY <3>2 DEF Detach, Release
    <3>3. ASSUME NEW p \in Procs, Exit(p)
          PROVE  proc'[Leader] = IF p = Leader THEN "zombie" ELSE proc[Leader]
      BY <3>3 DEF Exit
    <3>4. CASE Recycle
      BY <3>4 DEF Recycle
    <3> QED  BY <1>5, <3>1, <3>2, <3>3, <3>4 DEF TreeStep
  <2> QED  BY <1>2, <2>1
<1> QED
  BY <1>2, <1>3, <1>4, <1>5

(* Every step keeps it so.                                                 *)
LEMMA WaitInvNext == RunInv /\ WaitInv /\ [Next]_vars => WaitInv'
<1> SUFFICES ASSUME RunInv, WaitInv, [Next]_vars
             PROVE  WaitInv'
  OBVIOUS
<1>a. TreeTypeOK /\ ControlTypeOK /\ MainInv /\ WatchInv
  BY DEF RunInv, TypeOK
<1> USE <1>a DEF WaitInv, WatchInv, BeforeStart, AfterRun, ControlTypeOK
<1>b. ASSUME UNCHANGED treeVars PROVE proc' = proc
  BY <1>b DEF treeVars
<1>1. CASE Launch \/ Refuse \/ RefuseWithHome
  BY <1>1, <1>b DEF Launch, Prepare, Refuse, RefuseWithHome, watchVars, ioVars
<1>2. CASE StartFailed
  BY <1>2, <1>b DEF StartFailed, watchVars, ioVars
<1>3. CASE StartCommand
  <2>1. proc'[Leader] = "running"
    BY <1>3, TreeAssumption DEF StartCommand, Spawn, TreeTypeOK
  <2> QED  BY <1>3, <2>1 DEF StartCommand
<1>4. CASE Reap
  BY <1>4 DEF Reap, watchVars, ioVars
<1>5. CASE Handoff
  BY <1>5 DEF Handoff
<1>6. CASE DrainArm
  BY <1>6, <1>b DEF DrainArm, mainVars, watchVars
<1>7. CASE DrainDone
  BY <1>7 DEF DrainDone, watchVars
<1>8. CASE DrainOverrun
  BY <1>8 DEF DrainOverrun, watchVars
<1>9. CASE Collect \/ Sweep \/ Cleanup
  BY <1>9 DEF Collect, Sweep, Cleanup, watchVars, ioVars
<1>10. CASE WatchCancel
  <2>1. run = "wait" => proc'[Leader] \in {"running", "zombie"}
    BY <1>10, LeaderWaits DEF WatchCancel
  <2> QED  BY <1>10, <2>1 DEF WatchCancel, mainVars
<1>11. CASE WatchOverrun
  <2>1. run = "wait" => proc'[Leader] = "zombie"
    BY <1>11, LeaderWaits DEF WatchOverrun
  <2>2. run \notin {"drain", "closing"}
    BY <1>11 DEF WatchOverrun
  <2> QED  BY <1>11, <2>1, <2>2 DEF WatchOverrun, mainVars
<1>12. CASE WatchClosed
  BY <1>12, <1>b DEF WatchClosed, mainVars, ioVars
<1>13. CASE CopyStep
  BY <1>13, <1>b DEF CopyStep, Copy, CopyEnd, mainVars, watchVars, ioVars
<1>14. CASE TimerFire \/ Deadline
  BY <1>14, <1>b DEF TimerFire, Deadline, mainVars, watchVars, ioVars
<1>15. CASE ProcessStep
  <2>1. TreeStep \/ UNCHANGED treeVars
    BY <1>15 DEF ProcessStep, Output
  <2>2. run = "wait" => /\ proc'[Leader] \in {"running", "zombie"}
                        /\ proc[Leader] = "zombie" => proc'[Leader] = "zombie"
    BY <2>1, LeaderWaits
  <2> QED  BY <1>15, <2>2 DEF ProcessStep, mainVars, watchVars, ioVars
<1>16. CASE Returned \/ UNCHANGED vars
  BY <1>16, <1>b DEF Returned, vars, mainVars, watchVars, ioVars
<1> QED
  BY <1>1, <1>2, <1>3, <1>4, <1>5, <1>6, <1>7, <1>8, <1>9, <1>10, <1>11, <1>12, <1>13, <1>14,
     <1>15, <1>16
  DEF Next, RunStep, MainStep, WatchStep

(* No wait of executeParts is for something that nobody will do, whatever  *)
(* the command does with its group, its pipes and its children: the half   *)
(* of Termination that is an invariant, for any number of processes.       *)
THEOREM EveryWaitHasAnEnd == Spec => []NobodyWaitsInVain
<1>1. Init => WaitInv
  BY DEF Init, WaitInv
<1>2. WaitInv => NobodyWaitsInVain
  BY DEF WaitInv, NobodyWaitsInVain
<1> QED
  BY <1>1, <1>2, WaitInvNext, RunInvariant, PTL DEF Spec

------------------------------------------------------------------------------
(* Nobody goes round in a circle.                                          *)

(* How far a goroutine and the timer have come.                            *)
MainPlace(r) ==
  CASE r = "idle" -> 0 [] r = "start" -> 1 [] r = "wait" -> 2 [] r = "handoff" -> 3
    [] r = "drain" -> 4 [] r = "closing" -> 5 [] r = "collect" -> 6 [] r = "sweep" -> 7
    [] r = "cleanup" -> 8 [] r = "done" -> 9

WatchPlace(w) ==
  CASE w = "off" -> 0 [] w = "select" -> 1 [] w = "delay" -> 2 [] w = "closing" -> 3
    [] w = "closed" -> 4 [] w = "done" -> 5

TimerPlace(t) == CASE t = "off" -> 0 [] t = "armed" -> 1 [] t = "fired" -> 2

(* The timer goes on, the deadline passes, the copiers take more of what   *)
(* was written, or end.                                                    *)
ClockAdvances ==
  \/ TimerPlace(timer') > TimerPlace(timer) /\ UNCHANGED <<expired, copying, copied>>
  \/ ~expired /\ expired' /\ UNCHANGED <<timer, copying, copied>>
  \/ copied' > copied /\ copied' <= written' /\ UNCHANGED <<timer, expired, copying>>
  \/ copying /\ ~copying' /\ UNCHANGED <<timer, expired, copied>>

(* The main goroutine goes on, or else the watcher, or else one of these:  *)
(* the timer is turned back only by a goroutine that goes on.              *)
RunAdvances ==
  \/ MainPlace(run') > MainPlace(run)
  \/ run' = run /\ WatchPlace(watcher') > WatchPlace(watcher)
  \/ run' = run /\ watcher' = watcher /\ ClockAdvances

RunRests == UNCHANGED <<run, watcher, timer, expired, copying, copied>>

(* Each step of paldron's own is one of these, the command's are none.     *)
RunProgress == (RunStep => RunAdvances) /\ (RunAdvances \/ RunRests)

(* Every step of the run is an advance or rests.                           *)
LEMMA RunStepAdvances == TypeOK /\ RunStep => RunAdvances
<1> SUFFICES ASSUME TypeOK, RunStep PROVE RunAdvances
  OBVIOUS
<1> USE DEF RunAdvances
<1>1. CASE Launch \/ Refuse \/ RefuseWithHome
  BY <1>1 DEF Launch, Prepare, Refuse, RefuseWithHome, MainPlace
<1>2. CASE StartFailed \/ StartCommand \/ Reap \/ Handoff
  BY <1>2 DEF StartFailed, StartCommand, Reap, Handoff, MainPlace
<1>3. CASE DrainArm
  BY <1>3 DEF DrainArm, mainVars, watchVars, dataVars, ClockAdvances, TimerPlace
<1>4. CASE DrainDone
  <2>1. run \in {"drain", "closing"} /\ run' = "collect"
    BY <1>4 DEF DrainDone
  <2> QED  BY <2>1 DEF MainPlace
<1>5. CASE DrainOverrun
  BY <1>5 DEF DrainOverrun, MainPlace
<1>6. CASE Collect
  <2>1. run = "collect" /\ run' \in {"sweep", "cleanup"}
    BY <1>6 DEF Collect
  <2> QED  BY <2>1 DEF MainPlace
<1>7. CASE Sweep \/ Cleanup
  BY <1>7 DEF Sweep, Cleanup, MainPlace
<1>8. CASE WatchCancel \/ WatchClosed
  BY <1>8 DEF WatchCancel, WatchClosed, mainVars, WatchPlace
<1>9. CASE WatchOverrun
  <2>1. watcher = "delay" /\ watcher' \in {"closing", "closed"} /\ run' = run
    BY <1>9 DEF WatchOverrun, mainVars
  <2> QED  BY <2>1 DEF WatchPlace
<1>10. ASSUME NEW n \in 1..MaxBytes, Copy(n)
       PROVE  RunAdvances
  <2>1. n \in Nat /\ n # 0 /\ copied \in Nat
    BY BytesAssumption DEF TypeOK, DataTypeOK
  <2>2. copied' = copied + n /\ copied + n <= written /\ written' = written
    BY <1>10 DEF Copy
  <2>3. UNCHANGED <<run, watcher, timer, copying, expired>>
    BY <1>10 DEF Copy, mainVars, watchVars, ioVars
  <2> QED  BY <2>1, <2>2, <2>3 DEF ClockAdvances
<1>11. CASE CopyEnd
  <2>1. copying /\ ~copying'
    BY <1>11 DEF CopyEnd
  <2>2. UNCHANGED <<run, watcher, timer, expired, copied>>
    BY <1>11 DEF CopyEnd, mainVars, watchVars, dataVars
  <2> QED  BY <2>1, <2>2 DEF ClockAdvances
<1>12. CASE TimerFire
  BY <1>12 DEF TimerFire, mainVars, watchVars, dataVars, ClockAdvances, TimerPlace
<1>13. CASE Deadline
  <2>1. ~expired /\ expired'
    BY <1>13 DEF Deadline
  <2>2. UNCHANGED <<run, watcher, timer, copying, copied>>
    BY <1>13 DEF Deadline, mainVars, watchVars, ioVars, dataVars
  <2> QED  BY <2>1, <2>2 DEF ClockAdvances
<1> QED
  BY <1>1, <1>2, <1>3, <1>4, <1>5, <1>6, <1>7, <1>8, <1>9, <1>10, <1>11, <1>12, <1>13
  DEF RunStep, MainStep, WatchStep, CopyStep

(* What the command does moves neither the goroutines nor the clock.       *)
LEMMA CommandRests == ProcessStep \/ UNCHANGED vars => RunRests
<1>1. ProcessStep => RunRests
  BY DEF ProcessStep, Output, mainVars, watchVars, ioVars, dataVars, RunRests
<1>2. UNCHANGED vars => RunRests
  BY DEF vars, mainVars, watchVars, ioVars, dataVars, RunRests
<1> QED
  BY <1>1, <1>2

(* With EveryWaitHasAnEnd the other half of Termination: the run cannot go *)
(* on for ever either, as long as the command's output is finite.  Each    *)
(* step of executeParts, its goroutines and its timers brings one of them  *)
(* further, in an order in which the later ones may be set back, and the   *)
(* command sets none of them back (sandbox.go:267-376).                    *)
THEOREM RunProgresses == Spec => [][RunProgress]_vars
<1>1. ASSUME RunInv, [Next]_vars PROVE [RunProgress]_vars
  <2>1. RunStep => RunAdvances
    BY <1>1, RunStepAdvances DEF RunInv
  <2>2. RunStep \/ ProcessStep \/ UNCHANGED vars
    BY <1>1 DEF Next, Returned
  <2> QED  BY <2>1, <2>2, CommandRests DEF RunProgress
<1> QED
  BY <1>1, RunInvariant, PTL DEF Spec

------------------------------------------------------------------------------
(* runExec.                                                                *)

ExecTypes ==
  /\ policy \in Policies
  /\ stage \in {"gate", "preflight", "sandbox", "scan", "judge", "exited"}
  /\ verdict \in {"none", "allow", "deny", "broken"}
  /\ files \in [Files -> {"absent", "old", "fresh", "backdated"}]
  /\ unseen \in SUBSET Files
  /\ todo \in SUBSET Files
  /\ hit \in BOOLEAN
  /\ answer \in {"none", "clean", "exposed", "hostile", "unavailable"}
  /\ quiet \in BOOLEAN

(* The run succeeded and its result was accepted.                          *)
Accepted == stage \in {"scan", "judge"} \/ verdict = "allow"

StageInv ==
  /\ stage \in {"gate", "preflight"} => run = "idle"
  /\ verdict = "none" <=> stage # "exited"
  /\ Accepted => run = "done" /\ outcome = "ok"

ScanInv ==
  /\ stage = "judge" \/ verdict = "allow" => todo = {} /\ ~hit
  /\ verdict = "allow" => policy.jev = "off" \/ Tolerated(answer)

(* With nobody left to write, what the scan has seen stays as it was.      *)
QuietInv ==
  /\ stage \in {"gate", "preflight", "sandbox"} => ~quiet
  /\ quiet => run = "done" /\ Running = {}
  /\ Accepted /\ quiet /\ ~hit => \A f \in (Denied \ unseen) \ todo : files[f] # "fresh"

ExecInv == RunInv /\ ExecTypes /\ StageInv /\ ScanInv /\ QuietInv

-----------------------------------------------------------------------------
(* What a step of the whole means for the run.                             *)

(* A step of runExec and what goes on around it is a step of the sandbox   *)
(* run or leaves it alone.                                                 *)
LEMMA ExecStepsRun == [ExecNext]_allVars => [Next]_vars
<1> SUFFICES ASSUME [ExecNext]_allVars
             PROVE  [Next]_vars
  OBVIOUS
<1>1. CASE GateStep
  BY <1>1 DEF GateStep, GateBroken, GateDeny, GatePass, PreflightBroken, PreflightPass
<1>2. CASE SandboxStep
  <2>1. EnterSandbox => Launch \/ Refuse \/ RefuseWithHome
    BY DEF EnterSandbox, Launch, Prepare
  <2> QED
    BY <1>2, <2>1 DEF SandboxStep, Next, RunStep
<1>3. CASE VerdictStep
  BY <1>3 DEF VerdictStep, Decide, ScanVisit, ScanEnd, AskJev, Judge
<1>4. CASE CommandStep
  BY <1>4 DEF CommandStep, Touch, Seal, Next
<1>5. CASE Exited \/ UNCHANGED allVars
  BY <1>5 DEF Exited, allVars
<1> QED
  BY <1>1, <1>2, <1>3, <1>4, <1>5 DEF ExecNext

(* The sandbox run inside a request is a run: all that is proved of runs   *)
(* holds of it, whatever runExec does around it.                           *)
THEOREM ExecRuns == ExecSpec => Spec
<1>1. ExecInit => Init
  BY DEF ExecInit
<1> QED
  BY <1>1, ExecStepsRun, PTL DEF ExecSpec, Spec

(* A leader that was started remains known as the leader.                  *)
LEMMA StartedStays ==
  ASSUME RunInv, [Next]_vars, ~StartCommand
  PROVE  Started' <=> Started
<1>1. TypeOK /\ TreeTypeOK /\ TreeInv
  BY DEF RunInv, TypeOK
<1>2. TreeStep \/ KillTree \/ KillLeader \/ ReapLeader \/ UNCHANGED treeVars
  BY DEF Next, RunStep, Launch, Prepare, Refuse, RefuseWithHome, MainStep, StartFailed,
         Reap, Handoff, DrainArm, DrainDone, DrainOverrun, Collect, Sweep,
         Cleanup, WatchStep, WatchCancel, WatchOverrun, WatchClosed, CopyStep, Copy, CopyEnd, TimerFire,
         Deadline, ProcessStep, Output, Returned, vars
<1>3. TreeSettles
  BY <1>1, <1>2, TreeStepSettles, KillTreeSettles, KillLeaderSettles, ReapSettles,
     StutterSettles
<1> QED
  BY <1>3 DEF TreeSettles

(* Once the run is over and nobody is left, it stays that way.             *)
LEMMA DoneStays ==
  ASSUME RunInv, [Next]_vars, run = "done"
  PROVE  /\ run' = "done" /\ outcome' = outcome
         /\ Running = {} => Running' = {}
<1>1. TypeOK /\ TreeTypeOK /\ TreeInv
  BY DEF RunInv, TypeOK
<1>2. watcher \in {"off", "done"} /\ ~copying
  BY DEF RunInv, WatchInv, PipeInv, AfterRun
<1>3. /\ run' = "done" /\ outcome' = outcome
      /\ TreeStep \/ UNCHANGED treeVars
  BY <1>2
  DEF Next, RunStep, Launch, Prepare, Refuse, RefuseWithHome, MainStep, StartFailed,
      StartCommand, Reap, Handoff, DrainArm, DrainDone, DrainOverrun, Collect, Sweep,
      Cleanup, WatchStep, WatchCancel, WatchOverrun, WatchClosed, CopyStep, Copy, CopyEnd, TimerFire,
      Deadline, ProcessStep, Output, Returned, mainVars, vars
<1>4. TreeSettles
  BY <1>1, <1>3, TreeStepSettles, StutterSettles
<1> QED
  BY <1>3, <1>4 DEF TreeSettles

-----------------------------------------------------------------------------
(* The invariant.                                                          *)

(* The invariant holds when runExec is called.                             *)
LEMMA ExecInvInit == ExecInit => ExecInv
  BY RunInvInit, FilesAssumption
  DEF ExecInit, Init, ExecInv, ExecTypes, StageInv, ScanInv, QuietInv, Accepted

(* A step of the sandbox or of the processes leaves runExec where it is.   *)
LEMMA RunKeepsExec ==
  ASSUME ExecInv, [Next]_vars, RunInv', UNCHANGED execVars,
         stage \in {"gate", "preflight"} => run' = "idle"
  PROVE  ExecInv'
<1> USE DEF execVars, fileVars, scanVars
<1>1. ExecTypes'
  BY DEF ExecInv, ExecTypes
<1>2. StageInv'
  BY DoneStays DEF ExecInv, StageInv, Accepted
<1>3. ScanInv'
  BY DEF ExecInv, ScanInv, Tolerated
<1>4. QuietInv'
  BY DoneStays DEF ExecInv, QuietInv, Accepted
<1> QED
  BY <1>1, <1>2, <1>3, <1>4 DEF ExecInv

(* Every step of runExec, of the run and of the command keeps the          *)
(* invariant.                                                              *)
LEMMA ExecInvNext == ExecInv /\ [ExecNext]_allVars => ExecInv'
<1> SUFFICES ASSUME ExecInv, [ExecNext]_allVars
             PROVE  ExecInv'
  OBVIOUS
<1>a. [Next]_vars /\ RunInv'
  BY ExecStepsRun, RunInvNext DEF ExecInv
<1>b. (UNCHANGED vars) => run' = run /\ outcome' = outcome /\ Running' = Running
  BY DEF vars, mainVars, treeVars, Running
<1>c. RunInv /\ ExecTypes /\ StageInv /\ ScanInv /\ QuietInv
  BY DEF ExecInv
<1> USE <1>a, <1>b, <1>c DEF ExecTypes, StageInv, ScanInv, QuietInv, Accepted
<1>1. CASE GateStep
  BY <1>1
  DEF GateStep, GateBroken, GateDeny, GatePass, PreflightBroken, PreflightPass, ExitWith,
      fileVars, scanVars, ExecInv, Tolerated
<1>2. CASE SandboxStep
  <2>1. stage \in {"gate", "preflight"} => run' = "idle"
    BY <1>2
    DEF SandboxStep, EnterSandbox, MainStep, StartFailed, StartCommand, Reap, Handoff,
        DrainArm, DrainDone, DrainOverrun, Collect, Sweep, Cleanup, WatchStep, WatchCancel,
        WatchOverrun, WatchClosed, CopyStep, Copy, CopyEnd, TimerFire, Deadline, mainVars
  <2> QED
    BY <1>2, <2>1, RunKeepsExec DEF SandboxStep
<1>3. CASE Decide
  <2> USE <1>3 DEF Decide, ExitWith, fileVars
  <2>1. ExecTypes'
    OBVIOUS
  <2>2. StageInv' /\ ScanInv'
    BY DEF Tolerated
  <2>3. QuietInv'
    <3>1. quiet' => run' = "done" /\ Running' = {}
      OBVIOUS
    <3>2. Accepted' => todo' = Files
      OBVIOUS
    <3> QED
      BY <3>1, <3>2, FilesAssumption
  <2> QED
    BY <2>1, <2>2, <2>3 DEF ExecInv
<1>4. ASSUME NEW f \in Files, ScanVisit(f)
      PROVE  ExecInv'
  BY <1>4 DEF ScanVisit, fileVars, ExecInv, Tolerated
<1>5. CASE ScanEnd
  BY <1>5 DEF ScanEnd, ExitWith, fileVars, scanVars, ExecInv, Tolerated
<1>6. CASE AskJev
  BY <1>6 DEF AskJev, fileVars, scanVars, ExecInv, Tolerated
<1>7. CASE Judge
  BY <1>7 DEF Judge, ExitWith, fileVars, scanVars, ExecInv, Tolerated
<1>8. CASE ProcessStep /\ UNCHANGED execVars
  <2>1. run' = run
    BY <1>8 DEF ProcessStep, mainVars
  <2> QED
    BY <1>8, <2>1, RunKeepsExec
<1>9. ASSUME NEW p \in Procs, NEW f \in Files, Touch(p, f)
      PROVE  ExecInv'
  BY <1>9 DEF Touch, scanVars, ExecInv, Tolerated
<1>10. ASSUME NEW p \in Procs, NEW f \in Files, Seal(p, f)
       PROVE  ExecInv'
  BY <1>10 DEF Seal, scanVars, ExecInv, Tolerated
<1>11. CASE Exited \/ UNCHANGED allVars
  <2>1. UNCHANGED <<vars, execVars>>
    BY <1>11 DEF Exited, allVars
  <2>2. run' = run
    BY <2>1, <1>b
  <2> QED
    BY <2>1, <2>2, RunKeepsExec
<1> QED
  BY <1>1, <1>2, <1>3, <1>4, <1>5, <1>6, <1>7, <1>8, <1>9, <1>10, <1>11
  DEF ExecNext, VerdictStep, CommandStep

(* Every state of `paldron exec` satisfies the invariant above.            *)
THEOREM ExecInvariant == ExecSpec => []ExecInv
  BY ExecInvInit, ExecInvNext, PTL DEF ExecSpec

(* The state of runExec and of everything below it is well-typed.          *)
THEOREM ExecTypeCorrect == ExecSpec => []ExecTypeOK
<1>1. ExecInv => ExecTypeOK
  BY DEF ExecInv, ExecTypes, ExecTypeOK, RunInv
<1> QED
  BY <1>1, ExecInvariant, PTL

(* Exit 0 stands for a command that ended with status 0 in time, whose     *)
(* output is complete, in whose working directory the scan found no denied *)
(* file and whose output passed the judgement the policy asks for.         *)
THEOREM AllowEarned == ExecSpec => []AllowIsEarned
<1>1. ExecInv => AllowIsEarned
  BY DEF ExecInv, RunInv, StageInv, ScanInv, Accepted, AllowIsEarned,
         SuccessIsComplete, HomeForTheRun
<1> QED
  BY <1>1, ExecInvariant, PTL

(* If no process was left when the run returned, exit 0 means that no      *)
(* denied file within reach of the walk was written since start.           *)
THEOREM QuietRunClean == ExecSpec => []QuietRunIsClean
<1>1. ExecInv => QuietRunIsClean
  BY DEF ExecInv, ScanInv, QuietInv, Accepted, QuietRunIsClean
<1> QED
  BY <1>1, ExecInvariant, PTL

-----------------------------------------------------------------------------
(* The request goes on.                                                    *)

StagePlace(g) ==
  CASE g = "gate" -> 0 [] g = "preflight" -> 1 [] g = "sandbox" -> 2
    [] g = "scan" -> 3 [] g = "judge" -> 4 [] g = "exited" -> 5

(* The next stage, or within it: the run goes on, the scan has one file    *)
(* less to look at, the judge has answered.                                *)
ExecAdvances ==
  \/ StagePlace(stage') > StagePlace(stage)
  \/ /\ stage' = stage
     /\ \/ RunAdvances /\ UNCHANGED <<todo, answer>>
        \/ RunRests /\ answer' = answer /\ todo' \subseteq todo /\ todo' # todo
        \/ RunRests /\ todo' = todo /\ answer = "none" /\ answer' # "none"

ExecRests == RunRests /\ UNCHANGED <<stage, todo, answer>>

ExecProgress ==
  /\ GateStep \/ SandboxStep \/ VerdictStep => ExecAdvances
  /\ ExecAdvances \/ ExecRests

(* A request cannot go on for ever: each step of runExec advances it, the  *)
(* loop over the files and the run in its sandbox included, and the        *)
(* command sets nothing back (main.go:152-235, 272-308).                   *)
THEOREM ExecProgresses == ExecSpec => [][ExecProgress]_allVars
<1>1. ASSUME ExecInv, [ExecNext]_allVars PROVE [ExecProgress]_allVars
  <2>1. GateStep => ExecAdvances
    BY DEF GateStep, GateBroken, GateDeny, GatePass, PreflightBroken, PreflightPass, ExitWith,
           ExecAdvances, StagePlace
  <2>2. SandboxStep => ExecAdvances
    <3>1. SandboxStep => RunStep
      <4>1. EnterSandbox => Launch \/ Refuse \/ RefuseWithHome
        BY DEF EnterSandbox, Launch, Prepare
      <4> QED  BY <4>1 DEF SandboxStep, RunStep
    <3>2. RunStep => RunAdvances
      BY <1>1, RunStepAdvances DEF ExecInv, RunInv
    <3>3. SandboxStep => UNCHANGED <<stage, todo, answer>>
      BY DEF SandboxStep, execVars, scanVars
    <3> QED  BY <3>1, <3>2, <3>3 DEF ExecAdvances
  <2>a. (UNCHANGED vars) => RunRests
    BY CommandRests
  <2>3. Decide \/ ScanEnd \/ Judge => ExecAdvances
    BY DEF Decide, ScanEnd, Judge, ExitWith, ExecAdvances, StagePlace
  <2>4. ASSUME NEW f \in Files, ScanVisit(f)
        PROVE  ExecAdvances
    <3>1. stage' = stage /\ answer' = answer /\ RunRests
      BY <2>4, <2>a DEF ScanVisit
    <3>2. todo' \subseteq todo /\ todo' # todo
      BY <2>4 DEF ScanVisit
    <3> QED  BY <3>1, <3>2 DEF ExecAdvances
  <2>5. AskJev => ExecAdvances
    <3>1. AskJev => answer = "none" /\ answer' # "none"
      BY DEF AskJev
    <3>2. AskJev => RunRests /\ stage' = stage /\ todo' = todo
      BY <2>a DEF AskJev, scanVars
    <3> QED  BY <3>1, <3>2 DEF ExecAdvances
  <2>6. CommandStep \/ UNCHANGED allVars => ExecRests
    <3>1. ProcessStep /\ UNCHANGED execVars => ExecRests
      BY CommandRests DEF execVars, scanVars, ExecRests
    <3>2. ASSUME NEW p \in Procs, NEW f \in Files, Touch(p, f) \/ Seal(p, f)
          PROVE  ExecRests
      BY <3>2, <2>a DEF Touch, Seal, scanVars, ExecRests
    <3>3. UNCHANGED allVars => ExecRests
      BY <2>a DEF allVars, execVars, scanVars, ExecRests
    <3> QED  BY <3>1, <3>2, <3>3 DEF CommandStep
  <2>7. VerdictStep => ExecAdvances
    BY <2>3, <2>4, <2>5 DEF VerdictStep
  <2> QED
    BY <1>1, <2>1, <2>2, <2>6, <2>7 DEF ExecNext, Exited, ExecProgress
<1> QED
  BY <1>1, ExecInvariant, PTL DEF ExecSpec

-----------------------------------------------------------------------------
(* The contract.                                                           *)

(* Steps that are not a verdict leave the phase alone or start the         *)
(* command; the others answer from the phase the contract wants.           *)
LEMMA ContractStep ==
  ASSUME ExecInv, ExecInv', [ExecNext]_allVars
  PROVE  [Contract!Next]_(Contract!vars)
<1>a. RunInv /\ ExecTypes /\ StageInv /\ ScanInv
  BY DEF ExecInv
<1>b. /\ stage \in {"gate", "preflight"} => ~Started
      /\ outcome = "ok" => Started
  BY <1>a DEF RunInv, TreeInv, MainInv, StageInv, BeforeStart, SuccessIsComplete
<1>c. (UNCHANGED vars) => (Started' <=> Started)
  BY DEF vars, treeVars, Started
<1> USE <1>a, <1>b, <1>c
    DEF Contract!Next, Contract!vars, Contract!Start, Contract!Succeed, Contract!Allow,
        Contract!Deny, Contract!Break, Contract!Answer, Phase
<1>1. CASE GateStep
  BY <1>1
  DEF GateStep, GateBroken, GateDeny, GatePass, PreflightBroken, PreflightPass, ExitWith
<1>2. CASE Decide
  BY <1>2 DEF Decide, ExitWith, ExecTypes, StageInv
<1>3. ASSUME NEW f \in Files, ScanVisit(f)
      PROVE  [Contract!Next]_(Contract!vars)
  BY <1>3 DEF ScanVisit
<1>4. CASE ScanEnd
  BY <1>4 DEF ScanEnd, ExitWith
<1>5. CASE AskJev
  BY <1>5 DEF AskJev
<1>6. CASE Judge
  BY <1>6 DEF Judge, ExitWith
<1>7. CASE (SandboxStep \/ ProcessStep) /\ UNCHANGED execVars
  <2>1. Started => Started'
    <3>1. [Next]_vars
      BY ExecStepsRun
    <3>2. CASE StartCommand
      BY <3>2, <1>a, TreeAssumption DEF StartCommand, Spawn, Started, RunInv, MainInv, BeforeStart
    <3>3. CASE ~StartCommand
      BY <3>1, <3>3, StartedStays
    <3> QED
      BY <3>2, <3>3
  <2> QED
    BY <1>7, <2>1 DEF execVars
<1>8. ASSUME NEW p \in Procs, NEW f \in Files, Touch(p, f) \/ Seal(p, f)
      PROVE  [Contract!Next]_(Contract!vars)
  BY <1>8 DEF Touch, Seal
<1>9. CASE Exited \/ UNCHANGED allVars
  BY <1>9 DEF Exited, allVars, execVars
<1> QED
  BY <1>1, <1>2, <1>3, <1>4, <1>5, <1>6, <1>7, <1>8, <1>9
  DEF ExecNext, VerdictStep, CommandStep, SandboxStep

(* runExec implements its contract: it denies before the command starts or *)
(* after it succeeded, allows only after it succeeded, and reports every   *)
(* other end as broken, whatever happens inside the run.                   *)
THEOREM ContractImplemented == ExecSpec => ImplementsContract
<1>1. ExecInit => Contract!Init
  BY TreeAssumption DEF ExecInit, Init, TreeInit, Contract!Init, Phase, Started
<1> QED
  BY <1>1, ContractStep, ExecInvariant, PTL DEF ExecSpec, ImplementsContract, Contract!Spec
==============================================================================
