------------------------------ MODULE CommandRun ------------------------------
(***************************************************************************)
(* One run of a command by the sandbox: Sandbox.executeParts of            *)
(* internal/sandbox/sandbox.go from the moment its checks have passed to   *)
(* the ExecuteResult it returns.                                           *)
(*                                                                         *)
(* Three threads of control meet here, and the command's own processes run *)
(* beside them (ProcessTree):                                              *)
(*   - the main goroutine, in cmd.Run and after it (variable run);         *)
(*   - the watcher goroutine of exec.CommandContext, which calls cmd.Cancel *)
(*     when the deadline passes and starts the WaitDelay timer;            *)
(*   - the goroutines that copy the output pipes into the two bounded      *)
(*     buffers (variable copying: at least one of them has not ended).     *)
(*     The amounts are those of one stream: the two do not interact.       *)
(* os/exec is not part of the repository: what the model says of it is     *)
(* what executeParts relies on when it sets Cancel and WaitDelay.          *)
(***************************************************************************)
EXTENDS ProcessTree, BoundedBuffer

CONSTANT MaxBytes   \* bound: what the command may write to its output

ASSUME BytesAssumption == MaxBytes \in Nat

VARIABLES run,       \* where the main goroutine is
          err,       \* the error cmd.Run will return
          outcome,   \* the ExecuteResult
          expired,   \* execCtx.Err() == context.DeadlineExceeded
          watcher,   \* where the watcher goroutine is
          watchErr,  \* the error the watcher will hand to Wait
          timer,     \* the WaitDelay timer
          copying,   \* an output copier is running
          pipes,     \* paldron's ends of the output pipes are open
          written,   \* bytes the command has written to the pipe
          copied,    \* those of them that a copier has taken out of it
          home       \* the ephemeral home directory

mainVars  == <<run, err, outcome>>
watchVars == <<watcher, watchErr>>
ioVars    == <<timer, copying, pipes>>
dataVars  == <<written, copied, bufferVars>>
vars == <<treeVars, mainVars, watchVars, ioVars, dataVars, expired, home>>

DataTypeOK ==
  /\ BufferTypeOK
  /\ written \in Nat
  /\ copied \in 0..written

ControlTypeOK ==
  /\ run \in {"idle", "start", "wait", "handoff", "drain", "closing",
              "collect", "sweep", "cleanup", "done"}
  /\ err \in {"none", "start", "exit", "ctx", "delay"}
  /\ outcome \in {"none", "ok", "exit", "timeout", "error"}
  /\ expired \in BOOLEAN
  /\ watcher \in {"off", "select", "delay", "closing", "closed", "done"}
  /\ watchErr \in {"none", "ctx", "delay"}
  /\ timer \in {"off", "armed", "fired"}
  /\ copying \in BOOLEAN
  /\ pipes \in BOOLEAN
  /\ home \in {"none", "present", "removed", "left"}

TypeOK == TreeTypeOK /\ DataTypeOK /\ ControlTypeOK

Init ==
  /\ TreeInit
  /\ BufferInit
  /\ written = 0
  /\ copied = 0
  /\ run = "idle"
  /\ err = "none"
  /\ outcome = "none"
  /\ expired = FALSE
  /\ watcher = "off"
  /\ watchErr = "none"
  /\ timer = "off"
  /\ copying = FALSE
  /\ pipes = FALSE
  /\ home = "none"

-----------------------------------------------------------------------------
(* Before cmd.Run.                                                         *)

(* The command is built; under OS isolation, which Windows does not have,  *)
(* it has a home of its own.                                               *)
Prepare(isolate) ==
  /\ run = "idle"
  /\ isolate => platform = "unix"
  /\ run' = "start"
  /\ home' = IF isolate THEN "present" ELSE "none"
  /\ UNCHANGED <<treeVars, err, outcome, watchVars, ioVars, expired, dataVars>>

(* A check fails, isolation is not available or no home can be made.       *)
Refuse ==
  /\ run = "idle"
  /\ run' = "done"
  /\ outcome' = "error"
  /\ UNCHANGED <<treeVars, err, watchVars, ioVars, expired, home, dataVars>>

(* Mutant: the early return precedes the deferred removal of the home.     *)
RefuseBeforeDefer ==
  /\ run = "idle"
  /\ run' = "done"
  /\ outcome' = "error"
  /\ home' = "present"
  /\ UNCHANGED <<treeVars, err, watchVars, ioVars, expired, dataVars>>

(* The home was made and the isolated command cannot be built.             *)
RefuseWithHome ==
  /\ run = "idle"
  /\ platform = "unix"
  /\ run' = "cleanup"
  /\ outcome' = "error"
  /\ home' = "present"
  /\ UNCHANGED <<treeVars, err, watchVars, ioVars, expired, dataVars>>

-----------------------------------------------------------------------------
(* cmd.Run: Start, then Wait.                                              *)

StartFailed ==
  /\ run = "start"
  /\ run' = "collect"
  /\ err' = IF expired THEN "ctx" ELSE "start"
  /\ UNCHANGED <<treeVars, outcome, watchVars, ioVars, expired, home, dataVars>>

StartCommand ==
  /\ run = "start"
  /\ ~expired
  /\ Spawn
  /\ run' = "wait"
  /\ watcher' = "select"
  /\ copying' = TRUE
  /\ pipes' = TRUE
  /\ UNCHANGED <<err, outcome, watchErr, timer, expired, home, dataVars>>

(* os.Process.Wait returns.                                                *)
Reap ==
  /\ run = "wait"
  /\ ReapLeader
  /\ run' = "handoff"
  /\ err' = IF status = "ok" THEN err ELSE "exit"
  /\ UNCHANGED <<outcome, watchVars, ioVars, expired, home, dataVars>>

(* Wait receives the watcher's result; its own error has precedence.       *)
Handoff ==
  /\ run = "handoff"
  /\ watcher \in {"select", "delay", "closed"}
  /\ run' = "drain"
  /\ watcher' = "done"
  /\ err' = IF err = "none" THEN watchErr ELSE err
  /\ timer' = IF watcher = "closed" THEN "off" ELSE timer
  /\ UNCHANGED <<treeVars, outcome, watchErr, copying, pipes, expired, home, dataVars>>

(* Wait arms WaitDelay itself when the watcher handed over no timer.       *)
DrainArm ==
  /\ run = "drain"
  /\ copying
  /\ timer = "off"
  /\ timer' = "armed"
  /\ UNCHANGED <<treeVars, mainVars, watchVars, copying, pipes, expired, home, dataVars>>

DrainDone ==
  /\ run \in {"drain", "closing"}
  /\ ~copying
  /\ run' = "collect"
  /\ timer' = "off"
  /\ pipes' = FALSE
  /\ UNCHANGED <<treeVars, err, outcome, watchVars, copying, expired, home, dataVars>>

(* The delay is over: the pipes are cut and Run reports ErrWaitDelay.      *)
DrainOverrun ==
  /\ run = "drain"
  /\ timer = "fired"
  /\ run' = "closing"
  /\ pipes' = FALSE
  /\ err' = IF err = "none" THEN "delay" ELSE err
  /\ UNCHANGED <<treeVars, outcome, watchVars, timer, copying, expired, home, dataVars>>

-----------------------------------------------------------------------------
(* The watcher goroutine.                                                  *)

(* Mutant: the command has no WaitDelay.                                   *)
WatchCancelWithoutDelay ==
  /\ watcher = "select"
  /\ expired
  /\ KillTree
  /\ watcher' = "delay"
  /\ watchErr' = IF NoTarget THEN "none" ELSE "ctx"
  /\ UNCHANGED <<mainVars, ioVars, expired, home, dataVars>>

(* The deadline passes first: cmd.Cancel kills the tree.                   *)
WatchCancel ==
  /\ watcher = "select"
  /\ expired
  /\ KillTree
  /\ watcher' = "delay"
  /\ watchErr' = IF NoTarget THEN "none" ELSE "ctx"
  /\ timer' = "armed"
  /\ UNCHANGED <<mainVars, copying, pipes, expired, home, dataVars>>

(* WaitDelay after the cancel, Wait has still not taken the result: the    *)
(* leader is killed by handle and the pipes are cut.                       *)
WatchOverrun ==
  /\ watcher = "delay"
  /\ timer = "fired"
  /\ KillLeader
  /\ IF copying
     THEN /\ watcher' = "closing"
          /\ pipes' = FALSE
          /\ watchErr' = IF watchErr = "none" /\ Leader \notin Running
                         THEN "delay" ELSE watchErr
     ELSE /\ watcher' = "closed"
          /\ UNCHANGED <<pipes, watchErr>>
  /\ UNCHANGED <<mainVars, timer, copying, expired, home, dataVars>>

WatchClosed ==
  /\ watcher = "closing"
  /\ ~copying
  /\ watcher' = "closed"
  /\ UNCHANGED <<treeVars, mainVars, watchErr, ioVars, expired, home, dataVars>>

-----------------------------------------------------------------------------
(* The copiers and the clock.                                              *)

(* io.Copy takes whatever the pipe has and writes it to the buffer.        *)
Copy(n) ==
  /\ copying
  /\ pipes
  /\ copied + n <= written
  /\ copied' = copied + n
  /\ Write(n)
  /\ UNCHANGED <<treeVars, mainVars, watchVars, ioVars, expired, home, written>>

(* End of file: no process has the write end open and the pipe is empty.   *)
Drained == Holders = {} /\ copied = written

(* A copier ends at end of file, or when paldron closes its own end.       *)
CopyEnd ==
  /\ copying
  /\ Drained \/ ~pipes
  /\ copying' = FALSE
  /\ UNCHANGED <<treeVars, mainVars, watchVars, timer, pipes, expired, home, dataVars>>

TimerFire ==
  /\ timer = "armed"
  /\ timer' = "fired"
  /\ UNCHANGED <<treeVars, mainVars, watchVars, copying, pipes, expired, home, dataVars>>

Deadline ==
  /\ ~expired
  /\ run \notin {"idle", "sweep", "cleanup", "done"}
  /\ expired' = TRUE
  /\ UNCHANGED <<treeVars, mainVars, watchVars, ioVars, home, dataVars>>

-----------------------------------------------------------------------------
(* After cmd.Run.                                                          *)

(* Mutant: the error of Run is the result.                                 *)
CollectRawError ==
  /\ run = "collect"
  /\ run' = IF expired THEN "sweep" ELSE "cleanup"
  /\ outcome' = IF expired THEN "timeout" ELSE IF err = "none" THEN "ok" ELSE err
  /\ UNCHANGED <<treeVars, err, watchVars, ioVars, expired, home, dataVars>>

(* Mutant: an error that is not an exit code is left out of the result.    *)
CollectExitCodeOnly ==
  /\ run = "collect"
  /\ run' = IF expired THEN "sweep" ELSE "cleanup"
  /\ outcome' = IF expired THEN "timeout" ELSE IF err = "exit" THEN "exit" ELSE "ok"
  /\ UNCHANGED <<treeVars, err, watchVars, ioVars, expired, home, dataVars>>

(* Mutant: the error of Run is consulted before the deadline.              *)
CollectErrorFirst ==
  /\ run = "collect"
  /\ run' = IF expired /\ err = "ctx" THEN "sweep" ELSE "cleanup"
  /\ outcome' = CASE err = "none" -> "ok"
                   [] err = "exit" -> "exit"
                   [] err = "ctx"  -> "timeout"
                   [] OTHER -> "error"
  /\ UNCHANGED <<treeVars, err, watchVars, ioVars, expired, home, dataVars>>

(* The deadline is consulted before the error of Run.                      *)
Collect ==
  /\ run = "collect"
  /\ run' = IF expired THEN "sweep" ELSE "cleanup"
  /\ outcome' = IF expired THEN "timeout"
                ELSE CASE err = "none" -> "ok"
                       [] err = "exit" -> "exit"
                       [] OTHER -> "error"
  /\ UNCHANGED <<treeVars, err, watchVars, ioVars, expired, home, dataVars>>

(* Mutant: cmd.Cancel is trusted to have killed the group.                 *)
SweepNothing ==
  /\ run = "sweep"
  /\ run' = "cleanup"
  /\ UNCHANGED <<treeVars, err, outcome, watchVars, ioVars, expired, home, dataVars>>

(* killProcessTree: the kill is repeated, with nothing to kill if the      *)
(* command never started.                                                  *)
Sweep ==
  /\ run = "sweep"
  /\ IF Started THEN KillTree ELSE UNCHANGED treeVars
  /\ run' = "cleanup"
  /\ UNCHANGED <<err, outcome, watchVars, ioVars, expired, home, dataVars>>

(* The deferred RemoveAll, whose error is ignored: entries in use, written *)
(* again by a survivor or in a read-only directory are left behind.        *)
Cleanup ==
  /\ run = "cleanup"
  /\ run' = "done"
  /\ home' \in IF home = "none" THEN {"none"} ELSE {"removed", "left"}
  /\ UNCHANGED <<treeVars, err, outcome, watchVars, ioVars, expired, dataVars>>

-----------------------------------------------------------------------------
Launch == \E isolate \in BOOLEAN : Prepare(isolate)

MainStep == StartFailed \/ StartCommand \/ Reap \/ Handoff \/ DrainArm
            \/ DrainDone \/ DrainOverrun \/ Collect \/ Sweep \/ Cleanup

WatchStep == WatchCancel \/ WatchOverrun \/ WatchClosed

CopyStep == (\E n \in 1..MaxBytes : Copy(n)) \/ CopyEnd

(* A process writes to its output; bounded by MaxBytes in all.             *)
Output(n) ==
  /\ pipes
  /\ Holders # {}
  /\ written + n <= MaxBytes
  /\ written' = written + n
  /\ UNCHANGED <<treeVars, copied, bufferVars>>

(* The command's processes, which outlive the run if nothing kills them.   *)
ProcessStep ==
  /\ (TreeStep /\ UNCHANGED dataVars) \/ \E n \in 1..MaxBytes : Output(n)
  /\ UNCHANGED <<mainVars, watchVars, ioVars, expired, home>>

RunStep == Launch \/ Refuse \/ RefuseWithHome \/ MainStep \/ WatchStep
           \/ CopyStep \/ TimerFire \/ Deadline

(* The result was returned: nothing further is expected of the run.        *)
Returned == run = "done" /\ UNCHANGED vars

Next == RunStep \/ ProcessStep \/ Returned

(* The goroutines are scheduled and time passes.  Nothing is assumed of    *)
(* the command: it may hang, fork and hold the pipes for ever.             *)
Fairness ==
  /\ WF_vars(MainStep)
  /\ WF_vars(WatchStep)
  /\ WF_vars(CopyStep)
  /\ WF_vars(TimerFire)
  /\ WF_vars(Deadline)

Spec == Init /\ [][Next]_vars
FairSpec == Spec /\ Fairness

-----------------------------------------------------------------------------
(* A result without error means the command succeeded and the captured     *)
(* output is complete: nobody was left who could still write to the pipes, *)
(* and nothing was left in them, when the copiers ended                    *)
(* (sandbox.go:341-376).                                                   *)
SuccessIsComplete == outcome = "ok" => status = "ok" /\ Drained

(* Whatever chunks the copiers get, and whenever they are cut off, the     *)
(* captured output is the first Limit bytes of what was copied, and is     *)
(* marked as truncated exactly if bytes of it are missing                  *)
(* (sandbox.go:40-82).                                                     *)
OutputIsCapped == CapsAt(copied)

(* When a timeout is reported no process of the command's group is alive,  *)
(* whichever of cancel, exit and Wait came first (sandbox.go:360-366,      *)
(* proc_unix.go:13-36).                                                    *)
TimeoutKillsGroup ==
  platform = "unix" /\ outcome = "timeout" /\ run \in {"cleanup", "done"} => Members = {}

(* A run in which the watcher killed something is reported as a timeout,   *)
(* never as the success, exit code or error of the command: the deadline is *)
(* consulted before the error of Run (sandbox.go:360-375).                 *)
KillMeansTimeout == outcome \in {"ok", "exit", "error"} => watchErr = "none"

(* The ephemeral home exists as long as the leader may use it and its      *)
(* removal was attempted on every return path (sandbox.go:280-304).        *)
HomeForTheRun ==
  /\ run = "done" => home # "present"
  /\ home \in {"removed", "left"} => Leader \notin Running

(* Every command that is started returns a result, whatever it does with   *)
(* its group, its pipes and its children (sandbox.go:267-270, 340-341).    *)
Termination == run = "start" ~> run = "done"
==============================================================================
