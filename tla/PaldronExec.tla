----------------------------- MODULE PaldronExec -----------------------------
(***************************************************************************)
(* `paldron exec`: runExec of cmd/paldron/main.go around the sandbox run   *)
(* of CommandRun.  The policy gate decides on the arguments, the sandbox   *)
(* runs the command, and the post-run verdict looks at what the run left   *)
(* behind: the files under the working directory, then, if the policy asks *)
(* for it, the captured output (Jev).                                      *)
(*                                                                         *)
(* The command's processes write files while all this goes on, the ones    *)
(* that outlive the command also during the scan and after the verdict.    *)
(***************************************************************************)
EXTENDS CommandRun

CONSTANTS Files,       \* paths under the working directory
          Denied,      \* those a deny glob or a secret glob matches
          Skipped,     \* those below a .git or .annalist directory
          Backdating   \* a file may be given a modification time before start:
                       \* by rename, by utimes or by a coarse file system clock

ASSUME FilesAssumption ==
  Denied \subseteq Files /\ Skipped \subseteq Files /\ Backdating \in BOOLEAN

VARIABLES policy,    \* the settings runExec branches on
          stage,     \* where runExec is
          verdict,   \* its exit code, as in ExecContract
          files,     \* each path, by what the scan can see of it
          unseen,    \* files the walk does not reach
          todo,      \* files the walk has still to visit
          hit,       \* the scan found a denied file
          answer,    \* what the Jev judge said of the output
          quiet      \* history: no process was left when the run returned

policyVars == <<policy>>
scanVars   == <<todo, hit>>
fileVars   == <<files, unseen>>
execVars   == <<policy, stage, verdict, fileVars, scanVars, answer, quiet>>
allVars    == <<vars, execVars>>

Policies == [isolation : BOOLEAN, jev : {"off", "deny", "allow"}]

ExecTypeOK ==
  /\ TypeOK
  /\ policy \in Policies
  /\ stage \in {"gate", "preflight", "sandbox", "scan", "judge", "exited"}
  /\ verdict \in {"none", "allow", "deny", "broken"}
  /\ files \in [Files -> {"absent", "old", "fresh", "backdated"}]
  /\ unseen \in SUBSET Files
  /\ todo \in SUBSET Files
  /\ hit \in BOOLEAN
  /\ answer \in {"none", "clean", "exposed", "hostile", "unavailable"}
  /\ quiet \in BOOLEAN

ExecInit ==
  /\ Init
  /\ policy \in Policies
  /\ stage = "gate"
  /\ verdict = "none"
  /\ files \in [Files -> {"absent", "old"}]
  /\ unseen = Skipped
  /\ todo = {}
  /\ hit = FALSE
  /\ answer = "none"
  /\ quiet = FALSE

-----------------------------------------------------------------------------
(* runExec.                                                                *)

ExitWith(v) == stage' = "exited" /\ verdict' = v

(* No command, or no working directory.                                    *)
GateBroken ==
  /\ stage = "gate"
  /\ ExitWith("broken")
  /\ UNCHANGED <<vars, policy, fileVars, scanVars, answer, quiet>>

(* The binary is not listed, or EvalPath objects to an argument.           *)
GateDeny ==
  /\ stage = "gate"
  /\ ExitWith("deny")
  /\ UNCHANGED <<vars, policy, fileVars, scanVars, answer, quiet>>

GatePass ==
  /\ stage = "gate"
  /\ stage' = "preflight"
  /\ UNCHANGED <<vars, policy, verdict, fileVars, scanVars, answer, quiet>>

(* The isolation the policy requires is missing: no helper path, no kernel *)
(* support, or the sandbox disagrees when it is asked again.               *)
PreflightBroken ==
  /\ stage = "preflight"
  /\ policy.isolation
  /\ ExitWith("broken")
  /\ UNCHANGED <<vars, policy, fileVars, scanVars, answer, quiet>>

PreflightPass ==
  /\ stage = "preflight"
  /\ policy.isolation => platform = "unix"
  /\ stage' = "sandbox"
  /\ UNCHANGED <<vars, policy, verdict, fileVars, scanVars, answer, quiet>>

(* The checks of executeParts and the construction of the command, which   *)
(* gets isolation if the policy says so.                                   *)
EnterSandbox ==
  /\ stage = "sandbox"
  /\ Prepare(policy.isolation) \/ Refuse \/ (policy.isolation /\ RefuseWithHome)

SandboxStep ==
  /\ EnterSandbox \/ MainStep \/ WatchStep \/ CopyStep \/ TimerFire \/ Deadline
  /\ UNCHANGED execVars

(* Mutant: the exit code of the command is not looked at.                  *)
DecideIgnoringExitCode ==
  /\ stage = "sandbox"
  /\ run = "done"
  /\ IF outcome \in {"ok", "exit"}
     THEN stage' = "scan" /\ todo' = Files /\ UNCHANGED verdict
     ELSE ExitWith("broken") /\ UNCHANGED todo
  /\ quiet' = (Running = {})
  /\ UNCHANGED <<vars, policy, fileVars, hit, answer>>

(* Mutant: a timeout is reported as a denial.                              *)
DecideDenyTimeout ==
  /\ stage = "sandbox"
  /\ run = "done"
  /\ IF outcome = "ok"
     THEN stage' = "scan" /\ todo' = Files /\ UNCHANGED verdict
     ELSE ExitWith(IF outcome = "timeout" THEN "deny" ELSE "broken") /\ UNCHANGED todo
  /\ quiet' = (Running = {})
  /\ UNCHANGED <<vars, policy, fileVars, hit, answer>>

(* The error, the timeout and the exit code of the result, in this order,  *)
(* end the request; a clean result goes to the scan.                       *)
Decide ==
  /\ stage = "sandbox"
  /\ run = "done"
  /\ IF outcome = "ok"
     THEN stage' = "scan" /\ todo' = Files /\ UNCHANGED verdict
     ELSE ExitWith("broken") /\ UNCHANGED todo
  /\ quiet' = (Running = {})
  /\ UNCHANGED <<vars, policy, fileVars, hit, answer>>

(* Mutant: the comparison with start is the wrong way round.               *)
ScanVisitOldOnly(f) ==
  /\ stage = "scan"
  /\ f \in todo
  /\ ~hit
  /\ todo' = todo \ {f}
  /\ hit' = (f \in Denied \ unseen /\ files[f] \notin {"fresh", "absent"})
  /\ UNCHANGED <<vars, policy, stage, verdict, fileVars, answer, quiet>>

(* scanOutputs looks at one file: its directory entry and its modification *)
(* time are read here, and what is written to it later is not noticed.     *)
ScanVisit(f) ==
  /\ stage = "scan"
  /\ f \in todo
  /\ ~hit
  /\ todo' = todo \ {f}
  /\ hit' = (f \in Denied \ unseen /\ files[f] = "fresh")
  /\ UNCHANGED <<vars, policy, stage, verdict, fileVars, answer, quiet>>

(* The verdict of the scan, or on to the judge.                            *)
ScanEnd ==
  /\ stage = "scan"
  /\ todo = {} \/ hit
  /\ IF hit THEN ExitWith("deny") ELSE stage' = "judge" /\ UNCHANGED verdict
  /\ UNCHANGED <<vars, policy, fileVars, scanVars, answer, quiet>>

(* jevOutputVerdict when the policy asks for it: an HTTP call that may     *)
(* fail, and two probabilities compared with the threshold.                *)
AskJev ==
  /\ stage = "judge"
  /\ policy.jev # "off"
  /\ answer = "none"
  /\ answer' \in {"clean", "exposed", "hostile", "unavailable"}
  /\ UNCHANGED <<vars, policy, stage, verdict, fileVars, scanVars, quiet>>

Tolerated(a) == a = "clean" \/ (a = "unavailable" /\ policy.jev = "allow")

(* Mutant: the answer itself is the verdict.                               *)
JudgeRawAnswer ==
  /\ stage = "judge"
  /\ policy.jev = "off" \/ answer # "none"
  /\ ExitWith(IF policy.jev = "off" \/ Tolerated(answer) THEN "allow" ELSE answer)
  /\ UNCHANGED <<vars, policy, fileVars, scanVars, answer, quiet>>

(* Mutant: the error of the call is retried for ever.                      *)
JudgeAnswersOnly ==
  /\ stage = "judge"
  /\ policy.jev = "off" \/ answer \notin {"none", "unavailable"}
  /\ ExitWith(IF policy.jev = "off" \/ Tolerated(answer) THEN "allow" ELSE "deny")
  /\ UNCHANGED <<vars, policy, fileVars, scanVars, answer, quiet>>

(* The verdict on the judgement, which is the answer to the request.       *)
Judge ==
  /\ stage = "judge"
  /\ policy.jev = "off" \/ answer # "none"
  /\ ExitWith(IF policy.jev = "off" \/ Tolerated(answer) THEN "allow" ELSE "deny")
  /\ UNCHANGED <<vars, policy, fileVars, scanVars, answer, quiet>>

-----------------------------------------------------------------------------
(* The command's processes, on the file system.  What they do to it after  *)
(* paldron has answered is nobody's concern here.                          *)

Touch(p, f) ==
  /\ stage # "exited"
  /\ p \in Running
  /\ \E state \in {"fresh", "absent"} \cup (IF Backdating THEN {"backdated"} ELSE {}) :
       files' = [files EXCEPT ![f] = state]
  /\ UNCHANGED <<vars, policy, stage, verdict, unseen, scanVars, answer, quiet>>

(* The directory of f becomes unreadable: WalkDir reports the error, the   *)
(* callback returns nil and the walk goes on without it.  The seccomp      *)
(* filter refuses chmod, but not a directory made without permissions.     *)
Seal(p, f) ==
  /\ stage # "exited"
  /\ p \in Running
  /\ unseen' = unseen \cup {f}
  /\ UNCHANGED <<vars, policy, stage, verdict, files, scanVars, answer, quiet>>

CommandStep ==
  \/ ProcessStep /\ UNCHANGED execVars
  \/ \E p \in Procs, f \in Files : Touch(p, f) \/ Seal(p, f)

-----------------------------------------------------------------------------
GateStep == GateBroken \/ GateDeny \/ GatePass \/ PreflightBroken \/ PreflightPass

VerdictStep == Decide \/ (\E f \in Files : ScanVisit(f)) \/ ScanEnd \/ AskJev \/ Judge

Exited == stage = "exited" /\ UNCHANGED allVars

ExecNext == GateStep \/ SandboxStep \/ VerdictStep \/ CommandStep \/ Exited

ExecSpec == ExecInit /\ [][ExecNext]_allVars

(* runExec is one goroutine, and the run it waits for has the fairness of  *)
(* CommandRun.  The command is still free to do anything, or nothing.      *)
ExecFairSpec ==
  /\ ExecSpec
  /\ WF_allVars(GateStep)
  /\ WF_allVars(VerdictStep)
  /\ WF_allVars(EnterSandbox /\ UNCHANGED execVars)
  /\ WF_allVars(MainStep /\ UNCHANGED execVars)
  /\ WF_allVars(WatchStep /\ UNCHANGED execVars)
  /\ WF_allVars(CopyStep /\ UNCHANGED execVars)
  /\ WF_allVars(TimerFire /\ UNCHANGED execVars)
  /\ WF_allVars(Deadline /\ UNCHANGED execVars)

-----------------------------------------------------------------------------
(* Exit 0 is only given to a command that ended with status 0, before its  *)
(* deadline, with complete output, without a denied file in what the scan  *)
(* saw, and with the judgement the policy requires (main.go:211-234).      *)
AllowIsEarned ==
  verdict = "allow" =>
    /\ status = "ok" /\ outcome = "ok" /\ Drained
    /\ home # "present"
    /\ todo = {} /\ ~hit
    /\ policy.jev = "off" \/ Tolerated(answer)

(* If the command left no process behind, exit 0 means that no denied file *)
(* the walk can reach was written with a modification time at or after the *)
(* start of the run (main.go:210, 222-227, 272-308).                       *)
QuietRunIsClean ==
  verdict = "allow" /\ quiet => \A f \in Denied \ unseen : files[f] # "fresh"

(* What runExec promises, whatever the sandbox run goes through.           *)
Phase == CASE stage = "exited"           -> "done"
           [] stage \in {"scan", "judge"} -> "succeeded"
           [] OTHER -> IF Started THEN "started" ELSE "asked"

Contract == INSTANCE ExecContract WITH phase <- Phase

ImplementsContract == Contract!Spec
AnswersEveryRequest == Contract!FairSpec

-----------------------------------------------------------------------------
(* A claim of a comment that the code does not keep.                       *)

(* "Any deny/secret-glob file (re)written by this run flips the verdict to *)
(* deny" (main.go:222-224): exit 0 means that no file the policy denies    *)
(* was written by the run.                                                 *)
AllowedRunIsClean ==
  verdict = "allow" => \A f \in Denied \ unseen : files[f] \notin {"fresh", "backdated"}
==============================================================================
