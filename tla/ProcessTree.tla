----------------------------- MODULE ProcessTree -----------------------------
(***************************************************************************)
(* The processes of one sandboxed command, as the kernel keeps them.       *)
(*                                                                         *)
(* internal/sandbox starts the command as the leader of a process group of *)
(* its own (proc_unix.go) and can signal that group by its number.  The    *)
(* command and its descendants fork, leave the group, close the output     *)
(* pipes they inherited, and exit, in any order.  The group's number is    *)
(* the leader's pid: once the leader is reaped and the group is empty the  *)
(* kernel may give it to a stranger.                                       *)
(***************************************************************************)
EXTENDS Naturals

CONSTANTS Procs,     \* the processes the command may consist of
          Leader     \* the process paldron itself starts

ASSUME TreeAssumption == Leader \in Procs

VARIABLES platform,  \* the build: "unix" (proc_unix.go) or "windows" (proc_windows.go)
          proc,      \* state of each process; only the leader is a zombie until reaped
          group,     \* processes in the leader's process group
          holds,     \* processes that hold the write end of an output pipe
          status,    \* exit status of the leader
          stranger   \* another program that got the group's number

treeVars == <<platform, proc, group, holds, status, stranger>>

TreeTypeOK ==
  /\ platform \in {"unix", "windows"}
  /\ proc \in [Procs -> {"none", "running", "zombie", "gone"}]
  /\ group \in SUBSET Procs
  /\ holds \in SUBSET Procs
  /\ status \in {"none", "ok", "bad"}
  /\ stranger \in {"none", "present", "killed"}

Running == {p \in Procs : proc[p] = "running"}
Members == Running \cap group
Holders == Running \cap holds
Started == proc[Leader] # "none"

TreeInit ==
  /\ platform \in {"unix", "windows"}
  /\ proc = [p \in Procs |-> "none"]
  /\ group = {}
  /\ holds = {}
  /\ status = "none"
  /\ stranger = "none"

-----------------------------------------------------------------------------
(* What paldron does to the tree.                                          *)

(* cmd.Start under setProcessGroup: the leader runs in a new group and     *)
(* holds the output pipes.                                                 *)
Spawn ==
  /\ proc' = [proc EXCEPT ![Leader] = "running"]
  /\ group' = {Leader}
  /\ holds' = {Leader}
  /\ UNCHANGED <<platform, status, stranger>>

(* SIGKILL to the processes of S.                                          *)
Die(S) ==
  /\ proc' = [p \in Procs |-> IF p \notin S THEN proc[p]
                              ELSE IF p = Leader THEN "zombie" ELSE "gone"]
  /\ status' = IF Leader \in S THEN "bad" ELSE status
  /\ UNCHANGED <<platform, group, holds>>

(* The processes a kill of the tree reaches, and whether it reaches        *)
(* nothing at all (ESRCH, os.ErrProcessDone).  Unix signals the group by   *)
(* number, Windows the direct child by handle.  A zombie in the group is   *)
(* still a target.                                                         *)
Targets == IF platform = "unix" THEN Members ELSE Running \cap {Leader}

NoTarget ==
  /\ Targets = {}
  /\ ~(proc[Leader] = "zombie" /\ Leader \in group)
  /\ stranger = "none"

KillTree ==
  /\ Die(Targets)
  /\ stranger' = IF stranger = "present" THEN "killed" ELSE stranger

(* os.Process.Kill: by handle, so never a stranger.                        *)
KillLeader == Die(Running \cap {Leader}) /\ UNCHANGED stranger

ReapLeader ==
  /\ proc[Leader] = "zombie"
  /\ proc' = [proc EXCEPT ![Leader] = "gone"]
  /\ UNCHANGED <<platform, group, holds, status, stranger>>

-----------------------------------------------------------------------------
(* What the processes do.                                                  *)

Fork(p, q) ==
  /\ p \in Running
  /\ proc[q] = "none"
  /\ q # Leader
  /\ proc' = [proc EXCEPT ![q] = "running"]
  /\ group' = IF p \in group THEN group \cup {q} ELSE group
  /\ holds' = IF p \in holds THEN holds \cup {q} ELSE holds
  /\ UNCHANGED <<platform, status, stranger>>

(* setsid or setpgid, which the seccomp filter lets through.  The leader   *)
(* cannot setsid, but setpgid moves it to another group of its session.    *)
Detach(p) ==
  /\ p \in Members
  /\ group' = group \ {p}
  /\ UNCHANGED <<platform, proc, holds, status, stranger>>

(* Standard output and error closed or redirected.                         *)
Release(p) ==
  /\ p \in Holders
  /\ holds' = holds \ {p}
  /\ UNCHANGED <<platform, proc, group, status, stranger>>

Exit(p) ==
  /\ p \in Running
  /\ proc' = [proc EXCEPT ![p] = IF p = Leader THEN "zombie" ELSE "gone"]
  /\ IF p = Leader THEN status' \in {"ok", "bad"} ELSE status' = status
  /\ UNCHANGED <<platform, group, holds, stranger>>

(* The kernel hands the number of the empty group to another program.      *)
Recycle ==
  /\ platform = "unix"
  /\ proc[Leader] = "gone"
  /\ Members = {}
  /\ stranger = "none"
  /\ stranger' = "present"
  /\ UNCHANGED <<platform, proc, group, holds, status>>

TreeStep ==
  \/ \E p, q \in Procs : Fork(p, q)
  \/ \E p \in Procs : Detach(p) \/ Release(p) \/ Exit(p)
  \/ Recycle
==============================================================================
