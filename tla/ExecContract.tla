---------------------------- MODULE ExecContract ----------------------------
(***************************************************************************)
(* What `paldron exec` promises its caller (cmd/paldron/main.go): a        *)
(* command is denied before it starts or after it succeeded, allowed only  *)
(* after it succeeded, and everything else is reported as broken.          *)
(*                                                                         *)
(* The exit code is 0 for "allow", 2 for "deny" and 1 for "broken".        *)
(***************************************************************************)

VARIABLES phase,    \* how far the request has come
          verdict   \* the exit code

vars == <<phase, verdict>>

Init == phase = "asked" /\ verdict = "none"

(* The command's process exists.                                           *)
Start == phase = "asked" /\ phase' = "started" /\ UNCHANGED verdict

(* It ended by itself, in time, with exit status 0.                        *)
Succeed == phase = "started" /\ phase' = "succeeded" /\ UNCHANGED verdict

Answer(from, answer) ==
  /\ phase \in from
  /\ phase' = "done"
  /\ verdict' = answer

Allow == Answer({"succeeded"}, "allow")
Deny  == Answer({"asked", "succeeded"}, "deny")
Break == Answer({"asked", "started"}, "broken")

Next == Start \/ Succeed \/ Allow \/ Deny \/ Break

Spec == Init /\ [][Next]_vars

(* A request that is being worked on is answered.                          *)
FairSpec == Spec /\ WF_vars(Next)
==============================================================================
