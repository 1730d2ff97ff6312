---------------------------- MODULE SeccompFilter ----------------------------
(***************************************************************************)
(* The seccomp filter of isolation_linux.go.  seccompErrnoFilter lays out  *)
(* a classic BPF program with hand-counted jump offsets; the kernel runs   *)
(* it on every system call of the command, from the first instruction to   *)
(* the return it reaches.  The module interprets the program on every call *)
(* and compares where it ends with what the list of blocked calls says.    *)
(***************************************************************************)
EXTENDS Integers, Sequences

CONSTANTS Blocked,         \* the system calls refused to every command
          NetworkCalls,    \* those refused while the network is not allowed
          Numbers,         \* system call numbers
          X32Bit,          \* the number from which on calls are x32 calls
          Architectures,   \* audit architectures calls may come with
          Native           \* the one the filter is made for

ASSUME SeccompAssumption ==
  /\ Blocked \in Seq(Nat) /\ NetworkCalls \in Seq(Nat)
  /\ Numbers \subseteq Nat
  /\ X32Bit \in Nat

VARIABLES allowNetwork,   \* the policy's setting
          amd64,          \* the filter is built for amd64
          call,           \* the system call being filtered
          pc,             \* the instruction to execute
          acc,            \* the accumulator
          outcome         \* what the filter answered: "none" while it runs

program == <<allowNetwork, amd64>>
vars == <<program, call, pc, acc, outcome>>

-----------------------------------------------------------------------------
(* applySeccomp: the list of calls.                                        *)

(* Mutant: the network calls are added when the network is allowed.        *)
ListInverted == IF allowNetwork THEN Blocked \o NetworkCalls ELSE Blocked

List == IF allowNetwork THEN Blocked ELSE Blocked \o NetworkCalls

(* seccompErrnoFilter: the program.                                        *)
LoadArch == [code |-> "ld", k |-> "arch", jt |-> 0, jf |-> 0]
LoadNumber == [code |-> "ld", k |-> "nr", jt |-> 0, jf |-> 0]
JumpEqual(k, jt, jf) == [code |-> "jeq", k |-> k, jt |-> jt, jf |-> jf]
JumpAtLeast(k, jt, jf) == [code |-> "jge", k |-> k, jt |-> jt, jf |-> jf]
Return(k) == [code |-> "ret", k |-> k, jt |-> 0, jf |-> 0]

(* Mutant: the jump over the kill takes the first load along.              *)
PrologueJumpsFar ==
  <<LoadArch, JumpEqual(Native, 2, 0), Return("kill"), LoadNumber>> \o
    IF amd64 THEN <<JumpAtLeast(X32Bit, 0, 1), Return("kill")>> ELSE <<>>

Prologue ==
  <<LoadArch, JumpEqual(Native, 1, 0), Return("kill"), LoadNumber>> \o
    IF amd64 THEN <<JumpAtLeast(X32Bit, 0, 1), Return("kill")>> ELSE <<>>

(* Mutant: the jump over the return takes the next entry along.            *)
EntryJumpsFar(number) == <<JumpEqual(number, 0, 3), Return("errno")>>

(* Every call takes a comparison and a return.                             *)
Entry(number) == <<JumpEqual(number, 0, 1), Return("errno")>>

Start == Len(Prologue) + 1
At(k) == Start + 2 * (k - 1)       \* where the comparison with List[k] is
End == At(Len(List) + 1)           \* where the final return is

Filter ==
  [i \in 1 .. End |->
     IF i < Start THEN Prologue[i]
     ELSE IF i = End THEN Return("allow")
     ELSE LET k == (i - Start) \div 2 + 1
          IN  Entry(List[k])[IF i = At(k) THEN 1 ELSE 2]]

-----------------------------------------------------------------------------
(* The kernel's interpreter, and the calls that reach it one by one.       *)

Calls == [arch : Architectures, nr : Numbers]
Outcomes == {"kill", "errno", "allow"}

TypeOK ==
  /\ allowNetwork \in BOOLEAN /\ amd64 \in BOOLEAN
  /\ call \in Calls
  /\ pc \in 1 .. End
  /\ acc \in Numbers \cup Architectures \cup {0}
  /\ outcome \in Outcomes \cup {"none"}

Init ==
  /\ allowNetwork \in BOOLEAN /\ amd64 \in BOOLEAN
  /\ call \in Calls
  /\ pc = 1
  /\ acc = 0
  /\ outcome = "none"

Instruction == Filter[pc]

Load ==
  /\ Instruction.code = "ld"
  /\ acc' = IF Instruction.k = "arch" THEN call.arch ELSE call.nr
  /\ pc' = pc + 1
  /\ UNCHANGED outcome

Jump(holds) ==
  /\ pc' = pc + 1 + IF holds THEN Instruction.jt ELSE Instruction.jf
  /\ UNCHANGED <<acc, outcome>>

JumpIfEqual == Instruction.code = "jeq" /\ Jump(acc = Instruction.k)

JumpIfAtLeast == Instruction.code = "jge" /\ Jump(acc >= Instruction.k)

Answer ==
  /\ Instruction.code = "ret"
  /\ outcome' = Instruction.k
  /\ UNCHANGED <<pc, acc>>

Step ==
  /\ outcome = "none"
  /\ Load \/ JumpIfEqual \/ JumpIfAtLeast \/ Answer
  /\ UNCHANGED <<program, call>>

(* The next system call, unless the answer killed the process.             *)
NextCall ==
  /\ outcome \in {"errno", "allow"}
  /\ call' \in Calls
  /\ pc' = 1 /\ acc' = 0 /\ outcome' = "none"
  /\ UNCHANGED program

Killed == outcome = "kill" /\ UNCHANGED vars

Next == Step \/ NextCall \/ Killed

Spec == Init /\ [][Next]_vars

-----------------------------------------------------------------------------
(* What the list of calls says, in no particular order of comparison.      *)

Foreign == call.arch # Native \/ (amd64 /\ call.nr >= X32Bit)
Listed == \E k \in 1 .. Len(List) : List[k] = call.nr

(* A call of another architecture or numbering kills the command, a listed *)
(* call fails with EPERM and every other call is allowed: no offset in the *)
(* program skips or repeats a comparison, however long the list is and     *)
(* with or without the two instructions only amd64 has.                    *)
FilterDecides ==
  /\ outcome = "kill" => Foreign
  /\ outcome = "errno" => ~Foreign /\ Listed
  /\ outcome = "allow" => ~Foreign /\ ~Listed

(* The command cannot open a connection while the network is not allowed,  *)
(* and is never refused the network when it is.                            *)
NetworkFollowsPolicy ==
  \A k \in 1 .. Len(NetworkCalls) :
    call = [arch |-> Native, nr |-> NetworkCalls[k]] =>
      IF allowNetwork
      THEN outcome = "errno" => \E j \in 1 .. Len(Blocked) : Blocked[j] = call.nr
      ELSE outcome # "allow"
==============================================================================
