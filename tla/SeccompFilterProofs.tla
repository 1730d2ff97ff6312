-------------------------- MODULE SeccompFilterProofs --------------------------
(***************************************************************************)
(* The filter of SeccompFilter is right for every list of calls.           *)
(*                                                                         *)
(* The argument follows the program counter: at the comparison with the    *)
(* k-th call of the list the accumulator holds the number of the call and  *)
(* none of the k - 1 calls before is it; at the return behind it, the k-th *)
(* is.  FilterLayout says where the comparisons are.                       *)
(***************************************************************************)
EXTENDS SeccompFilter, TLAPS

(* The list of blocked calls is a finite sequence of numbers.              *)
LEMMA ListType == List \in Seq(Nat) /\ Len(List) \in Nat
BY SeccompAssumption DEF List, SeccompAssumption

(* What the first instructions are, with and without the two for amd64.    *)
LEMMA PrologueLayout ==
  /\ Prologue[1] = LoadArch
  /\ Prologue[2] = JumpEqual(Native, 1, 0)
  /\ Prologue[3] = Return("kill")
  /\ Prologue[4] = LoadNumber
  /\ ~amd64 => Len(Prologue) = 4
  /\ amd64 => /\ Len(Prologue) = 6
              /\ Prologue[5] = JumpAtLeast(X32Bit, 0, 1)
              /\ Prologue[6] = Return("kill")
<1>1. CASE amd64 BY <1>1, SMT DEF Prologue
<1>2. CASE ~amd64
  <2>1. Prologue = <<LoadArch, JumpEqual(Native, 1, 0), Return("kill"), LoadNumber>> \o <<>>
    BY <1>2 DEF Prologue
  <2> QED BY <1>2, <2>1, SMT
<1> QED BY <1>1, <1>2

(* Where the program starts to compare, and how far it goes.               *)
LEMMA Positions ==
  /\ Start = IF amd64 THEN 7 ELSE 5
  /\ End = Start + 2 * Len(List)
  /\ Start \in Nat /\ End \in Nat /\ Start <= End
  /\ \A k \in 1 .. Len(List) :
       /\ At(k) = Start + 2 * (k - 1)
       /\ At(k) \in Start .. End - 2
<1>1. Start = IF amd64 THEN 7 ELSE 5
  <2>1. CASE amd64
    <3>1. Len(Prologue) = 6 BY <2>1, PrologueLayout
    <3> QED BY <2>1, <3>1 DEF Start
  <2>2. CASE ~amd64
    <3>1. Len(Prologue) = 4 BY <2>2, PrologueLayout
    <3> QED BY <2>2, <3>1 DEF Start
  <2> QED BY <2>1, <2>2
<1>2. Start \in Nat BY <1>1
<1>3. End = Start + 2 * Len(List) BY <1>2, ListType, SMT DEF End, At
<1>4. ASSUME NEW k \in 1 .. Len(List)
      PROVE  At(k) = Start + 2 * (k - 1) /\ At(k) \in Start .. End - 2
  BY <1>2, <1>3, ListType, SMT DEF At
<1> QED BY <1>1, <1>2, <1>3, <1>4, ListType, SMT

(* The division that finds the entry an instruction belongs to.            *)
LEMMA Halves ==
  \A m \in Nat : (2 * m) \div 2 = m /\ (2 * m + 1) \div 2 = m
BY SMT

(* What every instruction of seccompErrnoFilter is: the prologue, a        *)
(* comparison and a return for each call of the list, the final return.    *)
LEMMA FilterLayout ==
  /\ \A i \in 1 .. Start - 1 : Filter[i] = Prologue[i]
  /\ Filter[End] = Return("allow")
  /\ \A k \in 1 .. Len(List) :
       /\ Filter[At(k)] = JumpEqual(List[k], 0, 1)
       /\ Filter[At(k) + 1] = Return("errno")
  /\ \A i \in Start .. End - 1 : \E k \in 1 .. Len(List) : i = At(k) \/ i = At(k) + 1
<1>1. ASSUME NEW i \in 1 .. Start - 1 PROVE Filter[i] = Prologue[i]
  BY Positions, ListType, SMT DEF Filter
<1>2. Filter[End] = Return("allow")
  BY Positions, ListType, SMT DEF Filter
<1>3. ASSUME NEW k \in 1 .. Len(List)
      PROVE  /\ Filter[At(k)] = JumpEqual(List[k], 0, 1)
             /\ Filter[At(k) + 1] = Return("errno")
  <2> DEFINE i == At(k) + 1
  <2>0. /\ At(k) = Start + 2 * (k - 1) /\ End = Start + 2 * Len(List)
        /\ Start \in Nat /\ Start # 0 /\ Len(List) \in Nat /\ k \in 1 .. Len(List)
    BY Positions, ListType
  <2>1. /\ At(k) \in 1 .. End /\ ~(At(k) < Start) /\ At(k) # End
        /\ i \in 1 .. End /\ ~(i < Start) /\ i # End
    BY <2>0, SMT
  <2>2. (At(k) - Start) \div 2 + 1 = k /\ (i - Start) \div 2 + 1 = k
    <3>1. k - 1 \in Nat BY ListType
    <3>2. At(k) - Start = 2 * (k - 1) /\ i - Start = 2 * (k - 1) + 1
      BY <2>0, SMT
    <3>3. (At(k) - Start) \div 2 = k - 1 /\ (i - Start) \div 2 = k - 1
      BY <3>1, <3>2, Halves
    <3> QED BY <3>3, ListType
  <2>3. Filter[At(k)] = Entry(List[k])[1]
    BY <2>1, <2>2 DEF Filter
  <2>4. i # At(k) BY Positions, SMT
  <2>5. Filter[i] = Entry(List[k])[2]
    <3> HIDE DEF i
    <3>1. Filter[i] = Entry(List[k])[IF i = At(k) THEN 1 ELSE 2]
      BY <2>1, <2>2 DEF Filter
    <3> QED BY <3>1, <2>4
  <2> QED BY <2>3, <2>5 DEF Entry
<1>4. ASSUME NEW i \in Start .. End - 1
      PROVE  \E k \in 1 .. Len(List) : i = At(k) \/ i = At(k) + 1
  <2> DEFINE k == (i - Start) \div 2 + 1
  <2>1. k \in 1 .. Len(List) BY Positions, ListType, SMT
  <2>2. i = Start + 2 * (k - 1) \/ i = Start + 2 * (k - 1) + 1
    BY Positions, SMT
  <2>3. i = At(k) \/ i = At(k) + 1 BY <2>1, <2>2, Positions
  <2> QED BY <2>1, <2>3
<1> QED BY <1>1, <1>2, <1>3, <1>4

-----------------------------------------------------------------------------
(* What is known of the call at instruction p with a in the accumulator.   *)
TrackedAt(p, a) ==
  /\ p = 2 => a = call.arch
  /\ p = 3 => call.arch # Native
  /\ p >= 4 => call.arch = Native
  /\ p >= 5 => a = call.nr
  /\ amd64 /\ p = 6 => call.nr >= X32Bit
  /\ amd64 /\ p >= 7 => ~(call.nr >= X32Bit)
  /\ \A k \in 1 .. Len(List) :
       /\ At(k) + 1 < p => List[k] # call.nr
       /\ p = At(k) + 1 => List[k] = call.nr

FilterInv == TypeOK /\ TrackedAt(pc, acc) /\ FilterDecides

(* Nothing has been compared yet at the first instruction.                 *)
LEMMA FirstInstruction == ASSUME NEW a PROVE TrackedAt(1, a)
BY Positions DEF TrackedAt

(* The invariant holds when the first call arrives.                        *)
LEMMA FilterInvInit == Init => FilterInv
<1> SUFFICES ASSUME Init PROVE FilterInv OBVIOUS
<1>1. 1 \in 1 .. End BY Positions
<1>2. TypeOK BY <1>1 DEF Init, TypeOK
<1> QED BY <1>2, FirstInstruction DEF Init, FilterInv, FilterDecides, Outcomes

(* The program does not change, so neither do its positions.               *)
LEMMA ProgramFixed ==
  UNCHANGED program =>
    /\ List' = List /\ Start' = Start /\ End' = End /\ Filter' = Filter
    /\ allowNetwork' = allowNetwork /\ amd64' = amd64
    /\ \A k \in 1 .. Len(List) : At(k)' = At(k)
BY DEF program, List, Prologue, Start, At, End, Filter

(* What a state of the filter must be, its program being that of before.   *)
LEMMA FilterInvFixed ==
  ASSUME UNCHANGED program, TypeOK,
         call' \in Calls, pc' \in 1 .. End,
         acc' \in Numbers \cup Architectures \cup {0},
         outcome' \in Outcomes \cup {"none"},
         TrackedAt(pc, acc)', FilterDecides'
  PROVE  FilterInv'
BY ProgramFixed DEF FilterInv, TypeOK

(* An instruction of the program, executed.                                *)
LEMMA Executed ==
  ASSUME FilterInv, Step
  PROVE  /\ pc' \in 1 .. End
         /\ acc' \in Numbers \cup Architectures \cup {0}
         /\ outcome' \in Outcomes \cup {"none"}
         /\ TrackedAt(pc', acc')
         /\ outcome' = "kill" => Foreign
         /\ outcome' = "errno" => ~Foreign /\ Listed
         /\ outcome' = "allow" => ~Foreign /\ ~Listed
<1> USE DEF FilterInv, TypeOK, Outcomes
<1>0. /\ pc \in 1 .. End /\ outcome = "none" /\ TrackedAt(pc, acc)
      /\ Load \/ JumpIfEqual \/ JumpIfAtLeast \/ Answer
  BY DEF Step
<1>1. CASE pc < Start
  <2>1. Instruction = Prologue[pc] BY <1>0, <1>1, FilterLayout, Positions DEF Instruction
  <2>2. pc \in 1 .. 4 \/ (amd64 /\ pc \in 5 .. 6) BY <1>0, <1>1, Positions
  <2>3. CASE pc = 1
    <3>1. acc' = call.arch /\ pc' = 2 /\ outcome' = outcome
      BY <2>1, <2>3, <1>0, PrologueLayout
      DEF Load, JumpIfEqual, JumpIfAtLeast, Answer, LoadArch
    <3> QED BY <3>1, <1>0, Positions DEF TrackedAt, Calls
  <2>4. CASE pc = 2
    <3>1. /\ acc' = acc /\ outcome' = outcome
          /\ pc' = IF acc = Native THEN 4 ELSE 3
      BY <2>1, <2>4, <1>0, PrologueLayout
      DEF Load, JumpIfEqual, JumpIfAtLeast, Answer, JumpEqual, Jump
    <3>2. acc = call.arch BY <2>4, <1>0 DEF TrackedAt
    <3>3. \A k \in 1 .. Len(List) : At(k) >= 5 /\ At(k) \in Nat BY Positions
    <3>4. pc' = 4 => call.arch = Native BY <3>1, <3>2
    <3>5. pc' = 3 => call.arch # Native BY <3>1, <3>2
    <3>6. pc' \in {3, 4} BY <3>1
    <3>7. TrackedAt(pc', acc') BY <3>3, <3>4, <3>5, <3>6 DEF TrackedAt
    <3>8. pc' \in 1 .. End BY <3>6, Positions
    <3> QED BY <3>1, <3>7, <3>8, <1>0
  <2>5. CASE pc = 3
    <3>1. pc' = pc /\ acc' = acc /\ outcome' = "kill"
      BY <2>1, <2>5, <1>0, PrologueLayout
      DEF Load, JumpIfEqual, JumpIfAtLeast, Answer, Return
    <3> QED BY <3>1, <2>5, <1>0 DEF TrackedAt, Foreign
  <2>6. CASE pc = 4
    <3>1. acc' = call.nr /\ pc' = 5 /\ outcome' = outcome
      BY <2>1, <2>6, <1>0, PrologueLayout
      DEF Load, JumpIfEqual, JumpIfAtLeast, Answer, LoadNumber
    <3> QED BY <3>1, <2>6, <1>0, Positions DEF TrackedAt, Calls
  <2>7. CASE amd64 /\ pc = 5
    <3>1. /\ acc' = acc /\ outcome' = outcome
          /\ pc' = IF acc >= X32Bit THEN 6 ELSE 7
      BY <2>1, <2>7, <1>0, PrologueLayout
      DEF Load, JumpIfEqual, JumpIfAtLeast, Answer, JumpAtLeast, Jump
    <3> QED BY <3>1, <2>7, <1>0, Positions DEF TrackedAt
  <2>8. CASE amd64 /\ pc = 6
    <3>1. pc' = pc /\ acc' = acc /\ outcome' = "kill"
      BY <2>1, <2>8, <1>0, PrologueLayout
      DEF Load, JumpIfEqual, JumpIfAtLeast, Answer, Return
    <3> QED BY <3>1, <2>8, <1>0 DEF TrackedAt, Foreign
  <2> QED BY <2>2, <2>3, <2>4, <2>5, <2>6, <2>7, <2>8
<1>2. CASE pc >= Start
  <2>0. ~Foreign
    BY <1>0, <1>2, Positions DEF TrackedAt, Foreign
  <2>1. CASE pc = End
    <3>1. pc' = pc /\ acc' = acc /\ outcome' = "allow"
      BY <2>1, <1>0, FilterLayout
      DEF Instruction, Load, JumpIfEqual, JumpIfAtLeast, Answer, Return
    <3>2. ~Listed BY <1>0, <2>1, Positions DEF TrackedAt, Listed
    <3> QED BY <3>1, <3>2, <2>0, <1>0
  <2>2. CASE \E k \in 1 .. Len(List) : pc = At(k)
    <3>1. PICK k \in 1 .. Len(List) : pc = At(k) BY <2>2
    <3>2. /\ acc' = acc /\ outcome' = outcome
          /\ pc' = IF acc = List[k] THEN At(k) + 1 ELSE At(k) + 2
      <4>1. Instruction = JumpEqual(List[k], 0, 1)
        BY <3>1, FilterLayout DEF Instruction
      <4>2. JumpIfEqual
        <5>1. Instruction.code = "jeq" BY <4>1 DEF JumpEqual
        <5> QED BY <5>1, <1>0 DEF Load, JumpIfAtLeast, Answer
      <4>3. /\ acc' = acc /\ outcome' = outcome
            /\ pc' = pc + 1 + IF acc = List[k] THEN 0 ELSE 1
        BY <4>1, <4>2 DEF JumpIfEqual, Jump, JumpEqual
      <4>4. At(k) \in Nat BY Positions
      <4> QED BY <4>3, <4>4, <3>1
    <3>3. acc = call.nr /\ pc >= 5 BY <1>0, <1>2, Positions DEF TrackedAt
    <3>4. pc' \in 1 .. End BY <3>1, <3>2, Positions
    <3>5. ASSUME NEW j \in 1 .. Len(List)
          PROVE  /\ At(j) + 1 < pc' => List[j] # call.nr
                 /\ pc' = At(j) + 1 => List[j] = call.nr
      <4>1. /\ At(j) = Start + 2 * (j - 1) /\ At(k) = Start + 2 * (k - 1)
            /\ Start \in Nat /\ j \in Int /\ k \in Int
        BY Positions, ListType
      <4>2. At(j) + 1 < At(k) => List[j] # call.nr BY <1>0, <3>1 DEF TrackedAt
      <4>3. CASE acc = List[k]
        <5>1. At(j) + 1 < pc' => At(j) + 1 < At(k) BY <4>1, <4>3, <3>2, SMT
        <5>2. pc' = At(j) + 1 => j = k BY <4>1, <4>3, <3>2, SMT
        <5> QED BY <5>1, <5>2, <4>2, <4>3, <3>3
      <4>4. CASE acc # List[k]
        <5>1. At(j) + 1 < pc' => At(j) + 1 < At(k) \/ j = k BY <4>1, <4>4, <3>2, SMT
        <5>2. pc' # At(j) + 1 BY <4>1, <4>4, <3>2, SMT
        <5> QED BY <5>1, <5>2, <4>2, <4>4, <3>3
      <4> QED BY <4>3, <4>4
    <3>6. TrackedAt(pc', acc')
      <4>1. At(k) \in Nat /\ At(k) >= 5 /\ (amd64 => At(k) >= 7)
        BY <3>1, <1>2, Positions
      <4>2. pc' > 5 /\ pc' \in Nat /\ (amd64 => pc' > 7)
        BY <3>2, <4>1
      <4>3. call.arch = Native /\ acc' = call.nr
        BY <3>1, <3>2, <3>3, <4>1, <1>0 DEF TrackedAt
      <4>4. amd64 => ~(call.nr >= X32Bit)
        BY <3>1, <4>1, <1>0 DEF TrackedAt
      <4> QED BY <3>5, <4>2, <4>3, <4>4 DEF TrackedAt
    <3> QED BY <3>2, <3>4, <3>6, <1>0
  <2>3. CASE \E k \in 1 .. Len(List) : pc = At(k) + 1
    <3>1. PICK k \in 1 .. Len(List) : pc = At(k) + 1 BY <2>3
    <3>2. pc' = pc /\ acc' = acc /\ outcome' = "errno"
      BY <3>1, <1>0, FilterLayout
      DEF Instruction, Load, JumpIfEqual, JumpIfAtLeast, Answer, Return
    <3>3. Listed BY <1>0, <3>1 DEF TrackedAt, Listed
    <3> QED BY <3>2, <3>3, <2>0, <1>0
  <2> QED BY <2>1, <2>2, <2>3, <1>0, <1>2, FilterLayout, Positions
<1> QED BY <1>0, <1>1, <1>2, Positions

(* Every instruction keeps the invariant.                                  *)
LEMMA FilterInvNext == FilterInv /\ [Next]_vars => FilterInv'
<1> SUFFICES ASSUME FilterInv, [Next]_vars PROVE FilterInv' OBVIOUS
<1>1. CASE Step
  <2>1. UNCHANGED program /\ call' = call BY <1>1 DEF Step
  <2>2. TrackedAt(pc, acc)'
    BY <1>1, <2>1, Executed, ProgramFixed DEF TrackedAt
  <2>3. FilterDecides'
    BY <1>1, <2>1, Executed, ProgramFixed DEF FilterDecides, Foreign, Listed
  <2> QED BY <1>1, <2>1, <2>2, <2>3, Executed, FilterInvFixed DEF FilterInv, TypeOK
<1>2. CASE NextCall
  <2>1. UNCHANGED program /\ call' \in Calls /\ pc' = 1 /\ acc' = 0 /\ outcome' = "none"
    BY <1>2 DEF NextCall
  <2>2. TrackedAt(pc, acc)'
    BY <2>1, ProgramFixed, Positions DEF TrackedAt
  <2>3. pc' \in 1 .. End BY <2>1, Positions
  <2>4. FilterDecides' BY <2>1 DEF FilterDecides
  <2> QED BY <2>1, <2>2, <2>3, <2>4, FilterInvFixed DEF FilterInv
<1>3. CASE UNCHANGED vars
  <2>1. UNCHANGED program /\ call' = call /\ pc' = pc /\ acc' = acc /\ outcome' = outcome
    BY <1>3 DEF vars
  <2>2. TrackedAt(pc, acc)' BY <2>1, ProgramFixed DEF TrackedAt, FilterInv
  <2>3. FilterDecides' BY <2>1, ProgramFixed DEF FilterDecides, Foreign, Listed, FilterInv
  <2> QED BY <2>1, <2>2, <2>3, FilterInvFixed DEF FilterInv, TypeOK
<1> QED BY <1>1, <1>2, <1>3 DEF Next, Killed

-----------------------------------------------------------------------------
(* Every state of the interpreter satisfies the invariant above.           *)
THEOREM FilterInvariant == Spec => []FilterInv
BY FilterInvInit, FilterInvNext, PTL DEF Spec

(* The interpreter stays inside the program, and its values have their     *)
(* types.                                                                  *)
THEOREM FilterTypeCorrect == Spec => []TypeOK
<1>1. FilterInv => TypeOK BY DEF FilterInv
<1> QED BY <1>1, FilterInvariant, PTL

(* The filter answers every call as the list says, for every list, every   *)
(* numbering and both layouts of the program.                              *)
THEOREM FilterIsRight == Spec => []FilterDecides
<1>1. FilterInv => FilterDecides BY DEF FilterInv
<1> QED BY <1>1, FilterInvariant, PTL

(* The network calls are refused exactly while the network is not allowed. *)
THEOREM NetworkAsPolicySays == Spec => []NetworkFollowsPolicy
<1>1. FilterInv => NetworkFollowsPolicy
  <2> SUFFICES ASSUME FilterInv, NEW k \in 1 .. Len(NetworkCalls),
                      call = [arch |-> Native, nr |-> NetworkCalls[k]]
               PROVE  IF allowNetwork
                      THEN outcome = "errno" => \E j \in 1 .. Len(Blocked) : Blocked[j] = call.nr
                      ELSE outcome # "allow"
    BY DEF NetworkFollowsPolicy
  <2>1. CASE allowNetwork
    <3>1. List = Blocked BY <2>1 DEF List
    <3> QED BY <2>1, <3>1 DEF FilterInv, FilterDecides, Listed
  <2>2. CASE ~allowNetwork
    <3>1. List = Blocked \o NetworkCalls BY <2>2 DEF List
    <3>2. Len(Blocked) + k \in 1 .. Len(List) /\ List[Len(Blocked) + k] = NetworkCalls[k]
      BY <3>1, SeccompAssumption, SMT DEF SeccompAssumption
    <3>3. Listed BY <3>2 DEF Listed
    <3> QED BY <2>2, <3>3 DEF FilterInv, FilterDecides
  <2> QED BY <2>1, <2>2
<1> QED BY <1>1, FilterInvariant, PTL
=============================================================================
