--------------------------- MODULE GuardrailsProofs ---------------------------
(***************************************************************************)
(* Proofs about Guardrails, for any number of callers, tools and           *)
(* contracts.                                                              *)
(***************************************************************************)
EXTENDS Guardrails, TLAPS

(* A caller that checks has seen the values of now.                        *)
SeesNow ==
  \A c \in Callers :
    Checking(c) => available \in availability[c] /\ schemas[call[c].tool] \in contracts[c]

(* A caller beyond the network policy passed it under a value it has seen. *)
PassedNetwork ==
  \A c \in Callers :
    at[c] \in {"schema", "arguments"} \/ c \in allowed =>
      \E isolated \in availability[c] : ToolAvailable(call[c].tool, isolated)

(* A caller holds a contract it has seen.                                  *)
HoldsContract ==
  /\ \A c \in Callers : at[c] = "arguments" => sch[c] \in contracts[c]
  /\ \A c \in Callers : at[c] \in {"schema", "arguments"} => cfg.guardrails

IInv ==
  TypeOK /\ SeesNow /\ PassedNetwork /\ HoldsContract /\ AllowedUnderContract

(* No tool is without its kind, and the schema that is none is no schema.  *)
LEMMA InitEstablishes == Init => IInv
<1> SUFFICES ASSUME Init PROVE IInv
  OBVIOUS
<1>1. TypeOK
  BY DEF Init, TypeOK
<1>2. SeesNow /\ PassedNetwork /\ HoldsContract /\ AllowedUnderContract
  BY DEF Init, SeesNow, PassedNetwork, HoldsContract, AllowedUnderContract, Checking
<1> QED
  BY <1>1, <1>2 DEF IInv

(* What the network policy does not refuse is available.                   *)
LEMMA NotRefusedIsAvailable ==
  ASSUME TypeOK, NEW c \in Callers, ~NetworkRefuses(c)
  PROVE  ToolAvailable(call[c].tool, available)
<1>1. call[c].tool \in Tools
  BY DEF TypeOK, Calls
<1> QED
  BY <1>1, GuardrailsAssumption DEF NetworkRefuses, ToolAvailable, Tools

(* The owner's steps: everyone who checks sees the new value.              *)
LEMMA OwnerPreserves ==
  ASSUME IInv,
         \/ \E value \in BOOLEAN : SetIsolatedExecutionAvailable(value)
         \/ \E t \in Tools, s \in Schemas : RegisterJSONSchema(t, s)
  PROVE  IInv'
<1>1. CASE \E value \in BOOLEAN : SetIsolatedExecutionAvailable(value)
  <2>1. PICK value \in BOOLEAN : SetIsolatedExecutionAvailable(value)
    BY <1>1
  <2> USE <2>1 DEF SetIsolatedExecutionAvailable, IInv
  <2>2. UNCHANGED <<cfg, schemas, at, call, sch, allowed, contracts>>
    OBVIOUS
  <2>3. \A c \in Callers : availability[c] \subseteq availability'[c]
    BY DEF TypeOK
  <2>4. TypeOK'
    <3>1. available' \in BOOLEAN /\ availability' \in [Callers -> SUBSET BOOLEAN]
      BY DEF TypeOK
    <3> QED  BY <2>2, <3>1 DEF TypeOK
  <2>5. SeesNow'
    BY DEF SeesNow, Checking, TypeOK
  <2>6. PassedNetwork'
    BY <2>2, <2>3 DEF PassedNetwork, ToolAvailable
  <2>7. HoldsContract' /\ AllowedUnderContract'
    BY <2>2 DEF HoldsContract, AllowedUnderContract
  <2> QED  BY <2>4, <2>5, <2>6, <2>7
<1>2. CASE \E t \in Tools, s \in Schemas : RegisterJSONSchema(t, s)
  <2>1. PICK t \in Tools, s \in Schemas : RegisterJSONSchema(t, s)
    BY <1>2
  <2> USE <2>1 DEF RegisterJSONSchema, IInv
  <2>2. UNCHANGED <<cfg, available, at, call, sch, allowed, availability>>
    OBVIOUS
  <2>3. \A c \in Callers :
          contracts'[c] = contracts[c] \cup IF Checking(c) /\ call[c].tool = t THEN {s} ELSE {}
    BY DEF TypeOK
  <2>4. TypeOK'
    <3>1. schemas' \in [Tools -> Schemas \cup {None}]
      BY DEF TypeOK
    <3>2. contracts' \in [Callers -> SUBSET (Schemas \cup {None})]
      BY DEF TypeOK
    <3> QED  BY <2>2, <3>1, <3>2 DEF TypeOK
  <2>5. SeesNow'
    BY <2>2, <2>3 DEF SeesNow, Checking, TypeOK, Calls
  <2>6. PassedNetwork'
    BY <2>2 DEF PassedNetwork, ToolAvailable
  <2>7. HoldsContract' /\ AllowedUnderContract'
    BY <2>2, <2>3 DEF HoldsContract, AllowedUnderContract, TypeOK
  <2> QED  BY <2>4, <2>5, <2>6, <2>7
<1> QED
  BY <1>1, <1>2

(* A caller's steps concern the caller alone.                              *)
LEMMA CallerPreserves ==
  ASSUME IInv, NEW c \in Callers,
         Enter(c) \/ CheckNetwork(c) \/ ReadSchema(c) \/ CheckArguments(c) \/ Leave(c)
  PROVE  IInv'
<1> USE DEF IInv
<1>1. CASE Enter(c)
  <2> USE <1>1 DEF Enter, Goto
  <2>1. UNCHANGED <<cfg, shared, call, sch, allowed>> /\ c \notin allowed
    BY DEF TypeOK
  <2>2. /\ at' \in [Callers -> {"idle", "network", "schema", "arguments", "returned"}]
        /\ at'[c] = "network"
        /\ availability'[c] = {available} /\ contracts'[c] = {schemas[call[c].tool]}
        /\ \A d \in Callers : d # c => /\ at'[d] = at[d]
                                       /\ availability'[d] = availability[d]
                                       /\ contracts'[d] = contracts[d]
    BY DEF TypeOK
  <2>3. TypeOK'
    <3>1. available \in BOOLEAN /\ schemas[call[c].tool] \in Schemas \cup {None}
      BY DEF TypeOK, Calls
    <3>2. availability' \in [Callers -> SUBSET BOOLEAN]
      BY <3>1 DEF TypeOK
    <3>3. contracts' \in [Callers -> SUBSET (Schemas \cup {None})]
      BY <3>1 DEF TypeOK
    <3>4. allowed' \subseteq {d \in Callers : at'[d] = "returned"}
      BY <2>1, <2>2 DEF TypeOK
    <3>5. /\ cfg' \in [guardrails : BOOLEAN, network : BOOLEAN]
          /\ available' \in BOOLEAN
          /\ schemas' \in [Tools -> Schemas \cup {None}]
          /\ call' \in [Callers -> Calls]
          /\ sch' \in [Callers -> Schemas \cup {None}]
      BY <2>1 DEF TypeOK, shared
    <3> QED  BY <2>2, <3>2, <3>3, <3>4, <3>5 DEF TypeOK
  <2>5. SeesNow'
    BY <2>1, <2>2 DEF SeesNow, Checking, shared
  <2>6. PassedNetwork'
    BY <2>1, <2>2 DEF PassedNetwork, ToolAvailable
  <2>7. HoldsContract' /\ AllowedUnderContract'
    BY <2>1, <2>2 DEF HoldsContract, AllowedUnderContract
  <2> QED  BY <2>3, <2>5, <2>6, <2>7
<1>2. CASE CheckNetwork(c)
  <2> USE <1>2 DEF CheckNetwork, Goto, Return
  <2>1. UNCHANGED <<cfg, shared, call, sch, history>> /\ at[c] = "network" /\ c \notin allowed
    BY DEF TypeOK
  <2>2. /\ at' \in [Callers -> {"idle", "network", "schema", "arguments", "returned"}]
        /\ \A d \in Callers : d # c => at'[d] = at[d]
        /\ at'[c] \in {"schema", "returned"}
        /\ at'[c] = "schema" => ~NetworkRefuses(c) /\ cfg.guardrails
        /\ allowed' = allowed \/ (allowed' = allowed \cup {c} /\ at'[c] = "returned"
                                     /\ ~NetworkRefuses(c) /\ ~cfg.guardrails)
    BY DEF TypeOK
  <2>3. TypeOK'
    BY <2>1, <2>2 DEF TypeOK, shared, history
  <2>4. SeesNow' /\ HoldsContract'
    BY <2>1, <2>2 DEF SeesNow, HoldsContract, Checking, shared, history, TypeOK
  <2>5. \A d \in Callers : availability'[d] = availability[d]
    BY <2>1 DEF history
  <2>6. available \in availability[c]
    BY <2>1 DEF SeesNow, Checking
  <2>7. PassedNetwork'
    BY <2>1, <2>2, <2>5, <2>6, NotRefusedIsAvailable DEF PassedNetwork, ToolAvailable, shared, TypeOK
  <2>8. AllowedUnderContract'
    BY <2>1, <2>2 DEF AllowedUnderContract, history, TypeOK
  <2> QED  BY <2>3, <2>4, <2>7, <2>8
<1>3. CASE ReadSchema(c)
  <2> USE <1>3 DEF ReadSchema, Goto
  <2>1. UNCHANGED <<cfg, shared, call, allowed, history>> /\ at[c] = "schema" /\ c \notin allowed
    BY DEF TypeOK
  <2>2. TypeOK'
    <3>1. schemas[call[c].tool] \in Schemas \cup {None}
      BY DEF TypeOK, Calls
    <3> QED  BY <2>1, <3>1 DEF TypeOK, shared, history
  <2>3. SeesNow' /\ HoldsContract'
    BY <2>1 DEF SeesNow, HoldsContract, Checking, shared, history, TypeOK
  <2>4. PassedNetwork' /\ AllowedUnderContract'
    BY <2>1 DEF PassedNetwork, AllowedUnderContract, ToolAvailable, shared, history, TypeOK
  <2> QED  BY <2>2, <2>3, <2>4
<1>4. CASE CheckArguments(c)
  <2> USE <1>4 DEF CheckArguments, Goto, Return
  <2>1. UNCHANGED <<cfg, shared, call, sch, history>> /\ at[c] = "arguments" /\ c \notin allowed
    BY DEF TypeOK
  <2>2. /\ at' \in [Callers -> {"idle", "network", "schema", "arguments", "returned"}]
        /\ \A d \in Callers : d # c => at'[d] = at[d]
        /\ at'[c] = "returned"
        /\ allowed' = allowed \/ (allowed' = allowed \cup {c} /\ Accepts(c))
    BY DEF TypeOK
  <2>3. TypeOK'
    BY <2>1, <2>2 DEF TypeOK, shared, history
  <2>4. SeesNow' /\ HoldsContract'
    BY <2>1, <2>2 DEF SeesNow, HoldsContract, Checking, shared, history, TypeOK
  <2>5. PassedNetwork'
    BY <2>1, <2>2 DEF PassedNetwork, ToolAvailable, shared, history, TypeOK
  <2>6. sch[c] \in contracts[c]
    BY <2>1 DEF HoldsContract
  <2>7. Accepts(c) => /\ call[c].clean
                      /\ None \in contracts[c] \/ contracts[c] \cap call[c].fits # {}
    BY <2>6 DEF Accepts
  <2>8. AllowedUnderContract'
    BY <2>1, <2>2, <2>7 DEF AllowedUnderContract, history, TypeOK
  <2> QED  BY <2>3, <2>4, <2>5, <2>8
<1>5. CASE Leave(c)
  <2> USE <1>5 DEF Leave, Goto
  <2>1. UNCHANGED <<cfg, shared>> /\ allowed' = allowed \ {c}
    OBVIOUS
  <2>2. PICK next \in Calls : call' = [call EXCEPT ![c] = next]
    OBVIOUS
  <2>3. /\ at' \in [Callers -> {"idle", "network", "schema", "arguments", "returned"}]
        /\ call' \in [Callers -> Calls]
        /\ at'[c] = "idle"
        /\ \A d \in Callers : d # c => /\ at'[d] = at[d] /\ call'[d] = call[d] /\ sch'[d] = sch[d]
                                       /\ availability'[d] = availability[d]
                                       /\ contracts'[d] = contracts[d]
    BY <2>2 DEF TypeOK
  <2>4. TypeOK'
    BY <2>1, <2>3 DEF TypeOK, shared
  <2>5. SeesNow' /\ HoldsContract'
    BY <2>1, <2>3 DEF SeesNow, HoldsContract, Checking, shared
  <2>6. PassedNetwork'
    BY <2>1, <2>3 DEF PassedNetwork, ToolAvailable
  <2>7. AllowedUnderContract'
    BY <2>1, <2>3 DEF AllowedUnderContract, TypeOK
  <2> QED  BY <2>4, <2>5, <2>6, <2>7
<1> QED
  BY <1>1, <1>2, <1>3, <1>4, <1>5

(* Every step keeps the invariant.                                         *)
LEMMA StepPreserves == IInv /\ [Next]_vars => IInv'
<1> SUFFICES ASSUME IInv, [Next]_vars PROVE IInv'
  OBVIOUS
<1>1. CASE Next
  BY <1>1, OwnerPreserves, CallerPreserves DEF Next
<1>2. CASE UNCHANGED vars
  BY <1>2 DEF vars, shared, history, IInv, TypeOK, SeesNow, PassedNetwork, HoldsContract,
              AllowedUnderContract, Checking, ToolAvailable
<1> QED
  BY <1>1, <1>2

(* The types of the guardrails, for any callers, tools and contracts.      *)
THEOREM TypeCorrect == Spec => []TypeOK
<1>1. IInv => TypeOK
  BY DEF IInv
<1> QED
  BY <1>1, InitEstablishes, StepPreserves, PTL DEF Spec

(* A tool that was hidden all through a check is not allowed by it.        *)
THEOREM OnlyAvailableIsAllowed == Spec => []AllowedWasAvailable
<1>1. IInv => AllowedWasAvailable
  BY DEF IInv, PassedNetwork, AllowedWasAvailable, TypeOK
<1> QED
  BY <1>1, InitEstablishes, StepPreserves, PTL DEF Spec

(* A call is allowed under a contract of the time of its check only.       *)
THEOREM ContractHeld == Spec => []AllowedUnderContract
<1>1. IInv => AllowedUnderContract
  BY DEF IInv
<1> QED
  BY <1>1, InitEstablishes, StepPreserves, PTL DEF Spec
==============================================================================
