------------------------------ MODULE Guardrails ------------------------------
(***************************************************************************)
(* The guardrails of internal/paldron/paldron.go.  Check looks at the      *)
(* shared state twice, under a read lock each time: for the network policy *)
(* it asks whether isolated execution is available, for the arguments it   *)
(* takes the schema of the tool.  Other goroutines set the one and replace *)
(* the other between the two, and after them.                              *)
(***************************************************************************)
EXTENDS Integers, FiniteSets

CONSTANTS Callers,        \* goroutines that call Check
          NetworkTools,   \* wolfram, http_request, web_search, ...
          IsolatedTools,  \* execute_code and git_ops
          OtherTools,
          Schemas         \* contracts a tool may be registered with

Tools == NetworkTools \cup IsolatedTools \cup OtherTools

None == "no schema"

ASSUME GuardrailsAssumption ==
  /\ NetworkTools \cap (IsolatedTools \cup OtherTools) = {}
  /\ IsolatedTools \cap OtherTools = {}
  /\ None \notin Schemas

VARIABLES cfg,         \* EnableGuardrails and AllowNetwork
          available,   \* isolatedExecutionAvailable
          schemas,     \* the contract of each tool, if any
          at,          \* where each caller's Check is
          call,        \* the call it checks
          sch,         \* the schema it has read
          allowed,     \* callers whose Check returned nil
          availability, \* history: the values of available during the check
          contracts    \* history: the contracts of the tool during the check

shared == <<available, schemas>>
history == <<availability, contracts>>
vars == <<cfg, shared, at, call, sch, allowed, history>>

(* A call: its tool, whether it is a git push, the contracts its arguments *)
(* satisfy, and whether the string patterns and the tool's own rules       *)
(* (validateToolSemantics) accept it.                                      *)
Calls ==
  {c \in [tool : Tools, push : BOOLEAN, fits : SUBSET Schemas, clean : BOOLEAN] :
     c.push => c.tool = "git_ops"}

Checking(c) == at[c] \in {"network", "schema", "arguments"}

TypeOK ==
  /\ cfg \in [guardrails : BOOLEAN, network : BOOLEAN]
  /\ available \in BOOLEAN
  /\ schemas \in [Tools -> Schemas \cup {None}]
  /\ at \in [Callers -> {"idle", "network", "schema", "arguments", "returned"}]
  /\ call \in [Callers -> Calls]
  /\ sch \in [Callers -> Schemas \cup {None}]
  /\ allowed \subseteq {c \in Callers : at[c] = "returned"}
  /\ availability \in [Callers -> SUBSET BOOLEAN]
  /\ contracts \in [Callers -> SUBSET (Schemas \cup {None})]

Init ==
  /\ cfg \in [guardrails : BOOLEAN, network : BOOLEAN]
  /\ available = FALSE
  /\ schemas = [t \in Tools |-> None]
  /\ at = [c \in Callers |-> "idle"]
  /\ call \in [Callers -> Calls]
  /\ sch = [c \in Callers |-> None]
  /\ allowed = {}
  /\ availability = [c \in Callers |-> {}]
  /\ contracts = [c \in Callers |-> {}]

-----------------------------------------------------------------------------
(* The owner of the guardrails.                                            *)

SetIsolatedExecutionAvailable(value) ==
  /\ available' = value
  /\ availability' = [c \in Callers |-> availability[c] \cup IF Checking(c) THEN {value} ELSE {}]
  /\ UNCHANGED <<cfg, schemas, at, call, sch, allowed, contracts>>

RegisterJSONSchema(t, s) ==
  /\ schemas' = [schemas EXCEPT ![t] = s]
  /\ contracts' = [c \in Callers |->
                     contracts[c] \cup IF Checking(c) /\ call[c].tool = t THEN {s} ELSE {}]
  /\ UNCHANGED <<cfg, available, at, call, sch, allowed, availability>>

(* ToolAvailable.                                                          *)
ToolAvailable(t, isolated) ==
  cfg.network \/ t \in OtherTools \/ (t \in IsolatedTools /\ isolated)

-----------------------------------------------------------------------------
(* Check.                                                                  *)

Goto(c, place) == at' = [at EXCEPT ![c] = place]

Return(c, verdict) ==
  /\ Goto(c, "returned")
  /\ allowed' = IF verdict = "allow" THEN allowed \cup {c} ELSE allowed

Enter(c) ==
  /\ at[c] = "idle"
  /\ Goto(c, "network")
  /\ availability' = [availability EXCEPT ![c] = {available}]
  /\ contracts' = [contracts EXCEPT ![c] = {schemas[call[c].tool]}]
  /\ UNCHANGED <<cfg, shared, call, sch, allowed>>

(* checkNetworkPolicy.                                                     *)
NetworkRefuses(c) ==
  LET t == call[c].tool
  IN  /\ ~cfg.network
      /\ \/ t \in NetworkTools
         \/ call[c].push
         \/ t \in IsolatedTools /\ ~available

(* Mutant: the network policy is a guardrail like the others.              *)
CheckNetworkLater(c) ==
  /\ at[c] = "network"
  /\ IF ~cfg.guardrails THEN Return(c, "allow")
     ELSE IF NetworkRefuses(c) THEN Return(c, "deny")
     ELSE Goto(c, "schema") /\ UNCHANGED allowed
  /\ UNCHANGED <<cfg, shared, call, sch, history>>

(* Mutant: the check goes on after it has allowed the call.                *)
CheckNetworkGoesOn(c) ==
  /\ at[c] = "network"
  /\ IF NetworkRefuses(c) THEN Return(c, "deny")
     ELSE /\ Goto(c, "schema")
          /\ allowed' = IF cfg.guardrails THEN allowed ELSE allowed \cup {c}
  /\ UNCHANGED <<cfg, shared, call, sch, history>>

CheckNetwork(c) ==
  /\ at[c] = "network"
  /\ IF NetworkRefuses(c) THEN Return(c, "deny")
     ELSE IF ~cfg.guardrails THEN Return(c, "allow")
     ELSE Goto(c, "schema") /\ UNCHANGED allowed
  /\ UNCHANGED <<cfg, shared, call, sch, history>>

ReadSchema(c) ==
  /\ at[c] = "schema"
  /\ sch' = [sch EXCEPT ![c] = schemas[call[c].tool]]
  /\ Goto(c, "arguments")
  /\ UNCHANGED <<cfg, shared, call, allowed, history>>

(* Mutant: arguments that fail the schema pass if they are otherwise clean. *)
AcceptsClean(c) == call[c].clean

(* validateSchema, the patterns, validateToolSemantics.                    *)
Accepts(c) == (sch[c] = None \/ sch[c] \in call[c].fits) /\ call[c].clean

CheckArguments(c) ==
  /\ at[c] = "arguments"
  /\ Return(c, IF Accepts(c) THEN "allow" ELSE "deny")
  /\ UNCHANGED <<cfg, shared, call, sch, history>>

(* The caller takes the result and checks another call.                    *)
Leave(c) ==
  /\ at[c] = "returned"
  /\ Goto(c, "idle")
  /\ call' \in {[call EXCEPT ![c] = next] : next \in Calls}
  /\ sch' = [sch EXCEPT ![c] = None]
  /\ allowed' = allowed \ {c}
  /\ availability' = [availability EXCEPT ![c] = {}]
  /\ contracts' = [contracts EXCEPT ![c] = {}]
  /\ UNCHANGED <<cfg, shared>>

Next ==
  \/ \E value \in BOOLEAN : SetIsolatedExecutionAvailable(value)
  \/ \E t \in Tools, s \in Schemas : RegisterJSONSchema(t, s)
  \/ \E c \in Callers :
       Enter(c) \/ CheckNetwork(c) \/ ReadSchema(c) \/ CheckArguments(c) \/ Leave(c)

Spec == Init /\ [][Next]_vars

-----------------------------------------------------------------------------
(* Check and ToolAvailable keep the same network policy: a tool that       *)
(* ToolAvailable hides during the whole of a check is not allowed by it,   *)
(* whether guardrails are enabled or not.                                  *)
AllowedWasAvailable ==
  \A c \in allowed : \E isolated \in availability[c] : ToolAvailable(call[c].tool, isolated)

(* A call is allowed only under a contract that was registered for its     *)
(* tool while it was checked, or while none was, however registrations and *)
(* checks interleave.                                                      *)
AllowedUnderContract ==
  cfg.guardrails =>
    \A c \in allowed : /\ call[c].clean
                       /\ None \in contracts[c] \/ contracts[c] \cap call[c].fits # {}
==============================================================================
