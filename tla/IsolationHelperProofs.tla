------------------------- MODULE IsolationHelperProofs -------------------------
(***************************************************************************)
(* Theorems about IsolationHelper, for every file system, request, list of *)
(* limits and kernel.  The invariant has five parts that do not need each  *)
(* other: types, limits, what is in force at each step, and what the rules *)
(* grant at each step.  A failure leads to "failed", about which the parts *)
(* say nothing, so that each action has one branch to look at.             *)
(***************************************************************************)
EXTENDS IsolationHelper, TLAPS

Confining == {"nnp", "landlock", "seccomp", "exec", "running"}
AfterCaches == Confining \cup {"devices"}
AfterWorkspace == AfterCaches \cup {"caches"}
AfterLimits == AfterWorkspace \cup {"workspace", "runtime", "query", "ruleset"}
AfterPaths == AfterLimits \cup {"limits", "lookup", "chdir"}

LimitInv ==
  /\ \A r \in Resources : limits[r] <= Inherited[r]
  /\ step = "limits" => \A r \in Resources \ todo : limits[r] <= Normalized(r)
  /\ step \in AfterLimits => \A r \in Resources : limits[r] <= Normalized(r)

(* What the goroutine has been given by its steps so far it still has, or  *)
(* it has lost it by moving.                                               *)
Given == confined[thread] \cup left

ForceInv ==
  /\ \A t \in Threads : confined[t] \subseteq Asks(request)
  /\ step \in Confining \ {"nnp"} => "no_new_privs" \in Given
  /\ step \in {"seccomp", "exec", "running"} =>
       /\ "landlock files" \in Given
       /\ ~request.network => "landlock network" \in Given
  /\ step \in {"exec", "running"} => "seccomp" \in Given

(* The steps before the first that binds a thread.                         *)
Unbound == Steps \ {"landlock", "seccomp", "exec", "running", "failed"}

(* What has been run of the command before it is started.                  *)
RunInv ==
  /\ step \in Unbound => \A t \in Threads : confined[t] = {}
  /\ step # "running" => ran \subseteq (IF request.isGo THEN {{}} ELSE {})

(* The rules a request calls for.                                          *)
Called(d, right) ==
  \/ right \in Read
  \/ d \in request.allowed
  \/ d \in Devices /\ right \in Device

GrantInv ==
  /\ step \in {"probe", "paths", "chdir", "lookup", "limits", "ruleset", "query"} => rules = {}
  /\ step \in AfterPaths => \E d \in request.allowed : <<d, request.cwd>> \in Contains
  /\ \A d \in Dirs, r \in Full : <<d, r>> \in rules => Called(d, r)
  /\ step = "workspace" => todo \subseteq request.allowed
  /\ step = "caches" => todo \subseteq request.caches
  /\ step = "devices" => todo \subseteq Devices
  /\ step = "workspace" =>
       \A d \in request.allowed \ todo, r \in Full : <<d, r>> \in rules
  /\ step \in AfterWorkspace =>
       \A d \in request.allowed, r \in Full : <<d, r>> \in rules
  /\ step = "caches" =>
       \A d \in request.caches \ todo, r \in Read : <<d, r>> \in rules
  /\ step \in AfterCaches =>
       \A d \in request.caches, r \in Read : <<d, r>> \in rules

HelperInv == TypeOK /\ LimitInv /\ ForceInv /\ RunInv /\ GrantInv

-----------------------------------------------------------------------------
(* The directories a request names are directories of the model.           *)
LEMMA RequestInDirs ==
  TypeOK => request.allowed \subseteq Dirs /\ request.caches \subseteq Dirs /\ request.cwd \in Dirs
BY DEF TypeOK, RequestType

(* The value setResourceLimit sets is a number within both bounds.         *)
LEMMA LimitForBound ==
  ASSUME NEW r \in Resources
  PROVE  /\ LimitFor(r) \in Nat
         /\ LimitFor(r) <= Inherited[r] /\ LimitFor(r) <= Normalized(r)
BY HelperAssumption DEF HelperAssumption, LimitFor, Lesser, Normalized

(* The invariant holds when the helper starts.                             *)
LEMMA HelperInvInit == Init => HelperInv
<1> SUFFICES ASSUME Init PROVE HelperInv OBVIOUS
<1>1. TypeOK
  <2>1. existing \subseteq Dirs BY DEF Init, Without
  <2>2. request \in RequestType BY HelperAssumption DEF Init, HelperAssumption
  <2>3. limits \in [Resources -> Nat] BY HelperAssumption DEF Init, HelperAssumption
  <2>4. /\ confined \in [Threads -> SUBSET Boundaries] /\ threads \subseteq Threads
        /\ left \subseteq Boundaries /\ ran \subseteq SUBSET Boundaries
    BY DEF Init
  <2> QED BY <2>1, <2>2, <2>3, <2>4 DEF Init, TypeOK, Steps
<1>2. LimitInv
  <2>1. \A r \in Resources : limits[r] = Inherited[r] /\ limits[r] \in Nat
    BY HelperAssumption DEF Init, HelperAssumption
  <2> QED BY <2>1
      DEF Init, LimitInv, AfterLimits, AfterWorkspace, AfterCaches, Confining
<1>3. ForceInv
  <2>1. \A t \in Threads : confined[t] = {} BY DEF Init
  <2> QED BY <2>1 DEF Init, ForceInv, Confining
<1>4. GrantInv
  BY DEF Init, GrantInv, AfterPaths, AfterLimits, AfterWorkspace, AfterCaches, Confining
<1>5. RunInv BY DEF Init, RunInv
<1> QED BY <1>1, <1>2, <1>3, <1>4, <1>5 DEF HelperInv

-----------------------------------------------------------------------------
(* Types.                                                                  *)

(* The four lists of applyLandlock spelled out: the rights each grants and *)
(* what comes after it.                                                    *)
LEMMA RulesOfList ==
  /\ DOMAIN Lists = {"runtime", "workspace", "caches", "devices"}
  /\ Lists["runtime"].rights = Read /\ Lists["workspace"].rights = Full
  /\ Lists["caches"].rights = Read /\ Lists["devices"].rights = Device
  /\ Lists["runtime"].then = "workspace" /\ Lists["workspace"].then = "caches"
  /\ Lists["caches"].then = "devices" /\ Lists["devices"].then = "nnp"
  /\ Read \subseteq Full /\ Device \subseteq Full
BY DEF Lists, Read, Full, Device

(* What a thread gives up, it gives up for itself.                         *)
LEMMA BindType ==
  ASSUME TypeOK, NEW B \in SUBSET Boundaries, Bind(B)
  PROVE  /\ confined' \in [Threads -> SUBSET Boundaries]
         /\ UNCHANGED <<threads, thread, left, ran>>
         /\ \A t \in Threads : confined'[t] = IF t = thread THEN confined[t] \cup B ELSE confined[t]
BY DEF TypeOK, Bind

(* Every step of runIsolated keeps the types.                              *)
LEMMA TypeNext == TypeOK /\ Next => TypeOK'
<1> SUFFICES ASSUME TypeOK, Next PROVE TypeOK' OBVIOUS
<1> USE DEF TypeOK, threadVars
<1>0. CASE Fail BY <1>0 DEF Fail, Steps
<1>1. CASE Probe BY <1>1 DEF Probe, Fail, GoOn, Steps
<1>2. CASE Validate
  <2>1. PICK r \in Requests : /\ request.allowed \subseteq r.allowed
                              /\ request.caches \subseteq r.caches
                              /\ request.cwd = r.cwd /\ request.network = r.network
                              /\ request.isGo = r.isGo
    OBVIOUS
  <2>2. CASE step' = "chdir" /\ request' = [request EXCEPT !.allowed = @ \cap existing,
                                                           !.caches = @ \cap existing]
    <3>1. /\ request' \in RequestType
          /\ request'.allowed = request.allowed \cap existing
          /\ request'.caches = request.caches \cap existing
          /\ request'.cwd = request.cwd /\ request'.network = request.network
          /\ request'.isGo = request.isGo
      BY <2>2 DEF RequestType
    <3>2. UNCHANGED <<abi, existing, rules, todo, limits, threads, thread, confined, left, ran>>
      BY <1>2, <2>2 DEF Validate, Fail, threadVars
    <3> QED BY <2>1, <2>2, <3>1, <3>2 DEF Steps
  <2> QED BY <1>0, <1>2, <2>2 DEF Validate, GoOn
<1>3. CASE Chdir BY <1>3 DEF Chdir, Fail, GoOn, Steps
<1>4. CASE Lookup BY <1>4 DEF Lookup, Fail, GoOn, Steps
<1>5. ASSUME NEW r \in Resources, SetLimit(r) PROVE TypeOK'
  <2>1. CASE limits' = [limits EXCEPT ![r] = LimitFor(r)]
    <3>1. limits' \in [Resources -> Nat] BY <2>1, LimitForBound
    <3> QED BY <1>5, <3>1 DEF SetLimit, Fail, Steps
  <2> QED BY <1>0, <1>5, <2>1 DEF SetLimit
<1>6. CASE LimitsSet BY <1>6 DEF LimitsSet, GoOn, Steps
<1>7. CASE CreateRuleset BY <1>7 DEF CreateRuleset, Fail, GoOn, Steps
<1>17. ASSUME NEW roots \in SUBSET Dirs, ReadonlyRuntimePaths(roots) PROVE TypeOK'
  <2>1. ran' \subseteq SUBSET Boundaries BY <1>17 DEF ReadonlyRuntimePaths
  <2>2. todo' \subseteq Dirs BY <1>17 DEF ReadonlyRuntimePaths
  <2> QED BY <1>17, <2>1, <2>2 DEF ReadonlyRuntimePaths, GoOn, Steps
<1>8. ASSUME NEW d \in Dirs, AddRule(d) PROVE TypeOK'
  <2>1. CASE rules' = rules \cup {<<d, r>> : r \in IF d \in existing THEN Lists[step].rights ELSE {}}
    <3>1. Lists[step].rights \subseteq Full BY <1>8, RulesOfList DEF AddRule
    <3>2. rules' \subseteq Dirs \X Full BY <2>1, <3>1
    <3> QED BY <1>8, <3>2 DEF AddRule, Fail, Steps
  <2> QED BY <1>0, <1>8, <2>1 DEF AddRule
<1>9. CASE NextList
  <2>1. Lists[step].then \in {"workspace", "caches", "devices", "nnp"}
    BY <1>9, RulesOfList DEF NextList
  <2>2. PathsOf(Lists[step].then) \subseteq Dirs
    BY <2>1, RequestInDirs, HelperAssumption DEF PathsOf, HelperAssumption
  <2> QED BY <1>9, <2>1, <2>2 DEF NextList, GoOn, Steps
<1>10. CASE NoNewPrivs
  <2>1. CASE Bind({"no_new_privs"})
    <3>1. /\ confined' \in [Threads -> SUBSET Boundaries]
          /\ UNCHANGED <<threads, thread, left, ran>>
      BY <2>1, BindType DEF Boundaries
    <3> QED BY <1>10, <3>1 DEF NoNewPrivs, Fail, GoOn, Steps
  <2> QED BY <1>0, <1>10, <2>1 DEF NoNewPrivs
<1>11. CASE Restrict
  <2> DEFINE B == {"landlock files"} \cup IF request.network THEN {} ELSE {"landlock network"}
  <2>1. CASE Bind(B)
    <3>1. B \subseteq Boundaries BY DEF Boundaries
    <3>2. /\ confined' \in [Threads -> SUBSET Boundaries]
          /\ UNCHANGED <<threads, thread, left, ran>>
      BY <2>1, <3>1, BindType
    <3> HIDE DEF B
    <3> QED BY <1>11, <3>2 DEF Restrict, Fail, GoOn, Steps
  <2> QED BY <1>0, <1>11, <2>1 DEF Restrict
<1>12. CASE ApplySeccomp
  <2>1. CASE Bind({"seccomp"})
    <3>1. /\ confined' \in [Threads -> SUBSET Boundaries]
          /\ UNCHANGED <<threads, thread, left, ran>>
      BY <2>1, BindType DEF Boundaries
    <3> QED BY <1>12, <3>1 DEF ApplySeccomp, Fail, GoOn, Steps
  <2> QED BY <1>0, <1>12, <2>1 DEF ApplySeccomp
<1>13. CASE Exec
  <2>1. ran' \subseteq SUBSET Boundaries BY <1>13 DEF Exec, Fail
  <2> QED BY <1>13, <2>1 DEF Exec, Fail, GoOn, Steps
<1>14. ASSUME NEW d \in Dirs, Vanish(d) PROVE TypeOK' BY <1>14 DEF Vanish, Without
<1>15. CASE Ended BY <1>15 DEF Ended, vars
<1>16. ASSUME NEW t \in Threads, Migrate(t) PROVE TypeOK'
  <2>1. left' \subseteq Boundaries BY <1>16 DEF Migrate
  <2> QED BY <1>16, <2>1 DEF Migrate
<1>18. ASSUME NEW t \in Threads, NEW u \in Threads, Clone(t, u) PROVE TypeOK'
  <2>1. confined' \in [Threads -> SUBSET Boundaries] BY <1>18 DEF Clone
  <2> QED BY <1>18, <2>1 DEF Clone
<1> QED
  BY <1>1, <1>2, <1>3, <1>4, <1>5, <1>6, <1>7, <1>8, <1>9, <1>10, <1>11, <1>12, <1>13,
     <1>14, <1>15, <1>16, <1>17, <1>18 DEF Next

-----------------------------------------------------------------------------
(* Limits.                                                                 *)

(* Every step of applyResourceLimits keeps the limits within bounds, and   *)
(* no other step touches them.                                             *)
LEMMA LimitNext == TypeOK /\ LimitInv /\ Next => LimitInv'
<1> SUFFICES ASSUME TypeOK, LimitInv, Next PROVE LimitInv' OBVIOUS
<1> USE DEF LimitInv
<1>0. CASE UNCHANGED limits /\ step' \notin AfterLimits \cup {"limits"}
  BY <1>0
<1>1. CASE UNCHANGED limits /\ step \in AfterLimits
  BY <1>1 DEF Next, Probe, Validate, Chdir, Lookup, SetLimit, LimitsSet, CreateRuleset,
     ReadonlyRuntimePaths, AddRule, NextList, NoNewPrivs, Restrict, ApplySeccomp, Exec, Vanish,
     Migrate, Clone, Ended, vars,
     Fail, GoOn, Lists, AfterLimits, AfterWorkspace, AfterCaches, Confining
<1>2. CASE Lookup
  BY <1>2 DEF Lookup, Fail, GoOn, AfterLimits, AfterWorkspace, AfterCaches, Confining
<1>3. ASSUME NEW r \in Resources, SetLimit(r) PROVE LimitInv'
  <2>1. CASE limits' = [limits EXCEPT ![r] = LimitFor(r)] /\ todo' = todo \ {r} /\ step' = step
    <3>1. \A q \in Resources : limits'[q] = IF q = r THEN LimitFor(r) ELSE limits[q]
      BY <2>1 DEF TypeOK
    <3> QED BY <1>3, <2>1, <3>1, LimitForBound
        DEF SetLimit, AfterLimits, AfterWorkspace, AfterCaches, Confining
  <2>2. CASE Fail
    BY <2>2, <1>0 DEF Fail, AfterLimits, AfterWorkspace, AfterCaches, Confining
  <2> QED BY <1>3, <2>1, <2>2 DEF SetLimit
<1>4. CASE LimitsSet
  BY <1>4 DEF LimitsSet, GoOn
<1>5. CASE UNCHANGED <<limits, todo, step>>
  BY <1>5
<1> QED
  BY <1>0, <1>1, <1>2, <1>3, <1>4, <1>5
  DEF Next, Probe, Validate, Chdir, CreateRuleset, ReadonlyRuntimePaths, AddRule, NextList,
      NoNewPrivs, Restrict, ApplySeccomp, Exec, Vanish, Migrate, Clone, Ended, vars, Fail, GoOn, Lists, AfterLimits,
      AfterWorkspace, AfterCaches, Confining

-----------------------------------------------------------------------------
(* What is in force.                                                       *)

(* No thread gets what the request does not ask for, and no step is taken  *)
(* before the goroutine was given what the steps before it give.           *)
LEMMA ForceNext == TypeOK /\ ForceInv /\ Next => ForceInv'
<1> SUFFICES ASSUME TypeOK, ForceInv, Next PROVE ForceInv' OBVIOUS
<1> USE DEF ForceInv, Confining, Asks, Given
<1>t. thread \in Threads BY DEF TypeOK
<1>r. request'.network = request.network
  BY DEF Next, Probe, Validate, Chdir, Lookup, SetLimit, LimitsSet, CreateRuleset,
     ReadonlyRuntimePaths, AddRule, NextList, NoNewPrivs, Restrict, ApplySeccomp, Exec, Vanish,
     Migrate, Clone, Ended, vars, Fail, TypeOK, RequestType
<1>0. CASE step' = "failed" /\ UNCHANGED confined BY <1>0, <1>r
<1>f. CASE Fail BY <1>0, <1>f DEF Fail, threadVars
<1>b. ASSUME NEW B \in SUBSET Asks(request), Bind(B)
      PROVE  /\ \A t \in Threads : confined'[t] \subseteq Asks(request)'
             /\ Given' = Given \cup B
  <2>1. B \in SUBSET Boundaries BY <1>b
  <2>2. /\ UNCHANGED <<thread, left>>
        /\ \A t \in Threads :
             confined'[t] = IF t = thread THEN confined[t] \cup B ELSE confined[t]
    BY <1>b, <2>1, BindType
  <2>3. Asks(request)' = Asks(request) BY <1>r
  <2> QED BY <1>b, <1>t, <2>2, <2>3
<1>1. CASE NoNewPrivs
  <2>1. CASE Bind({"no_new_privs"}) /\ step' = "landlock"
    <3>1. {"no_new_privs"} \in SUBSET Asks(request) BY DEF Boundaries
    <3>2. /\ Given' = Given \cup {"no_new_privs"}
          /\ \A t \in Threads : confined'[t] \subseteq Asks(request)'
      BY <1>b, <2>1, <3>1
    <3> QED BY <2>1, <3>2
  <2> QED BY <1>1, <1>f, <2>1 DEF NoNewPrivs, GoOn
<1>2. CASE Restrict
  <2> DEFINE B == {"landlock files"} \cup IF request.network THEN {} ELSE {"landlock network"}
  <2>1. CASE Bind(B) /\ step = "landlock" /\ step' = "seccomp"
    <3>1. B \subseteq Asks(request) BY DEF Boundaries
    <3>2. "landlock files" \in B /\ (~request.network => "landlock network" \in B)
      OBVIOUS
    <3> HIDE DEF B
    <3>3. /\ Given' = Given \cup B
          /\ \A t \in Threads : confined'[t] \subseteq Asks(request)'
      BY <1>b, <2>1, <3>1
    <3>4. "no_new_privs" \in Given BY <2>1
    <3> HIDE DEF Given, Asks
    <3> QED BY <1>r, <2>1, <3>2, <3>3, <3>4
  <2> QED BY <1>2, <1>f, <2>1 DEF Restrict, GoOn
<1>3. CASE ApplySeccomp
  <2>1. CASE Bind({"seccomp"}) /\ step = "seccomp" /\ step' = "exec"
    <3>1. {"seccomp"} \in SUBSET Asks(request) BY DEF Boundaries
    <3>2. /\ Given' = Given \cup {"seccomp"}
          /\ \A t \in Threads : confined'[t] \subseteq Asks(request)'
      BY <1>b, <2>1, <3>1
    <3> QED BY <1>r, <2>1, <3>2
  <2> QED BY <1>3, <1>f, <2>1 DEF ApplySeccomp, GoOn
<1>4. CASE Exec BY <1>4, <1>f, <1>r DEF Exec, GoOn
<1>5. CASE UNCHANGED <<step, confined, thread, left>> BY <1>5, <1>r
<1>6. CASE NextList
  <2>1. step \in {"runtime", "workspace", "caches", "devices"}
        /\ step' \in {"workspace", "caches", "devices", "nnp"} /\ confined' = confined
    BY <1>6, RulesOfList DEF NextList, GoOn, threadVars
  <2> QED BY <1>r, <2>1
<1>7. CASE UNCHANGED confined /\ step' \notin Confining
  BY <1>7, <1>r
<1>8. ASSUME NEW t \in Threads, Migrate(t) PROVE ForceInv'
  <2>1. Given \subseteq Given' BY <1>8 DEF Migrate
  <2>2. UNCHANGED <<step, confined>> BY <1>8 DEF Migrate
  <2> QED BY <1>r, <2>1, <2>2
<1>9. ASSUME NEW t \in Threads, NEW u \in Threads, Clone(t, u) PROVE ForceInv'
  <2>1. \A v \in Threads : confined'[v] = IF v = u THEN confined[t] ELSE confined[v]
    BY <1>9 DEF Clone, TypeOK
  <2>2. u # thread /\ UNCHANGED <<step, thread, left>> BY <1>9 DEF Clone, TypeOK
  <2>3. Given' = Given BY <1>t, <2>1, <2>2
  <2> QED BY <1>r, <2>1, <2>2, <2>3
<1> QED
  BY <1>f, <1>1, <1>2, <1>3, <1>4, <1>5, <1>6, <1>7, <1>8, <1>9
  DEF Next, Probe, Validate, Chdir, Lookup, SetLimit, LimitsSet, CreateRuleset,
      ReadonlyRuntimePaths, AddRule, Vanish, Ended, vars, threadVars, GoOn

(* Before the first boundary only a go command's query runs anything, and  *)
(* after it nothing does but the command itself.                           *)
LEMMA RunNext == TypeOK /\ RunInv /\ Next => RunInv'
<1> SUFFICES ASSUME TypeOK, RunInv, Next PROVE RunInv' OBVIOUS
<1> USE DEF RunInv, Unbound
<1>t. thread \in Threads BY DEF TypeOK
<1>r. request'.isGo = request.isGo
  BY DEF Next, Probe, Validate, Chdir, Lookup, SetLimit, LimitsSet, CreateRuleset,
     ReadonlyRuntimePaths, AddRule, NextList, NoNewPrivs, Restrict, ApplySeccomp, Exec, Vanish,
     Migrate, Clone, Ended, vars, Fail, TypeOK, RequestType
<1>0. CASE UNCHANGED ran /\ step # "running" /\ (step' \in Unbound => step \in Unbound /\ UNCHANGED confined)
  BY <1>0, <1>r
<1>1. ASSUME NEW roots \in SUBSET Dirs, ReadonlyRuntimePaths(roots) PROVE RunInv'
  <2>1. step = "query" /\ step' = "runtime" /\ UNCHANGED confined
        /\ ran' = IF request.isGo THEN ran \cup {confined[thread]} ELSE ran
    BY <1>1 DEF ReadonlyRuntimePaths, GoOn
  <2>2. confined[thread] = {} BY <1>t, <2>1 DEF Steps
  <2> QED BY <1>r, <2>1, <2>2 DEF Steps
<1>2. CASE Exec
  <2>1. CASE Fail BY <1>0, <1>2, <2>1 DEF Exec, Fail, threadVars
  <2>2. CASE step' = "running" BY <2>2
  <2> QED BY <1>2, <2>1, <2>2 DEF Exec, GoOn
<1>3. ASSUME NEW t \in Threads, NEW u \in Threads, Clone(t, u) PROVE RunInv'
  <2>1. \A v \in Threads : confined'[v] = IF v = u THEN confined[t] ELSE confined[v]
    BY <1>3 DEF Clone, TypeOK
  <2>2. UNCHANGED <<step, ran>> BY <1>3 DEF Clone
  <2> QED BY <1>r, <2>1, <2>2
<1>4. CASE Ended BY <1>4 DEF Ended, vars, threadVars
<1>5. CASE NextList
  <2>1. step \in {"runtime", "workspace", "caches", "devices"} /\ UNCHANGED <<confined, ran>>
    BY <1>5, RulesOfList DEF NextList, threadVars
  <2> QED BY <1>0, <2>1 DEF Steps
<1>6. ASSUME NEW d \in Dirs, AddRule(d) PROVE RunInv'
  <2>1. step \in {"runtime", "workspace", "caches", "devices"} /\ step' \in {step, "failed"}
        /\ UNCHANGED <<confined, ran>>
    BY <1>6, RulesOfList DEF AddRule, Fail, threadVars
  <2> QED BY <1>0, <2>1 DEF Steps
<1>7. CASE Probe \/ Validate \/ Chdir \/ Lookup \/ LimitsSet \/ CreateRuleset
  <2>1. step \in {"probe", "paths", "chdir", "lookup", "limits", "ruleset"}
        /\ UNCHANGED <<confined, ran>>
    BY <1>7 DEF Probe, Validate, Chdir, Lookup, LimitsSet, CreateRuleset, Fail, threadVars
  <2> QED BY <1>0, <2>1 DEF Steps
<1>8. ASSUME NEW r \in Resources, SetLimit(r) PROVE RunInv'
  <2>1. step = "limits" /\ UNCHANGED <<confined, ran>>
    BY <1>8 DEF SetLimit, Fail, threadVars
  <2> QED BY <1>0, <2>1 DEF Steps
<1>9. CASE NoNewPrivs \/ Restrict \/ ApplySeccomp
  <2>1. step \in {"nnp", "landlock", "seccomp"} /\ step' \in {"landlock", "seccomp", "exec", "failed"}
        /\ UNCHANGED ran
    BY <1>9 DEF NoNewPrivs, Restrict, ApplySeccomp, Bind, Fail, GoOn, threadVars
  <2> QED BY <1>0, <2>1
<1>10. ASSUME NEW d \in Dirs, Vanish(d) PROVE RunInv'
  BY <1>0, <1>10 DEF Vanish, threadVars
<1>11. ASSUME NEW t \in Threads, Migrate(t) PROVE RunInv'
  BY <1>0, <1>11 DEF Migrate
<1> QED
  BY <1>1, <1>2, <1>3, <1>4, <1>5, <1>6, <1>7, <1>8, <1>9, <1>10, <1>11 DEF Next

-----------------------------------------------------------------------------
(* What the rules grant.                                                   *)

(* Every step keeps the account of which rules have been added and why.    *)
LEMMA GrantNext == TypeOK /\ GrantInv /\ Next => GrantInv'
<1> SUFFICES ASSUME TypeOK, GrantInv, Next PROVE GrantInv' OBVIOUS
<1> USE DEF GrantInv, AfterPaths, AfterLimits, AfterWorkspace, AfterCaches, Confining
<1>0. CASE UNCHANGED <<rules, request>> /\ step' = "failed"
  BY <1>0 DEF Called
<1>1. CASE UNCHANGED <<rules, request>> /\ step' \in {"probe", "paths"} /\ step \in {"probe", "paths"}
  BY <1>1
<1>2. CASE Validate
  <2>1. CASE Fail BY <2>1, <1>0 DEF Fail
  <2>2. CASE ~Fail
    <3>1. /\ Valid /\ step' = "chdir" /\ rules' = rules
          /\ request'.allowed = request.allowed \cap existing
          /\ request'.cwd = request.cwd
      BY <1>2, <2>2 DEF Validate, GoOn, TypeOK, RequestType
    <3>2. \E d \in request'.allowed : <<d, request'.cwd>> \in Contains
      BY <3>1 DEF Valid
    <3>3. rules' = {} BY <1>2, <3>1 DEF Validate
    <3> QED BY <3>1, <3>2, <3>3
  <2> QED BY <2>1, <2>2
<1>3. CASE /\ UNCHANGED <<rules, request>>
           /\ step \in {"chdir", "lookup", "limits"}
           /\ step' \in {"chdir", "lookup", "limits", "ruleset"}
  BY <1>3
<1>4. CASE CreateRuleset
  BY <1>0, <1>4 DEF CreateRuleset, Fail, GoOn
<1>9. ASSUME NEW roots \in SUBSET Dirs, ReadonlyRuntimePaths(roots) PROVE GrantInv'
  BY <1>9 DEF ReadonlyRuntimePaths, GoOn
<1>5. ASSUME NEW d \in Dirs, AddRule(d) PROVE GrantInv'
  <2>1. CASE Fail BY <2>1, <1>0 DEF Fail
  <2>2. CASE ~Fail
    <3> DEFINE R == Lists[step].rights
    <3>1. /\ step \in {"runtime", "workspace", "caches", "devices"}
          /\ d \in todo /\ todo' = todo \ {d} /\ step' = step /\ request' = request
          /\ existing' = existing
          /\ d \in existing \/ step = "devices"
          /\ rules' = rules \cup {<<d, r>> : r \in IF d \in existing THEN R ELSE {}}
      BY <1>5, <2>2, RulesOfList DEF AddRule
    <3>2. R \subseteq Full BY <3>1, RulesOfList
    <3> HIDE DEF R
    <3>3. \A e \in Dirs, r \in Full :
            <<e, r>> \in rules' => <<e, r>> \in rules \/ (e = d /\ r \in R)
      BY <3>1
    <3>4. \A e, r : <<e, r>> \in rules => <<e, r>> \in rules' BY <3>1
    <3>5. step # "devices" => \A r \in R : <<d, r>> \in rules' BY <3>1
    <3>6. \A r \in R : Called(d, r)
      BY <3>1, RulesOfList DEF Called, R
    <3>7. \A e \in Dirs, r \in Full : <<e, r>> \in rules' => Called(e, r)'
      BY <3>1, <3>3, <3>6 DEF Called
    <3>8. step = "workspace" => R = Full BY RulesOfList DEF R
    <3>9. step = "caches" => R = Read BY RulesOfList DEF R
    <3> QED BY <3>1, <3>4, <3>5, <3>7, <3>8, <3>9
  <2> QED BY <2>1, <2>2
<1>6. CASE NextList
  <2>1. /\ todo = {} /\ UNCHANGED <<rules, request>>
        /\ step \in {"runtime", "workspace", "caches", "devices"}
        /\ step' = Lists[step].then /\ todo' = PathsOf(step')
    BY <1>6, RulesOfList DEF NextList, GoOn
  <2>2. CASE step = "runtime"
    <3>1. step' = "workspace" /\ todo' = request.allowed BY <2>1, <2>2, RulesOfList DEF PathsOf
    <3> QED BY <2>1, <2>2, <3>1 DEF Called
  <2>3. CASE step = "workspace"
    <3>1. step' = "caches" /\ todo' = request.caches BY <2>1, <2>3, RulesOfList DEF PathsOf
    <3> QED BY <2>1, <2>3, <3>1 DEF Called
  <2>4. CASE step = "caches"
    <3>1. step' = "devices" /\ todo' = Devices BY <2>1, <2>4, RulesOfList DEF PathsOf
    <3> QED BY <2>1, <2>4, <3>1 DEF Called
  <2>5. CASE step = "devices"
    <3>1. step' = "nnp" BY <2>1, <2>5, RulesOfList
    <3> QED BY <2>1, <2>5, <3>1 DEF Called
  <2> QED BY <2>1, <2>2, <2>3, <2>4, <2>5
<1>7. CASE UNCHANGED <<rules, request>> /\ step \in Confining /\ step' \in Confining
  BY <1>7 DEF Called
<1>8. CASE UNCHANGED <<rules, request, step, todo>>
  BY <1>8 DEF Called
<1> QED
  BY <1>0, <1>1, <1>2, <1>3, <1>4, <1>5, <1>6, <1>7, <1>8, <1>9
  DEF Next, Probe, Chdir, Lookup, SetLimit, LimitsSet, NoNewPrivs, Restrict, ApplySeccomp,
      Exec, Vanish, Migrate, Clone, Ended, vars, Fail, GoOn

(* Every step of the helper keeps the invariant.                           *)
LEMMA HelperInvNext == HelperInv /\ [Next]_vars => HelperInv'
<1> SUFFICES ASSUME HelperInv, [Next]_vars PROVE HelperInv' OBVIOUS
<1>1. CASE Next
  BY <1>1, TypeNext, LimitNext, ForceNext, RunNext, GrantNext DEF HelperInv
<1>2. CASE UNCHANGED vars
  <2> USE <1>2 DEF vars, threadVars
  <2>1. TypeOK' BY DEF HelperInv, TypeOK
  <2>2. LimitInv' BY DEF HelperInv, LimitInv
  <2>3. ForceInv' BY DEF HelperInv, ForceInv, Given, Asks
  <2>4. GrantInv' BY DEF HelperInv, GrantInv, Called
  <2>5. RunInv' BY DEF HelperInv, RunInv
  <2> QED BY <2>1, <2>2, <2>3, <2>4, <2>5 DEF HelperInv
<1> QED BY <1>1, <1>2

-----------------------------------------------------------------------------
(* Every state of the helper satisfies the invariant above.                *)
THEOREM HelperInvariant == Spec => []HelperInv
BY HelperInvInit, HelperInvNext, PTL DEF Spec

(* The helper's variables keep their types, and its request is never wider *)
(* than the one it was given.                                              *)
THEOREM HelperTypeCorrect == Spec => []TypeOK
<1>1. HelperInv => TypeOK BY DEF HelperInv
<1> QED BY <1>1, HelperInvariant, PTL

(* A helper that has failed or not finished has run nothing, or a go       *)
(* command's query under no boundary.  The command has all boundaries its  *)
(* request asks for, and no other, but for those the goroutine lost by     *)
(* moving to another thread, for any number of threads, cloned at any time *)
(* (isolation_linux.go:204-210, 485-519).                                  *)
THEOREM HelperFailsClosed == Spec => []FailsClosed
<1>1. HelperInv => FailsClosed
  <2> SUFFICES ASSUME HelperInv PROVE FailsClosed OBVIOUS
  <2>1. thread \in Threads BY DEF HelperInv, TypeOK
  <2>2. step # "running" => ran \subseteq (IF request.isGo THEN {{}} ELSE {})
    BY DEF HelperInv, RunInv
  <2>3. step = "running" => /\ Asks(request) \subseteq confined[thread] \cup left
                            /\ confined[thread] \subseteq Asks(request)
    BY <2>1 DEF HelperInv, ForceInv, Given, Confining, Asks, Boundaries
  <2> QED BY <2>2, <2>3 DEF FailsClosed
<1> QED BY <1>1, HelperInvariant, PTL

(* Writing is possible below the directories of the request and on devices *)
(* only, for every arrangement of directories.                             *)
THEOREM WritesContained == Spec => []NothingElseWritable
<1>1. HelperInv => NothingElseWritable
  <2> SUFFICES ASSUME HelperInv, step = "running", Have("landlock files"), NEW d \in Dirs,
                      NEW right \in {"write", "change"}, May(right, d)
               PROVE  \E e \in request.allowed \cup Devices : <<e, d>> \in Contains
    BY DEF NothingElseWritable
  <2>1. PICK e \in Dirs : <<e, right>> \in rules /\ <<e, d>> \in Contains
    BY DEF HelperInv, ForceInv, May
  <2>2. right \in Full /\ right \notin Read BY DEF Full, Read
  <2>3. Called(e, right) BY <2>1, <2>2 DEF HelperInv, GrantInv
  <2> QED BY <2>1, <2>2, <2>3 DEF Called
<1> QED BY <1>1, HelperInvariant, PTL

(* A command that runs has all it was promised.                            *)
THEOREM GrantsComplete == Spec => []GrantsAreComplete
<1>1. HelperInv => GrantsAreComplete
  <2> SUFFICES ASSUME HelperInv, step = "running" PROVE GrantsAreComplete
    BY DEF GrantsAreComplete
  <2>1. /\ request.allowed \subseteq Dirs /\ request.caches \subseteq Dirs
        /\ \A d \in Dirs : <<d, d>> \in Contains
    BY RequestInDirs, HelperAssumption DEF HelperInv, HelperAssumption
  <2>2. /\ \A d \in request.allowed, r \in Full : <<d, r>> \in rules
        /\ \A d \in request.caches, r \in Read : <<d, r>> \in rules
        /\ \E d \in request.allowed : <<d, request.cwd>> \in Contains
    BY DEF HelperInv, GrantInv, AfterPaths, AfterLimits, AfterWorkspace, AfterCaches, Confining
  <2> QED BY <2>1, <2>2 DEF GrantsAreComplete, May
<1> QED BY <1>1, HelperInvariant, PTL

(* No limit is above the inherited one, ever, nor above what was asked for *)
(* when the command runs.                                                  *)
THEOREM LimitsAlwaysHold == Spec => []LimitsHold
<1>1. HelperInv => LimitsHold
  BY DEF HelperInv, LimitInv, LimitsHold, AfterLimits, AfterWorkspace, AfterCaches, Confining
<1> QED BY <1>1, HelperInvariant, PTL
=============================================================================
