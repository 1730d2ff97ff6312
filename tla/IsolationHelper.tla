---------------------------- MODULE IsolationHelper ----------------------------
(***************************************************************************)
(* The restricted child of isolation_linux.go: runIsolated, which takes    *)
(* rights away from itself step by step and then becomes the command.      *)
(* Any step can fail, and a failure must leave nothing running.  The file  *)
(* system is not the helper's own: directories disappear between the step  *)
(* that resolves them and the step that opens them.                        *)
(*                                                                         *)
(* no_new_privs, Landlock and seccomp bind the thread that asks for them,  *)
(* and the command keeps those of the thread that calls execve.  Nothing   *)
(* in the code locks the helper's goroutine to a thread: the Go runtime may *)
(* move it to another one at any time, and makes new threads with clone(2), *)
(* which inherit what binds the thread they are cloned from.               *)
(*                                                                         *)
(* A directory stands for everything in it that no other directory of the  *)
(* model contains.  Landlock grants add up: what may be done in a          *)
(* directory is the union of the rules on it and on all that contain it.   *)
(***************************************************************************)
EXTENDS Integers, FiniteSets

CONSTANTS Dirs,        \* directories and devices
          Contains,    \* <<d, e>>: d is e or contains it
          Runtime,     \* readonlyRuntimePaths
          Devices,     \* the device files commands may use
          Requests,    \* requests; see RequestType
          Resources,   \* resources with a limit
          Asked,       \* the limit asked for each, 0 for none
          Default,     \* the limit for those
          Inherited,   \* the hard limit the helper starts with
          Threads      \* the threads of the helper's runtime

RequestType ==
  [allowed : SUBSET Dirs, caches : SUBSET Dirs, cwd : Dirs, network : BOOLEAN,
   isGo : BOOLEAN]     \* the base name of the command is "go"

ASSUME HelperAssumption ==
  /\ Contains \subseteq Dirs \X Dirs
  /\ \A d \in Dirs : <<d, d>> \in Contains
  /\ \A d, e, f \in Dirs :
       <<d, e>> \in Contains /\ <<e, f>> \in Contains => <<d, f>> \in Contains
  /\ Runtime \subseteq Dirs /\ Devices \subseteq Dirs
  /\ Requests \subseteq RequestType
  /\ {Asked, Default, Inherited} \subseteq [Resources -> Nat]

VARIABLES request,     \* what the helper is asked for, narrowed by the checks
          abi,         \* the kernel's Landlock version, 0 without Landlock
          existing,    \* the directories that exist
          step,        \* the step to take next; "running" is the command
          rules,       \* the ruleset: <<directory, right>>
          todo,        \* paths of this step that still need their rules
          limits,      \* hard limits of the process
          threads,     \* the threads there are
          thread,      \* the one the goroutine runs on
          confined,    \* what is in force for each thread
          left,        \* history: what the goroutine has lost by moving
          ran          \* history: what bound each start of the command's binary

threadVars == <<threads, thread, confined, left, ran>>
vars == <<request, abi, existing, step, rules, todo, limits, threadVars>>

Steps == {"probe", "paths", "chdir", "lookup", "limits", "ruleset", "query",
          "runtime", "workspace", "caches", "devices", "nnp", "landlock", "seccomp",
          "exec", "running", "failed"}

Boundaries == {"no_new_privs", "landlock files", "landlock network", "seccomp"}

Read == {"execute", "read", "list"}
Full == Read \cup {"write", "change"}     \* handledFilesystemAccess
Device == {"read", "write"}

TypeOK ==
  /\ request \in RequestType
  /\ \E r \in Requests : /\ request.allowed \subseteq r.allowed
                         /\ request.caches \subseteq r.caches
                         /\ request.cwd = r.cwd /\ request.network = r.network
                         /\ request.isGo = r.isGo
  /\ abi \in 0 .. 4
  /\ existing \subseteq Dirs
  /\ step \in Steps
  /\ rules \subseteq Dirs \X Full
  /\ todo \subseteq Dirs \cup Resources
  /\ limits \in [Resources -> Nat]
  /\ threads \subseteq Threads /\ thread \in threads
  /\ confined \in [Threads -> SUBSET Boundaries]
  /\ left \subseteq Boundaries
  /\ ran \subseteq SUBSET Boundaries

Without(S, d) == {e \in S : <<d, e>> \notin Contains}

Init ==
  /\ request \in Requests
  /\ abi \in 0 .. 4
  /\ existing \in {Dirs} \cup {Without(Dirs, d) : d \in Dirs}
  /\ step = "probe"
  /\ rules = {}
  /\ todo = {}
  /\ limits = Inherited
  /\ threads \in SUBSET Threads
  /\ thread \in threads
  /\ confined = [t \in Threads |-> {}]
  /\ left = {}
  /\ ran = {}

-----------------------------------------------------------------------------
(* The goroutine's own thread gives something up.                          *)
Bind(boundaries) ==
  /\ confined' = [confined EXCEPT ![thread] = @ \cup boundaries]
  /\ UNCHANGED <<threads, thread, left, ran>>

Have(boundary) == boundary \in confined[thread]

(* Every step that meets an error ends the helper.                         *)
Fail ==
  /\ step' = "failed"
  /\ UNCHANGED <<request, abi, existing, rules, todo, limits, threadVars>>

GoOn(to) == step' = to

(* isolationSupported.                                                     *)
Supported == abi >= IF request.network THEN 3 ELSE 4

Probe ==
  /\ step = "probe"
  /\ \/ /\ Supported
        /\ GoOn("paths")
        /\ UNCHANGED <<request, abi, existing, rules, todo, limits, threadVars>>
     \/ ~Supported /\ Fail

(* validateIsolationPaths: what does not exist is left out, and the working *)
(* directory has to be in one of the directories that remain.              *)
Valid ==
  /\ request.cwd \in existing
  /\ \E d \in request.allowed \cap existing : <<d, request.cwd>> \in Contains

(* Mutant: the working directory is allowed without being asked for.       *)
ValidateAddingCwd ==
  /\ step = "paths"
  /\ \/ /\ Valid
        /\ request' = [request EXCEPT !.allowed = (@ \cap existing) \cup {request.cwd},
                                      !.caches = @ \cap existing]
        /\ GoOn("chdir")
        /\ UNCHANGED <<abi, existing, rules, todo, limits, threadVars>>
     \/ ~Valid /\ Fail

Validate ==
  /\ step = "paths"
  /\ \/ /\ Valid
        /\ request' = [request EXCEPT !.allowed = @ \cap existing, !.caches = @ \cap existing]
        /\ GoOn("chdir")
        /\ UNCHANGED <<abi, existing, rules, todo, limits, threadVars>>
     \/ ~Valid /\ Fail

Chdir ==
  /\ step = "chdir"
  /\ \/ /\ request.cwd \in existing
        /\ GoOn("lookup")
        /\ UNCHANGED <<request, abi, existing, rules, todo, limits, threadVars>>
     \/ Fail

Lookup ==
  /\ step = "lookup"
  /\ \/ /\ GoOn("limits")
        /\ todo' = Resources
        /\ UNCHANGED <<request, abi, existing, rules, limits, threadVars>>
     \/ Fail

-----------------------------------------------------------------------------
(* applyResourceLimits.                                                    *)

Lesser(m, n) == IF m <= n THEN m ELSE n

Normalized(r) == IF Asked[r] = 0 THEN Default[r] ELSE Asked[r]

(* Mutant: the limit the process came with is not looked at.               *)
LimitIgnoringInherited(r) == Normalized(r)

LimitFor(r) == Lesser(Normalized(r), Inherited[r])

SetLimit(r) ==
  /\ step = "limits"
  /\ r \in todo
  /\ \/ /\ limits' = [limits EXCEPT ![r] = LimitFor(r)]
        /\ todo' = todo \ {r}
        /\ UNCHANGED <<request, abi, existing, step, rules, threadVars>>
     \/ Fail

LimitsSet ==
  /\ step = "limits"
  /\ todo = {}
  /\ GoOn("ruleset")
  /\ UNCHANGED <<request, abi, existing, rules, todo, limits, threadVars>>

-----------------------------------------------------------------------------
(* applyLandlock: a ruleset, the rules of four lists of paths, no_new_privs *)
(* and the restriction.                                                    *)

(* The kernel refuses to handle TCP before version 4.                      *)
CreateRuleset ==
  /\ step = "ruleset"
  /\ \/ /\ request.network \/ abi >= 4
        /\ GoOn("query")
        /\ UNCHANGED <<request, abi, existing, rules, todo, limits, threadVars>>
     \/ Fail

(* readonlyRuntimePaths.  A command called "go" is asked for its root, by  *)
(* running it as a child of the helper; it names a directory or none.      *)
ReadonlyRuntimePaths(roots) ==
  /\ step = "query"
  /\ ~request.isGo => roots = {}
  /\ ran' = IF request.isGo THEN ran \cup {confined[thread]} ELSE ran
  /\ todo' = (Runtime \cup roots) \cap existing
  /\ GoOn("runtime")
  /\ UNCHANGED <<request, abi, existing, rules, limits, threads, thread, confined, left>>

(* Each list: the rights it grants and what comes after it.                *)
Lists == [runtime   |-> [rights |-> Read,   then |-> "workspace"],
          workspace |-> [rights |-> Full,   then |-> "caches"],
          caches    |-> [rights |-> Read,   then |-> "devices"],
          devices   |-> [rights |-> Device, then |-> "nnp"]]

PathsOf(list) == CASE list = "workspace" -> request.allowed
                   [] list = "caches" -> request.caches
                   [] list = "devices" -> Devices
                   [] OTHER -> {}

(* Mutant: a path that is gone is passed over in every list.               *)
AddRuleIfThere(d) ==
  /\ step \in DOMAIN Lists
  /\ d \in todo
  /\ rules' = rules \cup {<<d, r>> : r \in IF d \in existing THEN Lists[step].rights ELSE {}}
  /\ todo' = todo \ {d}
  /\ UNCHANGED <<request, abi, existing, step, limits, threadVars>>

(* Mutant: every list gets the rights of the workspace.                    *)
AddFullRule(d) ==
  /\ step \in DOMAIN Lists
  /\ d \in todo
  /\ \/ /\ d \in existing
        /\ rules' = rules \cup {<<d, r>> : r \in Full}
        /\ todo' = todo \ {d}
        /\ UNCHANGED <<request, abi, existing, step, limits, threadVars>>
     \/ d \notin existing /\ Fail

(* addLandlockPathRule opens the path again; only devices may be missing.  *)
AddRule(d) ==
  /\ step \in DOMAIN Lists
  /\ d \in todo
  /\ \/ /\ d \in existing \/ step = "devices"
        /\ rules' = rules \cup {<<d, r>> : r \in IF d \in existing THEN Lists[step].rights ELSE {}}
        /\ todo' = todo \ {d}
        /\ UNCHANGED <<request, abi, existing, step, limits, threadVars>>
     \/ (d \in existing \/ step # "devices") /\ Fail

NextList ==
  /\ step \in DOMAIN Lists
  /\ todo = {}
  /\ GoOn(Lists[step].then)
  /\ todo' = PathsOf(Lists[step].then)
  /\ UNCHANGED <<request, abi, existing, rules, limits, threadVars>>

NoNewPrivs ==
  /\ step = "nnp"
  /\ \/ /\ Bind({"no_new_privs"})
        /\ GoOn("landlock")
        /\ UNCHANGED <<request, abi, existing, rules, todo, limits>>
     \/ Fail

(* LANDLOCK_RESTRICT_SELF, which the kernel refuses without no_new_privs.  *)
Restrict ==
  /\ step = "landlock"
  /\ \/ /\ Have("no_new_privs")
        /\ Bind({"landlock files"} \cup IF request.network THEN {} ELSE {"landlock network"})
        /\ GoOn("seccomp")
        /\ UNCHANGED <<request, abi, existing, rules, todo, limits>>
     \/ Fail

(* Mutant: a filter that cannot be installed is done without.              *)
ApplySeccompOptional ==
  /\ step = "seccomp"
  /\ (Have("no_new_privs") /\ Bind({"seccomp"})) \/ UNCHANGED threadVars
  /\ GoOn("exec")
  /\ UNCHANGED <<request, abi, existing, rules, todo, limits>>

(* Without no_new_privs the kernel takes no filter either.                 *)
ApplySeccomp ==
  /\ step = "seccomp"
  /\ \/ /\ Have("no_new_privs")
        /\ Bind({"seccomp"})
        /\ GoOn("exec")
        /\ UNCHANGED <<request, abi, existing, rules, todo, limits>>
     \/ Fail

Exec ==
  /\ step = "exec"
  /\ \/ /\ GoOn("running")
        /\ ran' = ran \cup {confined[thread]}
        /\ UNCHANGED <<request, abi, existing, rules, todo, limits, threads, thread, confined, left>>
     \/ Fail

(* Another program removes a directory and all it contains.                *)
Vanish(d) ==
  /\ step \notin {"running", "failed"}
  /\ d \in existing
  /\ existing' = Without(existing, d)
  /\ UNCHANGED <<request, abi, step, rules, todo, limits, threadVars>>

(* The Go scheduler moves the goroutine.                                   *)
Migrate(t) ==
  /\ step \notin {"running", "failed"}
  /\ t \in threads
  /\ thread' = t
  /\ left' = (left \cup confined[thread]) \ confined[t]
  /\ UNCHANGED <<request, abi, existing, step, rules, todo, limits, threads, confined, ran>>

(* The Go runtime makes a thread u, on whatever thread t it happens to be. *)
Clone(t, u) ==
  /\ step \notin {"running", "failed"}
  /\ t \in threads
  /\ u \notin threads
  /\ threads' = threads \cup {u}
  /\ confined' = [confined EXCEPT ![u] = confined[t]]
  /\ UNCHANGED <<request, abi, existing, step, rules, todo, limits, thread, left, ran>>

Ended == step \in {"running", "failed"} /\ UNCHANGED vars

Next ==
  \/ Probe \/ Validate \/ Chdir \/ Lookup
  \/ \E r \in Resources : SetLimit(r)
  \/ LimitsSet \/ CreateRuleset \/ NextList \/ NoNewPrivs \/ Restrict
  \/ \E d \in Dirs : AddRule(d) \/ Vanish(d)
  \/ ApplySeccomp \/ Exec \/ Ended
  \/ \E roots \in {{}} \cup {{d} : d \in Dirs} : ReadonlyRuntimePaths(roots)
  \/ \E t, u \in Threads : Migrate(t) \/ Clone(t, u)

Spec == Init /\ [][Next]_vars

-----------------------------------------------------------------------------
(* What the kernel lets the process do in a directory.                     *)
May(right, d) ==
  Have("landlock files") => \E e \in Dirs : <<e, right>> \in rules /\ <<e, d>> \in Contains

Asks(r) == Boundaries \ (IF r.network THEN {"landlock network"} ELSE {})

(* Until the helper becomes the command, and if it fails, it has run none  *)
(* of it, but for the query of a go command, and that under no boundary at *)
(* all.  The command then runs under what the request asks for and no      *)
(* more, except for what the goroutine moved away from: no failing step,   *)
(* no missing support of the kernel and no thread cloned meanwhile costs a *)
(* boundary, and a goroutine that stays on its thread loses none           *)
(* (isolation_linux.go:204-210, 293-309, 424-430, 509-518).                *)
FailsClosed ==
  /\ step # "running" => ran \subseteq (IF request.isGo THEN {{}} ELSE {})
  /\ step = "running" => /\ Asks(request) \subseteq confined[thread] \cup left
                         /\ confined[thread] \subseteq Asks(request)

(* A confined command can write to the directories it is given and to      *)
(* devices, and to no other: runtime paths, caches and what nobody named   *)
(* stay as they are unless they lie in one of those.                       *)
NothingElseWritable ==
  step = "running" /\ Have("landlock files") =>
    \A d \in Dirs, right \in {"write", "change"} :
      May(right, d) => \E e \in request.allowed \cup Devices : <<e, d>> \in Contains

(* The command is not started half granted: it can work in its working     *)
(* directory and all directories it was promised, and read the caches.     *)
GrantsAreComplete ==
  step = "running" =>
    /\ \A d \in request.allowed \cup {request.cwd}, right \in Full : May(right, d)
    /\ \A d \in request.caches, right \in Read : May(right, d)

(* Every limit is set when the command starts, to what was asked or its    *)
(* default, and none above the one inherited: asking for that fails.       *)
LimitsHold ==
  /\ \A r \in Resources : limits[r] <= Inherited[r]
  /\ step = "running" => \A r \in Resources : limits[r] <= Normalized(r)

-----------------------------------------------------------------------------
(* What the README says and the code does not do.                          *)

(* "`exec` gates argv, runs the command behind Landlock/seccomp/resource   *)
(* limits" (README.md:71-72): whatever becomes of the helper's steps and   *)
(* of its threads, the command is not under a part of that.                *)
RunsConfined ==
  step = "running" => confined[thread] = {} \/ Asks(request) \subseteq confined[thread]
==============================================================================
