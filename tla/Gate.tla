--------------------------------- MODULE Gate ---------------------------------
(***************************************************************************)
(* The policy gate of cmd/paldron/main.go: runCheck, and the part of       *)
(* runExec that comes before the sandbox.  Both look at the arguments one  *)
(* by one, runCheck in no fixed order, and decide on each by EvalPath if   *)
(* it looks like a path: by its form, or because an entry of that name is  *)
(* in the working directory when os.Stat asks.  Other programs create and  *)
(* remove such entries all the while.                                      *)
(***************************************************************************)
EXTENDS PathPolicy, FiniteSets

CONSTANTS Policies,    \* the policies to run under: [deny, allow]
          Cwd,         \* the working directory, as segments
          Arguments,   \* the arguments to give: [flag, abs, segs]
          Companions,  \* those a second argument may be
          Dotted,      \* names looksLikePath takes for paths by their form
          Entries      \* names that come and go in the working directory

(* Paths and globs have at least one segment.  A directory of allow_paths  *)
(* may be the root, which has none.                                        *)
ASSUME GateAssumption ==
  /\ Cwd \in Seq(STRING)
  /\ \A p \in Policies : /\ p.deny \subseteq Seq(STRING) \ {<<>>}
                         /\ p.allow \subseteq Seq(STRING)
  /\ \A a \in Arguments \cup Companions : /\ {a.flag, a.abs} \subseteq BOOLEAN
                                          /\ a.segs \in Seq(STRING) \ {<<>>}

(* segMatch matches "." with no secret name: two of them end otherwise,    *)
(* and the third is longer.                                                *)
ASSUME SecretsAreNotDot == \A p \in SecretNames : <<p, ".">> \notin Wild

VARIABLES command,     \* "check" or "exec"
          policy,
          args,        \* the string arguments of the request
          entries,     \* the entries of the working directory now
          stage,       \* "request", "arguments" or "exited"
          todo,        \* arguments not looked at yet
          verdict,     \* the exit code; "pass" hands over to the sandbox
          refused,     \* history: the guardrails or allow_binaries said no
          always,      \* history: entries that were there all the time
          ever         \* history: entries that were there at some time

request == <<command, policy, args>>
history == <<refused, always, ever>>
vars == <<request, entries, stage, todo, verdict, history>>

TypeOK ==
  /\ command \in {"check", "exec"}
  /\ policy \in Policies
  /\ args \subseteq Arguments \cup Companions
  /\ entries \subseteq Entries
  /\ stage \in {"request", "arguments", "exited"}
  /\ todo \subseteq args
  /\ verdict \in {"none", "pass", "deny", "broken"}
  /\ verdict # "none" <=> stage = "exited"
  /\ refused \in BOOLEAN
  /\ always \subseteq entries /\ entries \subseteq ever /\ ever \subseteq Entries

Init ==
  /\ command \in {"check", "exec"}
  /\ policy \in Policies
  /\ \E first \in Arguments, others \in SUBSET Companions : args = {first} \cup others
  /\ entries \in SUBSET Entries
  /\ stage = "request"
  /\ todo = {}
  /\ verdict = "none"
  /\ refused = FALSE
  /\ always = entries
  /\ ever = entries

-----------------------------------------------------------------------------
(* looksLikePath, for an argument that is neither empty nor a flag.        *)

ByForm(arg) == arg.abs \/ Len(arg.segs) > 1 \/ Head(arg.segs) \in Dotted

LooksLikePath(arg) == ByForm(arg) \/ Head(arg.segs) \in entries

(* Mutant: every argument but a flag is a path.                            *)
IgnoredFlagsOnly(arg) == arg.flag

(* Arguments the loop passes over.                                         *)
Ignored(arg) == arg.flag \/ ~LooksLikePath(arg)

ExitWith(v) == stage' = "exited" /\ verdict' = v

(* Mutant: the error is reported and the call goes on.                     *)
BrokenGoesOn ==
  /\ stage = "request"
  /\ verdict' = "broken"
  /\ UNCHANGED <<request, entries, stage, todo, history>>

(* The arguments of a check do not parse; exec is given no command; the    *)
(* working directory cannot be had.                                        *)
Broken ==
  /\ stage = "request"
  /\ ExitWith("broken")
  /\ UNCHANGED <<request, entries, todo, history>>

(* "../" in a string, one of the patterns the guardrails of a check refuse. *)
Climbs(arg) == \E i \in 1 .. Len(arg.segs) - 1 : arg.segs[i] = ".."

(* The guardrails refuse the call, or allow_binaries the command.  Module  *)
(* Guardrails has their reasons, here any request may give them one.       *)
Refuse ==
  /\ stage = "request"
  /\ refused' = TRUE
  /\ ExitWith("deny")
  /\ UNCHANGED <<request, entries, todo, always, ever>>

(* Mutant: the guardrails do not look for "../".                           *)
AcceptClimbing ==
  /\ stage = "request"
  /\ stage' = "arguments"
  /\ todo' = args
  /\ UNCHANGED <<request, entries, verdict, history>>

Accept ==
  /\ stage = "request"
  /\ command = "check" => \A a \in args : ~Climbs(a)
  /\ stage' = "arguments"
  /\ todo' = args
  /\ UNCHANGED <<request, entries, verdict, history>>

PassOver(arg) ==
  /\ stage = "arguments"
  /\ arg \in todo
  /\ Ignored(arg) \/ EvalPath(policy, Cwd, arg) = "allow"
  /\ todo' = todo \ {arg}
  /\ UNCHANGED <<request, entries, stage, verdict, history>>

Object(arg) ==
  /\ stage = "arguments"
  /\ arg \in todo
  /\ ~Ignored(arg)
  /\ EvalPath(policy, Cwd, arg) # "allow"
  /\ ExitWith("deny")
  /\ UNCHANGED <<request, entries, todo, history>>

Pass ==
  /\ stage = "arguments"
  /\ todo = {}
  /\ ExitWith("pass")
  /\ UNCHANGED <<request, entries, todo, history>>

-----------------------------------------------------------------------------
(* Other programs.                                                         *)

Appears(name) ==
  /\ stage # "exited"
  /\ name \notin entries
  /\ entries' = entries \cup {name}
  /\ ever' = ever \cup {name}
  /\ UNCHANGED <<request, stage, todo, verdict, refused, always>>

Vanishes(name) ==
  /\ stage # "exited"
  /\ name \in entries
  /\ entries' = entries \ {name}
  /\ always' = always \ {name}
  /\ UNCHANGED <<request, stage, todo, verdict, refused, ever>>

Exited == stage = "exited" /\ UNCHANGED vars

Next ==
  \/ Broken \/ Refuse \/ Accept \/ Pass \/ Exited
  \/ \E arg \in args : PassOver(arg) \/ Object(arg)
  \/ \E name \in Entries : Appears(name) \/ Vanishes(name)

Spec == Init /\ [][Next]_vars

-----------------------------------------------------------------------------
(* Where an argument leads, step by step through the file system and       *)
(* without symbolic links: the reference the verdicts are compared with.   *)

WalkStep(place, s) ==
  IF s = "." \/ (s = ".." /\ place = <<>>) THEN place
  ELSE IF s = ".." THEN Front(place)
  ELSE Append(place, s)

(* The place after each of the segments.                                   *)
Walked(start, segs) ==
  LET w[i \in 0 .. Len(segs)] == IF i = 0 THEN start ELSE WalkStep(w[i - 1], segs[i])
  IN  w

Start(arg) == IF arg.abs THEN <<>> ELSE Cwd

Place(arg) == Walked(Start(arg), arg.segs)[Len(arg.segs)]

Inside(arg) == IsPrefix(Cwd, Place(arg))

(* A relative path that steps out of the working directory on its way,     *)
(* even if it comes back.                                                  *)
Leaves(arg) ==
  /\ ~arg.abs
  /\ \E i \in 1 .. Len(arg.segs) : arg.segs[i] = ".." /\ Walked(Cwd, arg.segs)[i - 1] = Cwd

(* The path from the working directory to where the argument leads.        *)
Below(arg) == From(Place(arg), Len(Cwd) + 1)

NameOf(below) == IF below = <<>> THEN DotPath ELSE below

(* What the secret globs are there for, without globs.                     *)
Secret(below) ==
  \E i \in 1 .. Len(below) :
    \/ below[i] = "secrets"
    \/ i = Len(below) /\ \E p \in SecretNames : SegMatches(p, below[i])

InDir(below, dir) == IsPrefix(dir, below)

(* A directory that is named and not computed.                             *)
Plain(dir) == dir # <<>> /\ \A i \in 1 .. Len(dir) : dir[i] \notin {"**", ".", ".."}

(* What a deny glob takes away: dir/** the directory with all below it.    *)
Takes(g, below) ==
  IF Last(g) = "**" /\ Plain(Front(g)) THEN InDir(below, Front(g))
  ELSE GlobMatch(g, NameOf(below))

Closed(below) == \E g \in policy.deny : Takes(g, below)

(* The arguments that count as paths whatever other programs do.           *)
IsPath(arg) == ~arg.flag /\ (ByForm(arg) \/ Head(arg.segs) \in always)

(* Those that may have counted as paths.                                   *)
MaybePath(arg) == ~arg.flag /\ (ByForm(arg) \/ Head(arg.segs) \in ever)

(* The gate passes no argument that names a secret in the working          *)
(* directory, nor, unless the argument leaves the directory on its way,    *)
(* what a deny_glob takes away, however the name is written and whatever   *)
(* comes and goes meanwhile: the comparison of globs with tails of a       *)
(* cleaned relative path in EvalPath misses no spelling.                   *)
NoSecretPasses ==
  verdict = "pass" =>
    \A a \in args : IsPath(a) /\ Inside(a) =>
      /\ ~Secret(Below(a))
      /\ Closed(Below(a)) => Leaves(a)

(* With allow_paths set to named subdirectories, what passes lies in one   *)
(* of them.                                                                *)
StaysInAllowed ==
  verdict = "pass" /\ policy.allow # {} /\ (\A d \in policy.allow : Plain(d)) =>
    \A a \in args : IsPath(a) =>
      /\ Inside(a)
      /\ \E d \in policy.allow : InDir(Below(a), d)

(* The check command lets nothing outside the working directory pass but   *)
(* the parent directory itself, under any policy: absolute paths are held  *)
(* by EvalPath, relative ones by the guardrail on "../".                   *)
CheckStaysInside ==
  verdict = "pass" /\ command = "check" =>
    \A a \in args : IsPath(a) => Inside(a) \/ Place(a) = Front(Cwd)

(* Nothing is denied without a ground: words that are neither flags nor    *)
(* paths (cargo's "build") never are, and a path is denied only if it      *)
(* leaves the working directory, or is secret, taken away or not allowed.  *)
(* The root as working directory is the exception: EvalPath looks for what *)
(* is below "//" and refuses every absolute path.                          *)
DenialHasGround ==
  verdict = "deny" =>
    \/ refused
    \/ \E a \in args :
         /\ MaybePath(a)
         /\ \/ ~Inside(a) \/ Leaves(a) \/ (a.abs /\ Cwd = <<>>)
            \/ Secret(Below(a)) \/ Closed(Below(a))
            \/ policy.allow # {} /\ \A d \in policy.allow : ~InDir(Below(a), d)
==============================================================================
