------------------------------ MODULE PolicyUse ------------------------------
(***************************************************************************)
(* What becomes of the settings of a policy file in `paldron exec`.        *)
(* LoadPolicy (cmd/paldron/policy.go) accepts or refuses the file.  The    *)
(* limits go through runExec (main.go), NewSandbox (sandbox.go) and the    *)
(* isolation helper (isolation_linux.go) to the kernel, the timeout to two *)
(* contexts, and the settings of Jev to the judgement of the output        *)
(* (main.go, internal/jev/jev.go).                                         *)
(*                                                                         *)
(* Integers wrap at their width, as in Go.  Probabilities and thresholds   *)
(* are steps of a scale from 0 to One, and a threshold may be NaN.  Nobody *)
(* holds the answers of the endpoint to that scale.                        *)
(***************************************************************************)
EXTENDS Integers

CONSTANTS PolicyFiles,    \* settings a policy file may hold; see FileType
          IntHalf,        \* an int is in -IntHalf..IntHalf-1
          LongHalf,       \* an int64 is in -LongHalf..LongHalf-1
          Second,         \* time.Second, in nanoseconds
          MegaByte,       \* 1024 * 1024
          Grace,          \* seconds the outer context adds
          DefaultTimeout, \* seconds, of runExec and NewSandbox
          Default,        \* compiled defaults of policy.go, by kind of limit
          SandboxDefault, \* those of isolation.go, in the units of the kernel
          HardLimits,     \* hard limits paldron may be started under
          Unlimited,      \* RLIM_INFINITY
          One,            \* probability 1
          JevDefault,     \* the default threshold, 0.7
          Reported,       \* numbers a reply may give as a probability
          NaN,
          Missing,        \* an answer that a reply leaves out
          Empty,          \* an answer without its probability
          Failed,         \* no reply, or an error in place of a judgement
          None

Kinds == {"cpu", "memory", "processes", "fileSize", "openFiles"}

(* What a limit counts, in the units of the kernel.                        *)
Unit(k) == IF k \in {"memory", "fileSize"} THEN MegaByte ELSE 1

Ints == -IntHalf..(IntHalf - 1)

Questions == {"secret_exposure", "hostile_action"}

(* The settings as the decoder leaves them.  A key that is left out has    *)
(* the value of DefaultPolicy, isolation and DefaultTimeout, or zero.      *)
(* "sound": it is TOML, of the right types, and has no unknown key.        *)
FileType ==
  [sound : BOOLEAN, isolation : BOOLEAN, limits : [Kinds -> Ints], timeout : Ints,
   jev : BOOLEAN, threshold : Int \cup {NaN}, onError : {"", "deny", "allow", "other"}]

ASSUME PolicyUseAssumption ==
  /\ {IntHalf, LongHalf, Second, MegaByte, Grace, DefaultTimeout, One, JevDefault} \subseteq Nat \ {0}
  /\ IntHalf <= LongHalf
  /\ Default \in [Kinds -> Nat \ {0}]
  /\ \A k \in Kinds : /\ SandboxDefault[k] = Default[k] * Unit(k)
                      /\ SandboxDefault[k] < LongHalf
  /\ DefaultTimeout < IntHalf
  /\ PolicyFiles \subseteq FileType
  /\ HardLimits \subseteq [Kinds -> Nat \cup {Unlimited}]
  /\ Unlimited \notin Int
  /\ JevDefault <= One
  /\ Reported \subseteq Int
  /\ {NaN, Missing, Empty} \cap Int = {}
  /\ Missing # Empty
  /\ {None, Failed} \cap [Questions -> Int \cup {Missing, Empty}] = {}

VARIABLES stage,      \* where paldron is
          file,       \* the policy file
          hard,       \* the hard limits paldron has inherited
          system,     \* the build
          limits,     \* limits on their way to the kernel
          deadline,   \* the earlier deadline of the two contexts, from the start
          reply,      \* what came back from the Jev endpoint
          judgement,  \* what JudgeOutput returned
          verdict     \* the exit code, by its meaning

settings == <<file, hard, system>>
vars == <<stage, settings, limits, deadline, reply, judgement, verdict>>

(* A reply answers each question, leaves it out, or answers it without the *)
(* probability.                                                            *)
Answers == [Questions -> Reported \cup {Missing, Empty}]

TypeOK ==
  /\ stage \in {"load", "configure", "sandbox", "helper", "judge", "asked", "answered"}
  /\ file \in FileType
  /\ hard \in HardLimits
  /\ system \in {"linux", "darwin", "windows"}
  /\ limits \in [Kinds -> -LongHalf..(LongHalf - 1)]
  /\ deadline \in -LongHalf..(LongHalf - 1)
  /\ verdict \in {"none", "allow", "deny", "broken"}
  /\ judgement \in [Questions -> Int] \cup {None, Failed}

Init ==
  /\ stage = "load"
  /\ file \in PolicyFiles
  /\ hard \in HardLimits
  /\ system \in {"linux", "darwin", "windows"}
  /\ limits = [k \in Kinds |-> 0]
  /\ deadline = 0
  /\ reply = None
  /\ judgement = None
  /\ verdict = "none"

-----------------------------------------------------------------------------
(* Arithmetic of Go.                                                       *)

Wrap(half, x) == ((x + half) % (2 * half)) - half

(* The ordering of float64: nothing is less than NaN, nor NaN than it.     *)
Less(x, y) == x # NaN /\ y # NaN /\ x < y

Earlier(x, y) == IF x <= y THEN x ELSE y

Answer(v) == stage' = "answered" /\ verdict' = v

-----------------------------------------------------------------------------
(* LoadPolicy.                                                             *)

Invalid(f) == f.onError = "other" \/ Less(f.threshold, 0) \/ Less(One, f.threshold)

LoadPolicy ==
  /\ stage = "load"
  /\ IF ~file.sound \/ Invalid(file)
     THEN Answer("broken")
     ELSE stage' = "configure" /\ UNCHANGED verdict
  /\ UNCHANGED <<settings, limits, deadline, reply, judgement>>

-----------------------------------------------------------------------------
(* The limits and the timeout.                                             *)

IntOr(v, default) == IF v <= 0 THEN default ELSE v

(* The SandboxConfig of runExec.                                           *)
Configure ==
  /\ stage = "configure"
  /\ stage' = "sandbox"
  /\ limits' = [k \in Kinds |-> Wrap(LongHalf, IntOr(file.limits[k], Default[k]) * Unit(k))]
  /\ UNCHANGED <<settings, deadline, reply, judgement, verdict>>

(* The defaults of NewSandbox.  The time limit falls back on the timeout.  *)
NewSandbox(c) ==
  [k \in Kinds |->
     IntOr(c[k], IF k = "cpu" THEN IntOr(file.timeout, DefaultTimeout) ELSE SandboxDefault[k])]

(* Mutant: the outer context has a fixed time.                             *)
TimeoutFixed(t) == Earlier((DefaultTimeout + Grace) * Second, Wrap(LongHalf, t * Second))

(* The deadline of the command's context: its own timeout, within that of  *)
(* the context runExec hands to it.                                        *)
Timeout(t) ==
  Earlier(Wrap(LongHalf, Wrap(IntHalf, t + Grace) * Second), Wrap(LongHalf, t * Second))

(* NewSandbox and the contexts; the limits travel in the request to the    *)
(* helper if there is one.                                                 *)
EnterSandbox ==
  /\ stage = "sandbox"
  /\ IF file.isolation /\ system = "windows"
     THEN Answer("broken") /\ UNCHANGED <<limits, deadline>>
     ELSE /\ stage' = IF file.isolation /\ system = "linux" THEN "helper" ELSE "judge"
          /\ limits' = NewSandbox(limits)
          /\ deadline' = Timeout(IntOr(file.timeout, DefaultTimeout))
          /\ UNCHANGED verdict
  /\ UNCHANGED <<settings, reply, judgement>>

(* setResourceLimit, which never raises what was inherited.                *)
InForce(k, requested) ==
  IF hard[k] # Unlimited /\ requested > hard[k] THEN hard[k] ELSE requested

(* Mutant: the defaults of the helper replace the limits of the request.   *)
ApplyDefaultLimits ==
  /\ stage = "helper"
  /\ stage' = "judge"
  /\ limits' = [k \in Kinds |-> InForce(k, SandboxDefault[k])]
  /\ UNCHANGED <<settings, deadline, reply, judgement, verdict>>

(* applyResourceLimits with normalizeResourceLimits.                       *)
ApplyResourceLimits ==
  /\ stage = "helper"
  /\ stage' = "judge"
  /\ limits' = [k \in Kinds |-> InForce(k, IntOr(limits[k], SandboxDefault[k]))]
  /\ UNCHANGED <<settings, deadline, reply, judgement, verdict>>

-----------------------------------------------------------------------------
(* The judgement.                                                          *)

(* The run, before or after the helper took over, was not a success or its *)
(* files were denied.                                                      *)
RunFails ==
  /\ stage = "judge"
  /\ \E v \in {"deny", "broken"} : Answer(v)
  /\ UNCHANGED <<settings, limits, deadline, reply, judgement>>

NotJudged ==
  /\ stage = "judge"
  /\ ~file.jev
  /\ Answer("allow")
  /\ UNCHANGED <<settings, limits, deadline, reply, judgement>>

(* JudgeOutput without a key, or without an answer of status 200 that is   *)
(* JSON of the right shape: a failed or late call, another status, garbage. *)
JudgementFails ==
  /\ stage = "judge"
  /\ file.jev
  /\ stage' = "asked"
  /\ reply' = Failed
  /\ judgement' = Failed
  /\ UNCHANGED <<settings, limits, deadline, verdict>>

(* Mutant: an answer without its probability has none.                     *)
DecodePartial(r) == IF \E q \in Questions : r[q] = Missing THEN Failed ELSE r

(* Mutant: an answer that is missing is one without a probability.         *)
DecodeGuessing(r) == [q \in Questions |-> IF r[q] \in {Missing, Empty} THEN 0 ELSE r[q]]

(* The response as JudgeOutput reads it: a question that is left out is an *)
(* error, an answer without its probability is zero.                       *)
Decode(r) ==
  IF \E q \in Questions : r[q] = Missing THEN Failed
  ELSE [q \in Questions |-> IF r[q] = Empty THEN 0 ELSE r[q]]

JudgeOutput(r) ==
  /\ stage = "judge"
  /\ file.jev
  /\ stage' = "asked"
  /\ reply' = r
  /\ judgement' = Decode(r)
  /\ UNCHANGED <<settings, limits, deadline, verdict>>

Threshold == IF Less(0, file.threshold) \/ file.threshold = NaN THEN file.threshold ELSE JevDefault

Reaches(p, t) == ~Less(p, t) /\ t # NaN

(* jevOutputVerdict: the error is tolerated or not, a judgement is         *)
(* compared with the threshold.                                            *)
JevOutputVerdict ==
  /\ stage = "asked"
  /\ Answer(IF judgement = Failed
            THEN IF file.onError = "allow" THEN "allow" ELSE "deny"
            ELSE IF \E q \in Questions : Reaches(judgement[q], Threshold)
                 THEN "deny" ELSE "allow")
  /\ UNCHANGED <<settings, limits, deadline, reply, judgement>>

Answered == stage = "answered" /\ UNCHANGED vars

Next ==
  \/ LoadPolicy \/ Configure \/ EnterSandbox \/ ApplyResourceLimits
  \/ RunFails \/ NotJudged \/ JudgementFails \/ JevOutputVerdict
  \/ \E r \in Answers : JudgeOutput(r)
  \/ Answered

Spec == Init /\ [][Next]_vars

-----------------------------------------------------------------------------
(* Under the helper the command has the limits the policy asks for, each   *)
(* with its default if it asks for none, and never more than paldron       *)
(* itself; a request beyond what an int64 of bytes can hold ends up as     *)
(* something smaller, never as no limit (main.go:175-189,                  *)
(* sandbox.go:94-111, isolation_linux.go:432-483).                         *)
LimitsFollowPolicy ==
  stage \in {"judge", "asked"} /\ file.isolation /\ system = "linux" =>
    \A k \in Kinds :
      LET asked == IntOr(file.limits[k], Default[k]) * Unit(k)
      IN  /\ limits[k] <= asked
          /\ hard[k] # Unlimited => limits[k] <= hard[k]
          /\ asked < LongHalf => limits[k] \in {asked, hard[k]}
          /\ limits[k] > 0 \/ limits[k] = hard[k]

(* The command never gets more time than the policy says, and exactly that *)
(* if the time is representable: the outer context never cuts it short     *)
(* (main.go:182, 208, sandbox.go:95-97, 268-269).                          *)
DeadlineFollowsPolicy ==
  stage \in {"judge", "asked", "helper"} =>
    LET asked == IntOr(file.timeout, DefaultTimeout)
    IN  /\ deadline <= asked * Second
        /\ asked + Grace < IntHalf /\ (asked + Grace) * Second < LongHalf
             => deadline = asked * Second

(* Exit 0 under a policy with jev_verdict: if there was no reply, or one   *)
(* that leaves a question out, the policy said that it may do without; and *)
(* if there was one, every number in it is below the threshold, the        *)
(* policy's or the default where the policy has none (policy.go:82-89,     *)
(* main.go:240-268, jev.go:50-122).  Nothing is claimed of an answer       *)
(* without its probability, which counts as zero (see AllowIsJudged), and  *)
(* under a threshold of NaN, which is accepted and denies nothing.         *)
ReportedRiskIsDenied ==
  verdict = "allow" /\ file.jev =>
    IF reply = Failed \/ \E q \in Questions : reply[q] = Missing
    THEN file.onError = "allow"
    ELSE \A q \in Questions :
           reply[q] # Empty /\ file.threshold # NaN =>
             reply[q] < (IF file.threshold > 0 THEN file.threshold ELSE JevDefault)

-----------------------------------------------------------------------------
(* What a comment says and the code does not do.                           *)

(* "an error when the judgment could not be obtained (no key, network      *)
(* failure, bad response) ... this package never guesses" (jev.go:52-54):  *)
(* unless the policy tolerates errors, both probabilities have been given  *)
(* whenever the answer is exit 0.                                          *)
AllowIsJudged ==
  verdict = "allow" /\ file.jev /\ file.onError # "allow" =>
    reply # Failed /\ \A q \in Questions : reply[q] \in Int
==============================================================================
