# A TLA+ model of paldron

`paldron` guards what a coding agent may do on a machine: `paldron check` decides on a tool
call, `paldron exec` runs a command under a policy, in a process group of its own and, on
Linux, under Landlock, seccomp and resource limits. This directory holds TLA+ modules of its
core, configurations that check them with TLC, and proofs checked by TLAPS. Paths below are
relative to `src/`; line numbers are those of the modelled commit.

## The system

| Part | Source | State | Operations | What makes it correct |
|---|---|---|---|---|
| check and the gate of exec | `cmd/paldron/main.go` 88-188 | the arguments, the entries of the working directory | `runCheck`, `looksLikePath`, argument loop of `runExec` | nothing secret, closed or out of bounds passes in any spelling; nothing is denied without a ground |
| path rules | `cmd/paldron/policy.go` 93-218 | none | `EvalPath`, `globMatch`, `segMatch`, `underDir` | they agree with what the globs say |
| policy loading | `cmd/paldron/policy.go` 15-91, `main.go`, `sandbox.go` 90-111 | none | `LoadPolicy`, defaults and limits in three layers | bad policies are refused; limits, timeout and threshold take effect as written or stricter |
| exec | `cmd/paldron/main.go` 152-308 | verdict | `runExec`, `scanOutputs`, `jevOutputVerdict` | exit 0 is earned, a denial is one, everything else is "broken", and an answer comes |
| sandbox executor | `internal/sandbox/sandbox.go` | main goroutine, watcher, copiers, timer, temporary home | `executeParts` with `os/exec` | the result is what happened; the run ends; nothing of the group survives a timeout; the home goes |
| bounded buffer | `internal/sandbox/sandbox.go` 40-88 | bytes kept, truncation mark | `Write`, `String` | the first bytes up to the cap, and a mark exactly if some are missing |
| process groups | `internal/sandbox/proc_unix.go`, `proc_windows.go` | processes of the command, their group and pipes | start, cancel, kill | the kill reaches what it should and nothing else |
| isolation helper | `internal/sandbox/isolation.go`, `isolation_linux.go` | limits, ruleset, restrictions of each thread | `runIsolated`, `readonlyRuntimePaths` | no failure costs a boundary; neither more nor less is granted than asked |
| seccomp filter | `internal/sandbox/isolation_linux.go` 312-430 | the BPF program | `applySeccomp` | every call is decided as the list says |
| guardrails | `internal/paldron/paldron.go` | schemas by tool, availability of isolation, under a read-write lock | `Check`, `ToolAvailable`, registrations | a call is allowed on grounds that held |
| tool schemas | `internal/schema/`, `internal/paldron/paldron.go` 203-365 | none | canonical form, legacy schemas, validation of arguments | exactly the calls that conform to the author's definition are accepted, at every depth |
| Jev client | `internal/jev/jev.go` | none | one HTTP call, parsing | what is no judgement is an error |
| macOS isolation, stubs | `seatbelt*.go`, `isolation_darwin.go`, `isolation_other.go` | none | profile text | |

How they meet: `main` loads the policy and calls `runCheck` or `runExec`. `runCheck` asks the
guardrails, then the path rules. `runExec` asks the path rules, then `sandbox.ExecuteArgs`,
which starts paldron again as the isolation helper; the helper restricts itself and becomes
the command. When the command has ended, `runExec` scans the working directory and may ask
Jev. What is hard about it:

- the deadline, the exit of the command, its descendants and two timers race each other;
- processes of the command may outlive it, in or out of its group, with or without its pipes;
- the helper gives up its rights in a dozen steps, each of which may fail, on whatever thread
  the Go scheduler has it, and threads made meanwhile inherit what was done by then;
- two reads under one lock are not one read;
- path rules and the BPF program are index arithmetic without a second opinion;
- a limit is defaulted three times and converted once, in integers that wrap;
- a schema has defaults that depend on each other, is made canonical up to four times, and may be
  written in four forms.

## The modules

| Module | Models | Composes |
|---|---|---|
| `ProcessTree` | the kernel's view of the command's processes | |
| `BoundedBuffer` | `boundedBuffer`, in amounts | |
| `CommandRun` | `executeParts` with `os/exec` | extends `ProcessTree` and `BoundedBuffer` |
| `ExecContract` | what `paldron exec` promises (abstract) | |
| `PaldronExec` | `runExec`, the scan, the judgement | extends `CommandRun`; implements `ExecContract` |
| `SegMatch` | the loop of `segMatch`, step by step | |
| `PathPolicy` | `globMatch` and `EvalPath` as operators | |
| `Gate` | `runCheck` and the gate of `runExec` | extends `PathPolicy` |
| `SeccompFilter` | the program of `seccompErrnoFilter` and the kernel that runs it | |
| `IsolationHelper` | `runIsolated` | |
| `Guardrails` | `Check` among registrations | |
| `PolicyUse` | the settings of a policy from `LoadPolicy` to the kernel, the deadline and the judgement | |
| `SchemaRules` | canonical schemas and the validation of arguments | |
| `*Proofs` | theorems on the module they are named after; those on `CommandRun` are in `PaldronExecProofs` | |
| `MC*` | bounds and values for TLC | |

`PROJECT.json` maps each definition to the lines it stands for. Operators commented
`Mutant:` are wrong variants of the definition that follows them. They are used by no
specification; each shows that a property notices that mistake.

**ProcessTree.** A process is not started, running, a zombie (the leader only, until reaped)
or gone. `group` is who is in the leader's process group, `holds` who can still write to the
output pipes. The kill is by group on Unix and by handle on Windows (`platform`). A command
may fork, leave its group, give up its pipes and exit in any order; when its group is empty
and the leader reaped, the kernel may give the number of the group to another program. The kill of
a group is one step, as Linux does not let a fork and a signal to its group overlap.

**CommandRun.** `run` is the main goroutine in and after `cmd.Run`, `watcher` the goroutine of
`exec.CommandContext`, `copying` stands for the goroutines that copy output, `timer` for the
WaitDelay timer that watcher and `Wait` share. These belong to `os/exec`, which the code relies
on without containing it; they are modelled from `cmd.Cancel`, `cmd.WaitDelay` and the errors
that `executeParts` tells apart. `Collect` and `Sweep` are lines 354-376. The checks before the
run (directory, blacklist, binaries) are one refusal, as none of them leaves anything behind.
Output flows through it in amounts: the command writes to the pipe (`Output`), a copier takes any
part of what is there (`Copy`) and hands it to `Write` of `BoundedBuffer`, and ends at end of file
(`Drained`) or when paldron closes its end. One stream is modelled; the two do not interact.

**PaldronExec.** A file is `absent`, `old`, `fresh` (modification time at or after the start)
or `backdated`. Processes touch files until paldron exits, also while `ScanVisit` goes from file
to file. `Seal` makes a file unreachable for the walk. Of the policy it keeps what `runExec`
branches on. `quiet` is history: no process was left when the run returned.

**SegMatch, PathPolicy, Gate.** `SegMatch` has the indices of the code. The reference is a cut:
a pattern matches if the name can be cut into one piece per symbol. `PathPolicy` has paths as
sequences of segments; the code's string comparisons all end at slashes, so that a prefix test
on strings is one on sequences. Which unequal segments `segMatch` matches is a constant
(`Wild`). `Gate` runs the argument loop while other programs create and remove entries that
`looksLikePath` asks for. The properties of `Gate` do not use `EvalPath`: they follow an argument
step by step through the file system (`Walked`), say what it is called below the working
directory (`Below`), and read the globs for what their author means by them: `Secret` has no glob at
all, and `Takes` says that `dir/**` is the directory with all below it. Where the code falls short of
that, the property names the case: a relative path that leaves the working directory and comes
back (`Leaves`) passes deny globs of several segments, and with `/` as working directory every
absolute path is refused. An `allow_paths` entry has to be `Plain` for `StaysInAllowed`, as `**` or `..` in it
are compared as names. Symbolic links are not modelled; `EvalPath` does not look at them.

**SeccompFilter.** `Filter` is the program at the code's positions, and `Step` one BPF
instruction. The list of calls and the numbers are constants.

**IsolationHelper.** A directory stands for what is in it and not in another directory of the
model, `Contains` says which contains which, and a right in a directory comes from the rules on
it and above it, as in Landlock. Every step may fail. Directories vanish at any time; one that is
replaced by another of the same name is not modelled. The restrictions belong to threads. `Migrate`
moves the goroutine to another thread, as nothing in the code locks it to one, and `Clone` is the Go
runtime making a thread, which inherits what binds the thread it is cloned from.
`ReadonlyRuntimePaths` has the query of a `go` command for its root, which runs the command's binary.
Two history variables: `left` is what the goroutine has lost by moving and not found again, `ran` what
was in force at each start of the command's binary.
The user is taken to be unprivileged, so that the kernel refuses Landlock and seccomp to a
thread without `no_new_privs`.

**Guardrails.** `Check` is cut where it takes the lock. A call carries what the schema
validation and the tool's own rules would say of it; the validation itself is `SchemaRules`.

**PolicyUse.** One behaviour is one request: the file is accepted or refused (`LoadPolicy`), its
limits become a `SandboxConfig` (`Configure`), get the defaults of `NewSandbox` and, in the helper,
those of `applyResourceLimits`, which takes the lower of what is asked and what is inherited. Integers
wrap at their width (`Wrap`), a comparison with NaN is false (`Less`). A reply of the Jev endpoint
has for each question a number, which nothing holds between 0 and 1, an answer without its field
(`Empty`) or nothing (`Missing`);
`Decode` is what `JudgeOutput` makes of it. What happens in the run itself is in `PaldronExec`.

**SchemaRules.** A schema is a function from places to nodes and a value one from paths to what is
found there, so that the recursion of the code over properties and items is a function
applied to every place (`Canonical`) and a set of paths still to visit (`pending`). The code stops
at the first error in the order of sorted names; the model takes the paths in any order, which
decides only the message. A definition is typed, structured, legacy or unreadable (`Adapted`). The
properties do not use `CanonicalNode` or `ValueFits`: `Conforms` and `ConformsToLegacy` read what the author
wrote.

## What TLC checks

| Run | Bounds | Result |
|---|---|---|
| `run` | leader and two descendants, both platforms, two bytes of output with a cap of one | 923 thousand states: results are right and the output is capped, nothing of the group survives a timeout, the home goes, every run ends |
| `exec` | leader and one descendant, one denied file, every policy, one byte of output | 1.8 million states: exit 0 is earned, `ExecContract` is implemented, every request is answered |
| `seg_match` | patterns over `* ? a b` and names over `a b`, up to four symbols | all 10571 pairs agree with the definition, and the loop ends |
| `gate` | paths of up to three segments, relative and absolute, nine policies, a second argument | 3.5 million states: nothing forbidden passes, no denial without a ground |
| `seccomp` | a list with a repeated and an x32 number, two architectures, with and without the amd64 part | every call is decided as the list says |
| `isolation` | six directories, three requests with and without network and one of a `go` command, five kernels, two threads, there from the start or cloned (interchangeable, hence symmetry) | 341 thousand states: a helper that fails has run nothing but the query of a `go` command, what the running command lacks was lost by moving to another thread, and it gets the access that is asked and no other |
| `guardrails` | one caller, two schemas, four tools of three kinds | 429 thousand states: an allowed call had its grounds while it was checked |
| `policy` | six-bit integers, a second of two nanoseconds, a megabyte of four bytes; every value of each limit and of the timeout; thresholds and answers from -1 to 4 of 3, NaN as a threshold; four hard limits, three systems | 52 thousand states: limits and deadline are those of the policy or stricter, no number at the threshold or above is allowed unless the threshold is NaN |
| `schema` | definitions with up to three levels, arguments with two names, a nested object or an array | 63 thousand states: what is published is enforced, and exactly the conforming calls pass |

Why the bounds are enough. A run needs a leader, a process that leaves the group or outlives
the leader, and a second one forked by it on the other side: three. Around it, the scan needs
one survivor and one file to be written behind it; what a file does to a scan does not depend on
other files. Two lines of the search in `segMatch` differ only by stars, and four symbols hold
two stars with a literal between and behind. A glob has at most three segments here, and a path
of three segments can leave the directory and come back. The filter's entries are alike, so a
list of seven has first, inner and last ones; the proofs cover every length. A boundary is lost between the thread the
goroutine is on and one that lacks it: two threads. One caller is
enough for the guardrails, since callers share no state that they write; the goroutines that
write it are the owner's actions. A cap of one and two bytes give outputs below, at and above the
cap, in one chunk or two. With a megabyte of four bytes in six bits every product that can wrap
does, to a negative number, to zero and to a smaller positive one; the real widths are covered by
the proof. Two levels below the root show a rule that is applied to the root only, or to one level,
or taken from the wrong one.

Fairness. `CommandRun` assumes weak fairness of the main goroutine, the watcher, the copiers, the
timer and the deadline: goroutines are scheduled, a copier that has something to read reads it,
and time passes. Nothing is assumed of the
command, which may hang, fork or hold pipes for ever: it is `WaitDelay` and the kill by handle
that end the run. `PaldronExec` adds the steps of `runExec`, and takes from the Jev client that
its HTTP call returns (it has a timeout). `SegMatch` is sequential.

### Where the code does otherwise than it says

Three runs end in a violation, each of a statement that the repository makes.

- `isolation_part` (`RunsConfined`): no_new_privs, Landlock and seccomp bind the calling thread, and
  `runIsolated` is not locked to a thread. A thread cloned between the prctl at line 294 and the
  restriction at 297 has no_new_privs and no Landlock domain; if the goroutine moves to it, no step
  reports an error and the command runs under a part of the boundary. On a thread as old as the helper
  it runs under none. `README.md:71-72` has the command behind all of it, and `isolation.go:58-59` says
  "under the platform's OS isolation boundary". The windows are short. Whatever is lost is lost by
  moving: a goroutine that stays on its thread keeps its boundaries (`FailsClosed`, proved), so that a
  call of `runtime.LockOSThread` would close them.
- `policy_empty` (`AllowIsJudged`): an answer of Jev without its field `noul` counts as probability 0, so
  that exit 0 may rest on no judgement. `jev.go:52-54` promises an error for a bad response and that
  "this package never guesses". What does hold is `ReportedRiskIsDenied`.
- `exec_survivor` (`AllowedRunIsClean`): the scan of `main.go:225` does not notice what a process that
  outlives the command writes behind it; the comment above it says "any".

More that the models have and a line contradicts, without a run of its own:

- a command whose base name is `go` is run once as `go env GOROOT` (`isolation_linux.go:204-210`), as a
  child of the helper and before any boundary (`isolation.go:58-59`); `FailsClosed` has it as the one
  thing that is run so;
- a dependency cache inside an allowed directory is writable, because Landlock rights add up
  (`isolation_linux.go:279-281`: "never writable"; `NothingElseWritable` has the exception);
- a threshold of NaN passes `LoadPolicy` and then lets every judgement pass (`policy.go:88`: "must be
  between 0 and 1"; `ReportedRiskIsDenied` has the exception);
- a legacy definition with an argument named `type` is read as a schema that leaves everything open, one
  named like another keyword as one that allows nothing (`tool_schema.go:122-123`; `VerdictIsConformance`
  holds it to the schema it is read as);
- `**/name` in a policy matches every path of two or more segments and not `name` itself, while
  `policy.go:118-119` lists a leading `**/` as supported.

And what no line denies: a descendant that leaves the process
group survives the timeout; the repeated kill after `Wait` may address a group number that
the kernel has given away; a file with an old modification time, and one under a directory that the
walk cannot read, escape the scan; with `/` as working directory every absolute path counts as outside;
`paldron exec` passes `../secrets` when `allow_paths` is empty, where `paldron check` refuses it
(`CheckStaysInside`); the `*` of a pattern is used up by a literal `*` in the name, so that `*b` does not
match `*ab` (`NoMatchIsRight` speaks of names without a star); limits are applied by the Linux helper
only; a huge limit in megabytes wraps and ends as a smaller one or the default, never as none; names in
`required` are trimmed and those of properties are not, so that a tool with an argument `" a"` refuses
every call.

## What is proved

For all values of the constants, under the assumptions next to them (`TreeAssumption`,
`LimitAssumption`, `BytesAssumption`, `FilesAssumption`, `SymbolsAssumption`, `SeccompAssumption`,
`HelperAssumption`, `GuardrailsAssumption`, `PolicyUseAssumption`, `GateAssumption`, `SecretsAreNotDot`,
`SchemaRulesAssumption`). These say what the constants are, and few facts: containment of directories is reflexive and transitive; the
defaults of `policy.go` and `isolation.go` are the same amounts and fit their integers; trimming and
lowering a text twice is doing it once; the names of types are lower-case already; only objects and
arrays have parts; none of the secret globs of `policy.go:47-49` matches the name `.`.

- `PaldronExecProofs`: first, of `CommandRun`, types, `SuccessIsComplete`, `OutputIsCapped`,
  `TimeoutKillsGroup`, `KillMeansTimeout`, `HomeForTheRun`, for any number of processes, any output and
  any cap. The invariant `RunInv` adds to them where each goroutine may be (`MainInv`, `WatchInv`) and
  why a copier may have ended (`PipeInv`). None of the properties is inductive alone:
  `SuccessIsComplete` at the end depends on the copiers having seen the last holder go some steps
  before. What carries it is that holders, members and running processes never come back from none
  (`TreeSettles`), proved once for every action. `EveryWaitHasAnEnd` is the half of `Termination` that is
  an invariant: whatever the main goroutine waits for, somebody other than the command brings it
  about (`NobodyWaitsInVain`, from `WaitInv`). `RunProgresses` is the other half: each step of
  the run's own advances the main goroutine, else the watcher, else the timer or the copiers, which
  is a lexicographic order, and no step of the command sets one back (`RunProgress`). Then, of `PaldronExec`,
  types, `AllowIsEarned`, `QuietRunIsClean`, and that every step implements a step of `ExecContract` or stutters. `ExecInv`
  extends `RunInv`; every step of exec is a step of the run or leaves it alone (`ExecStepsRun`), so
  `RunInv` need not be proved again, and all theorems about runs hold of `paldron exec`
  (`ExecRuns`). With no process left, what the scan has seen stays as it was
  (`QuietInv`). `ExecProgresses` carries `RunProgresses` on to a request: its stages, the list of files
  the scan still has to look at, the judge's answer.
- `GateProofs`: types and all four properties of the `gate` run, for paths of any length, any working
  directory, any policy and whatever other programs create and remove. The state machine is the
  easy half: what the loop has passed over was allowed by `EvalPath` (`Vetted`), and a denial has an
  argument that was not (`Grounded`). The other half is that `EvalPath` is right. `Aligned` follows the
  cleaned path and the walk through the file system side by side: after some leading `..`, the cleaned
  path says what the place says below a prefix of the working directory (`PathAligned`). From it,
  the name that is judged is the name below the working directory if the path never leaves it
  (`JudgedIsBelow`), ends with it if the path comes back (`JudgedEndsWithBelow`), which is enough for
  the secret globs but not for others (hence `Leaves`), and starts with `..` only if the path
  leaves (`JudgedClimbs`).
- `SegMatchProofs`: types, and both answers of `segMatch` are right, for patterns and names of any length.
  For a yes, what lies behind the indices is covered (`Passed`). For a no, the point is that
  retrying only the last star loses nothing: `Ahead` says that if there is a match, one is
  reachable from here, and `Shifted` that a match behind a longer last star is also one behind
  the current position, moved along. `SegMatchProgresses` has the variant: `star`, `starN` and `px` grow in
  lexicographic order, though `px` and `nx` go back at each retry.
- `SeccompFilterProofs`: the layout of the program (`FilterLayout`), and from it that no jump
  leaves the program and every call is decided as listed, for lists of any length. The invariant
  `TrackedAt` says what has been compared on the way to an instruction.
- `IsolationHelperProofs`: types and all four properties of the `isolation` run, for any directories
  and any number of threads, cloned or there from the start. `ForceInv` follows what the steps have put in
  force so far (`Given`): the goroutine's thread has it, or it was lost by moving, and no thread has
  more than the request asks for. `RunInv` says what has been run of the command by then. `FailsClosed`
  follows from the two. `GrantInv` says which rules each step has made.
- `GuardrailsProofs`: types, `AllowedWasAvailable` and `AllowedUnderContract`, for any callers, tools and
  schemas. A caller's history contains what holds now (`SeesNow`), what it was let through with is
  in it (`PassedNetwork`), and so is the contract it took under the lock (`HoldsContract`).
- `PolicyUseProofs`: types, `LimitsFollowPolicy`, `DeadlineFollowsPolicy` and `ReportedRiskIsDenied`, for
  integers of any width, any units and any numbers the judge may give. The point is `NewSandboxSettles`: a product that wrapped is
  smaller than what was asked, and if it is not positive it gets a default that is smaller too.
- `SchemaRulesProofs`: types, which say that a contract is canonical at every place,
  `ContractIsPublished`, `VerdictIsConformance` and `AcceptedIsDeclared`, for any definitions, arguments of
  any depth and any order of the walk. A canonical node is a fixed point (`CanonicalNodeIsFixed`), and
  every form of a definition stands for a schema (`AdaptedIsSchema`). What the validator asks of one
  value, in its canonical terms, is what the author's node says (`ChecksAreMeets`). The walk
  (`WalkInv`) comes only to values everything around which is described and entered (`Near`), and
  each of these is as its author wants it or has a pending path on the way to it (`Ahead`); an
  accepting end has none pending. An argument nobody declared has a first undeclared place on the
  way to it, and what comes before that place was left open (`UndeclaredIsOpen`). `WalkProgresses` is the
  variant of the walk: a visit closes its path for ever, as what is still to come
  (`ToCome`) lies at or below pending paths and no pending path is below another (`Apart`). So finite arguments
  are walked in finitely many steps, in any order.

Two of these need induction, over the segments of a path and over the way to an argument. Both
take it from the library's statement that `<` is well-founded on the natural numbers
(`LeastMember`, `CountUp`): a set of positions has a least one. That the recursive functions `Cleaned`
and `Walked` satisfy their equations, which a prover does not see in a CHOOSE, is shown so too
(`TraceExists`, `CleanedEquation`, `WalkedEquation`).

Every safety property of a passing run has its theorem. Only model-checked: the liveness properties
(`Termination`, `AnswersEveryRequest`, `Terminates`), as fairness needs ENABLED. What they rest on is
proved: somebody can always go on (`EveryWaitHasAnEnd`), and going on is an advance in an order
without infinite climbs, for finite output, trees and arguments (`RunProgresses`, `ExecProgresses`, `SegMatchProgresses`). The runs that end in a
violation have no theorem, as their property is false.

## Not modelled, and the plan

Built, in this order: `ProcessTree` with `CommandRun` and `PaldronExec`, as the core of exec; the path
rules and the gate; the isolation helper and its filter; the guardrails; the bounded buffer, as
part of `CommandRun`; the policy's settings with the Jev client; the schemas; the proofs in the same
order, `Gate` and `SchemaRules` last. What could still be added are the steps of the directory walk that
`scanOutputs` skips (`.git`, `.annalist`).

That the pairs in `Wild` are those `SegMatch` says yes to stays an assumption: a segment is a string
there, a sequence of symbols here, and a prover does not look into strings.

The checks of `executeParts` before the run are not modelled one by one: `runExec` gives it the working
directory as the only allowed one, so that the directory jail has nothing to refuse, and the
blacklist and the list of binaries search texts. The request to Jev and the length to which it cuts
the output are left out, as nothing in the code depends on them. In `Check`, what the patterns find
in an argument is a property of the call.

That support for isolation is asked for four times, with answers that may differ, is in the models as
refusals of each of the four; they end the request as broken, and no property is about them.

Left out for good: the Seatbelt profile (a text that another program interprets), the stubs,
command-line parsing, output formatting, environment variables, scripts and CI. A crash of
paldron during a run is not modelled: nothing is kept that a restart would read. The hazards of
all parts, with the properties that watch them, are listed in `PROJECT.json`.
