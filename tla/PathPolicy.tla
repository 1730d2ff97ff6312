------------------------------ MODULE PathPolicy ------------------------------
(***************************************************************************)
(* The path rules of cmd/paldron/policy.go: EvalPath and the globs.        *)
(*                                                                         *)
(* A path is the sequence of its segments, a pattern likewise.  The code   *)
(* works on strings and takes care to compare at slashes only; on segments *)
(* that is a comparison of prefixes.  The match of one segment is segMatch *)
(* (module SegMatch) and a parameter here.                                 *)
(***************************************************************************)
EXTENDS Integers, SequencesExt

CONSTANT Wild    \* <<pattern, name>>: unequal segments that segMatch matches

SecretNames == {".env", ".env.*", "*.pem"}

(* DefaultSecretGlobs.                                                     *)
SecretGlobs == {<<p>> : p \in SecretNames} \cup {<<"**", "secrets", "**">>}

SegMatches(p, n) == p = n \/ <<p, n>> \in Wild

DotPath == <<".">>
From(path, i) == SubSeq(path, i, Len(path))

(* filepath.Clean: "." goes, ".." takes the segment before it along; what  *)
(* is left over of ".." stays in a relative path and goes in an absolute.  *)
CleanStep(done, segment, abs) ==
  IF segment = "." \/ (segment = ".." /\ done = <<>> /\ abs) THEN done
  ELSE IF segment = ".." /\ done # <<>> /\ Last(done) # ".." THEN Front(done)
  ELSE Append(done, segment)

(* What is left of the path after each of its segments.                    *)
Cleaned(path) ==
  LET c[i \in 0 .. Len(path.segs)] ==
        IF i = 0 THEN <<>> ELSE CleanStep(c[i - 1], path.segs[i], path.abs)
  IN  c

Clean(path) ==
  LET segs == Cleaned(path)[Len(path.segs)]
  IN  IF segs = <<>> /\ ~path.abs THEN DotPath ELSE segs

-----------------------------------------------------------------------------
(* globMatch.                                                              *)

(* prefix/** : the prefix itself and all below it, literally.              *)
MatchesBelow(prefix, rel) == IsPrefix(prefix, rel)

(* Mutant: the search stops one segment short of the end.                  *)
MatchesAnywhereButLast(needle, rel) ==
  \E i \in 1 .. Len(rel) - 1 : IsPrefix(needle, From(rel, i))

(* **/needle/** : the same below any directory.                            *)
MatchesAnywhere(needle, rel) == \E i \in 1 .. Len(rel) : IsPrefix(needle, From(rel, i))

(* Everything else is aligned with the end of the path, segment by         *)
(* segment; a ** that is reached ends the comparison with a match.         *)
MatchesTail(pattern, rel) ==
  /\ Len(pattern) <= Len(rel)
  /\ LET tail == From(rel, Len(rel) - Len(pattern) + 1)
     IN  \E k \in 1 .. Len(pattern) + 1 :
           /\ \A i \in 1 .. k - 1 : SegMatches(pattern[i], tail[i])
           /\ k <= Len(pattern) => pattern[k] = "**"

GlobMatch(pattern, rel) ==
  IF pattern = <<"**">> THEN TRUE
  ELSE IF Last(pattern) # "**" THEN MatchesTail(pattern, rel)
  ELSE IF Len(pattern) > 2 /\ Head(pattern) = "**"
       THEN MatchesAnywhere(Front(Tail(pattern)), rel)
       ELSE MatchesBelow(Front(pattern), rel)

-----------------------------------------------------------------------------
(* EvalPath.                                                               *)

UnderDir(rel, dir) == dir \in {<<>>, DotPath} \/ IsPrefix(dir, rel)

(* The prefix test is on cwd + "/", which is "//" when cwd is the root.    *)
InWorkspace(cwd, clean) == clean = cwd \/ (cwd # <<>> /\ IsPrefix(cwd, clean))

RelativeTo(cwd, clean) == IF clean = cwd THEN DotPath ELSE From(clean, Len(cwd) + 1)

DeniedBy(globs, rel) == \E g \in globs : GlobMatch(g, rel)

OutsideAllowed(policy, rel) ==
  policy.allow # {} /\ \A d \in policy.allow : ~UnderDir(rel, d)

EvalRelative(policy, rel) ==
  IF DeniedBy(policy.deny, rel) THEN "policy deny_glob"
  ELSE IF DeniedBy(SecretGlobs, rel) THEN "secret"
  ELSE IF OutsideAllowed(policy, rel) THEN "outside allow_paths"
  ELSE "allow"

(* Mutant: a relative path is taken as it is written.                      *)
EvalPathUncleaned(policy, cwd, path) ==
  IF ~path.abs THEN EvalRelative(policy, path.segs)
  ELSE IF InWorkspace(cwd, Clean(path))
       THEN EvalRelative(policy, RelativeTo(cwd, Clean(path)))
       ELSE "outside workspace"

EvalPath(policy, cwd, path) ==
  IF ~path.abs THEN EvalRelative(policy, Clean(path))
  ELSE IF InWorkspace(cwd, Clean(path))
       THEN EvalRelative(policy, RelativeTo(cwd, Clean(path)))
       ELSE "outside workspace"
==============================================================================
