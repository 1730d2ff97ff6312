------------------------------- MODULE SegMatch -------------------------------
(***************************************************************************)
(* segMatch of cmd/paldron/policy.go: does a pattern with * and ? match    *)
(* one path segment?  The loop remembers the last star it passed and the   *)
(* place in the name where that star's match ends, and on a mismatch lets  *)
(* the star swallow one symbol more.                                       *)
(*                                                                         *)
(* px, nx, star and starN count symbols from 0, as in the code; a symbol   *)
(* is a byte.                                                              *)
(***************************************************************************)
EXTENDS Integers, Sequences

CONSTANTS Symbols,    \* what names and patterns are made of, with "*" and "?"
          Patterns,   \* the patterns asked about
          Names       \* the segments asked about

ASSUME SymbolsAssumption ==
  /\ Patterns \subseteq Seq(Symbols)
  /\ Names \subseteq Seq(Symbols)

VARIABLES pattern, name, px, nx, star, starN, result

vars == <<pattern, name, px, nx, star, starN, result>>
inputs == <<pattern, name>>

TypeOK ==
  /\ pattern \in Seq(Symbols)
  /\ name \in Seq(Symbols)
  /\ px \in 0 .. Len(pattern)
  /\ nx \in 0 .. Len(name)
  /\ star \in -1 .. Len(pattern) - 1
  /\ starN \in 0 .. Len(name)
  /\ result \in {"none", "yes", "no"}

Init ==
  /\ pattern \in Patterns
  /\ name \in Names
  /\ px = 0
  /\ nx = 0
  /\ star = -1
  /\ starN = 0
  /\ result = "none"

Looping == result = "none" /\ nx < Len(name)
Finishing == result = "none" /\ nx = Len(name)

PatternIs(S) == px < Len(pattern) /\ pattern[px + 1] \in S
Literal == PatternIs({"?", name[nx + 1]})
AtStar == PatternIs({"*"})

Advance ==
  /\ Looping
  /\ Literal
  /\ px' = px + 1
  /\ nx' = nx + 1
  /\ UNCHANGED <<inputs, star, starN, result>>

(* A star starts by matching nothing.                                      *)
OpenStar ==
  /\ Looping
  /\ ~Literal
  /\ AtStar
  /\ star' = px
  /\ starN' = nx
  /\ px' = px + 1
  /\ UNCHANGED <<inputs, nx, result>>

(* Mutant: the star does not swallow a symbol more.                        *)
BacktrackInPlace ==
  /\ Looping
  /\ ~Literal /\ ~AtStar
  /\ star # -1
  /\ nx' = starN
  /\ px' = star + 1
  /\ UNCHANGED <<inputs, star, starN, result>>

(* Mutant: the name is not rewound to where the star's match ends.         *)
BacktrackHere ==
  /\ Looping
  /\ ~Literal /\ ~AtStar
  /\ star # -1
  /\ starN' = starN + 1
  /\ nx' = nx + 1
  /\ px' = star + 1
  /\ UNCHANGED <<inputs, star, result>>

(* The last star swallows one symbol more and matching resumes behind it.  *)
Backtrack ==
  /\ Looping
  /\ ~Literal /\ ~AtStar
  /\ star # -1
  /\ starN' = starN + 1
  /\ nx' = starN + 1
  /\ px' = star + 1
  /\ UNCHANGED <<inputs, star, result>>

Mismatch ==
  /\ Looping
  /\ ~Literal /\ ~AtStar
  /\ star = -1
  /\ result' = "no"
  /\ UNCHANGED <<inputs, px, nx, star, starN>>

(* Mutant: stars are taken off in pairs.                                   *)
SkipStarPair ==
  /\ Finishing
  /\ AtStar
  /\ px' = px + 2
  /\ UNCHANGED <<inputs, nx, star, starN, result>>

(* The name is used up: only stars may be left of the pattern.             *)
SkipStar ==
  /\ Finishing
  /\ AtStar
  /\ px' = px + 1
  /\ UNCHANGED <<inputs, nx, star, starN, result>>

(* Mutant: the rest of the pattern is ignored.                             *)
FinishAnyway ==
  /\ Finishing
  /\ ~AtStar
  /\ result' = "yes"
  /\ UNCHANGED <<inputs, px, nx, star, starN>>

(* The answer is yes if nothing of the pattern is left.                    *)
Finish ==
  /\ Finishing
  /\ ~AtStar
  /\ result' = IF px = Len(pattern) THEN "yes" ELSE "no"
  /\ UNCHANGED <<inputs, px, nx, star, starN>>

Done == result # "none" /\ UNCHANGED vars

Next == Advance \/ OpenStar \/ Backtrack \/ Mismatch \/ SkipStar \/ Finish \/ Done

Spec == Init /\ [][Next]_vars
FairSpec == Spec /\ WF_vars(Next)

-----------------------------------------------------------------------------
(* The reference.  The symbols p + 1 .. q of a pattern match the symbols   *)
(* n + 1 .. k of a name if these can be cut into as many pieces, each      *)
(* symbol fitting its piece: the cut maps i to the end of the i-th piece.  *)
Fits(nam, symbol, from, to) ==
  IF symbol = "*" THEN from <= to ELSE to = from + 1 /\ symbol \in {"?", nam[to]}

Covers(pat, nam, p, n, q, k) ==
  \E cut \in [p .. q -> 0 .. Len(nam)] :
    /\ cut[p] = n
    /\ cut[q] = k
    /\ \A i \in p + 1 .. q : Fits(nam, pat[i], cut[i - 1], cut[i])

Matches == Covers(pattern, name, 0, 0, Len(pattern), Len(name))

(* A positive answer is right: the name can be cut to fit the pattern      *)
(* (policy.go:94-116).                                                     *)
MatchIsSound == result = "yes" => Matches

(* A negative answer is right for names without a literal star: retrying   *)
(* the last star only never misses a match (policy.go:101-107).            *)
NoMatchIsRight ==
  result = "no" /\ (\A i \in DOMAIN name : name[i] # "*") => ~Matches

(* The loop ends: every retry makes the last star longer.                  *)
Terminates == <>(result # "none")

==============================================================================
