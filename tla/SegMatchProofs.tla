---------------------------- MODULE SegMatchProofs ----------------------------
(***************************************************************************)
(* segMatch is correct: it answers yes only if the pattern matches, and no *)
(* only if it does not, for all patterns and all names without a star.     *)
(*                                                                         *)
(* A yes needs that what the loop has passed is covered (Passed).  A no    *)
(* needs that nothing was lost: if the pattern matches at all, either what *)
(* is ahead is covered, or the last star can be made longer so that what   *)
(* follows it is covered (Ahead).  That it is enough to retry the last     *)
(* star comes down to Shifted: between that star and px the pattern has no *)
(* other star, so a match behind a longer star is a match behind px too,   *)
(* moved by the same distance.                                             *)
(***************************************************************************)
EXTENDS SegMatch, TLAPS

M == Len(pattern)
N == Len(name)

Passed ==
  /\ Covers(pattern, name, 0, 0, px, nx)
  /\ star >= 0 => /\ pattern[star + 1] = "*"
                  /\ star < px /\ starN <= nx
                  /\ Covers(pattern, name, 0, 0, star + 1, starN)

(* A longer last star that leads to a match.                               *)
Stretch(k) == k \in starN + 1 .. N /\ Covers(pattern, name, star + 1, k, M, N)

Ahead ==
  Matches => \/ Covers(pattern, name, px, nx, M, N)
             \/ nx < N /\ star >= 0 /\ \E k \in Nat : Stretch(k)

Shifted ==
  star >= 0 /\ nx < N =>
    \A k \in Nat : Stretch(k) => /\ nx + (k - starN) \in 0 .. N
                                 /\ Covers(pattern, name, px, nx + (k - starN), M, N)

StarFree == \A i \in 1 .. N : name[i] # "*"

SoundInv == TypeOK /\ Passed /\ MatchIsSound
ExactInv == SoundInv /\ (StarFree /\ result = "none" => Ahead /\ Shifted) /\ NoMatchIsRight

-----------------------------------------------------------------------------
(* Coverings.                                                              *)

(* Nothing covers nothing.                                                 *)
LEMMA CoversEmpty ==
  ASSUME NEW p \in Nat, NEW n \in 0 .. N
  PROVE  Covers(pattern, name, p, n, p, n)
<1> DEFINE cut == [i \in p .. p |-> n]
<1>1. cut \in [p .. p -> 0 .. Len(name)] /\ cut[p] = n
  BY DEF N
<1>2. p + 1 .. p = {}
  OBVIOUS
<1> QED
  BY <1>1, <1>2 DEF Covers

(* Nothing covers only nothing.                                            *)
LEMMA CoversNothing ==
  ASSUME NEW p, NEW n, NEW k, Covers(pattern, name, p, n, p, k)
  PROVE  n = k
  BY DEF Covers

(* A covering starts and ends inside the name.                             *)
LEMMA CoversInside ==
  ASSUME NEW p \in Nat, NEW n, NEW q \in Nat, NEW k, p <= q, Covers(pattern, name, p, n, q, k)
  PROVE  n \in 0 .. N /\ k \in 0 .. N
  BY DEF Covers, N

(* A covering grows at its end by a symbol that fits.                      *)
LEMMA CoversSnoc ==
  ASSUME NEW p \in Nat, NEW n, NEW q \in Nat, NEW k, NEW l \in 0 .. N,
         p <= q, Covers(pattern, name, p, n, q, k), Fits(name, pattern[q + 1], k, l)
  PROVE  Covers(pattern, name, p, n, q + 1, l)
<1>1. PICK cut \in [p .. q -> 0 .. Len(name)] :
        /\ cut[p] = n
        /\ cut[q] = k
        /\ \A i \in p + 1 .. q : Fits(name, pattern[i], cut[i - 1], cut[i])
  BY DEF Covers
<1> DEFINE more == [i \in p .. q + 1 |-> IF i = q + 1 THEN l ELSE cut[i]]
<1>2. more \in [p .. q + 1 -> 0 .. Len(name)]
  BY DEF N
<1>3. more[p] = n /\ more[q + 1] = l /\ more[q] = k
  BY <1>1
<1>4. ASSUME NEW i \in p + 1 .. q + 1
      PROVE  Fits(name, pattern[i], more[i - 1], more[i])
  <2>1. CASE i = q + 1
    BY <2>1, <1>3
  <2>2. CASE i # q + 1
    BY <2>2, <1>1
  <2> QED
    BY <2>1, <2>2
<1> HIDE DEF more
<1> QED
  BY <1>2, <1>3, <1>4 DEF Covers

(* If the last symbol is a star, the covering may end later.               *)
LEMMA CoversStretch ==
  ASSUME NEW p \in Nat, NEW n, NEW q \in Nat, NEW k \in Nat, NEW l \in 0 .. N,
         p < q, k <= l, pattern[q] = "*", Covers(pattern, name, p, n, q, k)
  PROVE  Covers(pattern, name, p, n, q, l)
<1>1. PICK cut \in [p .. q -> 0 .. Len(name)] :
        /\ cut[p] = n
        /\ cut[q] = k
        /\ \A i \in p + 1 .. q : Fits(name, pattern[i], cut[i - 1], cut[i])
  BY DEF Covers
<1> DEFINE more == [i \in p .. q |-> IF i = q THEN l ELSE cut[i]]
<1>2. more \in [p .. q -> 0 .. Len(name)] /\ more[p] = n /\ more[q] = l
  BY <1>1 DEF N
<1>3. ASSUME NEW i \in p + 1 .. q
      PROVE  Fits(name, pattern[i], more[i - 1], more[i])
  <2>1. CASE i = q
    <3>1. Fits(name, "*", cut[q - 1], k)
      BY <1>1, <2>1
    <3>2. cut[q - 1] \in Nat
      BY <1>1 DEF N
    <3>3. more[i - 1] = cut[q - 1] /\ more[i] = l
      BY <2>1
    <3> QED
      BY <2>1, <3>1, <3>2, <3>3 DEF Fits, N
  <2>2. CASE i # q
    BY <2>2, <1>1
  <2> QED
    BY <2>1, <2>2
<1> HIDE DEF more
<1> QED
  BY <1>2, <1>3 DEF Covers

(* A covering starts with a first piece that fits, and goes on from there. *)
LEMMA CoversFirst ==
  ASSUME NEW p \in Nat, NEW n, NEW q \in Nat, NEW k, p < q, Covers(pattern, name, p, n, q, k)
  PROVE  \E m \in 0 .. N : Fits(name, pattern[p + 1], n, m) /\ Covers(pattern, name, p + 1, m, q, k)
<1>1. PICK cut \in [p .. q -> 0 .. Len(name)] :
        /\ cut[p] = n
        /\ cut[q] = k
        /\ \A i \in p + 1 .. q : Fits(name, pattern[i], cut[i - 1], cut[i])
  BY DEF Covers
<1> DEFINE rest == [i \in p + 1 .. q |-> cut[i]]
<1>2. rest \in [p + 1 .. q -> 0 .. Len(name)] /\ rest[p + 1] = cut[p + 1] /\ rest[q] = k
  BY <1>1
<1>3. \A i \in (p + 1) + 1 .. q : Fits(name, pattern[i], rest[i - 1], rest[i])
  BY <1>1
<1>4. Fits(name, pattern[p + 1], n, cut[p + 1]) /\ cut[p + 1] \in 0 .. N
  <2>1. p + 1 \in p + 1 .. q /\ (p + 1) - 1 = p
    OBVIOUS
  <2> QED
    BY <2>1, <1>1 DEF N
<1> HIDE DEF rest
<1>5. Covers(pattern, name, p + 1, cut[p + 1], q, k)
  BY <1>2, <1>3 DEF Covers
<1> QED
  BY <1>4, <1>5

(* What the cursor points at can only be a first piece if it is taken.     *)
LEMMA FirstPiece ==
  ASSUME TypeOK, StarFree, NEW j \in 0 .. N, px < M, Covers(pattern, name, px, j, M, N)
  PROVE  /\ pattern[px + 1] # "*" => /\ j + 1 \in 0 .. N
                                     /\ pattern[px + 1] \in {"?", name[j + 1]}
                                     /\ Covers(pattern, name, px + 1, j + 1, M, N)
         /\ pattern[px + 1] = "*" => \E m \in j .. N : Covers(pattern, name, px + 1, m, M, N)
<1>1. px \in Nat /\ M \in Nat /\ N \in Nat
  BY DEF TypeOK, M, N
<1>2. PICK m \in 0 .. N : Fits(name, pattern[px + 1], j, m) /\ Covers(pattern, name, px + 1, m, M, N)
  BY <1>1, CoversFirst
<1> QED
  BY <1>1, <1>2 DEF Fits

-----------------------------------------------------------------------------
(* Soundness.                                                              *)

(* The invariant for a yes holds when segMatch is entered.                 *)
LEMMA SoundInit == Init => SoundInv
<1> SUFFICES ASSUME Init
             PROVE  SoundInv
  OBVIOUS
<1>1. TypeOK
  BY SymbolsAssumption DEF Init, TypeOK
<1>2. Covers(pattern, name, 0, 0, 0, 0)
  BY <1>1, CoversEmpty DEF TypeOK, N
<1> QED
  BY <1>1, <1>2 DEF Init, SoundInv, Passed, MatchIsSound

(* Every turn of the loops keeps the invariant for a yes.                  *)
LEMMA SoundNext == SoundInv /\ [Next]_vars => SoundInv'
<1> SUFFICES ASSUME SoundInv, [Next]_vars
             PROVE  SoundInv'
  OBVIOUS
<1>a. /\ pattern' = pattern /\ name' = name
      /\ Len(pattern) \in Nat /\ Len(name) \in Nat
  BY DEF SoundInv, TypeOK, Next, vars, inputs, Advance, OpenStar, Backtrack, Mismatch,
         SkipStar, Finish, Done
<1>b. TypeOK /\ Passed /\ MatchIsSound
  BY DEF SoundInv
<1>c. ASSUME TypeOK', Passed', result' = result
      PROVE  SoundInv'
  BY <1>a, <1>b, <1>c DEF SoundInv, MatchIsSound, Matches
<1>1. CASE Advance
  <2>1. TypeOK'
    BY <1>a, <1>b, <1>1 DEF TypeOK, Advance, Looping, Literal, PatternIs, inputs
  <2>2. Fits(name, pattern[px + 1], nx, nx + 1)
    BY <1>b, <1>1 DEF Advance, Literal, PatternIs, Fits, TypeOK
  <2>3. Covers(pattern, name, 0, 0, px + 1, nx + 1)
    BY <1>1, <1>a, <1>b, <2>2, CoversSnoc DEF Advance, Looping, TypeOK, Passed, N
  <2> QED
    BY <1>a, <1>b, <1>c, <1>1, <2>1, <2>3 DEF Advance, Passed, TypeOK
<1>2. CASE OpenStar
  <2>1. TypeOK'
    BY <1>a, <1>b, <1>2 DEF TypeOK, OpenStar, AtStar, PatternIs, inputs
  <2>2. pattern[px + 1] = "*"
    BY <1>2 DEF OpenStar, AtStar, PatternIs
  <2>3. Fits(name, pattern[px + 1], nx, nx)
    BY <1>b, <2>2 DEF Fits, TypeOK
  <2>4. Covers(pattern, name, 0, 0, px + 1, nx)
    BY <1>a, <1>b, <2>3, CoversSnoc DEF TypeOK, Passed, N
  <2> QED
    BY <1>a, <1>b, <1>c, <1>2, <2>1, <2>2, <2>4 DEF OpenStar, Passed, TypeOK
<1>3. CASE Backtrack
  <2>1. /\ star >= 0 /\ starN + 1 \in 0 .. N /\ star + 1 \in 0 .. M
        /\ pattern[star + 1] = "*" /\ Covers(pattern, name, 0, 0, star + 1, starN)
    BY <1>a, <1>b, <1>3 DEF Backtrack, Looping, Passed, TypeOK, M, N
  <2>2. TypeOK'
    BY <1>a, <1>b, <1>3, <2>1 DEF TypeOK, Backtrack, inputs, M, N
  <2>3. Covers(pattern, name, 0, 0, star + 1, starN + 1)
    BY <1>b, <2>1, CoversStretch DEF TypeOK
  <2> QED
    BY <1>a, <1>b, <1>c, <1>3, <2>1, <2>2, <2>3 DEF Backtrack, Passed, TypeOK
<1>4. CASE SkipStar
  <2>1. TypeOK'
    BY <1>a, <1>b, <1>4 DEF TypeOK, SkipStar, AtStar, PatternIs, inputs
  <2>2. Fits(name, pattern[px + 1], nx, nx)
    BY <1>b, <1>4 DEF Fits, TypeOK, SkipStar, AtStar, PatternIs
  <2>3. Covers(pattern, name, 0, 0, px + 1, nx)
    BY <1>a, <1>b, <2>2, CoversSnoc DEF TypeOK, Passed, N
  <2> QED
    BY <1>a, <1>b, <1>c, <1>4, <2>1, <2>3 DEF SkipStar, Passed, TypeOK
<1>5. CASE Mismatch
  BY <1>a, <1>b, <1>5 DEF Mismatch, SoundInv, TypeOK, Passed, MatchIsSound, inputs
<1>6. CASE Finish
  <2>1. TypeOK' /\ Passed'
    BY <1>a, <1>b, <1>6 DEF Finish, TypeOK, Passed, inputs
  <2>2. px = Len(pattern) => Matches
    BY <1>b, <1>6 DEF Finish, Finishing, Passed, Matches
  <2> QED
    BY <1>a, <1>6, <2>1, <2>2 DEF Finish, SoundInv, MatchIsSound, Matches
<1>7. CASE Done \/ UNCHANGED vars
  BY <1>b, <1>7 DEF Done, vars, SoundInv, TypeOK, Passed, MatchIsSound, Matches
<1> QED
  BY <1>1, <1>2, <1>3, <1>4, <1>5, <1>6, <1>7 DEF Next

(* The positions segMatch keeps stay within the pattern and the name, for  *)
(* patterns and names of any length.                                       *)
THEOREM SegMatchTypeCorrect == Spec => []TypeOK
<1>1. SoundInv => TypeOK
  BY DEF SoundInv
<1> QED
  BY <1>1, SoundInit, SoundNext, PTL DEF Spec

(* A yes of segMatch is right for every pattern and every name.            *)
THEOREM SegMatchSound == Spec => []MatchIsSound
<1>1. SoundInv => MatchIsSound
  BY DEF SoundInv
<1> QED
  BY <1>1, SoundInit, SoundNext, PTL DEF Spec

(* A step answers, opens a later star, or else makes the last star longer, *)
(* or else goes on in the pattern.                                         *)
Advances ==
  \/ result = "none" /\ result' # "none"
  \/ star' > star
  \/ star' = star /\ starN' > starN
  \/ star' = star /\ starN' = starN /\ px' > px

(* segMatch cannot run for ever: star, starN and px grow in lexicographic  *)
(* order with every step before the answer, although px and nx go back at  *)
(* each retry, and none of them leaves its range (SegMatchTypeCorrect).    *)
THEOREM SegMatchProgresses == Spec => [][Advances]_vars
<1>1. ASSUME SoundInv, [Next]_vars PROVE [Advances]_vars
  <2>1. /\ px \in Nat /\ starN \in Nat
        /\ star \in Int /\ star >= -1
        /\ star >= 0 => star < px
    BY <1>1 DEF SoundInv, TypeOK, Passed
  <2>2. CASE Advance
    BY <2>1, <2>2 DEF Advance, Advances
  <2>3. CASE OpenStar
    BY <2>1, <2>3 DEF OpenStar, Advances
  <2>4. CASE Backtrack
    BY <2>1, <2>4 DEF Backtrack, Advances
  <2>5. CASE SkipStar
    BY <2>1, <2>5 DEF SkipStar, Advances
  <2>6. CASE Mismatch \/ Finish
    BY <2>6 DEF Mismatch, Finish, Looping, Finishing, Advances
  <2>7. CASE Done \/ UNCHANGED vars
    BY <2>7 DEF Done
  <2> QED
    BY <1>1, <2>2, <2>3, <2>4, <2>5, <2>6, <2>7 DEF Next
<1> QED
  BY <1>1, SoundInit, SoundNext, PTL DEF Spec

-----------------------------------------------------------------------------
(* Exactness.                                                              *)

(* The invariant for a no holds when segMatch is entered.                  *)
LEMMA ExactInit == Init => ExactInv
<1> SUFFICES ASSUME Init
             PROVE  ExactInv
  OBVIOUS
<1>1. Ahead /\ Shifted /\ NoMatchIsRight
  BY DEF Init, Ahead, Shifted, Matches, NoMatchIsRight, M, N
<1> QED
  BY <1>1, SoundInit DEF ExactInv

(* While nothing was lost, a symbol that is neither taken nor a star ends  *)
(* the search at px, and so does the end of the pattern.                   *)
LEMMA NothingAhead ==
  ASSUME TypeOK, StarFree, Looping, ~Literal, ~AtStar
  PROVE  ~Covers(pattern, name, px, nx, M, N)
<1> SUFFICES ASSUME Covers(pattern, name, px, nx, M, N)
             PROVE  FALSE
  OBVIOUS
<1>1. px \in 0 .. M /\ nx \in 0 .. N /\ nx # N /\ M \in Nat /\ N \in Nat
  BY DEF TypeOK, Looping, M, N
<1>2. px # M
  BY <1>1, CoversNothing
<1>3. pattern[px + 1] \notin {"*", "?", name[nx + 1]}
  BY <1>1, <1>2 DEF Literal, AtStar, PatternIs, M
<1>4. px < M
  BY <1>1, <1>2
<1> QED
  BY <1>1, <1>3, <1>4, FirstPiece

(* Every turn of the loops keeps the invariant for a no.                   *)
LEMMA ExactNext == ExactInv /\ [Next]_vars => ExactInv'
<1> SUFFICES ASSUME ExactInv, [Next]_vars
             PROVE  ExactInv'
  OBVIOUS
<1>a. /\ pattern' = pattern /\ name' = name
      /\ M' = M /\ N' = N /\ M \in Nat /\ N \in Nat
      /\ StarFree' <=> StarFree
      /\ Matches' <=> Matches
  BY DEF ExactInv, SoundInv, TypeOK, M, N, StarFree, Matches, Next, vars, inputs, Advance,
         OpenStar, Backtrack, Mismatch, SkipStar, Finish, Done
<1>b. SoundInv' /\ TypeOK /\ Passed /\ TypeOK'
  BY SoundNext DEF ExactInv, SoundInv
<1>t. /\ px \in 0 .. M /\ nx \in 0 .. N /\ star \in -1 .. M - 1 /\ starN \in 0 .. N
      /\ star >= 0 => star < px /\ starN <= nx
  BY <1>b DEF TypeOK, Passed, M, N
<1>c. ASSUME result = "none", result' = "none", StarFree => Ahead' /\ Shifted'
      PROVE  ExactInv'
  BY <1>a, <1>b, <1>c DEF ExactInv, NoMatchIsRight
<1>d. ASSUME result' = "no", StarFree => ~Matches
      PROVE  ExactInv'
  BY <1>a, <1>b, <1>d DEF ExactInv, NoMatchIsRight, StarFree, N
<1>1. CASE Advance
  <2>1. SUFFICES ASSUME StarFree
                 PROVE  Ahead' /\ Shifted'
    BY <1>1, <1>c DEF Advance, Looping
  <2>2. /\ Ahead /\ Shifted /\ nx < N /\ px < M
        /\ px' = px + 1 /\ nx' = nx + 1 /\ star' = star /\ starN' = starN
    BY <1>1, <2>1 DEF ExactInv, Advance, Looping, Literal, PatternIs, M, N
  <2>3. pattern[px + 1] # "*"
    BY <1>1, <1>a, <1>t, <2>1, <2>2 DEF Advance, Literal, PatternIs, StarFree
  <2>4. \A j \in 0 .. N : Covers(pattern, name, px, j, M, N) =>
                             j + 1 \in 0 .. N /\ Covers(pattern, name, px + 1, j + 1, M, N)
    BY <1>b, <2>1, <2>2, <2>3, FirstPiece
  <2>5. \A k \in Nat : Stretch(k) <=> Stretch(k)'
    BY <1>a, <2>2 DEF Stretch
  <2>6. ASSUME star >= 0, NEW k \in Nat, Stretch(k)
        PROVE  /\ (nx + 1) + (k - starN) \in 0 .. N
               /\ Covers(pattern, name, px + 1, (nx + 1) + (k - starN), M, N)
    <3>1. nx + (k - starN) \in 0 .. N /\ Covers(pattern, name, px, nx + (k - starN), M, N)
      BY <2>2, <2>6 DEF Shifted
    <3>2. (nx + (k - starN)) + 1 = (nx + 1) + (k - starN)
      BY <1>t, <2>6
    <3> QED
      BY <2>4, <3>1, <3>2
  <2>7. Shifted'
    BY <1>a, <2>2, <2>5, <2>6 DEF Shifted
  <2>8. Ahead'
    <3>1. CASE Covers(pattern, name, px, nx, M, N)
      BY <1>a, <1>t, <2>2, <2>4, <3>1 DEF Ahead
    <3>2. CASE star >= 0 /\ \E k \in Nat : Stretch(k)
      <4>1. PICK k \in Nat : Stretch(k)
        BY <3>2
      <4>2. nx + 1 < N
        BY <1>a, <1>t, <2>6, <3>2, <4>1 DEF Stretch
      <4> QED
        BY <1>a, <2>2, <2>5, <3>2, <4>1, <4>2 DEF Ahead
    <3> QED
      BY <1>a, <2>2, <3>1, <3>2 DEF Ahead
  <2> QED
    BY <2>7, <2>8
<1>2. CASE OpenStar
  <2>1. SUFFICES ASSUME StarFree
                 PROVE  Ahead' /\ Shifted'
    BY <1>2, <1>c DEF OpenStar, Looping
  <2>2. /\ Ahead /\ Shifted /\ nx < N /\ px < M /\ pattern[px + 1] = "*"
        /\ px' = px + 1 /\ nx' = nx /\ star' = px /\ starN' = nx
    BY <1>2, <2>1 DEF ExactInv, OpenStar, Looping, AtStar, PatternIs, M, N
  <2>3. \A k \in Nat : Stretch(k)' <=> k \in nx + 1 .. N /\ Covers(pattern, name, px + 1, k, M, N)
    BY <1>a, <2>2 DEF Stretch
  <2>4. Shifted'
    <3>1. \A k \in Nat : nx + (k - nx) = k
      BY <1>t
    <3> QED
      BY <1>a, <1>t, <2>2, <2>3, <3>1 DEF Shifted
  <2>5. ASSUME NEW j \in nx .. N, Covers(pattern, name, px, j, M, N)
        PROVE  \E m \in j .. N : Covers(pattern, name, px + 1, m, M, N)
    BY <1>b, <1>t, <2>1, <2>2, <2>5, FirstPiece
  <2>6. ASSUME NEW m \in nx .. N, Covers(pattern, name, px + 1, m, M, N)
        PROVE  Ahead'
    BY <1>a, <1>t, <2>2, <2>3, <2>6 DEF Ahead
  <2>7. ASSUME NEW j \in nx .. N, Covers(pattern, name, px, j, M, N)
        PROVE  Ahead'
    BY <1>t, <2>5, <2>6, <2>7
  <2>8. CASE Covers(pattern, name, px, nx, M, N)
    BY <1>t, <2>4, <2>7, <2>8
  <2>9. CASE star >= 0 /\ \E k \in Nat : Stretch(k)
    <3>1. PICK k \in Nat : Stretch(k)
      BY <2>9
    <3>2. /\ nx + (k - starN) \in 0 .. N
          /\ Covers(pattern, name, px, nx + (k - starN), M, N)
      BY <2>2, <2>9, <3>1 DEF Shifted
    <3>3. nx + (k - starN) \in nx .. N
      BY <1>t, <3>1, <3>2 DEF Stretch
    <3> QED
      BY <2>4, <2>7, <3>2, <3>3
  <2>10. CASE ~Matches
    BY <1>a, <2>4, <2>10 DEF Ahead
  <2> QED
    BY <2>2, <2>8, <2>9, <2>10 DEF Ahead
<1>3. CASE Backtrack
  <2>1. SUFFICES ASSUME StarFree
                 PROVE  Ahead' /\ Shifted'
    BY <1>3, <1>c DEF Backtrack, Looping
  <2>2. /\ Ahead /\ nx < N /\ star >= 0
        /\ px' = star + 1 /\ nx' = starN + 1 /\ star' = star /\ starN' = starN + 1
        /\ ~Covers(pattern, name, px, nx, M, N)
    <3>1. ~Covers(pattern, name, px, nx, M, N)
      BY <1>3, <1>b, <2>1, NothingAhead DEF Backtrack
    <3>2. nx < N /\ star >= 0
      BY <1>3, <1>t DEF Backtrack, Looping, N
    <3> QED
      BY <1>3, <2>1, <3>1, <3>2 DEF ExactInv, Backtrack, Looping
  <2>3. \A k \in Nat : Stretch(k)' <=> k \in starN + 2 .. N
                                       /\ Covers(pattern, name, star + 1, k, M, N)
    BY <1>a, <1>t, <2>2 DEF Stretch
  <2>4. Shifted'
    <3>1. \A k \in Nat : (starN + 1) + (k - (starN + 1)) = k
      BY <1>t
    <3> QED
      BY <1>a, <1>t, <2>2, <2>3, <3>1 DEF Shifted
  <2>5. CASE \E k \in Nat : Stretch(k)
    <3>1. PICK k \in Nat : k \in starN + 1 .. N /\ Covers(pattern, name, star + 1, k, M, N)
      BY <2>5 DEF Stretch
    <3>2. CASE k = starN + 1
      BY <1>a, <2>2, <2>4, <3>1, <3>2 DEF Ahead
    <3>3. CASE k # starN + 1
      <4>1. k \in starN + 2 .. N /\ starN + 1 < N
        BY <1>a, <1>t, <3>1, <3>3
      <4> QED
        BY <1>a, <2>2, <2>3, <2>4, <3>1, <4>1 DEF Ahead
    <3> QED
      BY <3>2, <3>3
  <2>6. CASE ~Matches
    BY <1>a, <2>4, <2>6 DEF Ahead
  <2> QED
    BY <2>2, <2>5, <2>6 DEF Ahead
<1>4. CASE SkipStar
  <2>1. SUFFICES ASSUME StarFree
                 PROVE  Ahead' /\ Shifted'
    BY <1>4, <1>c DEF SkipStar, Finishing
  <2>2. /\ Ahead /\ nx = N /\ px < M /\ pattern[px + 1] = "*"
        /\ px' = px + 1 /\ nx' = nx
    BY <1>4, <2>1 DEF ExactInv, SkipStar, Finishing, AtStar, PatternIs, M, N
  <2>3. Covers(pattern, name, px, N, M, N) => Covers(pattern, name, px + 1, N, M, N)
    BY <1>a, <1>b, <2>1, <2>2, FirstPiece
  <2> QED
    BY <1>a, <2>2, <2>3 DEF Ahead, Shifted
<1>5. CASE Mismatch
  <2>1. StarFree => ~Matches
    BY <1>5, <1>b, NothingAhead DEF ExactInv, Mismatch, Looping, Ahead
  <2> QED
    BY <1>5, <1>d, <2>1 DEF Mismatch
<1>6. CASE Finish
  <2>1. ASSUME StarFree, px # M
        PROVE  ~Matches
    <3>1. /\ Ahead /\ nx = N /\ px < M /\ pattern[px + 1] # "*"
      BY <1>6, <1>t, <2>1 DEF ExactInv, Finish, Finishing, AtStar, PatternIs, M, N
    <3> QED
      BY <1>a, <1>b, <2>1, <3>1, FirstPiece DEF Ahead
  <2>2. CASE px = M
    BY <1>6, <1>b, <2>2 DEF Finish, ExactInv, NoMatchIsRight, M
  <2>3. CASE px # M
    BY <1>6, <1>d, <2>1, <2>3 DEF Finish, M
  <2> QED
    BY <2>2, <2>3
<1>7. CASE Done \/ UNCHANGED vars
  BY <1>a, <1>b, <1>7
  DEF Done, vars, ExactInv, NoMatchIsRight, Ahead, Shifted, Stretch, StarFree
<1> QED
  BY <1>1, <1>2, <1>3, <1>4, <1>5, <1>6, <1>7 DEF Next

(* A no of segMatch is right for every pattern and every name without a    *)
(* star: nothing is lost by retrying the last star alone.                  *)
THEOREM SegMatchExact == Spec => []NoMatchIsRight
<1>1. ExactInv => NoMatchIsRight
  BY DEF ExactInv
<1> QED
  BY <1>1, ExactInit, ExactNext, PTL DEF Spec
==============================================================================
