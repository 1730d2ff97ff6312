------------------------------ MODULE GateProofs ------------------------------
(***************************************************************************)
(* The gate keeps its promises for paths of any length, any working        *)
(* directory and any policy: no spelling of a path gets a secret through,  *)
(* and nothing is denied without a ground.                                 *)
(*                                                                         *)
(* The state machine is the easy half (GateInv): what the loop has passed  *)
(* was allowed by EvalPath, and the entries that come and go change the    *)
(* set of paths in one direction only.  The other half is that EvalPath is *)
(* right, though it compares a cleaned text and knows nothing of places.   *)
(* The cleaned path and the walk along the segments are followed side by   *)
(* side (Aligned): after k leading "..", the cleaned path says what the    *)
(* place says below some prefix of the working directory.  So the name     *)
(* EvalPath judges is the name below the working directory if the path     *)
(* never leaves it (JudgedIsBelow), ends with that name if it comes back   *)
(* (JudgedEndsWithBelow), and starts with ".." only if it leaves           *)
(* (JudgedClimbs).                                                         *)
(*                                                                         *)
(* Cleaned and Walked are recursive functions, which the provers know as a *)
(* CHOOSE.  That they satisfy their equations, and what holds along them,  *)
(* is shown by induction on the position: CountUp, from the                *)
(* well-foundedness of < on the natural numbers.                           *)
(***************************************************************************)
EXTENDS Gate, WellFoundedInduction, SequenceTheorems, TLAPS

-----------------------------------------------------------------------------
(* Induction, from the well-foundedness of < on the natural numbers.       *)

(* A set of natural numbers with a member has a least one.                 *)
LEMMA LeastMember ==
  ASSUME NEW T, T \subseteq Nat, T # {}
  PROVE  \E m \in T : \A k \in T : m <= k
<1> DEFINE R == OpToRel(<, Nat)
<1>1. IsWellFoundedOn(R, Nat)
  BY NatLessThanWellFounded
<1>2. PICK m \in T : \A k \in T : ~(<<k, m>> \in R)
  <2> HIDE DEF R
  <2> QED
    BY <1>1, WFMin
<1>3. \A k \in T : k < m => <<k, m>> \in R
  BY DEF OpToRel
<1> HIDE DEF R
<1>4. \A k \in T : ~(k < m)
  BY <1>2, <1>3
<1> QED
  BY <1>4

(* A set with 0 and, with every number below n, the next one, goes up to n. *)
LEMMA CountUp ==
  ASSUME NEW n \in Nat, NEW S, 0 \in S, \A i \in 1 .. n : i - 1 \in S => i \in S
  PROVE  0 .. n \subseteq S
<1> DEFINE T == {i \in 0 .. n : i \notin S}
<1> SUFFICES ASSUME T # {} PROVE FALSE
  OBVIOUS
<1>1. PICK m \in T : \A k \in T : m <= k
  <2>1. T \subseteq Nat
    OBVIOUS
  <2> HIDE DEF T
  <2> QED
    BY <2>1, LeastMember
<1>2. m \in 1 .. n /\ m - 1 \in 0 .. n
  BY <1>1
<1>3. m - 1 \in S
  BY <1>1, <1>2
<1> QED
  BY <1>1, <1>2, <1>3

IsTrace(w, n, X, a, F) ==
  w \in [0 .. n -> X] /\ w[0] = a /\ \A i \in 1 .. n : w[i] = F[i][w[i - 1]]

(* A step applied again and again has a trace of its values.               *)
LEMMA TraceExists ==
  ASSUME NEW n \in Nat, NEW X, NEW a \in X, NEW F \in [1 .. n -> [X -> X]]
  PROVE  \E w : IsTrace(w, n, X, a, F)
<1> DEFINE Good(w, m) == w[0] = a /\ \A i \in 1 .. m : w[i] = F[i][w[i - 1]]
           S == {m \in 0 .. n : \E w \in [0 .. m -> X] : Good(w, m)}
<1>1. 0 \in S
  <2>1. [i \in 0 .. 0 |-> a] \in [0 .. 0 -> X] /\ Good([i \in 0 .. 0 |-> a], 0)
    OBVIOUS
  <2>2. 0 \in 0 .. n
    OBVIOUS
  <2> HIDE DEF Good
  <2> QED
    BY <2>1, <2>2
<1>2. ASSUME NEW m \in 1 .. n, m - 1 \in S
      PROVE  m \in S
  <2>1. PICK w \in [0 .. m - 1 -> X] : Good(w, m - 1)
    BY <1>2
  <2>2. w[m - 1] \in X
    BY <2>1
  <2> DEFINE v == [i \in 0 .. m |-> IF i = m THEN F[m][w[m - 1]] ELSE w[i]]
  <2>3. v \in [0 .. m -> X] /\ v[0] = a
    BY <2>1, <2>2
  <2>4. ASSUME NEW i \in 1 .. m
        PROVE  v[i] = F[i][v[i - 1]]
    <3>1. v[i - 1] = w[i - 1]
      OBVIOUS
    <3>2. CASE i = m
      <4>1. v[m] = F[m][w[m - 1]]
        OBVIOUS
      <4> QED
        BY <3>1, <3>2, <4>1
    <3>3. CASE i # m
      <4>1. i \in 1 .. m - 1 /\ v[i] = w[i]
        BY <3>3
      <4> QED
        BY <2>1, <3>1, <4>1
    <3> QED
      BY <3>2, <3>3
  <2> HIDE DEF v, Good
  <2>5. Good(v, m)
    BY <2>3, <2>4 DEF Good
  <2> QED
    BY <2>3, <2>5
<1>3. n \in S
  <2> HIDE DEF S
  <2>1. \A m \in 1 .. n : m - 1 \in S => m \in S
    BY <1>2
  <2>2. 0 .. n \subseteq S
    BY <1>1, <2>1, CountUp
  <2> QED
    BY <2>2
<1> QED
  BY <1>3 DEF IsTrace

-----------------------------------------------------------------------------
(* The steps of Clean and of the walk.                                     *)

(* That a name of the code is a string has to be said to the provers.      *)
Segments == STRING \cup {".", "secrets"}
Paths == Seq(Segments)

(* What the constants and the arguments are made of.                       *)
LEMMA StringsArePaths ==
  ASSUME NEW s \in Seq(STRING)
  PROVE  s \in Paths
<1>1. STRING \subseteq Segments
  BY DEF Segments
<1> QED
  BY <1>1, SeqMonotonic DEF Paths

(* The working directory is a path.                                        *)
LEMMA CwdIsPath == Cwd \in Paths
  BY GateAssumption, StringsArePaths

(* A path without its last segment.                                        *)
LEMMA FrontIsPath ==
  ASSUME NEW s \in Paths, s # <<>>
  PROVE  /\ Front(s) \in Paths /\ Len(Front(s)) = Len(s) - 1
         /\ \A i \in 1 .. Len(s) - 1 : Front(s)[i] = s[i]
<1> DEFINE m == Len(s) - 1
<1>1. m \in Nat /\ \A i \in 1 .. m : s[i] \in Segments
  BY EmptySeq, LenProperties, ElementOfSeq DEF Paths
<1>2. Front(s) = SubSeq(s, 1, m)
  BY DEF Front
<1> HIDE DEF m
<1>3. /\ SubSeq(s, 1, m) \in Seq(Segments)
      /\ Len(SubSeq(s, 1, m)) = IF 1 <= m THEN m - 1 + 1 ELSE 0
      /\ \A i \in 1 .. m - 1 + 1 : SubSeq(s, 1, m)[i] = s[1 + i - 1]
  BY <1>1, SubSeqProperties
<1>4. /\ Len(SubSeq(s, 1, m)) = m
      /\ \A i \in 1 .. m : SubSeq(s, 1, m)[i] = s[i]
  BY <1>1, <1>3
<1> QED
  BY <1>2, <1>3, <1>4 DEF m, Paths

(* A path with one more segment.                                           *)
LEMMA AppendIsPath ==
  ASSUME NEW s \in Paths, NEW seg \in Segments
  PROVE  /\ Append(s, seg) \in Paths /\ Len(Append(s, seg)) = Len(s) + 1
         /\ Append(s, seg)[Len(s) + 1] = seg
         /\ \A i \in 1 .. Len(s) : Append(s, seg)[i] = s[i]
  BY AppendProperties DEF Paths

(* What is left of a path, and a place, are paths.                         *)
LEMMA StepsArePaths ==
  ASSUME NEW s \in Paths, NEW seg \in Segments, NEW abs \in BOOLEAN
  PROVE  CleanStep(s, seg, abs) \in Paths /\ WalkStep(s, seg) \in Paths
<1>1. Append(s, seg) \in Paths
  BY AppendProperties DEF Paths
<1> QED
  BY <1>1, FrontIsPath DEF CleanStep, WalkStep

(* Cleaned is what its recursive definition says.                          *)
LEMMA CleanedEquation ==
  ASSUME NEW path, path.segs \in Paths, path.abs \in BOOLEAN
  PROVE  LET c == Cleaned(path) n == Len(path.segs) IN
         /\ c \in [0 .. n -> Paths]
         /\ c[0] = <<>>
         /\ \A i \in 1 .. n : c[i] = CleanStep(c[i - 1], path.segs[i], path.abs)
<1> DEFINE n == Len(path.segs)
           G(x, i) == CleanStep(x, path.segs[i], path.abs)
           F == [i \in 1 .. n |-> [x \in Paths |-> G(x, i)]]
           Is(c) == c = [i \in 0 .. n |-> IF i = 0 THEN <<>> ELSE G(c[i - 1], i)]
<1>1. n \in Nat
  BY LenProperties DEF Paths
<1>2. <<>> \in Paths
  BY EmptySeq DEF Paths
<1>3. \A x \in Paths, i \in 1 .. n : G(x, i) \in Paths
  <2>1. \A i \in 1 .. n : path.segs[i] \in Segments
    BY ElementOfSeq DEF Paths
  <2> QED
    BY <2>1, StepsArePaths
<1> HIDE DEF n, G
<1>4. F \in [1 .. n -> [Paths -> Paths]]
  BY <1>1, <1>3
<1>5. PICK w : IsTrace(w, n, Paths, <<>>, F)
  <2> HIDE DEF F
  <2> QED
    BY <1>1, <1>2, <1>4, TraceExists
<1>6. Is(w)
  <2>1. w \in [0 .. n -> Paths] /\ w[0] = <<>> /\ \A i \in 1 .. n : w[i] = F[i][w[i - 1]]
    <3> HIDE DEF F
    <3> QED
      BY <1>5 DEF IsTrace
  <2>2. \A i \in 1 .. n : w[i - 1] \in Paths
    BY <1>1, <2>1
  <2>3. \A i \in 1 .. n, x \in Paths : F[i][x] = G(x, i)
    OBVIOUS
  <2>4. \A i \in 1 .. n : w[i] = G(w[i - 1], i)
    BY <2>1, <2>2, <2>3
  <2> HIDE DEF F
  <2> QED
    BY <1>1, <2>1, <2>4
<1> DEFINE c == Cleaned(path)
<1>7. Is(c)
  BY <1>6 DEF Cleaned, n, G
<1>8. c = [i \in 0 .. n |-> c[i]] /\ c[0] = <<>> /\ \A i \in 1 .. n : c[i] = G(c[i - 1], i)
  <2> HIDE DEF c
  <2> QED
    BY <1>1, <1>7
<1> DEFINE S == {i \in 0 .. n : c[i] \in Paths}
<1>9. 0 .. n \subseteq S
  <2>1. 0 \in S
    BY <1>1, <1>2, <1>8
  <2>2. ASSUME NEW i \in 1 .. n, i - 1 \in S
        PROVE  i \in S
    <3>1. c[i - 1] \in Paths /\ c[i] = G(c[i - 1], i)
      BY <1>8, <2>2
    <3> HIDE DEF c
    <3> QED
      BY <1>1, <1>3, <3>1
  <2> HIDE DEF S
  <2> QED
    BY <1>1, <2>1, <2>2, CountUp
<1> QED
  BY <1>8, <1>9 DEF n, G
(* So is Walked.                                                           *)
LEMMA WalkedEquation ==
  ASSUME NEW start \in Paths, NEW segs \in Paths
  PROVE  LET w == Walked(start, segs) n == Len(segs) IN
         /\ w \in [0 .. n -> Paths]
         /\ w[0] = start
         /\ \A i \in 1 .. n : w[i] = WalkStep(w[i - 1], segs[i])
<1> DEFINE n == Len(segs)
           G(x, i) == WalkStep(x, segs[i])
           F == [i \in 1 .. n |-> [x \in Paths |-> G(x, i)]]
           Is(c) == c = [i \in 0 .. n |-> IF i = 0 THEN start ELSE G(c[i - 1], i)]
<1>1. n \in Nat
  BY LenProperties DEF Paths
<1>2. \A x \in Paths, i \in 1 .. n : G(x, i) \in Paths
  <2>1. \A i \in 1 .. n : segs[i] \in Segments
    BY ElementOfSeq DEF Paths
  <2> QED
    BY <2>1, StepsArePaths
<1> HIDE DEF n, G
<1>3. F \in [1 .. n -> [Paths -> Paths]]
  BY <1>1, <1>2
<1>4. PICK w : IsTrace(w, n, Paths, start, F)
  <2> HIDE DEF F
  <2> QED
    BY <1>1, <1>3, TraceExists
<1>5. Is(w)
  <2>1. w \in [0 .. n -> Paths] /\ w[0] = start /\ \A i \in 1 .. n : w[i] = F[i][w[i - 1]]
    <3> HIDE DEF F
    <3> QED
      BY <1>4 DEF IsTrace
  <2>2. \A i \in 1 .. n : w[i - 1] \in Paths
    BY <1>1, <2>1
  <2>3. \A i \in 1 .. n, x \in Paths : F[i][x] = G(x, i)
    OBVIOUS
  <2>4. \A i \in 1 .. n : w[i] = G(w[i - 1], i)
    BY <2>1, <2>2, <2>3
  <2> HIDE DEF F
  <2> QED
    BY <1>1, <2>1, <2>4
<1> DEFINE c == Walked(start, segs)
<1>6. Is(c)
  BY <1>5 DEF Walked, n, G
<1>7. c = [i \in 0 .. n |-> c[i]] /\ c[0] = start /\ \A i \in 1 .. n : c[i] = G(c[i - 1], i)
  <2> HIDE DEF c
  <2> QED
    BY <1>1, <1>6
<1> DEFINE S == {i \in 0 .. n : c[i] \in Paths}
<1>8. 0 .. n \subseteq S
  <2>1. 0 \in S
    BY <1>1, <1>7
  <2>2. ASSUME NEW i \in 1 .. n, i - 1 \in S
        PROVE  i \in S
    <3>1. c[i - 1] \in Paths /\ c[i] = G(c[i - 1], i)
      BY <1>7, <2>2
    <3> HIDE DEF c
    <3> QED
      BY <1>1, <1>2, <3>1
  <2> HIDE DEF S
  <2> QED
    BY <1>1, <2>1, <2>2, CountUp
<1> QED
  BY <1>7, <1>8 DEF n, G

-----------------------------------------------------------------------------
(* A cleaned path beside the walk along the path.                          *)

Ordinary(s) == s \notin {".", ".."}

(* c starts with k times "..", and after these the two say the same: the   *)
(* place w is that below the first base segments of the start.             *)
Aligned(c, w, start, k, base) ==
  /\ k \in 0 .. Len(c) /\ base \in 0 .. Len(start)
  /\ Len(c) - k = Len(w) - base
  /\ \A j \in 1 .. k : c[j] = ".."
  /\ \A j \in 1 .. Len(c) - k : c[k + j] = w[base + j] /\ Ordinary(c[k + j])
  /\ k = 0 => base = Len(start) /\ \A j \in 1 .. base : w[j] = start[j]

(* One more segment keeps the alignment.  Only ".." at the start itself    *)
(* begins a path with "..".                                                *)
LEMMA StepAligned ==
  ASSUME NEW c \in Paths, NEW w \in Paths, NEW start \in Paths, NEW seg \in Segments,
         NEW abs \in BOOLEAN, NEW k, NEW base, Aligned(c, w, start, k, base),
         abs => start = <<>> /\ k = 0
  PROVE  \E k2, base2 :
           /\ Aligned(CleanStep(c, seg, abs), WalkStep(w, seg), start, k2, base2)
           /\ abs => k2 = 0
           /\ k2 # 0 => k # 0 \/ (seg = ".." /\ w = start)
<1>1. Len(c) \in Nat /\ Len(w) \in Nat /\ Len(start) \in Nat
  BY LenProperties DEF Paths
<1>2. /\ k \in 0 .. Len(c) /\ base \in 0 .. Len(start)
      /\ Len(c) - k = Len(w) - base
      /\ \A j \in 1 .. k : c[j] = ".."
      /\ \A j \in 1 .. Len(c) - k : c[k + j] = w[base + j] /\ Ordinary(c[k + j])
      /\ k = 0 => base = Len(start) /\ \A j \in 1 .. base : w[j] = start[j]
  BY DEF Aligned
<1>3. CASE seg = "."
  BY <1>3 DEF CleanStep, WalkStep
<1>4. CASE Ordinary(seg)
  <2> DEFINE c2 == Append(c, seg)
             w2 == Append(w, seg)
  <2>1. CleanStep(c, seg, abs) = c2 /\ WalkStep(w, seg) = w2
    BY <1>4 DEF CleanStep, WalkStep, Ordinary
  <2>2. /\ Len(c2) = Len(c) + 1 /\ c2[Len(c) + 1] = seg
        /\ \A j \in 1 .. Len(c) : c2[j] = c[j]
    BY AppendIsPath
  <2>3. /\ Len(w2) = Len(w) + 1 /\ w2[Len(w) + 1] = seg
        /\ \A j \in 1 .. Len(w) : w2[j] = w[j]
    BY AppendIsPath
  <2> HIDE DEF c2, w2
  <2>4. ASSUME NEW j \in 1 .. Len(c2) - k
        PROVE  c2[k + j] = w2[base + j] /\ Ordinary(c2[k + j])
    <3>1. CASE j = Len(c2) - k
      <4>1. k + j = Len(c) + 1 /\ base + j = Len(w) + 1
        BY <1>1, <1>2, <2>2, <3>1
      <4> QED
        BY <1>4, <2>2, <2>3, <4>1
    <3>2. CASE j # Len(c2) - k
      <4>1. j \in 1 .. Len(c) - k /\ k + j \in 1 .. Len(c) /\ base + j \in 1 .. Len(w)
        BY <1>1, <1>2, <2>2, <3>2
      <4> QED
        BY <1>2, <2>2, <2>3, <4>1
    <3> QED
      BY <3>1, <3>2
  <2>5. Aligned(c2, w2, start, k, base)
    <3>1. k \in 0 .. Len(c2) /\ Len(c2) - k = Len(w2) - base
      BY <1>1, <1>2, <2>2, <2>3
    <3>2. \A j \in 1 .. k : c2[j] = ".."
      BY <1>1, <1>2, <2>2
    <3>3. k = 0 => base = Len(start) /\ \A j \in 1 .. base : w2[j] = start[j]
      BY <1>1, <1>2, <2>3
    <3> QED
      BY <1>2, <2>4, <3>1, <3>2, <3>3 DEF Aligned
  <2> QED
    BY <2>1, <2>5
<1>5. CASE seg = ".." /\ k < Len(c)
  <2> DEFINE c2 == Front(c)
             w2 == Front(w)
  <2>1. c # <<>> /\ w # <<>>
    BY <1>1, <1>2, <1>5, EmptySeq
  <2>2. Last(c) # ".."
    <3>1. Len(c) - k \in 1 .. Len(c) - k /\ k + (Len(c) - k) = Len(c)
      BY <1>1, <1>2, <1>5
    <3> QED
      BY <1>2, <3>1 DEF Last, Ordinary
  <2>3. CleanStep(c, seg, abs) = c2 /\ WalkStep(w, seg) = w2
    BY <1>5, <2>1, <2>2 DEF CleanStep, WalkStep
  <2>4. /\ Len(c2) = Len(c) - 1 /\ \A j \in 1 .. Len(c) - 1 : c2[j] = c[j]
        /\ Len(w2) = Len(w) - 1 /\ \A j \in 1 .. Len(w) - 1 : w2[j] = w[j]
    BY <2>1, FrontIsPath
  <2> HIDE DEF c2, w2
  <2>5. ASSUME NEW j \in 1 .. Len(c2) - k
        PROVE  c2[k + j] = w2[base + j] /\ Ordinary(c2[k + j])
    <3>1. /\ j \in 1 .. Len(c) - k
          /\ k + j \in 1 .. Len(c) - 1 /\ base + j \in 1 .. Len(w) - 1
      BY <1>1, <1>2, <2>4
    <3> QED
      BY <1>2, <2>4, <3>1
  <2>6. Aligned(c2, w2, start, k, base)
    <3>1. k \in 0 .. Len(c2) /\ Len(c2) - k = Len(w2) - base
      BY <1>1, <1>2, <1>5, <2>4
    <3>2. \A j \in 1 .. k : c2[j] = ".."
      BY <1>1, <1>2, <1>5, <2>4
    <3>3. k = 0 => base = Len(start) /\ \A j \in 1 .. base : w2[j] = start[j]
      BY <1>1, <1>2, <1>5, <2>4
    <3> QED
      BY <1>2, <2>5, <3>1, <3>2, <3>3 DEF Aligned
  <2> QED
    BY <2>3, <2>6
<1>6. CASE seg = ".." /\ k = Len(c) /\ abs
  <2>1. c = <<>> /\ w = <<>>
    BY <1>1, <1>2, <1>6, EmptySeq DEF Paths
  <2>2. CleanStep(c, seg, abs) = c /\ WalkStep(w, seg) = w
    BY <1>6, <2>1 DEF CleanStep, WalkStep
  <2> QED
    BY <1>6, <2>2
<1>7. CASE seg = ".." /\ k = Len(c) /\ ~abs
  <2> DEFINE c2 == Append(c, seg)
  <2>1. CleanStep(c, seg, abs) = c2
    <3>1. c # <<>> => Last(c) = ".."
      BY <1>1, <1>2, <1>7, EmptySeq DEF Last, Paths
    <3> QED
      BY <1>7, <3>1 DEF CleanStep
  <2>2. /\ Len(c2) = Len(c) + 1 /\ c2[Len(c) + 1] = seg
        /\ \A j \in 1 .. Len(c) : c2[j] = c[j]
    BY AppendIsPath
  <2> HIDE DEF c2
  <2>3. k + 1 \in 0 .. Len(c2) /\ Len(c2) - (k + 1) = 0 /\ k + 1 # 0
    BY <1>1, <1>2, <1>7, <2>2
  <2>4. \A j \in 1 .. k + 1 : c2[j] = ".."
    BY <1>1, <1>2, <1>7, <2>2
  <2>5. Len(w) = base
    BY <1>1, <1>2, <1>7
  <2>6. \E base2 \in 0 .. Len(start) : Len(WalkStep(w, seg)) = base2
    <3>1. CASE w = <<>>
      BY <1>2, <1>7, <2>5, <3>1 DEF WalkStep
    <3>2. CASE w # <<>>
      <4>1. WalkStep(w, seg) = Front(w) /\ Len(Front(w)) = Len(w) - 1
        BY <1>7, <3>2, FrontIsPath DEF WalkStep
      <4>2. Len(w) # 0
        BY <3>2, EmptySeq DEF Paths
      <4> QED
        BY <1>1, <1>2, <2>5, <4>1, <4>2
    <3> QED
      BY <3>1, <3>2
  <2>7. k # 0 \/ w = start
    <3>1. CASE k = 0
      BY <1>1, <1>2, <2>5, <3>1, SeqEqual DEF Paths
    <3> QED
      BY <3>1
  <2>8. PICK base2 \in 0 .. Len(start) : Len(WalkStep(w, seg)) = base2
    BY <2>6
  <2>9. Aligned(c2, WalkStep(w, seg), start, k + 1, base2)
    BY <1>1, <2>3, <2>4, <2>8 DEF Aligned
  <2> QED
    BY <1>7, <2>1, <2>7, <2>9
<1> QED
  BY <1>1, <1>2, <1>3, <1>4, <1>5, <1>6, <1>7 DEF Ordinary

IsArgument(a) == a.abs \in BOOLEAN /\ a.segs \in Paths /\ a.segs # <<>>

(* The cleaned path of an argument is aligned with where it leads; it      *)
(* starts with ".." only if the argument is relative and leaves.           *)
LEMMA PathAligned ==
  ASSUME NEW a, IsArgument(a)
  PROVE  LET c == Cleaned(a)[Len(a.segs)] IN
         /\ c \in Paths /\ Place(a) \in Paths /\ Start(a) \in Paths
         /\ \E k, base : /\ Aligned(c, Place(a), Start(a), k, base)
                         /\ k # 0 => Leaves(a)
<1> DEFINE n == Len(a.segs)
           c == Cleaned(a)
           w == Walked(Start(a), a.segs)
           Left(i) == \E j \in 1 .. i : a.segs[j] = ".." /\ w[j - 1] = Start(a)
           Holds(i, k, base) == /\ Aligned(c[i], w[i], Start(a), k, base)
                                /\ a.abs => k = 0
                                /\ k # 0 => Left(i)
           S == {i \in 0 .. n : \E k, base : Holds(i, k, base)}
<1>1. a.segs \in Paths /\ a.abs \in BOOLEAN /\ n \in Nat /\ \A i \in 1 .. n : a.segs[i] \in Segments
  BY LenProperties, ElementOfSeq DEF Paths, IsArgument
<1>2. Start(a) \in Paths /\ (a.abs => Start(a) = <<>>)
  BY <1>1, CwdIsPath, EmptySeq DEF Start, Paths
<1>3. /\ c \in [0 .. n -> Paths] /\ c[0] = <<>>
      /\ \A i \in 1 .. n : c[i] = CleanStep(c[i - 1], a.segs[i], a.abs)
  BY <1>1, CleanedEquation
<1>4. /\ w \in [0 .. n -> Paths] /\ w[0] = Start(a)
      /\ \A i \in 1 .. n : w[i] = WalkStep(w[i - 1], a.segs[i])
  BY <1>1, <1>2, WalkedEquation
<1> HIDE DEF c, w, n
<1>5. 0 \in S
  <2>1. Len(<<>>) = 0 /\ Len(Start(a)) \in Nat
    BY <1>2, LenProperties DEF Paths
  <2>2. Aligned(<<>>, Start(a), Start(a), 0, Len(Start(a)))
    BY <2>1 DEF Aligned
  <2> QED
    BY <1>1, <1>3, <1>4, <2>2
<1>6. ASSUME NEW i \in 1 .. n, i - 1 \in S
      PROVE  i \in S
  <2>1. PICK k, base : Holds(i - 1, k, base)
    BY <1>6
  <2>2. c[i - 1] \in Paths /\ w[i - 1] \in Paths
    BY <1>1, <1>3, <1>4
  <2>3. PICK k2, base2 :
          /\ Aligned(CleanStep(c[i - 1], a.segs[i], a.abs), WalkStep(w[i - 1], a.segs[i]),
                     Start(a), k2, base2)
          /\ a.abs => k2 = 0
          /\ k2 # 0 => k # 0 \/ (a.segs[i] = ".." /\ w[i - 1] = Start(a))
    BY <1>1, <1>2, <2>1, <2>2, StepAligned
  <2>4. Left(i - 1) => Left(i)
    BY <1>1
  <2>5. Holds(i, k2, base2)
    BY <1>3, <1>4, <2>1, <2>3, <2>4
  <2> QED
    BY <1>1, <2>5
<1>7. n \in S
  <2> HIDE DEF S
  <2>1. 0 .. n \subseteq S
    BY <1>1, <1>5, <1>6, CountUp
  <2> QED
    BY <1>1, <2>1
<1>8. PICK k, base : Holds(n, k, base)
  BY <1>7
<1>9. k # 0 => Leaves(a)
  BY <1>1, <1>8 DEF Leaves, Start, n, w
<1>10. Place(a) = w[n]
  BY DEF Place, w, n
<1> QED
  BY <1>1, <1>2, <1>3, <1>4, <1>8, <1>9, <1>10 DEF c, n

-----------------------------------------------------------------------------
(* Prefixes, suffixes and globs, position by position.                     *)

(* A prefix agrees in every position it has.                               *)
LEMMA PrefixMeans ==
  ASSUME NEW s \in Paths, NEW t \in Paths
  PROVE  IsPrefix(s, t) <=> Len(s) <= Len(t) /\ \A i \in 1 .. Len(s) : s[i] = t[i]
<1>1. Len(s) \in Nat /\ Len(t) \in Nat
  BY LenProperties DEF Paths
<1>2. SubSeq(s, 1, Len(s)) = s
  BY SubSeqFull DEF Paths
<1>3. ASSUME Len(s) <= Len(t)
      PROVE  /\ SubSeq(t, 1, Len(s)) \in Paths /\ Len(SubSeq(t, 1, Len(s))) = Len(s)
             /\ \A i \in 1 .. Len(s) : SubSeq(t, 1, Len(s))[i] = t[i]
  <2> DEFINE m == Len(s)
  <2>1. m \in Nat /\ \A i \in 1 .. m : t[i] \in Segments
    BY <1>1, <1>3, ElementOfSeq DEF Paths
  <2> HIDE DEF m
  <2>2. /\ SubSeq(t, 1, m) \in Seq(Segments)
        /\ Len(SubSeq(t, 1, m)) = IF 1 <= m THEN m - 1 + 1 ELSE 0
        /\ \A i \in 1 .. m - 1 + 1 : SubSeq(t, 1, m)[i] = t[1 + i - 1]
    BY <2>1, SubSeqProperties
  <2>3. Len(SubSeq(t, 1, m)) = m /\ \A i \in 1 .. m : SubSeq(t, 1, m)[i] = t[i]
    BY <2>1, <2>2
  <2> QED
    BY <2>2, <2>3 DEF m, Paths
<1>4. ASSUME Len(s) <= Len(t), \A i \in 1 .. Len(s) : s[i] = t[i]
      PROVE  s = SubSeq(t, 1, Len(s))
  BY <1>3, <1>4, SeqEqual DEF Paths
<1>5. IsPrefix(s, t) <=> Len(s) <= Len(t) /\ s = SubSeq(t, 1, Len(s))
  BY <1>2 DEF IsPrefix
<1> QED
  BY <1>3, <1>4, <1>5

(* From(t, i) starts at position i.                                        *)
LEMMA FromMeans ==
  ASSUME NEW t \in Paths, NEW i \in 1 .. Len(t) + 1
  PROVE  /\ From(t, i) \in Paths /\ Len(From(t, i)) = Len(t) - i + 1
         /\ \A j \in 1 .. Len(t) - i + 1 : From(t, i)[j] = t[i + j - 1]
<1> DEFINE n == Len(t)
<1>1. n \in Nat /\ \A j \in i .. n : t[j] \in Segments
  BY LenProperties, ElementOfSeq DEF Paths
<1>2. From(t, i) = SubSeq(t, i, n)
  BY DEF From
<1> HIDE DEF n
<1>3. i \in Int /\ n \in Int
  BY <1>1
<1>4. /\ SubSeq(t, i, n) \in Seq(Segments)
      /\ Len(SubSeq(t, i, n)) = IF i <= n THEN n - i + 1 ELSE 0
      /\ \A j \in 1 .. n - i + 1 : SubSeq(t, i, n)[j] = t[i + j - 1]
  BY <1>1, <1>3, SubSeqProperties
<1>5. Len(SubSeq(t, i, n)) = n - i + 1
  BY <1>1, <1>4 DEF n
<1> QED
  BY <1>2, <1>4, <1>5 DEF n, Paths

(* The front of a pair.                                                    *)
LEMMA FrontOfTwo ==
  ASSUME NEW x, NEW y
  PROVE  Front(<<x, y>>) = <<x>>
<1> DEFINE t == <<x, y>>
<1>1. Len(t) = 2 /\ t[1] = x /\ <<x>> \in Seq({x}) /\ Len(<<x>>) = 1 /\ <<x>>[1] = x
  OBVIOUS
<1> HIDE DEF t
<1>2. Front(t) = SubSeq(t, 1, 1)
  BY <1>1 DEF Front
<1>3. \A i \in 1 .. 1 : t[i] \in {x}
  BY <1>1
<1>4. /\ SubSeq(t, 1, 1) \in Seq({x}) /\ Len(SubSeq(t, 1, 1)) = 1
      /\ SubSeq(t, 1, 1)[1] = x
  BY <1>1, <1>3, SubSeqProperties
<1>5. Front(t) = <<x>>
  <2> DEFINE s == SubSeq(t, 1, 1)
             u == <<x>>
  <2>1. s \in Seq({x}) /\ u \in Seq({x}) /\ Len(s) = Len(u) /\ \A i \in 1 .. Len(s) : s[i] = u[i]
    BY <1>1, <1>4
  <2> HIDE DEF s, u
  <2>2. s = u
    BY <2>1, SeqEqual
  <2> QED
    BY <1>2, <2>2 DEF s, u
<1> QED
  BY <1>5 DEF t

(* A glob of one name asks for the last segment.                           *)
LEMMA NameGlob ==
  ASSUME NEW p, p # "**", NEW rel \in Paths
  PROVE  GlobMatch(<<p>>, rel) <=> rel # <<>> /\ SegMatches(p, rel[Len(rel)])
<1>1. Len(rel) \in Nat /\ (rel # <<>> <=> Len(rel) >= 1)
  BY LenProperties, EmptySeq DEF Paths
<1>2. GlobMatch(<<p>>, rel) <=> MatchesTail(<<p>>, rel)
  BY DEF GlobMatch, Last
<1>3. ASSUME Len(rel) >= 1
      PROVE  /\ Len(rel) - 1 + 1 = Len(rel) /\ From(rel, Len(rel))[1] = rel[Len(rel)]
  <2>1. Len(rel) \in 1 .. Len(rel) + 1 /\ 1 \in 1 .. Len(rel) - Len(rel) + 1
    BY <1>1, <1>3
  <2>2. From(rel, Len(rel))[1] = rel[Len(rel) + 1 - 1]
    BY <2>1, FromMeans
  <2> QED
    BY <1>1, <2>2
<1>4. ASSUME Len(rel) >= 1
      PROVE  MatchesTail(<<p>>, rel) <=> SegMatches(p, rel[Len(rel)])
  <2> DEFINE tail == From(rel, Len(rel))
  <2>1. MatchesTail(<<p>>, rel) <=>
          \E k \in 1 .. 2 : /\ \A i \in 1 .. k - 1 : SegMatches(<<p>>[i], tail[i])
                            /\ k <= 1 => <<p>>[k] = "**"
    BY <1>1, <1>3, <1>4 DEF MatchesTail
  <2>2. <<p>>[1] = p
    OBVIOUS
  <2> HIDE DEF tail
  <2>3. MatchesTail(<<p>>, rel) <=> SegMatches(p, tail[1])
    BY <2>1, <2>2
  <2> QED
    BY <1>3, <1>4, <2>3 DEF tail
<1>5. MatchesTail(<<p>>, rel) => Len(rel) >= 1
  BY <1>1 DEF MatchesTail
<1> QED
  BY <1>1, <1>2, <1>4, <1>5

(* The glob of secret directories asks for one of that name anywhere.      *)
LEMMA AnywhereGlob ==
  ASSUME NEW rel \in Paths
  PROVE  GlobMatch(<<"**", "secrets", "**">>, rel) <=> \E i \in 1 .. Len(rel) : rel[i] = "secrets"
<1> DEFINE g == <<"**", "secrets", "**">>
           needle == <<"secrets">>
<1>1. Front(Tail(g)) = needle
  <2>1. Tail(g) = <<"secrets", "**">>
    OBVIOUS
  <2> QED
    BY <2>1, FrontOfTwo
<1>2. GlobMatch(g, rel) <=> MatchesAnywhere(needle, rel)
  BY <1>1 DEF GlobMatch, Last
<1>3. needle \in Paths /\ Len(needle) = 1 /\ needle[1] = "secrets"
  <2>1. "secrets" \in Segments
    BY DEF Segments
  <2>2. \A x \in Segments : <<x>> \in Seq(Segments) /\ Len(<<x>>) = 1 /\ <<x>>[1] = x
    OBVIOUS
  <2> QED
    BY <2>1, <2>2 DEF Paths
<1>4. ASSUME NEW i \in 1 .. Len(rel)
      PROVE  IsPrefix(needle, From(rel, i)) <=> rel[i] = "secrets"
  <2> HIDE DEF needle
  <2>1. Len(rel) \in Nat
    BY LenProperties DEF Paths
  <2>2. From(rel, i) \in Paths /\ Len(From(rel, i)) >= 1 /\ From(rel, i)[1] = rel[i]
    BY <2>1, FromMeans
  <2>3. IsPrefix(needle, From(rel, i)) <=>
          /\ Len(needle) <= Len(From(rel, i))
          /\ \A j \in 1 .. Len(needle) : needle[j] = From(rel, i)[j]
    BY <1>3, <2>2, PrefixMeans
  <2>4. 1 .. Len(needle) = {1}
    BY <1>3
  <2> QED
    BY <1>3, <2>2, <2>3, <2>4
<1> QED
  BY <1>2, <1>4 DEF MatchesAnywhere

(* dir/** asks for the directory at the start.                             *)
LEMMA DirectoryGlob ==
  ASSUME NEW g \in Paths, g # <<>>, Last(g) = "**", Plain(Front(g)), NEW rel
  PROVE  GlobMatch(g, rel) <=> IsPrefix(Front(g), rel)
<1>1. /\ Len(g) \in Nat \ {0} /\ Front(g) \in Paths /\ Len(Front(g)) = Len(g) - 1
      /\ \A i \in 1 .. Len(g) - 1 : Front(g)[i] = g[i]
  BY FrontIsPath, EmptySeq DEF Paths
<1>2. Len(Front(g)) # 0
  BY <1>1, EmptySeq DEF Plain, Paths
<1>3. g[1] # "**"
  BY <1>1, <1>2 DEF Plain
<1>4. g # <<"**">> /\ Head(g) # "**"
  <2>1. Head(g) = g[1]
    BY DEF Paths
  <2> QED
    BY <1>3, <2>1
<1> QED
  BY <1>4 DEF GlobMatch, MatchesBelow

-----------------------------------------------------------------------------
(* What EvalPath compares with the globs, against where the path leads.    *)

Judged(a) == IF a.abs THEN RelativeTo(Cwd, Clean(a)) ELSE Clean(a)

(* A place inside starts like the working directory and goes on with Below. *)
LEMMA InsideMeans ==
  ASSUME NEW a, Place(a) \in Paths
  PROVE  /\ Inside(a) <=> /\ Len(Cwd) <= Len(Place(a))
                          /\ \A i \in 1 .. Len(Cwd) : Cwd[i] = Place(a)[i]
         /\ Inside(a) => /\ Below(a) \in Paths /\ Len(Below(a)) = Len(Place(a)) - Len(Cwd)
                         /\ \A j \in 1 .. Len(Below(a)) : Below(a)[j] = Place(a)[Len(Cwd) + j]
<1>1. Cwd \in Paths /\ Len(Cwd) \in Nat /\ Len(Place(a)) \in Nat
  BY CwdIsPath, LenProperties DEF Paths
<1>2. Inside(a) <=> /\ Len(Cwd) <= Len(Place(a))
                    /\ \A i \in 1 .. Len(Cwd) : Cwd[i] = Place(a)[i]
  BY <1>1, PrefixMeans DEF Inside
<1>3. ASSUME Inside(a)
      PROVE  /\ Below(a) \in Paths /\ Len(Below(a)) = Len(Place(a)) - Len(Cwd)
             /\ \A j \in 1 .. Len(Below(a)) : Below(a)[j] = Place(a)[Len(Cwd) + j]
  <2> DEFINE i == Len(Cwd) + 1
  <2>1. i \in 1 .. Len(Place(a)) + 1
    BY <1>1, <1>2, <1>3
  <2>2. Below(a) = From(Place(a), i)
    BY DEF Below
  <2>3. /\ Below(a) \in Paths /\ Len(Below(a)) = Len(Place(a)) - i + 1
        /\ \A j \in 1 .. Len(Place(a)) - i + 1 : Below(a)[j] = Place(a)[i + j - 1]
    <3> HIDE DEF i
    <3> QED
      BY <2>1, <2>2, FromMeans
  <2> QED
    BY <1>1, <2>3
<1> QED
  BY <1>2, <1>3

(* An absolute path is cleaned to where it leads.                          *)
LEMMA AbsoluteIsPlace ==
  ASSUME NEW a, IsArgument(a), a.abs
  PROVE  Clean(a) = Place(a)
<1> DEFINE c == Cleaned(a)[Len(a.segs)]
<1>1. c \in Paths /\ Place(a) \in Paths
  BY PathAligned
<1>2. PICK k, base : Aligned(c, Place(a), Start(a), k, base) /\ (k # 0 => Leaves(a))
  BY PathAligned
<1>3. Clean(a) = c
  BY DEF Clean
<1>4. ~Leaves(a) /\ Start(a) = <<>> /\ Len(Start(a)) = 0
  BY EmptySeq DEF Leaves, Start
<1> HIDE DEF c
<1>5. k = 0 /\ base = 0
  BY <1>2, <1>4 DEF Aligned
<1>6. Len(c) \in Nat /\ Len(Place(a)) \in Nat
  BY <1>1, LenProperties DEF Paths
<1>7. Len(c) = Len(Place(a)) /\ \A j \in 1 .. Len(c) : c[j] = Place(a)[j]
  BY <1>2, <1>5, <1>6 DEF Aligned
<1> QED
  BY <1>1, <1>3, <1>7, SeqEqual DEF Paths

(* A relative path that is compared under a name without ".." at its start *)
(* leads into the working directory, and the name is that below it.        *)
LEMMA JudgedClimbs ==
  ASSUME NEW a, IsArgument(a), ~a.abs
  PROVE  \/ Inside(a) /\ Judged(a) = NameOf(Below(a))
         \/ Leaves(a) /\ Judged(a) \in Paths /\ Judged(a) # <<>> /\ Judged(a)[1] = ".."
<1> DEFINE c == Cleaned(a)[Len(a.segs)]
<1>1. c \in Paths
  BY PathAligned
<1>2. PICK k, base : Aligned(c, Place(a), Start(a), k, base) /\ (k # 0 => Leaves(a))
  BY PathAligned
<1>3. Judged(a) = NameOf(c)
  BY DEF Judged, Clean, NameOf
<1> HIDE DEF c
<1>4. Len(c) \in Nat
  BY <1>1, LenProperties DEF Paths
<1>5. CASE k # 0
  <2>1. k \in 1 .. Len(c) /\ c[1] = ".."
    BY <1>2, <1>4, <1>5 DEF Aligned
  <2>2. c # <<>>
    BY <1>4, <2>1, EmptySeq
  <2> QED
    BY <1>1, <1>2, <1>3, <1>5, <2>1, <2>2 DEF NameOf
<1>6. CASE k = 0
  <2>1. Place(a) \in Paths /\ Len(Place(a)) \in Nat /\ Cwd \in Paths /\ Len(Cwd) \in Nat
    BY PathAligned, CwdIsPath, LenProperties DEF Paths
  <2>2. Start(a) = Cwd
    BY DEF Start
  <2>3. /\ Len(c) = Len(Place(a)) - Len(Cwd)
        /\ \A j \in 1 .. Len(c) : c[j] = Place(a)[Len(Cwd) + j]
        /\ \A j \in 1 .. Len(Cwd) : Place(a)[j] = Cwd[j]
    <3>1. Aligned(c, Place(a), Cwd, 0, base)
      BY <1>2, <1>6, <2>2
    <3>2. /\ Len(c) - 0 = Len(Place(a)) - base /\ base = Len(Cwd)
          /\ \A j \in 1 .. base : Place(a)[j] = Cwd[j]
      BY <3>1 DEF Aligned
    <3>3. \A j \in 1 .. Len(c) - 0 : c[0 + j] = Place(a)[base + j]
      BY <3>1 DEF Aligned
    <3>4. Len(c) - 0 = Len(c) /\ \A j \in 1 .. Len(c) : 0 + j = j
      BY <1>4
    <3> QED
      BY <3>2, <3>3, <3>4
  <2>4. Inside(a)
    <3>1. Len(Cwd) <= Len(Place(a))
      BY <1>4, <2>1, <2>3
    <3>2. \A j \in 1 .. Len(Cwd) : Cwd[j] = Place(a)[j]
      BY <2>3
    <3> QED
      BY <2>1, <3>1, <3>2, InsideMeans
  <2>5. Below(a) \in Paths /\ Len(Below(a)) = Len(c) /\ \A j \in 1 .. Len(c) : c[j] = Below(a)[j]
    <3> DEFINE b == Below(a)
    <3>1. b \in Paths /\ Len(b) = Len(Place(a)) - Len(Cwd)
      BY <2>1, <2>4, InsideMeans
    <3>2. \A j \in 1 .. Len(b) : b[j] = Place(a)[Len(Cwd) + j]
      BY <2>1, <2>4, InsideMeans
    <3>3. Len(b) = Len(c)
      BY <2>3, <3>1
    <3> HIDE DEF b
    <3>4. \A j \in 1 .. Len(c) : c[j] = b[j]
      BY <2>3, <3>2, <3>3
    <3> QED
      BY <3>1, <3>3, <3>4 DEF b
  <2>6. c = Below(a)
    BY <1>1, <2>5, SeqEqual DEF Paths
  <2> QED
    BY <1>3, <2>4, <2>6
<1> QED
  BY <1>5, <1>6

(* A path that does not leave is compared under its name below the working *)
(* directory, and a relative one then leads into it.                       *)
LEMMA JudgedIsBelow ==
  ASSUME NEW a, IsArgument(a), ~Leaves(a), a.abs => Inside(a)
  PROVE  Inside(a) /\ Judged(a) = NameOf(Below(a))
<1>1. Place(a) \in Paths /\ Len(Place(a)) \in Nat /\ Cwd \in Paths /\ Len(Cwd) \in Nat
  BY PathAligned, CwdIsPath, LenProperties DEF Paths
<1>2. CASE a.abs
  <2>1. Inside(a) /\ Judged(a) = RelativeTo(Cwd, Place(a))
    BY <1>2, AbsoluteIsPlace DEF Judged
  <2>2. RelativeTo(Cwd, Place(a)) = IF Place(a) = Cwd THEN DotPath ELSE Below(a)
    BY DEF RelativeTo, Below
  <2>3. Place(a) = Cwd <=> Below(a) = <<>>
    <3>1. /\ Len(Cwd) <= Len(Place(a)) /\ \A i \in 1 .. Len(Cwd) : Cwd[i] = Place(a)[i]
          /\ Below(a) \in Paths /\ Len(Below(a)) = Len(Place(a)) - Len(Cwd)
      BY <1>1, <2>1, InsideMeans
    <3>2. Below(a) = <<>> <=> Len(Place(a)) = Len(Cwd)
      BY <1>1, <3>1, EmptySeq DEF Paths
    <3>3. Len(Place(a)) = Len(Cwd) => Place(a) = Cwd
      BY <1>1, <3>1, SeqEqual DEF Paths
    <3> QED
      BY <3>2, <3>3
  <2> QED
    BY <2>1, <2>2, <2>3 DEF NameOf
<1>3. CASE ~a.abs
  BY <1>3, JudgedClimbs
<1> QED
  BY <1>2, <1>3

(* A path that leads into the working directory, wherever it went before,  *)
(* is compared under a name that ends with the name below it.              *)
EndsWith(rel, below) ==
  /\ Len(below) <= Len(rel)
  /\ \A j \in 1 .. Len(below) : below[j] = rel[Len(rel) - Len(below) + j]

LEMMA JudgedEndsWithBelow ==
  ASSUME NEW a, IsArgument(a), Inside(a), Below(a) # <<>>
  PROVE  Judged(a) \in Paths /\ EndsWith(Judged(a), Below(a))
<1>1. /\ Place(a) \in Paths /\ Len(Place(a)) \in Nat /\ Cwd \in Paths /\ Len(Cwd) \in Nat
  BY PathAligned, CwdIsPath, LenProperties DEF Paths
<1>2. /\ Below(a) \in Paths /\ Len(Below(a)) = Len(Place(a)) - Len(Cwd)
      /\ \A j \in 1 .. Len(Below(a)) : Below(a)[j] = Place(a)[Len(Cwd) + j]
  BY <1>1, InsideMeans
<1>3. Len(Below(a)) \in Nat \ {0}
  BY <1>2, EmptySeq DEF Paths
<1>4. CASE ~Leaves(a)
  <2>1. Judged(a) = Below(a)
    BY <1>4, JudgedIsBelow DEF NameOf
  <2> QED
    BY <1>2, <1>3, <2>1 DEF EndsWith
<1>5. CASE Leaves(a)
  <2> DEFINE c == Cleaned(a)[Len(a.segs)]
  <2>1. c \in Paths
    BY PathAligned
  <2>2. PICK k, base : Aligned(c, Place(a), Start(a), k, base) /\ (k # 0 => Leaves(a))
    BY PathAligned
  <2>3. ~a.abs /\ Start(a) = Cwd
    BY <1>5 DEF Leaves, Start
  <2>4. Judged(a) = NameOf(c)
    BY <2>3 DEF Judged, Clean, NameOf
  <2> HIDE DEF c
  <2>5. Len(c) \in Nat
    BY <2>1, LenProperties DEF Paths
  <2>6. /\ k \in 0 .. Len(c) /\ base \in 0 .. Len(Cwd) /\ Len(c) - k = Len(Place(a)) - base
        /\ \A j \in 1 .. Len(c) - k : c[k + j] = Place(a)[base + j]
    BY <2>2, <2>3 DEF Aligned
  <2>7. Len(Below(a)) <= Len(c)
    BY <1>1, <1>2, <2>5, <2>6
  <2>8. ASSUME NEW j \in 1 .. Len(Below(a))
        PROVE  Below(a)[j] = c[Len(c) - Len(Below(a)) + j]
    <3> DEFINE i == Len(Cwd) - base + j
    <3>1. i \in 1 .. Len(c) - k /\ base + i = Len(Cwd) + j /\ k + i = Len(c) - Len(Below(a)) + j
      <4>1. /\ k \in 0 .. Len(c) /\ base \in 0 .. Len(Cwd) /\ Len(c) - k = Len(Place(a)) - base
            /\ Len(Below(a)) = Len(Place(a)) - Len(Cwd)
        BY <1>2, <2>6
      <4> QED
        BY <1>1, <2>5, <4>1
    <3> HIDE DEF i
    <3>2. c[k + i] = Place(a)[base + i]
      BY <2>6, <3>1
    <3> QED
      BY <1>2, <3>1, <3>2
  <2>9. Judged(a) = c
    BY <1>3, <2>4, <2>5, <2>7, EmptySeq DEF NameOf
  <2> QED
    BY <2>1, <2>7, <2>8, <2>9 DEF EndsWith
<1> QED
  BY <1>4, <1>5

-----------------------------------------------------------------------------
(* Verdicts on one argument.                                               *)

(* What EvalPath allows is in the workspace and escapes every refusal.     *)
LEMMA AllowMeans ==
  ASSUME NEW a, IsArgument(a), NEW p, EvalPath(p, Cwd, a) = "allow"
  PROVE  /\ a.abs => Inside(a)
         /\ ~DeniedBy(p.deny, Judged(a)) /\ ~DeniedBy(SecretGlobs, Judged(a))
         /\ ~OutsideAllowed(p, Judged(a))
<1>1. EvalRelative(p, Judged(a)) = "allow" /\ (a.abs => InWorkspace(Cwd, Clean(a)))
  BY DEF EvalPath, Judged, IsArgument
<1>2. /\ ~DeniedBy(p.deny, Judged(a)) /\ ~DeniedBy(SecretGlobs, Judged(a))
      /\ ~OutsideAllowed(p, Judged(a))
  BY <1>1 DEF EvalRelative
<1>3. ASSUME a.abs
      PROVE  Inside(a)
  <2>1. Place(a) = Cwd \/ IsPrefix(Cwd, Place(a))
    BY <1>1, <1>3, AbsoluteIsPlace DEF InWorkspace
  <2>2. IsPrefix(Cwd, Cwd)
    BY CwdIsPath, PrefixMeans, LenProperties DEF Paths
  <2> QED
    BY <2>1, <2>2 DEF Inside
<1> QED
  BY <1>2, <1>3

(* What it does not allow meets one of the refusals.                       *)
LEMMA DenyMeans ==
  ASSUME NEW a, IsArgument(a), NEW p, EvalPath(p, Cwd, a) # "allow"
  PROVE  \/ a.abs /\ (~Inside(a) \/ Cwd = <<>>)
         \/ DeniedBy(p.deny, Judged(a)) \/ DeniedBy(SecretGlobs, Judged(a))
         \/ OutsideAllowed(p, Judged(a))
<1>1. \/ a.abs /\ ~InWorkspace(Cwd, Clean(a))
      \/ EvalRelative(p, Judged(a)) # "allow"
  BY DEF EvalPath, Judged, IsArgument
<1>2. a.abs /\ ~InWorkspace(Cwd, Clean(a)) => ~Inside(a) \/ Cwd = <<>>
  BY AbsoluteIsPlace DEF InWorkspace, Inside
<1> QED
  BY <1>1, <1>2 DEF EvalRelative

(* The secret globs find what is secret, also behind leading "..".         *)
LEMMA SecretFound ==
  ASSUME NEW rel \in Paths, NEW below \in Paths, EndsWith(rel, below), Secret(below)
  PROVE  DeniedBy(SecretGlobs, rel)
<1>1. Len(rel) \in Nat /\ Len(below) \in Nat
  BY LenProperties DEF Paths
<1>2. PICK i \in 1 .. Len(below) :
        \/ below[i] = "secrets"
        \/ i = Len(below) /\ \E p \in SecretNames : SegMatches(p, below[i])
  BY DEF Secret
<1>3. /\ Len(rel) - Len(below) + i \in 1 .. Len(rel)
      /\ below[i] = rel[Len(rel) - Len(below) + i]
  BY <1>1 DEF EndsWith
<1>4. CASE below[i] = "secrets"
  <2>1. GlobMatch(<<"**", "secrets", "**">>, rel)
    BY <1>3, <1>4, AnywhereGlob
  <2> QED
    BY <2>1 DEF DeniedBy, SecretGlobs
<1>5. CASE i = Len(below) /\ \E p \in SecretNames : SegMatches(p, below[i])
  <2>1. PICK p \in SecretNames : SegMatches(p, below[i])
    BY <1>5
  <2>2. rel # <<>> /\ below[i] = rel[Len(rel)]
    BY <1>1, <1>3, <1>5, EmptySeq
  <2>3. GlobMatch(<<p>>, rel)
    BY <2>1, <2>2, NameGlob DEF SecretNames
  <2> QED
    BY <2>3 DEF DeniedBy, SecretGlobs
<1> QED
  BY <1>2, <1>4, <1>5

(* The name below the working directory is a path, "." at the directory.   *)
LEMMA NamesArePaths ==
  ASSUME NEW below \in Paths
  PROVE  NameOf(below) \in Paths /\ Len(DotPath) = 1 /\ DotPath[1] = "." /\ DotPath # <<>>
<1>1. "." \in Segments
  BY DEF Segments
<1>2. \A x \in Segments : <<x>> \in Seq(Segments) /\ Len(<<x>>) = 1 /\ <<x>>[1] = x /\ <<x>> # <<>>
  OBVIOUS
<1> QED
  BY <1>1, <1>2 DEF NameOf, DotPath, Paths

(* And nothing else.                                                       *)
LEMMA SecretOnly ==
  ASSUME NEW below \in Paths, DeniedBy(SecretGlobs, NameOf(below))
  PROVE  Secret(below)
<1> DEFINE rel == NameOf(below)
<1>1. rel \in Paths /\ (below # <<>> => rel = below)
  BY NamesArePaths DEF NameOf
<1>2. below = <<>> => Len(rel) = 1 /\ rel[1] = "." /\ rel # <<>>
  BY NamesArePaths DEF NameOf
<1>3. Len(below) \in Nat /\ (below # <<>> => Len(below) \in 1 .. Len(below))
  BY LenProperties, EmptySeq DEF Paths
<1>4. PICK g \in SecretGlobs : GlobMatch(g, rel)
  BY DEF DeniedBy
<1> HIDE DEF rel
<1>5. CASE g = <<"**", "secrets", "**">>
  <2>1. PICK i \in 1 .. Len(rel) : rel[i] = "secrets"
    BY <1>1, <1>4, <1>5, AnywhereGlob
  <2>2. below # <<>>
    BY <1>2, <2>1
  <2> QED
    BY <1>1, <2>1, <2>2 DEF Secret
<1>6. CASE \E p \in SecretNames : g = <<p>>
  <2>1. PICK p \in SecretNames : g = <<p>>
    BY <1>6
  <2>2. SegMatches(p, rel[Len(rel)])
    BY <1>1, <1>4, <2>1, NameGlob DEF SecretNames
  <2>3. below # <<>>
    <3>1. ~SegMatches(p, ".")
      BY SecretsAreNotDot DEF SegMatches, SecretNames
    <3> QED
      BY <1>2, <2>2, <3>1
  <2> QED
    BY <1>1, <1>3, <2>2, <2>3 DEF Secret
<1> QED
  BY <1>4, <1>5, <1>6 DEF SecretGlobs

(* A deny_glob matches the name below the working directory exactly if it  *)
(* takes away what is there.                                               *)
LEMMA TakesMeans ==
  ASSUME NEW g \in Seq(STRING) \ {<<>>}, NEW below \in Paths
  PROVE  Takes(g, below) <=> GlobMatch(g, NameOf(below))
<1>1. CASE Last(g) = "**" /\ Plain(Front(g))
  <2> DEFINE d == Front(g)
  <2>1. g \in Paths /\ d \in Paths
    BY StringsArePaths, FrontIsPath
  <2>2. GlobMatch(g, NameOf(below)) <=> IsPrefix(d, NameOf(below))
    BY <1>1, <2>1, DirectoryGlob
  <2>3. Takes(g, below) <=> IsPrefix(d, below)
    BY <1>1 DEF Takes, InDir
  <2>4. Len(d) \in Nat \ {0} /\ d[1] # "."
    BY <1>1, <2>1, EmptySeq DEF Plain, Paths
  <2> HIDE DEF d
  <2>5. CASE below = <<>>
    <3>1. ~IsPrefix(d, below)
      BY <2>1, <2>4, <2>5, PrefixMeans, EmptySeq
    <3>2. NameOf(below) \in Paths /\ NameOf(below)[1] = "."
      BY <2>5, NamesArePaths DEF NameOf
    <3>3. ~IsPrefix(d, NameOf(below))
      BY <2>1, <2>4, <3>2, PrefixMeans
    <3> QED
      BY <2>2, <2>3, <3>1, <3>3
  <2>6. CASE below # <<>>
    BY <2>2, <2>3, <2>6 DEF NameOf
  <2> QED
    BY <2>5, <2>6
<1>2. CASE ~(Last(g) = "**" /\ Plain(Front(g)))
  BY <1>2 DEF Takes
<1> QED
  BY <1>1, <1>2

(* So is what is below it.                                                 *)
LEMMA BelowIsPath ==
  ASSUME NEW a, IsArgument(a), Inside(a)
  PROVE  Below(a) \in Paths
BY PathAligned, InsideMeans

(* NoSecretPasses for one argument: EvalPath allows no secret.             *)
LEMMA AllowedIsHarmless ==
  ASSUME NEW a, IsArgument(a), Inside(a), policy \in Policies,
         EvalPath(policy, Cwd, a) = "allow"
  PROVE  /\ ~Secret(Below(a))
         /\ Closed(Below(a)) => Leaves(a)
<1>1. ~DeniedBy(policy.deny, Judged(a)) /\ ~DeniedBy(SecretGlobs, Judged(a))
  BY AllowMeans
<1>2. ~Secret(Below(a))
  <2>1. CASE Below(a) = <<>>
    <3>1. 1 .. Len(Below(a)) = {}
      BY <2>1
    <3> QED
      BY <3>1 DEF Secret
  <2>2. CASE Below(a) # <<>>
    BY <1>1, <2>2, JudgedEndsWithBelow, BelowIsPath, SecretFound
  <2> QED
    BY <2>1, <2>2
<1>3. ASSUME Closed(Below(a)), ~Leaves(a)
      PROVE  FALSE
  <2>1. PICK g \in policy.deny : Takes(g, Below(a))
    BY <1>3 DEF Closed
  <2>2. g \in Seq(STRING) \ {<<>>}
    BY GateAssumption
  <2>3. GlobMatch(g, Judged(a))
    BY <1>3, <2>1, <2>2, JudgedIsBelow, BelowIsPath, TakesMeans
  <2> QED
    BY <1>1, <2>3 DEF DeniedBy
<1> QED
  BY <1>2, <1>3

(* StaysInAllowed for one argument.                                        *)
LEMMA AllowedIsInDirectory ==
  ASSUME NEW a, IsArgument(a), policy \in Policies, policy.allow # {},
         \A d \in policy.allow : Plain(d), EvalPath(policy, Cwd, a) = "allow"
  PROVE  Inside(a) /\ \E d \in policy.allow : InDir(Below(a), d)
<1>1. (a.abs => Inside(a)) /\ ~OutsideAllowed(policy, Judged(a))
  BY AllowMeans
<1>2. PICK d \in policy.allow : UnderDir(Judged(a), d)
  BY <1>1 DEF OutsideAllowed
<1>3. d \in Paths /\ d # <<>> /\ Len(d) \in Nat \ {0} /\ d[1] \notin {".", ".."}
  <2>1. d \in Paths /\ d # <<>> /\ \A i \in 1 .. Len(d) : d[i] \notin {"**", ".", ".."}
    BY GateAssumption, StringsArePaths DEF Plain
  <2>2. Len(d) \in Nat \ {0}
    BY <2>1, EmptySeq DEF Paths
  <2> QED
    BY <2>1, <2>2
<1>4. IsPrefix(d, Judged(a))
  BY <1>2, <1>3, NamesArePaths, EmptySeq DEF UnderDir, DotPath
<1>5. Inside(a) /\ Judged(a) = NameOf(Below(a))
  <2>1. CASE a.abs
    BY <1>1, <2>1, JudgedIsBelow DEF Leaves
  <2>2. CASE ~a.abs
    <3>1. Judged(a) \in Paths => Judged(a)[1] # ".."
      BY <1>3, <1>4, PrefixMeans
    <3> QED
      BY <2>2, <3>1, JudgedClimbs
  <2> QED
    BY <2>1, <2>2
<1>6. Below(a) \in Paths
  BY <1>5, BelowIsPath
<1>7. Below(a) # <<>>
  <2>1. NameOf(<<>>) = DotPath /\ DotPath \in Paths /\ DotPath[1] = "."
    BY NamesArePaths, EmptySeq DEF NameOf, Paths
  <2>2. ~IsPrefix(d, DotPath)
    BY <1>3, <2>1, PrefixMeans
  <2> QED
    BY <1>4, <1>5, <2>1, <2>2
<1> QED
  BY <1>4, <1>5, <1>7 DEF InDir, NameOf

(* CheckStaysInside for one argument: without "../" the only way out is a  *)
(* ".." at the end.                                                        *)
LEMMA AllowedStaysInside ==
  ASSUME NEW a, IsArgument(a), ~Climbs(a), NEW p, EvalPath(p, Cwd, a) = "allow"
  PROVE  Inside(a) \/ Place(a) = Front(Cwd)
<1>1. CASE a.abs
  BY <1>1, AllowMeans
<1>2. CASE ~a.abs /\ ~Leaves(a)
  BY <1>2, JudgedIsBelow
<1>3. CASE ~a.abs /\ Leaves(a)
  <2> DEFINE n == Len(a.segs)
             w == Walked(Cwd, a.segs)
  <2>1. a.segs \in Paths /\ Cwd \in Paths /\ n \in Nat
    BY CwdIsPath, LenProperties DEF IsArgument, Paths
  <2>2. PICK i \in 1 .. n : a.segs[i] = ".." /\ w[i - 1] = Cwd
    BY <1>3 DEF Leaves
  <2>3. i = n
    BY <2>1, <2>2 DEF Climbs
  <2>4. w[n] = WalkStep(Cwd, "..")
    <3>1. w[n] = WalkStep(w[n - 1], a.segs[n])
      BY <2>1, <2>2, <2>3, WalkedEquation
    <3> QED
      BY <2>2, <2>3, <3>1
  <2>5. Place(a) = w[n]
    BY <1>3 DEF Place, Start
  <2>6. CASE Cwd = <<>>
    <3>1. Place(a) = Cwd
      BY <2>4, <2>5, <2>6 DEF WalkStep
    <3> QED
      BY <2>1, <3>1, PrefixMeans DEF Inside
  <2>7. CASE Cwd # <<>>
    BY <2>4, <2>5, <2>7 DEF WalkStep
  <2> QED
    BY <2>6, <2>7
<1> QED
  BY <1>1, <1>2, <1>3

(* DenialHasGround for one argument.                                       *)
LEMMA DeniedHasGround ==
  ASSUME NEW a, IsArgument(a), policy \in Policies, EvalPath(policy, Cwd, a) # "allow"
  PROVE  \/ ~Inside(a) \/ Leaves(a) \/ (a.abs /\ Cwd = <<>>)
         \/ Secret(Below(a)) \/ Closed(Below(a))
         \/ policy.allow # {} /\ \A d \in policy.allow : ~InDir(Below(a), d)
<1> SUFFICES ASSUME Inside(a), ~Leaves(a), ~(a.abs /\ Cwd = <<>>)
             PROVE  \/ Secret(Below(a)) \/ Closed(Below(a))
                    \/ policy.allow # {} /\ \A d \in policy.allow : ~InDir(Below(a), d)
  OBVIOUS
<1> DEFINE rel == NameOf(Below(a))
<1>1. Judged(a) = rel /\ Below(a) \in Paths
  BY JudgedIsBelow, BelowIsPath
<1>2. DeniedBy(policy.deny, rel) \/ DeniedBy(SecretGlobs, rel) \/ OutsideAllowed(policy, rel)
  BY <1>1, DenyMeans
<1>3. CASE DeniedBy(policy.deny, rel)
  <2>1. PICK g \in policy.deny : GlobMatch(g, rel)
    BY <1>3 DEF DeniedBy
  <2>2. g \in Seq(STRING) \ {<<>>}
    BY GateAssumption
  <2> QED
    BY <1>1, <2>1, <2>2, TakesMeans DEF Closed
<1>4. CASE DeniedBy(SecretGlobs, rel)
  BY <1>1, <1>4, SecretOnly
<1>5. CASE OutsideAllowed(policy, rel)
  <2>1. ASSUME NEW d \in policy.allow
        PROVE  ~InDir(Below(a), d)
    <3>1. d # <<>> /\ ~IsPrefix(d, rel)
      BY <1>5, <2>1 DEF OutsideAllowed, UnderDir
    <3>2. d \in Paths
      BY GateAssumption, StringsArePaths
    <3>3. CASE Below(a) = <<>>
      <4>1. Len(d) \in Nat \ {0} /\ Len(<<>>) = 0
        BY <3>1, <3>2, EmptySeq DEF Paths
      <4>2. ~IsPrefix(d, <<>>)
        BY <4>1 DEF IsPrefix
      <4> QED
        BY <3>3, <4>2 DEF InDir
    <3>4. CASE Below(a) # <<>>
      BY <3>1, <3>4 DEF InDir, NameOf
    <3> QED
      BY <3>3, <3>4
  <2>2. policy.allow # {}
    BY <1>5 DEF OutsideAllowed
  <2> QED
    BY <2>1, <2>2
<1> QED
  BY <1>2, <1>3, <1>4, <1>5

-----------------------------------------------------------------------------
(* The gate.                                                               *)

(* What the loop has passed over was allowed, if it counts as a path       *)
(* whatever other programs do.  A denial by the loop has an argument to    *)
(* show that was not allowed.                                              *)
Vetted ==
  stage = "arguments" \/ verdict = "pass" =>
    /\ \A a \in args \ todo : IsPath(a) => EvalPath(policy, Cwd, a) = "allow"
    /\ command = "check" => \A a \in args : ~Climbs(a)

Grounded ==
  verdict = "deny" => \/ refused
                      \/ \E a \in args : MaybePath(a) /\ EvalPath(policy, Cwd, a) # "allow"

GateInv == TypeOK /\ Vetted /\ (verdict = "pass" => todo = {}) /\ Grounded

(* The invariant holds at the start of a request.                          *)
LEMMA GateInvInit == Init => GateInv
<1> SUFFICES ASSUME Init
             PROVE  GateInv
  OBVIOUS
<1>1. TypeOK
  BY DEF Init, TypeOK
<1>2. stage = "request" /\ verdict = "none"
  BY DEF Init
<1> QED
  BY <1>1, <1>2 DEF GateInv, Vetted, Grounded

(* Every step of the gate and of other programs preserves the invariant.   *)
LEMMA GateInvNext == GateInv /\ [Next]_vars => GateInv'
<1> SUFFICES ASSUME GateInv, [Next]_vars
             PROVE  GateInv'
  OBVIOUS
<1> USE DEF GateInv, request, history
<1>1. CASE Broken
  BY <1>1 DEF Broken, ExitWith, TypeOK, Vetted, Grounded
<1>2. CASE Refuse
  BY <1>2 DEF Refuse, ExitWith, TypeOK, Vetted, Grounded
<1>3. CASE Accept
  BY <1>3 DEF Accept, TypeOK, Vetted, Grounded
<1>4. ASSUME NEW arg \in args, PassOver(arg)
      PROVE  GateInv'
  <2>1. TypeOK' /\ Grounded' /\ verdict' # "pass"
    BY <1>4 DEF PassOver, TypeOK, Grounded
  <2>2. IsPath(arg) => EvalPath(policy, Cwd, arg) = "allow"
    BY <1>4 DEF PassOver, Ignored, LooksLikePath, IsPath, TypeOK
  <2>3. Vetted'
    BY <1>4, <2>2 DEF PassOver, Vetted, IsPath
  <2> QED
    BY <2>1, <2>3
<1>5. ASSUME NEW arg \in args, Object(arg)
      PROVE  GateInv'
  <2>1. TypeOK' /\ Vetted' /\ verdict' = "deny"
    BY <1>5 DEF Object, ExitWith, TypeOK, Vetted
  <2>2. MaybePath(arg) /\ EvalPath(policy, Cwd, arg) # "allow"
    BY <1>5 DEF Object, Ignored, LooksLikePath, MaybePath, TypeOK
  <2>3. Grounded'
    BY <1>5, <2>2 DEF Object, Grounded, MaybePath
  <2> QED
    BY <2>1, <2>3
<1>6. CASE Pass
  BY <1>6 DEF Pass, ExitWith, TypeOK, Vetted, Grounded, IsPath
<1>7. ASSUME NEW name \in Entries, Appears(name)
      PROVE  GateInv'
  <2>1. TypeOK' /\ Vetted' /\ verdict' = "none"
    BY <1>7 DEF Appears, TypeOK, Vetted, IsPath
  <2> QED
    BY <2>1 DEF Grounded
<1>8. ASSUME NEW name \in Entries, Vanishes(name)
      PROVE  GateInv'
  <2>1. TypeOK' /\ verdict' = "none"
    BY <1>8 DEF Vanishes, TypeOK
  <2>2. Vetted'
    BY <1>8 DEF Vanishes, Vetted, IsPath
  <2> QED
    BY <2>1, <2>2 DEF Grounded
<1>9. CASE Exited \/ UNCHANGED vars
  BY <1>9 DEF Exited, vars, TypeOK, Vetted, Grounded, IsPath, MaybePath
<1> QED
  BY <1>1, <1>2, <1>3, <1>4, <1>5, <1>6, <1>7, <1>8, <1>9 DEF Next

(* So it always holds.                                                     *)
LEMMA GateInvariant == Spec => []GateInv
BY GateInvInit, GateInvNext, PTL DEF Spec

(* What the arguments are assumed to be is kept by TypeOK.                 *)
LEMMA ArgumentsAreArguments ==
  ASSUME TypeOK
  PROVE  policy \in Policies /\ \A a \in args : IsArgument(a)
<1>1. policy \in Policies /\ args \subseteq Arguments \cup Companions
  BY DEF TypeOK
<1> QED
  BY <1>1, GateAssumption, StringsArePaths DEF IsArgument

(* Every variable of a gate stays in its range, for any arguments.         *)
THEOREM GateTypeCorrect == Spec => []TypeOK
<1>1. GateInv => TypeOK
  BY DEF GateInv
<1> QED
  BY <1>1, GateInvariant, PTL

(* No spelling of a secret passes the gate, nor of what a deny_glob takes  *)
(* away: for paths of any length, any working directory and any policy.    *)
THEOREM SecretsStay == Spec => []NoSecretPasses
<1>1. GateInv => NoSecretPasses
  <2> SUFFICES ASSUME GateInv, verdict = "pass", NEW a \in args, IsPath(a), Inside(a)
               PROVE  ~Secret(Below(a)) /\ (Closed(Below(a)) => Leaves(a))
    BY DEF NoSecretPasses
  <2>1. EvalPath(policy, Cwd, a) = "allow" /\ policy \in Policies /\ IsArgument(a)
    BY ArgumentsAreArguments DEF GateInv, Vetted
  <2> QED
    BY <2>1, AllowedIsHarmless
<1> QED
  BY <1>1, GateInvariant, PTL

(* With named directories in allow_paths, what passes lies in one of them. *)
THEOREM AllowPathsHold == Spec => []StaysInAllowed
<1>1. GateInv => StaysInAllowed
  <2> SUFFICES ASSUME GateInv, verdict = "pass", policy.allow # {},
                      \A d \in policy.allow : Plain(d), NEW a \in args, IsPath(a)
               PROVE  Inside(a) /\ \E d \in policy.allow : InDir(Below(a), d)
    BY DEF StaysInAllowed
  <2>1. EvalPath(policy, Cwd, a) = "allow" /\ policy \in Policies /\ IsArgument(a)
    BY ArgumentsAreArguments DEF GateInv, Vetted
  <2> QED
    BY <2>1, AllowedIsInDirectory
<1> QED
  BY <1>1, GateInvariant, PTL

(* The check command passes nothing outside the working directory but its  *)
(* parent.                                                                 *)
THEOREM CheckKeepsInside == Spec => []CheckStaysInside
<1>1. GateInv => CheckStaysInside
  <2> SUFFICES ASSUME GateInv, verdict = "pass", command = "check", NEW a \in args, IsPath(a)
               PROVE  Inside(a) \/ Place(a) = Front(Cwd)
    BY DEF CheckStaysInside
  <2>1. EvalPath(policy, Cwd, a) = "allow" /\ IsArgument(a) /\ ~Climbs(a)
    BY ArgumentsAreArguments DEF GateInv, Vetted
  <2> QED
    BY <2>1, AllowedStaysInside
<1> QED
  BY <1>1, GateInvariant, PTL

(* Nothing is denied without a ground, whatever comes and goes meanwhile.  *)
THEOREM DenialsAreGrounded == Spec => []DenialHasGround
<1>1. GateInv => DenialHasGround
  <2> SUFFICES ASSUME GateInv, verdict = "deny", ~refused
               PROVE  DenialHasGround
    BY DEF DenialHasGround
  <2>1. PICK a \in args : MaybePath(a) /\ EvalPath(policy, Cwd, a) # "allow"
    BY DEF GateInv, Grounded
  <2>2. policy \in Policies /\ IsArgument(a)
    BY ArgumentsAreArguments DEF GateInv
  <2> QED
    BY <2>1, <2>2, DeniedHasGround DEF DenialHasGround
<1> QED
  BY <1>1, GateInvariant, PTL
==============================================================================
