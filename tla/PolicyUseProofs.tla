--------------------------- MODULE PolicyUseProofs ---------------------------
(***************************************************************************)
(* Proofs about PolicyUse, for integers of any width and any policy files. *)
(***************************************************************************)
EXTENDS PolicyUse, TLAPS

(* Go's wrap-around stays in its range, leaves alone what is in it, and    *)
(* never makes a natural number larger.                                    *)
LEMMA WrapFacts ==
  ASSUME NEW half \in Nat \ {0}, NEW x \in Int
  PROVE  /\ Wrap(half, x) \in -half..(half - 1)
         /\ x \in -half..(half - 1) => Wrap(half, x) = x
         /\ x >= 0 => Wrap(half, x) <= x
<1> DEFINE n == 2 * half
           a == x + half
<1>1. n \in Nat \ {0} /\ a \in Int
  OBVIOUS
<1>2. a % n \in 0..(n - 1)
  BY <1>1
<1>3. a \in 0..(n - 1) => a % n = a
  BY <1>1
<1>4. a >= 0 => a % n <= a
  BY <1>1, <1>2, <1>3
<1> QED
  BY <1>2, <1>3, <1>4 DEF Wrap

(* What the constants are, without their sets.                             *)
LEMMA ConstantFacts ==
  /\ IntHalf \in Nat \ {0} /\ LongHalf \in Nat \ {0} /\ IntHalf <= LongHalf
  /\ Second \in Nat \ {0} /\ MegaByte \in Nat \ {0} /\ Grace \in Nat \ {0}
  /\ DefaultTimeout \in Nat \ {0} /\ DefaultTimeout < IntHalf
  /\ One \in Nat \ {0} /\ JevDefault \in Nat \ {0} /\ JevDefault <= One
  /\ \A k \in Kinds : Default[k] \in Nat \ {0}
  /\ \A k \in Kinds : SandboxDefault[k] = Default[k] * Unit(k) /\ SandboxDefault[k] < LongHalf
BY PolicyUseAssumption

(* What a limit counts, and what a policy asks of it.                      *)
Asked(k) == IntOr(file.limits[k], Default[k]) * Unit(k)

(* The timeout a policy asks for.                                         *)
Period == IntOr(file.timeout, DefaultTimeout)

(* What the settings of a file are.                                        *)
LEMMA FileFacts ==
  ASSUME file \in FileType
  PROVE  /\ \A k \in Kinds : file.limits[k] \in Int /\ file.limits[k] < IntHalf
         /\ Period \in Nat \ {0} /\ Period < IntHalf
         /\ file.isolation \in BOOLEAN /\ file.jev \in BOOLEAN
         /\ file.threshold \in Int \cup {NaN}
<1>1. file.limits \in [Kinds -> Ints] /\ file.timeout \in Ints
  BY DEF FileType
<1>2. IntHalf \in Int
  BY ConstantFacts
<1>3. \A v \in Ints : v \in Int /\ v < IntHalf
  BY <1>2 DEF Ints
<1>4. \A k \in Kinds : file.limits[k] \in Ints
  BY <1>1
<1>5. Period \in Nat \ {0} /\ Period < IntHalf
  BY <1>1, <1>3, ConstantFacts DEF IntOr, Period
<1>6. file.isolation \in BOOLEAN /\ file.jev \in BOOLEAN
  BY DEF FileType
<1>7. file.threshold \in Int \cup {NaN}
  BY DEF FileType
<1> QED
  BY <1>3, <1>4, <1>5, <1>6, <1>7

(* Units and defaults are positive.                                        *)
LEMMA UnitFacts ==
  ASSUME NEW k \in Kinds
  PROVE  Unit(k) \in Nat \ {0} /\ SandboxDefault[k] \in Nat \ {0}
<1>1. Unit(k) \in Nat \ {0}
  BY ConstantFacts DEF Unit
<1>2. SandboxDefault[k] = Default[k] * Unit(k) /\ Default[k] \in Nat \ {0}
  BY ConstantFacts
<1>3. \A x, y \in Nat \ {0} : x * y \in Nat \ {0}
  OBVIOUS
<1> QED
  BY <1>1, <1>2, <1>3

(* A policy asks for a positive limit, of time for one that is not lost.   *)
LEMMA AskedFacts ==
  ASSUME file \in FileType, NEW k \in Kinds
  PROVE  /\ Asked(k) \in Nat \ {0}
         /\ k = "cpu" => Asked(k) < LongHalf
<1>1. IntOr(file.limits[k], Default[k]) \in Nat \ {0}
  BY FileFacts, ConstantFacts DEF IntOr
<1>2. Unit(k) \in Nat \ {0}
  BY UnitFacts
<1>3. \A x, y \in Nat \ {0} : x * y \in Nat \ {0}
  OBVIOUS
<1>4. Asked(k) \in Nat \ {0}
  BY <1>1, <1>2, <1>3 DEF Asked
<1>5. ASSUME k = "cpu" PROVE Asked(k) < LongHalf
  <2>1. Unit(k) = 1 /\ Default[k] = SandboxDefault[k]
    <3>1. Unit(k) = 1
      BY <1>5 DEF Unit
    <3>2. SandboxDefault[k] = Default[k] * Unit(k) /\ Default[k] \in Nat
      BY ConstantFacts
    <3> QED  BY <3>1, <3>2
  <2>2. Default[k] < LongHalf /\ file.limits[k] < LongHalf /\ file.limits[k] \in Int
    BY <2>1, FileFacts, ConstantFacts
  <2>3. Asked(k) = IntOr(file.limits[k], Default[k])
    BY <1>1, <2>1 DEF Asked
  <2> QED  BY <2>2, <2>3 DEF IntOr
<1> QED
  BY <1>4, <1>5

-----------------------------------------------------------------------------
(* The inductive invariant.                                                *)

(* A limit that NewSandbox has let through.                                *)
Settled(k) ==
  /\ limits[k] > 0
  /\ limits[k] <= Asked(k)
  /\ Asked(k) < LongHalf => limits[k] = Asked(k)

LimitsOnTheirWay ==
  /\ stage = "sandbox" => \A k \in Kinds : limits[k] = Wrap(LongHalf, Asked(k))
  /\ stage = "helper" => \A k \in Kinds : Settled(k)

(* The judgement is what was read from the reply.                          *)
Judged ==
  \/ reply = Failed /\ judgement = Failed
  \/ reply \in Answers /\ judgement = Decode(reply)

JudgedAsLoaded ==
  /\ stage # "answered" => verdict = "none"
  /\ stage \notin {"load", "answered"} => ~Invalid(file)
  /\ stage = "asked" => Judged /\ file.jev

IInv ==
  /\ TypeOK
  /\ LimitsOnTheirWay /\ LimitsFollowPolicy
  /\ DeadlineFollowsPolicy
  /\ JudgedAsLoaded /\ ReportedRiskIsDenied

(* The invariant holds when paldron starts.                                *)
LEMMA InitEstablishes == Init => IInv
<1> SUFFICES ASSUME Init PROVE IInv
  OBVIOUS
<1>1. TypeOK
  <2>1. file \in FileType
    BY PolicyUseAssumption DEF Init
  <2>2. 0 \in -LongHalf..(LongHalf - 1)
    BY ConstantFacts
  <2> QED  BY <2>1, <2>2 DEF Init, TypeOK
<1>2. LimitsOnTheirWay /\ LimitsFollowPolicy /\ DeadlineFollowsPolicy
  BY DEF Init, LimitsOnTheirWay, LimitsFollowPolicy, DeadlineFollowsPolicy
<1>3. JudgedAsLoaded /\ ReportedRiskIsDenied
  BY DEF Init, JudgedAsLoaded, ReportedRiskIsDenied
<1> QED
  BY <1>1, <1>2, <1>3 DEF IInv

(* Steps that leave the settings, the limits and the deadline alone and    *)
(* do not enter a stage that says something about them.                    *)
LEMMA LimitsUntouched ==
  ASSUME IInv, UNCHANGED <<settings, limits, deadline>>,
         stage' = stage \/ stage' \in {"load", "configure", "answered"}
           \/ (stage = "judge" /\ stage' = "asked")
  PROVE  LimitsOnTheirWay' /\ LimitsFollowPolicy' /\ DeadlineFollowsPolicy'
<1> USE DEF IInv, settings
<1>1. LimitsOnTheirWay'
  BY DEF LimitsOnTheirWay, Settled, Asked
<1>2. LimitsFollowPolicy'
  BY DEF LimitsFollowPolicy
<1>3. DeadlineFollowsPolicy'
  BY DEF DeadlineFollowsPolicy
<1> QED
  BY <1>1, <1>2, <1>3

(* Configure converts what the policy asks for.                            *)
LEMMA ConfigurePreserves ==
  ASSUME IInv, Configure
  PROVE  IInv'
<1> USE DEF IInv, Configure, settings
<1>1. file \in FileType
  BY DEF TypeOK
<1>2. \A k \in Kinds : limits'[k] = Wrap(LongHalf, Asked(k))
  BY DEF Asked
<1>3. \A k \in Kinds : limits'[k] \in -LongHalf..(LongHalf - 1)
  BY <1>1, <1>2, AskedFacts, WrapFacts, ConstantFacts
<1>4. TypeOK'
  <2>1. limits' \in [Kinds -> -LongHalf..(LongHalf - 1)]
    BY <1>3
  <2> QED  BY <2>1 DEF TypeOK
<1>5. LimitsOnTheirWay' /\ LimitsFollowPolicy' /\ DeadlineFollowsPolicy'
  BY <1>2 DEF LimitsOnTheirWay, LimitsFollowPolicy, DeadlineFollowsPolicy, Asked
<1>6. JudgedAsLoaded' /\ ReportedRiskIsDenied'
  BY DEF JudgedAsLoaded, ReportedRiskIsDenied, Invalid
<1> QED
  BY <1>4, <1>5, <1>6

(* NewSandbox settles the limits: what wrapped to nothing gets a default,  *)
(* which is smaller than what was asked for.                               *)
LEMMA NewSandboxSettles ==
  ASSUME file \in FileType, NEW c, \A k \in Kinds : c[k] = Wrap(LongHalf, Asked(k)),
         NEW k \in Kinds
  PROVE  LET l == NewSandbox(c)[k]
         IN  /\ l \in 1..(LongHalf - 1)
             /\ l <= Asked(k)
             /\ Asked(k) < LongHalf => l = Asked(k)
<1> DEFINE w == Wrap(LongHalf, Asked(k))
           default == IF k = "cpu" THEN Period ELSE SandboxDefault[k]
           l == IntOr(w, default)
<1>1. NewSandbox(c)[k] = l
  BY DEF NewSandbox, Period
<1>2. Asked(k) \in Nat \ {0} /\ (k = "cpu" => Asked(k) < LongHalf)
  BY AskedFacts
<1>3. /\ w \in -LongHalf..(LongHalf - 1)
      /\ w <= Asked(k)
      /\ Asked(k) < LongHalf => w = Asked(k)
  BY <1>2, WrapFacts, ConstantFacts
<1>4. k # "cpu" => default \in Nat \ {0} /\ default < LongHalf
  BY UnitFacts, ConstantFacts
<1>5. l = IF w <= 0 THEN default ELSE w
  BY DEF IntOr
<1>6. w \in Int /\ LongHalf \in Nat /\ Asked(k) \in Nat
  BY <1>2, <1>3, ConstantFacts
<1>7. w <= 0 => Asked(k) >= LongHalf /\ k # "cpu"
  <2> HIDE DEF w
  <2> QED  BY <1>2, <1>3, <1>6
<1> HIDE DEF w, default, l
<1>8. /\ l \in 1..(LongHalf - 1)
      /\ l <= Asked(k)
      /\ Asked(k) < LongHalf => l = Asked(k)
  <2>1. CASE w <= 0
    BY <1>4, <1>5, <1>6, <1>7, <2>1
  <2>2. CASE ~(w <= 0)
    BY <1>3, <1>5, <1>6, <2>2
  <2> QED  BY <2>1, <2>2
<1> QED
  BY <1>1, <1>8

(* The two contexts give the command the time of the policy.               *)
LEMMA TimeoutFollowsPolicy ==
  ASSUME NEW t \in Nat \ {0}
  PROVE  /\ Timeout(t) \in -LongHalf..(LongHalf - 1)
         /\ Timeout(t) <= t * Second
         /\ t + Grace < IntHalf /\ (t + Grace) * Second < LongHalf => Timeout(t) = t * Second
<1> DEFINE outer == Wrap(IntHalf, t + Grace)
           x == Wrap(LongHalf, outer * Second)
           y == Wrap(LongHalf, t * Second)
<1>1. Timeout(t) = IF x <= y THEN x ELSE y
  BY DEF Timeout, Earlier
<1>2. t * Second \in Nat /\ outer \in Int /\ outer * Second \in Int
  BY WrapFacts, ConstantFacts
<1>3. x \in -LongHalf..(LongHalf - 1) /\ y \in -LongHalf..(LongHalf - 1) /\ y <= t * Second
  <2> DEFINE a == outer * Second
             b == t * Second
  <2>1. LongHalf \in Nat \ {0} /\ a \in Int /\ b \in Int /\ b >= 0
    BY <1>2, ConstantFacts
  <2> HIDE DEF a, b
  <2>2. Wrap(LongHalf, a) \in -LongHalf..(LongHalf - 1)
    BY <2>1, WrapFacts
  <2>3. Wrap(LongHalf, b) \in -LongHalf..(LongHalf - 1) /\ Wrap(LongHalf, b) <= b
    BY <2>1, WrapFacts
  <2> QED  BY <2>2, <2>3 DEF a, b
<1>4. ASSUME t + Grace < IntHalf, (t + Grace) * Second < LongHalf
      PROVE  Timeout(t) = t * Second
  <2>1. outer = t + Grace
    BY <1>4, WrapFacts, ConstantFacts
  <2>2. (t + Grace) * Second = t * Second + Grace * Second /\ Grace * Second \in Nat
    BY ConstantFacts
  <2>3. x = (t + Grace) * Second
    BY <1>2, <1>4, <2>1, <2>2, WrapFacts, ConstantFacts
  <2>4. y = t * Second
    <3>1. t * Second < LongHalf /\ -LongHalf <= t * Second
      BY <1>2, <1>4, <2>2, ConstantFacts
    <3>2. t * Second \in -LongHalf..(LongHalf - 1)
      BY <1>2, <3>1, ConstantFacts
    <3> QED  BY <1>2, <3>2, WrapFacts, ConstantFacts
  <2> HIDE DEF x, y, outer
  <2> QED  BY <1>1, <1>2, <2>2, <2>3, <2>4
<1> HIDE DEF x, y, outer
<1> QED
  BY <1>1, <1>2, <1>3, <1>4, ConstantFacts

(* EnterSandbox, with NewSandbox and the contexts.                         *)
LEMMA EnterSandboxPreserves ==
  ASSUME IInv, EnterSandbox
  PROVE  IInv'
<1> USE DEF IInv, settings
<1>1. file \in FileType /\ stage = "sandbox"
  BY DEF TypeOK, EnterSandbox
<1>2. UNCHANGED <<settings, reply, judgement>>
  BY DEF EnterSandbox
<1>3. JudgedAsLoaded' /\ ReportedRiskIsDenied'
  BY <1>1, <1>2 DEF EnterSandbox, Answer, JudgedAsLoaded, ReportedRiskIsDenied, Invalid
<1>4. CASE file.isolation /\ system = "windows"
  <2>1. Answer("broken") /\ UNCHANGED <<limits, deadline>>
    BY <1>4 DEF EnterSandbox
  <2>2. TypeOK'
    BY <1>2, <2>1 DEF TypeOK, Answer
  <2>3. stage' = "answered"
    BY <2>1 DEF Answer
  <2> QED  BY <1>2, <1>3, <2>1, <2>2, <2>3, LimitsUntouched
<1>5. CASE ~(file.isolation /\ system = "windows")
  <2>1. /\ stage' = IF file.isolation /\ system = "linux" THEN "helper" ELSE "judge"
        /\ limits' = NewSandbox(limits)
        /\ deadline' = Timeout(Period)
        /\ UNCHANGED verdict
    BY <1>5 DEF EnterSandbox, Period
  <2>2. \A k \in Kinds : limits[k] = Wrap(LongHalf, Asked(k))
    BY <1>1 DEF LimitsOnTheirWay
  <2>3. \A k \in Kinds : /\ limits'[k] \in 1..(LongHalf - 1)
                         /\ limits'[k] <= Asked(k)
                         /\ Asked(k) < LongHalf => limits'[k] = Asked(k)
    BY <1>1, <2>1, <2>2, NewSandboxSettles
  <2>4. Period \in Nat \ {0} /\ Period' = Period
    BY <1>1, <1>2, FileFacts DEF Period
  <2>5. TypeOK'
    <3>1. DOMAIN limits' = Kinds /\ limits' = [k \in Kinds |-> limits'[k]]
      BY <2>1 DEF NewSandbox
    <3> HIDE DEF IInv
    <3>2. \A k \in Kinds : limits'[k] \in -LongHalf..(LongHalf - 1)
      <4>1. \A v \in 1..(LongHalf - 1) : v \in -LongHalf..(LongHalf - 1)
        BY ConstantFacts
      <4>2. \A k \in Kinds : limits'[k] \in 1..(LongHalf - 1)
        BY <2>3
      <4> QED  BY <4>1, <4>2
    <3>3. limits' \in [Kinds -> -LongHalf..(LongHalf - 1)]
      BY <3>1, <3>2
    <3>4. deadline' \in -LongHalf..(LongHalf - 1)
      BY <2>1, <2>4, TimeoutFollowsPolicy
    <3> QED  BY <1>2, <2>1, <3>3, <3>4 DEF TypeOK, IInv
  <2>6. LimitsOnTheirWay'
    <3>1. \A k \in Kinds : Asked(k)' = Asked(k)
      BY <1>2 DEF Asked
    <3>2. \A k \in Kinds : Settled(k)'
      <4>1. \A v \in 1..(LongHalf - 1) : v > 0
        BY ConstantFacts
      <4>2. \A k \in Kinds : limits'[k] > 0
        BY <2>3, <4>1
      <4> QED  BY <2>3, <3>1, <4>2 DEF Settled
    <3> QED  BY <2>1, <3>2 DEF LimitsOnTheirWay
  <2>7. LimitsFollowPolicy'
    BY <1>2, <2>1 DEF LimitsFollowPolicy
  <2>8. DeadlineFollowsPolicy'
    BY <1>2, <2>1, <2>4, TimeoutFollowsPolicy DEF DeadlineFollowsPolicy, Period
  <2> QED  BY <1>3, <2>5, <2>6, <2>7, <2>8
<1> QED
  BY <1>4, <1>5

(* The helper lowers a limit to what was inherited and changes no other.   *)
LEMMA ApplyPreserves ==
  ASSUME IInv, ApplyResourceLimits
  PROVE  IInv'
<1> USE DEF IInv, settings
<1>1. file \in FileType /\ stage = "helper" /\ stage' = "judge"
  BY DEF TypeOK, ApplyResourceLimits
<1>2. UNCHANGED <<settings, deadline, reply, judgement, verdict>>
  BY DEF ApplyResourceLimits
<1>3. \A k \in Kinds : Settled(k) /\ limits[k] \in -LongHalf..(LongHalf - 1)
                        /\ (hard[k] \in Nat \/ hard[k] = Unlimited)
  BY <1>1, PolicyUseAssumption DEF LimitsOnTheirWay, TypeOK
<1>4. \A k \in Kinds : limits'[k] = InForce(k, limits[k])
  <2>1. \A k \in Kinds : IntOr(limits[k], SandboxDefault[k]) = limits[k]
    BY <1>3, ConstantFacts DEF IntOr, Settled
  <2> QED  BY <2>1 DEF ApplyResourceLimits
<1>5. \A k \in Kinds :
        /\ limits'[k] \in 0..(LongHalf - 1)
        /\ limits'[k] <= Asked(k)
        /\ hard[k] # Unlimited => limits'[k] <= hard[k]
        /\ Asked(k) < LongHalf => limits'[k] \in {Asked(k), hard[k]}
        /\ limits'[k] > 0 \/ limits'[k] = hard[k]
  <2> SUFFICES ASSUME NEW k \in Kinds
               PROVE  /\ limits'[k] \in 0..(LongHalf - 1)
                      /\ limits'[k] <= Asked(k)
                      /\ hard[k] # Unlimited => limits'[k] <= hard[k]
                      /\ Asked(k) < LongHalf => limits'[k] \in {Asked(k), hard[k]}
                      /\ limits'[k] > 0 \/ limits'[k] = hard[k]
    OBVIOUS
  <2>1. limits[k] \in 1..(LongHalf - 1) /\ limits[k] <= Asked(k) /\ Asked(k) \in Nat
        /\ (Asked(k) < LongHalf => limits[k] = Asked(k))
    BY <1>1, <1>3, AskedFacts, ConstantFacts DEF Settled
  <2>2. CASE hard[k] # Unlimited /\ limits[k] > hard[k]
    <3>1. limits'[k] = hard[k] /\ hard[k] \in Nat
      BY <1>3, <1>4, <2>2 DEF InForce
    <3> QED  BY <2>1, <2>2, <3>1, ConstantFacts
  <2>3. CASE ~(hard[k] # Unlimited /\ limits[k] > hard[k])
    <3>1. limits'[k] = limits[k]
      BY <1>4, <2>3 DEF InForce
    <3>2. hard[k] # Unlimited => hard[k] \in Nat /\ limits[k] <= hard[k]
      BY <1>3, <2>1, <2>3, ConstantFacts
    <3> QED  BY <2>1, <3>1, <3>2, ConstantFacts
  <2> QED  BY <2>2, <2>3
<1>6. TypeOK'
  <2>1. limits' = [k \in Kinds |-> limits'[k]]
    BY DEF ApplyResourceLimits
  <2>2. \A k \in Kinds : limits'[k] \in -LongHalf..(LongHalf - 1)
    BY <1>5, ConstantFacts
  <2>3. limits' \in [Kinds -> -LongHalf..(LongHalf - 1)]
    BY <2>1, <2>2
  <2> QED  BY <1>1, <1>2, <2>3 DEF TypeOK
<1>7. LimitsFollowPolicy'
  BY <1>2, <1>5 DEF LimitsFollowPolicy, Asked
<1>8. LimitsOnTheirWay'
  BY <1>1 DEF LimitsOnTheirWay
<1>9. DeadlineFollowsPolicy'
  BY <1>1, <1>2 DEF DeadlineFollowsPolicy
<1>10. JudgedAsLoaded' /\ ReportedRiskIsDenied'
  BY <1>1, <1>2 DEF JudgedAsLoaded, ReportedRiskIsDenied, Invalid
<1> QED
  BY <1>6, <1>7, <1>8, <1>9, <1>10

(* A failure is not a judgement.                                           *)
LEMMA DecodeFacts ==
  ASSUME NEW r \in Answers
  PROVE  /\ r # Failed
         /\ (\E q \in Questions : r[q] = Missing) => Decode(r) = Failed
         /\ (\A q \in Questions : r[q] # Missing) =>
              /\ Decode(r) \in [Questions -> Int]
              /\ Decode(r) # Failed
              /\ \A q \in Questions : r[q] # Empty => r[q] \in Int /\ Decode(r)[q] = r[q]
<1>1. Reported \subseteq Int
  BY PolicyUseAssumption
<1>2. \A f \in [Questions -> Int \cup {Missing, Empty}] : f # Failed
  BY PolicyUseAssumption
<1>3. \A q \in Questions : r[q] \in Int \cup {Missing, Empty}
  BY <1>1 DEF Answers
<1>4. r # Failed
  BY <1>1, <1>2 DEF Answers
<1>5. ASSUME \A q \in Questions : r[q] # Missing
      PROVE  /\ Decode(r) = [q \in Questions |-> IF r[q] = Empty THEN 0 ELSE r[q]]
             /\ Decode(r) \in [Questions -> Int]
  <2>1. Decode(r) = [q \in Questions |-> IF r[q] = Empty THEN 0 ELSE r[q]]
    BY <1>5 DEF Decode
  <2>2. \A q \in Questions : (IF r[q] = Empty THEN 0 ELSE r[q]) \in Int
    BY <1>3, <1>5
  <2> QED  BY <2>1, <2>2
<1>6. [Questions -> Int] \subseteq [Questions -> Int \cup {Missing, Empty}]
  OBVIOUS
<1>7. ASSUME \A q \in Questions : r[q] # Missing
      PROVE  /\ Decode(r) # Failed
             /\ \A q \in Questions : r[q] # Empty => r[q] \in Int /\ Decode(r)[q] = r[q]
  BY <1>2, <1>3, <1>5, <1>6, <1>7
<1>8. (\E q \in Questions : r[q] = Missing) => Decode(r) = Failed
  BY DEF Decode
<1> QED
  BY <1>4, <1>5, <1>7, <1>8

(* The reply comes in.                                                     *)
LEMMA ReplyPreserves ==
  ASSUME IInv, JudgementFails \/ \E r \in Answers : JudgeOutput(r)
  PROVE  IInv'
<1> USE DEF IInv, settings
<1>1. /\ UNCHANGED <<settings, limits, deadline, verdict>>
      /\ stage = "judge" /\ stage' = "asked" /\ file.jev
      /\ \/ reply' = Failed /\ judgement' = Failed
         \/ reply' \in Answers /\ judgement' = Decode(reply')
  BY DEF JudgementFails, JudgeOutput
<1>2. judgement' \in [Questions -> Int] \cup {None, Failed}
  BY <1>1, DecodeFacts DEF Decode
<1>3. TypeOK'
  BY <1>1, <1>2 DEF TypeOK
<1>4. JudgedAsLoaded'
  <2>1. Judged'
    BY <1>1 DEF Judged, Answers, Decode
  <2> QED  BY <1>1, <2>1 DEF JudgedAsLoaded, Invalid
<1>5. ReportedRiskIsDenied'
  BY <1>1 DEF ReportedRiskIsDenied, JudgedAsLoaded
<1> QED
  BY <1>1, <1>3, <1>4, <1>5, LimitsUntouched

(* The comparison with the threshold.                                      *)
LEMMA VerdictPreserves ==
  ASSUME IInv, JevOutputVerdict
  PROVE  IInv'
<1> USE DEF IInv, settings
<1>1. /\ UNCHANGED <<settings, limits, deadline, reply, judgement>>
      /\ stage = "asked" /\ stage' = "answered" /\ verdict' \in {"allow", "deny"}
  BY DEF JevOutputVerdict, Answer
<1>2. TypeOK'
  BY <1>1 DEF TypeOK
<1>3. JudgedAsLoaded'
  BY <1>1 DEF JudgedAsLoaded
<1>4. ReportedRiskIsDenied'
  <2> SUFFICES ASSUME verdict' = "allow" PROVE ReportedRiskIsDenied'
    BY DEF ReportedRiskIsDenied
  <2>1. Judged /\ ~Invalid(file)
    BY <1>1 DEF JudgedAsLoaded
  <2>2. IF judgement = Failed THEN file.onError = "allow"
        ELSE \A q \in Questions : ~Reaches(judgement[q], Threshold)
    BY DEF JevOutputVerdict, Answer
  <2>3. CASE reply = Failed
    <3>1. judgement = Failed
      BY <2>1, <2>3, DecodeFacts DEF Judged
    <3> QED  BY <1>1, <2>2, <2>3, <3>1 DEF ReportedRiskIsDenied
  <2>4. CASE reply # Failed /\ \E q \in Questions : reply[q] = Missing
    <3>1. judgement = Failed
      BY <2>1, <2>4 DEF Judged, Decode
    <3> QED  BY <1>1, <2>2, <2>4, <3>1 DEF ReportedRiskIsDenied
  <2>5. CASE reply # Failed /\ \A q \in Questions : reply[q] # Missing
    <3>1. reply \in Answers /\ judgement = Decode(reply)
      BY <2>1, <2>5 DEF Judged
    <3>2. /\ judgement # Failed
          /\ \A q \in Questions : reply[q] # Empty => reply[q] \in Int /\ judgement[q] = reply[q]
      BY <2>5, <3>1, DecodeFacts
    <3>3. file.threshold \in Int \cup {NaN}
      BY FileFacts DEF TypeOK
    <3>4. NaN \notin Int
      BY PolicyUseAssumption
    <3>5. ASSUME file.threshold # NaN, NEW q \in Questions, reply[q] # Empty
          PROVE  reply[q] < (IF file.threshold > 0 THEN file.threshold ELSE JevDefault)
      <4>1. file.threshold \in Int
        BY <3>3, <3>5
      <4>2. Threshold = (IF file.threshold > 0 THEN file.threshold ELSE JevDefault)
        BY <3>4, <3>5, <4>1 DEF Threshold, Less
      <4>3. Threshold \in Int
        BY <4>1, <4>2, ConstantFacts
      <4>4. reply[q] \in Int /\ ~Reaches(reply[q], Threshold)
        BY <2>2, <3>2, <3>5
      <4>5. reply[q] < Threshold
        BY <3>4, <4>3, <4>4 DEF Reaches, Less
      <4> QED  BY <4>2, <4>5
    <3> QED  BY <1>1, <2>5, <3>5 DEF ReportedRiskIsDenied
  <2> QED  BY <2>3, <2>4, <2>5
<1> QED
  BY <1>1, <1>2, <1>3, <1>4, LimitsUntouched

(* Every step keeps the invariant.                                         *)
LEMMA StepPreserves == IInv /\ [Next]_vars => IInv'
<1> SUFFICES ASSUME IInv, [Next]_vars PROVE IInv'
  OBVIOUS
<1>1. CASE LoadPolicy
  <2> USE <1>1 DEF IInv, LoadPolicy, Answer, settings
  <2>1. /\ stage = "load" /\ stage' \in {"configure", "answered"} /\ verdict' \in {"none", "broken"}
        /\ stage' = "configure" => ~Invalid(file) /\ verdict' = "none"
    BY DEF JudgedAsLoaded
  <2>2. TypeOK'
    BY <2>1 DEF TypeOK
  <2>3. JudgedAsLoaded' /\ ReportedRiskIsDenied'
    BY <2>1 DEF JudgedAsLoaded, ReportedRiskIsDenied, Invalid
  <2> QED  BY <2>1, <2>2, <2>3, LimitsUntouched
<1>2. CASE RunFails \/ NotJudged
  <2> USE <1>2 DEF IInv, RunFails, NotJudged, Answer, settings
  <2>1. /\ stage = "judge" /\ stage' = "answered" /\ verdict' \in {"allow", "deny", "broken"}
        /\ verdict' = "allow" => ~file.jev
        /\ UNCHANGED <<settings, limits, deadline, reply, judgement>>
    OBVIOUS
  <2>2. TypeOK'
    BY <2>1 DEF TypeOK
  <2>3. JudgedAsLoaded' /\ ReportedRiskIsDenied'
    BY <2>1 DEF JudgedAsLoaded, ReportedRiskIsDenied
  <2> QED  BY <2>1, <2>2, <2>3, LimitsUntouched
<1>3. CASE UNCHANGED vars
  BY <1>3 DEF vars, settings, IInv, TypeOK, LimitsOnTheirWay, Settled, Asked, LimitsFollowPolicy,
              DeadlineFollowsPolicy, JudgedAsLoaded, Judged, Answers, Decode, Invalid, ReportedRiskIsDenied
<1> QED
  BY <1>1, <1>2, <1>3, ConfigurePreserves, EnterSandboxPreserves, ApplyPreserves,
     ReplyPreserves, VerdictPreserves DEF Next, Answered

(* The types, for integers of any width.                                   *)
THEOREM TypeCorrect == Spec => []TypeOK
<1>1. IInv => TypeOK
  BY DEF IInv
<1> QED
  BY <1>1, InitEstablishes, StepPreserves, PTL DEF Spec

(* The limits in force are those of the policy, or less.                   *)
THEOREM LimitsFollow == Spec => []LimitsFollowPolicy
<1>1. IInv => LimitsFollowPolicy
  BY DEF IInv
<1> QED
  BY <1>1, InitEstablishes, StepPreserves, PTL DEF Spec

(* The command has the time of the policy, or less.                        *)
THEOREM DeadlineFollows == Spec => []DeadlineFollowsPolicy
<1>1. IInv => DeadlineFollowsPolicy
  BY DEF IInv
<1> QED
  BY <1>1, InitEstablishes, StepPreserves, PTL DEF Spec

(* A number that reaches the threshold of the policy, or the default where *)
(* it has none, is never followed by exit 0, and no reply or a reply that  *)
(* leaves a question out only where the policy tolerates it.               *)
THEOREM RiskDenied == Spec => []ReportedRiskIsDenied
<1>1. IInv => ReportedRiskIsDenied
  BY DEF IInv
<1> QED
  BY <1>1, InitEstablishes, StepPreserves, PTL DEF Spec
==============================================================================
