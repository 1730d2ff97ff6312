----------------------------- MODULE MCPolicyUse -----------------------------
(***************************************************************************)
(* PolicyUse for TLC: integers of six bits, a second of two nanoseconds, a *)
(* megabyte of four bytes, and policy files that vary in one limit, in the *)
(* timeout or in the settings of Jev.                                      *)
(***************************************************************************)
EXTENDS PolicyUse

Plain == [sound |-> TRUE, isolation |-> TRUE, limits |-> [k \in Kinds |-> 0], timeout |-> 0,
          jev |-> FALSE, threshold |-> 0, onError |-> ""]

MCPolicyFiles ==
  {[Plain EXCEPT !.limits[k] = v] : k \in Kinds, v \in Ints}
  \cup {[Plain EXCEPT !.timeout = t, !.isolation = i] : t \in Ints, i \in BOOLEAN}
  \cup {[Plain EXCEPT !.sound = s, !.jev = TRUE, !.threshold = p, !.onError = e] :
          s \in BOOLEAN, p \in -1..(One + 1) \cup {NaN}, e \in {"", "deny", "allow", "other"}}

MCReported == -1..(One + 1)

MCDefault == [k \in Kinds |-> IF k = "processes" THEN 7 ELSE 3]

MCSandboxDefault == [k \in Kinds |-> MCDefault[k] * Unit(k)]

MCHardLimits == {[k \in Kinds |-> h] : h \in {Unlimited, 0, 2, 9}}
==============================================================================
