---------------------------- MODULE BoundedBuffer ----------------------------
(***************************************************************************)
(* The boundedBuffer of internal/sandbox/sandbox.go, which keeps the first *)
(* bytes of a stream up to its limit and swallows the rest.  Only amounts  *)
(* matter: what is kept is always a prefix of what was written to it.      *)
(***************************************************************************)
EXTENDS Naturals

CONSTANT Limit   \* MaxOutputBytes, for which NewSandbox has a positive default

ASSUME LimitAssumption == Limit \in Nat \ {0}

VARIABLES kept,       \* b.buf.Len()
          truncated   \* b.truncated, which String turns into a mark at the end

bufferVars == <<kept, truncated>>

BufferTypeOK == kept \in Nat /\ truncated \in BOOLEAN

BufferInit == kept = 0 /\ truncated = FALSE

Smaller(m, n) == IF m <= n THEN m ELSE n

(* Mutant: a chunk that fills the buffer exactly counts as cut.            *)
WriteMarkingFull(n) ==
  /\ kept' = kept + Smaller(n, Limit - kept)
  /\ truncated' = (truncated \/ n >= Limit - kept)

(* Write of n bytes: what still fits is kept and the rest is not, but all  *)
(* n are reported as written, so that the copier goes on.                  *)
Write(n) ==
  /\ kept' = kept + Smaller(n, Limit - kept)
  /\ truncated' = (truncated \/ n > Limit - kept)

(* After `total` bytes in chunks of any size, the limit is kept exactly    *)
(* and the mark is there if and only if something is missing.              *)
CapsAt(total) == kept = Smaller(total, Limit) /\ (truncated <=> total > Limit)
==============================================================================
