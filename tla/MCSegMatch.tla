------------------------------ MODULE MCSegMatch ------------------------------
(***************************************************************************)
(* SegMatch for TLC: all patterns and names up to a bound.                 *)
(***************************************************************************)
EXTENDS SegMatch

CONSTANTS MaxPattern, MaxName,   \* the longest pattern and name
          NameSymbols            \* what names are made of

UpTo(S, n) == UNION {[1 .. m -> S] : m \in 0 .. n}

MCPatterns == UpTo(Symbols, MaxPattern)
MCNames == UpTo(NameSymbols, MaxName)
==============================================================================
