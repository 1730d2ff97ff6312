-------------------------------- MODULE MCGate --------------------------------
(***************************************************************************)
(* Gate for TLC: every path of a few segments, under policies that use     *)
(* deny globs and allow_paths in every combination.                        *)
(***************************************************************************)
EXTENDS Gate

CONSTANTS Names, MaxSegments

MCWild == {<<"*.pem", "k.pem">>}
MCDotted == {".", "..", "k.pem"}

MCPaths == UNION {[1 .. n -> Names] : n \in 1 .. MaxSegments}
MCArguments == [flag : {FALSE}, abs : BOOLEAN, segs : MCPaths]

Arg(flag, segs) == [flag |-> flag, abs |-> FALSE, segs |-> segs]
MCCompanions == {Arg(TRUE, <<"..", "secrets">>), Arg(FALSE, <<"src">>)}

MCPolicies == [deny : {{}, {<<"src", "**">>}, {<<"src", "w">>}}, allow : {{}, {<<"src">>}, {DotPath}}]

MCWorkspace == <<"w">>
==============================================================================
