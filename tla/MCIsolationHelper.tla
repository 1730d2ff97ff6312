-------------------------- MODULE MCIsolationHelper --------------------------
(***************************************************************************)
(* IsolationHelper for TLC: a home directory with a workspace and a cache, *)
(* the command's temporary home, system directories and a device.          *)
(***************************************************************************)
EXTENDS IsolationHelper, TLC

MCDirs == {"home", "work", "cache", "temp", "usr", "null"}

MCContains == {<<d, d>> : d \in MCDirs} \cup {<<"home", "work">>, <<"home", "cache">>}

(* The working directory is an allowed directory, as paldron exec has it,  *)
(* or lies in one, as Execute permits.                                     *)
Request(allowed, cwd, network, isGo) ==
  [allowed |-> {allowed, "temp"}, caches |-> {"cache"}, cwd |-> cwd, network |-> network,
   isGo |-> isGo]

MCRequests ==
  {Request(place[1], place[2], network, FALSE) :
     place \in {<<"home", "home">>, <<"work", "work">>, <<"home", "work">>},
     network \in BOOLEAN}
  \cup {Request("work", "work", network, TRUE) : network \in BOOLEAN}

Symmetry == Permutations(Threads)

MCAsked == [cpu |-> 5, core |-> 0]
MCDefault == [cpu |-> 9, core |-> 0]
MCInherited == [cpu |-> 3, core |-> 7]
==============================================================================
