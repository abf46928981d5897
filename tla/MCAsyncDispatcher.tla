-------------------------- MODULE MCAsyncDispatcher --------------------------
(***************************************************************************)
(* AsyncDispatcher on small instances: with SyncRouter's matching, the     *)
(* exact typeId and "*".                                                   *)
(***************************************************************************)
EXTENDS AsyncDispatcher, TLC

CONSTANTS c1, c2, tick, chA, chB

MCMatches == [t \in Types |-> {t, "*"} \cap Keys]
SyncMatches == [t \in {tick} |-> {tick, "*"}]

Symmetry == Permutations(Clients) \cup Permutations(Channels)
==============================================================================
