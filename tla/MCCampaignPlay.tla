--------------------------- MODULE MCCampaignPlay ---------------------------
(* Instances of CampaignPlay for TLC. *)
EXTENDS CampaignPlay

TwoActors == <<"hero", "foe">>
Ranks == [hero |-> 0, foe |-> 1]

Starts == {[hero |-> 0, foe |-> 0], [hero |-> 1, foe |-> 0]}

Marks == {"first", "often", "late", "far"}
MarkAt == [first |-> 1, often |-> 2, late |-> 3, far |-> 4]
NearBy == <<"far", "first", "often">>
Quiet == [add |-> <<>>, remove |-> {}]
\* The first milestone registers the last of the session, beyond all that are
\* due with it, and the second removes one that is still to come.
SafeCallbacks == [first |-> [add |-> <<"late">>, remove |-> {}],
                  often |-> [add |-> <<>>, remove |-> {4}],
                  late |-> Quiet, far |-> Quiet]

Scenarios == <<"intro", "keep", "finale">>
Prerequisites == [intro |-> {}, keep |-> {"intro"}, finale |-> {"intro", "keep"}]
=============================================================================
