------------------------- MODULE MCSequentialSession -------------------------
(* Instances of SequentialSession for TLC. *)
EXTENDS SequentialSession

ThreeActors == <<"p1", "p2", "p3">>

Nested == <<"plain", "flow", "plain">>

BothLimits == [outer |-> 2, inner |-> 1]
==============================================================================
