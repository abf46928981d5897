-------------------------- MODULE MCSessionRegistry --------------------------
(* Instances of SessionRegistry for TLC. *)
EXTENDS SessionRegistry

\* The seats of a tic-tac-toe match, and of a game for one.
TwoSeats == <<"X", "O">>
OneSeat == <<"player">>
=============================================================================
