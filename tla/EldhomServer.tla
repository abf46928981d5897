---------------------------- MODULE EldhomServer ----------------------------
(* EldhomServer (main.cpp): the GUI's commands, which the open windows hold    *)
(* back, and the loop that plays the monster groups' turns.  Both hold the     *)
(* server's mutex, so a step is a whole command or a whole group turn.         *)
EXTENDS Eldhom

\* The guards of handle_command, for a command that is not a state request.
Accepts(cmd) ==
  /\ pending # NoAttack => cmd \in {"react_defense", "play_instants"}
  /\ queue # <<>> => cmd = "resolve_formation"
  /\ window => cmd = "play_reactive_instants"

StartMission == Accepts("start_mission") /\ NewEngine

HeroCommand(h) ==
  \/ /\ Accepts("simple_action")
     /\ \/ \E l \in Locations : SimpleMove(h, l)
        \/ SimpleAttack(h)
        \/ SimpleInteract(h)
        \/ \E ids \in SUBSET Deck[h] : SimpleRecover(h, ids)
  \/ /\ Accepts("play_card")
     /\ \E c \in Playable(h) :
        \E dest \in (IF Card[c].move > 0 THEN Locations ELSE {store.area[h]}) :
        \E ids \in (IF Card[c].swap > 0 THEN SUBSET Deck[h] ELSE {{}}) :
        \E target \in CardTargets(h, Card[c], dest) \cup {Nobody} : PlayCard(h, c, dest, ids, target)
  \/ Accepts("declare_attack") /\ \E t \in Monsters : DeclareAttack(h, t)
  \/ Accepts("stop_sequence") /\ StopSequence(h)

Answering ==
  \/ Accepts("play_instants") /\ \E sel \in Selections("DAMAGED") : PlayInstants(sel)
  \/ Accepts("react_defense") /\ \E r \in {"TAKE", "BLOCK", "DODGE"} : ReactDefense(r)
  \/ Accepts("play_reactive_instants") /\ \E sel \in Selections("APPROACH") : PlayReactive(sel)
  \/ Accepts("resolve_formation") /\ queue # <<>>
       /\ \E back \in SUBSET Head(queue).actors : ResolveFormation(back)

DeckCommand(h) ==
  \/ Accepts("deck_draw") /\ DeckDraw(h)
  \/ Accepts("deck_discard") /\ \E c \in hands[h].hand : DeckDiscard(h, c)
  \/ Accepts("deck_take_discard") /\ DeckTakeDiscard(h)
  \/ Accepts("deck_reshuffle") /\ DeckReshuffle(h)

\* advance_auto, every 200 ms: it waits for the reactive window and for nothing else.
AdvanceAuto == ~window /\ \E g \in Groups : GroupTurn(g)

Next == StartMission \/ Answering \/ AdvanceAuto \/ \E h \in Heroes : HeroCommand(h) \/ DeckCommand(h)

Spec == Init /\ [][Next]_vars

-----------------------------------------------------------------------------
(* Whatever is drawn, swapped, played, spent as an instant or moved by the     *)
(* game master, each card of a hero's deck stays in exactly one zone.          *)
NoCardLost == \A h \in Heroes : InOneZone(hands[h], Deck[h])

(* At most one sequence is open, and its hero is on his feet: neither another  *)
(* hero's card nor a monster group's blow comes between the cards of one.      *)
SequenceKeepsTurn ==
  \A h \in Heroes : seq[h] => store.life[h] = "ACTIVE" /\ \A k \in Heroes : seq[k] => k = h

(* A turn whose end was put off is ended by a dialog still in the queue.       *)
DeferredTurnEnds == ends # Nobody => queue # <<>>

(* A mission with the condition in its file does not run on when there is      *)
(* nobody left to fight, or to act; a group leaves the timeline exactly when   *)
(* its last member has fallen (MissionEventSystem's notify functions).         *)
MissionDecided ==
  /\ \A g \in Groups : g \in store.gone <=> \A i \in 1..Len(Squad[g]) : store.life[Squad[g][i]] = "DEAD"
  /\ Elimination /\ store.gone = Groups => mission.outcome # "PLAYING"
  /\ LastStand /\ (\A h \in Heroes : store.life[h] # "ACTIVE") => mission.outcome # "PLAYING"

(* An open window can be answered: the command it waits for is accepted.       *)
WindowsAnswerable ==
  /\ pending # NoAttack => Accepts("react_defense")
  /\ queue # <<>> => Accepts("resolve_formation")
  /\ window => Accepts("play_reactive_instants")

=============================================================================
