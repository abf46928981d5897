------------------------------ MODULE HeroHand ------------------------------
(* The card zones of one hero of Eldhom (struct HeroHandState) and what the   *)
(* engine does to them.  A zone is the set of cards lying in it: every        *)
(* shuffle makes all orders possible, so a draw takes any card of the deck.   *)
EXTENDS Integers, FiniteSets

Zones(D) == [deck: SUBSET D, hand: SUBSET D, discard: SUBSET D, played: SUBSET D]

Choices(n, S) == {d \in SUBSET S : Cardinality(d) = n}

(* draw_n_cards: card after card, the discard pile becoming the deck whenever *)
(* a card is wanted from an empty deck, until no card is left.                *)
Draw(z, n) ==
  LET more == n - Cardinality(z.deck)
      left == Cardinality(z.discard)
  IN  IF more <= 0
      THEN {[z EXCEPT !.deck = z.deck \ d, !.hand = z.hand \cup d] : d \in Choices(n, z.deck)}
      ELSE {[z EXCEPT !.deck = z.discard \ d, !.discard = {}, !.hand = z.hand \cup z.deck \cup d]
              : d \in Choices(IF more < left THEN more ELSE left, z.discard)}

\* draw_to_hand: up to the hand limit; a hand above the limit is left alone.
DrawUp(z, limit) ==
  Draw(z, IF Cardinality(z.hand) < limit THEN limit - Cardinality(z.hand) ELSE 0)

\* discard_card for each of cs: a card that is not in the hand is passed over.
Discard(z, cs) == [z EXCEPT !.hand = z.hand \ cs, !.discard = z.discard \cup (cs \cap z.hand)]

\* Discard the chosen cards and draw as many.
Swap(z, cs) == Draw(Discard(z, cs), Cardinality(cs))

\* A played card waits in the played zone, if an effect has not taken it away.
Commit(z, c) == [z EXCEPT !.hand = z.hand \ {c}, !.played = z.played \cup ({c} \cap z.hand)]

\* Mutant: the played cards go to the discard pile and stay in the played zone.
TurnOverKept(z, limit) == DrawUp([z EXCEPT !.discard = z.discard \cup z.played], limit)

\* end_hero_turn: first the cards played this turn are discarded, then drawn up.
TurnOver(z, limit) == DrawUp([z EXCEPT !.discard = z.discard \cup z.played, !.played = {}], limit)

\* build_initial_hands.
Dealt(D, limit) == DrawUp([deck |-> D, hand |-> {}, discard |-> {}, played |-> {}], limit)

\* The game master's commands take_from_discard and reshuffle_discard.
TakeBack(z) == {[z EXCEPT !.hand = z.hand \cup {c}, !.discard = z.discard \ {c}] : c \in z.discard}
Reshuffled(z) == [z EXCEPT !.deck = z.deck \cup z.discard, !.discard = {}]

(* Every card of the hero's mission deck lies in exactly one of the zones.    *)
InOneZone(z, D) ==
  /\ z \in Zones(D)
  /\ z.deck \cup z.hand \cup z.discard \cup z.played = D
  /\ z.deck \cap z.hand = {} /\ z.deck \cap z.discard = {} /\ z.deck \cap z.played = {}
  /\ z.hand \cap z.discard = {} /\ z.hand \cap z.played = {} /\ z.discard \cap z.played = {}
=============================================================================
