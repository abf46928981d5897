------------------------------ MODULE CardRules ------------------------------
(***************************************************************************)
(* A player's card zones (gmAlea GmCompDeck), the rule groups of gmRules   *)
(* (RuleGroupRegistry) and the callback that couples them                  *)
(* (CardRuleBridge): playing a card switches its rules on, a card leaving  *)
(* play switches the rules of a transient group off.  Everything runs on   *)
(* the caller's thread; what the game may do between two moves of a card   *)
(* is the difficulty.                                                      *)
(*                                                                         *)
(* The game is the environment.  It is assumed to rebind, register and     *)
(* attach only while the cards concerned are out of play, to give a group  *)
(* to one card at a time unless SharedGroups, and to leave transient       *)
(* groups to the bridge: with less, nothing keeps a transient group in     *)
(* step with its card.  The order of the cards in a zone is left out: the  *)
(* card drawn is any card of the deck.                                     *)
(***************************************************************************)
EXTENDS Naturals, FiniteSets

CONSTANTS
    Tokens,         \* the cards of the player
    Groups,         \* the ids of rule groups
    NoGroup,        \* the empty id
    SharedGroups    \* whether two cards may be bound to one group

ASSUME NoGroupAssumption == NoGroup \notin Groups

VARIABLES
    zone,           \* GmCompDeck: the zone that holds each card
    groupOf,        \* GmCompDeck::_rule_group_map
    lifecycle,      \* RuleGroupRegistry::_registry: "NONE" if unregistered
    active,         \* RuleGroupRegistry::_active_groups
    bridged         \* the bridge is the deck's zone-change callback

vars == <<zone, groupOf, lifecycle, active, bridged>>

Zones == {"MAIN_DECK", "HAND", "PLAY_AREA", "MEMORY", "DISCARD", "BANISHED"}
Lifecycles == {"TRANSIENT", "PERSISTENT", "TRIGGER_BOUND"}

\* A plausible slip: the memory zone is forgotten.
PlayZoneOnly(z) == z = "PLAY_AREA"

\* detail::is_active_zone
IsActiveZone(z) == z \in {"PLAY_AREA", "MEMORY"}

InPlay(t) == zone[t] \in {"PLAY_AREA", "MEMORY"}
Settled(g) == \A t \in Tokens : groupOf[t] = g => ~InPlay(t)

Init ==
    /\ zone = [t \in Tokens |-> "MAIN_DECK"]
    /\ groupOf = [t \in Tokens |-> NoGroup]
    /\ lifecycle = [g \in Groups |-> "NONE"]
    /\ active = {}
    /\ bridged = FALSE

-----------------------------------------------------------------------------
(* The deck.                                                               *)

\* A plausible slip: the lifecycle is not asked when a card leaves play.
AfterMoveAnyLifecycle(g, from, to) ==
    IF IsActiveZone(to) THEN active \cup {g}
    ELSE IF IsActiveZone(from) THEN active \ {g} ELSE active

\* The bridge's decision for a registered group.
AfterMove(g, from, to) ==
    IF IsActiveZone(to) THEN active \cup {g}
    ELSE IF IsActiveZone(from) /\ lifecycle[g] = "TRANSIENT" THEN active \ {g}
    ELSE active

\* _fire_zone_change: the callback, and what the bridge lets through.
FireZoneChange(t, from, to) ==
    LET g == groupOf[t] IN
    active' = IF bridged /\ g # NoGroup /\ lifecycle[g] # "NONE"
              THEN AfterMove(g, from, to) ELSE active

\* The moves the deck offers: draw_specific_to_hand, play_card, resolve_card
\* and discard_from_table, discard_from_hand, take_from_discard,
\* return_from_discard_to_deck, the moves of the memory zone, and banish.
Moves ==
    {<<"MAIN_DECK", "HAND">>, <<"HAND", "PLAY_AREA">>, <<"PLAY_AREA", "DISCARD">>,
     <<"HAND", "DISCARD">>, <<"DISCARD", "HAND">>, <<"DISCARD", "MAIN_DECK">>,
     <<"HAND", "MEMORY">>, <<"PLAY_AREA", "MEMORY">>, <<"DISCARD", "MEMORY">>,
     <<"MEMORY", "PLAY_AREA">>, <<"MEMORY", "HAND">>, <<"MEMORY", "DISCARD">>}
    \cup {<<z, "BANISHED">> : z \in Zones \ {"BANISHED"}}

MoveCard(t, to) ==
    /\ <<zone[t], to>> \in Moves
    /\ zone' = [zone EXCEPT ![t] = to]
    /\ FireZoneChange(t, zone[t], to)
    /\ UNCHANGED <<groupOf, lifecycle, bridged>>

\* Several cards change between two zones that are not active, one callback
\* each: the bridge ignores every one.
MoveMany(S, to) ==
    /\ zone' = [t \in Tokens |-> IF t \in S THEN to ELSE zone[t]]
    /\ UNCHANGED <<groupOf, lifecycle, active, bridged>>

\* draw_to_hand(count) draws one by one and throws on an empty deck with the
\* cards drawn so far in the hand: any number of cards may have been drawn.
DrawToHand ==
    \E S \in (SUBSET {t \in Tokens : zone[t] = "MAIN_DECK"}) \ {{}} : MoveMany(S, "HAND")

\* reshuffle_discard_into_deck
ReshuffleDiscard == MoveMany({t \in Tokens : zone[t] = "DISCARD"}, "MAIN_DECK")

-----------------------------------------------------------------------------
(* The game's calls.                                                       *)

\* GmCompDeck::register_rule_group; an empty id unbinds.
Bind(t, g) ==
    /\ ~InPlay(t)
    /\ g = NoGroup \/ SharedGroups \/ \A u \in Tokens : groupOf[u] # g
    /\ groupOf' = [groupOf EXCEPT ![t] = g]
    /\ UNCHANGED <<zone, lifecycle, active, bridged>>

\* RuleGroupRegistry::register_group; a second registration throws.
RegisterGroup(g, l) ==
    /\ lifecycle[g] = "NONE" /\ Settled(g)
    /\ lifecycle' = [lifecycle EXCEPT ![g] = l]
    /\ UNCHANGED <<zone, groupOf, active, bridged>>

WithoutGroup(g) == active \ {g}

\* RuleGroupRegistry::unregister_group
UnregisterGroup(g) ==
    /\ lifecycle[g] # "NONE" /\ Settled(g)
    /\ active' = WithoutGroup(g)
    /\ lifecycle' = [lifecycle EXCEPT ![g] = "NONE"]
    /\ UNCHANGED <<zone, groupOf, bridged>>

\* RuleGroupRegistry::activate and deactivate, called by the game itself.
Switch(g) ==
    /\ lifecycle[g] \notin {"NONE", "TRANSIENT"}
    /\ active' \in {active \cup {g}, active \ {g}}
    /\ UNCHANGED <<zone, groupOf, lifecycle, bridged>>

\* CardRuleBridge::attach and detach
Attach ==
    /\ \A t \in Tokens : ~InPlay(t)
    /\ bridged' = ~bridged
    /\ UNCHANGED <<zone, groupOf, lifecycle, active>>

DeckStep == \/ \E t \in Tokens, to \in Zones : MoveCard(t, to)
            \/ DrawToHand \/ ReshuffleDiscard

GameStep ==
    \/ \E t \in Tokens, g \in Groups \cup {NoGroup} : Bind(t, g)
    \/ \E g \in Groups : \/ \E l \in Lifecycles : RegisterGroup(g, l)
                         \/ UnregisterGroup(g)
                         \/ Switch(g)
    \/ Attach

Next == DeckStep \/ GameStep

Spec == Init /\ [][Next]_vars

-----------------------------------------------------------------------------
TypeOK ==
    /\ zone \in [Tokens -> Zones]
    /\ groupOf \in [Tokens -> Groups \cup {NoGroup}]
    /\ lifecycle \in [Groups -> Lifecycles \cup {"NONE"}]
    /\ active \in SUBSET Groups
    /\ bridged \in BOOLEAN

\* The rules of a transient group apply exactly while its card is in play or
\* remembered, over any sequence of moves, rebindings, registrations and
\* attachments (RuleGroup.hpp's promise for TRANSIENT; CardRuleBridge.hpp).
TransientFollows ==
    \A g \in Groups : lifecycle[g] = "TRANSIENT" =>
        (g \in active <=> bridged /\ \E t \in Tokens : groupOf[t] = g /\ InPlay(t))

\* Only registered groups are active, so a group registered again starts
\* inactive, whatever became of its earlier life (RuleGroupRegistry.cpp).
ActiveRegistered == \A g \in active : lifecycle[g] # "NONE"

\* No move of a card ends a group that is not transient (CardRuleBridge.hpp).
PersistentStays ==
    [][zone' # zone =>
       \A g \in active : lifecycle[g] # "TRANSIENT" => g \in active']_vars
=============================================================================
