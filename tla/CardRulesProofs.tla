--------------------------- MODULE CardRulesProofs ---------------------------
(***************************************************************************)
(* While every rule group belongs to one card, a transient group is active *)
(* exactly while its card is in play, for any number of cards and groups.  *)
(***************************************************************************)
EXTENDS CardRules, TLAPS

\* No two cards are bound to one group.
OneCardEach ==
    \A t, u \in Tokens : groupOf[t] = groupOf[u] /\ groupOf[t] # NoGroup => t = u

\* The inductive invariant: uniqueness is what makes leaving play mean that no
\* card of the group is left there, and that only registered groups are active
\* is what makes a new registration start inactive.
IInv == TypeOK /\ OneCardEach /\ TransientFollows /\ ActiveRegistered

LEMMA InitCards == Init => IInv
<1> SUFFICES ASSUME Init PROVE IInv
  OBVIOUS
<1>1. TypeOK
  BY DEF Init, TypeOK, Zones
<1>2. OneCardEach /\ TransientFollows /\ ActiveRegistered
  BY DEF Init, OneCardEach, TransientFollows, ActiveRegistered
<1>3. QED
  BY <1>1, <1>2 DEF IInv

\* A card that enters or leaves play takes its transient group along.
LEMMA MoveCardKeeps ==
    ASSUME IInv, NEW t \in Tokens, NEW to \in Zones, MoveCard(t, to)
    PROVE  IInv'
<1> DEFINE g == groupOf[t]
<1>1. /\ zone' = [zone EXCEPT ![t] = to]
      /\ groupOf' = groupOf /\ lifecycle' = lifecycle /\ bridged' = bridged
      /\ active' = IF bridged /\ g # NoGroup /\ lifecycle[g] # "NONE"
                   THEN AfterMove(g, zone[t], to) ELSE active
  BY DEF MoveCard, FireZoneChange
<1>2. g # NoGroup => g \in Groups
  BY DEF IInv, TypeOK
<1>3. active' \in SUBSET Groups /\ \A h \in active' : lifecycle[h] # "NONE"
  BY <1>1, <1>2 DEF IInv, TypeOK, ActiveRegistered, AfterMove
<1>4. TypeOK'
  BY <1>1, <1>3 DEF IInv, TypeOK
<1>5. OneCardEach' /\ ActiveRegistered'
  BY <1>1, <1>3 DEF IInv, OneCardEach, ActiveRegistered
<1>6. \A u \in Tokens : zone'[u] = IF u = t THEN to ELSE zone[u]
  BY <1>1 DEF IInv, TypeOK
<1>7. ASSUME NEW h \in Groups, lifecycle[h] = "TRANSIENT"
      PROVE  h \in active' <=> bridged /\ \E u \in Tokens : groupOf[u] = h /\ InPlay(u)'
  <2>1. h \in active <=> bridged /\ \E u \in Tokens : groupOf[u] = h /\ InPlay(u)
    BY <1>7 DEF IInv, TransientFollows
  <2>2. CASE h # g
    <3>1. h \in active' <=> h \in active
      BY <1>1, <2>2 DEF AfterMove
    <3>2. \A u \in Tokens : groupOf[u] = h => (InPlay(u)' <=> InPlay(u))
      BY <1>6, <2>2 DEF InPlay
    <3>3. QED
      BY <2>1, <3>1, <3>2
  <2>3. CASE h = g
    <3>1. g # NoGroup /\ lifecycle[g] = "TRANSIENT"
      BY <1>7, <2>3, NoGroupAssumption
    <3>2. \A u \in Tokens : groupOf[u] = h <=> u = t
      BY <2>3, <3>1 DEF IInv, OneCardEach
    <3>3. InPlay(t)' <=> to \in {"PLAY_AREA", "MEMORY"}
      BY <1>6 DEF InPlay
    <3>4. h \in active <=> bridged /\ InPlay(t)
      BY <2>1, <3>2
    <3>5. h \in active' <=> bridged /\ InPlay(t)'
      BY <1>1, <2>3, <3>1, <3>3, <3>4 DEF AfterMove, IsActiveZone, InPlay
    <3>6. QED
      BY <3>2, <3>5
  <2>4. QED
    BY <2>2, <2>3
<1>8. TransientFollows'
  BY <1>1, <1>7 DEF TransientFollows
<1>9. QED
  BY <1>4, <1>5, <1>8 DEF IInv

\* Cards that change zones out of play disturb nothing.
LEMMA MoveManyKeeps ==
    ASSUME IInv, NEW S, NEW from \in {"MAIN_DECK", "DISCARD"}, NEW to \in {"MAIN_DECK", "HAND"},
           \A t \in S : t \in Tokens /\ zone[t] = from, MoveMany(S, to)
    PROVE  IInv'
<1>1. \A t \in Tokens : InPlay(t)' <=> InPlay(t)
  BY DEF MoveMany, InPlay
<1>2. TypeOK'
  BY DEF MoveMany, IInv, TypeOK, Zones
<1>3. QED
  BY <1>1, <1>2 DEF MoveMany, IInv, OneCardEach, TransientFollows, ActiveRegistered

LEMMA DeckKeeps ==
    ASSUME IInv, DeckStep
    PROVE  IInv'
<1>1. CASE \E t \in Tokens, to \in Zones : MoveCard(t, to)
  BY <1>1, MoveCardKeeps
<1>2. CASE DrawToHand
  BY <1>2, MoveManyKeeps DEF DrawToHand
<1>3. CASE ReshuffleDiscard
  BY <1>3, MoveManyKeeps DEF ReshuffleDiscard
<1>4. QED
  BY <1>1, <1>2, <1>3 DEF DeckStep

\* A card out of play may change its group: neither group has a card in play.
LEMMA BindKeeps ==
    ASSUME ~SharedGroups, IInv, NEW t \in Tokens, NEW g \in Groups \cup {NoGroup}, Bind(t, g)
    PROVE  IInv'
<1>1. /\ ~InPlay(t) /\ (g = NoGroup \/ \A u \in Tokens : groupOf[u] # g)
      /\ groupOf' = [groupOf EXCEPT ![t] = g]
      /\ UNCHANGED <<zone, lifecycle, active, bridged>>
  BY DEF Bind
<1>2. \A u \in Tokens : groupOf'[u] = IF u = t THEN g ELSE groupOf[u]
  BY <1>1 DEF IInv, TypeOK
<1>3. TypeOK'
  BY <1>1 DEF IInv, TypeOK
<1>4. OneCardEach'
  BY <1>1, <1>2 DEF IInv, OneCardEach
<1>5. \A u \in Tokens : InPlay(u)' <=> InPlay(u)
  BY <1>1 DEF InPlay
<1>6. \A h \in Groups : (\E u \in Tokens : groupOf'[u] = h /\ InPlay(u))
                        <=> \E u \in Tokens : groupOf[u] = h /\ InPlay(u)
  BY <1>1, <1>2
<1>7. TransientFollows' /\ ActiveRegistered'
  BY <1>1, <1>5, <1>6 DEF IInv, TransientFollows, ActiveRegistered
<1>8. QED
  BY <1>3, <1>4, <1>7 DEF IInv

LEMMA RegisterKeeps ==
    ASSUME IInv, NEW g \in Groups, NEW l \in Lifecycles, RegisterGroup(g, l)
    PROVE  IInv'
<1>1. g \notin active
  BY DEF RegisterGroup, IInv, ActiveRegistered
<1>2. \A h \in Groups : lifecycle'[h] = IF h = g THEN l ELSE lifecycle[h]
  BY DEF RegisterGroup, IInv, TypeOK
<1>3. TypeOK'
  BY DEF RegisterGroup, IInv, TypeOK
<1>4. TransientFollows'
  BY <1>1, <1>2 DEF RegisterGroup, Settled, IInv, TransientFollows, InPlay
<1>5. ActiveRegistered'
  BY <1>1, <1>2 DEF RegisterGroup, IInv, ActiveRegistered, TypeOK
<1>6. QED
  BY <1>3, <1>4, <1>5 DEF IInv, RegisterGroup, OneCardEach

LEMMA UnregisterKeeps ==
    ASSUME IInv, NEW g \in Groups, UnregisterGroup(g)
    PROVE  IInv'
<1>1. active' = active \ {g}
  BY DEF UnregisterGroup, WithoutGroup
<1>2. \A h \in Groups : lifecycle'[h] = IF h = g THEN "NONE" ELSE lifecycle[h]
  BY DEF UnregisterGroup, IInv, TypeOK
<1>3. TypeOK'
  BY <1>1 DEF UnregisterGroup, IInv, TypeOK
<1>4. TransientFollows'
  BY <1>1, <1>2 DEF UnregisterGroup, IInv, TransientFollows, InPlay
<1>5. ActiveRegistered'
  BY <1>1, <1>2 DEF IInv, ActiveRegistered, TypeOK
<1>6. QED
  BY <1>3, <1>4, <1>5 DEF IInv, UnregisterGroup, OneCardEach

LEMMA SwitchKeeps ==
    ASSUME IInv, NEW g \in Groups, Switch(g)
    PROVE  IInv'
<1>1. TypeOK' /\ OneCardEach'
  BY DEF Switch, IInv, TypeOK, OneCardEach
<1>2. TransientFollows' /\ ActiveRegistered'
  BY DEF Switch, IInv, TransientFollows, ActiveRegistered, InPlay
<1>3. QED
  BY <1>1, <1>2 DEF IInv

\* With every card out of play no transient group is active, so the callback
\* may come and go.
LEMMA AttachKeeps ==
    ASSUME IInv, Attach
    PROVE  IInv'
<1>1. TypeOK'
  BY DEF Attach, IInv, TypeOK
<1>2. QED
  BY <1>1 DEF Attach, IInv, OneCardEach, TransientFollows, ActiveRegistered, InPlay

LEMMA NextCards == ~SharedGroups /\ IInv /\ [Next]_vars => IInv'
<1> SUFFICES ASSUME ~SharedGroups, IInv, [Next]_vars PROVE IInv'
  OBVIOUS
<1>1. ASSUME GameStep PROVE IInv'
  BY <1>1, BindKeeps, RegisterKeeps, UnregisterKeeps, SwitchKeeps, AttachKeeps DEF GameStep
<1>2. ASSUME UNCHANGED vars PROVE IInv'
  BY <1>2 DEF vars, IInv, TypeOK, OneCardEach, TransientFollows, ActiveRegistered, InPlay
<1>3. QED
  BY <1>1, <1>2, DeckKeeps DEF Next

\* A transient group with one card is active exactly while the bridge is
\* attached and the card is in play or remembered (CardRuleBridge.hpp,
\* RuleGroupRegistry.cpp, GmCompDeck.cpp).
THEOREM TransientAlwaysFollows == ~SharedGroups /\ Spec => []TransientFollows
<1>1. IInv => TransientFollows
  BY DEF IInv
<1>2. ASSUME ~SharedGroups PROVE Spec => []TransientFollows
  BY <1>1, <1>2, InitCards, NextCards, PTL DEF Spec
<1>3. QED
  BY <1>2

\* Only registered groups are ever active (RuleGroupRegistry.cpp).
THEOREM AlwaysRegistered == ~SharedGroups /\ Spec => []ActiveRegistered
<1>1. IInv => ActiveRegistered
  BY DEF IInv
<1>2. ASSUME ~SharedGroups PROVE Spec => []ActiveRegistered
  BY <1>1, <1>2, InitCards, NextCards, PTL DEF Spec
<1>3. QED
  BY <1>2

\* A move of a card never ends a group that is not transient
\* (CardRuleBridge.hpp).
THEOREM PersistentAlwaysStays == Spec => PersistentStays
<1>1. [Next]_vars =>
         [zone' # zone => \A g \in active : lifecycle[g] # "TRANSIENT" => g \in active']_vars
  <2> SUFFICES ASSUME [Next]_vars, zone' # zone,
                      NEW g \in active, lifecycle[g] # "TRANSIENT"
               PROVE  g \in active'
    OBVIOUS
  <2>1. ASSUME NEW t \in Tokens, NEW to \in Zones, MoveCard(t, to) PROVE g \in active'
    BY <2>1 DEF MoveCard, FireZoneChange, AfterMove
  <2>2. ASSUME NEW S, NEW to, MoveMany(S, to) PROVE g \in active'
    BY <2>2 DEF MoveMany
  <2>3. ASSUME GameStep PROVE FALSE
    BY <2>3 DEF GameStep, Bind, RegisterGroup, UnregisterGroup, Switch, Attach
  <2>4. QED
    BY <2>1, <2>2, <2>3 DEF Next, DeckStep, DrawToHand, ReshuffleDiscard, vars
<1>2. QED
  BY <1>1, PTL DEF Spec, PersistentStays
=============================================================================
