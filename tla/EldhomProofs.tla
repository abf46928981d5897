---------------------------- MODULE EldhomProofs ----------------------------
(* For every mission, that is for any heroes, decks, cards, hand limits, rooms *)
(* and monsters: no card of a hero's deck is ever lost or doubled, a sequence  *)
(* of cards is not torn apart, a turn whose end was put off can end, and the   *)
(* mission is decided when a side has fallen whose fall its file speaks of.    *)
(*                                                                             *)
(* The turns lean on the store (StoreOK, Settled), on the mission being        *)
(* decided by the very steps that let an actor fall, and on the windows: the   *)
(* parked attack is of actors that are there, the hero of an open sequence     *)
(* stands, and a deferred end of turn has a dialog in the queue (TurnInv).     *)
EXTENDS EldhomServer, WellFoundedInduction, TLAPS

-----------------------------------------------------------------------------
(* What the operations of one hero's zones preserve. *)

\* Moving cards between zones one way or the other keeps them in one zone each.
LEMMA DrawKeeps ==
  ASSUME NEW D, NEW z, InOneZone(z, D), NEW n, NEW y \in Draw(z, n)
  PROVE  InOneZone(y, D)
<1> DEFINE more == n - Cardinality(z.deck)
<1> DEFINE left == Cardinality(z.discard)
<1>1. z \in Zones(D)
  BY DEF InOneZone
<1>2. CASE more <= 0
  <2>1. PICK d \in SUBSET z.deck : y = [z EXCEPT !.deck = z.deck \ d, !.hand = z.hand \cup d]
    BY <1>2 DEF Draw, Choices
  <2>2. y \in Zones(D) /\ y.deck = z.deck \ d /\ y.hand = z.hand \cup d
        /\ y.discard = z.discard /\ y.played = z.played
    BY <1>1, <2>1 DEF Zones
  <2>3. QED
    BY <2>2 DEF InOneZone
<1>3. CASE ~(more <= 0)
  <2>1. PICK d \in SUBSET z.discard :
          y = [z EXCEPT !.deck = z.discard \ d, !.discard = {}, !.hand = z.hand \cup z.deck \cup d]
    BY <1>3 DEF Draw, Choices
  <2>2. y \in Zones(D) /\ y.deck = z.discard \ d /\ y.hand = z.hand \cup z.deck \cup d
        /\ y.discard = {} /\ y.played = z.played
    BY <1>1, <2>1 DEF Zones
  <2>3. QED
    BY <2>2 DEF InOneZone
<1>4. QED
  BY <1>2, <1>3

LEMMA DiscardKeeps ==
  ASSUME NEW D, NEW z, InOneZone(z, D), NEW cs
  PROVE  InOneZone(Discard(z, cs), D)
<1> DEFINE y == Discard(z, cs)
<1>1. y \in Zones(D) /\ y.hand = z.hand \ cs /\ y.discard = z.discard \cup (cs \cap z.hand)
      /\ y.deck = z.deck /\ y.played = z.played
  BY DEF InOneZone, Zones, Discard
<1>2. QED
  BY <1>1 DEF InOneZone

LEMMA SwapKeeps ==
  ASSUME NEW D, NEW z, InOneZone(z, D), NEW cs, NEW y \in Swap(z, cs)
  PROVE  InOneZone(y, D)
  BY DiscardKeeps, DrawKeeps DEF Swap

LEMMA CommitKeeps ==
  ASSUME NEW D, NEW z, InOneZone(z, D), NEW c
  PROVE  InOneZone(Commit(z, c), D)
<1> DEFINE y == Commit(z, c)
<1>1. y \in Zones(D) /\ y.hand = z.hand \ {c} /\ y.played = z.played \cup ({c} \cap z.hand)
      /\ y.deck = z.deck /\ y.discard = z.discard
  BY DEF InOneZone, Zones, Commit
<1>2. QED
  BY <1>1 DEF InOneZone

LEMMA TurnOverKeeps ==
  ASSUME NEW D, NEW z, InOneZone(z, D), NEW limit, NEW y \in TurnOver(z, limit)
  PROVE  InOneZone(y, D)
<1> DEFINE w == [z EXCEPT !.discard = z.discard \cup z.played, !.played = {}]
<1>1. w \in Zones(D) /\ w.discard = z.discard \cup z.played /\ w.played = {}
      /\ w.deck = z.deck /\ w.hand = z.hand
  BY DEF InOneZone, Zones
<1>2. InOneZone(w, D)
  BY <1>1 DEF InOneZone
<1>3. QED
  BY <1>2, DrawKeeps DEF TurnOver, DrawUp

LEMMA DealtKeeps ==
  ASSUME NEW D, NEW limit, NEW y \in Dealt(D, limit)
  PROVE  InOneZone(y, D)
<1> DEFINE w == [deck |-> D, hand |-> {}, discard |-> {}, played |-> {}]
<1>1. InOneZone(w, D)
  BY DEF InOneZone, Zones
<1>2. QED
  BY <1>1, DrawKeeps DEF Dealt, DrawUp

LEMMA MasterKeeps ==
  ASSUME NEW D, NEW z, InOneZone(z, D)
  PROVE  InOneZone(Reshuffled(z), D) /\ \A y \in TakeBack(z) : InOneZone(y, D)
<1>1. InOneZone(Reshuffled(z), D)
  <2> DEFINE y == Reshuffled(z)
  <2>1. y \in Zones(D) /\ y.deck = z.deck \cup z.discard /\ y.discard = {}
        /\ y.hand = z.hand /\ y.played = z.played
    BY DEF InOneZone, Zones, Reshuffled
  <2>2. QED
    BY <2>1 DEF InOneZone
<1>2. ASSUME NEW y \in TakeBack(z) PROVE InOneZone(y, D)
  <2>1. PICK c \in z.discard : y = [z EXCEPT !.hand = z.hand \cup {c}, !.discard = z.discard \ {c}]
    BY DEF TakeBack
  <2>2. y \in Zones(D) /\ y.hand = z.hand \cup {c} /\ y.discard = z.discard \ {c}
        /\ y.deck = z.deck /\ y.played = z.played
    BY <2>1 DEF InOneZone, Zones
  <2>3. QED
    BY <2>1, <2>2 DEF InOneZone
<1>3. QED
  BY <1>1, <1>2

-----------------------------------------------------------------------------
(* The heroes' hands. *)

\* The inductive invariant: every hero, and nobody else, has a hand.
HandsOK == hands = [h \in Heroes |-> hands[h]] /\ NoCardLost

\* A change of one hero's zones; of somebody who is no hero it is no change.
LEMMA OneHandKeeps ==
  ASSUME HandsOK, NEW h, NEW y, h \in Heroes => InOneZone(y, Deck[h]),
         hands' = [hands EXCEPT ![h] = y]
  PROVE  HandsOK'
<1>1. \A k \in Heroes : hands'[k] = IF k = h THEN y ELSE hands[k]
  BY DEF HandsOK
<1>2. hands' = [k \in Heroes |-> hands'[k]]
  BY DEF HandsOK
<1>3. QED
  BY <1>1, <1>2 DEF HandsOK, NoCardLost

LEMMA FreshKeeps ==
  ASSUME hands' \in FreshHands
  PROVE  HandsOK'
  BY DealtKeeps DEF FreshHands, HandsOK, NoCardLost

LEMMA EndTurnKeeps ==
  ASSUME HandsOK, NEW h, NEW z, h \in Heroes => InOneZone(z, Deck[h]), EndTurn(h, z)
  PROVE  HandsOK'
<1>1. PICK y \in TurnOver(z, HandLimit[h]) : hands' = [hands EXCEPT ![h] = y]
  BY DEF EndTurn
<1>2. h \in Heroes => InOneZone(y, Deck[h])
  BY <1>1, TurnOverKeeps
<1>3. QED
  BY <1>1, <1>2, OneHandKeeps

LEMMA ConcludeKeeps ==
  ASSUME HandsOK, NEW h, NEW z, h \in Heroes => InOneZone(z, Deck[h]), NEW q, Conclude(h, z, q)
  PROVE  HandsOK'
<1>1. CASE EndTurn(h, z)
  BY <1>1, EndTurnKeeps
<1>2. CASE hands' = [hands EXCEPT ![h] = z]
  BY <1>2, OneHandKeeps
<1>3. QED
  BY <1>1, <1>2 DEF Conclude

LEMMA SimpleActionKeeps ==
  ASSUME HandsOK, NEW h, NEW st, NEW z, NEW ms, NEW cost,
         h \in Heroes => InOneZone(z, Deck[h]), SimpleAction(h, st, z, ms, cost)
  PROVE  HandsOK'
  BY ConcludeKeeps DEF SimpleAction

LEMMA SpentKeeps ==
  ASSUME HandsOK, NEW sel, hands' = Spent(sel)
  PROVE  HandsOK'
<1>1. \A h \in Heroes : hands'[h] =
        Discard(hands[h], {sel[i][2] : i \in {j \in DOMAIN sel : sel[j][1] = h}})
  BY DEF Spent
<1>2. hands' = [h \in Heroes |-> hands'[h]]
  BY DEF Spent
<1>3. ASSUME NEW h \in Heroes PROVE InOneZone(hands'[h], Deck[h])
  <2> DEFINE cs == {sel[i][2] : i \in {j \in DOMAIN sel : sel[j][1] = h}}
  <2>1. InOneZone(hands[h], Deck[h]) /\ hands'[h] = Discard(hands[h], cs)
    BY <1>1 DEF HandsOK, NoCardLost
  <2> HIDE DEF cs
  <2>2. QED
    BY <2>1, DiscardKeeps
<1>4. QED
  BY <1>2, <1>3 DEF HandsOK, NoCardLost

LEMMA AfterCardKeeps ==
  ASSUME HandsOK, NEW h \in Heroes, NEW card, NEW z, InOneZone(z, Deck[h]),
         NEW st, NEW ids, NEW target, AfterCard(h, card, z, st, ids, target)
  PROVE  HandsOK'
<1>1. CASE \E y \in Swap(z, ids) \cup {z} : hands' = [hands EXCEPT ![h] = y]
  BY <1>1, SwapKeeps, OneHandKeeps
<1>2. CASE EndTurn(h, z)
  BY <1>2, EndTurnKeeps
<1>3. QED
  BY <1>1, <1>2 DEF AfterCard

LEMMA PlayCardKeeps ==
  ASSUME HandsOK, NEW h \in Heroes, NEW c, NEW dest, NEW ids, NEW target,
         PlayCard(h, c, dest, ids, target)
  PROVE  HandsOK'
<1>1. PICK st, swap :
        \E z1 \in Draw(hands[h], Card[c].draw) : \E z2 \in Swap(z1, swap) :
          AfterCard(h, Card[c], Commit(z2, c), st, ids, target)
  BY DEF PlayCard
<1>2. PICK z1 \in Draw(hands[h], Card[c].draw) : \E z2 \in Swap(z1, swap) :
          AfterCard(h, Card[c], Commit(z2, c), st, ids, target)
  BY <1>1
<1>3. PICK z2 \in Swap(z1, swap) : AfterCard(h, Card[c], Commit(z2, c), st, ids, target)
  BY <1>2
<1>4. InOneZone(z1, Deck[h])
  BY DrawKeeps DEF HandsOK, NoCardLost
<1>5. InOneZone(Commit(z2, c), Deck[h])
  BY <1>4, SwapKeeps, CommitKeeps
<1>6. QED
  BY <1>3, <1>5, AfterCardKeeps

LEMMA DeckCommandKeeps ==
  ASSUME HandsOK, NEW h \in Heroes, DeckCommand(h)
  PROVE  HandsOK'
<1>1. PICK y : InOneZone(y, Deck[h]) /\ hands' = [hands EXCEPT ![h] = y]
  <2>1. InOneZone(hands[h], Deck[h])
    BY DEF HandsOK, NoCardLost
  <2>2. QED
    BY <2>1, DrawKeeps, DiscardKeeps, MasterKeeps
    DEF DeckCommand, DeckDraw, DeckDiscard, DeckTakeDiscard, DeckReshuffle, Deal
<1>2. QED
  BY <1>1, OneHandKeeps

LEMMA HeroCommandKeeps ==
  ASSUME HandsOK, NEW h \in Heroes, HeroCommand(h)
  PROVE  HandsOK'
<1>1. InOneZone(hands[h], Deck[h])
  BY DEF HandsOK, NoCardLost
<1>2. ASSUME NEW l, SimpleMove(h, l) PROVE HandsOK'
  BY <1>1, <1>2, SimpleActionKeeps DEF SimpleMove
<1>3. ASSUME SimpleAttack(h) PROVE HandsOK'
  BY <1>1, <1>3, SimpleActionKeeps DEF SimpleAttack
<1>4. ASSUME SimpleInteract(h) PROVE HandsOK'
  BY <1>1, <1>4, SimpleActionKeeps DEF SimpleInteract
<1>5. ASSUME NEW ids, SimpleRecover(h, ids) PROVE HandsOK'
  BY <1>1, <1>5, SwapKeeps, SimpleActionKeeps DEF SimpleRecover
<1>6. ASSUME NEW t, DeclareAttack(h, t) PROVE HandsOK'
  BY <1>6 DEF DeclareAttack, HandsOK, NoCardLost
<1>7. ASSUME StopSequence(h) PROVE HandsOK'
  BY <1>1, <1>7, EndTurnKeeps DEF StopSequence
<1>8. QED
  BY <1>2, <1>3, <1>4, <1>5, <1>6, <1>7, PlayCardKeeps DEF HeroCommand

LEMMA AnsweringKeeps ==
  ASSUME HandsOK, Answering
  PROVE  HandsOK'
<1>1. ASSUME NEW sel, PlayInstants(sel) \/ PlayReactive(sel) PROVE HandsOK'
  BY <1>1, SpentKeeps DEF PlayInstants, PlayReactive
<1>2. \A h \in Heroes : InOneZone(hands[h], Deck[h])
  BY DEF HandsOK, NoCardLost
<1>3. ASSUME NEW r, ReactDefense(r) PROVE HandsOK'
  <2>1. PICK q : Conclude(pending.by, hands[pending.by], q)
    BY <1>3 DEF ReactDefense
  <2>2. QED
    BY <1>2, <2>1, ConcludeKeeps
<1>4. ASSUME NEW back, ResolveFormation(back) PROVE HandsOK'
  <2>1. CASE EndTurn(ends, hands[ends])
    BY <1>2, <2>1, EndTurnKeeps
  <2>2. CASE UNCHANGED hands
    BY <2>2 DEF HandsOK, NoCardLost
  <2>3. QED
    BY <1>4, <2>1, <2>2 DEF ResolveFormation
<1>5. QED
  BY <1>1, <1>3, <1>4 DEF Answering

(* Whatever the heroes play, swap, spend or recover, whatever the game master  *)
(* moves and wherever a turn is cut short by a dialog, each card of a hero's   *)
(* deck lies in exactly one of his zones (EldhomEngine.cpp, the hand           *)
(* operations and every command that reaches them).                            *)
THEOREM CardsConserved == Spec => []NoCardLost
<1>1. Init => HandsOK
  BY DealtKeeps DEF Init, FreshHands, HandsOK, NoCardLost
<1>2. HandsOK /\ [Next]_vars => HandsOK'
  <2> SUFFICES ASSUME HandsOK, [Next]_vars PROVE HandsOK'
    OBVIOUS
  <2>1. ASSUME StartMission PROVE HandsOK'
    BY <2>1, FreshKeeps DEF StartMission, NewEngine
  <2>2. ASSUME AdvanceAuto PROVE HandsOK'
    BY <2>2 DEF AdvanceAuto, GroupTurn, HandsOK, NoCardLost
  <2>3. ASSUME UNCHANGED vars PROVE HandsOK'
    BY <2>3 DEF vars, HandsOK, NoCardLost
  <2>4. QED
    BY <2>1, <2>2, <2>3, AnsweringKeeps, HeroCommandKeeps, DeckCommandKeeps DEF Next
<1>3. HandsOK => NoCardLost
  BY DEF HandsOK
<1>4. QED
  BY <1>1, <1>2, <1>3, PTL DEF Spec

-----------------------------------------------------------------------------
(* The actor store.  StoreOK says what every rule relies on and keeps: a       *)
(* group's members are those of its squad that live, and it has left the       *)
(* timeline when none does.                                                    *)

Lives == {"ACTIVE", "KO", "DEAD"}

\* It has the fields of a store.
IsStore(st) ==
  st = [area |-> st.area, line |-> st.line, pos |-> st.pos, hp |-> st.hp, life |-> st.life,
        members |-> st.members, gone |-> st.gone]

StoreTypes(st) ==
  /\ st.hp \in [Actors -> Int]
  /\ st.life \in [Actors -> Lives]
  /\ st.members \in [Groups -> SUBSET Monsters]
  /\ st.gone \subseteq Groups

Buried(st) ==
  \A g \in Groups : /\ st.members[g] = {m \in Members(g) : st.life[m] # "DEAD"}
                    /\ g \in st.gone <=> st.members[g] = {} /\ Members(g) # {}

StoreOK(st) == IsStore(st) /\ StoreTypes(st) /\ Buried(st)

\* The same actors stand, and the same groups play.
Alike(st, y) == StoreOK(y) /\ y.life = st.life /\ y.gone = st.gone

LEMMA ElsewhereAlike ==
  ASSUME NEW st, StoreOK(st), NEW a, NEW n
  PROVE  /\ Alike(st, Charge(st, a, n))
         /\ Alike(st, [st EXCEPT !.area[a] = n])
         /\ Alike(st, [st EXCEPT !.line[a] = n])
<1>1. ASSUME NEW y, IsStore(y), y.hp = st.hp, y.life = st.life, y.members = st.members, y.gone = st.gone
      PROVE  Alike(st, y)
  BY <1>1 DEF Alike, StoreOK, StoreTypes, Buried
<1>2. IsStore(st)
  BY DEF StoreOK
<1>3. Alike(st, Charge(st, a, n))
  <2> DEFINE y == Charge(st, a, n)
  <2>1. IsStore(y) /\ y.hp = st.hp /\ y.life = st.life /\ y.members = st.members /\ y.gone = st.gone
    BY <1>2 DEF IsStore, Charge
  <2>2. QED
    BY <1>1, <2>1
<1>4. Alike(st, [st EXCEPT !.area[a] = n])
  <2> DEFINE y == [st EXCEPT !.area[a] = n]
  <2>1. IsStore(y) /\ y.hp = st.hp /\ y.life = st.life /\ y.members = st.members /\ y.gone = st.gone
    BY <1>2 DEF IsStore
  <2>2. QED
    BY <1>1, <2>1
<1>5. Alike(st, [st EXCEPT !.line[a] = n])
  <2> DEFINE y == [st EXCEPT !.line[a] = n]
  <2>1. IsStore(y) /\ y.hp = st.hp /\ y.life = st.life /\ y.members = st.members /\ y.gone = st.gone
    BY <1>2 DEF IsStore
  <2>2. QED
    BY <1>1, <2>1
<1>6. QED
  BY <1>3, <1>4, <1>5

LEMMA HealAlike ==
  ASSUME NEW st, StoreOK(st), NEW h \in Heroes, NEW n \in Int
  PROVE  Alike(st, Heal(st, h, n))
<1> DEFINE y == Heal(st, h, n)
<1>1. IsStore(st) /\ StoreTypes(st) /\ Buried(st)
  BY DEF StoreOK
<1>2. /\ IsStore(y) /\ y.life = st.life /\ y.members = st.members /\ y.gone = st.gone
      /\ y.hp = [st.hp EXCEPT ![h] = IF @ + n < MaxHp[h] THEN @ + n ELSE MaxHp[h]]
  BY <1>1 DEF IsStore, Heal
<1>3. st.hp \in [Actors -> Int] /\ MaxHp \in [Actors -> Int] /\ h \in Actors
  BY <1>1, SquadAssumption DEF StoreTypes, Actors
<1>4. y.hp \in [Actors -> Int]
  BY <1>2, <1>3
<1> HIDE DEF y
<1>5. StoreOK(y)
  BY <1>1, <1>2, <1>4 DEF StoreOK, StoreTypes, Buried
<1>6. QED
  BY <1>2, <1>5 DEF Alike, y

\* What changes where a card or an instant is played, but for its damage.
LEMMA SelfAlike ==
  ASSUME NEW st, StoreOK(st), NEW h \in Heroes, NEW card, card.heal \in Int
  PROVE  Alike(st, SelfEffects(st, h, card))
<1> DEFINE x == [st EXCEPT !.line[h] = IF card.push = "" THEN @ ELSE card.push]
<1>1. x = [st EXCEPT !.line[h] = IF card.push = "" THEN st.line[h] ELSE card.push]
  OBVIOUS
<1>2. Alike(st, x)
  BY <1>1, ElsewhereAlike
<1> HIDE DEF x
<1>3. Alike(x, Heal(x, h, card.heal))
  BY <1>2, HealAlike DEF Alike
<1>4. SelfEffects(st, h, card) = Heal(x, h, card.heal)
  BY DEF SelfEffects, x
<1>5. QED
  BY <1>2, <1>3, <1>4 DEF Alike

\* The life of the one who is hit.
LEMMA HarmDoes ==
  ASSUME NEW st, StoreOK(st), NEW t \in Actors, NEW n \in Int, NEW y, y = Harm(st, t, n)
  PROVE  /\ IsStore(y) /\ y.members = st.members /\ y.gone = st.gone
         /\ y.hp \in [Actors -> Int]
         /\ y.life \in [Actors -> Lives]
         /\ \A a \in Actors \ {t} : y.life[a] = st.life[a]
         /\ y.hp[t] # 0 => y.life[t] = st.life[t]
         /\ y.hp[t] = 0 => y.life[t] = IF t \in Heroes THEN "KO" ELSE "DEAD"
<1> DEFINE hp == IF n < st.hp[t] THEN st.hp[t] - n ELSE 0
<1>1. IsStore(st) /\ StoreTypes(st)
  BY DEF StoreOK
<1>2. /\ IsStore(y) /\ y.members = st.members /\ y.gone = st.gone
      /\ y.hp = [st.hp EXCEPT ![t] = hp]
      /\ y.life = [st.life EXCEPT ![t] =
                     IF hp > 0 THEN @ ELSE IF t \in Heroes THEN "KO" ELSE "DEAD"]
  BY <1>1 DEF IsStore, Harm
<1>3. st.hp \in [Actors -> Int] /\ st.life \in [Actors -> Lives]
  BY <1>1 DEF StoreTypes
<1>4. hp \in Int /\ (hp > 0 <=> hp # 0)
  BY <1>3
<1> HIDE DEF hp
<1>5. /\ y.hp \in [Actors -> Int] /\ y.hp[t] = hp
      /\ y.life \in [Actors -> Lives]
      /\ \A a \in Actors \ {t} : y.life[a] = st.life[a]
      /\ y.life[t] = IF hp > 0 THEN st.life[t] ELSE IF t \in Heroes THEN "KO" ELSE "DEAD"
  BY <1>2, <1>3, <1>4 DEF Lives
<1>6. QED
  BY <1>2, <1>4, <1>5

LEMMA SquadMembers == \A g \in Groups : Members(g) \subseteq Monsters
  BY SquadAssumption DEF Members

\* A hero who is hit stays on the board, and no group loses anybody.
LEMMA HarmHero ==
  ASSUME NEW st, StoreOK(st), NEW t \in Heroes, NEW n \in Int, NEW y, y = Harm(st, t, n)
  PROVE  StoreOK(y) /\ y.gone = st.gone
<1>1. t \in Actors /\ \A g \in Groups : Members(g) \subseteq Actors \ {t}
  BY SquadAssumption, SquadMembers DEF Actors
<1>2. /\ IsStore(y) /\ y.members = st.members /\ y.gone = st.gone
      /\ y.hp \in [Actors -> Int] /\ y.life \in [Actors -> Lives]
      /\ \A a \in Actors \ {t} : y.life[a] = st.life[a]
  BY <1>1, HarmDoes
<1>3. StoreTypes(y)
  BY <1>2 DEF StoreOK, StoreTypes
<1>4. Buried(y)
  BY <1>1, <1>2 DEF StoreOK, Buried
<1>5. QED
  BY <1>2, <1>3, <1>4 DEF StoreOK

\* A monster that falls is taken out of its group, and the group that it was the
\* last of from the timeline; the heroes stand as before.
LEMMA StrikeMonster ==
  ASSUME NEW st, StoreOK(st), NEW t \in Monsters, NEW n \in Int
  PROVE  /\ StoreOK(Strike(st, t, n))
         /\ \A h \in Heroes : Strike(st, t, n).life[h] = st.life[h]
<1> DEFINE x == Harm(st, t, n)
           g == GroupOf(t)
           y == Bury(x, t)
<1>1. t \in Actors /\ t \notin Heroes
  BY SquadAssumption DEF Actors
<1>2. /\ IsStore(x) /\ x.members = st.members /\ x.gone = st.gone
      /\ x.hp \in [Actors -> Int] /\ x.life \in [Actors -> Lives]
      /\ \A a \in Actors \ {t} : x.life[a] = st.life[a]
      /\ x.hp[t] # 0 => x.life[t] = st.life[t]
      /\ x.hp[t] = 0 => x.life[t] = "DEAD"
  BY <1>1, HarmDoes
<1> HIDE DEF x
<1>3. \A h \in Heroes : x.life[h] = st.life[h]
  BY <1>1, <1>2 DEF Actors
<1>4. CASE x.hp[t] # 0
  <2>1. x.life = st.life
    BY <1>1, <1>2, <1>4 DEF StoreOK, StoreTypes
  <2>2. StoreTypes(x)
    BY <1>2 DEF StoreOK, StoreTypes
  <2>3. Buried(x)
    BY <1>2, <2>1 DEF StoreOK, Buried
  <2>4. Strike(st, t, n) = x
    BY <1>4 DEF Strike, x
  <2>5. QED
    BY <1>2, <1>3, <2>2, <2>3, <2>4 DEF StoreOK
<1>5. CASE x.hp[t] = 0
  <2>1. g \in Groups /\ t \in Members(g)
    BY SquadAssumption DEF GroupOf
  <2>2. \A k \in Groups \ {g} : t \notin Members(k)
    BY <2>1, SquadAssumption
  <2> HIDE DEF g
  <2>3. /\ IsStore(y) /\ y.hp = x.hp /\ y.life = x.life
        /\ y.members = [x.members EXCEPT ![g] = x.members[g] \ {t}]
        /\ y.gone = IF x.members[g] \ {t} = {} THEN x.gone \cup {g} ELSE x.gone
    <3> DEFINE rest == x.members[g] \ {t}
    <3>1. y = [x EXCEPT !.members[g] = rest, !.gone = IF rest = {} THEN @ \cup {g} ELSE @]
      BY DEF Bury, g
    <3> HIDE DEF rest, y
    <3>2. /\ IsStore(y) /\ y.hp = x.hp /\ y.life = x.life
          /\ y.members = [x.members EXCEPT ![g] = rest]
          /\ y.gone = IF rest = {} THEN x.gone \cup {g} ELSE x.gone
      BY <1>2, <3>1 DEF IsStore
    <3>3. QED
      BY <3>2 DEF rest
  <2> HIDE DEF y
  <2>4. st.members \in [Groups -> SUBSET Monsters] /\ st.gone \subseteq Groups
    BY DEF StoreOK, StoreTypes
  <2>5. y.members \in [Groups -> SUBSET Monsters]
    <3>1. x.members \in [Groups -> SUBSET Monsters] /\ x.members[g] \ {t} \subseteq Monsters
      BY <1>2, <2>1, <2>4
    <3>2. QED
      BY <2>3, <3>1
  <2>6. StoreTypes(y)
    BY <1>2, <2>1, <2>3, <2>4, <2>5 DEF StoreTypes
  <2>7. Buried(y)
    <3>1. /\ \A k \in Groups : st.members[k] = {m \in Members(k) : st.life[m] # "DEAD"}
          /\ \A k \in Groups : k \in st.gone <=> st.members[k] = {} /\ Members(k) # {}
      BY DEF StoreOK, Buried
    <3>2. \A k \in Groups \ {g} : \A m \in Members(k) : x.life[m] = st.life[m]
      BY <1>2, <2>2, SquadMembers DEF Actors
    <3>3. \A m \in Members(g) \ {t} : x.life[m] = st.life[m]
      BY <1>2, <2>1, SquadMembers DEF Actors
    <3>4. x.life[t] = "DEAD"
      BY <1>2, <1>5
    <3>5. y.members[g] = st.members[g] \ {t} /\ \A k \in Groups \ {g} : y.members[k] = st.members[k]
      BY <1>2, <2>1, <2>3, <2>4
    <3>6. y.members[g] = {m \in Members(g) : y.life[m] # "DEAD"}
      BY <2>1, <2>3, <3>1, <3>3, <3>4, <3>5
    <3>7. g \in y.gone <=> y.members[g] = {} /\ Members(g) # {}
      BY <1>2, <2>1, <2>3, <3>1, <3>5
    <3>8. ASSUME NEW k \in Groups \ {g}
          PROVE  /\ y.members[k] = {m \in Members(k) : y.life[m] # "DEAD"}
                 /\ k \in y.gone <=> y.members[k] = {} /\ Members(k) # {}
      BY <1>2, <2>3, <3>1, <3>2, <3>5
    <3>9. QED
      BY <3>6, <3>7, <3>8 DEF Buried
  <2>8. Strike(st, t, n) = y
    BY <1>5 DEF Strike, x, y
  <2>9. QED
    BY <1>3, <2>3, <2>6, <2>7, <2>8 DEF StoreOK
<1>6. QED
  BY <1>4, <1>5

-----------------------------------------------------------------------------
(* The outcome of the mission: once decided it stays so, and it is decided     *)
(* with the store that calls for it.                                           *)

IsMission(ms) == ms = [clock |-> ms.clock, outcome |-> ms.outcome]
Over(ms) == ms.outcome # "PLAYING"
Later(ms, y) == IsMission(y) /\ (Over(ms) => Over(y))

Fallen(st) == \A h \in Heroes : st.life[h] # "ACTIVE"
Settled(st, ms) ==
  /\ StoreOK(st)
  /\ IsMission(ms)
  /\ Elimination /\ Groups # {} /\ st.gone = Groups => Over(ms)
  /\ LastStand /\ Heroes # {} /\ Fallen(st) => Over(ms)

LEMMA DecideLater ==
  ASSUME NEW ms, IsMission(ms), NEW cond, NEW o, o # "PLAYING"
  PROVE  Later(ms, Decide(ms, cond, o)) /\ (cond => Over(Decide(ms, cond, o)))
<1> DEFINE y == [ms EXCEPT !.outcome = o]
<1>1. IsMission(y) /\ y.outcome = o
  BY DEF IsMission
<1>2. QED
  BY <1>1 DEF Decide, Later, Over

LEMMA ElapseLater ==
  ASSUME NEW ms, IsMission(ms), NEW delta
  PROVE  Later(ms, Elapse(ms, delta))
<1> DEFINE x == [ms EXCEPT !.clock = ms.clock + delta]
           y == Decide(x, \E t \in TimeLimits : ms.clock + delta >= t, "DEFEAT")
<1>1. IsMission(x) /\ x.outcome = ms.outcome
  BY DEF IsMission
<1> HIDE DEF x
<1>2. Later(x, y)
  BY <1>1, DecideLater
<1>3. Later(ms, y)
  BY <1>1, <1>2 DEF Later, Over
<1> HIDE DEF y
<1>4. Elapse(ms, delta) = IF ms.outcome # "PLAYING" \/ delta <= 0 THEN ms ELSE y
  BY DEF Elapse, y, x
<1>5. Later(ms, ms)
  BY DEF Later
<1>6. QED
  BY <1>3, <1>4, <1>5

LEMMA OutcomesLater ==
  ASSUME NEW ms, IsMission(ms), NEW st, NEW l, NEW laden
  PROVE  /\ Later(ms, Eliminated(ms, st))
         /\ Elimination /\ st.gone = Groups => Over(Eliminated(ms, st))
         /\ Later(ms, HeroDown(ms, st))
         /\ LastStand /\ Fallen(st) => Over(HeroDown(ms, st))
         /\ Later(ms, Arrived(ms, l, laden))
<1>1. Later(ms, Eliminated(ms, st)) /\ (Elimination /\ st.gone = Groups => Over(Eliminated(ms, st)))
  BY DecideLater DEF Eliminated
<1>2. Later(ms, HeroDown(ms, st)) /\ (LastStand /\ Fallen(st) => Over(HeroDown(ms, st)))
  BY DecideLater DEF HeroDown, Fallen
<1>3. Later(ms, Arrived(ms, l, laden))
  BY DecideLater DEF Arrived
<1>4. QED
  BY <1>1, <1>2, <1>3

\* Nobody falls and no group leaves.
LEMMA AlikeSettled ==
  ASSUME NEW st, NEW ms, Settled(st, ms), NEW y, Alike(st, y), NEW n, Later(ms, n)
  PROVE  Settled(y, n)
  BY DEF Settled, Alike, Later, Fallen

\* Monsters fall, and the mission is asked whether that was the last of them.
LEMMA EliminatedSettled ==
  ASSUME NEW st, NEW ms, Settled(st, ms), NEW y, StoreOK(y),
         \A h \in Heroes : y.life[h] = st.life[h]
  PROVE  Settled(y, Eliminated(ms, y)) /\ Later(ms, Eliminated(ms, y))
<1>1. IsMission(ms)
  BY DEF Settled
<1>2. /\ Later(ms, Eliminated(ms, y))
      /\ Elimination /\ y.gone = Groups => Over(Eliminated(ms, y))
  BY <1>1, OutcomesLater
<1>3. QED
  BY <1>2 DEF Settled, Later, Fallen

-----------------------------------------------------------------------------
(* Sequences, and the values of the recursive functions: what such a function  *)
(* yields is known only once it is known that there is one.                    *)

IsSeq(q) == \E S : q \in Seq(S)

LEMMA Sequences2 ==
  ASSUME NEW q, IsSeq(q), NEW p, IsSeq(p), NEW x
  PROVE  /\ IsSeq(q \o p)
         /\ q # <<>> => q \o p # <<>>
         /\ IsSeq(Append(q, x))
         /\ q # <<>> => IsSeq(Tail(q))
<1>1. PICK S : q \in Seq(S)
  BY DEF IsSeq
<1>2. PICK T : p \in Seq(T)
  BY DEF IsSeq
<1> DEFINE U == S \cup T \cup {x}
<1>3. q \in Seq(U) /\ p \in Seq(U) /\ x \in U
  BY <1>1, <1>2
<1> HIDE DEF U
<1>4. q \o p \in Seq(U) /\ Append(q, x) \in Seq(U) /\ (q # <<>> => Tail(q) \in Seq(U))
  BY <1>3
<1>5. q # <<>> => q \o p # <<>>
  BY <1>3
<1>6. QED
  BY <1>4, <1>5 DEF IsSeq

LEMMA ShortSequences == ASSUME NEW x PROVE IsSeq(<<>>) /\ IsSeq(<<x>>)
<1>1. <<>> \in Seq({x}) /\ <<x>> \in Seq({x})
  OBVIOUS
<1>2. QED
  BY <1>1 DEF IsSeq

LEMMA DialogsSeq == ASSUME NEW st, NEW l PROVE IsSeq(Dialogs(st, l))
<1>1. \A c : IsSeq(IF c THEN <<Dialog(st, l, Heroes)>> ELSE <<>>)
  BY ShortSequences
<1>2. \A c : IsSeq(IF c THEN <<Dialog(st, l, Monsters)>> ELSE <<>>)
  BY ShortSequences
<1>3. QED
  BY <1>1, <1>2, Sequences2 DEF Dialogs

LEMMA LeastNumber ==
  ASSUME NEW T, T \subseteq Nat, T # {}
  PROVE  \E n \in T : \A m \in T : n <= m
<1>1. IsWellFoundedOn(OpToRel(<, Nat), Nat)
  BY NatLessThanWellFounded
<1>2. PICK n \in T : \A m \in T : ~(<<m, n>> \in OpToRel(<, Nat))
  BY <1>1, WFMin
<1>3. \A m \in T : ~(m < n)
  BY <1>2 DEF OpToRel
<1>4. QED
  BY <1>3

\* A set that has 0, and with a number its successor, has every number.
LEMMA CountingUp ==
  ASSUME NEW S, 0 \in S, \A n \in Nat : n \in S => n + 1 \in S
  PROVE  Nat \subseteq S
<1> DEFINE T == Nat \ S
<1> SUFFICES ASSUME T # {} PROVE FALSE
  OBVIOUS
<1>1. PICK n \in T : \A m \in T : n <= m
  BY LeastNumber
<1>2. n # 0 /\ n - 1 \in Nat /\ n - 1 \notin T
  BY <1>1
<1>3. QED
  BY <1>2

\* What each of the recursive functions of the model makes of its last value.
Onward(fun, args, k, prev) ==
  CASE fun = "answers" ->
         UNION {Answer(w, args.sel[k][1], args.sel[k][2], args.foes, args.check) : w \in prev}
    [] fun = "members" ->
         UNION {IF Squad[args.g][k] \in v.store.members[args.g]
                THEN MemberStep(v, args.step, Squad[args.g][k]) ELSE {v} : v \in prev}
    [] fun = "steps" ->
         UNION {IF v.failed THEN {v} ELSE GroupStep(v, args.g, args.steps[k]) : v \in prev}
    [] fun = "dialogs" ->
         prev \o (IF Squad[args.g][k] \in args.st.members[args.g]
                  THEN Dialogs(args.st, args.st.area[Squad[args.g][k]]) ELSE <<>>)
    [] fun = "kept" ->
         IF args.q[k].side = Monsters /\ args.q[k].at = args.l THEN prev ELSE Append(prev, args.q[k])

\* The table of its values up to the n-th: there is one.
Table(f, n, first, fun, args) ==
  f[0] = first /\ \A k \in 1..n : f[k] = Onward(fun, args, k, f[k - 1])

LEMMA RunExists ==
  ASSUME NEW n \in Nat, NEW first, NEW fun, NEW args
  PROVE  \E f : Table(f, n, first, fun, args)
<1> DEFINE Upto(f, m) == f[0] = first /\ \A k \in 1..m : f[k] = Onward(fun, args, k, f[k - 1])
           S == {m \in Nat : \E f : Upto(f, m)}
<1>1. 0 \in S
  <2>1. Upto([k \in 0..0 |-> first], 0)
    OBVIOUS
  <2>2. QED
    BY <2>1
<1>2. ASSUME NEW m \in Nat, m \in S PROVE m + 1 \in S
  <2>1. PICK f : Upto(f, m)
    BY <1>2
  <2> DEFINE y == [k \in 0..(m + 1) |-> IF k <= m THEN f[k] ELSE Onward(fun, args, m + 1, f[m])]
  <2>2. \A k \in 0..m : y[k] = f[k]
    OBVIOUS
  <2>3. y[m + 1] = Onward(fun, args, m + 1, f[m])
    OBVIOUS
  <2> HIDE DEF y
  <2>4. ASSUME NEW k \in 1..(m + 1) PROVE y[k] = Onward(fun, args, k, y[k - 1])
    <3>1. CASE k = m + 1
      <4>1. k - 1 = m /\ y[k - 1] = f[m]
        BY <2>2, <3>1
      <4>2. QED
        BY <2>3, <3>1, <4>1
    <3>2. CASE k # m + 1
      <4>1. k \in 1..m /\ k \in 0..m /\ k - 1 \in 0..m
        BY <3>2
      <4>2. y[k] = f[k] /\ y[k - 1] = f[k - 1]
        BY <2>2, <4>1
      <4>3. QED
        BY <2>1, <4>1, <4>2
    <3>3. QED
      BY <3>1, <3>2
  <2>5. Upto(y, m + 1)
    BY <2>1, <2>2, <2>4
  <2>6. QED
    BY <2>5
<1> HIDE DEF S
<1>3. n \in S
  BY <1>1, <1>2, CountingUp
<1>4. QED
  BY <1>3 DEF S, Table

LEMMA KeptSeq ==
  ASSUME NEW q, IsSeq(q), NEW l
  PROVE  IsSeq(WithoutMonsters(q, l))
<1> DEFINE args == [q |-> q, l |-> l]
           Run(f) == f = [k \in 0..Len(q) |->
                            IF k = 0 THEN <<>>
                            ELSE IF q[k].side = Monsters /\ q[k].at = l THEN f[k - 1]
                                 ELSE Append(f[k - 1], q[k])]
           f == CHOOSE f : Run(f)
<1>1. Len(q) \in Nat
  BY DEF IsSeq
<1>2. Run(f)
  <2>1. PICK t : Table(t, Len(q), <<>>, "kept", args)
    BY <1>1, RunExists
  <2> DEFINE r == [k \in 0..Len(q) |-> t[k]]
  <2>2. r[0] = <<>> /\ \A k \in 1..Len(q) : r[k] = Onward("kept", args, k, r[k - 1])
    BY <1>1, <2>1 DEF Table
  <2>3. r = [k \in 0..Len(q) |-> r[k]]
    OBVIOUS
  <2> HIDE DEF r
  <2>4. ASSUME NEW k \in 1..Len(q)
        PROVE  r[k] = IF q[k].side = Monsters /\ q[k].at = l THEN r[k - 1] ELSE Append(r[k - 1], q[k])
    BY <2>2 DEF Onward
  <2>5. Run(r)
    BY <1>1, <2>2, <2>3, <2>4
  <2>6. QED
    BY <2>5
<1>3. WithoutMonsters(q, l) = f[Len(q)]
  BY DEF WithoutMonsters
<1> HIDE DEF f
<1> DEFINE S == {k \in Nat : k <= Len(q) => IsSeq(f[k])}
<1>4. 0 \in S
  <2>1. 0 \in 0..Len(q) /\ f[0] = <<>>
    BY <1>1, <1>2
  <2>2. QED
    BY <2>1, ShortSequences
<1>5. ASSUME NEW k \in Nat, k \in S PROVE k + 1 \in S
  <2> SUFFICES ASSUME k + 1 <= Len(q) PROVE IsSeq(f[k + 1])
    OBVIOUS
  <2>1. IsSeq(f[k]) /\ k + 1 \in 0..Len(q) /\ k + 1 # 0 /\ (k + 1) - 1 = k
    BY <1>1, <1>5
  <2>2. f[k + 1] = f[k] \/ f[k + 1] = Append(f[k], q[k + 1])
    BY <1>2, <2>1
  <2>3. QED
    BY <2>1, <2>2, Sequences2
<1> HIDE DEF S
<1>6. Len(q) \in S
  BY <1>1, <1>4, <1>5, CountingUp
<1>7. QED
  BY <1>3, <1>6 DEF S

LEMMA SquadDialogsSeq ==
  ASSUME NEW g \in Groups, NEW st
  PROVE  IsSeq(SquadDialogs(st, g))
<1> DEFINE args == [st |-> st, g |-> g]
           n == Len(Squad[g])
           More(k) == IF Squad[g][k] \in st.members[g] THEN Dialogs(st, st.area[Squad[g][k]]) ELSE <<>>
           Run(f) == f = [k \in 0..n |-> IF k = 0 THEN <<>> ELSE f[k - 1] \o More(k)]
           f == CHOOSE f : Run(f)
<1>1. n \in Nat
  BY SquadAssumption
<1>2. SquadDialogs(st, g) = f[n]
  BY DEF SquadDialogs
<1>3. \A k : IsSeq(More(k))
  BY DialogsSeq, ShortSequences
<1>4. \A k, prev : Onward("dialogs", args, k, prev) = prev \o More(k)
  BY DEF Onward
<1> HIDE DEF n, More, args
<1>5. Run(f)
  <2>1. PICK t : Table(t, n, <<>>, "dialogs", args)
    BY <1>1, RunExists
  <2> DEFINE r == [k \in 0..n |-> t[k]]
  <2>2. t[0] = <<>> /\ \A k \in 1..n : t[k] = t[k - 1] \o More(k)
    BY <1>4, <2>1 DEF Table
  <2>3. r = [k \in 0..n |-> r[k]] /\ \A k \in 0..n : r[k] = t[k]
    OBVIOUS
  <2> HIDE DEF r
  <2>4. ASSUME NEW k \in 0..n PROVE r[k] = IF k = 0 THEN <<>> ELSE r[k - 1] \o More(k)
    <3>1. CASE k = 0
      BY <2>2, <2>3, <3>1
    <3>2. CASE k # 0
      <4>1. k \in 1..n /\ k - 1 \in 0..n
        BY <1>1, <3>2
      <4>2. r[k] = t[k] /\ r[k - 1] = t[k - 1] /\ t[k] = t[k - 1] \o More(k)
        BY <2>2, <2>3, <4>1
      <4>3. QED
        BY <3>2, <4>2
    <3>3. QED
      BY <3>1, <3>2
  <2>5. Run(r)
    BY <2>3, <2>4
  <2>6. QED
    BY <2>5
<1> HIDE DEF f
<1>6. f[0] = <<>> /\ \A k \in 1..n : f[k] = f[k - 1] \o More(k)
  <2>1. 0 \in 0..n /\ \A k \in 1..n : k \in 0..n /\ k # 0
    BY <1>1
  <2>2. \A k \in 0..n : f[k] = IF k = 0 THEN <<>> ELSE f[k - 1] \o More(k)
    BY <1>5
  <2>3. QED
    BY <2>1, <2>2
<1> HIDE DEF Run
<1> DEFINE S == {k \in Nat : k <= n => IsSeq(f[k])}
<1>7. 0 \in S
  BY <1>6, ShortSequences
<1>8. ASSUME NEW k \in Nat, k \in S PROVE k + 1 \in S
  <2> SUFFICES ASSUME k + 1 <= n PROVE IsSeq(f[k + 1])
    OBVIOUS
  <2>1. IsSeq(f[k]) /\ k + 1 \in 1..n /\ (k + 1) - 1 = k
    BY <1>1, <1>8
  <2>2. f[k + 1] = f[k] \o More(k + 1)
    BY <1>6, <2>1
  <2>3. QED
    BY <1>3, <2>1, <2>2, Sequences2
<1> HIDE DEF S
<1>9. n \in S
  BY <1>1, <1>7, <1>8, CountingUp
<1>10. QED
  BY <1>2, <1>9 DEF S

-----------------------------------------------------------------------------
(* Instants that answer an attack or an approach. *)

\* Where an answer has come to: no hero has fallen since the lives were `lives`.
AnswerOK(w, lives) ==
  /\ w = [store |-> w.store, doors |-> w.doors, mission |-> w.mission, damage |-> w.damage, queue |-> w.queue]
  /\ Settled(w.store, w.mission)
  /\ w.damage \in Int
  /\ IsSeq(w.queue)
  /\ \A h \in Heroes : w.store.life[h] = lives[h]

LEMMA TargetsThere ==
  ASSUME NEW st, NEW l, NEW side
  PROVE  NearestTargets(st, l, side) \subseteq side
  BY DEF NearestTargets, ValidTargets, Present

LEMMA AnswerKeeps ==
  ASSUME NEW w, NEW lives, AnswerOK(w, lives), NEW h \in Heroes, NEW c,
         Card[c].heal \in Int, Card[c].damage \in Int, Card[c].reduce \in Int,
         NEW foes, foes \subseteq Monsters, NEW check \in BOOLEAN,
         NEW y \in Answer(w, h, c, foes, check)
  PROVE  AnswerOK(y, lives)
<1> DEFINE card == Card[c]
           here == w.store.area[h]
           to == IF card.to \in Adj[here] THEN card.to ELSE here
           moved == [w.store EXCEPT !.area[h] = to]
           self == SelfEffects(moved, h, card)
<1>1. Settled(w.store, w.mission) /\ w.damage \in Int /\ IsSeq(w.queue) /\ StoreOK(w.store)
  BY DEF AnswerOK, Settled
<1>2. Alike(w.store, self)
  <2>1. Alike(w.store, moved)
    BY <1>1, ElsewhereAlike
  <2> HIDE DEF moved
  <2>2. Alike(moved, self)
    BY <2>1, SelfAlike DEF Alike
  <2>3. QED
    BY <2>1, <2>2 DEF Alike
<1>3. Settled(self, w.mission)
  <2>1. Later(w.mission, w.mission)
    BY <1>1 DEF Settled, Later
  <2>2. QED
    BY <1>1, <1>2, <2>1, AlikeSettled
<1>4. \A a \in Heroes : self.life[a] = lives[a]
  BY <1>2 DEF Alike, AnswerOK
<1> HIDE DEF self
<1>5. PICK s : /\ StoreOK(s) /\ \A a \in Heroes : s.life[a] = self.life[a]
               /\ LET st == Charge(s, h, card.cost)
                  IN  y = [store |-> st, doors |-> w.doors \cup Doors(<<here, to>>),
                           mission |-> Elapse(Eliminated(w.mission, st), card.cost),
                           damage |-> IF card.reduce < w.damage THEN w.damage - card.reduce ELSE 0,
                           queue |-> w.queue \o (IF check THEN Dialogs(st, st.area[h]) ELSE <<>>)]
  <2> DEFINE hit == IF card.damage = 0 THEN {} ELSE NearestTargets(self, self.area[h], foes)
             After(s) == LET st == Charge(s, h, card.cost)
                         IN  [store |-> st, doors |-> w.doors \cup Doors(<<here, to>>),
                              mission |-> Elapse(Eliminated(w.mission, st), card.cost),
                              damage |-> IF card.reduce < w.damage THEN w.damage - card.reduce ELSE 0,
                              queue |-> w.queue \o (IF check THEN Dialogs(st, st.area[h]) ELSE <<>>)]
  <2>1. y \in IF hit = {} THEN {After(self)}
              ELSE {After(Strike(self, t, card.damage)) : t \in hit}
    BY DEF Answer, self
  <2>2. StoreOK(self)
    BY <1>3 DEF Settled
  <2>3. CASE hit = {}
    <3>1. y = After(self)
      BY <2>1, <2>3
    <3> HIDE DEF hit
    <3>2. QED
      BY <2>2, <3>1
  <2>4. CASE hit # {}
    <3>1. PICK t \in hit : y = After(Strike(self, t, card.damage))
      BY <2>1, <2>4
    <3>2. t \in Monsters
      BY <3>1, TargetsThere
    <3>3. /\ StoreOK(Strike(self, t, card.damage))
          /\ \A a \in Heroes : Strike(self, t, card.damage).life[a] = self.life[a]
      BY <2>2, <3>2, StrikeMonster
    <3> HIDE DEF hit
    <3>4. QED
      BY <3>1, <3>3
  <2>5. QED
    BY <2>3, <2>4
<1> DEFINE st == Charge(s, h, card.cost)
           ms == Eliminated(w.mission, st)
<1>6. Alike(s, st)
  BY <1>5, ElsewhereAlike
<1>7. StoreOK(st) /\ \A a \in Heroes : st.life[a] = self.life[a]
  BY <1>5, <1>6 DEF Alike
<1>8. y.store = st /\ y.mission = Elapse(ms, card.cost)
  BY <1>5
<1>9. y.damage \in Int /\ IsSeq(y.queue)
  <2>1. IsSeq(IF check THEN Dialogs(st, st.area[h]) ELSE <<>>)
    BY DialogsSeq, ShortSequences
  <2>2. y.queue = w.queue \o (IF check THEN Dialogs(st, st.area[h]) ELSE <<>>)
    BY <1>5
  <2>3. IsSeq(y.queue)
    BY <1>1, <2>1, <2>2, Sequences2
  <2>4. y.damage = IF card.reduce < w.damage THEN w.damage - card.reduce ELSE 0
    BY <1>5
  <2>5. QED
    BY <1>1, <2>3, <2>4
<1>10. y = [store |-> y.store, doors |-> y.doors, mission |-> y.mission, damage |-> y.damage, queue |-> y.queue]
  BY <1>5
<1> HIDE DEF st
<1>11. Settled(st, ms)
  BY <1>3, <1>7, EliminatedSettled
<1> HIDE DEF ms
<1>12. Settled(st, Elapse(ms, card.cost))
  <2>1. Later(ms, Elapse(ms, card.cost))
    BY <1>11, ElapseLater DEF Settled
  <2>2. Alike(st, st)
    BY <1>7 DEF Alike
  <2>3. QED
    BY <1>11, <2>1, <2>2, AlikeSettled
<1>13. QED
  BY <1>4, <1>7, <1>8, <1>9, <1>10, <1>12 DEF AnswerOK
\* Every instant of a selection is a known card, in a hero's hand.
LEMMA SelectionsEligible ==
  ASSUME NEW trigger, NEW sel \in Selections(trigger)
  PROVE  /\ Len(sel) \in Nat
         /\ \A k \in 1..Len(sel) :
              /\ sel[k][1] \in Heroes
              /\ Card[sel[k][2]].heal \in Int
              /\ Card[sel[k][2]].damage \in Int
              /\ Card[sel[k][2]].reduce \in Int
<1>1. PICK n \in 0..MaxSelected : sel \in [1..n -> Eligible(hands, trigger)]
  BY DEF Selections
<1>2. n \in Nat
  BY CardAssumption
<1>3. Len(sel) = n
  <2>1. sel \in Seq(Eligible(hands, trigger))
    BY <1>1, <1>2
  <2>2. QED
    BY <1>1, <1>2, <2>1
<1>4. ASSUME NEW p \in Eligible(hands, trigger)
      PROVE  /\ p[1] \in Heroes
             /\ Card[p[2]].heal \in Int /\ Card[p[2]].damage \in Int /\ Card[p[2]].reduce \in Int
  <2>1. p[1] \in Heroes /\ p[2] \in DOMAIN Card
    BY DEF Eligible
  <2>2. QED
    BY <2>1, CardAssumption
<1>5. QED
  BY <1>1, <1>2, <1>3, <1>4

LEMMA AnswersKeep ==
  ASSUME Settled(store, mission), pending.damage \in Int, IsSeq(queue),
         NEW trigger, NEW sel \in Selections(trigger),
         NEW foes, foes \subseteq Monsters, NEW check \in BOOLEAN,
         NEW y \in Answers(sel, foes, check)
  PROVE  AnswerOK(y, store.life)
<1> DEFINE args == [sel |-> sel, foes |-> foes, check |-> check]
           start == [store |-> store, doors |-> doors, mission |-> mission,
                     damage |-> pending.damage, queue |-> queue]
           n == Len(sel)
           More(k, prev) == UNION {Answer(w, sel[k][1], sel[k][2], foes, check) : w \in prev}
           Run(f) == f = [k \in 0..n |-> IF k = 0 THEN {start} ELSE More(k, f[k - 1])]
           f == CHOOSE f : Run(f)
<1>1. n \in Nat
  BY SelectionsEligible
<1>2. y \in f[n]
  BY DEF Answers
<1>3. AnswerOK(start, store.life)
  BY DEF AnswerOK
<1>4. ASSUME NEW k \in 1..n, NEW prev, \A w \in prev : AnswerOK(w, store.life), NEW z \in More(k, prev)
      PROVE  AnswerOK(z, store.life)
  <2>1. PICK w \in prev : z \in Answer(w, sel[k][1], sel[k][2], foes, check)
    BY <1>4
  <2> DEFINE h == sel[k][1]
             c == sel[k][2]
  <2>2. h \in Heroes /\ Card[c].heal \in Int /\ Card[c].damage \in Int /\ Card[c].reduce \in Int
    BY <1>4, SelectionsEligible
  <2>3. AnswerOK(w, store.life) /\ z \in Answer(w, h, c, foes, check)
    BY <1>4, <2>1
  <2> HIDE DEF h, c
  <2>4. QED
    BY <2>2, <2>3, AnswerKeeps
<1>5. \A k, prev : Onward("answers", args, k, prev) = More(k, prev)
  BY DEF Onward
<1> HIDE DEF n, More, args, start
<1>6. Run(f)
  <2>1. PICK t : Table(t, n, {start}, "answers", args)
    BY <1>1, RunExists
  <2> DEFINE r == [k \in 0..n |-> t[k]]
  <2>2. t[0] = {start} /\ \A k \in 1..n : t[k] = More(k, t[k - 1])
    BY <1>5, <2>1 DEF Table
  <2>3. r = [k \in 0..n |-> r[k]] /\ \A k \in 0..n : r[k] = t[k]
    OBVIOUS
  <2> HIDE DEF r
  <2>4. ASSUME NEW k \in 0..n PROVE r[k] = IF k = 0 THEN {start} ELSE More(k, r[k - 1])
    <3>1. CASE k = 0
      BY <2>2, <2>3, <3>1
    <3>2. CASE k # 0
      <4>1. k \in 1..n /\ k - 1 \in 0..n
        BY <1>1, <3>2
      <4>2. r[k] = t[k] /\ r[k - 1] = t[k - 1] /\ t[k] = More(k, t[k - 1])
        BY <2>2, <2>3, <4>1
      <4>3. QED
        BY <3>2, <4>2
    <3>3. QED
      BY <3>1, <3>2
  <2>5. Run(r)
    BY <2>3, <2>4
  <2>6. QED
    BY <2>5
<1> HIDE DEF f
<1>7. f[0] = {start} /\ \A k \in 1..n : f[k] = More(k, f[k - 1])
  <2>1. 0 \in 0..n /\ \A k \in 1..n : k \in 0..n /\ k # 0
    BY <1>1
  <2>2. \A k \in 0..n : f[k] = IF k = 0 THEN {start} ELSE More(k, f[k - 1])
    BY <1>6
  <2>3. QED
    BY <2>1, <2>2
<1> HIDE DEF Run
<1> DEFINE S == {k \in Nat : k <= n => \A w \in f[k] : AnswerOK(w, store.life)}
<1>8. 0 \in S
  BY <1>3, <1>7
<1>9. ASSUME NEW k \in Nat, k \in S PROVE k + 1 \in S
  <2> SUFFICES ASSUME k + 1 <= n, NEW z \in f[k + 1] PROVE AnswerOK(z, store.life)
    OBVIOUS
  <2>1. (\A w \in f[k] : AnswerOK(w, store.life)) /\ k + 1 \in 1..n /\ (k + 1) - 1 = k
    BY <1>1, <1>9
  <2>2. z \in More(k + 1, f[k])
    BY <1>7, <2>1
  <2>3. QED
    BY <1>4, <2>1, <2>2
<1> HIDE DEF S
<1>10. n \in S
  BY <1>1, <1>8, <1>9, CountingUp
<1>11. QED
  BY <1>1, <1>2, <1>10 DEF S
-----------------------------------------------------------------------------
(* A monster group's turn. *)

\* Where a group's turn has come to.
TurnOK(w) ==
  /\ w = [store |-> w.store, mission |-> w.mission, window |-> w.window, any |-> w.any, failed |-> w.failed]
  /\ Settled(w.store, w.mission)

\* A monster's step hits a hero, or nobody falls by it.
LEMMA BehaviorDoes ==
  ASSUME NEW st, StoreOK(st), NEW adj, NEW ds, NEW step, step.amount \in Int, NEW m,
         NEW r \in BehaviorStep(st, adj, ds, step, m)
  PROVE  \/ Alike(st, r.store)
         \/ /\ step.kind = "DAMAGE" /\ r.ok
            /\ StoreOK(r.store) /\ r.store.gone = st.gone
<1> DEFINE here == st.area[m]
           ways == {l \in adj[here] : /\ Zone[here] = Zone[l] \/ {here, l} \in ds
                                      /\ Present(st, l, Heroes) # {}}
           ts == NearestTargets(st, here, Heroes)
<1>1. Alike(st, st)
  BY DEF Alike
<1>2. CASE step.kind = "DAMAGE" /\ ts # {}
  <2>1. PICK t \in ts : r = [store |-> Harm(st, t, step.amount), ok |-> TRUE]
    BY <1>2 DEF BehaviorStep
  <2>2. t \in Heroes
    BY <2>1, TargetsThere
  <2>3. StoreOK(Harm(st, t, step.amount)) /\ Harm(st, t, step.amount).gone = st.gone
    BY <2>2, HarmHero
  <2>4. QED
    BY <1>2, <2>1, <2>3
<1>3. CASE step.kind = "DAMAGE" /\ ts = {}
  <2>1. r = [store |-> st, ok |-> FALSE]
    BY <1>3 DEF BehaviorStep
  <2>2. QED
    BY <1>1, <2>1
<1>4. CASE step.kind = "MOVE"
  <2> DEFINE moved == {[store |-> [st EXCEPT !.area[m] = l], ok |-> TRUE] : l \in ways}
  <2>1. r \in IF Present(st, here, Heroes) # {} THEN {[store |-> st, ok |-> TRUE]}
             ELSE IF ways = {} THEN {[store |-> st, ok |-> FALSE]} ELSE moved
    BY <1>4 DEF BehaviorStep
  <2>2. \/ r.store = st
        \/ \E l \in ways : r.store = [st EXCEPT !.area[m] = l]
    <3> HIDE DEF ways, here
    <3>1. r = [store |-> st, ok |-> TRUE] \/ r = [store |-> st, ok |-> FALSE] \/ r \in moved
      BY <2>1
    <3>2. QED
      BY <3>1
  <2>3. \A l : Alike(st, [st EXCEPT !.area[m] = l])
    BY ElsewhereAlike
  <2>4. QED
    BY <1>1, <2>2, <2>3
<1>5. CASE step.kind \notin {"DAMAGE", "MOVE"}
  <2>1. r = [store |-> st, ok |-> TRUE] \/ r = [store |-> st, ok |-> FALSE]
    BY <1>5 DEF BehaviorStep
  <2>2. QED
    BY <1>1, <2>1
<1>6. QED
  BY <1>2, <1>3, <1>4, <1>5

LEMMA MemberStepKeeps ==
  ASSUME NEW w, TurnOK(w), NEW step, step.amount \in Int, NEW m, NEW y \in MemberStep(w, step, m)
  PROVE  TurnOK(y)
<1>1. Settled(w.store, w.mission) /\ StoreOK(w.store) /\ IsMission(w.mission)
  BY DEF TurnOK, Settled
<1>2. PICK r \in BehaviorStep(w.store, Adj, doors, step, m) :
        \E near : y = [w EXCEPT !.store = r.store, !.any = @ \/ r.ok,
                        !.mission = IF step.kind = "DAMAGE" /\ r.ok THEN HeroDown(@, r.store) ELSE @,
                        !.window = near]
  BY DEF MemberStep
<1> DEFINE ms == IF step.kind = "DAMAGE" /\ r.ok THEN HeroDown(w.mission, r.store) ELSE w.mission
<1>3. /\ y.store = r.store /\ y.mission = ms
      /\ y = [store |-> y.store, mission |-> y.mission, window |-> y.window, any |-> y.any, failed |-> y.failed]
  BY <1>2 DEF TurnOK
<1>4. Later(w.mission, ms) /\ Later(w.mission, w.mission)
  BY <1>1, OutcomesLater DEF Later
<1>5. CASE Alike(w.store, r.store)
  <2> HIDE DEF ms
  <2>1. Settled(r.store, ms)
    BY <1>1, <1>4, <1>5, AlikeSettled
  <2>2. QED
    BY <1>3, <2>1 DEF TurnOK
<1>6. CASE step.kind = "DAMAGE" /\ r.ok /\ StoreOK(r.store) /\ r.store.gone = w.store.gone
  <2>1. ms = HeroDown(w.mission, r.store)
    BY <1>6
  <2>2. LastStand /\ Fallen(r.store) => Over(ms)
    BY <1>1, <2>1, OutcomesLater
  <2> HIDE DEF ms
  <2>3. Settled(r.store, ms)
    BY <1>1, <1>4, <1>6, <2>2 DEF Settled, Later
  <2>4. QED
    BY <1>3, <2>3 DEF TurnOK
<1>7. QED
  BY <1>1, <1>5, <1>6, BehaviorDoes

LEMMA FlagsKeep ==
  ASSUME NEW w, TurnOK(w), NEW b
  PROVE  TurnOK([w EXCEPT !.any = b]) /\ TurnOK([w EXCEPT !.failed = b])
<1>1. TurnOK([w EXCEPT !.any = b])
  <2> DEFINE y == [w EXCEPT !.any = b]
  <2>1. y.store = w.store /\ y.mission = w.mission
        /\ y = [store |-> y.store, mission |-> y.mission, window |-> y.window, any |-> y.any, failed |-> y.failed]
    BY DEF TurnOK
  <2> HIDE DEF y
  <2>2. QED
    BY <2>1 DEF TurnOK
<1>2. TurnOK([w EXCEPT !.failed = b])
  <2> DEFINE y == [w EXCEPT !.failed = b]
  <2>1. y.store = w.store /\ y.mission = w.mission
        /\ y = [store |-> y.store, mission |-> y.mission, window |-> y.window, any |-> y.any, failed |-> y.failed]
    BY DEF TurnOK
  <2> HIDE DEF y
  <2>2. QED
    BY <2>1 DEF TurnOK
<1>3. QED
  BY <1>1, <1>2

LEMMA GroupStepKeeps ==
  ASSUME NEW w, TurnOK(w), NEW g \in Groups, NEW step, step.amount \in Int,
         NEW y \in GroupStep(w, g, step)
  PROVE  TurnOK(y)
<1> DEFINE args == [g |-> g, step |-> step]
           start == [w EXCEPT !.any = FALSE]
           n == Len(Squad[g])
           More(k, prev) == UNION {IF Squad[g][k] \in v.store.members[g]
                                   THEN MemberStep(v, step, Squad[g][k]) ELSE {v} : v \in prev}
           Run(f) == f = [k \in 0..n |-> IF k = 0 THEN {start} ELSE More(k, f[k - 1])]
           f == CHOOSE f : Run(f)
<1>1. n \in Nat
  BY SquadAssumption
<1>2. PICK last \in f[n] :
        y = [last EXCEPT !.store = Charge(@, g, step.cost), !.failed = ~step.optional /\ ~last.any]
  BY DEF GroupStep
<1>3. TurnOK(start)
  BY FlagsKeep
<1>4. ASSUME NEW k \in 1..n, NEW prev, \A v \in prev : TurnOK(v), NEW z \in More(k, prev)
      PROVE  TurnOK(z)
  <2>1. PICK u \in prev : z = u \/ z \in MemberStep(u, step, Squad[g][k])
    BY <1>4
  <2>2. QED
    BY <1>4, <2>1, MemberStepKeeps
<1>5. \A k, prev : Onward("members", args, k, prev) = More(k, prev)
  BY DEF Onward
<1> HIDE DEF n, More, args, start
<1>6. Run(f)
  <2>1. PICK t : Table(t, n, {start}, "members", args)
    BY <1>1, RunExists
  <2> DEFINE r == [k \in 0..n |-> t[k]]
  <2>2. t[0] = {start} /\ \A k \in 1..n : t[k] = More(k, t[k - 1])
    BY <1>5, <2>1 DEF Table
  <2>3. r = [k \in 0..n |-> r[k]] /\ \A k \in 0..n : r[k] = t[k]
    OBVIOUS
  <2> HIDE DEF r
  <2>4. ASSUME NEW k \in 0..n PROVE r[k] = IF k = 0 THEN {start} ELSE More(k, r[k - 1])
    <3>1. CASE k = 0
      BY <2>2, <2>3, <3>1
    <3>2. CASE k # 0
      <4>1. k \in 1..n /\ k - 1 \in 0..n
        BY <1>1, <3>2
      <4>2. r[k] = t[k] /\ r[k - 1] = t[k - 1] /\ t[k] = More(k, t[k - 1])
        BY <2>2, <2>3, <4>1
      <4>3. QED
        BY <3>2, <4>2
    <3>3. QED
      BY <3>1, <3>2
  <2>5. Run(r)
    BY <2>3, <2>4
  <2>6. QED
    BY <2>5
<1> HIDE DEF f
<1>7. f[0] = {start} /\ \A k \in 1..n : f[k] = More(k, f[k - 1])
  <2>1. 0 \in 0..n /\ \A k \in 1..n : k \in 0..n /\ k # 0
    BY <1>1
  <2>2. \A k \in 0..n : f[k] = IF k = 0 THEN {start} ELSE More(k, f[k - 1])
    BY <1>6
  <2>3. QED
    BY <2>1, <2>2
<1> HIDE DEF Run
<1> DEFINE S == {k \in Nat : k <= n => \A v \in f[k] : TurnOK(v)}
<1>8. 0 \in S
  BY <1>3, <1>7
<1>9. ASSUME NEW k \in Nat, k \in S PROVE k + 1 \in S
  <2> SUFFICES ASSUME k + 1 <= n, NEW z \in f[k + 1] PROVE TurnOK(z)
    OBVIOUS
  <2>1. (\A v \in f[k] : TurnOK(v)) /\ k + 1 \in 1..n /\ (k + 1) - 1 = k
    BY <1>1, <1>9
  <2>2. z \in More(k + 1, f[k])
    BY <1>7, <2>1
  <2>3. QED
    BY <1>4, <2>1, <2>2
<1> HIDE DEF S
<1>10. n \in S
  BY <1>1, <1>8, <1>9, CountingUp
<1>11. TurnOK(last)
  BY <1>1, <1>2, <1>10 DEF S
<1>12. y.store = Charge(last.store, g, step.cost) /\ y.mission = last.mission
       /\ y = [store |-> y.store, mission |-> y.mission, window |-> y.window, any |-> y.any, failed |-> y.failed]
  BY <1>2, <1>11 DEF TurnOK
<1>13. Settled(y.store, y.mission)
  <2>1. Settled(last.store, last.mission) /\ StoreOK(last.store) /\ Later(last.mission, last.mission)
    BY <1>11 DEF TurnOK, Settled, Later
  <2>2. Alike(last.store, Charge(last.store, g, step.cost))
    BY <2>1, ElsewhereAlike
  <2>3. QED
    BY <1>12, <2>1, <2>2, AlikeSettled
<1>14. QED
  BY <1>12, <1>13 DEF TurnOK

LEMMA RunStepsKeeps ==
  ASSUME NEW w, TurnOK(w), NEW g \in Groups, NEW steps, Len(steps) \in Nat,
         \A k \in 1..Len(steps) : steps[k].amount \in Int,
         NEW y \in RunSteps(w, g, steps)
  PROVE  TurnOK(y)
<1> DEFINE args == [g |-> g, steps |-> steps]
           start == [w EXCEPT !.failed = FALSE]
           n == Len(steps)
           More(k, prev) == UNION {IF v.failed THEN {v} ELSE GroupStep(v, g, steps[k]) : v \in prev}
           Run(f) == f = [k \in 0..n |-> IF k = 0 THEN {start} ELSE More(k, f[k - 1])]
           f == CHOOSE f : Run(f)
<1>1. n \in Nat
  OBVIOUS
<1>2. y \in f[n]
  BY DEF RunSteps
<1>3. TurnOK(start)
  BY FlagsKeep
<1>4. ASSUME NEW k \in 1..n, NEW prev, \A v \in prev : TurnOK(v), NEW z \in More(k, prev)
      PROVE  TurnOK(z)
  <2>1. PICK u \in prev : z = u \/ z \in GroupStep(u, g, steps[k])
    BY <1>4
  <2>2. QED
    BY <1>4, <2>1, GroupStepKeeps
<1>5. \A k, prev : Onward("steps", args, k, prev) = More(k, prev)
  BY DEF Onward
<1> HIDE DEF n, More, args, start
<1>6. Run(f)
  <2>1. PICK t : Table(t, n, {start}, "steps", args)
    BY <1>1, RunExists
  <2> DEFINE r == [k \in 0..n |-> t[k]]
  <2>2. t[0] = {start} /\ \A k \in 1..n : t[k] = More(k, t[k - 1])
    BY <1>5, <2>1 DEF Table
  <2>3. r = [k \in 0..n |-> r[k]] /\ \A k \in 0..n : r[k] = t[k]
    OBVIOUS
  <2> HIDE DEF r
  <2>4. ASSUME NEW k \in 0..n PROVE r[k] = IF k = 0 THEN {start} ELSE More(k, r[k - 1])
    <3>1. CASE k = 0
      BY <2>2, <2>3, <3>1
    <3>2. CASE k # 0
      <4>1. k \in 1..n /\ k - 1 \in 0..n
        BY <1>1, <3>2
      <4>2. r[k] = t[k] /\ r[k - 1] = t[k - 1] /\ t[k] = More(k, t[k - 1])
        BY <2>2, <2>3, <4>1
      <4>3. QED
        BY <3>2, <4>2
    <3>3. QED
      BY <3>1, <3>2
  <2>5. Run(r)
    BY <2>3, <2>4
  <2>6. QED
    BY <2>5
<1> HIDE DEF f
<1>7. f[0] = {start} /\ \A k \in 1..n : f[k] = More(k, f[k - 1])
  <2>1. 0 \in 0..n /\ \A k \in 1..n : k \in 0..n /\ k # 0
    BY <1>1
  <2>2. \A k \in 0..n : f[k] = IF k = 0 THEN {start} ELSE More(k, f[k - 1])
    BY <1>6
  <2>3. QED
    BY <2>1, <2>2
<1> HIDE DEF Run
<1> DEFINE S == {k \in Nat : k <= n => \A v \in f[k] : TurnOK(v)}
<1>8. 0 \in S
  BY <1>3, <1>7
<1>9. ASSUME NEW k \in Nat, k \in S PROVE k + 1 \in S
  <2> SUFFICES ASSUME k + 1 <= n, NEW z \in f[k + 1] PROVE TurnOK(z)
    OBVIOUS
  <2>1. (\A v \in f[k] : TurnOK(v)) /\ k + 1 \in 1..n /\ (k + 1) - 1 = k
    BY <1>1, <1>9
  <2>2. z \in More(k + 1, f[k])
    BY <1>7, <2>1
  <2>3. QED
    BY <1>4, <2>1, <2>2
<1> HIDE DEF S
<1>10. n \in S
  BY <1>1, <1>8, <1>9, CountingUp
<1>11. QED
  BY <1>1, <1>2, <1>10 DEF S

\* A whole turn leaves the mission decided whenever its blows call for it.
LEMMA GroupOutcomesKeep ==
  ASSUME Settled(store, mission), NEW g \in Groups, stage[g] \in 1..Len(BehaviorDeck[g]),
         NEW y \in GroupOutcomes(g)
  PROVE  TurnOK(y)
<1> DEFINE card == BehaviorDeck[g][stage[g]]
           start == [store |-> store, mission |-> mission, window |-> window, any |-> FALSE, failed |-> FALSE]
<1>1. \A steps \in {card.steps, card.fallback} :
        Len(steps) \in Nat /\ \A k \in 1..Len(steps) : steps[k].amount \in Int
  BY BehaviorAssumption
<1>2. TurnOK(start)
  BY DEF TurnOK
<1> SUFFICES ASSUME y # start PROVE TurnOK(y)
  BY <1>2
<1>3. PICK w \in RunSteps(start, g, card.steps) :
        y \in IF w.failed
              THEN IF card.fallback = <<>> THEN {[w EXCEPT !.store = Charge(@, g, 1)]}
                   ELSE RunSteps(w, g, card.fallback)
              ELSE {w}
  BY DEF GroupOutcomes
<1> HIDE DEF card, start
<1>4. TurnOK(w)
  BY <1>1, <1>2, <1>3, RunStepsKeeps
<1>5. CASE y = w
  BY <1>4, <1>5
<1>6. CASE y \in RunSteps(w, g, card.fallback)
  BY <1>1, <1>4, <1>6, RunStepsKeeps
<1>7. CASE y = [w EXCEPT !.store = Charge(@, g, 1)]
  <2>1. y.store = Charge(w.store, g, 1) /\ y.mission = w.mission
        /\ y = [store |-> y.store, mission |-> y.mission, window |-> y.window, any |-> y.any, failed |-> y.failed]
    BY <1>4, <1>7 DEF TurnOK
  <2>2. Settled(w.store, w.mission) /\ StoreOK(w.store) /\ Later(w.mission, w.mission)
    BY <1>4 DEF TurnOK, Settled, Later
  <2>3. Alike(w.store, Charge(w.store, g, 1))
    BY <2>2, ElsewhereAlike
  <2>4. QED
    BY <2>1, <2>2, <2>3, AlikeSettled DEF TurnOK
<1>8. QED
  BY <1>3, <1>5, <1>6, <1>7
-----------------------------------------------------------------------------
(* What a turn's own steps keep. *)

Acting(open, q) ==
  /\ open \in [Heroes -> BOOLEAN]
  /\ \A h \in Heroes : open[h] => store.life[h] = "ACTIVE" /\ \A k \in Heroes : open[k] => k = h
  /\ IsSeq(q)

\* The parked attack, if there is one, is a hero's upon a monster.
Parked(p) ==
  /\ p = [by |-> p.by, on |-> p.on, damage |-> p.damage, cost |-> p.cost,
          disrupt |-> p.disrupt, instants |-> p.instants]
  /\ p.damage \in Int
  /\ p # NoAttack => p.by \in Heroes /\ p.on \in Monsters

Staged == \A g \in Groups : stage[g] \in 1..Len(BehaviorDeck[g])

(* The inductive invariant: the mission stands decided as the store demands,   *)
(* at most one sequence is open and its hero stands, a deferred end of turn    *)
(* has its dialog, the parked attack has its hero and its monster, and each    *)
(* group is at a card of its deck.                                             *)
TurnInv ==
  /\ Settled(store, mission)
  /\ Acting(seq, queue) /\ DeferredTurnEnds
  /\ Parked(pending)
  /\ stage = [g \in Groups |-> stage[g]] /\ Staged

\* Sequences close and nobody falls.
LEMMA ActingShrinks ==
  ASSUME Acting(seq, queue), IsSeq(queue'), seq' \in [Heroes -> BOOLEAN],
         \A k \in Heroes : seq'[k] => seq[k],
         \A k \in Heroes : store'.life[k] = store.life[k]
  PROVE  Acting(seq, queue)'
  BY Zenon DEF Acting

LEMMA EndTurnCloses ==
  ASSUME seq \in [Heroes -> BOOLEAN], NEW h, NEW z, EndTurn(h, z)
  PROVE  seq' \in [Heroes -> BOOLEAN] /\ \A k \in Heroes : seq'[k] => seq[k]
<1>1. seq' = [seq EXCEPT ![h] = FALSE]
  BY DEF EndTurn
<1>2. seq' = [k \in Heroes |-> IF k = h THEN FALSE ELSE seq[k]]
  BY <1>1
<1>3. QED
  BY <1>2

LEMMA ConcludeActs ==
  ASSUME Acting(seq, queue), ends = Nobody, NEW h, NEW z, NEW q, IsSeq(q), Conclude(h, z, q),
         \A k \in Heroes : store'.life[k] = store.life[k]
  PROVE  Acting(seq, queue)' /\ DeferredTurnEnds'
<1>1. seq \in [Heroes -> BOOLEAN] /\ queue' = q
  BY DEF Acting, Conclude
<1>2. CASE q = <<>>
  <2>1. EndTurn(h, z) /\ ends' = ends
    BY <1>2 DEF Conclude
  <2>2. QED
    BY <1>1, <2>1, EndTurnCloses, ActingShrinks DEF DeferredTurnEnds
<1>3. CASE q # <<>>
  <2>1. seq' = seq
    BY <1>3 DEF Conclude
  <2>2. QED
    BY <1>1, <1>3, <2>1, ActingShrinks DEF DeferredTurnEnds
<1>4. QED
  BY <1>2, <1>3

LEMMA QuietTurn == ASSUME TurnInv, queue = <<>> PROVE ends = Nobody
  BY DEF TurnInv, DeferredTurnEnds

\* The tail of every simple action.
LEMMA SimpleActionTurns ==
  ASSUME TurnInv, queue = <<>>, NEW h \in Heroes, NEW st, NEW z, NEW ms, NEW cost,
         Settled(st, ms), \A k \in Heroes : st.life[k] = store.life[k],
         SimpleAction(h, st, z, ms, cost)
  PROVE  TurnInv'
<1> DEFINE charged == Charge(st, h, cost)
           q == queue \o Dialogs(charged, charged.area[h])
<1>1. store' = charged /\ mission' = Elapse(ms, cost) /\ Conclude(h, z, q)
      /\ pending' = pending /\ stage' = stage
  BY DEF SimpleAction
<1>2. Alike(st, charged)
  BY ElsewhereAlike DEF Settled
<1>3. Settled(store', mission')
  <2>1. Later(ms, mission')
    BY <1>1, ElapseLater DEF Settled
  <2>2. QED
    BY <1>1, <1>2, <2>1, AlikeSettled
<1>4. \A k \in Heroes : store'.life[k] = store.life[k]
  BY <1>1, <1>2 DEF Alike
<1>5. IsSeq(q)
  BY Sequences2, DialogsSeq DEF TurnInv, Acting
<1>6. Acting(seq, queue)' /\ DeferredTurnEnds'
  <2>1. Acting(seq, queue) /\ ends = Nobody
    BY QuietTurn DEF TurnInv
  <2> HIDE DEF q
  <2>2. QED
    BY <1>1, <1>4, <1>5, <2>1, ConcludeActs
<1>7. QED
  BY <1>1, <1>3, <1>6 DEF TurnInv, Parked, Staged
\* Nothing the invariant speaks of has changed.
LEMMA NothingTurns ==
  ASSUME TurnInv, UNCHANGED <<store, mission, seq, queue, ends, pending, stage>>
  PROVE  TurnInv'
  BY DEF TurnInv, Acting, DeferredTurnEnds, Parked, Staged

LEMMA SimpleActionsTurn ==
  ASSUME TurnInv, queue = <<>>, NEW h \in Heroes,
         \/ \E l \in Locations : SimpleMove(h, l)
         \/ SimpleAttack(h)
         \/ SimpleInteract(h)
         \/ \E ids \in SUBSET Deck[h] : SimpleRecover(h, ids)
  PROVE  TurnInv'
<1>1. Settled(store, mission) /\ StoreOK(store) /\ IsMission(mission) /\ Later(mission, mission)
  BY DEF TurnInv, Settled, Later
<1>2. ASSUME NEW dest \in Locations, SimpleMove(h, dest) PROVE TurnInv'
  <2> DEFINE st == [store EXCEPT !.area[h] = dest]
             ms == Arrived(mission, dest, carrier = h)
  <2>1. PICK cost : SimpleAction(h, st, hands[h], ms, cost)
    BY <1>2 DEF SimpleMove
  <2>2. Alike(store, st) /\ Later(mission, ms)
    BY <1>1, ElsewhereAlike, OutcomesLater
  <2> HIDE DEF st, ms
  <2>3. Settled(st, ms) /\ \A k \in Heroes : st.life[k] = store.life[k]
    BY <1>1, <2>2, AlikeSettled DEF Alike
  <2>4. QED
    BY <2>1, <2>3, SimpleActionTurns
<1>3. ASSUME SimpleAttack(h) PROVE TurnInv'
  <2>1. PICK t \in NearestTargets(store, store.area[h], Monsters) :
          SimpleAction(h, Strike(store, t, 1), hands[h], Eliminated(mission, Strike(store, t, 1)), AttackCost)
    BY <1>3 DEF SimpleAttack
  <2> DEFINE st == Strike(store, t, 1)
             ms == Eliminated(mission, st)
  <2>2. StoreOK(st) /\ \A k \in Heroes : st.life[k] = store.life[k]
    BY <1>1, TargetsThere, StrikeMonster
  <2>3. SimpleAction(h, st, hands[h], ms, AttackCost)
    BY <2>1
  <2> HIDE DEF st
  <2>4. Settled(st, ms)
    BY <1>1, <2>2, EliminatedSettled
  <2> HIDE DEF ms
  <2>5. QED
    BY <2>2, <2>3, <2>4, SimpleActionTurns
<1>4. ASSUME SimpleInteract(h) PROVE TurnInv'
  BY <1>1, <1>4, SimpleActionTurns DEF SimpleInteract
<1>5. ASSUME NEW ids, SimpleRecover(h, ids) PROVE TurnInv'
  <2>1. PICK z : SimpleAction(h, Heal(store, h, 1), z, mission, RecoverCost)
    BY <1>5 DEF SimpleRecover
  <2>2. Alike(store, Heal(store, h, 1))
    BY <1>1, HealAlike
  <2>3. Settled(Heal(store, h, 1), mission)
        /\ \A k \in Heroes : Heal(store, h, 1).life[k] = store.life[k]
    BY <1>1, <2>2, AlikeSettled DEF Alike
  <2>4. QED
    BY <2>1, <2>3, SimpleActionTurns
<1>6. QED
  BY <1>2, <1>3, <1>4, <1>5

\* Whose turn it is: if it is a hero's, no other hero's sequence is open; if it
\* is a group's, none is.
LEMMA WhoseTurn ==
  ASSUME Acting(seq, queue), NEW a \in NextActors
  PROVE  \A k \in Heroes : seq[k] => k = a
<1> DEFINE open == {h \in Heroes : seq[h] /\ store.life[h] = "ACTIVE"}
<1>1. \A k \in Heroes : seq[k] => k \in open /\ \A j \in Heroes : seq[j] => j = k
  BY DEF Acting
<1>2. open # {} => a \in open
  BY DEF NextActors
<1> SUFFICES ASSUME NEW k \in Heroes, seq[k] PROVE k = a
  OBVIOUS
<1>3. a \in Heroes /\ seq[a]
  BY <1>1, <1>2
<1>4. QED
  BY <1>1, <1>3

\* The hero whose turn it is may open, keep open or close his sequence.
LEMMA AdvanceActs ==
  ASSUME Acting(seq, queue), NEW h \in Heroes, MayAct(h), NEW type, IsSeq(queue'),
         seq' = [seq EXCEPT ![h] = Advance(type, @)],
         \A k \in Heroes : store'.life[k] = store.life[k]
  PROVE  Acting(seq, queue)'
<1>1. h \in NextActors /\ store.life[h] = "ACTIVE" /\ seq \in [Heroes -> BOOLEAN]
  BY DEF MayAct, Acting
<1>2. \A k \in Heroes : seq[k] => k = h
  BY <1>1, WhoseTurn
<1>3. Advance(type, seq[h]) \in BOOLEAN
  BY <1>1 DEF Advance
<1>4. seq' = [k \in Heroes |-> IF k = h THEN Advance(type, seq[h]) ELSE seq[k]]
  BY <1>1
<1>5. seq' \in [Heroes -> BOOLEAN]
  BY <1>1, <1>3, <1>4
<1>6. \A k \in Heroes : seq'[k] => k = h
  BY <1>2, <1>4
<1>7. QED
  BY <1>1, <1>5, <1>6 DEF Acting
\* An attack is parked by a hero upon a monster.
LEMMA ParkParks ==
  ASSUME NEW h \in Heroes, NEW t \in Monsters, NEW damage \in Int, NEW cost, NEW disrupt, NEW hs,
         Park(h, t, damage, cost, disrupt, hs)
  PROVE  Parked(pending')
<1> DEFINE some == Eligible(hs, "DAMAGED") # {}
<1>1. pending' = [by |-> h, on |-> t, damage |-> damage, cost |-> cost, disrupt |-> disrupt, instants |-> some]
  BY DEF Park
<1> HIDE DEF some
<1>2. QED
  BY <1>1 DEF Parked

LEMMA TargetsMonsters ==
  ASSUME NEW st, NEW adj, NEW l, NEW range
  PROVE  /\ ValidTargets(st, l, Monsters) \subseteq Monsters
         /\ TargetsInRange(st, adj, l, Monsters, range) \subseteq Monsters
         /\ FindNearest(st, adj, l, Monsters, range) \subseteq Monsters
<1>1. \A x : ValidTargets(st, x, Monsters) \subseteq Monsters
  BY DEF ValidTargets, Present
<1>2. \A x : NearestTargets(st, x, Monsters) \subseteq Monsters
  BY TargetsThere
<1>3. TargetsInRange(st, adj, l, Monsters, range) \subseteq Monsters
  BY <1>1 DEF TargetsInRange
<1>4. FindNearest(st, adj, l, Monsters, range) \subseteq Monsters
  <2> DEFINE hops == {n \in 0..range : TargetsInRange(st, adj, l, Monsters, n) # {}}
             near == UNION {NearestTargets(st, x, Monsters) : x \in Ball(adj, l, Least(hops))}
  <2>1. FindNearest(st, adj, l, Monsters, range) = IF hops = {} THEN {} ELSE near
    BY DEF FindNearest
  <2>2. near \subseteq Monsters
    BY <1>2
  <2> HIDE DEF hops, near
  <2>3. QED
    BY <2>1, <2>2
<1>5. QED
  BY <1>1, <1>3, <1>4

LEMMA PlayCardTurns ==
  ASSUME TurnInv, queue = <<>>, NEW h \in Heroes, NEW c, NEW dest, NEW ids, NEW target,
         PlayCard(h, c, dest, ids, target)
  PROVE  TurnInv'
<1> DEFINE card == Card[c]
           paths == CardPaths(h, card, dest)
<1>1. Settled(store, mission) /\ StoreOK(store) /\ IsMission(mission) /\ Later(mission, mission)
      /\ Acting(seq, queue) /\ ends = Nobody
  BY QuietTurn DEF TurnInv, Settled, Later
<1>2. /\ MayAct(h) /\ c \in DOMAIN Card
      /\ target # Nobody => target \in CardTargets(h, card, dest)
      /\ ends' = ends /\ stage' = stage
  BY DEF PlayCard, Playable
<1>3. card.damage \in Int /\ card.heal \in Int
  BY <1>2, CardAssumption
<1>4. PICK path, cost, z :
        LET to == path[Len(path)]
            st == Charge(SelfEffects([store EXCEPT !.area[h] = to], h, card), h, cost)
        IN  /\ store' = st
            /\ mission' = Elapse(IF paths = {} THEN mission ELSE Arrived(mission, to, carrier = h), cost)
            /\ queue' = queue \o Dialogs(st, to)
            /\ AfterCard(h, card, z, st, ids, target)
  BY DEF PlayCard
<1> DEFINE to == path[Len(path)]
           moved == [store EXCEPT !.area[h] = to]
           self == SelfEffects(moved, h, card)
           st == Charge(self, h, cost)
           ms == IF paths = {} THEN mission ELSE Arrived(mission, to, carrier = h)
<1>5. /\ store' = st /\ mission' = Elapse(ms, cost)
      /\ queue' = queue \o Dialogs(st, to) /\ AfterCard(h, card, z, st, ids, target)
  BY <1>4
<1>6. Alike(store, st)
  <2>1. Alike(store, moved)
    BY <1>1, ElsewhereAlike
  <2> HIDE DEF moved
  <2>2. Alike(moved, self)
    BY <1>3, <2>1, SelfAlike DEF Alike
  <2> HIDE DEF self
  <2>3. StoreOK(self)
    BY <2>2 DEF Alike
  <2>4. Alike(self, st)
    BY <2>3, ElsewhereAlike
  <2>5. QED
    BY <2>1, <2>2, <2>4 DEF Alike
<1>7. Later(mission, mission')
  <2>1. Later(mission, ms)
    BY <1>1, OutcomesLater
  <2> HIDE DEF ms
  <2>2. Later(ms, mission')
    BY <1>5, <2>1, ElapseLater DEF Later
  <2>3. QED
    BY <2>1, <2>2 DEF Later
<1>8. IsSeq(queue')
  BY <1>1, <1>5, Sequences2, DialogsSeq DEF Acting
<1> HIDE DEF card, paths, to, moved, self, st, ms
<1>9. Settled(store', mission') /\ \A k \in Heroes : store'.life[k] = store.life[k]
  BY <1>1, <1>5, <1>6, <1>7, AlikeSettled DEF Alike
<1>10. Acting(seq, queue)'
  <2>1. CASE seq' = [seq EXCEPT ![h] = Advance(card.type, @)]
    BY <1>1, <1>2, <1>8, <1>9, <2>1, AdvanceActs
  <2>2. CASE EndTurn(h, z)
    <3>1. seq' \in [Heroes -> BOOLEAN] /\ \A k \in Heroes : seq'[k] => seq[k]
      BY <1>1, <2>2, EndTurnCloses DEF Acting
    <3>2. QED
      BY <1>1, <1>8, <1>9, <3>1, ActingShrinks
  <2>3. QED
    BY <1>5, <2>1, <2>2 DEF AfterCard
<1>11. Parked(pending')
  <2>1. CASE pending' = pending
    BY <2>1 DEF TurnInv
  <2>2. CASE \E t \in Monsters : \E hs : Park(h, t, card.damage, 0, card.disrupt, hs)
    BY <1>3, <2>2, ParkParks DEF card
  <2>3. target # Nobody => target \in Monsters
    BY <1>2, TargetsMonsters DEF CardTargets
  <2>4. FindNearest(st, Adj, st.area[h], Monsters, card.range) \subseteq Monsters
    BY TargetsMonsters
  <2>5. QED
    BY <1>5, <2>1, <2>2, <2>3, <2>4 DEF AfterCard
<1>12. DeferredTurnEnds'
  BY <1>1, <1>2 DEF DeferredTurnEnds
<1>13. QED
  BY <1>2, <1>9, <1>10, <1>11, <1>12 DEF TurnInv, Staged

LEMMA HeroCommandTurns ==
  ASSUME TurnInv, NEW h \in Heroes, HeroCommand(h)
  PROVE  TurnInv'
<1>1. ASSUME Accepts("simple_action") PROVE queue = <<>>
  BY <1>1 DEF Accepts
<1>2. ASSUME Accepts("play_card") PROVE queue = <<>>
  BY <1>2 DEF Accepts
<1>3. ASSUME NEW t \in Monsters, DeclareAttack(h, t) PROVE TurnInv'
  <2>1. Parked(pending')
    <3>1. Park(h, t, 1, AttackCost, FALSE, hands)
      BY <1>3 DEF DeclareAttack
    <3>2. 1 \in Int
      OBVIOUS
    <3>3. QED
      BY <3>1, <3>2, ParkParks, Zenon
  <2>2. UNCHANGED <<store, mission, seq, queue, ends, stage>>
    BY <1>3 DEF DeclareAttack, board
  <2>3. QED
    BY <2>1, <2>2 DEF TurnInv, Acting, DeferredTurnEnds, Staged
<1>4. ASSUME StopSequence(h) PROVE TurnInv'
  <2>1. EndTurn(h, hands[h]) /\ UNCHANGED <<store, mission, queue, ends, pending, stage>>
    BY <1>4 DEF StopSequence, board, dialogs
  <2>2. seq' \in [Heroes -> BOOLEAN] /\ \A k \in Heroes : seq'[k] => seq[k]
    BY <2>1, EndTurnCloses DEF TurnInv, Acting
  <2>3. Acting(seq, queue)'
    BY <2>1, <2>2, ActingShrinks DEF TurnInv, Acting
  <2>4. QED
    BY <2>1, <2>3 DEF TurnInv, DeferredTurnEnds, Parked, Staged
<1>5. QED
  BY <1>1, <1>2, <1>3, <1>4, SimpleActionsTurn, PlayCardTurns DEF HeroCommand
\* The instants that answer an attack go before it; they knock out no hero.
LEMMA PlayInstantsTurns ==
  ASSUME TurnInv, NEW sel, PlayInstants(sel)
  PROVE  TurnInv'
<1>1. Settled(store, mission) /\ IsSeq(queue) /\ Parked(pending) /\ Acting(seq, queue)
  BY DEF TurnInv, Acting
<1>2. sel \in Selections("DAMAGED") /\ pending.instants
  BY DEF PlayInstants
<1>3. PICK w \in Answers(sel, Monsters, FALSE) :
        /\ store' = w.store /\ mission' = w.mission
        /\ pending' = [pending EXCEPT !.damage = w.damage, !.instants = FALSE]
  BY DEF PlayInstants
<1>4. AnswerOK(w, store.life)
  <2>1. pending.damage \in Int
    BY <1>1 DEF Parked
  <2>2. QED
    BY <1>1, <1>2, <1>3, <2>1, AnswersKeep
<1>5. pending # NoAttack
  BY <1>2 DEF NoAttack
<1>6. Parked(pending')
  <2>1. pending.by \in Heroes /\ pending.on \in Monsters /\ w.damage \in Int
    BY <1>1, <1>4, <1>5 DEF Parked, AnswerOK
  <2>2. pending = [by |-> pending.by, on |-> pending.on, damage |-> pending.damage, cost |-> pending.cost,
                   disrupt |-> pending.disrupt, instants |-> pending.instants]
    BY <1>1 DEF Parked
  <2>3. pending' = [by |-> pending.by, on |-> pending.on, damage |-> w.damage, cost |-> pending.cost,
                    disrupt |-> pending.disrupt, instants |-> FALSE]
    BY <1>3, <2>2
  <2>4. QED
    BY <2>1, <2>3 DEF Parked
<1>7. Settled(store', mission') /\ \A k \in Heroes : store'.life[k] = store.life[k]
  BY <1>3, <1>4 DEF AnswerOK
<1>8. UNCHANGED <<seq, queue, ends, stage>>
  BY DEF PlayInstants
<1>9. Acting(seq, queue)'
  BY <1>1, <1>7, <1>8, ActingShrinks DEF Acting
<1>10. QED
  BY <1>6, <1>7, <1>8, <1>9 DEF TurnInv, DeferredTurnEnds, Staged

LEMMA PlayReactiveTurns ==
  ASSUME TurnInv, queue = <<>>, NEW sel, PlayReactive(sel)
  PROVE  TurnInv'
<1>1. Settled(store, mission) /\ IsSeq(queue) /\ Acting(seq, queue) /\ ends = Nobody
      /\ pending.damage \in Int
  BY QuietTurn DEF TurnInv, Acting, Parked
<1>2. PICK w \in Answers(sel, {}, TRUE) : store' = w.store /\ mission' = w.mission /\ queue' = w.queue
  BY DEF PlayReactive
<1>3. AnswerOK(w, store.life)
  <2>1. sel \in Selections("APPROACH")
    BY DEF PlayReactive
  <2>2. QED
    BY <1>1, <1>2, <2>1, AnswersKeep
<1>4. /\ Settled(store', mission') /\ IsSeq(queue')
      /\ \A k \in Heroes : store'.life[k] = store.life[k]
  BY <1>2, <1>3 DEF AnswerOK
<1>5. UNCHANGED <<seq, ends, pending, stage>>
  BY DEF PlayReactive
<1>6. Acting(seq, queue)'
  BY <1>1, <1>4, <1>5, ActingShrinks DEF Acting
<1>7. QED
  BY <1>1, <1>4, <1>5, <1>6 DEF TurnInv, DeferredTurnEnds, Parked, Staged

LEMMA ReactDefenseTurns ==
  ASSUME TurnInv, queue = <<>>, NEW reaction, ReactDefense(reaction)
  PROVE  TurnInv'
<1> DEFINE h == pending.by
           on == pending.on
           damage == CASE reaction = "TAKE" -> pending.damage
                       [] reaction = "BLOCK" -> pending.damage - BlockReduction
                       [] OTHER -> 0
           stood == IF reaction = "DODGE" THEN [store EXCEPT !.line[on] = "BACK"] ELSE store
           hit == IF damage > 0 THEN Strike(stood, on, damage) ELSE stood
           st == Charge(hit, h, pending.cost)
           ms == Eliminated(mission, st)
           at == st.area[h]
           asked == queue \o Dialogs(st, at)
           disrupted == WithoutMonsters(asked, at)
                          \o (IF Present(st, at, Monsters) = {} THEN <<>> ELSE <<Dialog(st, at, Monsters)>>)
           q == IF pending.disrupt THEN disrupted ELSE asked
<1>1. Settled(store, mission) /\ StoreOK(store) /\ Acting(seq, queue) /\ ends = Nobody /\ Parked(pending)
  BY QuietTurn DEF TurnInv, Settled
<1>2. /\ pending # NoAttack
      /\ store' = st /\ mission' = Elapse(ms, pending.cost) /\ pending' = NoAttack
      /\ Conclude(h, hands[h], q) /\ stage' = stage
  BY DEF ReactDefense
<1>3. h \in Heroes /\ on \in Monsters /\ damage \in Int
  <2>1. pending.by \in Heroes /\ pending.on \in Monsters /\ pending.damage \in Int
    BY <1>1, <1>2 DEF Parked
  <2>2. QED
    BY <2>1 DEF BlockReduction
<1> HIDE DEF damage, on
<1>4. Alike(store, stood)
  <2>1. Alike(store, store)
    BY <1>1 DEF Alike
  <2>2. Alike(store, [store EXCEPT !.line[on] = "BACK"])
    BY <1>1, ElsewhereAlike
  <2>3. QED
    BY <2>1, <2>2
<1> HIDE DEF stood
<1>5. StoreOK(hit) /\ \A k \in Heroes : hit.life[k] = store.life[k]
  <2>1. StoreOK(stood) /\ \A k \in Heroes : stood.life[k] = store.life[k]
    BY <1>4 DEF Alike
  <2>2. /\ StoreOK(Strike(stood, on, damage))
        /\ \A k \in Heroes : Strike(stood, on, damage).life[k] = stood.life[k]
    BY <1>3, <2>1, StrikeMonster
  <2>3. QED
    BY <2>1, <2>2
<1> HIDE DEF hit
<1>6. Alike(hit, st)
  BY <1>5, ElsewhereAlike
<1>7. IsSeq(q)
  <2>1. IsSeq(asked)
    BY <1>1, Sequences2, DialogsSeq DEF Acting
  <2> HIDE DEF asked
  <2>2. IsSeq(WithoutMonsters(asked, at))
    BY <2>1, KeptSeq
  <2>3. IsSeq(IF Present(st, at, Monsters) = {} THEN <<>> ELSE <<Dialog(st, at, Monsters)>>)
    BY ShortSequences
  <2>4. IsSeq(disrupted)
    BY <2>2, <2>3, Sequences2
  <2> HIDE DEF disrupted
  <2>5. QED
    BY <2>1, <2>4
<1> HIDE DEF st, h, q
<1>8. StoreOK(st) /\ \A k \in Heroes : st.life[k] = store.life[k]
  BY <1>5, <1>6 DEF Alike
<1>9. Settled(st, ms)
  BY <1>1, <1>8, EliminatedSettled
<1> HIDE DEF ms
<1>10. Settled(store', mission')
  <2>1. Alike(st, st) /\ Later(ms, mission')
    BY <1>2, <1>8, <1>9, ElapseLater DEF Alike, Settled
  <2>2. QED
    BY <1>2, <1>9, <2>1, AlikeSettled
<1>11. \A k \in Heroes : store'.life[k] = store.life[k]
  BY <1>2, <1>8
<1>12. Acting(seq, queue)' /\ DeferredTurnEnds'
  BY <1>1, <1>2, <1>7, <1>11, ConcludeActs
<1>13. Parked(pending')
  BY <1>2 DEF Parked, NoAttack
<1>14. QED
  BY <1>2, <1>10, <1>12, <1>13 DEF TurnInv, Staged

LEMMA ResolveFormationTurns ==
  ASSUME TurnInv, NEW back, ResolveFormation(back)
  PROVE  TurnInv'
<1> DEFINE there == Present(store, Head(queue).at, Head(queue).side)
           line == [a \in Actors |-> IF a \notin there THEN store.line[a] ELSE IF a \in back THEN "BACK" ELSE "FRONT"]
<1>1. Settled(store, mission) /\ StoreOK(store) /\ Acting(seq, queue) /\ Later(mission, mission)
  BY DEF TurnInv, Settled, Later
<1>2. /\ queue # <<>> /\ queue' = Tail(queue)
      /\ store' = [store EXCEPT !.line = line]
      /\ UNCHANGED <<pending, stage, mission>>
      /\ IF Tail(queue) = <<>> /\ ends # Nobody
         THEN EndTurn(ends, hands[ends]) /\ ends' = Nobody
         ELSE UNCHANGED <<seq, hands, ends>>
  BY DEF ResolveFormation
<1> HIDE DEF line
<1>3. Alike(store, store')
  <2>1. IsStore(store') /\ store'.hp = store.hp /\ store'.life = store.life
        /\ store'.members = store.members /\ store'.gone = store.gone
    BY <1>1, <1>2 DEF StoreOK, IsStore
  <2>2. QED
    BY <1>1, <2>1 DEF Alike, StoreOK, StoreTypes, Buried
<1>4. Settled(store', mission') /\ \A k \in Heroes : store'.life[k] = store.life[k]
  BY <1>1, <1>2, <1>3, AlikeSettled DEF Alike
<1>5. IsSeq(queue')
  BY <1>1, <1>2, Sequences2 DEF Acting
<1>6. Acting(seq, queue)'
  <2>1. CASE EndTurn(ends, hands[ends])
    <3>1. seq' \in [Heroes -> BOOLEAN] /\ \A k \in Heroes : seq'[k] => seq[k]
      BY <1>1, <2>1, EndTurnCloses DEF Acting
    <3>2. QED
      BY <1>1, <1>4, <1>5, <3>1, ActingShrinks
  <2>2. CASE seq' = seq
    BY <1>1, <1>4, <1>5, <2>2, ActingShrinks DEF Acting
  <2>3. QED
    BY <1>2, <2>1, <2>2
<1>7. DeferredTurnEnds'
  BY <1>2 DEF DeferredTurnEnds
<1>8. QED
  BY <1>2, <1>4, <1>6, <1>7 DEF TurnInv, Parked, Staged

LEMMA AnsweringTurns ==
  ASSUME TurnInv, Answering
  PROVE  TurnInv'
<1>1. ASSUME Accepts("react_defense") \/ Accepts("play_reactive_instants") PROVE queue = <<>>
  BY <1>1 DEF Accepts
<1>2. QED
  BY <1>1, PlayInstantsTurns, PlayReactiveTurns, ReactDefenseTurns, ResolveFormationTurns DEF Answering

\* No sequence is open when a group plays, whoever falls by it.
LEMMA GroupTurnTurns ==
  ASSUME TurnInv, NEW g \in Groups, GroupTurn(g)
  PROVE  TurnInv'
<1>1. Settled(store, mission) /\ Acting(seq, queue) /\ DeferredTurnEnds /\ Staged
      /\ stage = [k \in Groups |-> stage[k]]
  BY DEF TurnInv
<1>2. /\ g \in NextActors
      /\ stage' = [stage EXCEPT ![g] = (@ % Len(BehaviorDeck[g])) + 1]
      /\ UNCHANGED <<seq, pending, ends>>
  BY DEF GroupTurn
<1>3. PICK w \in GroupOutcomes(g) :
        store' = w.store /\ mission' = w.mission /\ queue' = queue \o SquadDialogs(w.store, g)
  BY DEF GroupTurn
<1>4. Settled(store', mission')
  <2>1. stage[g] \in 1..Len(BehaviorDeck[g])
    BY <1>1 DEF Staged
  <2>2. QED
    BY <1>1, <1>3, <2>1, GroupOutcomesKeep DEF TurnOK
<1>5. IsSeq(queue') /\ (queue # <<>> => queue' # <<>>)
  <2>1. IsSeq(queue) /\ IsSeq(SquadDialogs(w.store, g))
    BY <1>1, SquadDialogsSeq DEF Acting
  <2>2. QED
    BY <1>3, <2>1, Sequences2
<1>6. Acting(seq, queue)'
  <2>1. g \notin Heroes
    BY SquadAssumption
  <2>2. \A k \in Heroes : ~seq[k]
    BY <1>1, <1>2, <2>1, WhoseTurn
  <2>3. QED
    BY <1>1, <1>2, <1>5, <2>2 DEF Acting
<1>7. DeferredTurnEnds'
  BY <1>1, <1>2, <1>5 DEF DeferredTurnEnds
<1>8. stage' = [k \in Groups |-> stage'[k]] /\ Staged'
  <2>1. Len(BehaviorDeck[g]) \in Nat \ {0} /\ stage[g] \in 1..Len(BehaviorDeck[g])
    BY <1>1, BehaviorAssumption DEF Staged
  <2>2. (stage[g] % Len(BehaviorDeck[g])) + 1 \in 1..Len(BehaviorDeck[g])
    BY <2>1
  <2>3. \A k \in Groups : stage'[k] = IF k = g THEN (stage[g] % Len(BehaviorDeck[g])) + 1 ELSE stage[k]
    BY <1>1, <1>2
  <2>4. stage' = [k \in Groups |-> stage'[k]]
    BY <1>1, <1>2
  <2>5. QED
    BY <1>1, <2>2, <2>3, <2>4 DEF Staged
<1>9. QED
  BY <1>2, <1>4, <1>6, <1>7, <1>8 DEF TurnInv, Parked
\* A mission that has just been loaded, the first one or the next.
LEMMA FreshSettled == Settled(FreshStore, FreshMission)
<1> DEFINE st == FreshStore
<1>1. /\ IsStore(st) /\ st.hp = MaxHp /\ st.life = [a \in Actors |-> "ACTIVE"]
      /\ st.members = [g \in Groups |-> Members(g)] /\ st.gone = {}
  BY DEF FreshStore, IsStore
<1> HIDE DEF st
<1>2. \A g \in Groups : \A m \in Members(g) : m \in Actors
  BY SquadMembers DEF Actors
<1>3. StoreTypes(st)
  BY <1>1, SquadMembers, SquadAssumption DEF StoreTypes, Lives
<1>4. Buried(st)
  <2>1. \A g \in Groups : st.members[g] = Members(g) /\ \A m \in Members(g) : st.life[m] # "DEAD"
    BY <1>1, <1>2
  <2>2. QED
    BY <1>1, <2>1 DEF Buried
<1>5. Heroes # {} => ~Fallen(st)
  BY <1>1 DEF Fallen, Actors
<1>6. QED
  BY <1>1, <1>3, <1>4, <1>5 DEF Settled, StoreOK, IsMission, FreshMission, st

LEMMA InitTurns == Init => TurnInv
<1> SUFFICES ASSUME Init PROVE TurnInv
  OBVIOUS
<1>1. Settled(store, mission)
  BY FreshSettled DEF Init
<1>2. Acting(seq, queue) /\ DeferredTurnEnds
  BY ShortSequences DEF Init, Acting, DeferredTurnEnds
<1>3. Parked(pending)
  BY DEF Init, Parked, NoAttack
<1>4. stage = [g \in Groups |-> stage[g]] /\ Staged
  BY BehaviorAssumption DEF Init, Staged
<1>5. QED
  BY <1>1, <1>2, <1>3, <1>4 DEF TurnInv

LEMMA StepTurns == TurnInv /\ [Next]_vars => TurnInv'
<1> SUFFICES ASSUME TurnInv, [Next]_vars PROVE TurnInv'
  OBVIOUS
<1>1. ASSUME StartMission PROVE TurnInv'
  <2>1. /\ store' = FreshStore /\ mission' = FreshMission /\ seq' = [h \in Heroes |-> FALSE]
        /\ pending' = NoAttack /\ queue' = <<>> /\ ends' = Nobody /\ stage' = [g \in Groups |-> 1]
    BY <1>1 DEF StartMission, NewEngine
  <2>2. Settled(store', mission')
    BY <2>1, FreshSettled
  <2>3. Acting(seq, queue)' /\ DeferredTurnEnds'
    BY <2>1, ShortSequences DEF Acting, DeferredTurnEnds
  <2>4. Parked(pending')
    BY <2>1 DEF Parked, NoAttack
  <2>5. stage' = [g \in Groups |-> stage'[g]] /\ Staged'
    BY <2>1, BehaviorAssumption DEF Staged
  <2>6. QED
    BY <2>2, <2>3, <2>4, <2>5 DEF TurnInv
<1>2. ASSUME AdvanceAuto PROVE TurnInv'
  BY <1>2, GroupTurnTurns DEF AdvanceAuto
<1>3. ASSUME NEW h \in Heroes, DeckCommand(h) PROVE TurnInv'
  BY <1>3, NothingTurns
  DEF DeckCommand, DeckDraw, DeckDiscard, DeckTakeDiscard, DeckReshuffle, Deal, board, dialogs
<1>4. ASSUME UNCHANGED vars PROVE TurnInv'
  BY <1>4, NothingTurns DEF vars, board, dialogs
<1>5. QED
  BY <1>1, <1>2, <1>3, <1>4, AnsweringTurns, HeroCommandTurns DEF Next

(* The inductive invariant of stores, turns and windows holds throughout.      *)
THEOREM TurnInvariant == Spec => []TurnInv
  BY InitTurns, StepTurns, PTL DEF Spec

(* Between the cards of one sequence no other hero opens one and no group      *)
(* plays: whatever windows and dialogs open meanwhile, at most one sequence is *)
(* open and its hero is on his feet (EldhomEngine::next_actor, play_card and   *)
(* the server's advance_auto).                                                 *)
THEOREM SequenceNeverInterrupted == Spec => []SequenceKeepsTurn
<1>1. TurnInv => SequenceKeepsTurn
  BY DEF TurnInv, Acting, SequenceKeepsTurn
<1>2. QED
  BY <1>1, TurnInvariant, PTL

(* A turn whose end was put off still has a dialog in the queue to end it, for *)
(* every order of the commands that queue dialogs and of the answers that take *)
(* them away (conclude_turn, resolve_reaction and resolve_formation).          *)
THEOREM DeferredTurnsEnd == Spec => []DeferredTurnEnds
<1>1. TurnInv => DeferredTurnEnds
  BY DEF TurnInv
<1>2. QED
  BY <1>1, TurnInvariant, PTL

\* A mission somebody plays, against somebody.
Staffed ==
  /\ Heroes # {} /\ Groups # {}
  /\ \A g \in Groups : Squad[g] # <<>>

(* In every mission with heroes and monsters, a group has left the timeline    *)
(* exactly when its whole squad is dead; a mission whose file counts           *)
(* ALL_MONSTERS_ELIMINATED a victory is over once the last group has left, and *)
(* one whose file counts ALL_PG_KO a defeat once the last hero is down.  A     *)
(* mission without the condition may run on, and the theorem does not say that *)
(* it ends (handle_monster_instance_death, notify_group_eliminated and         *)
(* notify_pg_ko).                                                              *)
THEOREM MissionAlwaysDecided ==
  ASSUME Staffed
  PROVE  Spec => []MissionDecided
<1>1. TurnInv => MissionDecided
  <2> SUFFICES ASSUME TurnInv PROVE MissionDecided
    OBVIOUS
  <2>1. Settled(store, mission) /\ Buried(store)
    BY DEF TurnInv, Settled, StoreOK
  <2>2. ASSUME NEW g \in Groups
        PROVE  g \in store.gone <=> \A i \in 1..Len(Squad[g]) : store.life[Squad[g][i]] = "DEAD"
    <3>1. Members(g) # {}
      <4>1. Squad[g] \in Seq(Monsters) /\ Squad[g] # <<>>
        BY SquadAssumption DEF Staffed
      <4>2. 1 \in 1..Len(Squad[g])
        BY <4>1
      <4>3. QED
        BY <4>2 DEF Members
    <3>2. g \in store.gone <=> {m \in Members(g) : store.life[m] # "DEAD"} = {}
      BY <2>1, <3>1 DEF Buried
    <3>3. g \in store.gone <=> \A m \in Members(g) : store.life[m] = "DEAD"
      BY <3>2
    <3>4. QED
      BY <3>3 DEF Members
  <2>3. (Elimination /\ store.gone = Groups => mission.outcome # "PLAYING")
        /\ (LastStand /\ Fallen(store) => mission.outcome # "PLAYING")
    BY <2>1 DEF Staffed, Settled, Over
  <2>4. QED
    BY <2>2, <2>3 DEF MissionDecided, Fallen
<1>2. QED
  BY <1>1, TurnInvariant, PTL
=============================================================================
