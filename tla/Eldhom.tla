------------------------------- MODULE Eldhom -------------------------------
(* EldhomEngine: turns on a common timeline, cards and sequences, attacks that *)
(* wait for the defender's reaction, formation dialogs, monster groups.  One   *)
(* action per operation of the engine; an operation it refuses changes nothing *)
(* and is no step.                                                             *)
EXTENDS EldhomRules, HeroHand

CONSTANTS
  Deck,          \* [Heroes -> set of cards], the mission decks
  Card,          \* [card -> its catalog entry], of every card that is known
  HandLimit,     \* [Heroes -> hand limit]
  Rank,          \* [Groups -> tie-break rank]; a hero's rank is 1
  Start,         \* [area, line: Actors -> ..., pos: Heroes \cup Groups -> Nat]
  BehaviorDeck,  \* [Groups -> Seq of behaviour cards]
  Objects,       \* [object -> [at, unlocks, treasure]]
  MaxSelected    \* the most instants one answer names

\* Integers and flags of the cards.
ASSUME CardAssumption ==
  /\ \A c \in DOMAIN Card :
       /\ {Card[c].damage, Card[c].heal, Card[c].cost, Card[c].reduce} \subseteq Int
       /\ Card[c].disrupt \in BOOLEAN
  /\ MaxSelected \in Nat

\* Every group has behaviour cards, each with a list of steps and a fallback.
ASSUME BehaviorAssumption ==
  \A g \in Groups :
    /\ Len(BehaviorDeck[g]) \in Nat \ {0}
    /\ \A i \in 1..Len(BehaviorDeck[g]) :
         \A steps \in {BehaviorDeck[g][i].steps, BehaviorDeck[g][i].fallback} :
           Len(steps) \in Nat /\ \A k \in 1..Len(steps) : steps[k].amount \in Int

VARIABLES
  store,    \* the actor store: area, line, hp, life, pos, members, gone
  doors,    \* _opened_zone_doors
  used,     \* special objects already triggered
  carrier,  \* _tesoro_carrier
  seq,      \* per hero: is a sequence open?
  hands,    \* _hand_states
  pending,  \* the parked attack
  window,   \* is the reactive window open?
  queue,    \* _formation_queue
  ends,     \* _formation_turn_hero: whose turn ends with the last dialog
  stage,    \* per group: the current card of its behaviour deck
  mission   \* clock and outcome

board == <<store, doors, used, carrier>>
dialogs == <<pending, window, queue, ends>>
vars == <<board, seq, hands, dialogs, stage, mission>>

Nobody == "nobody"
NoAttack == [by |-> Nobody, on |-> Nobody, damage |-> 0, cost |-> 0, disrupt |-> FALSE, instants |-> FALSE]
BlockReduction == 1
MoveCost == 2
AttackCost == 2
InteractCost == 3
RecoverCost == 3

FreshStore == [area |-> Start.area, line |-> Start.line, pos |-> Start.pos, hp |-> MaxHp,
               life |-> [a \in Actors |-> "ACTIVE"], members |-> [g \in Groups |-> Members(g)], gone |-> {}]
FreshHands == {hs \in [Heroes -> UNION {Dealt(Deck[h], HandLimit[h]) : h \in Heroes}] :
                 \A h \in Heroes : hs[h] \in Dealt(Deck[h], HandLimit[h])}
FreshMission == [clock |-> 0, outcome |-> "PLAYING"]

Init ==
  /\ store = FreshStore /\ doors = {} /\ used = {} /\ carrier = Nobody
  /\ seq = [h \in Heroes |-> FALSE] /\ hands \in FreshHands
  /\ pending = NoAttack /\ window = FALSE /\ queue = <<>> /\ ends = Nobody
  /\ stage = [g \in Groups |-> 1] /\ mission = FreshMission

\* handle_start_mission: a new engine takes the place of the old one.
NewEngine ==
  /\ store' = FreshStore /\ doors' = {} /\ used' = {} /\ carrier' = Nobody
  /\ seq' = [h \in Heroes |-> FALSE] /\ hands' \in FreshHands
  /\ pending' = NoAttack /\ window' = FALSE /\ queue' = <<>> /\ ends' = Nobody
  /\ stage' = [g \in Groups |-> 1] /\ mission' = FreshMission

-----------------------------------------------------------------------------
(* Whose turn it is, and how a turn ends. *)

\* Mutant: an open sequence does not hold the turn.
NextByTime ==
  LET ready == {h \in Heroes : store.life[h] = "ACTIVE"} \cup (Groups \ store.gone)
  IN  {a \in ready : \A b \in ready : store.pos[a] <= store.pos[b]}

\* next_actor: the hero of an open sequence, else the lowest on the timeline.
NextActors ==
  LET open == {h \in Heroes : seq[h] /\ store.life[h] = "ACTIVE"}
      ready == {h \in Heroes : store.life[h] = "ACTIVE"} \cup (Groups \ store.gone)
      rank(a) == IF a \in Heroes THEN 1 ELSE Rank[a]
      before(a, b) == store.pos[a] < store.pos[b] \/ (store.pos[a] = store.pos[b] /\ rank(a) <= rank(b))
  IN  IF open # {} THEN open ELSE {a \in ready : \A b \in ready : before(a, b)}

MayAct(h) == mission.outcome = "PLAYING" /\ h \in NextActors /\ store.life[h] = "ACTIVE"

\* The rule adapter's adjacency, with what special objects unlocked.
Adj == [l \in Locations |-> Adjacent[l] \cup {b \in Locations : \E o \in used : <<l, b>> \in Objects[o].unlocks}]

EndTurn(h, z) ==
  /\ seq' = [seq EXCEPT ![h] = FALSE]
  /\ \E y \in TurnOver(z, HandLimit[h]) : hands' = [hands EXCEPT ![h] = y]

\* Mutant: the end of the turn is put off, dialogs or not.
ConcludeLater(h, z, q) ==
  queue' = q /\ ends' = h /\ hands' = [hands EXCEPT ![h] = z] /\ UNCHANGED seq

\* The end of the turn waits for the dialogs, if any are queued.
Conclude(h, z, q) ==
  /\ queue' = q
  /\ IF q = <<>> THEN EndTurn(h, z) /\ UNCHANGED ends
     ELSE ends' = h /\ hands' = [hands EXCEPT ![h] = z] /\ UNCHANGED seq

Charge(st, a, cost) == [st EXCEPT !.pos[a] = @ + cost]

\* The tail of do_simple_action: cost, formation check, end of turn.
SimpleAction(h, st, z, ms, cost) ==
  LET charged == Charge(st, h, cost)
  IN  /\ store' = charged
      /\ mission' = Elapse(ms, cost)
      /\ Conclude(h, z, queue \o Dialogs(charged, charged.area[h]))
      /\ UNCHANGED <<pending, window, stage>>

SimpleMove(h, dest) ==
  /\ MayAct(h)
  /\ \E path \in Routes(store, Adj, store.area[h], dest, 2, FALSE) :
       LET opened == Doors(path) \ doors
       IN  /\ doors' = doors \cup opened
           /\ SimpleAction(h, [store EXCEPT !.area[h] = dest], hands[h],
                           Arrived(mission, dest, carrier = h), MoveCost + Cardinality(opened))
  /\ UNCHANGED <<used, carrier>>

SimpleAttack(h) ==
  /\ MayAct(h)
  /\ \E t \in NearestTargets(store, store.area[h], Monsters) :
       LET st == Strike(store, t, 1)
       IN  SimpleAction(h, st, hands[h], Eliminated(mission, st), AttackCost)
  /\ UNCHANGED <<doors, used, carrier>>

\* trigger_special_object: one object of the hero's location, once.
Touch(h, l) ==
  LET found == {o \in DOMAIN Objects \ used : Objects[o].at = l}
  IN  IF found = {} THEN UNCHANGED <<used, carrier>>
      ELSE \E o \in found : /\ used' = used \cup {o}
                            /\ carrier' = IF Objects[o].treasure THEN h ELSE carrier

SimpleInteract(h) ==
  /\ MayAct(h)
  /\ Touch(h, store.area[h])
  /\ SimpleAction(h, store, hands[h], mission, InteractCost)
  /\ UNCHANGED doors

\* Recovering, a hero swaps up to one card, two from the backline.  An id that
\* is not in the hand is passed over, and a card is drawn for it all the same.
SwapLimit(st, h, n) == IF st.line[h] = "BACK" THEN 2 * n ELSE n

SimpleRecover(h, ids) ==
  /\ MayAct(h)
  /\ ids \subseteq Deck[h] /\ Cardinality(ids) <= SwapLimit(store, h, 1)
  /\ \E z \in Swap(hands[h], ids) : SimpleAction(h, Heal(store, h, 1), z, mission, RecoverCost)
  /\ UNCHANGED <<doors, used, carrier>>

-----------------------------------------------------------------------------
(* Cards. *)

\* SequenceEngine: can_play, advance and is_turn_ending.
CanPlay(type, open) ==
  CASE type \in {"SINGLE", "START"} -> ~open [] type \in {"CONTINUE", "END"} -> open [] OTHER -> TRUE
Advance(type, open) ==
  CASE type \in {"SINGLE", "END"} -> FALSE [] type \in {"START", "CONTINUE"} -> TRUE [] OTHER -> open
TurnEnding(type) == type \in {"SINGLE", "END"}

\* eligible_instants: in any hand, whoever holds it.
Eligible(hs, trigger) ==
  {p \in Heroes \X DOMAIN Card :
     p[2] \in hs[p[1]].hand /\ Card[p[2]].type = "INSTANT" /\ Card[p[2]].trigger = trigger}

Park(h, on, damage, cost, disrupt, hs) ==
  pending' = [by |-> h, on |-> on, damage |-> damage, cost |-> cost, disrupt |-> disrupt,
              instants |-> Eligible(hs, "DAMAGED") # {}]

\* Where a card's MOVE effect may lead: a destination out of reach is ignored.
CardPaths(h, card, dest) ==
  IF card.move > 1 THEN Routes(store, Adj, store.area[h], dest, card.move, card.avoid)
  ELSE IF card.move = 1 THEN Steps(Adj, store.area[h], dest) ELSE {}

\* The explicit targets play_card accepts, judged from the destination asked for.
CardTargets(h, card, dest) ==
  IF card.damage = 0 THEN {}
  ELSE TargetsInRange(store, Adj, IF card.move > 0 THEN dest ELSE store.area[h], Monsters, card.range)

SelfEffects(st, h, card) ==
  Heal([st EXCEPT !.line[h] = IF card.push = "" THEN @ ELSE card.push], h, card.heal)

\* A card with a DAMAGE effect and a target parks an attack; any other ends the
\* turn if it is of a type that does.
AfterCard(h, card, z, st, ids, target) ==
  LET foes == IF card.damage = 0 THEN {} ELSE IF target # Nobody THEN {target}
              ELSE FindNearest(st, Adj, st.area[h], Monsters, card.range)
      swaps(t) == card.swapIf /\ st.line[h] = "FRONT" /\ st.line[t] = "FRONT"
  IN  IF foes # {}
      THEN \E t \in foes : \E y \in (IF swaps(t) THEN Swap(z, ids) ELSE {z}) :
             /\ hands' = [hands EXCEPT ![h] = y]
             /\ seq' = [seq EXCEPT ![h] = Advance(card.type, @)]
             /\ Park(h, t, card.damage, 0, card.disrupt, [hands EXCEPT ![h] = y])
      ELSE /\ UNCHANGED pending
           /\ IF TurnEnding(card.type) THEN EndTurn(h, z)
              ELSE /\ hands' = [hands EXCEPT ![h] = z]
                   /\ seq' = [seq EXCEPT ![h] = Advance(card.type, @)]

\* What a hero may play: his hand, or any card if the mission gives him no deck.
Playable(h) == DOMAIN Card \cap (IF Deck[h] = {} THEN DOMAIN Card ELSE hands[h].hand)

PlayCard(h, c, dest, ids, target) ==
  LET card == Card[c]
      paths == CardPaths(h, card, dest)
  IN  /\ MayAct(h) /\ c \in Playable(h) /\ CanPlay(card.type, seq[h])
      /\ card.front => store.line[h] = "FRONT"
      /\ target # Nobody => target \in CardTargets(h, card, dest)
      /\ \E path \in (IF paths = {} THEN {<<store.area[h]>>} ELSE paths) :
           LET to == path[Len(path)]
               opened == Doors(path) \ doors
               cost == card.cost + Cardinality(opened)
               st == Charge(SelfEffects([store EXCEPT !.area[h] = to], h, card), h, cost)
               swap == IF card.swapIf THEN {} ELSE ids
           IN  /\ Cardinality(ids) <= IF card.swapIf THEN card.swap ELSE SwapLimit(st, h, card.swap)
               /\ store' = st
               /\ doors' = doors \cup opened
               /\ mission' = Elapse(IF paths = {} THEN mission ELSE Arrived(mission, to, carrier = h), cost)
               /\ IF card.interact THEN Touch(h, to) ELSE UNCHANGED <<used, carrier>>
               /\ queue' = queue \o Dialogs(st, to)
               /\ \E z1 \in Draw(hands[h], card.draw) : \E z2 \in Swap(z1, swap) :
                    AfterCard(h, card, Commit(z2, c), st, ids, target)
      /\ UNCHANGED <<window, ends, stage>>

StopSequence(h) ==
  /\ h \in NextActors /\ seq[h]
  /\ EndTurn(h, hands[h])
  /\ UNCHANGED <<board, dialogs, stage, mission>>

-----------------------------------------------------------------------------
(* An attack waits first for instants, then for the defender's reaction. *)

DeclareAttack(h, t) ==
  /\ pending = NoAttack /\ MayAct(h)
  /\ t \in ValidTargets(store, store.area[h], Monsters)
  /\ Park(h, t, 1, AttackCost, FALSE, hands)
  /\ UNCHANGED <<board, seq, hands, window, queue, ends, stage, mission>>

(* The effects of one instant on w: the store, the doors, the mission, the    *)
(* damage still to come and the dialogs.  A MOVE goes to the place the card   *)
(* names, if that is next door, and no arrival is reported.  Only an attack   *)
(* gives it foes, only the reactive window checks the formation.              *)
Answer(w, h, c, foes, check) ==
  LET card == Card[c]
      here == w.store.area[h]
      to == IF card.to \in Adj[here] THEN card.to ELSE here
      self == SelfEffects([w.store EXCEPT !.area[h] = to], h, card)
      hit == IF card.damage = 0 THEN {} ELSE NearestTargets(self, self.area[h], foes)
      after(s) == LET st == Charge(s, h, card.cost)
                  IN  [store |-> st, doors |-> w.doors \cup Doors(<<here, to>>),
                       mission |-> Elapse(Eliminated(w.mission, st), card.cost),
                       damage |-> IF card.reduce < w.damage THEN w.damage - card.reduce ELSE 0,
                       queue |-> w.queue \o (IF check THEN Dialogs(st, st.area[h]) ELSE <<>>)]
  IN  IF hit = {} THEN {after(self)} ELSE {after(Strike(self, t, card.damage)) : t \in hit}

Answers(sel, foes, check) ==
  LET start == [store |-> store, doors |-> doors, mission |-> mission,
                damage |-> pending.damage, queue |-> queue]
      run[k \in 0..Len(sel)] ==
        IF k = 0 THEN {start}
        ELSE UNION {Answer(w, sel[k][1], sel[k][2], foes, check) : w \in run[k - 1]}
  IN  run[Len(sel)]

\* Every selection must be eligible when the answer comes; it may be repeated.
Selections(trigger) == UNION {[1..n -> Eligible(hands, trigger)] : n \in 0..MaxSelected}

Spent(sel) ==
  [h \in Heroes |-> Discard(hands[h], {sel[i][2] : i \in {j \in DOMAIN sel : sel[j][1] = h}})]

PlayInstants(sel) ==
  /\ pending.instants /\ sel \in Selections("DAMAGED")
  /\ \E w \in Answers(sel, Monsters, FALSE) :
       /\ store' = w.store /\ doors' = w.doors /\ mission' = w.mission
       /\ pending' = [pending EXCEPT !.damage = w.damage, !.instants = FALSE]
  /\ hands' = Spent(sel)
  /\ UNCHANGED <<used, carrier, seq, window, queue, ends, stage>>

\* resolve_reaction: TAKE, BLOCK, or DODGE from the frontline.
ReactDefense(reaction) ==
  LET h == pending.by
      on == pending.on
      damage == CASE reaction = "TAKE" -> pending.damage
                  [] reaction = "BLOCK" -> pending.damage - BlockReduction
                  [] OTHER -> 0
      stood == IF reaction = "DODGE" THEN [store EXCEPT !.line[on] = "BACK"] ELSE store
      hit == IF damage > 0 THEN Strike(stood, on, damage) ELSE stood
      st == Charge(hit, h, pending.cost)
      at == st.area[h]
      asked == queue \o Dialogs(st, at)
      disrupted == WithoutMonsters(asked, at)
                     \o (IF Present(st, at, Monsters) = {} THEN <<>> ELSE <<Dialog(st, at, Monsters)>>)
  IN  /\ pending # NoAttack
      /\ reaction = "DODGE" => store.line[on] = "FRONT"
      /\ store' = st
      /\ mission' = Elapse(Eliminated(mission, st), pending.cost)
      /\ pending' = NoAttack
      /\ Conclude(h, hands[h], IF pending.disrupt THEN disrupted ELSE asked)
      /\ UNCHANGED <<doors, used, carrier, window, stage>>

-----------------------------------------------------------------------------
(* A monster group plays the current card of its behaviour deck, step by step *)
(* and member by member; what a step does is BehaviorStep.  A group without   *)
(* members plays nothing.                                                     *)

Approached(st, l) == \E h \in Heroes : st.area[h] \in {l} \cup Adjacent[l] /\ st.life[h] = "ACTIVE"

MemberStep(w, step, m) ==
  {LET moved == r.store.area[m] # w.store.area[m]
   IN  [w EXCEPT !.store = r.store, !.any = @ \/ r.ok,
          !.mission = IF step.kind = "DAMAGE" /\ r.ok THEN HeroDown(@, r.store) ELSE @,
          !.window = @ \/ (/\ moved /\ Approached(r.store, r.store.area[m])
                           /\ Eligible(hands, "APPROACH") # {})]
     : r \in BehaviorStep(w.store, Adj, doors, step, m)}

GroupStep(w, g, step) ==
  LET squad == Squad[g]
      run[j \in 0..Len(squad)] ==
        IF j = 0 THEN {[w EXCEPT !.any = FALSE]}
        ELSE UNION {IF squad[j] \in v.store.members[g] THEN MemberStep(v, step, squad[j]) ELSE {v}
                      : v \in run[j - 1]}
  IN  {[v EXCEPT !.store = Charge(@, g, step.cost), !.failed = ~step.optional /\ ~v.any] : v \in run[Len(squad)]}

\* run_steps: a mandatory step that no member could execute stops the card.
RunSteps(w, g, steps) ==
  LET run[k \in 0..Len(steps)] ==
        IF k = 0 THEN {[w EXCEPT !.failed = FALSE]}
        ELSE UNION {IF v.failed THEN {v} ELSE GroupStep(v, g, steps[k]) : v \in run[k - 1]}
  IN  run[Len(steps)]

GroupOutcomes(g) ==
  LET card == BehaviorDeck[g][stage[g]]
      start == [store |-> store, mission |-> mission, window |-> window, any |-> FALSE, failed |-> FALSE]
      fallback(w) == IF card.fallback = <<>> THEN {[w EXCEPT !.store = Charge(@, g, 1)]}
                     ELSE RunSteps(w, g, card.fallback)
  IN  IF store.members[g] = {} THEN {start}
      ELSE UNION {IF w.failed THEN fallback(w) ELSE {w} : w \in RunSteps(start, g, card.steps)}

\* check_formation where each member stands, one after the other.
SquadDialogs(st, g) ==
  LET squad == Squad[g]
      run[j \in 0..Len(squad)] ==
        IF j = 0 THEN <<>>
        ELSE run[j - 1] \o (IF squad[j] \in st.members[g] THEN Dialogs(st, st.area[squad[j]]) ELSE <<>>)
  IN  run[Len(squad)]

GroupTurn(g) ==
  /\ mission.outcome = "PLAYING" /\ g \in NextActors
  /\ \E w \in GroupOutcomes(g) :
       /\ store' = w.store /\ mission' = w.mission /\ window' = w.window
       /\ queue' = queue \o SquadDialogs(w.store, g)
  /\ stage' = [stage EXCEPT ![g] = (@ % Len(BehaviorDeck[g])) + 1]
  /\ UNCHANGED <<doors, used, carrier, seq, hands, pending, ends>>

PlayReactive(sel) ==
  /\ window /\ sel \in Selections("APPROACH")
  /\ \E w \in Answers(sel, {}, TRUE) :
       store' = w.store /\ doors' = w.doors /\ mission' = w.mission /\ queue' = w.queue
  /\ hands' = Spent(sel)
  /\ window' = FALSE
  /\ UNCHANGED <<used, carrier, seq, pending, ends, stage>>

-----------------------------------------------------------------------------
(* Formation dialogs and the game master's deck commands. *)

\* The count is checked against the dialog, the lines are set where actors are now.
ResolveFormation(back) ==
  LET d == Head(queue)
      there == Present(store, d.at, d.side)
  IN  /\ queue # <<>> /\ back \subseteq d.actors
      /\ 2 * Cardinality(back) <= Cardinality(d.actors)
      /\ store' = [store EXCEPT !.line =
                     [a \in Actors |-> IF a \notin there THEN @[a] ELSE IF a \in back THEN "BACK" ELSE "FRONT"]]
      /\ queue' = Tail(queue)
      /\ IF Tail(queue) = <<>> /\ ends # Nobody
         THEN EndTurn(ends, hands[ends]) /\ ends' = Nobody
         ELSE UNCHANGED <<seq, hands, ends>>
      /\ UNCHANGED <<doors, used, carrier, pending, window, stage, mission>>

Deal(h, zs) ==
  /\ \E z \in zs : hands' = [hands EXCEPT ![h] = z]
  /\ UNCHANGED <<board, seq, dialogs, stage, mission>>

DeckDraw(h) == Deal(h, Draw(hands[h], 1))
DeckDiscard(h, c) == Deal(h, {Discard(hands[h], {c})})
DeckTakeDiscard(h) == Deal(h, TakeBack(hands[h]))
DeckReshuffle(h) == Deal(h, {Reshuffled(hands[h])})
=============================================================================
