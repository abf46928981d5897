---------------------------- MODULE DungeonParty ----------------------------
(* The actors of Dungeon-Crawler-Basic and what the rules let them do: the   *)
(* roster (ActorRoster), the map that also records who stands where          *)
(* (DungeonMap), the rule adapter and the actions of ActionV1.               *)
(*                                                                           *)
(* A dungeon is a map file: [ok, rooms, adjacent, actors, order].  "actors"  *)
(* gives the state each actor is loaded with and "order" the order of the    *)
(* file; "ok" is FALSE for a file whose loading fails, with the part of it   *)
(* that was loaded before the failure.  Nothing makes a file give an actor a *)
(* room of its map.  A party is what play changes:                           *)
(* [roster, at, charges]: the actors still in the roster, the room the map   *)
(* has each actor in, and the charges left on each actor's shield.           *)
EXTENDS Integers, Sequences, FiniteSets, FiniteSetsExt, SequencesExt

Shield == "scudo_equipaggiato"
Potion == "has_potion"
Weapon == "equipped_weapon"
Guarded == "difeso"
Stunned == "stunned"

HealAmount == 3
ShieldCharges == 2
ShieldReduction == 1
GuardReduction == 1

Nowhere == "nowhere"

(* Where the map has an actor whose record says "room".                      *)
Placed(d, room) == IF room \in d.rooms THEN room ELSE Nowhere

(* The party of a freshly loaded file: whoever stands in a room of the map   *)
(* is placed there, and nobody's shield has been used.                       *)
Loaded(d) == [roster |-> d.actors,
              at |-> [a \in DOMAIN d.actors |-> Placed(d, d.actors[a].room)],
              charges |-> [a \in DOMAIN d.actors |-> 0]]

Within(d, from, to, hops) ==
    LET reached[n \in 0..hops] ==
          IF n = 0 THEN {from}
          ELSE reached[n - 1] \cup UNION {d.adjacent[r] : r \in reached[n - 1]}
    IN  hops >= 1 /\ to \in reached[hops]

Adjacent(d, from, to) == from \in d.rooms /\ to \in d.adjacent[from]

IsHero(p, a) == a \in DOMAIN p.roster /\ p.roster[a].hero

-----------------------------------------------------------------------------
(* The rules.  None of them asks whose turn it is, and only an attack asks   *)
(* whether its actors still stand.                                           *)

CanMove(p, d, h, to, hops) ==
    /\ IsHero(p, h)
    /\ {p.roster[h].room, to} \subseteq d.rooms
    /\ Stunned \notin p.roster[h].statuses
    /\ IF hops <= 1 THEN Adjacent(d, p.roster[h].room, to)
                    ELSE Within(d, p.roster[h].room, to, hops)

CanHeal(p, h, t) ==
    IsHero(p, h) /\ t \in DOMAIN p.roster /\ Potion \in p.roster[h].tags

CanEquip(p, h, item) ==
    /\ IsHero(p, h)
    /\ item \in p.roster[h].tags
    /\ Weapon \notin p.roster[h].tags

CanAttack(p, d, a, t) ==
    /\ {a, t} \subseteq DOMAIN p.roster
    /\ p.roster[a].hp > 0 /\ p.roster[t].hp > 0
    /\ p.roster[a].hero # p.roster[t].hero
    /\ \/ p.roster[a].room = p.roster[t].room
       \/ Adjacent(d, p.roster[a].room, p.roster[t].room)

-----------------------------------------------------------------------------
(* The actions.                                                              *)

Moved(p, h, to) == [[p EXCEPT !.at[h] = to] EXCEPT !.roster[h].room = to]

(* set_hp keeps hit points between 0 and the maximum.                        *)
Healed(p, h, t) ==
    LET hp == Min({p.roster[t].hp + HealAmount, p.roster[t].max})
    IN  [[p EXCEPT !.roster[t].hp = hp] EXCEPT !.roster[h].tags = @ \ {Potion}]

Equipped(p, h, item) ==
    [p EXCEPT !.roster[h].tags = (@ \ {item}) \cup {Weapon}]

BaseDamage(p, a, card) == Max({0, p.roster[a].attack + card})

(* What the defender's choice takes off the damage.                          *)
Reduction(p, t, defence) ==
    IF defence.kind = "pass" THEN 0
    ELSE Max({0, p.roster[t].defense}) + Max({0, defence.block})
         + (IF Guarded \in p.roster[t].statuses THEN GuardReduction ELSE 0)
         + (IF Shield \in p.roster[t].tags THEN ShieldReduction ELSE 0)

Damage(p, t, base, defence) ==
    IF defence.kind = "cancel" THEN 0
    ELSE Max({0, base - Reduction(p, t, defence)})

(* A used shield loses a charge, a fresh one starts from ShieldCharges.      *)
ChargesLeft(p, t) ==
    (IF p.charges[t] = 0 THEN ShieldCharges ELSE p.charges[t]) - 1

(* The defender blocked: the guard is spent, the shield loses a charge and   *)
(* goes with the last one.                                                   *)
Braced(p, t) ==
    LET spent == [p EXCEPT !.roster[t].statuses = @ \ {Guarded}]
        used == [spent EXCEPT !.charges[t] = ChargesLeft(p, t)]
    IN  IF Shield \notin p.roster[t].tags THEN spent
        ELSE IF ChargesLeft(p, t) > 0 THEN used
        ELSE [used EXCEPT !.roster[t].tags = @ \ {Shield}]

Struck(p, t, base, defence) ==
    LET braced == IF defence.kind = "reduce" THEN Braced(p, t) ELSE p
        hp == Max({0, p.roster[t].hp - Damage(p, t, base, defence)})
    IN  [braced EXCEPT !.roster[t].hp = hp]

FallenOfAnyKind(p, t) ==
    IF p.roster[t].hp > 0 THEN p
    ELSE [p EXCEPT !.roster = [a \in DOMAIN @ \ {t} |-> @[a]]]

(* A fallen monster leaves the roster; the map keeps it where it fell.       *)
Fallen(p, t) ==
    IF p.roster[t].hp > 0 \/ p.roster[t].hero THEN p
    ELSE [p EXCEPT !.roster = [a \in DOMAIN @ \ {t} |-> @[a]]]
=============================================================================
