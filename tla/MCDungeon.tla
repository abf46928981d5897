------------------------------ MODULE MCDungeon -----------------------------
(* Instances of DungeonEngine for TLC: a dungeon with two heroes, one of     *)
(* them shielded and guarded, and a monster; one with a hero and a stronger  *)
(* monster; a file that fails to load after its first actor; and one with a  *)
(* monster that is loaded without hit points and two actors in a room that   *)
(* the map does not have.                                                    *)
EXTENDS DungeonEngine

Corridor == [gate |-> {"hall"}, hall |-> {"gate", "crypt"}, crypt |-> {"hall"}]

Actor(hero, hp, attackValue, room, tags, statuses) ==
    [hero |-> hero, hp |-> hp, max |-> hp, attack |-> attackValue, defense |-> 0,
     room |-> room, tags |-> tags, statuses |-> statuses]

Ambush == [ok |-> TRUE, rooms |-> DOMAIN Corridor, adjacent |-> Corridor,
           order |-> <<"rat", "knight", "thief">>,
           actors |-> [knight |-> Actor(TRUE, 2, 1, "hall", {Shield, Potion}, {Guarded}),
                       thief |-> Actor(TRUE, 1, 0, "gate", {"bigword_available"}, {Stunned}),
                       rat |-> Actor(FALSE, 2, 1, "crypt", {}, {})]]

Duel == [ok |-> TRUE, rooms |-> DOMAIN Corridor, adjacent |-> Corridor,
         order |-> <<"knight", "ogre">>,
         actors |-> [knight |-> Actor(TRUE, 1, 2, "hall", {}, {}),
                     ogre |-> Actor(FALSE, 2, 2, "hall", {}, {})]]

Damaged == [Duel EXCEPT !.ok = FALSE, !.order = <<"knight">>,
                        !.actors = [knight |-> Duel.actors["knight"]]]

Ruin == [ok |-> TRUE, rooms |-> DOMAIN Corridor, adjacent |-> Corridor,
         order |-> <<"knight", "rat", "thief", "bat">>,
         actors |-> [knight |-> Actor(TRUE, 1, 1, "hall", {Potion}, {}),
                     thief |-> Actor(TRUE, 1, 1, "attic", {}, {}),
                     rat |-> [Actor(FALSE, 1, 0, "crypt", {}, {}) EXCEPT !.hp = 0],
                     bat |-> Actor(FALSE, 1, 0, "attic", {}, {})]]

(* Files whose actors all have their rooms.                                  *)
WholeFiles == {Ambush, Duel, Damaged}
Files == WholeFiles \cup {Ruin}
=============================================================================
