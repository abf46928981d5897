------------------------------ MODULE MCEldhom ------------------------------
(* Three rooms in a row, a lever and the treasure in the last; two heroes, the *)
(* second in the backline, and a group of two.                                 *)
EXTENDS EldhomServer

MCHeroes == {"thael", "velyr"}
MCMonsters == {"m1", "m2"}
MCGroups == {"gang"}
MCLocations == {"yard", "hall", "vault"}
MCAdjacent == [l \in MCLocations |-> IF l = "hall" THEN {"yard", "vault"} ELSE {"hall"}]
MCZone == [l \in MCLocations |-> IF l = "yard" THEN "yard" ELSE "hall"]
MCMaxHp == [a \in MCHeroes \cup MCMonsters |-> 1]
MCSquad == [g \in MCGroups |-> <<"m1", "m2">>]

Plain == [type |-> "SINGLE", cost |-> 2, front |-> FALSE, trigger |-> "", to |-> NoLocation, move |-> 0, avoid |-> FALSE,
          heal |-> 0, push |-> "", interact |-> FALSE, draw |-> 0, swap |-> 0, swapIf |-> FALSE,
          damage |-> 0, range |-> 0, disrupt |-> FALSE, reduce |-> 0]
MCCard ==
  [rush     |-> [Plain EXCEPT !.type = "START", !.cost = 2, !.move = 1, !.damage = 1],
   finish   |-> [Plain EXCEPT !.type = "END", !.damage = 1, !.disrupt = TRUE],
   settle   |-> [Plain EXCEPT !.type = "INSTANT", !.cost = 1, !.push = "FRONT", !.to = "hall", !.trigger = "APPROACH"],
   support  |-> [Plain EXCEPT !.type = "INSTANT", !.cost = 0, !.heal = 1, !.trigger = "DAMAGED"],
   shove    |-> [Plain EXCEPT !.cost = 3, !.front = TRUE, !.swap = 1, !.damage = 1]]

MCDeck == [h \in MCHeroes |-> IF h = "thael" THEN {"shove", "settle", "support"} ELSE {"rush", "finish"}]
MCHandLimit == [h \in MCHeroes |-> 2]
MCRank == [g \in MCGroups |-> 3]
MCStart == [area |-> [thael |-> "hall", velyr |-> "yard", m1 |-> "hall", m2 |-> "vault"],
            line |-> [a \in MCHeroes \cup MCMonsters |-> IF a = "velyr" THEN "BACK" ELSE "FRONT"],
            pos |-> [a \in MCHeroes \cup MCGroups |-> IF a \in MCHeroes THEN 0 ELSE 1]]
Assault == [steps |-> <<[kind |-> "MOVE", amount |-> 1, cost |-> 1, optional |-> TRUE],
                        [kind |-> "DAMAGE", amount |-> 1, cost |-> 2, optional |-> FALSE]>>,
            fallback |-> <<[kind |-> "MOVE", amount |-> 1, cost |-> 1, optional |-> FALSE]>>]
MCBehaviorDeck == [g \in MCGroups |-> <<Assault>>]
MCExits == {[at |-> "yard", laden |-> TRUE]}
MCObjects == [chest |-> [at |-> "vault", unlocks |-> {}, treasure |-> TRUE]]
=============================================================================
