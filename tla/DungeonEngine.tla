---------------------------- MODULE DungeonEngine ---------------------------
(* The engine process of Dungeon-Crawler-Basic: DungeonEngine and TurnFlow,  *)
(* with the two threads that call them.  The command thread (CmdServer)      *)
(* handles one command of the GUI after the other; the main thread calls     *)
(* advance_turn() every 200 ms.  Nothing locks the engine, so the calls of   *)
(* one thread fall between the calls the other makes: advance_turn() is      *)
(* split where it reads and where it calls TurnFlow, start_game() where the  *)
(* main thread can tell its steps apart.                                     *)
EXTENDS DungeonParty

CONSTANTS
    Maps,              \* the map files a new game may name
    MaxActionsPerTurn,
    Reaches,           \* the max_distance a move may carry
    CardDamages,       \* the card_damage an attack may carry
    Blocks,            \* the block of a defence
    NoActor, NoAttack

(* What add_actor() makes of a record of the file: hit points within the     *)
(* maximum, no negative number.  A monster may be loaded with none left.     *)
ASSUME MapsAssumption ==
    \A d \in Maps :
      /\ d.actors = [a \in DOMAIN d.actors |-> d.actors[a]]
      /\ \A a \in DOMAIN d.actors :
           LET x == d.actors[a]
           IN  /\ x = [hero |-> x.hero, hp |-> x.hp, max |-> x.max, attack |-> x.attack,
                       defense |-> x.defense, room |-> x.room, tags |-> x.tags,
                       statuses |-> x.statuses]
               /\ x.hero \in BOOLEAN
               /\ x.max \in Nat /\ x.hp \in 0..x.max
               /\ x.attack \in Nat /\ x.defense \in Nat

ASSUME NumbersAssumption ==
    MaxActionsPerTurn \in Nat \ {0} /\ CardDamages \subseteq Int /\ Blocks \subseteq Int

VARIABLES
    dungeon,           \* the map file last loaded
    party,             \* see DungeonParty
    flow,              \* TurnFlow: [session, order, index, actor]
    actions,           \* _actions_this_turn
    attack,            \* _pending_attack
    starting,          \* how far the command thread is within start_game()
    loop,              \* where the main thread is: [at, next]
    running            \* FALSE once an exception has left main()

vars == <<dungeon, party, flow, actions, attack, starting, loop, running>>

Actors == UNION {DOMAIN d.actors : d \in Maps}
NoSession == [session |-> FALSE, order |-> <<>>, index |-> 1, actor |-> NoActor]
Idle == [at |-> "idle", next |-> NoActor]
Nothing == [ok |-> FALSE, rooms |-> {}, adjacent |-> <<>>, order |-> <<>>,
            actors |-> [a \in {} |-> NoActor]]

Init ==
    /\ dungeon = Nothing
    /\ party = Loaded(Nothing)
    /\ flow = NoSession
    /\ actions = 0
    /\ attack = NoAttack
    /\ starting = "no"
    /\ loop = Idle
    /\ running = TRUE

-----------------------------------------------------------------------------
(* TurnFlow.                                                                 *)

TurnActive == flow.actor # NoActor

(* next_actor_id(): while a turn is active, the actor after it, and none     *)
(* after the last of the round.                                              *)
NextActor ==
    LET place == IF TurnActive THEN flow.index + 1 ELSE flow.index
    IN  IF flow.session /\ place <= Len(flow.order) THEN flow.order[place] ELSE NoActor

EndedPastLast ==
    [flow EXCEPT !.actor = NoActor,
                 !.index = IF flow.index <= Len(flow.order) THEN flow.index + 1 ELSE 1]

(* end_turn(): the place in the order moves on, from the last to the first.  *)
Ended ==
    [flow EXCEPT !.actor = NoActor,
                 !.index = IF flow.index < Len(flow.order) THEN flow.index + 1 ELSE 1]

-----------------------------------------------------------------------------
(* The command thread.                                                       *)

Ready == running /\ starting = "no"

KeptAttack == attack
ForgottenAttack == NoAttack

(* start_game(): map and roster are emptied, and with them what only this    *)
(* thread reads, the shields and the window.                                 *)
NewGame ==
    /\ Ready
    /\ dungeon' = Nothing
    /\ party' = Loaded(Nothing)
    /\ attack' = ForgottenAttack
    /\ starting' = "emptied"
    /\ UNCHANGED <<flow, actions, loop, running>>

CloseSession ==
    /\ running /\ starting = "emptied"
    /\ flow' = NoSession
    /\ starting' = "closed"
    /\ UNCHANGED <<dungeon, party, actions, attack, loop, running>>

(* The file the command names is loaded; when that fails the exception ends  *)
(* the command here.                                                         *)
Load(file) ==
    /\ running /\ starting = "closed"
    /\ dungeon' = file
    /\ party' = Loaded(file)
    /\ starting' = IF file.ok THEN "loaded" ELSE "no"
    /\ UNCHANGED <<flow, actions, attack, loop, running>>

Heroes(d) == SelectSeq(d.order, LAMBDA a : d.actors[a].hero)
Enemies(d) == SelectSeq(d.order, LAMBDA a : ~d.actors[a].hero)

(* start_session() and set_actor_order(): the heroes play first.             *)
OpenSession ==
    /\ running /\ starting = "loaded"
    /\ flow' = [flow EXCEPT !.session = TRUE, !.index = 1, !.actor = NoActor,
                            !.order = Heroes(dungeon) \o Enemies(dungeon)]
    /\ actions' = 0
    /\ starting' = "opened"
    /\ UNCHANGED <<dungeon, party, attack, loop, running>>

(* The first turn starts with the actor next_actor_id() names; an exception  *)
(* of build_available_actions() comes after it, and is caught.               *)
FirstTurn ==
    /\ running /\ starting = "opened"
    /\ flow' = IF NextActor = NoActor THEN flow ELSE [flow EXCEPT !.actor = NextActor]
    /\ starting' = "no"
    /\ UNCHANGED <<dungeon, party, actions, attack, loop, running>>

AlwaysOpen == Ready

(* While the defence window is open every other command is rejected.         *)
NoWindow == Ready /\ attack = NoAttack

(* One of the actions of the turn: whose turn it is, or whether one is       *)
(* running, is not asked.                                                    *)
ActionLeft == NoWindow /\ actions < MaxActionsPerTurn

Acted(result) ==
    /\ party' = result
    /\ actions' = actions + 1
    /\ UNCHANGED <<dungeon, flow, attack, starting, loop, running>>

Move(h, to, reach) ==
    /\ ActionLeft
    /\ CanMove(party, dungeon, h, to, reach)
    /\ Acted(Moved(party, h, to))

Heal(h, t) ==
    /\ ActionLeft
    /\ CanHeal(party, h, t)
    /\ Acted(Healed(party, h, t))

Equip(h, item) ==
    /\ ActionLeft
    /\ CanEquip(party, h, item)
    /\ Acted(Equipped(party, h, item))

(* The attack opens the defence window and is charged when it is answered.   *)
Attack(a, t, card) ==
    /\ ActionLeft
    /\ CanAttack(party, dungeon, a, t)
    /\ attack' = [attacker |-> a, defender |-> t, damage |-> BaseDamage(party, a, card)]
    /\ UNCHANGED <<dungeon, party, flow, actions, starting, loop, running>>

(* finalize_defense(): damage, the fallen monster's removal, the charge.     *)
Defend(defence) ==
    /\ Ready /\ attack # NoAttack
    /\ party' = Fallen(Struck(party, attack.defender, attack.damage, defence),
                       attack.defender)
    /\ attack' = NoAttack
    /\ actions' = actions + 1
    /\ UNCHANGED <<dungeon, flow, starting, loop, running>>

EndTurn ==
    /\ NoWindow /\ TurnActive
    /\ actions' = 0
    /\ flow' = Ended
    /\ UNCHANGED <<dungeon, party, attack, starting, loop, running>>

Defences == [kind : {"pass", "cancel"}, block : {0}] \cup [kind : {"reduce"}, block : Blocks]

(* Clients name actors of the dungeon and rooms of its map.                  *)
Command ==
    \/ NewGame
    \/ \E a \in DOMAIN party.roster :
         \/ \E to \in dungeon.rooms, reach \in Reaches : Move(a, to, reach)
         \/ \E item \in party.roster[a].tags : Equip(a, item)
         \/ \E t \in DOMAIN party.roster :
              Heal(a, t) \/ \E card \in CardDamages : Attack(a, t, card)
    \/ \E defence \in Defences : Defend(defence)
    \/ EndTurn

-----------------------------------------------------------------------------
(* The main thread: advance_turn().                                          *)

(* It goes on only within a session and between two turns.                   *)
Choose ==
    /\ running /\ loop.at = "idle"
    /\ flow.session /\ ~TurnActive /\ NextActor # NoActor
    /\ loop' = [at |-> "chosen", next |-> NextActor]
    /\ UNCHANGED <<dungeon, party, flow, actions, attack, starting, running>>

(* start_turn() throws when the session has gone meanwhile; nothing catches  *)
(* an exception of the main thread.                                          *)
StartTurn ==
    /\ running /\ loop.at = "chosen"
    /\ IF flow.session
       THEN /\ flow' = [flow EXCEPT !.actor = loop.next]
            /\ loop' = [loop EXCEPT !.at = "started"]
            /\ UNCHANGED running
       ELSE /\ running' = FALSE
            /\ UNCHANGED <<flow, loop>>
    /\ UNCHANGED <<dungeon, party, actions, attack, starting>>

(* build_available_actions() throws for a hero whose room the map does not   *)
(* have.  While a new game empties map and roster, the main thread may have  *)
(* seen the actor and miss its record or its room.                           *)
MayThrow(a) ==
    \/ IsHero(party, a) /\ party.roster[a].room \notin dungeon.rooms
    \/ starting = "emptied"

(* The count starts anew; a hero's turn waits for commands, any other's is   *)
(* ended at once.                                                            *)
Announce ==
    /\ running /\ loop.at = "started"
    /\ actions' = 0
    /\ \/ /\ MayThrow(loop.next)
          /\ running' = FALSE
          /\ UNCHANGED loop
       \/ /\ ~IsHero(party, loop.next)
          /\ loop' = [loop EXCEPT !.at = "skipping"]
          /\ UNCHANGED running
       \/ /\ IsHero(party, loop.next) /\ ~MayThrow(loop.next)
          /\ loop' = Idle
          /\ UNCHANGED running
    /\ UNCHANGED <<dungeon, party, flow, attack, starting>>

(* end_turn() throws when the turn has ended meanwhile.                      *)
Skip ==
    /\ running /\ loop.at = "skipping"
    /\ IF TurnActive
       THEN flow' = Ended /\ loop' = Idle /\ UNCHANGED running
       ELSE running' = FALSE /\ UNCHANGED <<flow, loop>>
    /\ UNCHANGED <<dungeon, party, actions, attack, starting>>

Main == Choose \/ StartTurn \/ Announce \/ Skip
Booting ==
    \/ CloseSession
    \/ \E file \in Maps : Load(file)
    \/ OpenSession \/ FirstTurn

Next == Command \/ Booting \/ Main

(* Both threads keep running: main() loops for ever, and a command that has  *)
(* begun is finished.  Nothing is assumed of the clients.                    *)
Spec == Init /\ [][Next]_vars /\ WF_vars(Main) /\ WF_vars(Booting)

-----------------------------------------------------------------------------
(* Properties.                                                               *)

(* However advance_turn() and the commands interleave, no count of actions   *)
(* exceeds the limit, although an attack is charged only when its window     *)
(* closes: the limit is checked when the window opens, and nothing else is   *)
(* counted in between.                                                       *)
ActionsWithinLimit ==
    /\ actions <= MaxActionsPerTurn
    /\ attack # NoAttack => actions < MaxActionsPerTurn

(* The attack that waits for its defence still makes sense: both actors are  *)
(* in the roster of the current game, enemies, and standing.  Neither other  *)
(* commands, nor a new game, nor a load that fails may leave a window that   *)
(* refers to actors that are gone: finalize_defense() would throw for ever.  *)
WindowAnswerable ==
    attack # NoAttack =>
      /\ {attack.attacker, attack.defender} \subseteq DOMAIN party.roster
      /\ party.roster[attack.attacker].hero # party.roster[attack.defender].hero
      /\ party.roster[attack.attacker].hp > 0 /\ party.roster[attack.defender].hp > 0

(* Heroes are never removed, however often they fall, and no monster stays   *)
(* in the roster once it has fallen: one without hit points is one that the  *)
(* file already gave none.                                                   *)
OnlyMonstersFall ==
    \A a \in DOMAIN dungeon.actors :
      IF dungeon.actors[a].hero THEN a \in DOMAIN party.roster
      ELSE a \in DOMAIN party.roster => party.roster[a].hp > 0 \/ dungeon.actors[a].hp = 0

(* The roster and the map never disagree about the room of an actor that is  *)
(* still in play: moves are checked against one, area info shows the other.  *)
(* The map has nobody whose room it does not know.                           *)
RoomsAgree ==
    \A a \in DOMAIN party.roster : party.at[a] = Placed(dungeon, party.roster[a].room)

(* Between two turns the game does not stall: a turn starts, whatever        *)
(* clients do, unless a new game or the end of the process comes first.      *)
TurnsResume ==
    (running /\ flow.session /\ ~TurnActive)
      ~> (TurnActive \/ ~flow.session \/ ~running)

(* The main loop never dies.  main.cpp:8 promises that all mutations of the  *)
(* game are serialised on the command thread.                                *)
MainLoopSurvives == running
=============================================================================
