# A verification development of game_lib

game_lib is a set of C++ libraries for turn-based games (events, flow, rules,
decks, maps, actors, logging, saving), three games built on them, and a Python
web gateway that runs one game engine process for each match. This directory
holds TLA+ models of its concurrent, re-entrant and long-lived parts, TLC
configurations that check them on small instances, and TLAPS proofs of their
safety for every size.

`PROJECT.json` is the index: components, runs, the source lines behind every
definition, the hazards and which property watches which, the theorems, and the
disagreements between code and documentation that runs show.

## 1. Inventory

| part | state | operations | hard behaviour | what makes it correct |
|---|---|---|---|---|
| `gmDispatch` AsyncDispatcher | queue, busy and stop flags, two mutexes, two condition variables, worker thread | dispatch, subscribe, unsubscribe, flush, destructor | threads, lost wakeups, callbacks that call back or throw | order, nothing lost, flush and shutdown complete, no call blocks for ever |
| `gmDispatch` routers | table from key to channels | subscribe, unsubscribe, route, flush | table changes while routing, double subscription | one copy for each subscription, none after unsubscribe |
| `gmDispatch` SyncDispatcher, channels, bridges, factory | a recursive mutex; sockets, buffers | the same; send, flush, attach | re-entrancy, connection loss | translation only |
| `gmFlow` GameSession, SequentialFlowController, FlowPhase, ActionWindow | lifecycle, phase, actor and round index, window, submissions | start, tick, pause, resume, submit_action | handlers call the session from inside its events; nested controllers | never stranded, accepted actions run once, whole rounds |
| `gmFlow` timeline flow, milestones | clock, active actor, window; sorted milestones | process, on_action_completed, reactions, advance | the adapter's answers change between calls; callbacks change what is iterated | nobody passed over, an active actor can act, each milestone fires once and on time |
| `gmFlow` Campaign | unlocked and completed sessions, the current one | start_session, complete_current_session | replay, dropped sessions, starts from inside callbacks | unlocks follow completion, once; the campaign can be finished |
| `gmWebServe` SessionRegistry | table of sessions, seats, subscribers, last envelopes; a subprocess, a listener thread and a socket each | create, join, command, subscribe, unsubscribe, close, reap, shutdown | worker threads, event loop and listener threads; work outside the lock | cap, seats, no orphaned process, one teardown (also of an engine that ended by itself), tabs never go backwards |
| `gmAlea` decks, `gmRules` groups, their bridge | zones of cards; registered and active groups | moves, bind, register, activate, attach | any order of these calls | transient rules apply exactly while their card is in play |
| Eldhom engine and server | actors, timeline, hands, open sequence, parked attack, formation dialogs, reactive window, mission | some twenty commands, monster group turns | windows that hold back commands, turns that end later, damage from many paths | no card lost, turns not torn apart, the mission decided |
| Dungeon-Crawler engine | roster, map occupancy, turn flow, action count, pending attack | commands of the GUI; advance_turn() on another thread | two threads without a lock, loads that fail | action limit, an answerable window, who is removed, turns go on |
| Tic-Tac-Toe engine and window (`TrisMainWindow`) | board, players, flow; the panels' pictures of them; the engine's socket | MOVE, NEW_GAME; the modules' handlers | clicks on an old picture, events lost on the socket to a closed window | right outcome, alternate marks, window and engine agree |
| `gmActor`, `gmMap`, `gmInteraction` | records, cells, objects | sequential | | data |
| `gmLog`, `gmSave`, `pyLib/gmGui`, `tools`, `webLib` | I/O, rendering, parsing | | | not protocol |

How they interact. A game engine owns a `GameSession` or a flow of its own. A
session publishes every event on its `EventBus`, which dispatches through
gmDispatch synchronously: handlers run inside `publish()`, on the session's
thread, and may call the session. Outbound events go through socket channels to
a window or to the gateway's listener thread, which fans them out to the queues of
browser tabs on the event loop. Commands travel from a window, or from a tab
through a worker thread of the gateway, to the engine's `CmdServer`, whose thread
handles one command after the other. Eldhom and Dungeon-Crawler have a second
thread, which plays monster turns; Eldhom's takes the server's mutex, Dungeon-Crawler's
takes none.

## 2. Modules

| module | stands for | extends or uses |
|---|---|---|
| `OrderedDelivery` | what a dispatcher promises its callers; no code | |
| `AsyncDispatcher` | `gmDispatch/dispatchers/AsyncDispatcher.cpp` over any router | `OrderedDelivery` by INSTANCE |
| `SequentialSession` | `GameSession`, `SequentialFlowController`, `FlowPhase`, `ActionWindow` | |
| `SessionRegistry` | `gmWebServe/session_registry.py` with its engine process, listener and sender | |
| `Timeline` | `TimelineFlowController`, `TimelineMilestoneSystem` inside a `GameSession` | |
| `Campaign` | `Campaign`, `CampaignState` | |
| `CampaignPlay` | a campaign whose sessions are played on a timeline | `Timeline`, `Campaign` |
| `CardRules` | `GmCompDeck`, `RuleGroupRegistry`, `CardRuleBridge` | |
| `HeroHand` | the zones of one Eldhom hero's cards | |
| `EldhomRules` | targeting, movement, damage, formations, outcome of the mission | |
| `Eldhom` | `EldhomEngine`, one action for each operation | `EldhomRules`, `HeroHand` |
| `EldhomServer` | the command guards and the group-turn loop of `main.cpp` | `Eldhom` |
| `DungeonParty` | roster, map occupancy, rule adapter and actions | |
| `DungeonEngine` | `DungeonEngine`, `TurnFlow`, and the two threads of `main.cpp` | `DungeonParty` |
| `Tris` | `TrisEngine` with board, players, flow and rules | |
| `TrisTable` | the engine, `GuiBridge` and `IpSocketChannel`, and the desktop window with its modules | `Tris` |
| `MC...` | the instances that TLC checks | the module of that name |
| `...Proofs` | theorems | the module of that name, TLAPS |

An operator whose comment begins with "Mutant of" or "A plausible slip" is the
definition after it with a plausible mistake. No specification uses it;
`PROJECT.json` says which property notices the mistake.

### AsyncDispatcher

A critical section of `_queue_mutex` is one step, since nothing in it blocks. The
route mutex is held while channels run, so it has an owner and a thread may find
it taken. A thread on a condition variable is in a state of its own
(`blocked`, `flushBlocked`) that a notification or a spurious wakeup ends. Notifying
is a separate step after the critical section, as in `dispatch()`, the
destructor and the worker loop. The router is a table of how often a channel is
subscribed under a key, and `Matches` says which keys a typeId reaches, so that the
model covers `SyncRouter` and the patterns of `PatternRouter`; the latter's filter
by target is not modelled. `accepted`, `routed`, `mark`, `inbox` and
`buffered` are history. `Reentrant` and `Failing` choose what a channel's `send()`
does besides delivering: a dispatch is accepted, a subscribe or flush from
inside leaves its thread `stuck`, an exception on the worker ends in `terminated`.

The destructor starts only when no client is inside a call: destroying an object
that is in use is undefined in C++ and not a claim of this code.

### SequentialSession

The session has one thread, but every event is a point at which handlers run and
may call `submit_action()`, `pause()` or `resume()`. A step is the code from one
`publish()` to the next; `at` is the event whose handlers run now. `offers` is the
stack of submissions whose `ActionSubmitted` event is being handled: the window
is asked before that event and the action is stored after it. The level
`"inner"` is the controller of the FlowPhase that is current; `frame` remembers from
where the outer controller called it, since `FlowPhase` sets `_entered` only when
`start()` has returned. Whether a phase is complete and whether an action is
valid is the game's choice.

### SessionRegistry

What runs under `_lock` is one step, but for `create_session()`, which starts the
engine with the lock held and is two. What runs outside the lock is a step for each
access to shared state: the lookup, the touch and the write of a command; the
listener, the sender and the engine in a teardown; the store and the fan-out of an
envelope; the begin, each element and the end of the replay of a new
subscriber. Coroutine steps and loop callbacks exclude each other (`LoopFree`), and
nothing else excludes them from the listener's thread. Time is one bit for each
session: whether its last activity is older than the timeout. The engine, the clock
and the event loop are external. An engine may exit or crash at any moment after it was
spawned (`EngineEnds`); what is then written to it may be accepted or fail.

`_teardown()` waits two seconds at most for the listener's thread, so the model
does not wait for it. The order in which subscribers are served and types are
replayed is not observable in the properties and is left open.

### Timeline, Campaign and CampaignPlay

`Timeline` is the controller against an `ITimelineAdapter` whose answers the model chooses: where
actors stand, who falls or rises, who keeps control and when the session is over. The choice
is that of a sensible game, which the controller itself does not check: an action costs time,
only an actor in play with time left keeps control, and the session is over when the time is
up (`Horizon`) or nobody is in play, and not before. With a game that lets a fallen actor keep
control, or goes on with nobody in play, `StillPlayable` would not hold.
`AdvanceMilestones` keeps the code's index snapshot: what is due is a set of places,
visited in ascending order, in a list that the callbacks may change, and spent one-shot entries
are removed at the end. The stable sort after each registration is an insertion behind the
entries that are not later, which is the same in a list that is sorted. Reactions, windows closed by force and failed actions are drawn from one
budget for each session (`MaxUpsets`). `Campaign` has the two operations of the class with the
results, the unlocked set and a count of each session's announcements. `CampaignPlay` composes them: starting
a campaign session builds a fresh timeline, and completing it is possible when the
timeline's session is over; a session may be dropped by choosing another.

### CardRules

A card is in one of six zones; each move calls the bridge, if attached, which switches
the card's rule group. The game rebinds, registers and attaches only while the cards
concerned are out of play, gives a group to one card at a time (unless
`SharedGroups`), and leaves transient groups to the bridge: with less, nothing in the code keeps a
transient group in step (see "Further disagreements").

### HeroHand, EldhomRules, Eldhom and EldhomServer

`EldhomServer` holds the guards of `handle_command()`: the parked attack, the formation
queue and the reactive window each hold back all but their own answer. Both the command
thread and `advance_auto()` hold the server's mutex, so a step is a whole command or a
whole group turn. `Eldhom` has the operations with everything they trigger: costs on
the timeline, sequences, instants, reactions, movement with its formation dialogs, special
objects, monster groups with their behaviour cards, and the end of a turn, which waits
for the dialogs it caused. There are two factions; the order of cards within a pile is
left out, so a draw takes any card; the effects of a card are applied in one fixed order;
a client echoes the dialog's own faction and location. Which conditions decide a mission is
up to its file, and to the model's constants: `LastStand` says whether it lists ALL_PG_KO,
`Elimination` whether ALL_MONSTERS_ELIMINATED, `Exits` and `TimeLimits` hold its
PG_REACHED_EXIT and TIME_LIMIT entries. `MissionDecided` demands an end only of a mission
that lists the condition; one that lists none runs on with everybody down.

### DungeonParty and DungeonEngine

`DungeonParty` keeps the roster and the map's occupancy apart, as the code does, because
both record an actor's room. A map file is a constant: whatever the loader accepts, also
monsters without hit points and actors in rooms that the map does not have (they are in the
roster, but the map has them `Nowhere`), and files that fail to load, with the part that was
loaded before the failure. `DungeonEngine` splits `advance_turn()` at its calls of `TurnFlow`,
and `start_game()` where it has emptied map and roster, closed the session, loaded the file, opened
the new session and started a turn; a command that only plays is one step, since all it
changes that the main thread reads is the flow, once. Two accesses of the threads to
the same container at the same time are undefined in C++; the model gives them the outcomes of one after
the other, and the exceptions of the main thread's lookups, which fail when they meet an
emptied roster or map (`MayThrow`). `running` becomes FALSE when an exception leaves `main()`.

### Tris and TrisTable

`Tris` is every command, with the events it leaves in `outbox`. The board is a set of cells with
its lines. `TrisTable` sends them one by one over the channel and adds the window that
`GUI/main.py` opens: `view.board` is what `GmTrisBoardModule` keeps and its `BoardWidget` shows,
`view.actors` and `view.flow` what `GmActorModule` and `GmFlowModule` show of the envelopes
`TrisEventAdapter` makes (its `gmFlow.turn.started` are counted as `turns`), each changed by one event at a
time. A click sends the mark the board believes to be on turn and changes nothing else.
`link` is the engine's socket: `IpSocketChannel` connects only when it has none, so after the
window is closed it keeps a stale one (`Close`) until a send on it fails, and what is
sent meanwhile is lost (`Lost`), also when a new window listens already. `boardHeard`
and `rosterHeard` say that no event was lost since this game's SESSION_STARTED, or its ACTOR_SNAPSHOT.
The older window (`app/tris_window.py` and its widgets) is not instantiated by anything
(`PLAN.md:212-220`) and is not modelled.

## 3. What the runs check

### Runs that pass

| run | instance | shows |
|---|---|---|
| `async_dispatcher` | 2 clients, 2 channels, exact key and `*`, up to 2 copies of a subscription, 3 calls each, 2 envelopes; channels that call back in every way and may throw | `NothingLost`, `FlushWaitsForAll`, `ShutdownComplete`, `NoLostWakeup`, `OneCopyPerSubscription` |
| `async_dispatcher_live` | 2 clients, 1 channel, 2 calls each, 3 envelopes, nested dispatch, nothing throws | `EventuallyRouted`, `CallsReturn`, and `Implements`: a refinement of `OrderedDelivery` with its liveness; no deadlock |
| `sequential_session` | 3 actors; phases plain, nested, plain; all at once inside and in turn outside; round limits 2 outside and 1 inside; up to 3 submissions inside each other, 1 pause | `OneWindow`, `NeverStranded`, `AcceptedRunsOnce`, `OneActionEach`, `RoundCoversAll`, `RoundsWithinLimit`, `SessionFinishes` |
| `session_registry` | 2 users, 2 sessions of 2 seats, 2 workers, cap 1, no tabs | `CapRespected`, `OneSeatEach`, `NoOrphanEngine`, `TornDownOnce`, `ForgottenIsStopped` |
| `registry_tabs` | 1 session, 1 worker, 2 tabs, 2 envelopes of one type | `NeverBackwards`, `EventsReachTabs` |
| `campaign_play` | 3 scenarios that depend on each other, 3 starts; timelines of 2 actors up to time 3 with 2 upsets each; 4 milestones, one of them registered and one removed by another's callback | `MilestonesOnTime`, `NobodyPassedOver`, `StillPlayable`, `NeverStuck`, `AnnouncedOnce` |
| `eldhom` | 2 heroes with decks of 3 and 2 cards, a group of 2 monsters, 3 rooms, a treasure, 6 time units, 1 hit point each | `NoCardLost`, `SequenceKeepsTurn`, `DeferredTurnEnds`, `MissionDecided` |
| `dungeon` | a dungeon of 2 heroes and a monster, one of a hero and a stronger monster, one with a monster loaded without hit points and 2 actors in a room that is not there, a file that fails to load; 2 actions for each turn | `ActionsWithinLimit`, `WindowAnswerable`, `OnlyMonstersFall`, `TurnsResume` |
| `cards` | 3 cards, 2 groups | `TransientFollows`, `PersistentStays` |
| `tris` | the 3x3 board and its 8 lines, up to symmetry; 1 command and 1 event under way; an open window that has not heard the opening follows the game for 1 mark | `OutcomeRight`, `MarksAlternate`, `WindowAgrees` |

Why the bounds are enough.

* Two clients give every pair of calls that can interleave. Two envelopes are one that
  is being routed while the other is pushed or queued; `async_dispatcher_live` has a
  third, so that one is routed, one in the worker's hands and one queued.
* Three actors tell the last of a round from the second; the phases reach the entering of
  a nested phase from `advance_phase()`, and its end from `tick()` by phases and by
  rounds. Three nested submissions let a window fill up while another submission to it is
  half-way.
* Two workers suffice for the races of the registry, which are between pairs of requests;
  two sessions let one be torn down while another is created. Two envelopes of one
  type are what an outdated replay needs.
* Three scenarios give one with two prerequisites; three starts allow a loss, a drop or a
  replay on the way. A horizon of 3 lets one action pass two thresholds at once, and
  one threshold equal the time reached.
* In Eldhom the mission lists all four conditions, as the shipped ones do between them, and
  every hero has a deck; a hit point each makes every blow a fall; two heroes and two monsters make
  the second fall decide the mission; a hand limit of two with three cards forces reshuffles.
* In Dungeon-Crawler two actions tell the limit from the first action, and four files
  let a new game name actors the old one does not have. `dungeon_threads` leaves out the one with
  the missing room, where the process also ends without a race (section 3).
* `tris` covers every game on the board. A click is made on whatever the window shows while
  events are still to be sent or received. `MaxEvents` bounds the events under way to the window;
  the engine waits for room, which takes nothing from its behaviour since it never reads the
  window. `MaxMissed` bounds how far a game goes on before an open window that missed its opening:
  of such a game `WindowAgrees` demands only the half that was heard, and every later game starts
  from any blank or half-heard picture. A command of another client falls when the window is not
  connected and none is under way (`HandleOther`), as `CmdServer` serves one client at a time.

The proofs lift the safety properties to every size (section 5). Symmetry is used only
over sets whose elements the specification does not tell apart, and in runs without
liveness; for `tris` it is the group of the eight symmetries of the square, which keep the set of
lines. The largest runs are `tris` (1.8 million states, three minutes) and `async_dispatcher`
(0.5 million).

Deadlock is checked except where the system may stop: channels that throw or block
(`async_dispatcher`; `async_dispatcher_live` checks it), the gateway, which rests when
nobody makes a request, an Eldhom mission that is over, and the Dungeon-Crawler process, which may end.

### Runs that end in a violation

Each checks a sentence of the repository against the code; `PROJECT.json` quotes the line.

| run | property | the repository says | the code does |
|---|---|---|---|
| `eldhom_windows` | `WindowsAnswerable` | `main.cpp:104-105`: an open dialog waits for its own command | two windows open at once each reject the command the other waits for: the server answers nothing but state requests |
| `dungeon_threads` | `MainLoopSurvives` | `DungeonEngine.hpp:14-15`: all calls come from one thread | a new game between two steps of `advance_turn()` takes the session or the actors away; the next step throws on the main thread and the process ends |

### Further disagreements, without a run of their own

Met while reading; the models' actions show most of them. Paths are those of the files
in `src/`.

gmDispatch:

| the documentation says | the code does |
|---|---|
| `AsyncDispatcher.hpp:46-48`: `dispatch()` from a `send()` callback deadlocks | it needs the queue mutex only and is accepted (`NestedDispatch`) |
| `SyncDispatcher.hpp:51-52`: use AsyncDispatcher to subscribe from a callback | the call waits for the route mutex its own thread holds (`AsyncDispatcher.cpp:49`) and never returns; the two headers thus send the reader to each other |
| `IpSocketChannel.hpp:23`: a lost connection is retried at the next `send()` | `worker_loop()` catches nothing: the exception ends the process, and the envelopes queued behind it are never routed |
| `SyncRouter.hpp:60`, `PatternRouter.hpp:77`: unsubscribe removes the first occurrence | all of them (`SyncRouter.cpp:21`) |

gmFlow:

| the documentation says | the code does |
|---|---|
| `EventType.hpp:65`: ActionSubmitted means accepted | the event is published first; after it the window may still refuse |
| `EventType.hpp:35`: SessionCompleted when the controller is complete | not when rounds run out |
| `gmFlow_API.md:499`: SessionCompleted when the session finishes | also when a nested controller does (`SequentialFlowController.cpp:237`) |
| `gmFlow_API.md:724`: the controller closes a MANUAL_CLOSE window | nothing calls `force_close()`: the session stops |
| `IFlowController.hpp:79`: an actor with an open window can act | not inside the first events of a FlowPhase, which sets `_entered` after `start()` (`FlowPhase.cpp:43`); on a timeline an active actor whose action failed can act, but has no window to submit to |
| `Turn.hpp:37`: a turn's id is unique | phases reset the number within a round (`SequentialFlowController.cpp:276`) |
| `TurnPolicy.hpp:41`, `ActionWindow.hpp:104`: several actions in one turn | one submission for each window (`ActionWindow.cpp:35`) |

Milestones: the header of `test_milestone_system.cpp:18` lists "callback-registered milestone
fires in the same advance() if in range" among what is tested; no test does, and `advance()`
fires only what was registered when it was called, which the comment at
`TimelineMilestoneSystem.cpp:46-47` gives as the intention. `MilestonesOnTime` sides with the
comment and the code: such a milestone counts from the time that is being reached, so it
does not fire, and stays registered for good unless it is removed.
A callback that removes a milestone already due shifts the positions collected
before it (`TimelineMilestoneSystem.cpp:46-47`), so another entry fires or an index
passes the end; one that registers a milestone before those that are due does the same, although
a comment there says that it does not interfere. The callbacks of the `campaign_play` instance leave alone
what time is passing (`CallbacksLookAhead`). A milestone
at or below the clock that `start()` sets never fires. In a campaign, replaying the
last session announces completion again and overwrites its result.

gmWebServe:

| the documentation says | the code does |
|---|---|
| `session_registry.py:135-137`: engines start outside the lock | inside it, for up to ten seconds |
| `session_registry.py:101-102`: a late tab sees the current state | an envelope stored between the copy and the subscription is missed |
| `session_registry.py:346-347`: subscribe() raises SessionNotFoundError | it iterates a dictionary outside the lock (line 352), which another thread may grow |
| `engine_process.py:47-50`: `is_running` tells whether the process has exited | nothing reads it: the session of an engine that ended stays listed, counts towards the cap and accepts commands that nobody handles, until it is closed or reaped |
| `session_registry.py:416`: teardown stops the sender | a command under way reconnects it (line 338) |

gmRules and gmAlea: with two cards on one group, the first to leave play ends the rules
of both (`RuleGroup.hpp:35` says they follow the card). A `TRIGGER_BOUND` group is never
deactivated by an event. An early return in `StatusEngine.cpp:161-173` leaves
some statuses unexpired, `FOR_N_ACTIVATIONS` above 1 never expires (206-217), and the
REMOVE_STATUS effect removes nothing (`EffectResolver.cpp:130-137`); these parts are not modelled.

Eldhom: a card's own effects and cost are applied before the reaction to its attack, though
`EldhomEngine.hpp:95-97` says that nothing is until then, so a monster group may play in
between; `resolve_formation()` does not check that the answer names the front of the queue (410-411); cards that are
not in the hand count towards RECOVER; one instant named twice applies twice; an INSTANT
played as a card costs time and does not end the turn; heroes that are knocked out stay targets,
may play instants and be healed; a reaction ends the turn also in a sequence; the
passages a hero unlocks are not added to the engine's own `_adjacency`; `advance_auto()` waits for
the reactive window only, so a group may move while an attack or a dialog is open.

Dungeon-Crawler: a hero whose room is not of the map ends the process when `advance_turn()` starts
his turn, since `build_available_actions()` throws (`MayThrow`); a monster loaded without hit points
stays in the roster, can be healed and cannot be attacked; no handler asks whose turn it is; a turn may start twice, be skipped or lose
a count of actions when the threads cross; monsters that were removed stay in the map and
in the turn order; a new game that fails to load leaves what was loaded so far; a hero may
move to the room he is in, for an action.

Tic-Tac-Toe: row and column are cut to a byte, so 257 is 1 (modelled: a command
names a cell or none); the active actor of `TurnFlow.hpp:52` is X in PLAYER1_TURN also
when O was chosen to start, and `tris_event_adapter.py:43-49` names the turn in the flow panel in the
same way (the model counts turns and does not name them). After a window is closed and opened again,
the first event the engine sends is lost to the stale socket, perhaps more (`IpSocketChannel.cpp:93`):
of the next game the dice roll or the actor snapshot is missing, and the actors panel stays empty or
out of date until the game after it. `WindowAgrees` says that the board and the flow panel are right all
the same, if the SESSION_STARTED arrives. A process that is ended by SIGPIPE when it sends on
such a socket (POSIX builds, which do not ignore the signal) is not modelled.

## 4. Fairness

* AsyncDispatcher: weak fairness for each client's running call, for the worker and
  for the destructor once begun; threads that can run are run. Clients need
  not call. `CallsReturn` is about finitely many dispatches: a flush waits for an
  empty queue, and clients that never stop may keep it from being empty.
  Weak fairness is enough for the contended route mutex since
  each client makes finitely many calls.
* SequentialSession: the thread runs on inside a call, the game loop keeps ticking,
  whoever paused resumes, and an actor who can act submits in the end. The
  last two are the game's part; without them a session rightly waits.
  A phase decides in the end (`MaxTurns`).
* SessionRegistry: a request that runs runs on, a listener handles what it has read,
  and the loop runs its callbacks. Nobody has to make a request, and an engine
  need not emit anything.
* DungeonEngine: the main loop keeps calling `advance_turn()`, and a command that has begun is
  finished. Nothing is assumed of the clients.

The other modules state no liveness: whether a timeline, a campaign, a mission or a match goes
on is the players' choice, and what the code owes them, that they can go on, is stated
as an invariant (`StillPlayable`, `NeverStuck`, `DeferredTurnEnds`).

## 5. What is proved

Forty-two theorems in eight modules, each from the named assumptions on the constants
(`DispatcherAssumption`, `SessionAssumption`, `RegistryAssumption`, `TimelineAssumption`,
`CampaignAssumption`, `NoGroupAssumption`, `SquadAssumption`, `CardAssumption`,
`BehaviorAssumption`, `MapsAssumption`, `NumbersAssumption`, `LinesAssumption`), which TLC
evaluates on the instances. Five take a further hypothesis, named below with its reason. Each
follows one scheme: an inductive invariant, a lemma for each of its parts with one step for each
action, and the temporal conclusion.

Every safety property of the passing runs is stated by a theorem.
Where an argument counts (the heroes round the table, the entries of a list, the levels of a
campaign) it uses that `<` on the naturals is well founded (`WFMin` of WellFoundedInduction),
from which `LeastNumber` and `CountingUp` are derived; the values of recursive functions are
known only once such a function is shown to exist (`RunExists` in EldhomProofs and CampaignProofs).

**AsyncDispatcherProofs**, for any clients, types, keys, channels, matching, re-entrant calls,
throwing channels and bounds: `Invariance`, `TypeCorrect`, `DeliveryInOrder`, `FlushGuarantee`,
`DestructionDrains`, `WakeupsArrive`, `RouterSerialised`, and `Refinement` (`Spec =>
Promise!Safety`: every step is a step of `OrderedDelivery` or stutters). `NothingLost` is not
inductive alone: when the worker takes an envelope one must know that its hands are empty
(`InHandOk`). `FlushGuarantee` needs that an empty queue with `_worker_busy` reset means that
everything was routed, so `BusyOk` ties the flag to the places in the worker loop at which an
envelope is in its hands or its routing is not yet reported; `LockOk` ties the owner of the
router's mutex to the thread inside. `ShutdownComplete` needs that the worker leaves with the queue empty (`ExitOk`) and that
nobody dispatches after the destructor began (`StopOk`). `NoLostWakeup` and `NoLostDrain` follow
each flag to the thread that has the notification still to make. `CopiesMatchSubscriptions` counts:
while the worker routes an envelope, the copies a channel has of it and the sends still to make
add up to its matching subscriptions (`CopiesOk`); nothing beyond the envelope in hand was sent
before (`SentSoFar`), because envelopes are numbered in the order in which they are accepted
(`Numbered`).

**SequentialSessionProofs**, for any actors, phases, policies, limits and bounds: `AlwaysOneWindow`,
`AlwaysAnswerable`, `AlwaysOneActionEach`, `RoundsAreWhole`, `RoundsAreBounded`,
`EveryActionRunsOnce`. The properties lean on where the thread is. `Control` says which
events are published with a window and which without (`WindowOk`, `NestedOpening`), that a level
publishes its turns only while it is the active one (`ActiveOk`), that an inner
controller that goes on after its first turn was called by `tick()` (`FrameOk`), and that the
outer one ends once, just before the session does (`EndOk`). `CoverOk` measures how far round
the table the turns have come, in the arithmetic of the code's index modulo the number of
actors (`NextRemainder`), since phases that change in mid-round reset the turn number but
not the round. `SettleOk` keeps the debts: an action accepted and not yet run is
one that its window holds behind the position `resolve()` has reached.

**SessionRegistryProofs**, for any users, sessions, seats, workers, tabs and bounds:
`CapAlwaysRespected`, `AlwaysOneSeatEach`, `NeverAnOrphan`, `AlwaysTornDownOnce`. The
strengthening: the thread that starts an engine holds the lock, its session is in nobody's
hands and its user is below the cap (`StartingOk`); an id without an engine occurs nowhere
(`FreshOk`); an engine that ends by itself is still one that was started (`Started`), so that it is
torn down like the others; only a worker that tears down has sessions to tear down, and the one in hand is
among them (`TearingOk`). The cap is thus proved to hold although the check and the entry of the
session in the table are two steps, because the lock is held between them.
`TabsNeverGoBackwards` has an invariant of its own (`DInv`): while the last envelopes are copied to a
tab nobody else writes to its queue (`JoinedOk`), each type is copied once (`ReplayOk`), and what
waits in the event loop for a tab is in order and not older than anything in its queue
(`PendingOk`). None of this needs the registry's lock: `subscribe()` copies and subscribes outside
it.

**DungeonProofs**, for any limits, reaches and blocks and any map files the loader accepts, which
clamps the numbers of each actor (`ActorRoster::add_actor`, `MapsAssumption`): `LimitHolds`,
`WindowsAreAnswerable`, `MonstersFallAlone`, `RosterAgreesWithMap`, with both threads running.
The invariant keeps the party consistent with the file it was loaded from (`PartyInv`) and the
pending attack within the party (`WindowInv`). None of them needs a lock: the main
thread changes neither the party nor the attack, and resets the count of actions only.

**TrisProofs**, for any finite board and any non-empty lines: `OutcomeAlwaysRight` needs that a
move completes lines of its own mark only (`MoveLinesItsOwn`); `AlwaysAlternate` counts marks
with finite cardinalities. `WindowAlwaysAgrees` is an invariant about the future: the picture the window will have once it
has handled all that is queued and all that is still to be sent (`Ahead`) is the engine's game
(`WillAgree`). A handler then has to be shown to leave events that lead from one game to the
next (`WinShown`, `DrawShown`, `ContinueShown`), and sending and receiving change nothing. An opening
leads to the new game from any picture at all, the board from SESSION_STARTED on (`SessionShown`), the
badges from ACTOR_SNAPSHOT on (`RosterShown`); that is why it repairs a window which lost what was
before. The invariant remembers which opening the outbox is the rest of (`OutboxRight`). No bound
on commands or events is used.

**CardRulesProofs**, for any cards and groups: `TransientAlwaysFollows` and `AlwaysRegistered`
under `~SharedGroups`, by the uniqueness of a group's card (`OneCardEach`); `PersistentAlwaysStays`
without that condition.

**EldhomProofs**, for any heroes, decks, cards, hand limits, rooms, groups and behaviour cards:
`CardsConserved`. `NoCardLost` is inductive; the work is in lemmas on what each operation of
a hand does to its zones, and that every command uses only those. `SequenceNeverInterrupted`,
`DeferredTurnsEnd` and `MissionAlwaysDecided` share the invariant `TurnInv`: the store is sound (a
group's members are those of its squad that live, and it is off the timeline when none does), the
mission is decided as the store demands (`Settled`), an open sequence is of a hero who stands, a
deferred end of turn has its dialog, the parked attack names a hero and a monster, and each
group is at a card of its deck. Heroes are felled by monster groups only, and a group plays
only while no sequence is open; the proof is that no dialog, instant or deferred end of turn opens a way round this.
`MissionAlwaysDecided` speaks of the conditions the mission's file lists, whatever they are, and
assumes that there are heroes and monsters (`Staffed`): the
loader accepts a mission without them (`MissionLoader.cpp:199-210`), and such a mission starts with
a side that has nobody and goes on all the same.

**CampaignProofs**, for any actors, ranks, openings, milestones, callbacks, sessions and requirements:
`SomebodyCanAct` and `ControlGoesToTheSoonest` (the actor selected is the least in an order that
is total on a finite set, `NextActorIsSoonest`), `UnlocksAreAnnouncedOnce` (what is unlocked is exactly what
the results unlock, `UnlockedInTime`) and `CampaignIsNeverStuck`. The last assumes an initial session
and a level for each session above those of its requirements, which says that requirements are
not circular: a campaign file that breaks this is accepted by the code and cannot be finished.
`MilestonesComeOnTime` assumes that no milestone is registered twice (`RegisteredOnce`) and that
callbacks look ahead (`CallbacksLookAhead`): while time moves on they register nothing with a threshold before the
new time and remove nothing up to it. Without that it is false (section 3). The list
is then sorted and names nobody twice (`Listing`), what is due is among its first places, and
those places hold the same entries through the whole pass (`Agree`, `ChangedKeeps`, `PassKeeps`), so
that an index names what it named when it was collected. The history says that a milestone which was
ever registered by a callback has that callback behind it (`MilestoneHistory`), and a callback
runs once; so nothing is registered a second time.

Only model-checked:

* liveness: `EventuallyRouted`, `CallsReturn`, the liveness of `Implements`, `SessionFinishes`,
  `ForgottenIsStopped`, `EventsReachTabs`, `TurnsResume`. Fairness and ENABLED are out of the
  prover's reach;
* the disagreements of section 3, which are counterexamples.

## 6. What could come next

1. Refinements of abstract specifications of the session and of the registry, with their proofs.
2. `SyncDispatcher` under a recursive mutex, with what a callback may do to the table that is
   iterated; `PatternRouter`'s filter by target.
3. Frames, receive timeouts and reconnects of `engine_listener.py` and `IpSocketChannel`, and
   the start and stop of `CmdServer` against `accept()` and `recv()`.
4. Statuses, conditions and effects of gmRules; objects and `handle_play_card` of Dungeon-Crawler.

## 7. Not modelled, and why

* Within modelled components. SequentialSession: `tick()` from inside a handler, exceptions of
  game code, `_action_queue` (nothing in the library fills it), FlowPhases inside
  FlowPhases. Timeline: `clear()`, milestones changed outside a callback after the start, and
  callbacks that remove milestones already due (undefined beyond the end of the list). SessionRegistry:
  framing, socket timeouts, status codes, authentication. Eldhom: more than two factions,
  the order of cards in a pile, events. Dungeon-Crawler: interactable objects, saving, played
  cards. Tic-Tac-Toe's window: layout, texts, the dice panel, the flow panel's buttons (the engine
  ignores their commands), and a receive timeout in the middle of a frame (`receiver.py:100-102`), after
  which the rest of the frame would be read as a new one. The web client's state (`gameState.ts`).
* Sockets below the level of a message, formatting, serialisation, logging, saving,
  rendering, parsing of rules and missions, and authentication hold no protocol that
  interleaves. gmMap, gmActor and gmInteraction are containers with sequential operations,
  modelled where a game's rules use them.
* The vendored JSON library in `gmSave/json.hpp` is third-party. It is more than a third of the
  source's lines; tests, widgets and loaders are most of the rest that no definition stands for.
