----------------------- MODULE SequentialSessionProofs ------------------------
(***************************************************************************)
(* The safety of a session driven by nested controllers, for any actors,   *)
(* phases, policies and bounds.                                            *)
(*                                                                         *)
(* The properties lean on where the thread is: which events are published  *)
(* with a window and which without (Bare, NestedOpening), that a level     *)
(* publishes its turns only while it is the active one (ActiveOk), that an *)
(* inner controller that goes on after its first turn was called by tick() *)
(* (FrameOk), and that the outer controller ends once, just before the     *)
(* session does (EndOk).                                                   *)
(***************************************************************************)
EXTENDS SequentialSession, FiniteSetTheorems, TLAPS

\* Events of start() and of the entering of a phase.
Opening == {"firstEntered", "firstRound", "sessionStarted", "phaseEntered"}

\* Events published while the level that publishes them has a window.
Holding == {"windowOpened", "actionStarted", "actionEnded", "windowClosed"}

\* Events published while nobody has a window.
Bare == {"turnStarted", "turnEnded", "roundEnded", "roundStarted", "phaseExited",
         "sessionCompleted"}

\* Events that only tick() leads to.
Ticking == {"actionStarted", "actionEnded", "windowClosed", "turnEnded", "roundEnded",
            "roundStarted", "phaseExited", "sessionCompleted"}

Window == [status : {"none", "open", "closed"}, eligible : SUBSET Actors,
           taken : Seq(Actors)]

Types ==
    /\ state \in {"CREATED", "RUNNING", "PAUSED", "COMPLETED"}
    /\ phase \in [Levels -> Nat \ {0}]
    /\ actor \in [Levels -> Nat]
    /\ round \in [Levels -> Nat]
    /\ finished \in [Levels -> BOOLEAN]
    /\ window \in [Levels -> Window]
    /\ entered \in BOOLEAN
    /\ frame \in {"none", "start", "enter", "tick"}
    /\ at \in [event : Opening \cup Holding \cup Bare \cup {"idle"}, level : Levels]
    /\ acted \in [Levels -> SUBSET Actors]

NoWindows == window["outer"] = NoWindow /\ window["inner"] = NoWindow

\* A window belongs to the controller that is active.
WindowOk ==
    /\ \A l \in Levels : window[l] # NoWindow => l = Active
    /\ \A l \in Levels : window[l].status = "open" => window[l].eligible # {}
    /\ at.event \in Bare => NoWindows
    /\ at.event \in Opening => window[at.level] = NoWindow
    /\ at.event = "windowOpened" => window[at.level].status = "open"

\* A level publishes its turns while it is active, and the inner one everything.
ActiveOk ==
    /\ at.level = "inner" => Active = "inner"
    /\ at.event \in Holding \cup (Bare \ {"phaseExited", "sessionCompleted"})
         => at.level = Active

FrameOk ==
    at.level = "inner" =>
        /\ at.event # "idle"
        /\ frame # "none"
        /\ at.event \in Ticking => frame = "tick"

\* A FlowPhase that the outer controller has entered waits in its window.
NestedOpening ==
    at.level = "outer" /\ at.event \in Opening /\ Active = "inner" =>
        entered /\ window["inner"].status = "open"

\* The outer controller has ended just before the session does.
EndOk ==
    /\ finished["outer"] => \/ at = [event |-> "sessionCompleted", level |-> "outer"]
                            \/ Idle /\ state = "COMPLETED"
    /\ at = [event |-> "sessionCompleted", level |-> "outer"] => finished["outer"]
    /\ state = "COMPLETED" => Idle /\ finished["outer"]

\* Before start() there is nothing.
CreatedOk == state = "CREATED" => Idle /\ NoWindows

\* At rest the session waits for somebody.
RestOk ==
    Idle /\ state \in {"RUNNING", "PAUSED"} =>
        /\ window[Active].status = "open"
        /\ Active = "inner" => entered

Control ==
    /\ Types
    /\ WindowOk
    /\ ActiveOk
    /\ FrameOk
    /\ NestedOpening
    /\ EndOk
    /\ CreatedOk
    /\ RestOk

------------------------------------------------------------------------------
(* Lemmas about the operators. *)

\* There is somebody to act.
LEMMA SomeActor == Actors # {}
<1>1. 1 \in DOMAIN Order
  BY SessionAssumption
<1> QED
  BY <1>1 DEF Actors

LEMMA ActorsOf == \A i \in 1..Len(Order) : Order[i] \in Actors
BY SessionAssumption DEF Actors

LEMMA Remainder == ASSUME NEW n \in Nat \ {0}, NEW i \in Nat PROVE i % n \in 0..(n - 1)
OBVIOUS

\* Whose turn it is is well defined, and somebody is eligible.
LEMMA EligibleOk ==
    ASSUME Types, NEW l \in Levels
    PROVE  Eligible(l) \in SUBSET Actors /\ Eligible(l) # {}
<1>1. actor[l] \in Nat /\ Len(Order) \in Nat \ {0}
  BY SessionAssumption DEF Types
<1>2. actor[l] % Len(Order) \in 0..(Len(Order) - 1)
  BY <1>1, Remainder
<1>3. (actor[l] % Len(Order)) + 1 \in 1..Len(Order)
  BY <1>1, <1>2
<1> QED
  BY <1>3, ActorsOf, SomeActor DEF Eligible

LEMMA ActiveLevel == Active \in Levels
BY DEF Active, Levels

\* The inner level has no FlowPhases.
LEMMA InnerIsPlain == \A p : ~IsFlow("inner", p)
BY DEF IsFlow

\* What the end of an outer start() or process() changes.
LEMMA ReturnsOuter ==
    ASSUME Types, NEW over \in BOOLEAN, Return("outer", over)
    PROVE  /\ at' = [event |-> "idle", level |-> "outer"]
           /\ state' = IF over THEN "COMPLETED" ELSE state
           /\ UNCHANGED <<entered, frame, offers, pauses>>
BY DEF Return, Publish, nestVars

\* What the end of an inner one changes.
LEMMA ReturnsInner ==
    ASSUME Types, frame # "none", NEW over \in BOOLEAN, Return("inner", over)
    PROVE  /\ frame = "start" => at' = [event |-> "firstEntered", level |-> "outer"]
           /\ frame = "enter" => at' = [event |-> "phaseEntered", level |-> "outer"]
           /\ frame = "tick" => at' = [event |-> IF over THEN "phaseExited" ELSE "idle",
                                      level |-> "outer"]
           /\ frame \in {"start", "enter", "tick"}
           /\ entered' = TRUE /\ frame' = "none"
           /\ UNCHANGED <<state, offers, pauses>>
<1>1. frame \in {"start", "enter", "tick"}
  BY DEF Types
<1>2. entered' = TRUE /\ frame' = "none" /\ UNCHANGED <<state, offers, pauses>>
  BY DEF Return, callVars
<1>3. CASE frame = "start"
  BY <1>2, <1>3 DEF Return, Publish
<1>4. CASE frame = "enter"
  BY <1>2, <1>4 DEF Return, Publish
<1>5. CASE frame = "tick"
  BY <1>2, <1>5 DEF Return, Publish
<1> QED
  BY <1>1, <1>2, <1>3, <1>4, <1>5

\* Where the thread is when a controller has returned.
LEMMA ReturnsWhere ==
    ASSUME Types, FrameOk, NEW l \in Levels, at.level = l, NEW over \in BOOLEAN,
           Return(l, over)
    PROVE  at'.event \in {"idle", "firstEntered", "phaseEntered", "phaseExited"}
<1>1. l = "inner" => frame \in {"start", "enter", "tick"}
  BY DEF FrameOk, Types
<1>2. CASE l = "outer"
  BY <1>2 DEF Return, Publish
<1>3. CASE l = "inner" /\ frame = "start"
  BY <1>3 DEF Return, Publish
<1>4. CASE l = "inner" /\ frame = "enter"
  BY <1>4 DEF Return, Publish
<1>5. CASE l = "inner" /\ frame = "tick"
  BY <1>5 DEF Return, Publish
<1> QED
  BY <1>1, <1>2, <1>3, <1>4, <1>5 DEF Levels

LEMMA NoWindowType == NoWindow \in Window
BY DEF NoWindow, Window

LEMMA AfterFirstEnteredKeeps ==
    ASSUME Control, NEW l \in Levels, AfterFirstEntered(l)
    PROVE  Control'
<1> USE DEF Control
<1>1. Types'
  BY EligibleOk, NoWindowType DEF Types, Window, Opening, Holding, Bare, After,
     Publish, Return, OpenTurn, Levels, flowVars, nestVars, callVars, Idle,
     AfterFirstEntered
<1>2. Active' = Active
  BY DEF Active, IsFlow, After, Publish, Return, OpenTurn, Levels, flowVars,
     nestVars, callVars, Idle, AfterFirstEntered
<1>3. WindowOk'
  BY <1>1, <1>2, EligibleOk, InnerIsPlain DEF Types, Window, WindowOk, ActiveOk,
     FrameOk, NestedOpening, EndOk, CreatedOk, RestOk, NoWindows, NoWindow,
     Opening, Holding, Bare, Ticking, After, Publish, Return, OpenTurn, Levels,
     flowVars, nestVars, callVars, Idle, AfterFirstEntered
<1>4. ActiveOk'
  BY <1>1, <1>2, EligibleOk, InnerIsPlain DEF Types, Window, WindowOk, ActiveOk,
     FrameOk, NestedOpening, EndOk, CreatedOk, RestOk, NoWindows, NoWindow,
     Opening, Holding, Bare, Ticking, After, Publish, Return, OpenTurn, Levels,
     flowVars, nestVars, callVars, Idle, AfterFirstEntered
<1>5. FrameOk'
  BY <1>1, <1>2, EligibleOk, InnerIsPlain DEF Types, Window, WindowOk, ActiveOk,
     FrameOk, NestedOpening, EndOk, CreatedOk, RestOk, NoWindows, NoWindow,
     Opening, Holding, Bare, Ticking, After, Publish, Return, OpenTurn, Levels,
     flowVars, nestVars, callVars, Idle, AfterFirstEntered
<1>6. NestedOpening'
  BY <1>1, <1>2, EligibleOk, InnerIsPlain DEF Types, Window, WindowOk, ActiveOk,
     FrameOk, NestedOpening, EndOk, CreatedOk, RestOk, NoWindows, NoWindow,
     Opening, Holding, Bare, Ticking, After, Publish, Return, OpenTurn, Levels,
     flowVars, nestVars, callVars, Idle, AfterFirstEntered
<1>7. EndOk'
  BY <1>1, <1>2, EligibleOk, InnerIsPlain DEF Types, Window, WindowOk, ActiveOk,
     FrameOk, NestedOpening, EndOk, CreatedOk, RestOk, NoWindows, NoWindow,
     Opening, Holding, Bare, Ticking, After, Publish, Return, OpenTurn, Levels,
     flowVars, nestVars, callVars, Idle, AfterFirstEntered
<1>8. CreatedOk'
  BY <1>1, <1>2, EligibleOk, InnerIsPlain DEF Types, Window, WindowOk, ActiveOk,
     FrameOk, NestedOpening, EndOk, CreatedOk, RestOk, NoWindows, NoWindow,
     Opening, Holding, Bare, Ticking, After, Publish, Return, OpenTurn, Levels,
     flowVars, nestVars, callVars, Idle, AfterFirstEntered
<1>9. RestOk'
  BY <1>1, <1>2, EligibleOk, InnerIsPlain DEF Types, Window, WindowOk, ActiveOk,
     FrameOk, NestedOpening, EndOk, CreatedOk, RestOk, NoWindows, NoWindow,
     Opening, Holding, Bare, Ticking, After, Publish, Return, OpenTurn, Levels,
     flowVars, nestVars, callVars, Idle, AfterFirstEntered
<1> QED
  BY <1>1, <1>3, <1>4, <1>5, <1>6, <1>7, <1>8, <1>9

LEMMA AfterFirstRoundKeeps ==
    ASSUME Control, NEW l \in Levels, AfterFirstRound(l)
    PROVE  Control'
<1> USE DEF Control
<1>1. Types'
  BY EligibleOk, NoWindowType DEF Types, Window, Opening, Holding, Bare, After,
     Publish, Return, OpenTurn, Levels, flowVars, nestVars, callVars, Idle,
     AfterFirstRound
<1>2. Active' = Active
  BY DEF Active, IsFlow, After, Publish, Return, OpenTurn, Levels, flowVars,
     nestVars, callVars, Idle, AfterFirstRound
<1>3. WindowOk'
  BY <1>1, <1>2, EligibleOk, InnerIsPlain DEF Types, Window, WindowOk, ActiveOk,
     FrameOk, NestedOpening, EndOk, CreatedOk, RestOk, NoWindows, NoWindow,
     Opening, Holding, Bare, Ticking, After, Publish, Return, OpenTurn, Levels,
     flowVars, nestVars, callVars, Idle, AfterFirstRound
<1>4. ActiveOk'
  BY <1>1, <1>2, EligibleOk, InnerIsPlain DEF Types, Window, WindowOk, ActiveOk,
     FrameOk, NestedOpening, EndOk, CreatedOk, RestOk, NoWindows, NoWindow,
     Opening, Holding, Bare, Ticking, After, Publish, Return, OpenTurn, Levels,
     flowVars, nestVars, callVars, Idle, AfterFirstRound
<1>5. FrameOk'
  BY <1>1, <1>2, EligibleOk, InnerIsPlain DEF Types, Window, WindowOk, ActiveOk,
     FrameOk, NestedOpening, EndOk, CreatedOk, RestOk, NoWindows, NoWindow,
     Opening, Holding, Bare, Ticking, After, Publish, Return, OpenTurn, Levels,
     flowVars, nestVars, callVars, Idle, AfterFirstRound
<1>6. NestedOpening'
  BY <1>1, <1>2, EligibleOk, InnerIsPlain DEF Types, Window, WindowOk, ActiveOk,
     FrameOk, NestedOpening, EndOk, CreatedOk, RestOk, NoWindows, NoWindow,
     Opening, Holding, Bare, Ticking, After, Publish, Return, OpenTurn, Levels,
     flowVars, nestVars, callVars, Idle, AfterFirstRound
<1>7. EndOk'
  BY <1>1, <1>2, EligibleOk, InnerIsPlain DEF Types, Window, WindowOk, ActiveOk,
     FrameOk, NestedOpening, EndOk, CreatedOk, RestOk, NoWindows, NoWindow,
     Opening, Holding, Bare, Ticking, After, Publish, Return, OpenTurn, Levels,
     flowVars, nestVars, callVars, Idle, AfterFirstRound
<1>8. CreatedOk'
  BY <1>1, <1>2, EligibleOk, InnerIsPlain DEF Types, Window, WindowOk, ActiveOk,
     FrameOk, NestedOpening, EndOk, CreatedOk, RestOk, NoWindows, NoWindow,
     Opening, Holding, Bare, Ticking, After, Publish, Return, OpenTurn, Levels,
     flowVars, nestVars, callVars, Idle, AfterFirstRound
<1>9. RestOk'
  BY <1>1, <1>2, EligibleOk, InnerIsPlain DEF Types, Window, WindowOk, ActiveOk,
     FrameOk, NestedOpening, EndOk, CreatedOk, RestOk, NoWindows, NoWindow,
     Opening, Holding, Bare, Ticking, After, Publish, Return, OpenTurn, Levels,
     flowVars, nestVars, callVars, Idle, AfterFirstRound
<1> QED
  BY <1>1, <1>3, <1>4, <1>5, <1>6, <1>7, <1>8, <1>9

LEMMA AfterSessionStartedKeeps ==
    ASSUME Control, NEW l \in Levels, AfterSessionStarted(l)
    PROVE  Control'
<1> USE DEF Control
<1>1. at = [event |-> "sessionStarted", level |-> l]
  BY DEF After, AfterSessionStarted
<1>2. UNCHANGED <<phase, actor, round, finished, acted, window>> /\ Active' = Active
  BY DEF AfterSessionStarted, flowVars, Active, IsFlow
<1>3. CASE OpensTurn(l)
  <2>1. /\ at' = [event |-> "turnStarted", level |-> l]
        /\ UNCHANGED <<entered, frame, state>>
    BY <1>3 DEF AfterSessionStarted, OpenTurn, Publish, nestVars, callVars
  <2>2. l = Active
    BY <1>1, <1>3, ActiveLevel DEF OpensTurn, Active, ActiveOk, Levels
  <2>3. Types'
    BY <1>2, <2>1 DEF Types, Levels, Bare
  <2>4. WindowOk'
    BY <1>1, <1>2, <2>1, <2>2, <2>3 DEF Types, Window, WindowOk, ActiveOk, FrameOk,
       NestedOpening, EndOk, CreatedOk, RestOk, NoWindows, NoWindow, Opening,
       Holding, Bare, Ticking, Idle, Levels
  <2>5. ActiveOk'
    BY <1>1, <1>2, <2>1, <2>2, <2>3 DEF Types, Window, WindowOk, ActiveOk, FrameOk,
       NestedOpening, EndOk, CreatedOk, RestOk, NoWindows, NoWindow, Opening,
       Holding, Bare, Ticking, Idle, Levels
  <2>6. FrameOk'
    BY <1>1, <1>2, <2>1, <2>2, <2>3 DEF Types, Window, WindowOk, ActiveOk, FrameOk,
       NestedOpening, EndOk, CreatedOk, RestOk, NoWindows, NoWindow, Opening,
       Holding, Bare, Ticking, Idle, Levels
  <2>7. NestedOpening'
    BY <1>1, <1>2, <2>1, <2>2, <2>3 DEF Types, Window, WindowOk, ActiveOk, FrameOk,
       NestedOpening, EndOk, CreatedOk, RestOk, NoWindows, NoWindow, Opening,
       Holding, Bare, Ticking, Idle, Levels
  <2>8. EndOk'
    BY <1>1, <1>2, <2>1, <2>2, <2>3 DEF Types, Window, WindowOk, ActiveOk, FrameOk,
       NestedOpening, EndOk, CreatedOk, RestOk, NoWindows, NoWindow, Opening,
       Holding, Bare, Ticking, Idle, Levels
  <2>9. CreatedOk'
    BY <1>1, <1>2, <2>1, <2>2, <2>3 DEF Types, Window, WindowOk, ActiveOk, FrameOk,
       NestedOpening, EndOk, CreatedOk, RestOk, NoWindows, NoWindow, Opening,
       Holding, Bare, Ticking, Idle, Levels
  <2>10. RestOk'
    BY <1>1, <1>2, <2>1, <2>2, <2>3 DEF Types, Window, WindowOk, ActiveOk, FrameOk,
       NestedOpening, EndOk, CreatedOk, RestOk, NoWindows, NoWindow, Opening,
       Holding, Bare, Ticking, Idle, Levels
  <2> QED
    BY <2>3, <2>4, <2>5, <2>6, <2>7, <2>8, <2>9, <2>10
<1>4. CASE ~OpensTurn(l)
  <2>1. l = "outer" /\ Active = "inner"
    BY <1>4, InnerIsPlain DEF OpensTurn, Active, Levels
  <2>2. Return("outer", FALSE)
    BY <1>4, <2>1 DEF AfterSessionStarted
  <2>3. /\ at' = [event |-> "idle", level |-> "outer"]
        /\ UNCHANGED <<state, entered, frame>>
    BY <2>2, ReturnsOuter
  <2>4. Types'
    BY <1>2, <2>3 DEF Types, Levels
  <2>5. WindowOk'
    BY <1>1, <1>2, <2>1, <2>3, <2>4 DEF Types, Window, WindowOk, ActiveOk, FrameOk,
       NestedOpening, EndOk, CreatedOk, RestOk, NoWindows, NoWindow, Opening,
       Holding, Bare, Ticking, Idle, Levels
  <2>6. ActiveOk'
    BY <1>1, <1>2, <2>1, <2>3, <2>4 DEF Types, Window, WindowOk, ActiveOk, FrameOk,
       NestedOpening, EndOk, CreatedOk, RestOk, NoWindows, NoWindow, Opening,
       Holding, Bare, Ticking, Idle, Levels
  <2>7. FrameOk'
    BY <1>1, <1>2, <2>1, <2>3, <2>4 DEF Types, Window, WindowOk, ActiveOk, FrameOk,
       NestedOpening, EndOk, CreatedOk, RestOk, NoWindows, NoWindow, Opening,
       Holding, Bare, Ticking, Idle, Levels
  <2>8. NestedOpening'
    BY <1>1, <1>2, <2>1, <2>3, <2>4 DEF Types, Window, WindowOk, ActiveOk, FrameOk,
       NestedOpening, EndOk, CreatedOk, RestOk, NoWindows, NoWindow, Opening,
       Holding, Bare, Ticking, Idle, Levels
  <2>9. EndOk'
    BY <1>1, <1>2, <2>1, <2>3, <2>4 DEF Types, Window, WindowOk, ActiveOk, FrameOk,
       NestedOpening, EndOk, CreatedOk, RestOk, NoWindows, NoWindow, Opening,
       Holding, Bare, Ticking, Idle, Levels
  <2>10. CreatedOk'
    BY <1>1, <1>2, <2>1, <2>3, <2>4 DEF Types, Window, WindowOk, ActiveOk, FrameOk,
       NestedOpening, EndOk, CreatedOk, RestOk, NoWindows, NoWindow, Opening,
       Holding, Bare, Ticking, Idle, Levels
  <2>11. RestOk'
    BY <1>1, <1>2, <2>1, <2>3, <2>4 DEF Types, Window, WindowOk, ActiveOk, FrameOk,
       NestedOpening, EndOk, CreatedOk, RestOk, NoWindows, NoWindow, Opening,
       Holding, Bare, Ticking, Idle, Levels
  <2> QED
    BY <2>4, <2>5, <2>6, <2>7, <2>8, <2>9, <2>10, <2>11
<1> QED
  BY <1>3, <1>4

LEMMA AfterTurnStartedKeeps ==
    ASSUME Control, NEW l \in Levels, AfterTurnStarted(l)
    PROVE  Control'
<1> USE DEF Control
<1>1. Types'
  BY EligibleOk, NoWindowType DEF Types, Window, Opening, Holding, Bare, After,
     Publish, Return, OpenTurn, Levels, flowVars, nestVars, callVars, Idle,
     AfterTurnStarted
<1>2. Active' = Active
  BY DEF Active, IsFlow, After, Publish, Return, OpenTurn, Levels, flowVars,
     nestVars, callVars, Idle, AfterTurnStarted
<1>3. WindowOk'
  BY ZenonT(60), <1>1, <1>2, EligibleOk, InnerIsPlain DEF Types, Window, WindowOk, ActiveOk,
     FrameOk, NestedOpening, EndOk, CreatedOk, RestOk, NoWindows, NoWindow,
     Opening, Holding, Bare, Ticking, After, Publish, Return, OpenTurn, Levels,
     flowVars, nestVars, callVars, Idle, AfterTurnStarted
<1>4. ActiveOk'
  BY <1>1, <1>2, EligibleOk, InnerIsPlain DEF Types, Window, WindowOk, ActiveOk,
     FrameOk, NestedOpening, EndOk, CreatedOk, RestOk, NoWindows, NoWindow,
     Opening, Holding, Bare, Ticking, After, Publish, Return, OpenTurn, Levels,
     flowVars, nestVars, callVars, Idle, AfterTurnStarted
<1>5. FrameOk'
  BY <1>1, <1>2, EligibleOk, InnerIsPlain DEF Types, Window, WindowOk, ActiveOk,
     FrameOk, NestedOpening, EndOk, CreatedOk, RestOk, NoWindows, NoWindow,
     Opening, Holding, Bare, Ticking, After, Publish, Return, OpenTurn, Levels,
     flowVars, nestVars, callVars, Idle, AfterTurnStarted
<1>6. NestedOpening'
  BY <1>1, <1>2, EligibleOk, InnerIsPlain DEF Types, Window, WindowOk, ActiveOk,
     FrameOk, NestedOpening, EndOk, CreatedOk, RestOk, NoWindows, NoWindow,
     Opening, Holding, Bare, Ticking, After, Publish, Return, OpenTurn, Levels,
     flowVars, nestVars, callVars, Idle, AfterTurnStarted
<1>7. EndOk'
  BY <1>1, <1>2, EligibleOk, InnerIsPlain DEF Types, Window, WindowOk, ActiveOk,
     FrameOk, NestedOpening, EndOk, CreatedOk, RestOk, NoWindows, NoWindow,
     Opening, Holding, Bare, Ticking, After, Publish, Return, OpenTurn, Levels,
     flowVars, nestVars, callVars, Idle, AfterTurnStarted
<1>8. CreatedOk'
  BY <1>1, <1>2, EligibleOk, InnerIsPlain DEF Types, Window, WindowOk, ActiveOk,
     FrameOk, NestedOpening, EndOk, CreatedOk, RestOk, NoWindows, NoWindow,
     Opening, Holding, Bare, Ticking, After, Publish, Return, OpenTurn, Levels,
     flowVars, nestVars, callVars, Idle, AfterTurnStarted
<1>9. RestOk'
  BY <1>1, <1>2, EligibleOk, InnerIsPlain DEF Types, Window, WindowOk, ActiveOk,
     FrameOk, NestedOpening, EndOk, CreatedOk, RestOk, NoWindows, NoWindow,
     Opening, Holding, Bare, Ticking, After, Publish, Return, OpenTurn, Levels,
     flowVars, nestVars, callVars, Idle, AfterTurnStarted
<1> QED
  BY <1>1, <1>3, <1>4, <1>5, <1>6, <1>7, <1>8, <1>9

LEMMA AfterWindowOpenedKeeps ==
    ASSUME Control, NEW l \in Levels, AfterWindowOpened(l)
    PROVE  Control'
<1> USE DEF Control
<1>1. at = [event |-> "windowOpened", level |-> l]
  BY DEF After, AfterWindowOpened
<1>2. UNCHANGED <<phase, actor, round, finished, acted, window>> /\ Active' = Active
  BY DEF AfterWindowOpened, flowVars, Active, IsFlow
<1>3. CASE l = "outer"
  <2>1. Return("outer", FALSE)
    BY <1>3 DEF AfterWindowOpened
  <2>2. /\ at' = [event |-> "idle", level |-> "outer"]
        /\ state' = state
        /\ UNCHANGED <<entered, frame>>
    BY <2>1, ReturnsOuter
  <2>3. Types'
    BY <1>2, <2>2 DEF Types, Levels
  <2>4. WindowOk'
    BY <1>1, <1>2, <1>3, <2>2, <2>3 DEF Types, Window, WindowOk, ActiveOk, FrameOk,
       NestedOpening, EndOk, CreatedOk, RestOk, NoWindows, NoWindow, Opening,
       Holding, Bare, Ticking, Idle, Levels
  <2>5. ActiveOk'
    BY <1>1, <1>2, <1>3, <2>2, <2>3 DEF Types, Window, WindowOk, ActiveOk, FrameOk,
       NestedOpening, EndOk, CreatedOk, RestOk, NoWindows, NoWindow, Opening,
       Holding, Bare, Ticking, Idle, Levels
  <2>6. FrameOk'
    BY <1>1, <1>2, <1>3, <2>2, <2>3 DEF Types, Window, WindowOk, ActiveOk, FrameOk,
       NestedOpening, EndOk, CreatedOk, RestOk, NoWindows, NoWindow, Opening,
       Holding, Bare, Ticking, Idle, Levels
  <2>7. NestedOpening'
    BY <1>1, <1>2, <1>3, <2>2, <2>3 DEF Types, Window, WindowOk, ActiveOk, FrameOk,
       NestedOpening, EndOk, CreatedOk, RestOk, NoWindows, NoWindow, Opening,
       Holding, Bare, Ticking, Idle, Levels
  <2>8. EndOk'
    BY <1>1, <1>2, <1>3, <2>2, <2>3 DEF Types, Window, WindowOk, ActiveOk, FrameOk,
       NestedOpening, EndOk, CreatedOk, RestOk, NoWindows, NoWindow, Opening,
       Holding, Bare, Ticking, Idle, Levels
  <2>9. CreatedOk'
    BY <1>1, <1>2, <1>3, <2>2, <2>3 DEF Types, Window, WindowOk, ActiveOk, FrameOk,
       NestedOpening, EndOk, CreatedOk, RestOk, NoWindows, NoWindow, Opening,
       Holding, Bare, Ticking, Idle, Levels
  <2>10. RestOk'
    BY <1>1, <1>2, <1>3, <2>2, <2>3 DEF Types, Window, WindowOk, ActiveOk, FrameOk,
       NestedOpening, EndOk, CreatedOk, RestOk, NoWindows, NoWindow, Opening,
       Holding, Bare, Ticking, Idle, Levels
  <2> QED
    BY <2>3, <2>4, <2>5, <2>6, <2>7, <2>8, <2>9, <2>10
<1>4. CASE l = "inner"
  <2>1. Return("inner", FALSE) /\ frame # "none"
    BY <1>1, <1>4 DEF AfterWindowOpened, FrameOk, Holding, Ticking
  <2>2. /\ frame = "start" => at' = [event |-> "firstEntered", level |-> "outer"]
        /\ frame = "enter" => at' = [event |-> "phaseEntered", level |-> "outer"]
        /\ frame = "tick" => at' = [event |-> "idle", level |-> "outer"]
        /\ frame \in {"start", "enter", "tick"}
        /\ entered' = TRUE /\ frame' = "none" /\ state' = state
    BY <2>1, ReturnsInner
  <2>3. Types'
    BY <1>2, <2>2 DEF Types, Levels, Opening, Bare
  <2>4. WindowOk'
    <3>1. window["outer"] = NoWindow
      BY <1>1, <1>4 DEF WindowOk, ActiveOk, Levels
    <3>2. at'.event \notin Bare \cup {"windowOpened"} /\ at'.level = "outer"
      BY <2>2 DEF Bare
    <3> QED
      BY <1>2, <3>1, <3>2 DEF WindowOk, NoWindows, Bare
  <2>5. ActiveOk'
    BY <1>1, <1>2, <1>4, <2>1, <2>2, <2>3 DEF Types, Window, WindowOk, ActiveOk,
       FrameOk, NestedOpening, EndOk, CreatedOk, RestOk, NoWindows, NoWindow,
       Opening, Holding, Bare, Ticking, Idle, Levels
  <2>6. FrameOk'
    BY <1>1, <1>2, <1>4, <2>1, <2>2, <2>3 DEF Types, Window, WindowOk, ActiveOk,
       FrameOk, NestedOpening, EndOk, CreatedOk, RestOk, NoWindows, NoWindow,
       Opening, Holding, Bare, Ticking, Idle, Levels
  <2>7. NestedOpening'
    BY <1>1, <1>2, <1>4, <2>1, <2>2, <2>3 DEF Types, Window, WindowOk, ActiveOk,
       FrameOk, NestedOpening, EndOk, CreatedOk, RestOk, NoWindows, NoWindow,
       Opening, Holding, Bare, Ticking, Idle, Levels
  <2>8. EndOk'
    BY <1>1, <1>2, <1>4, <2>1, <2>2, <2>3 DEF Types, Window, WindowOk, ActiveOk,
       FrameOk, NestedOpening, EndOk, CreatedOk, RestOk, NoWindows, NoWindow,
       Opening, Holding, Bare, Ticking, Idle, Levels
  <2>9. CreatedOk'
    BY <1>1, <1>2, <1>4, <2>1, <2>2, <2>3 DEF Types, Window, WindowOk, ActiveOk,
       FrameOk, NestedOpening, EndOk, CreatedOk, RestOk, NoWindows, NoWindow,
       Opening, Holding, Bare, Ticking, Idle, Levels
  <2>10. RestOk'
    BY <1>1, <1>2, <1>4, <2>1, <2>2, <2>3 DEF Types, Window, WindowOk, ActiveOk,
       FrameOk, NestedOpening, EndOk, CreatedOk, RestOk, NoWindows, NoWindow,
       Opening, Holding, Bare, Ticking, Idle, Levels
  <2> QED
    BY <2>3, <2>4, <2>5, <2>6, <2>7, <2>8, <2>9, <2>10
<1> QED
  BY <1>3, <1>4 DEF Levels

LEMMA AfterActionStartedKeeps ==
    ASSUME Control, NEW l \in Levels, AfterActionStarted(l)
    PROVE  Control'
<1> USE DEF Control
<1>1. Types'
  BY EligibleOk, NoWindowType DEF Types, Window, Opening, Holding, Bare, After,
     Publish, Return, OpenTurn, Levels, flowVars, nestVars, callVars, Idle,
     AfterActionStarted
<1>2. Active' = Active
  BY DEF Active, IsFlow, After, Publish, Return, OpenTurn, Levels, flowVars,
     nestVars, callVars, Idle, AfterActionStarted
<1>3. WindowOk'
  BY <1>1, <1>2, EligibleOk, InnerIsPlain DEF Types, Window, WindowOk, ActiveOk,
     FrameOk, NestedOpening, EndOk, CreatedOk, RestOk, NoWindows, NoWindow,
     Opening, Holding, Bare, Ticking, After, Publish, Return, OpenTurn, Levels,
     flowVars, nestVars, callVars, Idle, AfterActionStarted
<1>4. ActiveOk'
  BY <1>1, <1>2, EligibleOk, InnerIsPlain DEF Types, Window, WindowOk, ActiveOk,
     FrameOk, NestedOpening, EndOk, CreatedOk, RestOk, NoWindows, NoWindow,
     Opening, Holding, Bare, Ticking, After, Publish, Return, OpenTurn, Levels,
     flowVars, nestVars, callVars, Idle, AfterActionStarted
<1>5. FrameOk'
  BY <1>1, <1>2, EligibleOk, InnerIsPlain DEF Types, Window, WindowOk, ActiveOk,
     FrameOk, NestedOpening, EndOk, CreatedOk, RestOk, NoWindows, NoWindow,
     Opening, Holding, Bare, Ticking, After, Publish, Return, OpenTurn, Levels,
     flowVars, nestVars, callVars, Idle, AfterActionStarted
<1>6. NestedOpening'
  BY <1>1, <1>2, EligibleOk, InnerIsPlain DEF Types, Window, WindowOk, ActiveOk,
     FrameOk, NestedOpening, EndOk, CreatedOk, RestOk, NoWindows, NoWindow,
     Opening, Holding, Bare, Ticking, After, Publish, Return, OpenTurn, Levels,
     flowVars, nestVars, callVars, Idle, AfterActionStarted
<1>7. EndOk'
  BY <1>1, <1>2, EligibleOk, InnerIsPlain DEF Types, Window, WindowOk, ActiveOk,
     FrameOk, NestedOpening, EndOk, CreatedOk, RestOk, NoWindows, NoWindow,
     Opening, Holding, Bare, Ticking, After, Publish, Return, OpenTurn, Levels,
     flowVars, nestVars, callVars, Idle, AfterActionStarted
<1>8. CreatedOk'
  BY <1>1, <1>2, EligibleOk, InnerIsPlain DEF Types, Window, WindowOk, ActiveOk,
     FrameOk, NestedOpening, EndOk, CreatedOk, RestOk, NoWindows, NoWindow,
     Opening, Holding, Bare, Ticking, After, Publish, Return, OpenTurn, Levels,
     flowVars, nestVars, callVars, Idle, AfterActionStarted
<1>9. RestOk'
  BY <1>1, <1>2, EligibleOk, InnerIsPlain DEF Types, Window, WindowOk, ActiveOk,
     FrameOk, NestedOpening, EndOk, CreatedOk, RestOk, NoWindows, NoWindow,
     Opening, Holding, Bare, Ticking, After, Publish, Return, OpenTurn, Levels,
     flowVars, nestVars, callVars, Idle, AfterActionStarted
<1> QED
  BY <1>1, <1>3, <1>4, <1>5, <1>6, <1>7, <1>8, <1>9

LEMMA AfterActionEndedKeeps ==
    ASSUME Control, NEW l \in Levels, AfterActionEnded(l)
    PROVE  Control'
<1> USE DEF Control
<1>1. at = [event |-> "actionEnded", level |-> l]
  BY DEF After, AfterActionEnded
<1>2. UNCHANGED <<phase, actor, round, finished, acted, entered, frame, state>>
      /\ Active' = Active
  BY DEF AfterActionEnded, flowVars, nestVars, callVars, Active, IsFlow
<1>3. CASE More(l)
  <2>1. at' = [event |-> "actionStarted", level |-> l] /\ window' = window
    BY <1>3 DEF AfterActionEnded, Publish
  <2>2. Types'
    BY <1>2, <2>1 DEF Types, Levels, Holding
  <2>3. WindowOk'
    BY <1>1, <1>2, <2>1, <2>2 DEF Types, Window, WindowOk, ActiveOk, FrameOk,
       NestedOpening, EndOk, CreatedOk, RestOk, NoWindows, NoWindow, Opening,
       Holding, Bare, Ticking, Idle, Levels
  <2>4. ActiveOk'
    BY <1>1, <1>2, <2>1, <2>2 DEF Types, Window, WindowOk, ActiveOk, FrameOk,
       NestedOpening, EndOk, CreatedOk, RestOk, NoWindows, NoWindow, Opening,
       Holding, Bare, Ticking, Idle, Levels
  <2>5. FrameOk'
    BY <1>1, <1>2, <2>1, <2>2 DEF Types, Window, WindowOk, ActiveOk, FrameOk,
       NestedOpening, EndOk, CreatedOk, RestOk, NoWindows, NoWindow, Opening,
       Holding, Bare, Ticking, Idle, Levels
  <2>6. NestedOpening'
    BY <1>1, <1>2, <2>1, <2>2 DEF Types, Window, WindowOk, ActiveOk, FrameOk,
       NestedOpening, EndOk, CreatedOk, RestOk, NoWindows, NoWindow, Opening,
       Holding, Bare, Ticking, Idle, Levels
  <2>7. EndOk'
    BY <1>1, <1>2, <2>1, <2>2 DEF Types, Window, WindowOk, ActiveOk, FrameOk,
       NestedOpening, EndOk, CreatedOk, RestOk, NoWindows, NoWindow, Opening,
       Holding, Bare, Ticking, Idle, Levels
  <2>8. CreatedOk'
    BY <1>1, <1>2, <2>1, <2>2 DEF Types, Window, WindowOk, ActiveOk, FrameOk,
       NestedOpening, EndOk, CreatedOk, RestOk, NoWindows, NoWindow, Opening,
       Holding, Bare, Ticking, Idle, Levels
  <2>9. RestOk'
    BY <1>1, <1>2, <2>1, <2>2 DEF Types, Window, WindowOk, ActiveOk, FrameOk,
       NestedOpening, EndOk, CreatedOk, RestOk, NoWindows, NoWindow, Opening,
       Holding, Bare, Ticking, Idle, Levels
  <2> QED
    BY <2>2, <2>3, <2>4, <2>5, <2>6, <2>7, <2>8, <2>9
<1>4. CASE ~More(l)
  <2>1. /\ at' = [event |-> "windowClosed", level |-> l]
        /\ window' = [window EXCEPT ![l] = [window[l] EXCEPT !.taken = <<>>]]
    BY <1>4 DEF AfterActionEnded, Publish
  <2>2. /\ [window[l] EXCEPT !.taken = <<>>] \in Window
        /\ [window[l] EXCEPT !.taken = <<>>].status = window[l].status
        /\ [window[l] EXCEPT !.taken = <<>>].eligible = window[l].eligible
    <3>1. window[l] \in Window /\ <<>> \in Seq(Actors)
      BY DEF Types
    <3> QED
      BY <3>1 DEF Window
  <2>3. Types'
    BY <1>2, <2>1, <2>2 DEF Types, Levels, Holding
  <2>4. WindowOk'
    BY ZenonT(60), <1>1, <1>2, <2>1, <2>2, <2>3 DEF Types, Window, WindowOk, ActiveOk, FrameOk,
       NestedOpening, EndOk, CreatedOk, RestOk, NoWindows, NoWindow, Opening,
       Holding, Bare, Ticking, Idle, Levels
  <2>5. ActiveOk'
    BY <1>1, <1>2, <2>1, <2>2, <2>3 DEF Types, Window, WindowOk, ActiveOk, FrameOk,
       NestedOpening, EndOk, CreatedOk, RestOk, NoWindows, NoWindow, Opening,
       Holding, Bare, Ticking, Idle, Levels
  <2>6. FrameOk'
    BY <1>1, <1>2, <2>1, <2>2, <2>3 DEF Types, Window, WindowOk, ActiveOk, FrameOk,
       NestedOpening, EndOk, CreatedOk, RestOk, NoWindows, NoWindow, Opening,
       Holding, Bare, Ticking, Idle, Levels
  <2>7. NestedOpening'
    BY <1>1, <1>2, <2>1, <2>2, <2>3 DEF Types, Window, WindowOk, ActiveOk, FrameOk,
       NestedOpening, EndOk, CreatedOk, RestOk, NoWindows, NoWindow, Opening,
       Holding, Bare, Ticking, Idle, Levels
  <2>8. EndOk'
    BY <1>1, <1>2, <2>1, <2>2, <2>3 DEF Types, Window, WindowOk, ActiveOk, FrameOk,
       NestedOpening, EndOk, CreatedOk, RestOk, NoWindows, NoWindow, Opening,
       Holding, Bare, Ticking, Idle, Levels
  <2>9. CreatedOk'
    BY <1>1, <1>2, <2>1, <2>2, <2>3 DEF Types, Window, WindowOk, ActiveOk, FrameOk,
       NestedOpening, EndOk, CreatedOk, RestOk, NoWindows, NoWindow, Opening,
       Holding, Bare, Ticking, Idle, Levels
  <2>10. RestOk'
    BY <1>1, <1>2, <2>1, <2>2, <2>3 DEF Types, Window, WindowOk, ActiveOk, FrameOk,
       NestedOpening, EndOk, CreatedOk, RestOk, NoWindows, NoWindow, Opening,
       Holding, Bare, Ticking, Idle, Levels
  <2> QED
    BY <2>3, <2>4, <2>5, <2>6, <2>7, <2>8, <2>9, <2>10
<1> QED
  BY <1>3, <1>4

LEMMA AfterWindowClosedKeeps ==
    ASSUME Control, NEW l \in Levels, AfterWindowClosed(l)
    PROVE  Control'
<1> USE DEF Control
<1>1. Types'
  BY EligibleOk, NoWindowType DEF Types, Window, Opening, Holding, Bare, After,
     Publish, Return, OpenTurn, Levels, flowVars, nestVars, callVars, Idle,
     AfterWindowClosed
<1>2. Active' = Active
  BY DEF Active, IsFlow, After, Publish, Return, OpenTurn, Levels, flowVars,
     nestVars, callVars, Idle, AfterWindowClosed
<1>3. WindowOk'
  BY ZenonT(60), <1>1, <1>2, EligibleOk, InnerIsPlain DEF Types, Window, WindowOk, ActiveOk,
     FrameOk, NestedOpening, EndOk, CreatedOk, RestOk, NoWindows, NoWindow,
     Opening, Holding, Bare, Ticking, After, Publish, Return, OpenTurn, Levels,
     flowVars, nestVars, callVars, Idle, AfterWindowClosed
<1>4. ActiveOk'
  BY <1>1, <1>2, EligibleOk, InnerIsPlain DEF Types, Window, WindowOk, ActiveOk,
     FrameOk, NestedOpening, EndOk, CreatedOk, RestOk, NoWindows, NoWindow,
     Opening, Holding, Bare, Ticking, After, Publish, Return, OpenTurn, Levels,
     flowVars, nestVars, callVars, Idle, AfterWindowClosed
<1>5. FrameOk'
  BY <1>1, <1>2, EligibleOk, InnerIsPlain DEF Types, Window, WindowOk, ActiveOk,
     FrameOk, NestedOpening, EndOk, CreatedOk, RestOk, NoWindows, NoWindow,
     Opening, Holding, Bare, Ticking, After, Publish, Return, OpenTurn, Levels,
     flowVars, nestVars, callVars, Idle, AfterWindowClosed
<1>6. NestedOpening'
  BY <1>1, <1>2, EligibleOk, InnerIsPlain DEF Types, Window, WindowOk, ActiveOk,
     FrameOk, NestedOpening, EndOk, CreatedOk, RestOk, NoWindows, NoWindow,
     Opening, Holding, Bare, Ticking, After, Publish, Return, OpenTurn, Levels,
     flowVars, nestVars, callVars, Idle, AfterWindowClosed
<1>7. EndOk'
  BY <1>1, <1>2, EligibleOk, InnerIsPlain DEF Types, Window, WindowOk, ActiveOk,
     FrameOk, NestedOpening, EndOk, CreatedOk, RestOk, NoWindows, NoWindow,
     Opening, Holding, Bare, Ticking, After, Publish, Return, OpenTurn, Levels,
     flowVars, nestVars, callVars, Idle, AfterWindowClosed
<1>8. CreatedOk'
  BY <1>1, <1>2, EligibleOk, InnerIsPlain DEF Types, Window, WindowOk, ActiveOk,
     FrameOk, NestedOpening, EndOk, CreatedOk, RestOk, NoWindows, NoWindow,
     Opening, Holding, Bare, Ticking, After, Publish, Return, OpenTurn, Levels,
     flowVars, nestVars, callVars, Idle, AfterWindowClosed
<1>9. RestOk'
  BY <1>1, <1>2, EligibleOk, InnerIsPlain DEF Types, Window, WindowOk, ActiveOk,
     FrameOk, NestedOpening, EndOk, CreatedOk, RestOk, NoWindows, NoWindow,
     Opening, Holding, Bare, Ticking, After, Publish, Return, OpenTurn, Levels,
     flowVars, nestVars, callVars, Idle, AfterWindowClosed
<1> QED
  BY <1>1, <1>3, <1>4, <1>5, <1>6, <1>7, <1>8, <1>9

LEMMA AfterTurnEndedKeeps ==
    ASSUME Control, NEW l \in Levels, AfterTurnEnded(l)
    PROVE  Control'
<1> USE DEF Control
<1>1. Types'
  BY EligibleOk, NoWindowType DEF Types, Window, Opening, Holding, Bare, After,
     Publish, Return, OpenTurn, Levels, flowVars, nestVars, callVars, Idle,
     AfterTurnEnded, PhaseCheck
<1>2. Active' = Active
  BY DEF Active, IsFlow, After, Publish, Return, OpenTurn, Levels, flowVars,
     nestVars, callVars, Idle, AfterTurnEnded, PhaseCheck
<1>3. WindowOk'
  BY <1>1, <1>2, EligibleOk, InnerIsPlain DEF Types, Window, WindowOk, ActiveOk,
     FrameOk, NestedOpening, EndOk, CreatedOk, RestOk, NoWindows, NoWindow,
     Opening, Holding, Bare, Ticking, After, Publish, Return, OpenTurn, Levels,
     flowVars, nestVars, callVars, Idle, AfterTurnEnded, PhaseCheck
<1>4. ActiveOk'
  BY <1>1, <1>2, EligibleOk, InnerIsPlain DEF Types, Window, WindowOk, ActiveOk,
     FrameOk, NestedOpening, EndOk, CreatedOk, RestOk, NoWindows, NoWindow,
     Opening, Holding, Bare, Ticking, After, Publish, Return, OpenTurn, Levels,
     flowVars, nestVars, callVars, Idle, AfterTurnEnded, PhaseCheck
<1>5. FrameOk'
  BY <1>1, <1>2, EligibleOk, InnerIsPlain DEF Types, Window, WindowOk, ActiveOk,
     FrameOk, NestedOpening, EndOk, CreatedOk, RestOk, NoWindows, NoWindow,
     Opening, Holding, Bare, Ticking, After, Publish, Return, OpenTurn, Levels,
     flowVars, nestVars, callVars, Idle, AfterTurnEnded, PhaseCheck
<1>6. NestedOpening'
  BY <1>1, <1>2, EligibleOk, InnerIsPlain DEF Types, Window, WindowOk, ActiveOk,
     FrameOk, NestedOpening, EndOk, CreatedOk, RestOk, NoWindows, NoWindow,
     Opening, Holding, Bare, Ticking, After, Publish, Return, OpenTurn, Levels,
     flowVars, nestVars, callVars, Idle, AfterTurnEnded, PhaseCheck
<1>7. EndOk'
  BY <1>1, <1>2, EligibleOk, InnerIsPlain DEF Types, Window, WindowOk, ActiveOk,
     FrameOk, NestedOpening, EndOk, CreatedOk, RestOk, NoWindows, NoWindow,
     Opening, Holding, Bare, Ticking, After, Publish, Return, OpenTurn, Levels,
     flowVars, nestVars, callVars, Idle, AfterTurnEnded, PhaseCheck
<1>8. CreatedOk'
  BY <1>1, <1>2, EligibleOk, InnerIsPlain DEF Types, Window, WindowOk, ActiveOk,
     FrameOk, NestedOpening, EndOk, CreatedOk, RestOk, NoWindows, NoWindow,
     Opening, Holding, Bare, Ticking, After, Publish, Return, OpenTurn, Levels,
     flowVars, nestVars, callVars, Idle, AfterTurnEnded, PhaseCheck
<1>9. RestOk'
  BY <1>1, <1>2, EligibleOk, InnerIsPlain DEF Types, Window, WindowOk, ActiveOk,
     FrameOk, NestedOpening, EndOk, CreatedOk, RestOk, NoWindows, NoWindow,
     Opening, Holding, Bare, Ticking, After, Publish, Return, OpenTurn, Levels,
     flowVars, nestVars, callVars, Idle, AfterTurnEnded, PhaseCheck
<1> QED
  BY <1>1, <1>3, <1>4, <1>5, <1>6, <1>7, <1>8, <1>9

LEMMA AfterRoundEndedKeeps ==
    ASSUME Control, NEW l \in Levels, AfterRoundEnded(l)
    PROVE  Control'
<1> USE DEF Control
<1>1. at = [event |-> "roundEnded", level |-> l]
  BY DEF After, AfterRoundEnded
<1>2. UNCHANGED <<phase, actor, window>> /\ Active' = Active
  BY DEF AfterRoundEnded, Active, IsFlow
<1>3. CASE ~LastRound(l)
  <2>1. /\ at' = [event |-> "roundStarted", level |-> l]
        /\ round' = [round EXCEPT ![l] = round[l] + 1]
        /\ acted' = [acted EXCEPT ![l] = {}]
        /\ UNCHANGED <<finished, entered, frame, state>>
    BY <1>3 DEF AfterRoundEnded, Publish, nestVars, callVars
  <2>2. Types'
    BY <1>2, <2>1 DEF Types, Levels, Bare
  <2>3. WindowOk'
    BY <1>1, <1>2, <2>1, <2>2 DEF Types, Window, WindowOk, ActiveOk, FrameOk,
       NestedOpening, EndOk, CreatedOk, RestOk, NoWindows, NoWindow, Opening,
       Holding, Bare, Ticking, Idle, Levels
  <2>4. ActiveOk'
    BY <1>1, <1>2, <2>1, <2>2 DEF Types, Window, WindowOk, ActiveOk, FrameOk,
       NestedOpening, EndOk, CreatedOk, RestOk, NoWindows, NoWindow, Opening,
       Holding, Bare, Ticking, Idle, Levels
  <2>5. FrameOk'
    BY <1>1, <1>2, <2>1, <2>2 DEF Types, Window, WindowOk, ActiveOk, FrameOk,
       NestedOpening, EndOk, CreatedOk, RestOk, NoWindows, NoWindow, Opening,
       Holding, Bare, Ticking, Idle, Levels
  <2>6. NestedOpening'
    BY <1>1, <1>2, <2>1, <2>2 DEF Types, Window, WindowOk, ActiveOk, FrameOk,
       NestedOpening, EndOk, CreatedOk, RestOk, NoWindows, NoWindow, Opening,
       Holding, Bare, Ticking, Idle, Levels
  <2>7. EndOk'
    BY <1>1, <1>2, <2>1, <2>2 DEF Types, Window, WindowOk, ActiveOk, FrameOk,
       NestedOpening, EndOk, CreatedOk, RestOk, NoWindows, NoWindow, Opening,
       Holding, Bare, Ticking, Idle, Levels
  <2>8. CreatedOk'
    BY <1>1, <1>2, <2>1, <2>2 DEF Types, Window, WindowOk, ActiveOk, FrameOk,
       NestedOpening, EndOk, CreatedOk, RestOk, NoWindows, NoWindow, Opening,
       Holding, Bare, Ticking, Idle, Levels
  <2>9. RestOk'
    BY <1>1, <1>2, <2>1, <2>2 DEF Types, Window, WindowOk, ActiveOk, FrameOk,
       NestedOpening, EndOk, CreatedOk, RestOk, NoWindows, NoWindow, Opening,
       Holding, Bare, Ticking, Idle, Levels
  <2> QED
    BY <2>2, <2>3, <2>4, <2>5, <2>6, <2>7, <2>8, <2>9
<1>4. CASE LastRound(l) /\ l = "outer"
  <2>1. /\ finished' = [finished EXCEPT ![l] = TRUE]
        /\ UNCHANGED <<round, acted>>
        /\ Return("outer", TRUE)
    BY <1>4 DEF AfterRoundEnded
  <2>2. /\ at' = [event |-> "idle", level |-> "outer"]
        /\ state' = "COMPLETED"
        /\ UNCHANGED <<entered, frame>>
    BY <2>1, ReturnsOuter
  <2>3. Types'
    BY <1>2, <2>1, <2>2 DEF Types, Levels, Bare
  <2>4. WindowOk'
    BY <1>1, <1>2, <1>4, <2>1, <2>2, <2>3 DEF Types, Window, WindowOk, ActiveOk,
       FrameOk, NestedOpening, EndOk, CreatedOk, RestOk, NoWindows, NoWindow,
       Opening, Holding, Bare, Ticking, Idle, Levels
  <2>5. ActiveOk'
    BY <1>1, <1>2, <1>4, <2>1, <2>2, <2>3 DEF Types, Window, WindowOk, ActiveOk,
       FrameOk, NestedOpening, EndOk, CreatedOk, RestOk, NoWindows, NoWindow,
       Opening, Holding, Bare, Ticking, Idle, Levels
  <2>6. FrameOk'
    BY <1>1, <1>2, <1>4, <2>1, <2>2, <2>3 DEF Types, Window, WindowOk, ActiveOk,
       FrameOk, NestedOpening, EndOk, CreatedOk, RestOk, NoWindows, NoWindow,
       Opening, Holding, Bare, Ticking, Idle, Levels
  <2>7. NestedOpening'
    BY <1>1, <1>2, <1>4, <2>1, <2>2, <2>3 DEF Types, Window, WindowOk, ActiveOk,
       FrameOk, NestedOpening, EndOk, CreatedOk, RestOk, NoWindows, NoWindow,
       Opening, Holding, Bare, Ticking, Idle, Levels
  <2>8. EndOk'
    BY <1>1, <1>2, <1>4, <2>1, <2>2, <2>3 DEF Types, Window, WindowOk, ActiveOk,
       FrameOk, NestedOpening, EndOk, CreatedOk, RestOk, NoWindows, NoWindow,
       Opening, Holding, Bare, Ticking, Idle, Levels
  <2>9. CreatedOk'
    BY <1>1, <1>2, <1>4, <2>1, <2>2, <2>3 DEF Types, Window, WindowOk, ActiveOk,
       FrameOk, NestedOpening, EndOk, CreatedOk, RestOk, NoWindows, NoWindow,
       Opening, Holding, Bare, Ticking, Idle, Levels
  <2>10. RestOk'
    BY <1>1, <1>2, <1>4, <2>1, <2>2, <2>3 DEF Types, Window, WindowOk, ActiveOk,
       FrameOk, NestedOpening, EndOk, CreatedOk, RestOk, NoWindows, NoWindow,
       Opening, Holding, Bare, Ticking, Idle, Levels
  <2> QED
    BY <2>3, <2>4, <2>5, <2>6, <2>7, <2>8, <2>9, <2>10
<1>5. CASE LastRound(l) /\ l = "inner"
  <2>1. /\ finished' = [finished EXCEPT ![l] = TRUE]
        /\ UNCHANGED <<round, acted>>
        /\ Return("inner", TRUE)
    BY <1>5 DEF AfterRoundEnded
  <2>2. /\ at' = [event |-> "phaseExited", level |-> "outer"]
        /\ entered' = TRUE /\ frame' = "none" /\ state' = state
    <3>1. frame = "tick"
      BY <1>1, <1>5 DEF FrameOk, Ticking
    <3> QED
      BY <2>1, <3>1, ReturnsInner
  <2>3. Types'
    BY <1>2, <2>1, <2>2 DEF Types, Levels, Bare
  <2>4. WindowOk'
    BY <1>1, <1>2, <1>5, <2>1, <2>2, <2>3 DEF Types, Window, WindowOk, ActiveOk,
       FrameOk, NestedOpening, EndOk, CreatedOk, RestOk, NoWindows, NoWindow,
       Opening, Holding, Bare, Ticking, Idle, Levels
  <2>5. ActiveOk'
    BY <1>1, <1>2, <1>5, <2>1, <2>2, <2>3 DEF Types, Window, WindowOk, ActiveOk,
       FrameOk, NestedOpening, EndOk, CreatedOk, RestOk, NoWindows, NoWindow,
       Opening, Holding, Bare, Ticking, Idle, Levels
  <2>6. FrameOk'
    BY <1>1, <1>2, <1>5, <2>1, <2>2, <2>3 DEF Types, Window, WindowOk, ActiveOk,
       FrameOk, NestedOpening, EndOk, CreatedOk, RestOk, NoWindows, NoWindow,
       Opening, Holding, Bare, Ticking, Idle, Levels
  <2>7. NestedOpening'
    BY <1>1, <1>2, <1>5, <2>1, <2>2, <2>3 DEF Types, Window, WindowOk, ActiveOk,
       FrameOk, NestedOpening, EndOk, CreatedOk, RestOk, NoWindows, NoWindow,
       Opening, Holding, Bare, Ticking, Idle, Levels
  <2>8. EndOk'
    BY <1>1, <1>2, <1>5, <2>1, <2>2, <2>3 DEF Types, Window, WindowOk, ActiveOk,
       FrameOk, NestedOpening, EndOk, CreatedOk, RestOk, NoWindows, NoWindow,
       Opening, Holding, Bare, Ticking, Idle, Levels
  <2>9. CreatedOk'
    BY <1>1, <1>2, <1>5, <2>1, <2>2, <2>3 DEF Types, Window, WindowOk, ActiveOk,
       FrameOk, NestedOpening, EndOk, CreatedOk, RestOk, NoWindows, NoWindow,
       Opening, Holding, Bare, Ticking, Idle, Levels
  <2>10. RestOk'
    BY <1>1, <1>2, <1>5, <2>1, <2>2, <2>3 DEF Types, Window, WindowOk, ActiveOk,
       FrameOk, NestedOpening, EndOk, CreatedOk, RestOk, NoWindows, NoWindow,
       Opening, Holding, Bare, Ticking, Idle, Levels
  <2> QED
    BY <2>3, <2>4, <2>5, <2>6, <2>7, <2>8, <2>9, <2>10
<1> QED
  BY <1>3, <1>4, <1>5 DEF Levels

LEMMA AfterRoundStartedKeeps ==
    ASSUME Control, NEW l \in Levels, AfterRoundStarted(l)
    PROVE  Control'
<1> USE DEF Control
<1>1. Types'
  BY EligibleOk, NoWindowType DEF Types, Window, Opening, Holding, Bare, After,
     Publish, Return, OpenTurn, Levels, flowVars, nestVars, callVars, Idle,
     AfterRoundStarted, PhaseCheck
<1>2. Active' = Active
  BY DEF Active, IsFlow, After, Publish, Return, OpenTurn, Levels, flowVars,
     nestVars, callVars, Idle, AfterRoundStarted, PhaseCheck
<1>3. WindowOk'
  BY <1>1, <1>2, EligibleOk, InnerIsPlain DEF Types, Window, WindowOk, ActiveOk,
     FrameOk, NestedOpening, EndOk, CreatedOk, RestOk, NoWindows, NoWindow,
     Opening, Holding, Bare, Ticking, After, Publish, Return, OpenTurn, Levels,
     flowVars, nestVars, callVars, Idle, AfterRoundStarted, PhaseCheck
<1>4. ActiveOk'
  BY <1>1, <1>2, EligibleOk, InnerIsPlain DEF Types, Window, WindowOk, ActiveOk,
     FrameOk, NestedOpening, EndOk, CreatedOk, RestOk, NoWindows, NoWindow,
     Opening, Holding, Bare, Ticking, After, Publish, Return, OpenTurn, Levels,
     flowVars, nestVars, callVars, Idle, AfterRoundStarted, PhaseCheck
<1>5. FrameOk'
  BY <1>1, <1>2, EligibleOk, InnerIsPlain DEF Types, Window, WindowOk, ActiveOk,
     FrameOk, NestedOpening, EndOk, CreatedOk, RestOk, NoWindows, NoWindow,
     Opening, Holding, Bare, Ticking, After, Publish, Return, OpenTurn, Levels,
     flowVars, nestVars, callVars, Idle, AfterRoundStarted, PhaseCheck
<1>6. NestedOpening'
  BY <1>1, <1>2, EligibleOk, InnerIsPlain DEF Types, Window, WindowOk, ActiveOk,
     FrameOk, NestedOpening, EndOk, CreatedOk, RestOk, NoWindows, NoWindow,
     Opening, Holding, Bare, Ticking, After, Publish, Return, OpenTurn, Levels,
     flowVars, nestVars, callVars, Idle, AfterRoundStarted, PhaseCheck
<1>7. EndOk'
  BY <1>1, <1>2, EligibleOk, InnerIsPlain DEF Types, Window, WindowOk, ActiveOk,
     FrameOk, NestedOpening, EndOk, CreatedOk, RestOk, NoWindows, NoWindow,
     Opening, Holding, Bare, Ticking, After, Publish, Return, OpenTurn, Levels,
     flowVars, nestVars, callVars, Idle, AfterRoundStarted, PhaseCheck
<1>8. CreatedOk'
  BY <1>1, <1>2, EligibleOk, InnerIsPlain DEF Types, Window, WindowOk, ActiveOk,
     FrameOk, NestedOpening, EndOk, CreatedOk, RestOk, NoWindows, NoWindow,
     Opening, Holding, Bare, Ticking, After, Publish, Return, OpenTurn, Levels,
     flowVars, nestVars, callVars, Idle, AfterRoundStarted, PhaseCheck
<1>9. RestOk'
  BY <1>1, <1>2, EligibleOk, InnerIsPlain DEF Types, Window, WindowOk, ActiveOk,
     FrameOk, NestedOpening, EndOk, CreatedOk, RestOk, NoWindows, NoWindow,
     Opening, Holding, Bare, Ticking, After, Publish, Return, OpenTurn, Levels,
     flowVars, nestVars, callVars, Idle, AfterRoundStarted, PhaseCheck
<1> QED
  BY <1>1, <1>3, <1>4, <1>5, <1>6, <1>7, <1>8, <1>9

LEMMA AfterPhaseExitedKeeps ==
    ASSUME Control, NEW l \in Levels, AfterPhaseExited(l)
    PROVE  Control'
<1> USE DEF Control
<1> DEFINE p == phase[l] + 1
<1>1. at = [event |-> "phaseExited", level |-> l]
  BY DEF After, AfterPhaseExited
<1>2. /\ UNCHANGED <<state, window>>
      /\ p \in Nat \ {0}
      /\ entered' = IF l = "outer" THEN FALSE ELSE entered
      /\ NoWindows
  BY <1>1 DEF AfterPhaseExited, callVars, Types, WindowOk, Bare
<1>3. /\ ~finished["outer"]
      /\ state # "COMPLETED" /\ state # "CREATED"
      /\ l = "inner" => Active = "inner" /\ frame = "tick"
  BY <1>1 DEF EndOk, CreatedOk, Idle, ActiveOk, FrameOk, Ticking
<1>4. CASE p > LastPhase(l)
  <2>1. /\ phase' = [phase EXCEPT ![l] = p]
        /\ actor' = [actor EXCEPT ![l] = 0]
        /\ finished' = [finished EXCEPT ![l] = TRUE]
        /\ at' = [event |-> "sessionCompleted", level |-> l]
        /\ UNCHANGED <<round, acted, frame>>
    <3>1. ~IsFlow(l, p)
      BY <1>2, <1>4, SessionAssumption DEF IsFlow, LastPhase
    <3> QED
      BY <1>4, <3>1 DEF AfterPhaseExited, Publish
  <2>2. /\ l = "outer" => Active' = "outer"
        /\ l = "inner" => Active' = "inner"
    BY <1>2, <1>3, <1>4, <2>1 DEF Active, IsFlow, LastPhase, Types, Levels
  <2> HIDE DEF p
  <2>3. Types'
    BY <1>2, <2>1 DEF Types, Levels, Bare
  <2>4. WindowOk'
    BY <1>1, <1>2, <1>3, <2>1, <2>2, <2>3 DEF Types, Window, WindowOk, ActiveOk,
       FrameOk, NestedOpening, EndOk, CreatedOk, RestOk, NoWindows, NoWindow,
       Opening, Holding, Bare, Ticking, Idle, Levels
  <2>5. ActiveOk'
    BY <1>1, <1>2, <1>3, <2>1, <2>2, <2>3 DEF Types, Window, WindowOk, ActiveOk,
       FrameOk, NestedOpening, EndOk, CreatedOk, RestOk, NoWindows, NoWindow,
       Opening, Holding, Bare, Ticking, Idle, Levels
  <2>6. FrameOk'
    BY <1>1, <1>2, <1>3, <2>1, <2>2, <2>3 DEF Types, Window, WindowOk, ActiveOk,
       FrameOk, NestedOpening, EndOk, CreatedOk, RestOk, NoWindows, NoWindow,
       Opening, Holding, Bare, Ticking, Idle, Levels
  <2>7. NestedOpening'
    BY <1>1, <1>2, <1>3, <2>1, <2>2, <2>3 DEF Types, Window, WindowOk, ActiveOk,
       FrameOk, NestedOpening, EndOk, CreatedOk, RestOk, NoWindows, NoWindow,
       Opening, Holding, Bare, Ticking, Idle, Levels
  <2>8. EndOk'
    BY <1>1, <1>2, <1>3, <2>1, <2>2, <2>3 DEF Types, Window, WindowOk, ActiveOk,
       FrameOk, NestedOpening, EndOk, CreatedOk, RestOk, NoWindows, NoWindow,
       Opening, Holding, Bare, Ticking, Idle, Levels
  <2>9. CreatedOk'
    BY <1>1, <1>2, <1>3, <2>1, <2>2, <2>3 DEF Types, Window, WindowOk, ActiveOk,
       FrameOk, NestedOpening, EndOk, CreatedOk, RestOk, NoWindows, NoWindow,
       Opening, Holding, Bare, Ticking, Idle, Levels
  <2>10. RestOk'
    BY <1>1, <1>2, <1>3, <2>1, <2>2, <2>3 DEF Types, Window, WindowOk, ActiveOk,
       FrameOk, NestedOpening, EndOk, CreatedOk, RestOk, NoWindows, NoWindow,
       Opening, Holding, Bare, Ticking, Idle, Levels
  <2> QED
    BY <2>3, <2>4, <2>5, <2>6, <2>7, <2>8, <2>9, <2>10
<1>5. CASE ~(p > LastPhase(l)) /\ IsFlow(l, p)
  <2>1. /\ phase' = [outer |-> p, inner |-> 1]
        /\ actor' = [outer |-> 0, inner |-> 0]
        /\ round' = [round EXCEPT !["inner"] = 1]
        /\ finished' = [finished EXCEPT !["inner"] = FALSE]
        /\ acted' = [acted EXCEPT !["inner"] = {}]
        /\ frame' = "enter"
        /\ at' = [event |-> "firstEntered", level |-> "inner"]
    BY <1>5 DEF AfterPhaseExited, Publish
  <2>2. l = "outer" /\ Active' = "inner"
    BY <1>5, <2>1 DEF Active, IsFlow
  <2> HIDE DEF p
  <2>3. Types'
    <3>1. phase' \in [Levels -> Nat \ {0}] /\ actor' \in [Levels -> Nat]
      BY <1>2, <2>1 DEF Levels
    <3> QED
      BY <1>2, <2>1, <3>1 DEF Types, Levels, Opening
  <2>4. WindowOk'
    BY <1>1, <1>2, <1>3, <2>1, <2>2, <2>3 DEF Types, Window, WindowOk, ActiveOk,
       FrameOk, NestedOpening, EndOk, CreatedOk, RestOk, NoWindows, NoWindow,
       Opening, Holding, Bare, Ticking, Idle, Levels
  <2>5. ActiveOk'
    BY <1>1, <1>2, <1>3, <2>1, <2>2, <2>3 DEF Types, Window, WindowOk, ActiveOk,
       FrameOk, NestedOpening, EndOk, CreatedOk, RestOk, NoWindows, NoWindow,
       Opening, Holding, Bare, Ticking, Idle, Levels
  <2>6. FrameOk'
    BY <1>1, <1>2, <1>3, <2>1, <2>2, <2>3 DEF Types, Window, WindowOk, ActiveOk,
       FrameOk, NestedOpening, EndOk, CreatedOk, RestOk, NoWindows, NoWindow,
       Opening, Holding, Bare, Ticking, Idle, Levels
  <2>7. NestedOpening'
    BY <1>1, <1>2, <1>3, <2>1, <2>2, <2>3 DEF Types, Window, WindowOk, ActiveOk,
       FrameOk, NestedOpening, EndOk, CreatedOk, RestOk, NoWindows, NoWindow,
       Opening, Holding, Bare, Ticking, Idle, Levels
  <2>8. EndOk'
    BY <1>1, <1>2, <1>3, <2>1, <2>2, <2>3 DEF Types, Window, WindowOk, ActiveOk,
       FrameOk, NestedOpening, EndOk, CreatedOk, RestOk, NoWindows, NoWindow,
       Opening, Holding, Bare, Ticking, Idle, Levels
  <2>9. CreatedOk'
    BY <1>1, <1>2, <1>3, <2>1, <2>2, <2>3 DEF Types, Window, WindowOk, ActiveOk,
       FrameOk, NestedOpening, EndOk, CreatedOk, RestOk, NoWindows, NoWindow,
       Opening, Holding, Bare, Ticking, Idle, Levels
  <2>10. RestOk'
    BY <1>1, <1>2, <1>3, <2>1, <2>2, <2>3 DEF Types, Window, WindowOk, ActiveOk,
       FrameOk, NestedOpening, EndOk, CreatedOk, RestOk, NoWindows, NoWindow,
       Opening, Holding, Bare, Ticking, Idle, Levels
  <2> QED
    BY <2>3, <2>4, <2>5, <2>6, <2>7, <2>8, <2>9, <2>10
<1>6. CASE ~(p > LastPhase(l)) /\ ~IsFlow(l, p)
  <2>1. /\ phase' = [phase EXCEPT ![l] = p]
        /\ actor' = [actor EXCEPT ![l] = 0]
        /\ at' = [event |-> "phaseEntered", level |-> l]
        /\ UNCHANGED <<round, finished, acted, frame>>
    BY <1>6 DEF AfterPhaseExited, Publish
  <2>2. /\ l = "outer" => Active' = "outer"
        /\ l = "inner" => Active' = "inner"
    BY <1>2, <1>3, <1>6, <2>1 DEF Active, IsFlow, Types, Levels
  <2> HIDE DEF p
  <2>3. Types'
    BY <1>2, <2>1 DEF Types, Levels, Opening
  <2>4. WindowOk'
    BY <1>1, <1>2, <1>3, <2>1, <2>2, <2>3 DEF Types, Window, WindowOk, ActiveOk,
       FrameOk, NestedOpening, EndOk, CreatedOk, RestOk, NoWindows, NoWindow,
       Opening, Holding, Bare, Ticking, Idle, Levels
  <2>5. ActiveOk'
    BY <1>1, <1>2, <1>3, <2>1, <2>2, <2>3 DEF Types, Window, WindowOk, ActiveOk,
       FrameOk, NestedOpening, EndOk, CreatedOk, RestOk, NoWindows, NoWindow,
       Opening, Holding, Bare, Ticking, Idle, Levels
  <2>6. FrameOk'
    BY <1>1, <1>2, <1>3, <2>1, <2>2, <2>3 DEF Types, Window, WindowOk, ActiveOk,
       FrameOk, NestedOpening, EndOk, CreatedOk, RestOk, NoWindows, NoWindow,
       Opening, Holding, Bare, Ticking, Idle, Levels
  <2>7. NestedOpening'
    BY <1>1, <1>2, <1>3, <2>1, <2>2, <2>3 DEF Types, Window, WindowOk, ActiveOk,
       FrameOk, NestedOpening, EndOk, CreatedOk, RestOk, NoWindows, NoWindow,
       Opening, Holding, Bare, Ticking, Idle, Levels
  <2>8. EndOk'
    BY <1>1, <1>2, <1>3, <2>1, <2>2, <2>3 DEF Types, Window, WindowOk, ActiveOk,
       FrameOk, NestedOpening, EndOk, CreatedOk, RestOk, NoWindows, NoWindow,
       Opening, Holding, Bare, Ticking, Idle, Levels
  <2>9. CreatedOk'
    BY <1>1, <1>2, <1>3, <2>1, <2>2, <2>3 DEF Types, Window, WindowOk, ActiveOk,
       FrameOk, NestedOpening, EndOk, CreatedOk, RestOk, NoWindows, NoWindow,
       Opening, Holding, Bare, Ticking, Idle, Levels
  <2>10. RestOk'
    BY <1>1, <1>2, <1>3, <2>1, <2>2, <2>3 DEF Types, Window, WindowOk, ActiveOk,
       FrameOk, NestedOpening, EndOk, CreatedOk, RestOk, NoWindows, NoWindow,
       Opening, Holding, Bare, Ticking, Idle, Levels
  <2> QED
    BY <2>3, <2>4, <2>5, <2>6, <2>7, <2>8, <2>9, <2>10
<1> QED
  BY <1>4, <1>5, <1>6

LEMMA AfterPhaseEnteredKeeps ==
    ASSUME Control, NEW l \in Levels, AfterPhaseEntered(l)
    PROVE  Control'
<1> USE DEF Control
<1>1. at = [event |-> "phaseEntered", level |-> l]
  BY DEF After, AfterPhaseEntered
<1>2. UNCHANGED <<phase, actor, round, finished, acted, window>> /\ Active' = Active
  BY DEF AfterPhaseEntered, flowVars, Active, IsFlow
<1>3. CASE OpensTurn(l)
  <2>1. /\ at' = [event |-> "turnStarted", level |-> l]
        /\ UNCHANGED <<entered, frame, state>>
    BY <1>3 DEF AfterPhaseEntered, OpenTurn, Publish, nestVars, callVars
  <2>2. l = Active
    BY <1>1, <1>3, ActiveLevel DEF OpensTurn, Active, ActiveOk, Levels
  <2>3. Types'
    BY <1>2, <2>1 DEF Types, Levels, Bare
  <2>4. WindowOk'
    BY <1>1, <1>2, <2>1, <2>2, <2>3 DEF Types, Window, WindowOk, ActiveOk, FrameOk,
       NestedOpening, EndOk, CreatedOk, RestOk, NoWindows, NoWindow, Opening,
       Holding, Bare, Ticking, Idle, Levels
  <2>5. ActiveOk'
    BY <1>1, <1>2, <2>1, <2>2, <2>3 DEF Types, Window, WindowOk, ActiveOk, FrameOk,
       NestedOpening, EndOk, CreatedOk, RestOk, NoWindows, NoWindow, Opening,
       Holding, Bare, Ticking, Idle, Levels
  <2>6. FrameOk'
    BY <1>1, <1>2, <2>1, <2>2, <2>3 DEF Types, Window, WindowOk, ActiveOk, FrameOk,
       NestedOpening, EndOk, CreatedOk, RestOk, NoWindows, NoWindow, Opening,
       Holding, Bare, Ticking, Idle, Levels
  <2>7. NestedOpening'
    BY <1>1, <1>2, <2>1, <2>2, <2>3 DEF Types, Window, WindowOk, ActiveOk, FrameOk,
       NestedOpening, EndOk, CreatedOk, RestOk, NoWindows, NoWindow, Opening,
       Holding, Bare, Ticking, Idle, Levels
  <2>8. EndOk'
    BY <1>1, <1>2, <2>1, <2>2, <2>3 DEF Types, Window, WindowOk, ActiveOk, FrameOk,
       NestedOpening, EndOk, CreatedOk, RestOk, NoWindows, NoWindow, Opening,
       Holding, Bare, Ticking, Idle, Levels
  <2>9. CreatedOk'
    BY <1>1, <1>2, <2>1, <2>2, <2>3 DEF Types, Window, WindowOk, ActiveOk, FrameOk,
       NestedOpening, EndOk, CreatedOk, RestOk, NoWindows, NoWindow, Opening,
       Holding, Bare, Ticking, Idle, Levels
  <2>10. RestOk'
    BY <1>1, <1>2, <2>1, <2>2, <2>3 DEF Types, Window, WindowOk, ActiveOk, FrameOk,
       NestedOpening, EndOk, CreatedOk, RestOk, NoWindows, NoWindow, Opening,
       Holding, Bare, Ticking, Idle, Levels
  <2> QED
    BY <2>3, <2>4, <2>5, <2>6, <2>7, <2>8, <2>9, <2>10
<1>4. CASE ~OpensTurn(l)
  <2>1. l = "outer" /\ Active = "inner"
    BY <1>4, InnerIsPlain DEF OpensTurn, Active, Levels
  <2>2. Return("outer", FALSE)
    BY <1>4, <2>1 DEF AfterPhaseEntered
  <2>3. /\ at' = [event |-> "idle", level |-> "outer"]
        /\ UNCHANGED <<state, entered, frame>>
    BY <2>2, ReturnsOuter
  <2>4. Types'
    BY <1>2, <2>3 DEF Types, Levels
  <2>5. WindowOk'
    BY <1>1, <1>2, <2>1, <2>3, <2>4 DEF Types, Window, WindowOk, ActiveOk, FrameOk,
       NestedOpening, EndOk, CreatedOk, RestOk, NoWindows, NoWindow, Opening,
       Holding, Bare, Ticking, Idle, Levels
  <2>6. ActiveOk'
    BY <1>1, <1>2, <2>1, <2>3, <2>4 DEF Types, Window, WindowOk, ActiveOk, FrameOk,
       NestedOpening, EndOk, CreatedOk, RestOk, NoWindows, NoWindow, Opening,
       Holding, Bare, Ticking, Idle, Levels
  <2>7. FrameOk'
    BY <1>1, <1>2, <2>1, <2>3, <2>4 DEF Types, Window, WindowOk, ActiveOk, FrameOk,
       NestedOpening, EndOk, CreatedOk, RestOk, NoWindows, NoWindow, Opening,
       Holding, Bare, Ticking, Idle, Levels
  <2>8. NestedOpening'
    BY <1>1, <1>2, <2>1, <2>3, <2>4 DEF Types, Window, WindowOk, ActiveOk, FrameOk,
       NestedOpening, EndOk, CreatedOk, RestOk, NoWindows, NoWindow, Opening,
       Holding, Bare, Ticking, Idle, Levels
  <2>9. EndOk'
    BY <1>1, <1>2, <2>1, <2>3, <2>4 DEF Types, Window, WindowOk, ActiveOk, FrameOk,
       NestedOpening, EndOk, CreatedOk, RestOk, NoWindows, NoWindow, Opening,
       Holding, Bare, Ticking, Idle, Levels
  <2>10. CreatedOk'
    BY <1>1, <1>2, <2>1, <2>3, <2>4 DEF Types, Window, WindowOk, ActiveOk, FrameOk,
       NestedOpening, EndOk, CreatedOk, RestOk, NoWindows, NoWindow, Opening,
       Holding, Bare, Ticking, Idle, Levels
  <2>11. RestOk'
    BY <1>1, <1>2, <2>1, <2>3, <2>4 DEF Types, Window, WindowOk, ActiveOk, FrameOk,
       NestedOpening, EndOk, CreatedOk, RestOk, NoWindows, NoWindow, Opening,
       Holding, Bare, Ticking, Idle, Levels
  <2> QED
    BY <2>4, <2>5, <2>6, <2>7, <2>8, <2>9, <2>10, <2>11
<1> QED
  BY <1>3, <1>4

LEMMA AfterSessionCompletedKeeps ==
    ASSUME Control, NEW l \in Levels, AfterSessionCompleted(l)
    PROVE  Control'
<1> USE DEF Control
<1>1. at = [event |-> "sessionCompleted", level |-> l]
  BY DEF After, AfterSessionCompleted
<1>2. UNCHANGED <<phase, actor, round, finished, acted, window>> /\ Active' = Active
  BY DEF AfterSessionCompleted, flowVars, Active, IsFlow
<1>3. CASE l = "outer"
  <2>1. Return("outer", TRUE)
    BY <1>3 DEF AfterSessionCompleted
  <2>2. /\ at' = [event |-> "idle", level |-> "outer"]
        /\ state' = "COMPLETED"
        /\ UNCHANGED <<entered, frame>>
    BY <2>1, ReturnsOuter
  <2>3. Types'
    BY <1>2, <2>2 DEF Types, Levels
  <2>4. WindowOk'
    BY <1>1, <1>2, <1>3, <2>2, <2>3 DEF Types, Window, WindowOk, ActiveOk, FrameOk,
       NestedOpening, EndOk, CreatedOk, RestOk, NoWindows, NoWindow, Opening,
       Holding, Bare, Ticking, Idle, Levels
  <2>5. ActiveOk'
    BY <1>1, <1>2, <1>3, <2>2, <2>3 DEF Types, Window, WindowOk, ActiveOk, FrameOk,
       NestedOpening, EndOk, CreatedOk, RestOk, NoWindows, NoWindow, Opening,
       Holding, Bare, Ticking, Idle, Levels
  <2>6. FrameOk'
    BY <1>1, <1>2, <1>3, <2>2, <2>3 DEF Types, Window, WindowOk, ActiveOk, FrameOk,
       NestedOpening, EndOk, CreatedOk, RestOk, NoWindows, NoWindow, Opening,
       Holding, Bare, Ticking, Idle, Levels
  <2>7. NestedOpening'
    BY <1>1, <1>2, <1>3, <2>2, <2>3 DEF Types, Window, WindowOk, ActiveOk, FrameOk,
       NestedOpening, EndOk, CreatedOk, RestOk, NoWindows, NoWindow, Opening,
       Holding, Bare, Ticking, Idle, Levels
  <2>8. EndOk'
    BY <1>1, <1>2, <1>3, <2>2, <2>3 DEF Types, Window, WindowOk, ActiveOk, FrameOk,
       NestedOpening, EndOk, CreatedOk, RestOk, NoWindows, NoWindow, Opening,
       Holding, Bare, Ticking, Idle, Levels
  <2>9. CreatedOk'
    BY <1>1, <1>2, <1>3, <2>2, <2>3 DEF Types, Window, WindowOk, ActiveOk, FrameOk,
       NestedOpening, EndOk, CreatedOk, RestOk, NoWindows, NoWindow, Opening,
       Holding, Bare, Ticking, Idle, Levels
  <2>10. RestOk'
    BY <1>1, <1>2, <1>3, <2>2, <2>3 DEF Types, Window, WindowOk, ActiveOk, FrameOk,
       NestedOpening, EndOk, CreatedOk, RestOk, NoWindows, NoWindow, Opening,
       Holding, Bare, Ticking, Idle, Levels
  <2> QED
    BY <2>3, <2>4, <2>5, <2>6, <2>7, <2>8, <2>9, <2>10
<1>4. CASE l = "inner"
  <2>1. Return("inner", TRUE) /\ frame # "none" /\ frame = "tick"
    BY <1>1, <1>4 DEF AfterSessionCompleted, FrameOk, Holding, Ticking
  <2>2. /\ frame = "start" => at' = [event |-> "firstEntered", level |-> "outer"]
        /\ frame = "enter" => at' = [event |-> "phaseEntered", level |-> "outer"]
        /\ frame = "tick" => at' = [event |-> "phaseExited", level |-> "outer"]
        /\ frame \in {"start", "enter", "tick"}
        /\ entered' = TRUE /\ frame' = "none" /\ state' = state
    BY <2>1, ReturnsInner
  <2>3. Types'
    BY <1>2, <2>2 DEF Types, Levels, Opening, Bare
  <2>4. WindowOk'
    BY <1>1, <1>2, <1>4, <2>1, <2>2, <2>3 DEF Types, Window, WindowOk, ActiveOk,
       FrameOk, NestedOpening, EndOk, CreatedOk, RestOk, NoWindows, NoWindow,
       Opening, Holding, Bare, Ticking, Idle, Levels
  <2>5. ActiveOk'
    BY <1>1, <1>2, <1>4, <2>1, <2>2, <2>3 DEF Types, Window, WindowOk, ActiveOk,
       FrameOk, NestedOpening, EndOk, CreatedOk, RestOk, NoWindows, NoWindow,
       Opening, Holding, Bare, Ticking, Idle, Levels
  <2>6. FrameOk'
    BY <1>1, <1>2, <1>4, <2>1, <2>2, <2>3 DEF Types, Window, WindowOk, ActiveOk,
       FrameOk, NestedOpening, EndOk, CreatedOk, RestOk, NoWindows, NoWindow,
       Opening, Holding, Bare, Ticking, Idle, Levels
  <2>7. NestedOpening'
    BY <1>1, <1>2, <1>4, <2>1, <2>2, <2>3 DEF Types, Window, WindowOk, ActiveOk,
       FrameOk, NestedOpening, EndOk, CreatedOk, RestOk, NoWindows, NoWindow,
       Opening, Holding, Bare, Ticking, Idle, Levels
  <2>8. EndOk'
    BY <1>1, <1>2, <1>4, <2>1, <2>2, <2>3 DEF Types, Window, WindowOk, ActiveOk,
       FrameOk, NestedOpening, EndOk, CreatedOk, RestOk, NoWindows, NoWindow,
       Opening, Holding, Bare, Ticking, Idle, Levels
  <2>9. CreatedOk'
    BY <1>1, <1>2, <1>4, <2>1, <2>2, <2>3 DEF Types, Window, WindowOk, ActiveOk,
       FrameOk, NestedOpening, EndOk, CreatedOk, RestOk, NoWindows, NoWindow,
       Opening, Holding, Bare, Ticking, Idle, Levels
  <2>10. RestOk'
    BY <1>1, <1>2, <1>4, <2>1, <2>2, <2>3 DEF Types, Window, WindowOk, ActiveOk,
       FrameOk, NestedOpening, EndOk, CreatedOk, RestOk, NoWindows, NoWindow,
       Opening, Holding, Bare, Ticking, Idle, Levels
  <2> QED
    BY <2>3, <2>4, <2>5, <2>6, <2>7, <2>8, <2>9, <2>10
<1> QED
  BY <1>3, <1>4 DEF Levels

LEMMA TickKeeps ==
    ASSUME Control, NEW l \in Levels, Tick(l)
    PROVE  Control'
<1> USE DEF Control
<1>1. Types'
  BY EligibleOk, NoWindowType DEF Types, Window, Opening, Holding, Bare, After,
     Publish, Return, OpenTurn, Levels, flowVars, nestVars, callVars, Idle, Tick,
     Closed, Complete
<1>2. Active' = Active
  BY DEF Active, IsFlow, After, Publish, Return, OpenTurn, Levels, flowVars,
     nestVars, callVars, Idle, Tick, Closed, Complete
<1>3. WindowOk'
  BY ZenonT(60), <1>1, <1>2, EligibleOk, InnerIsPlain DEF Types, Window, WindowOk, ActiveOk,
     FrameOk, NestedOpening, EndOk, CreatedOk, RestOk, NoWindows, NoWindow,
     Opening, Holding, Bare, Ticking, After, Publish, Return, OpenTurn, Levels,
     flowVars, nestVars, callVars, Idle, Tick, Closed, Complete
<1>4. ActiveOk'
  BY <1>1, <1>2, EligibleOk, InnerIsPlain DEF Types, Window, WindowOk, ActiveOk,
     FrameOk, NestedOpening, EndOk, CreatedOk, RestOk, NoWindows, NoWindow,
     Opening, Holding, Bare, Ticking, After, Publish, Return, OpenTurn, Levels,
     flowVars, nestVars, callVars, Idle, Tick, Closed, Complete
<1>5. FrameOk'
  BY <1>1, <1>2, EligibleOk, InnerIsPlain DEF Types, Window, WindowOk, ActiveOk,
     FrameOk, NestedOpening, EndOk, CreatedOk, RestOk, NoWindows, NoWindow,
     Opening, Holding, Bare, Ticking, After, Publish, Return, OpenTurn, Levels,
     flowVars, nestVars, callVars, Idle, Tick, Closed, Complete
<1>6. NestedOpening'
  BY <1>1, <1>2, EligibleOk, InnerIsPlain DEF Types, Window, WindowOk, ActiveOk,
     FrameOk, NestedOpening, EndOk, CreatedOk, RestOk, NoWindows, NoWindow,
     Opening, Holding, Bare, Ticking, After, Publish, Return, OpenTurn, Levels,
     flowVars, nestVars, callVars, Idle, Tick, Closed, Complete
<1>7. EndOk'
  BY <1>1, <1>2, EligibleOk, InnerIsPlain DEF Types, Window, WindowOk, ActiveOk,
     FrameOk, NestedOpening, EndOk, CreatedOk, RestOk, NoWindows, NoWindow,
     Opening, Holding, Bare, Ticking, After, Publish, Return, OpenTurn, Levels,
     flowVars, nestVars, callVars, Idle, Tick, Closed, Complete
<1>8. CreatedOk'
  BY <1>1, <1>2, EligibleOk, InnerIsPlain DEF Types, Window, WindowOk, ActiveOk,
     FrameOk, NestedOpening, EndOk, CreatedOk, RestOk, NoWindows, NoWindow,
     Opening, Holding, Bare, Ticking, After, Publish, Return, OpenTurn, Levels,
     flowVars, nestVars, callVars, Idle, Tick, Closed, Complete
<1>9. RestOk'
  BY <1>1, <1>2, EligibleOk, InnerIsPlain DEF Types, Window, WindowOk, ActiveOk,
     FrameOk, NestedOpening, EndOk, CreatedOk, RestOk, NoWindows, NoWindow,
     Opening, Holding, Bare, Ticking, After, Publish, Return, OpenTurn, Levels,
     flowVars, nestVars, callVars, Idle, Tick, Closed, Complete
<1> QED
  BY <1>1, <1>3, <1>4, <1>5, <1>6, <1>7, <1>8, <1>9

LEMMA StartKeeps ==
    ASSUME Control, Start
    PROVE  Control'
<1> USE DEF Control
<1>1. /\ Idle /\ NoWindows /\ ~finished["outer"]
      /\ state = "CREATED" /\ state' = "RUNNING"
      /\ UNCHANGED <<entered, window>>
  BY DEF Start, CreatedOk, EndOk, Idle
<1>2. CASE IsFlow("outer", 1)
  <2>1. /\ phase' = [l \in Levels |-> 1] /\ actor' = [l \in Levels |-> 0]
        /\ round' = [l \in Levels |-> 1] /\ finished' = [l \in Levels |-> FALSE]
        /\ acted' = [l \in Levels |-> {}]
        /\ at' = [event |-> "firstEntered", level |-> "inner"]
        /\ frame' = "start"
    BY <1>2 DEF Start, Begin, Publish
  <2>2. Active' = "inner"
    BY <1>2, <2>1 DEF Active, IsFlow, Levels
  <2>3. Types'
    BY <1>1, <2>1 DEF Types, Levels, Opening
  <2>4. WindowOk'
    BY <1>1, <2>1, <2>2, <2>3 DEF Types, Window, WindowOk, ActiveOk, FrameOk,
       NestedOpening, EndOk, CreatedOk, RestOk, NoWindows, NoWindow, Opening,
       Holding, Bare, Ticking, Idle, Levels
  <2>5. ActiveOk'
    BY <1>1, <2>1, <2>2, <2>3 DEF Types, Window, WindowOk, ActiveOk, FrameOk,
       NestedOpening, EndOk, CreatedOk, RestOk, NoWindows, NoWindow, Opening,
       Holding, Bare, Ticking, Idle, Levels
  <2>6. FrameOk'
    BY <1>1, <2>1, <2>2, <2>3 DEF Types, Window, WindowOk, ActiveOk, FrameOk,
       NestedOpening, EndOk, CreatedOk, RestOk, NoWindows, NoWindow, Opening,
       Holding, Bare, Ticking, Idle, Levels
  <2>7. NestedOpening'
    BY <1>1, <2>1, <2>2, <2>3 DEF Types, Window, WindowOk, ActiveOk, FrameOk,
       NestedOpening, EndOk, CreatedOk, RestOk, NoWindows, NoWindow, Opening,
       Holding, Bare, Ticking, Idle, Levels
  <2>8. EndOk'
    BY <1>1, <2>1, <2>2, <2>3 DEF Types, Window, WindowOk, ActiveOk, FrameOk,
       NestedOpening, EndOk, CreatedOk, RestOk, NoWindows, NoWindow, Opening,
       Holding, Bare, Ticking, Idle, Levels
  <2>9. CreatedOk'
    BY <1>1, <2>1, <2>2, <2>3 DEF Types, Window, WindowOk, ActiveOk, FrameOk,
       NestedOpening, EndOk, CreatedOk, RestOk, NoWindows, NoWindow, Opening,
       Holding, Bare, Ticking, Idle, Levels
  <2>10. RestOk'
    BY <1>1, <2>1, <2>2, <2>3 DEF Types, Window, WindowOk, ActiveOk, FrameOk,
       NestedOpening, EndOk, CreatedOk, RestOk, NoWindows, NoWindow, Opening,
       Holding, Bare, Ticking, Idle, Levels
  <2> QED
    BY <2>3, <2>4, <2>5, <2>6, <2>7, <2>8, <2>9, <2>10
<1>3. CASE ~IsFlow("outer", 1)
  <2>1. /\ phase' = [l \in Levels |-> IF l = "outer" THEN 1 ELSE phase[l]]
        /\ actor' = [l \in Levels |-> IF l = "outer" THEN 0 ELSE actor[l]]
        /\ round' = [l \in Levels |-> IF l = "outer" THEN 1 ELSE round[l]]
        /\ finished' = [l \in Levels |-> IF l = "outer" THEN FALSE ELSE finished[l]]
        /\ acted' = [l \in Levels |-> IF l = "outer" THEN {} ELSE acted[l]]
        /\ at' = [event |-> "firstEntered", level |-> "outer"]
        /\ frame' = frame
    BY <1>3 DEF Start, Begin, Publish
  <2>2. Active' = "outer"
    BY <1>3, <2>1 DEF Active, IsFlow, Levels
  <2>3. Types'
    BY <1>1, <2>1 DEF Types, Levels, Opening
  <2>4. WindowOk'
    BY <1>1, <2>1, <2>2, <2>3 DEF Types, Window, WindowOk, ActiveOk, FrameOk,
       NestedOpening, EndOk, CreatedOk, RestOk, NoWindows, NoWindow, Opening,
       Holding, Bare, Ticking, Idle, Levels
  <2>5. ActiveOk'
    BY <1>1, <2>1, <2>2, <2>3 DEF Types, Window, WindowOk, ActiveOk, FrameOk,
       NestedOpening, EndOk, CreatedOk, RestOk, NoWindows, NoWindow, Opening,
       Holding, Bare, Ticking, Idle, Levels
  <2>6. FrameOk'
    BY <1>1, <2>1, <2>2, <2>3 DEF Types, Window, WindowOk, ActiveOk, FrameOk,
       NestedOpening, EndOk, CreatedOk, RestOk, NoWindows, NoWindow, Opening,
       Holding, Bare, Ticking, Idle, Levels
  <2>7. NestedOpening'
    BY <1>1, <2>1, <2>2, <2>3 DEF Types, Window, WindowOk, ActiveOk, FrameOk,
       NestedOpening, EndOk, CreatedOk, RestOk, NoWindows, NoWindow, Opening,
       Holding, Bare, Ticking, Idle, Levels
  <2>8. EndOk'
    BY <1>1, <2>1, <2>2, <2>3 DEF Types, Window, WindowOk, ActiveOk, FrameOk,
       NestedOpening, EndOk, CreatedOk, RestOk, NoWindows, NoWindow, Opening,
       Holding, Bare, Ticking, Idle, Levels
  <2>9. CreatedOk'
    BY <1>1, <2>1, <2>2, <2>3 DEF Types, Window, WindowOk, ActiveOk, FrameOk,
       NestedOpening, EndOk, CreatedOk, RestOk, NoWindows, NoWindow, Opening,
       Holding, Bare, Ticking, Idle, Levels
  <2>10. RestOk'
    BY <1>1, <2>1, <2>2, <2>3 DEF Types, Window, WindowOk, ActiveOk, FrameOk,
       NestedOpening, EndOk, CreatedOk, RestOk, NoWindows, NoWindow, Opening,
       Holding, Bare, Ticking, Idle, Levels
  <2> QED
    BY <2>3, <2>4, <2>5, <2>6, <2>7, <2>8, <2>9, <2>10
<1> QED
  BY <1>2, <1>3

\* One action more in a window.
LEMMA TakeOne ==
    ASSUME NEW w \in Window, NEW a \in Actors
    PROVE  /\ [w EXCEPT !.taken = Append(w.taken, a)] \in Window
           /\ [w EXCEPT !.taken = Append(w.taken, a)].status = w.status
           /\ [w EXCEPT !.taken = Append(w.taken, a)].eligible = w.eligible
           /\ [w EXCEPT !.taken = Append(w.taken, a)].taken = Append(w.taken, a)
<1>1. Append(w.taken, a) \in Seq(Actors)
  BY DEF Window
<1> QED
  BY <1>1 DEF Window

\* Accept either leaves the windows alone or adds one action to the active one.
LEMMA Accepts ==
    ASSUME Control, Accept
    PROVE  /\ UNCHANGED <<phase, actor, round, finished, acted, entered, frame, state, at,
                         next>>
           /\ \/ window' = window /\ unsettled' = unsettled
              \/ \E a \in Actors :
                    /\ CanSubmit(Active, a)
                    /\ unsettled' = [unsettled EXCEPT ![a] = @ + 1]
                    /\ window' = [window EXCEPT ![Active] =
                                     [window[Active] EXCEPT !.taken = Append(@, a)]]
<1>1. UNCHANGED <<phase, actor, round, finished, acted, entered, frame, state, at, next>>
  BY DEF Accept, flowVars, nestVars
<1>2. CASE Takes(Active, Last(offers))
  <2>1. Last(offers) \in window[Active].eligible /\ CanSubmit(Active, Last(offers))
    BY <1>2 DEF Takes, CanSubmit
  <2>2. window[Active] \in Window
    BY ActiveLevel DEF Control, Types
  <2>3. Last(offers) \in Actors
    BY <2>1, <2>2 DEF Window
  <2>4. /\ window' = [window EXCEPT ![Active] =
                         [window[Active] EXCEPT !.taken = Append(@, Last(offers))]]
        /\ unsettled' = [unsettled EXCEPT ![Last(offers)] = @ + 1]
    BY <1>2 DEF Accept
  <2> QED
    BY <1>1, <2>1, <2>3, <2>4
<1>3. CASE ~Takes(Active, Last(offers))
  <2>1. window' = window /\ unsettled' = unsettled
    BY <1>3 DEF Accept
  <2> QED
    BY <1>1, <2>1
<1> QED
  BY <1>2, <1>3

\* What only touches calls, or adds to an open window.
LEMMA QuietKeeps ==
    ASSUME Control,
           UNCHANGED <<phase, actor, round, finished, acted, entered, frame, at>>,
           \/ state' = state
           \/ {state, state'} = {"RUNNING", "PAUSED"},
           window' \in [Levels -> Window],
           \A l \in Levels : window'[l].status = window[l].status,
           \A l \in Levels : window'[l].eligible = window[l].eligible,
           \A l \in Levels : window'[l] # window[l] => window[l].status = "open"
    PROVE  Control'
<1> USE DEF Control
<1>0. state' \in {"CREATED", "RUNNING", "PAUSED", "COMPLETED"}
      /\ (state' = "CREATED" <=> state = "CREATED")
      /\ (state' = "COMPLETED" <=> state = "COMPLETED")
  BY DEF Types
<1>1. Types'
  BY <1>0 DEF Types
<1>2. Active' = Active
  BY DEF Active, IsFlow
<1>10. \A l \in Levels : window[l] = NoWindow => window'[l] = NoWindow
  BY DEF NoWindow
<1>11. \A l \in Levels : window[l] = NoWindow <=> window'[l] = NoWindow
  <2>1. NoWindow.status = "none"
    BY DEF NoWindow
  <2> QED
    BY <1>10, <2>1
<1>3. WindowOk'
  BY <1>2, <1>11, ActiveLevel DEF WindowOk, NoWindows, Levels, Types
<1>4. ActiveOk' /\ FrameOk'
  BY <1>2 DEF ActiveOk, FrameOk
<1>5. NestedOpening'
  BY <1>2 DEF NestedOpening, Levels
<1>6. EndOk'
  BY <1>0 DEF EndOk, Idle
<1>7. CreatedOk'
  BY <1>0, <1>11 DEF CreatedOk, NoWindows, Idle, Levels
<1>8. RestOk'
  BY <1>0, <1>1, <1>2, ActiveLevel DEF RestOk, Idle, Types
<1> QED
  BY <1>1, <1>3, <1>4, <1>5, <1>6, <1>7, <1>8

LEMMA AcceptKeeps ==
    ASSUME Control, Accept
    PROVE  Control'
<1>1. UNCHANGED <<phase, actor, round, finished, acted, entered, frame, state, at>>
  BY Accepts
<1>2. CASE window' = window
  BY <1>1, <1>2, QuietKeeps DEF Control, Types
<1>3. ASSUME NEW a \in Actors, CanSubmit(Active, a),
             window' = [window EXCEPT ![Active] =
                           [window[Active] EXCEPT !.taken = Append(@, a)]]
      PROVE  Control'
  <2>1. window \in [Levels -> Window] /\ Active \in Levels
    BY ActiveLevel DEF Control, Types
  <2> DEFINE w == [window[Active] EXCEPT !.taken = Append(@, a)]
  <2>2. w \in Window /\ w.status = window[Active].status
        /\ w.eligible = window[Active].eligible
    BY <2>1, TakeOne
  <2>3. window' = [window EXCEPT ![Active] = w]
    BY <1>3
  <2>4. window[Active].status = "open"
    BY <1>3 DEF CanSubmit
  <2> HIDE DEF w
  <2>5. /\ window' \in [Levels -> Window]
        /\ \A l \in Levels : window'[l].status = window[l].status
        /\ \A l \in Levels : window'[l].eligible = window[l].eligible
        /\ \A l \in Levels : window'[l] # window[l] => window[l].status = "open"
    BY <2>1, <2>2, <2>3, <2>4
  <2> QED
    BY <1>1, <2>5, QuietKeeps
<1> QED
  BY <1>2, <1>3, Accepts

LEMMA CallsKeep ==
    ASSUME Control,
           \/ \E a \in Actors : Submit(a)
           \/ Pause \/ Resume \/ TickInVain \/ Over \/ UNCHANGED vars
    PROVE  Control'
<1>1. UNCHANGED <<phase, actor, round, finished, acted, entered, frame, at, window>>
  BY DEF Submit, Pause, Resume, TickInVain, Over, vars, flowVars, nestVars
<1>2. state' = state \/ {state, state'} = {"RUNNING", "PAUSED"}
  BY DEF Submit, Pause, Resume, TickInVain, Over, vars, callVars
<1>3. window \in [Levels -> Window]
  BY DEF Control, Types
<1> QED
  BY <1>1, <1>2, <1>3, QuietKeeps

LEMMA ControlStart == Init => Control
<1> SUFFICES ASSUME Init
             PROVE  Control
  OBVIOUS
<1>1. window = [l \in Levels |-> NoWindow]
  BY DEF Init
<1>2. Types
  <2>1. window \in [Levels -> Window]
    BY <1>1, NoWindowType
  <2>2. at \in [event : Opening \cup Holding \cup Bare \cup {"idle"}, level : Levels]
    BY DEF Init, Levels
  <2>3. /\ phase \in [Levels -> Nat \ {0}] /\ actor \in [Levels -> Nat]
        /\ round \in [Levels -> Nat] /\ finished \in [Levels -> BOOLEAN]
        /\ acted \in [Levels -> SUBSET Actors]
    BY DEF Init
  <2>4. state = "CREATED" /\ entered = FALSE /\ frame = "none"
    BY DEF Init
  <2> QED
    BY <2>1, <2>2, <2>3, <2>4 DEF Types
<1>3. NoWindows /\ Idle /\ at.level = "outer"
  BY <1>1 DEF NoWindows, Levels, Init, Idle
<1>4. WindowOk
  BY <1>1, <1>3 DEF WindowOk, Idle, Opening, Bare, NoWindow
<1>5. ActiveOk /\ FrameOk /\ NestedOpening /\ EndOk /\ CreatedOk /\ RestOk
  BY <1>3 DEF ActiveOk, FrameOk, NestedOpening, EndOk, CreatedOk, RestOk, Idle,
     Init,
              Holding, Bare, Opening, Levels
<1> QED
  BY <1>2, <1>4, <1>5 DEF Control

LEMMA ControlStep == Control /\ [Next]_vars => Control'
<1> SUFFICES ASSUME Control, [Next]_vars
             PROVE  Control'
  OBVIOUS
<1>1. CASE \E l \in Levels :
              \/ AfterFirstEntered(l) \/ AfterFirstRound(l) \/ AfterSessionStarted(l)
              \/ AfterTurnStarted(l) \/ AfterWindowOpened(l)
  BY <1>1, AfterFirstEnteredKeeps, AfterFirstRoundKeeps, AfterSessionStartedKeeps,
     AfterTurnStartedKeeps, AfterWindowOpenedKeeps
<1>2. CASE \E l \in Levels :
              \/ AfterActionStarted(l) \/ AfterActionEnded(l) \/ AfterWindowClosed(l)
              \/ AfterTurnEnded(l) \/ AfterRoundEnded(l) \/ AfterRoundStarted(l)
  BY <1>2, AfterActionStartedKeeps, AfterActionEndedKeeps, AfterWindowClosedKeeps,
     AfterTurnEndedKeeps, AfterRoundEndedKeeps, AfterRoundStartedKeeps
<1>3. CASE \E l \in Levels :
              \/ AfterPhaseExited(l) \/ AfterPhaseEntered(l) \/ AfterSessionCompleted(l)
              \/ Tick(l)
  BY <1>3, AfterPhaseExitedKeeps, AfterPhaseEnteredKeeps,
     AfterSessionCompletedKeeps,
     TickKeeps
<1>4. CASE Start \/ Accept
  BY <1>4, StartKeeps, AcceptKeeps
<1>5. CASE \/ \E a \in Actors : Submit(a)
           \/ Pause \/ Resume \/ TickInVain \/ Over \/ UNCHANGED vars
  BY <1>5, CallsKeep
<1> QED
  BY <1>1, <1>2, <1>3, <1>4, <1>5 DEF Next, RunOn

------------------------------------------------------------------------------
(* One action for each actor. *)

\* The windows of one step are those of the last, emptied, closed, opened anew or
\* with one action more.
LEMMA DistinctStep == Control /\ OneActionEach /\ [Next]_vars => OneActionEach'
<1> SUFFICES ASSUME Control, OneActionEach, [Next]_vars
             PROVE  OneActionEach'
  OBVIOUS
<1>0. window \in [Levels -> Window]
  BY DEF Control, Types
<1>1. ASSUME \A l \in Levels : window'[l].taken \in {window[l].taken, <<>>}
      PROVE  OneActionEach'
  BY <1>1 DEF OneActionEach
<1>2. ASSUME window' = window
      PROVE  OneActionEach'
  BY <1>1, <1>2
<1>3. ASSUME NEW l \in Levels, NEW w \in Window, w.taken \in {window[l].taken, <<>>},
             window' = [window EXCEPT ![l] = w]
      PROVE  OneActionEach'
  BY <1>0, <1>1, <1>3
<1>4. ASSUME NEW l \in Levels, Tick(l)
      PROVE  OneActionEach'
  <2>1. window[l] \in Window
    BY <1>0
  <2>2. /\ Closed(window[l]) \in Window
        /\ Closed(window[l]).taken = window[l].taken
    BY <2>1 DEF Closed, Window
  <2> QED
    BY <1>3, <1>4, <2>2 DEF Tick
<1>5. ASSUME NEW l \in Levels, AfterTurnStarted(l)
      PROVE  OneActionEach'
  <2> DEFINE w == [status |-> "open", eligible |-> Eligible(l), taken |-> <<>>]
  <2>1. w \in Window /\ w.taken = <<>>
    BY EligibleOk DEF Window, Control
  <2>2. window' = [window EXCEPT ![l] = w]
    BY <1>5 DEF AfterTurnStarted
  <2> HIDE DEF w
  <2> QED
    BY <1>3, <2>1, <2>2
<1>6. ASSUME NEW l \in Levels, AfterActionEnded(l)
      PROVE  OneActionEach'
  <2> DEFINE w == [window[l] EXCEPT !.taken = <<>>]
  <2>1. window[l] \in Window /\ <<>> \in Seq(Actors)
    BY <1>0
  <2>2. w \in Window /\ w.taken = <<>>
    BY <2>1 DEF Window
  <2>3. window' = window \/ window' = [window EXCEPT ![l] = w]
    BY <1>6 DEF AfterActionEnded
  <2> HIDE DEF w
  <2> QED
    BY <1>2, <1>3, <2>2, <2>3
<1>7. ASSUME NEW l \in Levels, AfterWindowClosed(l)
      PROVE  OneActionEach'
  <2>1. NoWindow \in Window /\ NoWindow.taken = <<>>
    BY NoWindowType DEF NoWindow
  <2> QED
    BY <1>3, <1>7, <2>1 DEF AfterWindowClosed
<1>8. ASSUME Accept
      PROVE  OneActionEach'
  <2>1. ASSUME NEW a \in Actors, CanSubmit(Active, a),
               window' = [window EXCEPT ![Active] =
                             [window[Active] EXCEPT !.taken = Append(@, a)]]
        PROVE  OneActionEach'
    <3>1. window[Active] \in Window /\ Active \in Levels
      BY <1>0, ActiveLevel
    <3> DEFINE t == window[Active].taken
               w == [window[Active] EXCEPT !.taken = Append(t, a)]
    <3>2. w \in Window /\ w.taken = Append(t, a) /\ t \in Seq(Actors)
      BY <3>1, TakeOne DEF Window
    <3>3. \A i \in DOMAIN t : t[i] # a
      BY <2>1 DEF CanSubmit, HasTaken
    <3>4. \A i, j \in DOMAIN t : t[i] = t[j] => i = j
      BY <3>1 DEF OneActionEach
    <3>5. window' = [window EXCEPT ![Active] = w]
      BY <2>1
    <3> HIDE DEF t, w
    <3>6. \A i, j \in DOMAIN Append(t, a) : Append(t, a)[i] = Append(t, a)[j] => i = j
      BY <3>2, <3>3, <3>4
    <3>7. window'[Active] = w /\ \A l \in Levels \ {Active} : window'[l] = window[l]
      BY <1>0, <3>1, <3>5
    <3>8. \A i, j \in DOMAIN window'[Active].taken :
             window'[Active].taken[i] = window'[Active].taken[j] => i = j
      BY <3>2, <3>6, <3>7
    <3>9. \A l \in Levels \ {Active} : \A i, j \in DOMAIN window'[l].taken :
             window'[l].taken[i] = window'[l].taken[j] => i = j
      BY <3>7 DEF OneActionEach
    <3> QED
      BY <3>8, <3>9 DEF OneActionEach
  <2> QED
    BY <1>2, <1>8, <2>1, Accepts
<1>9. CASE \/ \E a \in Actors : Submit(a)
           \/ Start \/ Pause \/ Resume \/ TickInVain \/ Over \/ UNCHANGED vars
  BY <1>2, <1>9 DEF Submit, Start, Pause, Resume, TickInVain, Over, vars
<1>10. CASE \E l \in Levels :
              \/ AfterFirstEntered(l) \/ AfterFirstRound(l) \/ AfterSessionStarted(l)
              \/ AfterWindowOpened(l) \/ AfterActionStarted(l) \/ AfterTurnEnded(l)
              \/ AfterRoundEnded(l) \/ AfterRoundStarted(l) \/ AfterPhaseExited(l)
              \/ AfterPhaseEntered(l) \/ AfterSessionCompleted(l)
  BY <1>2, <1>10 DEF AfterFirstEntered, AfterFirstRound, AfterSessionStarted,
     AfterWindowOpened, AfterActionStarted, AfterTurnEnded, AfterRoundEnded,
     AfterRoundStarted, AfterPhaseExited, AfterPhaseEntered, AfterSessionCompleted
<1> QED
  BY <1>4, <1>5, <1>6, <1>7, <1>8, <1>9, <1>10 DEF Next, RunOn

------------------------------------------------------------------------------
(* Rounds. *)

LEMMA RoundsStep == Control /\ RoundsWithinLimit /\ [Next]_vars => RoundsWithinLimit'
<1> SUFFICES ASSUME Control, RoundsWithinLimit, [Next]_vars
             PROVE  RoundsWithinLimit'
  OBVIOUS
<1>0. round \in [Levels -> Nat] /\ MaxRounds \in [Levels -> Int]
  BY SessionAssumption DEF Control, Types
<1>1. ASSUME round' = round
      PROVE  RoundsWithinLimit'
  BY <1>1 DEF RoundsWithinLimit
<1>2. ASSUME NEW S \in SUBSET Levels,
             round' = [l \in Levels |-> IF l \in S THEN 1 ELSE round[l]]
      PROVE  RoundsWithinLimit'
  BY <1>0, <1>2 DEF RoundsWithinLimit
<1>3. CASE Start
  <2>1. CASE IsFlow("outer", 1)
    BY <1>2, <1>3, <2>1 DEF Start, Begin
  <2>2. CASE ~IsFlow("outer", 1)
    <3>1. {"outer"} \in SUBSET Levels
      BY DEF Levels
    <3> QED
      BY <1>2, <1>3, <2>2, <3>1 DEF Start, Begin
  <2> QED
    BY <2>1, <2>2
<1>4. ASSUME NEW l \in Levels, AfterRoundEnded(l)
      PROVE  RoundsWithinLimit'
  <2>1. CASE LastRound(l)
    BY <1>1, <1>4, <2>1 DEF AfterRoundEnded
  <2>2. CASE ~LastRound(l)
    <3>1. round' = [round EXCEPT ![l] = round[l] + 1]
      BY <1>4, <2>2 DEF AfterRoundEnded
    <3> QED
      BY <1>0, <2>2, <3>1 DEF RoundsWithinLimit, LastRound
  <2> QED
    BY <2>1, <2>2
<1>5. ASSUME NEW l \in Levels, AfterPhaseExited(l)
      PROVE  RoundsWithinLimit'
  <2>1. round' = round \/ round' = [round EXCEPT !["inner"] = 1]
    BY <1>5 DEF AfterPhaseExited
  <2>2. CASE round' = [round EXCEPT !["inner"] = 1]
    <3>1. {"inner"} \in SUBSET Levels
      BY DEF Levels
    <3>2. round' = [k \in Levels |-> IF k \in {"inner"} THEN 1 ELSE round[k]]
      BY <1>0, <2>2 DEF Levels
    <3> QED
      BY <1>2, <3>1, <3>2
  <2> QED
    BY <1>1, <2>1, <2>2
<1>6. CASE \/ \E a \in Actors : Submit(a)
           \/ Accept \/ Pause \/ Resume \/ TickInVain \/ Over \/ UNCHANGED vars
  BY <1>1, <1>6 DEF Submit, Accept, Pause, Resume, TickInVain, Over, vars, flowVars
<1>7. CASE \E l \in Levels :
              \/ AfterFirstEntered(l) \/ AfterFirstRound(l) \/ AfterSessionStarted(l)
              \/ AfterTurnStarted(l) \/ AfterWindowOpened(l)
              \/ AfterActionStarted(l) \/ AfterActionEnded(l) \/ AfterWindowClosed(l)
              \/ AfterTurnEnded(l) \/ AfterRoundStarted(l)
              \/ AfterPhaseEntered(l) \/ AfterSessionCompleted(l) \/ Tick(l)
  BY <1>1, <1>7 DEF AfterFirstEntered, AfterFirstRound, AfterSessionStarted,
     AfterTurnStarted, AfterWindowOpened, AfterActionStarted, AfterActionEnded,
     AfterWindowClosed, AfterTurnEnded, AfterRoundStarted, AfterPhaseEntered,
     AfterSessionCompleted, Tick, flowVars
<1> QED
  BY <1>3, <1>4, <1>5, <1>6, <1>7 DEF Next, RunOn

\* Counting on from one turn to the next, round the table.
LEMMA NextRemainder ==
    ASSUME NEW n \in Nat \ {0}, NEW i \in Nat
    PROVE  (i + 1) % n = IF i % n = n - 1 THEN 0 ELSE (i % n) + 1
<1>1. ASSUME NEW j \in Nat, NEW q \in Int, NEW r \in 0..(n - 1), j = q * n + r
      PROVE  j % n = r
  BY <1>1
<1>2. i = n * (i \div n) + (i % n) /\ i \div n \in Int
  OBVIOUS
<1> DEFINE q == i \div n
           r == i % n
<1>3. i = q * n + r /\ q \in Int /\ r \in 0..(n - 1)
  BY <1>2, Remainder
<1> HIDE DEF q, r
<1>4. CASE r = n - 1
  <2>1. i + 1 = (q + 1) * n + 0 /\ q + 1 \in Int /\ 0 \in 0..(n - 1) /\ i + 1 \in Nat
    BY <1>3, <1>4
  <2>2. (i + 1) % n = 0
    BY <1>1, <2>1
  <2> QED
    BY <1>4, <2>2 DEF r
<1>5. CASE r # n - 1
  <2>1. i + 1 = q * n + (r + 1) /\ r + 1 \in 0..(n - 1) /\ i + 1 \in Nat
    BY <1>3, <1>5
  <2>2. (i + 1) % n = r + 1
    BY <1>1, <1>3, <2>1
  <2> QED
    BY <1>5, <2>2 DEF r
<1> QED
  BY <1>4, <1>5

\* How far into the round the turns of a level have been ended.
Progress(l) ==
    (actor[l] % Len(Order)) +
        IF at = [event |-> "turnEnded", level |-> l] THEN 1 ELSE 0

CoverOk ==
    /\ at.event \in Holding => window[at.level].status # "none"
    /\ \A l \in Levels : window[l].status # "none" => window[l].eligible = Eligible(l)
    /\ \A l \in Levels \ Simultaneous : \A j \in 1..Progress(l) : Order[j] \in acted[l]
    /\ \A l \in Levels \cap Simultaneous :
          at = [event |-> "turnEnded", level |-> l] => acted[l] = Actors
    /\ \A l \in Levels : at = [event |-> "roundEnded", level |-> l] =>
          acted[l] = Actors /\ RoundOver(actor[l])

\* The actor's turn has a place in the round.
LEMMA ProgressRange ==
    ASSUME Control, NEW l \in Levels
    PROVE  actor[l] \in Nat /\ Len(Order) \in Nat \ {0}
           /\ actor[l] % Len(Order) \in 0..(Len(Order) - 1)
<1>1. actor[l] \in Nat /\ Len(Order) \in Nat \ {0}
  BY SessionAssumption DEF Control, Types
<1> QED
  BY <1>1, Remainder

\* A step that ends no turn and no round, and opens no window for others.
LEMMA CoverQuiet ==
    ASSUME Control, CoverOk, UNCHANGED <<actor, acted>>,
           at'.event \notin {"turnEnded", "roundEnded"},
           at'.event \in Holding => window'[at'.level].status # "none",
           \A l \in Levels : window'[l].status # "none" => window'[l].eligible = Eligible(l)
    PROVE  CoverOk'
<1>1. \A l \in Levels : Eligible(l)' = Eligible(l)
  BY DEF Eligible
<1>2. \A l \in Levels : /\ at' # [event |-> "turnEnded", level |-> l]
                        /\ at' # [event |-> "roundEnded", level |-> l]
  OBVIOUS
<1>3. ASSUME NEW l \in Levels
      PROVE  1..Progress(l)' \subseteq 1..Progress(l)
  <2>1. Progress(l)' = actor[l] % Len(Order)
    <3>1. actor[l] % Len(Order) \in Int
      BY ProgressRange
    <3> QED
      BY <1>2, <3>1 DEF Progress
  <2>2. Progress(l) \in {actor[l] % Len(Order), (actor[l] % Len(Order)) + 1}
    BY ProgressRange DEF Progress
  <2> QED
    BY <2>1, <2>2, ProgressRange
<1>4. \A l \in Levels \ Simultaneous : \A j \in 1..Progress(l)' : Order[j] \in acted'[l]
  BY <1>3 DEF CoverOk
<1> QED
  BY <1>1, <1>2, <1>4 DEF CoverOk

\* A step that changes nothing the rounds depend on.
LEMMA CoverSame ==
    ASSUME CoverOk, UNCHANGED <<actor, acted, at>>,
           \A l \in Levels : window'[l].status = window[l].status,
           \A l \in Levels : window'[l].eligible = window[l].eligible,
           at.level \in Levels
    PROVE  CoverOk'
<1>1. \A l \in Levels : Eligible(l)' = Eligible(l) /\ Progress(l)' = Progress(l)
  BY DEF Eligible, Progress
<1> QED
  BY <1>1 DEF CoverOk

\* A step that begins some levels anew, with no window about.
LEMMA CoverReset ==
    ASSUME Control, CoverOk, NEW S \in SUBSET Levels,
           \A l \in S : actor'[l] = 0,
           \A l \in Levels \ S : actor'[l] = actor[l] /\ acted'[l] = acted[l],
           at'.event \notin {"turnEnded", "roundEnded"} \cup Holding,
           NoWindows, window' = window
    PROVE  CoverOk'
<1>1. \A l \in Levels : window'[l].status = "none"
  BY DEF NoWindows, NoWindow, Levels
<1>2. \A l \in Levels : /\ at' # [event |-> "turnEnded", level |-> l]
                        /\ at' # [event |-> "roundEnded", level |-> l]
  OBVIOUS
<1>3. ASSUME NEW l \in Levels \ Simultaneous, NEW j \in 1..Progress(l)'
      PROVE  Order[j] \in acted'[l]
  <2>1. CASE l \in S
    <3>1. actor'[l] % Len(Order) = 0
      BY <2>1, SessionAssumption
    <3>2. Progress(l)' = 0
      BY <1>2, <3>1 DEF Progress
    <3> QED
      BY <1>3, <3>2
  <2>2. CASE l \notin S
    <3>1. Progress(l)' = actor[l] % Len(Order) /\ acted'[l] = acted[l]
      <4>1. actor[l] % Len(Order) \in Int
        BY ProgressRange
      <4> QED
        BY <1>2, <2>2, <4>1 DEF Progress
    <3>2. Progress(l) \in {actor[l] % Len(Order), (actor[l] % Len(Order)) + 1}
      BY ProgressRange DEF Progress
    <3>3. j \in 1..Progress(l)
      BY <1>3, <3>1, <3>2, ProgressRange
    <3> QED
      BY <3>1, <3>3 DEF CoverOk
  <2> QED
    BY <2>1, <2>2
<1> QED
  BY <1>1, <1>2, <1>3 DEF CoverOk

LEMMA CoverWindowClosed ==
    ASSUME Control, CoverOk, NEW l \in Levels, AfterWindowClosed(l)
    PROVE  CoverOk'
<1>1. /\ at = [event |-> "windowClosed", level |-> l]
      /\ at' = [event |-> "turnEnded", level |-> l]
      /\ window' = [window EXCEPT ![l] = NoWindow]
      /\ acted' = [acted EXCEPT ![l] = acted[l] \cup window[l].eligible]
      /\ actor' = actor
  BY DEF AfterWindowClosed, After, Publish
<1>2. window \in [Levels -> Window] /\ acted \in [Levels -> SUBSET Actors]
  BY DEF Control, Types
<1>3. /\ window'[l].status = "none"
      /\ \A k \in Levels \ {l} : window'[k] = window[k] /\ acted'[k] = acted[k]
      /\ acted'[l] = acted[l] \cup Eligible(l)
  BY <1>1, <1>2 DEF CoverOk, Holding, NoWindow
<1>4. \A k \in Levels : Eligible(k)' = Eligible(k)
  BY <1>1 DEF Eligible
<1>5. \A k \in Levels : window'[k].status # "none" => window'[k].eligible = Eligible(k)'
  BY <1>3, <1>4 DEF CoverOk
<1>6. ASSUME NEW k \in Levels \ Simultaneous, NEW j \in 1..Progress(k)'
      PROVE  Order[j] \in acted'[k]
  <2>1. CASE k = l
    <3>1. Progress(k)' = (actor[l] % Len(Order)) + 1
      BY <1>1, <2>1 DEF Progress
    <3>2. Progress(k) = actor[l] % Len(Order)
      BY <1>1, <2>1, ProgressRange DEF Progress
    <3>3. CASE j = (actor[l] % Len(Order)) + 1
      BY <1>3, <1>6, <2>1, <3>3 DEF Eligible
    <3>4. CASE j # (actor[l] % Len(Order)) + 1
      <4>1. j \in 1..Progress(k)
        BY <1>6, <3>1, <3>2, <3>4, ProgressRange
      <4> QED
        BY <1>3, <2>1, <4>1 DEF CoverOk
    <3> QED
      BY <3>3, <3>4
  <2>2. CASE k # l
    <3>1. Progress(k)' = Progress(k)
      BY <1>1, <2>2 DEF Progress
    <3> QED
      BY <1>3, <1>6, <2>2, <3>1 DEF CoverOk
  <2> QED
    BY <2>1, <2>2
<1>7. \A k \in Levels \cap Simultaneous :
         at' = [event |-> "turnEnded", level |-> k] => acted'[k] = Actors
  <2>1. acted[l] \subseteq Actors
    BY <1>2
  <2>2. l \in Simultaneous => acted'[l] = Actors
    BY <1>3, <2>1 DEF Eligible
  <2> QED
    BY <1>1, <2>2
<1>8. /\ at'.event \notin Holding
      /\ \A k \in Levels : at' # [event |-> "roundEnded", level |-> k]
  BY <1>1 DEF Holding
<1> QED
  BY <1>5, <1>6, <1>7, <1>8 DEF CoverOk

LEMMA CoverTurnEnded ==
    ASSUME Control, CoverOk, NEW l \in Levels, AfterTurnEnded(l)
    PROVE  CoverOk'
<1>1. /\ at = [event |-> "turnEnded", level |-> l]
      /\ actor' = [actor EXCEPT ![l] = actor[l] + 1]
      /\ UNCHANGED <<acted, window>>
  BY DEF AfterTurnEnded, After
<1>2. /\ actor \in [Levels -> Nat] /\ acted \in [Levels -> SUBSET Actors]
      /\ NoWindows
  BY <1>1 DEF Control, Types, WindowOk, Bare
<1>3. /\ at' \in {[event |-> "roundEnded", level |-> l],
                  [event |-> "phaseExited", level |-> l],
                  [event |-> "turnStarted", level |-> l]}
      /\ at' = [event |-> "roundEnded", level |-> l] => RoundOver(actor[l] + 1)
  BY DEF AfterTurnEnded, PhaseCheck, OpenTurn, Publish
<1>4. \A k \in Levels : window'[k].status = "none"
  BY <1>1, <1>2 DEF NoWindows, NoWindow, Levels
<1>5. \A k \in Levels : at' # [event |-> "turnEnded", level |-> k]
  BY <1>3
<1>6. \A k \in Levels : Progress(k)' = actor'[k] % Len(Order)
  <2>1. ASSUME NEW k \in Levels
        PROVE  actor'[k] % Len(Order) \in Int
    <3>1. actor' \in [Levels -> Nat]
      BY <1>1, <1>2
    <3>2. actor'[k] \in Nat /\ Len(Order) \in Nat \ {0}
      BY <3>1, SessionAssumption
    <3>3. \A m \in Nat : m % Len(Order) \in Int
      BY SessionAssumption
    <3> QED
      BY <3>2, <3>3
  <2> QED
    BY <1>5, <2>1 DEF Progress
<1>7. Progress(l) = (actor[l] % Len(Order)) + 1
  BY <1>1 DEF Progress
<1>8. (actor[l] + 1) % Len(Order) = IF actor[l] % Len(Order) = Len(Order) - 1 THEN 0
                                    ELSE (actor[l] % Len(Order)) + 1
  BY NextRemainder, ProgressRange
<1>9. ASSUME NEW k \in Levels \ Simultaneous, NEW j \in 1..Progress(k)'
      PROVE  Order[j] \in acted'[k]
  <2>1. CASE k = l
    <3>1. j \in 1..Progress(k)
      BY <1>1, <1>2, <1>6, <1>7, <1>8, <1>9, <2>1, ProgressRange
    <3> QED
      BY <1>1, <3>1 DEF CoverOk
  <2>2. CASE k # l
    <3>1. Progress(k)' = Progress(k)
      <4>1. actor'[k] = actor[k] /\ at # [event |-> "turnEnded", level |-> k]
        BY <1>1, <1>2, <2>2
      <4> QED
        BY <1>6, <4>1, ProgressRange DEF Progress
    <3> QED
      BY <1>1, <1>9, <3>1 DEF CoverOk
  <2> QED
    BY <2>1, <2>2
<1>10. ASSUME at' = [event |-> "roundEnded", level |-> l]
       PROVE  acted'[l] = Actors /\ RoundOver(actor'[l])
  <2>1. RoundOver(actor'[l]) /\ (actor[l] + 1) % Len(Order) = 0
    BY <1>1, <1>2, <1>3, <1>10 DEF RoundOver
  <2>2. CASE l \in Simultaneous
    BY <1>1, <2>1, <2>2 DEF CoverOk
  <2>3. CASE l \notin Simultaneous
    <3>1. Progress(l) = Len(Order)
      BY <1>7, <1>8, <2>1, ProgressRange
    <3>2. \A j \in 1..Len(Order) : Order[j] \in acted[l]
      BY <2>3, <3>1 DEF CoverOk
    <3>3. Actors \subseteq acted[l]
      BY <3>2, SessionAssumption DEF Actors
    <3> QED
      BY <1>1, <1>2, <2>1, <3>3
  <2> QED
    BY <2>2, <2>3
<1>11. at'.event \notin Holding
  BY <1>3 DEF Holding
<1>12. \A k \in Levels : at' = [event |-> "roundEnded", level |-> k] =>
          acted'[k] = Actors /\ RoundOver(actor'[k])
  BY <1>3, <1>10
<1> QED
  BY <1>4, <1>5, <1>9, <1>11, <1>12 DEF CoverOk

LEMMA CoverRoundEnded ==
    ASSUME Control, CoverOk, NEW l \in Levels, AfterRoundEnded(l)
    PROVE  CoverOk'
<1>1. /\ at = [event |-> "roundEnded", level |-> l]
      /\ UNCHANGED <<actor, window>>
  BY DEF AfterRoundEnded, After
<1>2. NoWindows /\ actor \in [Levels -> Nat] /\ acted \in [Levels -> SUBSET Actors]
  BY <1>1 DEF Control, WindowOk, Bare, Types
<1>3. \A k \in Levels : window'[k].status = "none"
  BY <1>1, <1>2 DEF NoWindows, NoWindow, Levels
<1>4. CASE LastRound(l)
  <2>1. acted' = acted /\ Return(l, TRUE)
    BY <1>4 DEF AfterRoundEnded
  <2>2. at'.event \in Opening \cup {"idle", "phaseExited"}
    <3>0. Types /\ FrameOk
      BY DEF Control
    <3>1. CASE l = "outer"
      <4>1. Return("outer", TRUE)
        BY <1>4, <3>1 DEF AfterRoundEnded
      <4>2. at' = [event |-> "idle", level |-> "outer"]
        BY <3>0, <4>1, ReturnsOuter
      <4> QED
        BY <4>2
    <3>2. CASE l = "inner"
      <4>1. frame = "tick"
        BY <1>1, <3>0, <3>2 DEF FrameOk, Ticking
      <4>2. Return("inner", TRUE)
        BY <1>4, <3>2 DEF AfterRoundEnded
      <4>3. at' = [event |-> "phaseExited", level |-> "outer"]
        BY <3>0, <4>1, <4>2, ReturnsInner
      <4> QED
        BY <4>3
    <3> QED
      BY <3>1, <3>2 DEF Levels
  <2>3. at'.event \notin {"turnEnded", "roundEnded"} \cup Holding
    BY <2>2 DEF Opening, Holding
  <2> QED
    BY <1>1, <1>3, <2>1, <2>3, CoverQuiet
<1>5. CASE ~LastRound(l)
  <2>1. /\ at' = [event |-> "roundStarted", level |-> l]
        /\ acted' = [acted EXCEPT ![l] = {}]
    BY <1>5 DEF AfterRoundEnded, Publish
  <2>2. actor[l] % Len(Order) = 0
    BY <1>1 DEF CoverOk, RoundOver
  <2>3. ASSUME NEW k \in Levels \ Simultaneous, NEW j \in 1..Progress(k)'
        PROVE  Order[j] \in acted'[k]
    <3>1. Progress(k)' = actor[k] % Len(Order)
      <4>1. actor[k] % Len(Order) \in Int
        BY ProgressRange
      <4> QED
        BY <1>1, <2>1, <4>1 DEF Progress
    <3>2. CASE k = l
      BY <2>2, <2>3, <3>1, <3>2
    <3>3. CASE k # l
      <4>1. Progress(k) = actor[k] % Len(Order) /\ acted'[k] = acted[k]
        BY <1>1, <1>2, <2>1, <3>3, ProgressRange DEF Progress
      <4> QED
        BY <2>3, <3>1, <4>1 DEF CoverOk
    <3> QED
      BY <3>2, <3>3
  <2>4. /\ at'.event \notin Holding
        /\ \A k \in Levels : /\ at' # [event |-> "turnEnded", level |-> k]
                             /\ at' # [event |-> "roundEnded", level |-> k]
    BY <2>1 DEF Holding
  <2> QED
    BY <1>3, <2>3, <2>4 DEF CoverOk
<1> QED
  BY <1>4, <1>5

\* Where the thread is when a level has been entered, or has ended.
LEMMA GoesOnWhere ==
    ASSUME Types, FrameOk, NEW l \in Levels,
           \/ AfterSessionStarted(l) \/ AfterPhaseEntered(l) \/ AfterWindowOpened(l)
           \/ AfterSessionCompleted(l)
    PROVE  at'.event \in {"turnStarted", "idle", "firstEntered", "phaseEntered",
                         "phaseExited"}
<1>1. CASE OpenTurn(l, round[l], actor[l])
  BY <1>1 DEF OpenTurn, Publish
<1>2. at.level = l
  <2>1. \/ After("sessionStarted", l) \/ After("phaseEntered", l)
        \/ After("windowOpened", l) \/ After("sessionCompleted", l)
    BY DEF AfterSessionStarted, AfterPhaseEntered, AfterWindowOpened,
                AfterSessionCompleted
  <2> QED
    BY <2>1 DEF After
<1>3. OpenTurn(l, round[l], actor[l]) \/ Return(l, FALSE) \/ Return(l, TRUE)
  BY DEF AfterSessionStarted, AfterPhaseEntered, AfterWindowOpened,
              AfterSessionCompleted
<1> QED
  BY <1>1, <1>2, <1>3, ReturnsWhere

LEMMA CoverStep == Control /\ CoverOk /\ [Next]_vars => CoverOk'
<1> SUFFICES ASSUME Control, CoverOk, [Next]_vars
             PROVE  CoverOk'
  OBVIOUS
<1>0. /\ window \in [Levels -> Window] /\ at.level \in Levels
      /\ WindowOk /\ FrameOk /\ Types /\ CreatedOk
  BY DEF Control, Types
<1>1. ASSUME NEW l \in Levels,
             \/ AfterFirstEntered(l) \/ AfterFirstRound(l) \/ AfterRoundStarted(l)
      PROVE  CoverOk'
  <2>1. /\ UNCHANGED <<actor, acted, window>>
        /\ at'.event \in {"firstRound", "sessionStarted", "phaseExited", "turnStarted"}
    BY <1>1 DEF AfterFirstEntered, AfterFirstRound, AfterRoundStarted, PhaseCheck,
                OpenTurn, Publish, flowVars
  <2> QED
    BY <2>1, CoverQuiet DEF CoverOk, Holding
<1>2. ASSUME NEW l \in Levels,
             \/ AfterSessionStarted(l) \/ AfterPhaseEntered(l) \/ AfterWindowOpened(l)
             \/ AfterSessionCompleted(l)
      PROVE  CoverOk'
  <2>1. UNCHANGED <<actor, acted, window>>
    BY <1>2 DEF AfterSessionStarted, AfterPhaseEntered, AfterWindowOpened,
                AfterSessionCompleted, flowVars
  <2>2. at'.event \in {"turnStarted", "idle", "firstEntered", "phaseEntered", "phaseExited"}
    BY <1>0, <1>2, GoesOnWhere
  <2> QED
    BY <2>1, <2>2, CoverQuiet DEF CoverOk, Holding
<1>3. ASSUME NEW l \in Levels, AfterTurnStarted(l)
      PROVE  CoverOk'
  <2> DEFINE w == [status |-> "open", eligible |-> Eligible(l), taken |-> <<>>]
  <2>1. /\ window' = [window EXCEPT ![l] = w]
        /\ at' = [event |-> "windowOpened", level |-> l]
        /\ UNCHANGED <<actor, acted>>
    BY <1>3 DEF AfterTurnStarted, Publish, flowVars
  <2>2. w.status = "open" /\ w.eligible = Eligible(l)
    OBVIOUS
  <2> HIDE DEF w
  <2>3. window'[l] = w /\ \A k \in Levels \ {l} : window'[k] = window[k]
    BY <1>0, <2>1
  <2> QED
    BY <2>1, <2>2, <2>3, CoverQuiet DEF CoverOk
<1>4. ASSUME NEW l \in Levels, Tick(l)
      PROVE  CoverOk'
  <2> DEFINE w == Closed(window[l])
  <2>1. /\ window' = [window EXCEPT ![l] = w]
        /\ at' = [event |-> "actionStarted", level |-> l]
        /\ UNCHANGED <<actor, acted>>
        /\ window[l].status = "open"
    BY <1>4 DEF Tick, Publish, flowVars, Complete
  <2>2. w.status = "closed" /\ w.eligible = window[l].eligible
    BY <1>0 DEF Closed, Window
  <2> HIDE DEF w
  <2>3. window'[l] = w /\ \A k \in Levels \ {l} : window'[k] = window[k]
    BY <1>0, <2>1
  <2> QED
    BY <2>1, <2>2, <2>3, CoverQuiet DEF CoverOk
<1>5. ASSUME NEW l \in Levels, AfterActionStarted(l)
      PROVE  CoverOk'
  <2>1. /\ UNCHANGED <<actor, acted, window>>
        /\ at = [event |-> "actionStarted", level |-> l]
        /\ at' = [event |-> "actionEnded", level |-> l]
    BY <1>5 DEF AfterActionStarted, After, Publish, flowVars
  <2> QED
    BY <2>1, CoverQuiet DEF CoverOk, Holding
<1>6. ASSUME NEW l \in Levels, AfterActionEnded(l)
      PROVE  CoverOk'
  <2> DEFINE w == [window[l] EXCEPT !.taken = <<>>]
  <2>1. /\ UNCHANGED <<actor, acted>>
        /\ window' = window \/ window' = [window EXCEPT ![l] = w]
        /\ at = [event |-> "actionEnded", level |-> l]
        /\ at' \in {[event |-> "actionStarted", level |-> l],
                    [event |-> "windowClosed", level |-> l]}
    BY <1>6 DEF AfterActionEnded, After, Publish, flowVars
  <2>2. w.status = window[l].status /\ w.eligible = window[l].eligible
    BY <1>0 DEF Window
  <2> HIDE DEF w
  <2>3. \A k \in Levels : /\ window'[k].status = window[k].status
                          /\ window'[k].eligible = window[k].eligible
    BY <1>0, <2>1, <2>2
  <2> QED
    BY <2>1, <2>3, CoverQuiet DEF CoverOk, Holding
<1>7. ASSUME NEW l \in Levels, AfterPhaseExited(l)
      PROVE  CoverOk'
  <2>1. NoWindows /\ window' = window
    BY <1>0, <1>7 DEF AfterPhaseExited, After, WindowOk, Bare
  <2>2. at'.event \in {"sessionCompleted", "firstEntered", "phaseEntered"}
    BY <1>7 DEF AfterPhaseExited, Publish
  <2>3. at'.event \notin {"turnEnded", "roundEnded"} \cup Holding
    BY <2>2 DEF Holding
  <2>4. CASE actor' = [actor EXCEPT ![l] = 0] /\ acted' = acted
    <3>1. {l} \in SUBSET Levels
      OBVIOUS
    <3>2. \A k \in {l} : actor'[k] = 0
      BY <1>0, <2>4 DEF Types
    <3>3. \A k \in Levels \ {l} : actor'[k] = actor[k] /\ acted'[k] = acted[k]
      BY <1>0, <2>4 DEF Types
    <3> QED
      BY <2>1, <2>3, <3>1, <3>2, <3>3, CoverReset
  <2>5. CASE actor' = [outer |-> 0, inner |-> 0]
    <3>1. \A k \in Levels : actor'[k] = 0
      BY <2>5 DEF Levels
    <3> QED
      BY <2>1, <2>3, <3>1, CoverReset
  <2> QED
    BY <1>7, <2>4, <2>5 DEF AfterPhaseExited
<1>8. CASE Start
  <2>1. NoWindows /\ window' = window
    BY <1>0, <1>8 DEF Start, CreatedOk
  <2>2. at'.event = "firstEntered"
    BY <1>8 DEF Start, Publish
  <2>3. at'.event \notin {"turnEnded", "roundEnded"} \cup Holding
    BY <2>2 DEF Holding
  <2>4. PICK S \in SUBSET Levels : Begin(S)
    <3>1. Levels \in SUBSET Levels /\ {"outer"} \in SUBSET Levels
      BY DEF Levels
    <3> QED
      BY <1>8, <3>1 DEF Start
  <2>5. /\ \A k \in S : actor'[k] = 0
        /\ \A k \in Levels \ S : actor'[k] = actor[k] /\ acted'[k] = acted[k]
    BY <2>4 DEF Begin
  <2> QED
    BY <2>1, <2>3, <2>5, CoverReset
<1>9. CASE \/ \E a \in Actors : Submit(a)
           \/ Pause \/ Resume \/ TickInVain \/ Over \/ UNCHANGED vars
  <2>1. UNCHANGED <<actor, acted, at, window>>
    BY <1>9 DEF Submit, Pause, Resume, TickInVain, Over, vars, flowVars
  <2> QED
    BY <1>0, <2>1, CoverSame
<1>10. CASE Accept
  <2>1. UNCHANGED <<actor, acted, at>>
    BY <1>10, Accepts
  <2>2. \A k \in Levels : /\ window'[k].status = window[k].status
                          /\ window'[k].eligible = window[k].eligible
    <3>1. CASE window' = window
      BY <3>1
    <3>2. ASSUME NEW a \in Actors,
                 window' = [window EXCEPT ![Active] =
                               [window[Active] EXCEPT !.taken = Append(@, a)]]
          PROVE  \A k \in Levels : /\ window'[k].status = window[k].status
                                   /\ window'[k].eligible = window[k].eligible
      <4> DEFINE w == [window[Active] EXCEPT !.taken = Append(@, a)]
      <4>1. window[Active] \in Window
        BY <1>0, ActiveLevel
      <4>2. w.status = window[Active].status /\ w.eligible = window[Active].eligible
        BY <4>1, TakeOne
      <4>3. window' = [window EXCEPT ![Active] = w]
        BY <3>2
      <4> HIDE DEF w
      <4> QED
        BY <1>0, <4>2, <4>3
    <3> QED
      BY <1>10, <3>1, <3>2, Accepts
  <2> QED
    BY <1>0, <2>1, <2>2, CoverSame
<1> QED
  BY <1>1, <1>2, <1>3, <1>4, <1>5, <1>6, <1>7, <1>8, <1>9, <1>10,
     CoverWindowClosed, CoverTurnEnded, CoverRoundEnded DEF Next, RunOn

LEMMA CoverStart == Init => CoverOk
<1> SUFFICES ASSUME Init
             PROVE  CoverOk
  OBVIOUS
<1>1. /\ actor = [l \in Levels |-> 0] /\ window = [l \in Levels |-> NoWindow]
      /\ at = [event |-> "idle", level |-> "outer"]
  BY DEF Init
<1>2. \A l \in Levels : window[l].status = "none"
  BY <1>1 DEF NoWindow
<1>3. \A l \in Levels : Progress(l) = 0
  <2>1. 0 % Len(Order) = 0
    BY SessionAssumption
  <2> QED
    BY <1>1, <2>1 DEF Progress
<1> QED
  BY <1>1, <1>2, <1>3 DEF CoverOk, Holding

------------------------------------------------------------------------------
(* Accepted actions. *)

\* An accepted action that resolve() has still to run; a window holds one of each
\* actor at most, so there is no need to count.
First == IF at.event = "actionEnded" THEN next + 1 ELSE next

Owes(l, a) == \E i \in DOMAIN window[l].taken : window[l].taken[i] = a /\ i >= First

Debt(l, a) == IF Owes(l, a) THEN 1 ELSE 0

\* resolve() runs the submissions of a closed window one by one.
SettleOk ==
    /\ next \in Nat
    /\ unsettled \in [Actors -> Int]
    /\ at.event \in {"actionStarted", "actionEnded"} =>
           /\ next \in DOMAIN window[at.level].taken
           /\ window[at.level].status = "closed"
    /\ at.event \notin {"actionStarted", "actionEnded"} => next = 0
    /\ at.event = "windowClosed" =>
           /\ window[at.level].taken = <<>>
           /\ window[at.level].status = "closed"
    /\ \A a \in Actors : unsettled[a] = Debt("outer", a) + Debt("inner", a)

LEMMA ActorsFinite == IsFiniteSet(Actors) /\ Cardinality(Actors) \in Nat \ {0}
<1> DEFINE f == [i \in 1..Len(Order) |-> Order[i]]
<1>1. f \in Surjection(1..Len(Order), Actors)
  BY SessionAssumption DEF Surjection, Actors
<1>2. IsFiniteSet(1..Len(Order))
  BY FS_Interval, SessionAssumption
<1> HIDE DEF f
<1>3. IsFiniteSet(Actors)
  BY <1>1, <1>2, FS_Surjection
<1>4. Cardinality(Actors) \in Nat /\ Cardinality(Actors) # 0
  BY <1>3, FS_CardinalityType, FS_EmptySet, SomeActor
<1> QED
  BY <1>3, <1>4

\* A window that is complete has something to resolve.
LEMMA CompleteIsSome ==
    ASSUME Control, CoverOk, NEW l \in Levels, Complete(l)
    PROVE  1 \in DOMAIN window[l].taken
<1>1. window[l] \in Window
  BY DEF Control, Types
<1>2. window[l].taken \in Seq(Actors)
  BY <1>1 DEF Window
<1>3. Len(window[l].taken) >= 1
  <2>1. CASE l \in Simultaneous
    <3>1. window[l].eligible = Actors
      BY <2>1 DEF CoverOk, Complete, Eligible
    <3> QED
      BY <1>2, <2>1, <3>1, ActorsFinite DEF Complete
  <2>2. CASE l \notin Simultaneous
    BY <2>2 DEF Complete
  <2> QED
    BY <2>1, <2>2
<1> QED
  BY <1>2, <1>3

\* Nobody is owed anything when nobody has a window.
LEMMA NoWindowsNoDebt ==
    ASSUME NEW l \in Levels, window[l] = NoWindow, NEW a
    PROVE  ~Owes(l, a)
BY DEF Owes, NoWindow

\* A step that leaves the windows' submissions and the resolution where they are.
LEMMA SettleSame ==
    ASSUME SettleOk, UNCHANGED unsettled, at.level \in Levels,
           \A l \in Levels : window'[l].taken = window[l].taken,
           \/ /\ \A l \in Levels : window'[l].status = window[l].status
              /\ UNCHANGED <<next, at>>
           \/ /\ at.event \notin {"actionStarted", "actionEnded"}
              /\ at'.event \notin {"actionStarted", "actionEnded", "windowClosed"}
              /\ next' = next
    PROVE  SettleOk'
<1> USE DEF Levels
<1>1. First' = First
  BY DEF First
<1>2. \A l \in Levels, a \in Actors : Owes(l, a)' = Owes(l, a)
  BY <1>1 DEF Owes
<1>3. \A a \in Actors : /\ Debt("outer", a)' = Debt("outer", a)
                        /\ Debt("inner", a)' = Debt("inner", a)
  BY <1>2 DEF Debt
<1>4. \A a \in Actors : unsettled'[a] = Debt("outer", a)' + Debt("inner", a)'
  BY <1>3 DEF SettleOk
<1>5. CASE /\ \A l \in Levels : window'[l].status = window[l].status
           /\ UNCHANGED <<next, at>>
  BY <1>4, <1>5 DEF SettleOk
<1>6. CASE /\ at.event \notin {"actionStarted", "actionEnded"}
           /\ at'.event \notin {"actionStarted", "actionEnded", "windowClosed"}
           /\ next' = next
  BY <1>4, <1>6 DEF SettleOk
<1> QED
  BY <1>5, <1>6

LEMMA SettleTick ==
    ASSUME Control, CoverOk, SettleOk, NEW l \in Levels, Tick(l)
    PROVE  SettleOk'
<1> DEFINE w == Closed(window[l])
<1>0. window \in [Levels -> Window]
  BY DEF Control, Types
<1>1. /\ window' = [window EXCEPT ![l] = w]
      /\ at' = [event |-> "actionStarted", level |-> l]
      /\ next' = 1 /\ unsettled' = unsettled
      /\ at.event = "idle" /\ Complete(l)
  BY DEF Tick, Publish, Idle
<1>2. w.status = "closed" /\ w.taken = window[l].taken
  BY <1>0 DEF Closed, Window
<1> HIDE DEF w
<1>3. /\ \A k \in Levels : window'[k].taken = window[k].taken
      /\ window'[l].status = "closed"
  BY <1>0, <1>1, <1>2
<1>4. 1 \in DOMAIN window[l].taken
  BY <1>1, CompleteIsSome
<1>5. First = 0 /\ First' = 1
  BY <1>1 DEF First, SettleOk
<1>6. \A k \in Levels : window[k].taken \in Seq(Actors)
  BY <1>0 DEF Window
<1>7. \A k \in Levels, a \in Actors : Owes(k, a)' <=> Owes(k, a)
  BY <1>3, <1>5, <1>6 DEF Owes
<1>8. \A a \in Actors : /\ Debt("outer", a)' = Debt("outer", a)
                        /\ Debt("inner", a)' = Debt("inner", a)
  BY <1>7 DEF Debt, Levels
<1>9. \A a \in Actors : unsettled'[a] = Debt("outer", a)' + Debt("inner", a)'
  BY <1>1, <1>8 DEF SettleOk
<1> QED
  BY <1>1, <1>3, <1>4, <1>9 DEF SettleOk

LEMMA SettleActionStarted ==
    ASSUME Control, OneActionEach, SettleOk, NEW l \in Levels, AfterActionStarted(l)
    PROVE  SettleOk'
<1>0. /\ window \in [Levels -> Window] /\ next \in Nat
      /\ unsettled \in [Actors -> Int]
  BY DEF Control, Types, SettleOk
<1>b. PICK b : b = window[l].taken[next]
  OBVIOUS
<1>1. /\ at = [event |-> "actionStarted", level |-> l]
      /\ at' = [event |-> "actionEnded", level |-> l]
      /\ UNCHANGED <<window, next>>
      /\ unsettled' = [unsettled EXCEPT ![b] = unsettled[b] - 1]
  BY <1>b DEF AfterActionStarted, After, Publish
<1>2. /\ next \in DOMAIN window[l].taken /\ window[l].status = "closed"
      /\ window[l].taken \in Seq(Actors)
  BY <1>0, <1>1 DEF SettleOk, Window
<1>3. b \in Actors
  BY <1>2, <1>b
<1>4. First = next /\ First' = next + 1
  BY <1>1 DEF First
<1>5. Owes(l, b) /\ ~Owes(l, b)'
  <2>1. \A i \in DOMAIN window[l].taken : window[l].taken[i] = b => i = next
    BY <1>2, <1>b DEF OneActionEach
  <2>2. ~Owes(l, b)'
    BY <1>0, <1>1, <1>4, <2>1 DEF Owes
  <2>3. Owes(l, b)
    BY <1>0, <1>2, <1>4, <1>b DEF Owes
  <2> QED
    BY <2>2, <2>3
<1>6. \A a \in Actors \ {b} : Owes(l, a)' <=> Owes(l, a)
  <2>1. \A i \in DOMAIN window[l].taken : i \in Int
    BY <1>2
  <2>2. \A i \in DOMAIN window[l].taken :
           window[l].taken[i] # b => (i >= next <=> i >= next + 1)
    BY <1>0, <1>b, <2>1
  <2> QED
    BY <1>1, <1>4, <2>2 DEF Owes
<1>7. \A k \in Levels \ {l} : \A a : ~Owes(k, a) /\ ~Owes(k, a)'
  <2>1. l = Active
    BY <1>1 DEF Control, ActiveOk, Holding
  <2>2. \A k \in Levels \ {l} : window[k] = NoWindow
    BY <2>1 DEF Control, WindowOk
  <2>3. NoWindow.taken = <<>>
    BY DEF NoWindow
  <2> QED
    BY <1>1, <2>2, <2>3 DEF Owes
<1>8. /\ unsettled'[b] = unsettled[b] - 1
      /\ \A a \in Actors \ {b} : unsettled'[a] = unsettled[a]
      /\ unsettled' \in [Actors -> Int]
  BY <1>0, <1>1, <1>3
<1>9. \A a \in Actors : unsettled'[a] = Debt("outer", a)' + Debt("inner", a)'
  <2>1. \A k \in Levels \ {l}, a \in Actors : Debt(k, a) = 0 /\ Debt(k, a)' = 0
    BY <1>7 DEF Debt
  <2>2. Debt(l, b) = 1 /\ Debt(l, b)' = 0
    BY <1>5 DEF Debt
  <2>3. \A a \in Actors \ {b} : Debt(l, a)' = Debt(l, a)
    BY <1>6 DEF Debt
  <2>4. \A a \in Actors : Debt(l, a) \in Int /\ unsettled[a] \in Int
    BY <1>0 DEF Debt
  <2>5. CASE l = "outer"
    BY <1>3, <1>8, <2>1, <2>2, <2>3, <2>4, <2>5 DEF SettleOk, Levels
  <2>6. CASE l = "inner"
    BY <1>3, <1>8, <2>1, <2>2, <2>3, <2>4, <2>6 DEF SettleOk, Levels
  <2> QED
    BY <2>5, <2>6 DEF Levels
<1> QED
  BY <1>0, <1>1, <1>2, <1>8, <1>9 DEF SettleOk

LEMMA SettleActionEnded ==
    ASSUME Control, SettleOk, NEW l \in Levels, AfterActionEnded(l)
    PROVE  SettleOk'
<1>0. /\ window \in [Levels -> Window] /\ next \in Nat
      /\ unsettled \in [Actors -> Int]
  BY DEF Control, Types, SettleOk
<1>1. /\ at = [event |-> "actionEnded", level |-> l] /\ unsettled' = unsettled
  BY DEF AfterActionEnded, After
<1>2. /\ next \in DOMAIN window[l].taken /\ window[l].status = "closed"
      /\ window[l].taken \in Seq(Actors)
      /\ First = next + 1
  BY <1>0, <1>1 DEF SettleOk, Window, First
<1>3. CASE More(l)
  <2>1. /\ at' = [event |-> "actionStarted", level |-> l]
        /\ next' = next + 1 /\ window' = window
    BY <1>3 DEF AfterActionEnded, Publish
  <2>2. next' \in DOMAIN window[l].taken
    BY <1>0, <1>2, <1>3, <2>1 DEF More
  <2>3. First' = First
    BY <1>2, <2>1 DEF First
  <2>4. \A k \in Levels, a \in Actors : Owes(k, a)' = Owes(k, a)
    BY <2>1, <2>3 DEF Owes
  <2>5. \A a \in Actors : unsettled'[a] = Debt("outer", a)' + Debt("inner", a)'
    BY <1>1, <2>4 DEF Debt, SettleOk, Levels
  <2> QED
    BY <1>0, <1>1, <1>2, <2>1, <2>2, <2>5 DEF SettleOk
<1>4. CASE ~More(l)
  <2> DEFINE w == [window[l] EXCEPT !.taken = <<>>]
  <2>1. /\ at' = [event |-> "windowClosed", level |-> l]
        /\ next' = 0 /\ window' = [window EXCEPT ![l] = w]
    BY <1>4 DEF AfterActionEnded, Publish
  <2>2. w.taken = <<>> /\ w.status = "closed"
    BY <1>0, <1>2 DEF Window
  <2> HIDE DEF w
  <2>3. window'[l] = w /\ \A k \in Levels \ {l} : window'[k] = window[k]
    BY <1>0, <2>1
  <2>4. \A a : ~Owes(l, a) /\ ~Owes(l, a)'
    <3>1. \A i \in DOMAIN window[l].taken : ~(i >= next + 1)
      BY <1>0, <1>2, <1>4 DEF More
    <3>2. \A a : ~Owes(l, a)
      BY <1>2, <3>1 DEF Owes
    <3>3. \A a : ~Owes(l, a)'
      BY <2>2, <2>3 DEF Owes
    <3> QED
      BY <3>2, <3>3
  <2>5. \A k \in Levels \ {l} : \A a : ~Owes(k, a) /\ ~Owes(k, a)'
    <3>1. l = Active
      BY <1>1 DEF Control, ActiveOk, Holding
    <3>2. \A k \in Levels \ {l} : window[k] = NoWindow
      BY <3>1 DEF Control, WindowOk
    <3>3. NoWindow.taken = <<>>
      BY DEF NoWindow
    <3> QED
      BY <2>3, <3>2, <3>3 DEF Owes
  <2>6. \A a \in Actors : unsettled'[a] = Debt("outer", a)' + Debt("inner", a)'
    BY <1>1, <2>4, <2>5 DEF Debt, SettleOk, Levels
  <2> QED
    BY <1>0, <1>1, <2>1, <2>2, <2>3, <2>6 DEF SettleOk
<1> QED
  BY <1>3, <1>4

LEMMA SettleAccept ==
    ASSUME Control, SettleOk, Accept
    PROVE  SettleOk'
<1>0. /\ window \in [Levels -> Window] /\ Active \in Levels /\ at.level \in Levels
      /\ unsettled \in [Actors -> Int]
  BY ActiveLevel DEF Control, Types, SettleOk
<1>1. UNCHANGED <<at, next>>
  BY Accepts
<1>2. CASE window' = window /\ unsettled' = unsettled
  BY <1>0, <1>1, <1>2, SettleSame
<1>3. ASSUME NEW b \in Actors, CanSubmit(Active, b),
             unsettled' = [unsettled EXCEPT ![b] = @ + 1],
             window' = [window EXCEPT ![Active] =
                           [window[Active] EXCEPT !.taken = Append(@, b)]]
      PROVE  SettleOk'
  <2>0. PICK l \in Levels : l = Active
    BY <1>0
  <2>t. PICK t : t = window[l].taken
    OBVIOUS
  <2> DEFINE w == [window[l] EXCEPT !.taken = Append(t, b)]
  <2>1. window[l].status = "open" /\ l \in Levels /\ t \in Seq(Actors)
    BY <1>0, <1>3, <2>0, <2>t DEF CanSubmit, Window
  <2>2. w.status = "open" /\ w.taken = Append(t, b)
    BY <1>0, <2>0, <2>1, <2>t, TakeOne
  <2>3. \A i \in DOMAIN t : t[i] # b
    BY <1>3, <2>0, <2>t DEF CanSubmit, HasTaken
  <2>4. window' = [window EXCEPT ![l] = w]
    BY <1>3, <2>0, <2>t
  <2>5. at.event \notin {"actionStarted", "actionEnded", "windowClosed"}
    <3>1. at.event \in Holding => at.level = l
      BY <2>0 DEF Control, ActiveOk
    <3> QED
      BY <2>1, <3>1 DEF SettleOk, Holding
  <2>6. First = 0 /\ First' = 0 /\ next = 0
    BY <1>1, <2>5 DEF First, SettleOk
  <2>7. \A k \in Levels \ {l} : window[k] = NoWindow
    BY <2>0 DEF Control, WindowOk
  <2>w. PICK x : x = w
    OBVIOUS
  <2> HIDE DEF w
  <2>8. window'[l] = w /\ \A k \in Levels \ {l} : window'[k] = window[k]
    BY <1>0, <2>1, <2>4
  <2>9. ~Owes(l, b) /\ Owes(l, b)'
    <3>1. ~Owes(l, b)
      BY <2>3, <2>t DEF Owes
    <3>2. Len(t) + 1 \in DOMAIN x.taken /\ x.taken[Len(t) + 1] = b /\ Len(t) + 1 >= 0
      BY <2>1, <2>2, <2>w
    <3>3. Owes(l, b)'
      BY <2>6, <2>8, <2>w, <3>2 DEF Owes
    <3> QED
      BY <3>1, <3>3
  <2>10. \A a \in Actors \ {b} : Owes(l, a)' <=> Owes(l, a)
    <3>1. ASSUME NEW a \in Actors \ {b}
          PROVE  (\E i \in DOMAIN x.taken : x.taken[i] = a /\ i >= 0)
                 <=> (\E i \in DOMAIN t : t[i] = a /\ i >= 0)
      <4>1. DOMAIN x.taken = (DOMAIN t) \cup {Len(t) + 1}
        BY <2>1, <2>2, <2>w
      <4>2. /\ x.taken[Len(t) + 1] = b
            /\ \A i \in DOMAIN t : x.taken[i] = t[i]
        BY <2>1, <2>2, <2>w
      <4> QED
        BY <4>1, <4>2
    <3> QED
      BY <2>6, <2>8, <2>t, <2>w, <3>1 DEF Owes
  <2>11. \A k \in Levels \ {l} : \A a : ~Owes(k, a) /\ ~Owes(k, a)'
    <3>1. NoWindow.taken = <<>>
      BY DEF NoWindow
    <3> QED
      BY <2>7, <2>8, <3>1 DEF Owes
  <2>12. /\ unsettled'[b] = unsettled[b] + 1
         /\ \A a \in Actors \ {b} : unsettled'[a] = unsettled[a]
         /\ unsettled' \in [Actors -> Int]
    BY <1>0, <1>3
  <2>13. \A a \in Actors : unsettled'[a] = Debt("outer", a)' + Debt("inner", a)'
    <3>1. \A k \in Levels \ {l}, a \in Actors : Debt(k, a) = 0 /\ Debt(k, a)' = 0
      BY <2>11 DEF Debt
    <3>2. Debt(l, b) = 0 /\ Debt(l, b)' = 1
      BY <2>9 DEF Debt
    <3>3. \A a \in Actors \ {b} : Debt(l, a)' = Debt(l, a)
      BY <2>10 DEF Debt
    <3>4. \A a \in Actors : Debt(l, a) \in Int /\ unsettled[a] \in Int
      BY <1>0 DEF Debt
    <3>5. CASE l = "outer"
      <4>1. "inner" \in Levels \ {l} /\ "outer" \in Levels
        BY <3>5 DEF Levels
      <4>2. \A a \in Actors : unsettled[a] = Debt("outer", a) + Debt("inner", a)
        BY <1>0 DEF SettleOk
      <4>3. unsettled'[b] = Debt("outer", b)' + Debt("inner", b)'
        BY <1>3, <2>12, <3>1, <3>2, <3>5, <4>1, <4>2
      <4>4. ASSUME NEW a \in Actors \ {b}
            PROVE  unsettled'[a] = Debt("outer", a)' + Debt("inner", a)'
        BY <2>12, <3>1, <3>3, <3>5, <4>1, <4>2
      <4> QED
        BY <4>3, <4>4
    <3>6. CASE l = "inner"
      <4>1. "outer" \in Levels \ {l} /\ "inner" \in Levels
        BY <3>6 DEF Levels
      <4>2. \A a \in Actors : unsettled[a] = Debt("outer", a) + Debt("inner", a)
        BY <1>0 DEF SettleOk
      <4>3. unsettled'[b] = Debt("outer", b)' + Debt("inner", b)'
        BY <1>3, <2>12, <3>1, <3>2, <3>6, <4>1, <4>2
      <4>4. ASSUME NEW a \in Actors \ {b}
            PROVE  unsettled'[a] = Debt("outer", a)' + Debt("inner", a)'
        BY <2>12, <3>1, <3>3, <3>6, <4>1, <4>2
      <4> QED
        BY <4>3, <4>4
    <3> QED
      BY <3>5, <3>6 DEF Levels
  <2> QED
    BY <1>1, <2>5, <2>6, <2>12, <2>13 DEF SettleOk
<1> QED
  BY <1>2, <1>3, Accepts

LEMMA SettleStep ==
    Control /\ OneActionEach /\ CoverOk /\ SettleOk /\ [Next]_vars => SettleOk'
<1> SUFFICES ASSUME Control, OneActionEach, CoverOk, SettleOk, [Next]_vars
             PROVE  SettleOk'
  OBVIOUS
<1>0. /\ window \in [Levels -> Window] /\ at.level \in Levels
      /\ WindowOk /\ FrameOk /\ Types
  BY DEF Control, Types
<1>1. ASSUME NEW l \in Levels,
             \/ AfterFirstEntered(l) \/ AfterFirstRound(l) \/ AfterRoundStarted(l)
             \/ AfterTurnEnded(l) \/ AfterPhaseExited(l)
      PROVE  SettleOk'
  <2>1. UNCHANGED <<window, next, unsettled>>
    BY <1>1 DEF AfterFirstEntered, AfterFirstRound, AfterRoundStarted,
       AfterTurnEnded,
                AfterPhaseExited
  <2>2. at.event \in {"firstEntered", "firstRound", "roundStarted", "turnEnded",
                     "phaseExited"}
    <3>1. \/ After("firstEntered", l) \/ After("firstRound", l) \/ After("roundStarted", l)
          \/ After("turnEnded", l) \/ After("phaseExited", l)
      BY <1>1 DEF AfterFirstEntered, AfterFirstRound, AfterRoundStarted,
         AfterTurnEnded,
                  AfterPhaseExited
    <3> QED
      BY <3>1 DEF After
  <2>3. at'.event \in {"firstRound", "sessionStarted", "phaseExited", "turnStarted",
                      "roundEnded", "sessionCompleted", "firstEntered", "phaseEntered"}
    <3>1. CASE AfterFirstEntered(l) \/ AfterFirstRound(l)
      BY <3>1 DEF AfterFirstEntered, AfterFirstRound, Publish
    <3>2. CASE AfterRoundStarted(l) \/ AfterTurnEnded(l)
      BY <3>2 DEF AfterRoundStarted, AfterTurnEnded, PhaseCheck, OpenTurn, Publish
    <3>3. CASE AfterPhaseExited(l)
      BY <3>3 DEF AfterPhaseExited, Publish
    <3> QED
      BY <1>1, <3>1, <3>2, <3>3
  <2> QED
    BY <1>0, <2>1, <2>2, <2>3, SettleSame
<1>2. ASSUME NEW l \in Levels,
             \/ AfterSessionStarted(l) \/ AfterPhaseEntered(l) \/ AfterWindowOpened(l)
             \/ AfterSessionCompleted(l)
      PROVE  SettleOk'
  <2>1. UNCHANGED <<window, next, unsettled>>
    BY <1>2 DEF AfterSessionStarted, AfterPhaseEntered, AfterWindowOpened,
                AfterSessionCompleted
  <2>2. at'.event \in {"turnStarted", "idle", "firstEntered", "phaseEntered", "phaseExited"}
    BY <1>0, <1>2, GoesOnWhere
  <2>3. \/ After("sessionStarted", l) \/ After("phaseEntered", l)
        \/ After("windowOpened", l) \/ After("sessionCompleted", l)
    BY <1>2 DEF AfterSessionStarted, AfterPhaseEntered, AfterWindowOpened,
                AfterSessionCompleted
  <2>4. at.event \notin {"actionStarted", "actionEnded"}
    BY <2>3 DEF After
  <2> QED
    BY <1>0, <2>1, <2>2, <2>4, SettleSame
<1>3. ASSUME NEW l \in Levels, AfterRoundEnded(l)
      PROVE  SettleOk'
  <2>1. /\ UNCHANGED <<window, next, unsettled>>
        /\ at = [event |-> "roundEnded", level |-> l]
    BY <1>3 DEF AfterRoundEnded, After
  <2>2. Return(l, TRUE) \/ at' = [event |-> "roundStarted", level |-> l]
    BY <1>3 DEF AfterRoundEnded, Publish
  <2>3. Return(l, TRUE) =>
           at'.event \in {"idle", "firstEntered", "phaseEntered", "phaseExited"}
    BY <1>0, <2>1, ReturnsWhere
  <2>4. at'.event \in {"idle", "firstEntered", "phaseEntered", "phaseExited", "roundStarted"}
    <3>1. CASE Return(l, TRUE)
      BY <2>3, <3>1
    <3>2. CASE at' = [event |-> "roundStarted", level |-> l]
      BY <3>2
    <3> QED
      BY <2>2, <3>1, <3>2
  <2> QED
    BY <1>0, <2>1, <2>4, SettleSame
<1>4. ASSUME NEW l \in Levels, AfterTurnStarted(l)
      PROVE  SettleOk'
  <2> DEFINE w == [status |-> "open", eligible |-> Eligible(l), taken |-> <<>>]
  <2>1. /\ window' = [window EXCEPT ![l] = w]
        /\ at = [event |-> "turnStarted", level |-> l]
        /\ at' = [event |-> "windowOpened", level |-> l]
        /\ UNCHANGED <<next, unsettled>>
    BY <1>4 DEF AfterTurnStarted, After, Publish
  <2>2. w.taken = <<>> /\ NoWindow.taken = <<>> /\ window[l] = NoWindow
    BY <1>0, <2>1 DEF NoWindow, WindowOk, Bare, NoWindows, Levels
  <2> HIDE DEF w
  <2>3. \A k \in Levels : window'[k].taken = window[k].taken
    BY <1>0, <2>1, <2>2
  <2> QED
    BY <1>0, <2>1, <2>3, SettleSame
<1>5. ASSUME NEW l \in Levels, AfterWindowClosed(l)
      PROVE  SettleOk'
  <2>1. /\ window' = [window EXCEPT ![l] = NoWindow]
        /\ at = [event |-> "windowClosed", level |-> l]
        /\ at' = [event |-> "turnEnded", level |-> l]
        /\ UNCHANGED <<next, unsettled>>
    BY <1>5 DEF AfterWindowClosed, After, Publish
  <2>2. window[l].taken = <<>> /\ NoWindow.taken = <<>>
    BY <2>1 DEF NoWindow, SettleOk
  <2>3. \A k \in Levels : window'[k].taken = window[k].taken
    BY <1>0, <2>1, <2>2
  <2> QED
    BY <1>0, <2>1, <2>3, SettleSame
<1>6. CASE Start
  <2>1. /\ UNCHANGED <<window, next, unsettled>>
        /\ at.event = "idle" /\ at'.event = "firstEntered"
    BY <1>6 DEF Start, Idle, Publish
  <2> QED
    BY <1>0, <2>1, SettleSame
<1>7. CASE \/ \E a \in Actors : Submit(a)
           \/ Pause \/ Resume \/ TickInVain \/ Over \/ UNCHANGED vars
  <2>1. UNCHANGED <<at, window, next, unsettled>>
    BY <1>7 DEF Submit, Pause, Resume, TickInVain, Over, vars
  <2> QED
    BY <1>0, <2>1, SettleSame
<1> QED
  BY <1>1, <1>2, <1>3, <1>4, <1>5, <1>6, <1>7, SettleTick, SettleActionStarted,
     SettleActionEnded, SettleAccept DEF Next, RunOn

LEMMA SettleStart == Init => SettleOk
<1> SUFFICES ASSUME Init
             PROVE  SettleOk
  OBVIOUS
<1>1. /\ window = [l \in Levels |-> NoWindow] /\ next = 0
      /\ unsettled = [a \in Actors |-> 0] /\ at.event = "idle"
  BY DEF Init
<1>2. \A a : ~Owes("outer", a) /\ ~Owes("inner", a)
  BY <1>1, NoWindowsNoDebt DEF Levels
<1> QED
  BY <1>1, <1>2 DEF SettleOk, Debt

\* Counting the held actions of an actor, of which there is one at most.
LEMMA HeldIsDebt ==
    ASSUME OneActionEach, SettleOk, NEW l \in Levels, NEW a \in Actors
    PROVE  Cardinality(Held(l, a)) = Debt(l, a)
<1>1. Held(l, a) = {i \in DOMAIN window[l].taken : window[l].taken[i] = a /\ i >= First}
  BY DEF Held, First
<1>2. CASE Owes(l, a)
  <2>1. PICK i \in DOMAIN window[l].taken : window[l].taken[i] = a /\ i >= First
    BY <1>2 DEF Owes
  <2>2. Held(l, a) = {i}
    BY <1>1, <2>1 DEF OneActionEach
  <2> QED
    BY <1>2, <2>2, FS_Singleton DEF Debt
<1>3. CASE ~Owes(l, a)
  <2>1. Held(l, a) = {}
    BY <1>1, <1>3 DEF Owes
  <2> QED
    BY <1>3, <2>1, FS_EmptySet DEF Debt
<1> QED
  BY <1>2, <1>3

------------------------------------------------------------------------------
(* The theorems. *)

IInv == Control /\ OneActionEach /\ RoundsWithinLimit /\ CoverOk /\ SettleOk

\* The inductive invariant: where the thread is decides who has a window, and how
\* far the round has come.
THEOREM Invariance == Spec => []IInv
<1>1. Init => IInv
  <2>1. Init => OneActionEach
    BY DEF Init, OneActionEach, NoWindow
  <2>2. Init => RoundsWithinLimit
    BY SessionAssumption DEF Init, RoundsWithinLimit
  <2> QED
    BY <2>1, <2>2, ControlStart, CoverStart, SettleStart DEF IInv
<1>2. IInv /\ [Next]_vars => IInv'
  BY ControlStep, DistinctStep, RoundsStep, CoverStep, SettleStep DEF IInv
<1> QED
  BY <1>1, <1>2, PTL DEF Spec

\* The outer controller and the one of a FlowPhase never both have a window.
THEOREM AlwaysOneWindow == Spec => []OneWindow
<1>1. IInv => OneWindow
  BY DEF IInv, Control, WindowOk, OneWindow, Levels
<1> QED
  BY <1>1, Invariance, PTL

\* Whenever start() or tick() has returned somebody can act, or the session is over
\* because its controller is.
THEOREM AlwaysAnswerable == Spec => []NeverStranded
<1>1. IInv => NeverStranded
  <2> SUFFICES ASSUME IInv, Idle, state # "CREATED"
               PROVE  /\ finished["outer"] <=> state = "COMPLETED"
                      /\ ~finished["outer"] =>
                            /\ window[Active].status = "open"
                            /\ \E a \in Actors : CanAct(a) \/ HasTaken(Active, a)
    BY DEF NeverStranded
  <2>1. Control
    BY DEF IInv
  <2>2. finished["outer"] <=> state = "COMPLETED"
    BY <2>1 DEF Control, EndOk, Idle
  <2>3. ASSUME ~finished["outer"]
        PROVE  /\ window[Active].status = "open"
               /\ \E a \in Actors : CanAct(a) \/ HasTaken(Active, a)
    <3>1. state \in {"RUNNING", "PAUSED"}
      BY <2>1, <2>2, <2>3 DEF Control, Types
    <3>2. window[Active].status = "open" /\ (Active = "inner" => entered)
      BY <2>1, <3>1 DEF Control, RestOk
    <3>3. window[Active].eligible # {} /\ window[Active].eligible \subseteq Actors
      BY <2>1, <3>2, ActiveLevel DEF Control, WindowOk, Types, Window
    <3>4. PICK a \in Actors : a \in window[Active].eligible
      BY <3>3
    <3>5. CanAct(a) \/ HasTaken(Active, a)
      BY <3>2, <3>4 DEF CanAct, CanSubmit
    <3> QED
      BY <3>2, <3>5
  <2> QED
    BY <2>2, <2>3
<1> QED
  BY <1>1, Invariance, PTL

\* However handlers submit inside each other's events, a window takes one action of
\* each actor.
THEOREM AlwaysOneActionEach == Spec => []OneActionEach
<1>1. IInv => OneActionEach
  BY DEF IInv
<1> QED
  BY <1>1, Invariance, PTL

\* Nobody is passed over in a round, whatever phases end in the middle of it.
THEOREM RoundsAreWhole == Spec => []RoundCoversAll
<1>1. IInv => RoundCoversAll
  BY DEF IInv, CoverOk, RoundCoversAll
<1> QED
  BY <1>1, Invariance, PTL

\* No controller, nested or not, goes beyond its rounds.
THEOREM RoundsAreBounded == Spec => []RoundsWithinLimit
<1>1. IInv => RoundsWithinLimit
  BY DEF IInv
<1> QED
  BY <1>1, Invariance, PTL

\* Whatever handlers submit meanwhile, every accepted action is run once.
THEOREM EveryActionRunsOnce == Spec => []AcceptedRunsOnce
<1>1. IInv => AcceptedRunsOnce
  <2> SUFFICES ASSUME IInv, NEW a \in Actors
               PROVE  unsettled[a] = Cardinality(Held("outer", a))
                                     + Cardinality(Held("inner", a))
    BY DEF AcceptedRunsOnce
  <2>1. OneActionEach /\ SettleOk /\ "outer" \in Levels /\ "inner" \in Levels
    BY DEF IInv, Levels
  <2>2. /\ Cardinality(Held("outer", a)) = Debt("outer", a)
        /\ Cardinality(Held("inner", a)) = Debt("inner", a)
    BY <2>1, HeldIsDebt
  <2> QED
    BY <2>1, <2>2 DEF SettleOk
<1> QED
  BY <1>1, Invariance, PTL
==============================================================================
