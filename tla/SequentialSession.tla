-------------------------- MODULE SequentialSession --------------------------
(***************************************************************************)
(* gmFlow::GameSession driven by a SequentialFlowController whose phases   *)
(* may be FlowPhases, each with a SequentialFlowController of its own.     *)
(*                                                                         *)
(* One thread runs the session, but every event is published to handlers   *)
(* that run inside publish() and may call the session again.  A step of    *)
(* this model is the code from one publish() to the next; `at` names the   *)
(* event being published, and while its handlers run they may submit an    *)
(* action, pause or resume.  The inner controller of the FlowPhase that is *)
(* current is the level "inner"; a FlowPhase's controller is fresh when it *)
(* is entered.  When a phase ends, and whether an action validates, is up  *)
(* to the game.                                                            *)
(***************************************************************************)
EXTENDS Integers, Sequences, SequencesExt, FiniteSets

CONSTANTS
    Order,          \* the actors, as ActorRegistry::all_ids() lists them
    Phases,         \* the outer phases: "plain", or "flow" for a FlowPhase
    SubPhases,      \* number of phases in a FlowPhase
    Simultaneous,   \* the levels with TurnPolicy::allow_simultaneous_turns
    MustPass,       \* TurnPolicy::require_all_actors_to_pass
    Multiple,       \* TurnPolicy::allow_multiple_actions_per_turn
    Rounds,         \* RoundPolicy::enabled
    MaxRounds,      \* RoundPolicy::max_rounds of each level; none if not > 0
    MaxTurns,       \* bound: turns in one phase
    MaxPauses,      \* bound: calls of pause()
    MaxNested       \* bound: submissions under way at once

Levels == {"outer", "inner"}
Actors == {Order[i] : i \in DOMAIN Order}

ASSUME SessionAssumption ==
    /\ Len(Order) \in Nat \ {0} /\ DOMAIN Order = 1..Len(Order)
    /\ \A i, j \in DOMAIN Order : Order[i] = Order[j] => i = j
    /\ Len(Phases) \in Nat \ {0} /\ DOMAIN Phases = 1..Len(Phases)
    /\ \A i \in DOMAIN Phases : Phases[i] \in {"plain", "flow"}
    /\ SubPhases \in Nat \ {0}
    /\ Simultaneous \subseteq Levels
    /\ {MustPass, Multiple, Rounds} \subseteq BOOLEAN
    /\ MaxRounds \in [Levels -> Int]
    /\ MaxTurns \in Nat \ {0}
    /\ MaxPauses \in Nat
    /\ MaxNested \in Nat

VARIABLES
    state,          \* GameSession::_session_state
    phase,          \* _current_phase_index, from 1
    actor,          \* _current_actor_index
    round,          \* _round_index
    finished,       \* _session_complete || _rounds_exhausted
    window,         \* _current_window
    turnId,         \* the context's current turn: round and turn number
    entered,        \* FlowPhase::_entered of the current phase
    frame,          \* what called the inner controller
    at,             \* the event being published and its level, or "idle"
    next,           \* position of resolve() in the submissions
    offers,         \* submit_action() calls inside their ActionSubmitted event
    pauses,         \* number of pauses
    unsettled,      \* history: actions accepted and not yet executed
    acted           \* history: actors whose turn ended since the round began

flowVars == <<phase, actor, round, finished, turnId, acted>>
nestVars == <<entered, frame>>
callVars == <<state, offers, pauses>>
vars == <<flowVars, nestVars, callVars, window, at, next, unsettled>>

------------------------------------------------------------------------------
(* Windows. *)

NoWindow == [status |-> "none", eligible |-> {}, taken |-> <<>>]

HasTaken(l, a) == \E i \in DOMAIN window[l].taken : window[l].taken[i] = a

\* ActionWindow::can_submit(): one submission per actor.
CanSubmit(l, a) ==
    /\ window[l].status = "open"
    /\ a \in window[l].eligible
    /\ ~HasTaken(l, a)

\* The policies of open_next_turn() under which is_complete() never holds:
\* MANUAL_CLOSE, which no controller closes, and UNTIL_ALL_PASSED, since no
\* call of the session or the controller reaches ActionWindow::pass().
NeverComplete(l) == IF l \in Simultaneous THEN MustPass ELSE Multiple

\* Mutant of Complete: one submission too many is waited for.
CompleteLate(l) ==
    /\ window[l].status = "open"
    /\ ~NeverComplete(l)
    /\ Len(window[l].taken) > IF l \in Simultaneous THEN Cardinality(window[l].eligible)
                              ELSE 1

\* ActionWindow::is_complete() under ALL_SUBMITTED or ANY_SUBMITTED.
Complete(l) ==
    /\ window[l].status = "open"
    /\ ~NeverComplete(l)
    /\ Len(window[l].taken) >= IF l \in Simultaneous THEN Cardinality(window[l].eligible)
                               ELSE 1

Eligible(l) ==
    IF l \in Simultaneous THEN Actors ELSE {Order[(actor[l] % Len(Order)) + 1]}

------------------------------------------------------------------------------
(* Where the thread is. *)

LastPhase(l) == IF l = "outer" THEN Len(Phases) ELSE SubPhases

\* dynamic_cast<FlowPhase*>(_phases[p])
IsFlow(l, p) == l = "outer" /\ p <= Len(Phases) /\ Phases[p] = "flow"

\* The controller that the outer one delegates to, or the outer one.
Active == IF IsFlow("outer", phase["outer"]) THEN "inner" ELSE "outer"

Idle == at.event = "idle"
After(event, l) == at = [event |-> event, level |-> l] /\ offers = <<>>
Publish(event, l) == at' = [event |-> event, level |-> l]

\* Mutants of Return: the end of an inner controller goes unnoticed; the
\* session forgets to look whether its controller has ended.
ReturnDeaf(l, over) ==
    IF l = "outer"
    THEN /\ Publish("idle", "outer")
         /\ state' = IF over THEN "COMPLETED" ELSE state
         /\ UNCHANGED <<nestVars, offers, pauses>>
    ELSE /\ CASE frame = "start" -> Publish("firstEntered", "outer")
              [] frame = "enter" -> Publish("phaseEntered", "outer")
              [] frame = "tick"  -> Publish("idle", "outer")
         /\ entered' = TRUE
         /\ frame' = "none"
         /\ UNCHANGED callVars

\* A controller's start() or process() returns.  The outer one returns to
\* GameSession, which checks is_session_complete(); the inner one to
\* FlowPhase::on_enter(), which only now sets _entered, or to tick(), after
\* which process() asks the FlowPhase whether it is complete.
Return(l, over) ==
    IF l = "outer"
    THEN /\ Publish("idle", "outer")
         /\ state' = IF over THEN "COMPLETED" ELSE state
         /\ UNCHANGED <<nestVars, offers, pauses>>
    ELSE /\ CASE frame = "start" -> Publish("firstEntered", "outer")
              [] frame = "enter" -> Publish("phaseEntered", "outer")
              [] frame = "tick"  -> IF over THEN Publish("phaseExited", "outer")
                                    ELSE Publish("idle", "outer")
         /\ entered' = TRUE
         /\ frame' = "none"
         /\ UNCHANGED callVars

------------------------------------------------------------------------------
Init ==
    /\ state = "CREATED"
    /\ phase = [l \in Levels |-> 1]
    /\ actor = [l \in Levels |-> 0]
    /\ round = [l \in Levels |-> 0]
    /\ finished = [l \in Levels |-> FALSE]
    /\ window = [l \in Levels |-> NoWindow]
    /\ turnId = [l \in Levels |-> <<0, 0>>]
    /\ entered = FALSE
    /\ frame = "none"
    /\ at = [event |-> "idle", level |-> "outer"]
    /\ next = 0
    /\ offers = <<>>
    /\ pauses = 0
    /\ unsettled = [a \in Actors |-> 0]
    /\ acted = [l \in Levels |-> {}]

\* SequentialFlowController::start() up to its first event, at the level l and,
\* if its first phase is a FlowPhase, at the inner level too.
Begin(ls) ==
    /\ phase' = [l \in Levels |-> IF l \in ls THEN 1 ELSE phase[l]]
    /\ actor' = [l \in Levels |-> IF l \in ls THEN 0 ELSE actor[l]]
    /\ round' = [l \in Levels |-> IF l \in ls THEN 1 ELSE round[l]]
    /\ finished' = [l \in Levels |-> IF l \in ls THEN FALSE ELSE finished[l]]
    /\ acted' = [l \in Levels |-> IF l \in ls THEN {} ELSE acted[l]]
    /\ UNCHANGED turnId

\* GameSession::start().
Start ==
    /\ Idle
    /\ state = "CREATED"
    /\ state' = "RUNNING"
    /\ IF IsFlow("outer", 1)
       THEN Begin(Levels) /\ Publish("firstEntered", "inner") /\ frame' = "start"
       ELSE Begin({"outer"}) /\ Publish("firstEntered", "outer") /\ UNCHANGED frame
    /\ UNCHANGED <<entered, offers, pauses, window, next, unsettled>>

AfterFirstEntered(l) ==
    /\ After("firstEntered", l)
    /\ Publish(IF Rounds THEN "firstRound" ELSE "sessionStarted", l)
    /\ UNCHANGED <<flowVars, nestVars, callVars, window, next, unsettled>>

AfterFirstRound(l) ==
    /\ After("firstRound", l)
    /\ Publish("sessionStarted", l)
    /\ UNCHANGED <<flowVars, nestVars, callVars, window, next, unsettled>>

\* open_next_turn() names turn i of round r and announces it ...
OpenTurn(l, r, i) ==
    /\ turnId' = [turnId EXCEPT ![l] = <<r, i + 1>>]
    /\ Publish("turnStarted", l)
    /\ UNCHANGED <<nestVars, callVars>>

\* ... and only then creates the window.
AfterTurnStarted(l) ==
    /\ After("turnStarted", l)
    /\ window' = [window EXCEPT ![l] =
                    [status |-> "open", eligible |-> Eligible(l), taken |-> <<>>]]
    /\ Publish("windowOpened", l)
    /\ UNCHANGED <<flowVars, nestVars, callVars, next, unsettled>>

\* Mutant of OpensTurn: an outer turn competes with the FlowPhase's own.
OpensAnyway(l) == TRUE

\* A FlowPhase drives its own turns.
OpensTurn(l) == ~IsFlow(l, phase[l])

\* The end of start() and of advance_phase().
AfterSessionStarted(l) ==
    /\ After("sessionStarted", l)
    /\ IF OpensTurn(l) THEN OpenTurn(l, round[l], actor[l])
       ELSE Return(l, FALSE) /\ UNCHANGED turnId
    /\ UNCHANGED <<phase, actor, round, finished, acted, window, next, unsettled>>

AfterPhaseEntered(l) ==
    /\ After("phaseEntered", l)
    /\ IF OpensTurn(l) THEN OpenTurn(l, round[l], actor[l])
       ELSE Return(l, FALSE) /\ UNCHANGED turnId
    /\ UNCHANGED <<phase, actor, round, finished, acted, window, next, unsettled>>

AfterWindowOpened(l) ==
    /\ After("windowOpened", l)
    /\ Return(l, FALSE)
    /\ UNCHANGED <<flowVars, window, next, unsettled>>

------------------------------------------------------------------------------
(* GameSession::tick(). *)

\* process() returns at once while the window is not complete.
TickInVain ==
    /\ Idle /\ offers = <<>>
    /\ state = "RUNNING"
    /\ ~Complete(Active)
    /\ UNCHANGED vars

\* Mutant of Closed: resolve() leaves the window open.
LeftOpen(w) == w

\* resolve() closes the window before it runs anything.
Closed(w) == [w EXCEPT !.status = "closed"]

\* tick() reaches the active controller's window and begins to resolve it.
Tick(l) ==
    /\ Idle /\ offers = <<>>
    /\ state = "RUNNING"
    /\ l = Active
    /\ Complete(l)
    /\ window' = [window EXCEPT ![l] = Closed(window[l])]
    /\ next' = 1
    /\ Publish("actionStarted", l)
    /\ frame' = IF l = "inner" THEN "tick" ELSE "none"
    /\ UNCHANGED <<flowVars, entered, callVars, unsettled>>

\* The action is validated again and, if still valid, executed; either way one
\* event says how it ended.
AfterActionStarted(l) ==
    /\ After("actionStarted", l)
    /\ unsettled' = [unsettled EXCEPT ![window[l].taken[next]] = @ - 1]
    /\ Publish("actionEnded", l)
    /\ UNCHANGED <<flowVars, nestVars, callVars, window, next>>

More(l) == next < Len(window[l].taken)

AfterActionEnded(l) ==
    /\ After("actionEnded", l)
    /\ IF More(l)
       THEN next' = next + 1 /\ Publish("actionStarted", l) /\ UNCHANGED window
       ELSE /\ window' = [window EXCEPT ![l].taken = <<>>]
            /\ next' = 0
            /\ Publish("windowClosed", l)
    /\ UNCHANGED <<flowVars, nestVars, callVars, unsettled>>

AfterWindowClosed(l) ==
    /\ After("windowClosed", l)
    /\ window' = [window EXCEPT ![l] = NoWindow]
    /\ acted' = [acted EXCEPT ![l] = @ \cup window[l].eligible]
    /\ Publish("turnEnded", l)
    /\ UNCHANGED <<phase, actor, round, finished, turnId, nestVars, callVars,
                   next, unsettled>>

\* _phases[...]->is_complete(): the game decides, and says yes in the end.
PhaseCheck(l, r, i) ==
    \/ Publish("phaseExited", l) /\ UNCHANGED <<turnId, nestVars, callVars>>
    \/ i < MaxTurns /\ OpenTurn(l, r, i)

\* Mutant of RoundOver: the last actor is left out.
RoundOverEarly(i) == (i + 1) % Len(Order) = 0

RoundOver(i) == i % Len(Order) = 0

AfterTurnEnded(l) ==
    /\ After("turnEnded", l)
    /\ actor' = [actor EXCEPT ![l] = @ + 1]
    /\ IF RoundOver(actor[l] + 1) /\ Rounds
       THEN Publish("roundEnded", l) /\ UNCHANGED <<turnId, nestVars, callVars>>
       ELSE PhaseCheck(l, round[l], actor[l] + 1)
    /\ UNCHANGED <<phase, round, finished, acted, window, next, unsettled>>

\* Mutant of LastRound: one round too many.
LastRoundLate(l) == MaxRounds[l] > 0 /\ round[l] > MaxRounds[l]

LastRound(l) == MaxRounds[l] > 0 /\ round[l] >= MaxRounds[l]

\* With the rounds exhausted process() returns and publishes nothing more.
AfterRoundEnded(l) ==
    /\ After("roundEnded", l)
    /\ IF LastRound(l)
       THEN /\ finished' = [finished EXCEPT ![l] = TRUE]
            /\ Return(l, TRUE)
            /\ UNCHANGED <<round, acted>>
       ELSE /\ round' = [round EXCEPT ![l] = @ + 1]
            /\ acted' = [acted EXCEPT ![l] = {}]
            /\ Publish("roundStarted", l)
            /\ UNCHANGED <<finished, nestVars, callVars>>
    /\ UNCHANGED <<phase, actor, turnId, window, next, unsettled>>

AfterRoundStarted(l) ==
    /\ After("roundStarted", l)
    /\ PhaseCheck(l, round[l], actor[l])
    /\ UNCHANGED <<phase, actor, round, finished, acted, window, next, unsettled>>

\* advance_phase() after PhaseExited: on_exit(), then the next phase, if any.
\* A FlowPhase starts its own controller inside on_enter().
AfterPhaseExited(l) ==
    LET p == phase[l] + 1
    IN  /\ After("phaseExited", l)
        /\ entered' = IF l = "outer" THEN FALSE ELSE entered
        /\ CASE p > LastPhase(l) ->
                    /\ phase' = [phase EXCEPT ![l] = p]
                    /\ actor' = [actor EXCEPT ![l] = 0]
                    /\ finished' = [finished EXCEPT ![l] = TRUE]
                    /\ Publish("sessionCompleted", l)
                    /\ UNCHANGED <<round, acted, frame>>
             [] IsFlow(l, p) ->
                    /\ phase' = [outer |-> p, inner |-> 1]
                    /\ actor' = [outer |-> 0, inner |-> 0]
                    /\ round' = [round EXCEPT !["inner"] = 1]
                    /\ finished' = [finished EXCEPT !["inner"] = FALSE]
                    /\ acted' = [acted EXCEPT !["inner"] = {}]
                    /\ frame' = "enter"
                    /\ Publish("firstEntered", "inner")
             [] OTHER ->
                    /\ phase' = [phase EXCEPT ![l] = p]
                    /\ actor' = [actor EXCEPT ![l] = 0]
                    /\ Publish("phaseEntered", l)
                    /\ UNCHANGED <<round, finished, acted, frame>>
        /\ UNCHANGED <<turnId, callVars, window, next, unsettled>>

AfterSessionCompleted(l) ==
    /\ After("sessionCompleted", l)
    /\ Return(l, TRUE)
    /\ UNCHANGED <<flowVars, window, next, unsettled>>

------------------------------------------------------------------------------
(* Calls of the game or of an event handler. *)

\* can_actor_act(), which asks the FlowPhase only once on_enter() has returned.
CanAct(a) ==
    /\ Active = "inner" => entered
    /\ CanSubmit(Active, a)

\* submit_action() up to its event: eligible and valid, so it is announced.
Submit(a) ==
    /\ state = "RUNNING"
    /\ CanAct(a)
    /\ Len(offers) < MaxNested
    /\ offers' = Append(offers, a)
    /\ UNCHANGED <<flowVars, nestVars, state, pauses, window, at, next, unsettled>>

\* Mutant of Takes: the window does not look who submitted already.
TakesAgain(l, a) == window[l].status = "open" /\ a \in window[l].eligible

\* ActionWindow::submit() asks again whether the actor may submit.
Takes(l, a) == CanSubmit(l, a)

\* The handlers of ActionSubmitted return and accept_action() runs.
Accept ==
    /\ offers # <<>>
    /\ offers' = Front(offers)
    /\ LET a == Last(offers)
       IN  IF Takes(Active, a)
           THEN /\ window' = [window EXCEPT ![Active].taken = Append(@, a)]
                /\ unsettled' = [unsettled EXCEPT ![a] = @ + 1]
           ELSE UNCHANGED <<window, unsettled>>
    /\ UNCHANGED <<flowVars, nestVars, state, pauses, at, next>>

Pause ==
    /\ state = "RUNNING"
    /\ pauses < MaxPauses
    /\ state' = "PAUSED"
    /\ pauses' = pauses + 1
    /\ UNCHANGED <<flowVars, nestVars, offers, window, at, next, unsettled>>

Resume ==
    /\ state = "PAUSED"
    /\ state' = "RUNNING"
    /\ UNCHANGED <<flowVars, nestVars, offers, pauses, window, at, next, unsettled>>

\* A session that is over is at rest.
Over == state = "COMPLETED" /\ Idle /\ UNCHANGED vars

------------------------------------------------------------------------------
RunOn ==
    \/ \E l \in Levels :
        \/ AfterFirstEntered(l) \/ AfterFirstRound(l) \/ AfterSessionStarted(l)
        \/ AfterTurnStarted(l) \/ AfterWindowOpened(l)
        \/ AfterActionStarted(l) \/ AfterActionEnded(l) \/ AfterWindowClosed(l)
        \/ AfterTurnEnded(l) \/ AfterRoundEnded(l) \/ AfterRoundStarted(l)
        \/ AfterPhaseExited(l) \/ AfterPhaseEntered(l) \/ AfterSessionCompleted(l)
    \/ Accept

Next ==
    \/ Start \/ RunOn
    \/ TickInVain \/ \E l \in Levels : Tick(l)
    \/ \E a \in Actors : Submit(a)
    \/ Pause \/ Resume \/ Over

\* The session's thread runs on, the game loop keeps ticking, whoever paused
\* resumes, and an actor who can act submits in the end.
Fairness ==
    /\ WF_vars(RunOn)
    /\ \A l \in Levels : WF_vars(Tick(l))
    /\ WF_vars(Resume)
    /\ \A a \in Actors : WF_vars(Idle /\ Submit(a))

Spec == Init /\ [][Next]_vars /\ Fairness

------------------------------------------------------------------------------
(* Properties. *)

\* "The outer controller must not create a competing outer ActionWindow"
\* (SequentialFlowController::start()): one controller at most has a window.
OneWindow == window["outer"] = NoWindow \/ window["inner"] = NoWindow

\* When start() or tick() returns, a session that is not over has an open
\* window somebody can act in, and one whose controller is done is over: no
\* end, of the inner controller or of the outer, is missed.
NeverStranded ==
    Idle /\ state # "CREATED" =>
        /\ finished["outer"] <=> state = "COMPLETED"
        /\ ~finished["outer"] =>
               /\ window[Active].status = "open"
               /\ \E a \in Actors : CanAct(a) \/ HasTaken(Active, a)

\* The actions a window holds and resolve() has still to run.
Held(l, a) ==
    {i \in DOMAIN window[l].taken :
        /\ window[l].taken[i] = a
        /\ i >= IF at.event = "actionEnded" THEN next + 1 ELSE next}

\* IAction.hpp: the session owns an accepted action, and resolve() runs it.
\* What was accepted and did not run yet is in a window, whatever handlers
\* submit meanwhile: nothing accepted is dropped, nothing runs twice.
AcceptedRunsOnce ==
    \A a \in Actors :
        unsettled[a] = Cardinality(Held("outer", a)) + Cardinality(Held("inner", a))

\* ActionWindow::can_submit(): one submission per actor per window, also when a
\* handler submits for an actor whose own submission is being announced.
OneActionEach ==
    \A l \in Levels : \A i, j \in DOMAIN window[l].taken :
        window[l].taken[i] = window[l].taken[j] => i = j

\* EventType.hpp: a round ends when all its turns are complete, so nobody was
\* passed over, though phases end and start in the middle of a round.
RoundCoversAll ==
    \A l \in Levels : at = [event |-> "roundEnded", level |-> l] => acted[l] = Actors

\* RoundPolicy.hpp: max_rounds is the number of rounds after which the session
\* ends, the nested one too.
RoundsWithinLimit ==
    \A l \in Levels : Rounds /\ MaxRounds[l] > 0 => round[l] <= MaxRounds[l]

\* GameSession.hpp: a session that is submitted to and ticked finishes.
SessionFinishes == state = "RUNNING" ~> state = "COMPLETED"
==============================================================================
