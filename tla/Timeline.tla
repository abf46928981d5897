------------------------------ MODULE Timeline ------------------------------
(***************************************************************************)
(* gmFlow::TimelineFlowController and TimelineMilestoneSystem inside a     *)
(* GameSession: the actor with the lowest timeline position acts next, his *)
(* actions move him on, time is the lowest position of those who can still *)
(* act, and milestones fire when time passes them.                         *)
(*                                                                         *)
(* The game is the environment.  Through ITimelineAdapter it says where    *)
(* each actor stands, who is enabled, who keeps control and when the       *)
(* session is over; it runs the actions and reports each result to         *)
(* on_action_completed(); milestone callbacks are game code too and may    *)
(* register or remove milestones in the middle of advance().               *)
(***************************************************************************)
EXTENDS Integers, Sequences, FiniteSets, SequencesExt

CONSTANTS
    Order,        \* timeline_actors(): the actors, in the order of the adapter
    Rank,         \* tie_break_rank() of each actor
    Openings,     \* where the actors may stand when a session is built
    Horizon,      \* bound: the session is over when time reaches it
    MaxUpsets,    \* bound, for each session, on failed actions, windows closed
                  \* by force, reactions, and actors that fall or rise
    AutoSelect,   \* TimelinePolicy::auto_select_next_actor
    Opens,        \* TimelinePolicy::open_main_action_window
    Milestones,   \* the identities of milestones
    Threshold,    \* threshold of each milestone
    OneShot,      \* the milestones that fire once
    Initially,    \* the milestones registered before the session starts, in order
    Callback,     \* what the callback of a milestone does: [add, remove]
    None

Actors == Range(Order)

ASSUME TimelineAssumption ==
    /\ Order \in Seq(Actors) /\ Len(Order) > 0
    /\ Rank \in [Actors -> Int]
    /\ Horizon \in Nat
    /\ Openings \subseteq [Actors -> 0..Horizon]
    /\ Threshold \in [Milestones -> Int]
    /\ OneShot \subseteq Milestones /\ Initially \in Seq(Milestones)
    /\ Callback \in [Milestones -> [add: Seq(Milestones), remove: SUBSET Int]]
    /\ None \notin Actors

VARIABLES
    status,      \* GameSession::_session_state
    position,    \* timeline_position() of each actor
    enabled,     \* is_actor_enabled() of each actor
    over,        \* is_session_complete()
    time,        \* _current_time
    active,      \* _active_actor
    window,      \* _current_window: its eligible actors and submissions
    entries,     \* TimelineMilestoneSystem::_entries
    fired,       \* history: how often each milestone fired
    since,       \* history: the time at which each milestone was registered
    upsets,      \* what is left of MaxUpsets
    shut         \* history: the window of this turn was closed under its actor

timelineVars == <<status, position, enabled, over, time, active,
                  window, entries, fired, since, upsets, shut>>

NoWindow == [eligible |-> {}, submitted |-> {}, open |-> FALSE]
Main(a) == [eligible |-> {a}, submitted |-> {}, open |-> TRUE]

Never == -1
-----------------------------------------------------------------------------
(* TimelineMilestoneSystem *)

\* A stable sort after push_back into a list that was sorted: behind every
\* entry with the same threshold.
AddMilestone(list, m) ==
    LET earlier == {i \in DOMAIN list : Threshold[list[i]] <= Threshold[m]}
    IN InsertAt(list, Cardinality(earlier) + 1, m)

AddMilestones(list, new) ==
    LET added[k \in 0..Len(new)] ==
            IF k = 0 THEN list ELSE AddMilestone(added[k - 1], new[k])
    IN added[Len(new)]

\* The entries of a list but for those at the places in `gone`.
Without(list, gone) ==
    LET left[k \in 0..Len(list)] ==
            IF k = 0 THEN <<>>
            ELSE IF k \in gone THEN left[k - 1] ELSE Append(left[k - 1], list[k])
    IN left[Len(list)]

\* Mutant of Due: the lower bound is inclusive.
DueInclusive(list, old, new) ==
    {i \in DOMAIN list : old <= Threshold[list[i]] /\ Threshold[list[i]] <= new}

\* The pass of advance(): what is due is known by its places in a list that the
\* callbacks may change, and the one-shot entries are removed last.
Due(list, old, new) ==
    {i \in DOMAIN list : old < Threshold[list[i]] /\ Threshold[list[i]] <= new}

Changed(list, effect) ==
    AddMilestones(Without(list, {i \in DOMAIN list : Threshold[list[i]] \in effect.remove}),
                  effect.add)

FireAt(pass, i) ==
    IF i > Len(pass.list) THEN pass ELSE
    LET m == pass.list[i]
        after == Changed(pass.list, Callback[m])
        \* `one_shot` is read through the index again, after the callback
        spent == i <= Len(after) /\ after[i] \in OneShot
    IN [list |-> after, calls |-> Append(pass.calls, m),
        remove |-> IF spent THEN pass.remove \cup {i} ELSE pass.remove]

AdvanceMilestones(list, old, new) ==
    LET due == Due(list, old, new)
        run[k \in 0..Len(list)] ==
            IF k = 0 THEN [list |-> list, calls |-> <<>>, remove |-> {}]
            ELSE IF k \in due THEN FireAt(run[k - 1], k) ELSE run[k - 1]
        pass == run[Len(list)]
    IN [pass EXCEPT !.list = Without(@, pass.remove)]
-----------------------------------------------------------------------------
(* Selection *)

Enabled(on) == {a \in Actors : on[a]}

Place == [a \in Actors |-> CHOOSE i \in DOMAIN Order : Order[i] = a]

\* Mutant of Sooner: rank before position.
SoonerByRank(at, a, b) ==
    \/ Rank[a] < Rank[b]
    \/ Rank[a] = Rank[b] /\ at[a] <= at[b]

\* The order of sorted_enabled_actors().
Sooner(at, a, b) ==
    \/ at[a] < at[b]
    \/ at[a] = at[b] /\ Rank[a] < Rank[b]
    \/ at[a] = at[b] /\ Rank[a] = Rank[b] /\ Place[a] <= Place[b]

NextActor(at, on) ==
    IF Enabled(on) = {} THEN None
    ELSE CHOOSE a \in Enabled(on) : \A b \in Enabled(on) : Sooner(at, a, b)

\* select_next_actor() over the window `w`, which stays when nobody is left.
WindowOfNext(at, on, w) ==
    LET next == NextActor(at, on)
    IN IF next # None /\ Opens THEN Main(next) ELSE w

\* compute_current_time()
Lowest(at, on) ==
    IF Enabled(on) = {} THEN time
    ELSE CHOOSE t \in {at[a] : a \in Enabled(on)} :
            \A a \in Enabled(on) : t <= at[a]
-----------------------------------------------------------------------------
Registered == AddMilestones(<<>>, Initially)

Unregistered == [m \in Milestones |-> IF m \in Range(Initially) THEN 0 ELSE Never]

\* No GameSession was built yet.
InitTimeline ==
    /\ status = "none"
    /\ position = [a \in Actors |-> 0] /\ enabled = [a \in Actors |-> TRUE]
    /\ over = FALSE
    /\ time = 0 /\ active = None /\ window = NoWindow
    /\ entries = Registered /\ since = Unregistered
    /\ fired = [m \in Milestones |-> 0]
    /\ upsets = MaxUpsets /\ shut = FALSE

\* The game builds a GameSession over a state it has set up.
Construct ==
    /\ status' = "created"
    /\ position' \in Openings /\ enabled' = [a \in Actors |-> TRUE]
    /\ over' = FALSE
    /\ time' = 0 /\ active' = None /\ window' = NoWindow
    /\ entries' = Registered /\ since' = Unregistered
    /\ fired' = [m \in Milestones |-> 0]
    /\ upsets' = MaxUpsets /\ shut' = FALSE

\* GameSession::start() and TimelineFlowController::start(): the clock is set
\* to the lowest position and no milestone hears of it, so those registered
\* before count from there.
Start ==
    /\ status = "created"
    /\ status' = "running"
    /\ time' = Lowest(position, enabled)
    /\ active' = NextActor(position, enabled)
    /\ window' = WindowOfNext(position, enabled, window)
    /\ since' = [m \in Milestones |-> IF m \in Range(Initially) THEN time' ELSE Never]
    /\ UNCHANGED <<position, enabled, over, entries, fired, upsets, shut>>

\* GameSession::tick(): process(), then the end of the session.
Process ==
    IF ~over /\ ~window.open /\ active = None /\ AutoSelect
    THEN /\ active' = NextActor(position, enabled)
         /\ window' = WindowOfNext(position, enabled, window)
    ELSE UNCHANGED <<active, window>>

Tick ==
    /\ status = "running"
    /\ Process
    /\ status' = IF over THEN "completed" ELSE status
    /\ UNCHANGED <<position, enabled, over, time, entries, fired, since, upsets, shut>>

MaySubmit(a) == window.open /\ a \in window.eligible \ window.submitted

CanAct(a) == enabled[a] /\ (MaySubmit(a) \/ active = a)

\* GameSession::submit_action() of an action that is valid; the window refuses
\* it when it is closed or has a submission of this actor.
Submit(a) ==
    /\ status = "running"
    /\ CanAct(a)
    /\ MaySubmit(a)
    /\ window' = [window EXCEPT !.submitted = @ \cup {a}]
    /\ UNCHANGED <<status, position, enabled, over, time, active, entries,
                   fired, since, upsets, shut>>

\* open_reaction_window(), with nothing asked about the window that is there.
OpenReaction(who) ==
    /\ status = "running" /\ ~over
    /\ upsets > 0 /\ upsets' = upsets - 1
    /\ window' = [eligible |-> who, submitted |-> {}, open |-> TRUE]
    /\ UNCHANGED <<status, position, enabled, over, time, active, entries,
                   fired, since, shut>>

\* force_close_action_window()
ForceClose ==
    /\ status = "running" /\ window.open
    /\ upsets > 0 /\ upsets' = upsets - 1
    /\ window' = [window EXCEPT !.open = FALSE] /\ shut' = TRUE
    /\ UNCHANGED <<status, position, enabled, over, time, active, entries,
                   fired, since>>

\* on_action_completed() with a result that did not succeed.
ActionFails ==
    /\ status = "running" /\ ~over
    /\ \E a \in Actors : CanAct(a)
    /\ upsets > 0 /\ upsets' = upsets - 1
    /\ window' = [window EXCEPT !.open = FALSE] /\ shut' = TRUE
    /\ UNCHANGED <<status, position, enabled, over, time, active, entries,
                   fired, since>>

\* The clock moves on and its milestones fire, each once more in `calls`.
AdvanceTime(new) ==
    LET pass == AdvanceMilestones(entries, time, new)
        Called(m) == Cardinality({i \in DOMAIN pass.calls : pass.calls[i] = m})
    IN IF new > time
       THEN /\ time' = new
            /\ entries' = pass.list
            /\ fired' = [m \in Milestones |-> fired[m] + Called(m)]
            /\ since' = [m \in Milestones |->
                 IF m \in Range(pass.list) \ Range(entries) THEN new
                 ELSE IF m \in Range(entries) \ (Range(pass.list) \cup Range(pass.calls))
                 THEN Never ELSE since[m]]
       ELSE UNCHANGED <<time, entries, fired, since>>

\* Mutant of PassControl: the window is reset before it is asked who keeps
\* control.
PassControlClosed(at, on, keep, ends) ==
    IF active # None /\ keep THEN window' = NoWindow /\ UNCHANGED active
    ELSE IF AutoSelect /\ ~ends
         THEN /\ active' = NextActor(at, on)
              /\ window' = WindowOfNext(at, on, NoWindow)
         ELSE active' = None /\ window' = NoWindow

\* The end of on_action_completed(): the actor keeps control, or the next one
\* is selected.
PassControl(at, on, keep, ends) ==
    IF active # None /\ keep
    THEN /\ window' = IF Opens /\ ~window.open THEN Main(active) ELSE window
         /\ UNCHANGED active
    ELSE IF AutoSelect /\ ~ends
         THEN /\ active' = NextActor(at, on)
              /\ window' = WindowOfNext(at, on, NoWindow)
         ELSE active' = None /\ window' = NoWindow

\* An action of actor `a` succeeds: it costs time, may take an actor out of
\* play or bring him back, and may leave control with the active actor.  What the
\* game promises here is not the controller's doing: only an actor in play with
\* time left keeps control, and the session is over when time is up or nobody is
\* left, and then only.  on_action_completed() follows.
ActionSucceeds(a, cost, toggled, keep) ==
    LET at == [position EXCEPT ![a] = @ + cost]
        on == [b \in Actors |-> IF b \in toggled THEN ~enabled[b] ELSE enabled[b]]
        new == Lowest(at, on)
        ends == new = Horizon \/ Enabled(on) = {}
    IN /\ status = "running" /\ ~over
       /\ CanAct(a)
       /\ at[a] <= Horizon
       /\ keep => active # None /\ on[active] /\ at[active] < Horizon
       /\ Cardinality(toggled) <= upsets
       /\ upsets' = upsets - Cardinality(toggled)
       /\ shut' = FALSE
       /\ position' = at
       /\ enabled' = on
       /\ over' = ends
       /\ AdvanceTime(new)
       /\ PassControl(at, on, keep, ends)
       /\ UNCHANGED status

Succeed ==
    \E a \in Actors, cost \in 1..2, keep \in BOOLEAN :
        \E toggled \in {{}} \cup {{b} : b \in Actors} :
            ActionSucceeds(a, cost, toggled, keep)

NextTimeline ==
    \/ Start \/ Tick
    \/ \E a \in Actors : Submit(a)
    \/ \E who \in (SUBSET Actors) \ {{}, {active}} : OpenReaction(who)
    \/ ForceClose \/ ActionFails \/ Succeed
-----------------------------------------------------------------------------
(* Properties *)

\* A milestone fires if and only if time has passed its threshold since it was
\* registered, and then once; a one-shot milestone is registered until then.
\* One that a callback registers counts from the time being reached, so that it
\* does not fire in the same advance(), though that time is its threshold: this
\* is what the comment in advance() says.  The header of test_milestone_system.cpp
\* says the opposite, with no test for it.
MilestonesOnTime ==
    \A m \in Milestones : since[m] # Never =>
        LET due == since[m] < Threshold[m] /\ Threshold[m] <= time
        IN /\ fired[m] = IF due THEN 1 ELSE 0
           /\ (m \in Range(entries)) = (due => m \notin OneShot)

\* Whoever gets control has nobody behind him: an actor that could act at an
\* earlier time is not passed over, whatever ended the turn before.
NobodyPassedOver ==
    [][active' # active /\ active' # None =>
         /\ enabled'[active']
         /\ \A b \in Actors : enabled'[b] =>
               /\ position'[active'] <= position'[b]
               /\ position'[active'] = position'[b] => Rank[active'] <= Rank[b]]_timelineVars

\* While the session runs somebody can act: an actor in play is active, or a
\* tick selects one.  Only a failed action or a closed window takes the
\* window of the active actor away.
StillPlayable ==
    status = "running" /\ ~over /\ AutoSelect =>
        /\ Enabled(enabled) # {}
        /\ active # None /\ enabled[active]
        /\ Opens /\ ~shut => window.open
=============================================================================
