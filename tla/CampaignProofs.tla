--------------------------- MODULE CampaignProofs ---------------------------
(* A campaign never gets stuck, neither inside a session nor between two      *)
(* sessions, for every campaign whose requirements are not circular and for   *)
(* any actors, milestones and callbacks of them; and milestones come on time, *)
(* whatever they are, where callbacks leave those that are due alone.         *)
EXTENDS CampaignPlay, FiniteSetTheorems, SequenceTheorems, WellFoundedInduction,
        TLAPS

-----------------------------------------------------------------------------
(* Counting, from the fact that < on Nat is well founded. *)

\* A set of natural numbers that is not empty has a least one.
LEMMA LeastNumber ==
  ASSUME NEW T, T \subseteq Nat, T # {}
  PROVE  \E n \in T : \A m \in T : n <= m
<1>1. IsWellFoundedOn(OpToRel(<, Nat), Nat)
  BY NatLessThanWellFounded
<1>2. PICK n \in T : \A m \in T : ~(<<m, n>> \in OpToRel(<, Nat))
  BY <1>1, WFMin
<1>3. \A m \in T : ~(m < n)
  BY <1>2 DEF OpToRel
<1> QED
  BY <1>3

\* A set that has 0, and with a number its successor, has every number.
LEMMA CountingUp ==
  ASSUME NEW S, 0 \in S, \A n \in Nat : n \in S => n + 1 \in S
  PROVE  Nat \subseteq S
<1> DEFINE T == Nat \ S
<1> SUFFICES ASSUME T # {} PROVE FALSE
  OBVIOUS
<1>1. PICK n \in T : \A m \in T : n <= m
  BY LeastNumber
<1>2. n # 0 /\ n - 1 \in Nat /\ n - 1 \notin T
  BY <1>1
<1> QED
  BY <1>2

-----------------------------------------------------------------------------
(* Who acts next. *)

LEMMA OrderIsFinite ==
  /\ Len(Order) \in Nat /\ Len(Order) > 0
  /\ DOMAIN Order = 1..Len(Order)
  /\ Actors = {Order[i] : i \in 1..Len(Order)}
  /\ Actors # {}
<1>1. /\ Len(Order) \in Nat /\ Len(Order) > 0
      /\ DOMAIN Order = 1..Len(Order)
  BY TimelineAssumption
<1>2. Actors = {Order[i] : i \in 1..Len(Order)}
  BY <1>1 DEF Actors, Range
<1>3. Order[1] \in Actors
  BY <1>1, <1>2
<1> QED
  BY <1>1, <1>2, <1>3

\* The order of sorted_enabled_actors() is total and transitive.
LEMMA SoonerIsAnOrder ==
  ASSUME NEW at \in [Actors -> Int]
  PROVE  /\ \A a, b \in Actors : Sooner(at, a, b) \/ Sooner(at, b, a)
         /\ \A a, b, c \in Actors :
              Sooner(at, a, b) /\ Sooner(at, b, c) => Sooner(at, a, c)
<1>1. Rank \in [Actors -> Int]
  BY TimelineAssumption
<1>2. ASSUME NEW a \in Actors PROVE Place[a] \in Int
  <2>1. \E i \in DOMAIN Order : Order[i] = a
    BY OrderIsFinite
  <2>2. Place[a] \in DOMAIN Order
    BY <2>1 DEF Place
  <2> QED
    BY <2>2, OrderIsFinite
<1>3. \A a \in Actors : at[a] \in Int /\ Rank[a] \in Int /\ Place[a] \in Int
  BY <1>1, <1>2
<1> QED
  BY <1>3 DEF Sooner

\* So among those who can act there is a soonest one.
LEMMA SoonestExists ==
  ASSUME NEW at \in [Actors -> Int], NEW E, E \subseteq Actors, E # {}
  PROVE  \E a \in E : \A b \in E : Sooner(at, a, b)
<1> DEFINE Among(n) == {e \in E : \E i \in 1..n : Order[i] = e}
           Has(n) == Among(n) # {} =>
                       \E a \in Among(n) : \A b \in Among(n) : Sooner(at, a, b)
           S == {n \in Nat : n <= Len(Order) => Has(n)}
<1>1. 0 \in S
  OBVIOUS
<1>2. ASSUME NEW n \in Nat, n \in S PROVE n + 1 \in S
  <2> SUFFICES ASSUME n + 1 <= Len(Order) PROVE Has(n + 1)
    OBVIOUS
  <2> DEFINE x == Order[n + 1]
  <2>1. Has(n) /\ x \in Actors
    BY <1>2, OrderIsFinite
  <2>2. CASE x \notin E
    <3>1. Among(n + 1) = Among(n)
      BY <2>2
    <3> QED
      BY <2>1, <3>1
  <2>3. CASE x \in E
    <3>1. Among(n + 1) = Among(n) \cup {x}
      BY <2>3
    <3>2. Sooner(at, x, x)
      BY <2>1, SoonerIsAnOrder
    <3>3. CASE Among(n) = {}
      BY <3>1, <3>2, <3>3
    <3>4. CASE Among(n) # {}
      <4>1. PICK a \in Among(n) : \A b \in Among(n) : Sooner(at, a, b)
        BY <2>1, <3>4
      <4>2. a \in Actors /\ \A b \in Among(n) : b \in Actors
        OBVIOUS
      <4>3. CASE Sooner(at, a, x)
        BY <3>1, <4>1, <4>3
      <4>4. CASE ~Sooner(at, a, x)
        <5>1. Sooner(at, x, a)
          BY <2>1, <4>2, <4>4, SoonerIsAnOrder
        <5>2. \A b \in Among(n) : Sooner(at, x, b)
          BY <2>1, <4>1, <4>2, <5>1, SoonerIsAnOrder
        <5>3. \A b \in Among(n + 1) : b \in Among(n) \/ b = x
          BY <3>1
        <5>4. x \in Among(n + 1) /\ \A b \in Among(n + 1) : Sooner(at, x, b)
          BY <3>1, <3>2, <5>2, <5>3
        <5> QED
          BY <5>4
      <4> QED
        BY <4>3, <4>4
    <3> QED
      BY <3>3, <3>4
  <2> QED
    BY <2>2, <2>3
<1>3. Len(Order) \in S
  <2> HIDE DEF S
  <2> QED
    BY <1>1, <1>2, CountingUp, OrderIsFinite
<1>4. Has(Len(Order)) /\ Among(Len(Order)) = E
  BY <1>3, OrderIsFinite
<1> QED
  BY <1>4
\* select_next_actor() finds the soonest of those who can act, if anybody can.
LEMMA NextActorIsSoonest ==
  ASSUME NEW at \in [Actors -> Int], NEW on, Enabled(on) # {}
  PROVE  LET next == NextActor(at, on)
         IN  /\ next \in Actors /\ next # None /\ on[next]
             /\ \A b \in Actors : on[b] => Sooner(at, next, b)
<1> DEFINE next == NextActor(at, on)
<1>1. Enabled(on) \subseteq Actors
  BY DEF Enabled
<1>2. \E a \in Enabled(on) : \A b \in Enabled(on) : Sooner(at, a, b)
  BY <1>1, SoonestExists
<1>3. next = CHOOSE a \in Enabled(on) : \A b \in Enabled(on) : Sooner(at, a, b)
  BY DEF NextActor
<1>4. next \in Enabled(on) /\ \A b \in Enabled(on) : Sooner(at, next, b)
  BY <1>2, <1>3
<1> QED
  BY <1>4, TimelineAssumption DEF Enabled

\* Nobody is named only when nobody can act.
LEMMA NextActorIsSomebody ==
  ASSUME NEW at \in [Actors -> Int], NEW on
  PROVE  /\ NextActor(at, on) \in Actors \cup {None}
         /\ NextActor(at, on) # None => Enabled(on) # {}
<1>1. CASE Enabled(on) = {}
  BY <1>1 DEF NextActor
<1>2. CASE Enabled(on) # {}
  BY <1>2, NextActorIsSoonest
<1> QED
  BY <1>1, <1>2

-----------------------------------------------------------------------------
(* Inside a session. *)

TimelineType ==
  /\ status \in {"none", "created", "running", "completed"}
  /\ position \in [Actors -> Int]
  /\ enabled \in [Actors -> BOOLEAN]
  /\ over \in BOOLEAN
  /\ active \in Actors \cup {None}
  /\ window \in [eligible: SUBSET Actors, submitted: SUBSET Actors, open: BOOLEAN]

\* A session that was built but not started has everybody in play.
BuiltWhole ==
  status = "created" => ~over /\ enabled = [a \in Actors |-> TRUE]

TimelineInv == TimelineType /\ BuiltWhole /\ StillPlayable

LEMMA WindowsAreWindows ==
  /\ NoWindow \in [eligible: SUBSET Actors, submitted: SUBSET Actors, open: BOOLEAN]
  /\ \A a \in Actors :
       Main(a) \in [eligible: SUBSET Actors, submitted: SUBSET Actors, open: BOOLEAN]
  /\ \A a : Main(a).open
  BY DEF NoWindow, Main

\* The actor selected has the window of his turn, where the policy opens one.
LEMMA SelectionOpens ==
  ASSUME NEW at \in [Actors -> Int], NEW on, Enabled(on) # {}, NEW w,
         w \in [eligible: SUBSET Actors, submitted: SUBSET Actors, open: BOOLEAN]
  PROVE  /\ WindowOfNext(at, on, w) \in
              [eligible: SUBSET Actors, submitted: SUBSET Actors, open: BOOLEAN]
         /\ Opens => WindowOfNext(at, on, w).open
<1>1. NextActor(at, on) \in Actors /\ NextActor(at, on) # None
  BY NextActorIsSoonest
<1> QED
  BY <1>1, WindowsAreWindows DEF WindowOfNext

LEMMA TimelineInit == InitTimeline => TimelineInv
<1> SUFFICES ASSUME InitTimeline PROVE TimelineInv
  OBVIOUS
<1>1. TimelineType
  <2>1. position \in [Actors -> Int] /\ enabled \in [Actors -> BOOLEAN]
    BY DEF InitTimeline
  <2> QED
    BY <2>1, WindowsAreWindows DEF InitTimeline, TimelineType
<1>2. BuiltWhole /\ StillPlayable
  BY DEF InitTimeline, BuiltWhole, StillPlayable
<1> QED
  BY <1>1, <1>2 DEF TimelineInv

LEMMA ConstructKeeps == Construct => TimelineInv'
<1> SUFFICES ASSUME Construct PROVE TimelineInv'
  OBVIOUS
<1>1. position' \in [Actors -> Int]
  BY TimelineAssumption DEF Construct
<1>2. TimelineType'
  BY <1>1, WindowsAreWindows DEF Construct, TimelineType
<1>3. BuiltWhole' /\ StillPlayable'
  BY DEF Construct, BuiltWhole, StillPlayable
<1> QED
  BY <1>2, <1>3 DEF TimelineInv

LEMMA StartKeeps == TimelineInv /\ Start => TimelineInv'
<1> SUFFICES ASSUME TimelineInv, Start PROVE TimelineInv'
  OBVIOUS
<1>1. TimelineType /\ ~over /\ enabled = [a \in Actors |-> TRUE]
  BY DEF TimelineInv, BuiltWhole, Start
<1>2. Enabled(enabled) # {}
  BY <1>1, OrderIsFinite DEF Enabled
<1>3. active' \in Actors /\ active' # None /\ enabled[active']
  BY <1>1, <1>2, NextActorIsSoonest DEF TimelineType, Start
<1>4. /\ window' \in [eligible: SUBSET Actors, submitted: SUBSET Actors, open: BOOLEAN]
      /\ Opens => window'.open
  BY <1>1, <1>2, SelectionOpens DEF TimelineType, Start
<1>5. TimelineType'
  BY <1>1, <1>3, <1>4 DEF TimelineType, Start
<1>6. BuiltWhole' /\ StillPlayable'
  BY <1>2, <1>3, <1>4 DEF Start, BuiltWhole, StillPlayable, Enabled
<1> QED
  BY <1>5, <1>6 DEF TimelineInv
LEMMA TickKeeps == TimelineInv /\ Tick => TimelineInv'
<1> SUFFICES ASSUME TimelineInv, Tick PROVE TimelineInv'
  OBVIOUS
<1>1. status = "running" /\ TimelineType /\ StillPlayable
  BY DEF TimelineInv, Tick
<1>2. UNCHANGED <<position, enabled, over>>
  BY DEF Tick
<1>3. CASE ~over /\ ~window.open /\ active = None /\ AutoSelect
  BY <1>1, <1>3 DEF StillPlayable
<1>4. CASE ~(~over /\ ~window.open /\ active = None /\ AutoSelect)
  <2>1. UNCHANGED <<active, window>>
    BY <1>4 DEF Tick, Process
  <2>2. UNCHANGED shut /\ status' = IF over THEN "completed" ELSE status
    BY DEF Tick
  <2>3. TimelineType'
    BY <1>1, <1>2, <2>1, <2>2 DEF TimelineType
  <2>4. BuiltWhole' /\ StillPlayable'
    BY <1>1, <1>2, <2>1, <2>2 DEF BuiltWhole, StillPlayable, Enabled
  <2> QED
    BY <2>3, <2>4 DEF TimelineInv
<1> QED
  BY <1>3, <1>4

\* What happens to the window alone: it stays, is open or is shut.
LEMMA WindowKeeps ==
  ASSUME TimelineInv, status = "running",
         UNCHANGED <<status, position, enabled, over, active>>,
         window' \in [eligible: SUBSET Actors, submitted: SUBSET Actors, open: BOOLEAN],
         shut' \/ (UNCHANGED shut /\ (window.open => window'.open))
  PROVE  TimelineInv'
<1>1. TimelineType'
  BY DEF TimelineInv, TimelineType
<1>2. BuiltWhole' /\ StillPlayable'
  BY DEF TimelineInv, BuiltWhole, StillPlayable, Enabled
<1> QED
  BY <1>1, <1>2 DEF TimelineInv

LEMMA WindowActionsKeep ==
  ASSUME TimelineInv,
         \/ \E a \in Actors : Submit(a)
         \/ \E who \in (SUBSET Actors) \ {{}, {active}} : OpenReaction(who)
         \/ ForceClose \/ ActionFails
  PROVE  TimelineInv'
<1>1. window \in [eligible: SUBSET Actors, submitted: SUBSET Actors, open: BOOLEAN]
  BY DEF TimelineInv, TimelineType
<1>2. CASE \E a \in Actors : Submit(a)
  <2>1. PICK a \in Actors : Submit(a)
    BY <1>2
  <2>2. /\ window' \in [eligible: SUBSET Actors, submitted: SUBSET Actors, open: BOOLEAN]
        /\ window'.open = window.open
    BY <1>1, <2>1 DEF Submit
  <2> QED
    BY <2>1, <2>2, WindowKeeps DEF Submit
<1>3. CASE \E who \in (SUBSET Actors) \ {{}, {active}} : OpenReaction(who)
  <2>1. PICK who \in SUBSET Actors : OpenReaction(who)
    BY <1>3
  <2>2. /\ window' \in [eligible: SUBSET Actors, submitted: SUBSET Actors, open: BOOLEAN]
        /\ window'.open
    BY <2>1 DEF OpenReaction
  <2> QED
    BY <2>1, <2>2, WindowKeeps DEF OpenReaction
<1>4. CASE ForceClose \/ ActionFails
  <2>1. window' \in [eligible: SUBSET Actors, submitted: SUBSET Actors, open: BOOLEAN]
    BY <1>1, <1>4 DEF ForceClose, ActionFails
  <2> QED
    BY <1>4, <2>1, WindowKeeps DEF ForceClose, ActionFails
<1> QED
  BY <1>2, <1>3, <1>4

\* Control is passed on to somebody who can act, or kept by one who can; a
\* session that does not end has his window open.
LEMMA ControlIsPassed ==
  ASSUME NEW at \in [Actors -> Int], NEW on, NEW keep, NEW ends \in BOOLEAN,
         TimelineType, PassControl(at, on, keep, ends),
         keep => active # None /\ on[active],
         ~ends => Enabled(on) # {}
  PROVE  /\ active' \in Actors \cup {None}
         /\ window' \in [eligible: SUBSET Actors, submitted: SUBSET Actors, open: BOOLEAN]
         /\ AutoSelect /\ ~ends => /\ active' # None /\ on[active']
                                   /\ Opens => window'.open
<1>1. /\ active \in Actors \cup {None}
      /\ window \in [eligible: SUBSET Actors, submitted: SUBSET Actors, open: BOOLEAN]
  BY DEF TimelineType
<1>2. CASE active # None /\ keep
  <2>1. /\ window' = IF Opens /\ ~window.open THEN Main(active) ELSE window
        /\ UNCHANGED active
    BY <1>2 DEF PassControl
  <2> QED
    BY <1>1, <1>2, <2>1, WindowsAreWindows
<1>3. CASE ~(active # None /\ keep) /\ AutoSelect /\ ~ends
  <2>1. /\ active' = NextActor(at, on)
        /\ window' = WindowOfNext(at, on, NoWindow)
    BY <1>3 DEF PassControl
  <2>2. Enabled(on) # {}
    BY <1>3
  <2> QED
    BY <2>1, <2>2, NextActorIsSoonest, SelectionOpens, WindowsAreWindows
<1>4. CASE ~(active # None /\ keep) /\ ~(AutoSelect /\ ~ends)
  <2>1. active' = None /\ window' = NoWindow
    BY <1>4 DEF PassControl
  <2> QED
    BY <1>4, <2>1, WindowsAreWindows
<1> QED
  BY <1>2, <1>3, <1>4

LEMMA SucceedKeeps == TimelineInv /\ Succeed => TimelineInv'
<1> SUFFICES ASSUME TimelineInv, NEW a \in Actors, NEW cost \in 1..2,
                    NEW keep \in BOOLEAN, NEW toggled,
                    ActionSucceeds(a, cost, toggled, keep)
             PROVE  TimelineInv'
  BY DEF Succeed
<1> DEFINE at == [position EXCEPT ![a] = @ + cost]
           on == [b \in Actors |-> IF b \in toggled THEN ~enabled[b] ELSE enabled[b]]
           ends == Lowest(at, on) = Horizon \/ Enabled(on) = {}
<1>1. TimelineType
  BY DEF TimelineInv
<1>2. /\ status = "running" /\ UNCHANGED status
      /\ shut' = FALSE /\ position' = at /\ enabled' = on /\ over' = ends
      /\ PassControl(at, on, keep, ends)
      /\ keep => active # None /\ on[active]
  BY DEF ActionSucceeds
<1>3. at \in [Actors -> Int] /\ on \in [Actors -> BOOLEAN] /\ ends \in BOOLEAN
  <2>1. position \in [Actors -> Int] /\ enabled \in [Actors -> BOOLEAN]
    BY <1>1 DEF TimelineType
  <2>2. at \in [Actors -> Int]
    BY <2>1
  <2>3. on \in [Actors -> BOOLEAN]
    BY <2>1
  <2> QED
    BY <2>2, <2>3
<1>4. ~ends => Enabled(on) # {}
  OBVIOUS
<1> HIDE DEF at, on, ends
<1>5. /\ active' \in Actors \cup {None}
      /\ window' \in [eligible: SUBSET Actors, submitted: SUBSET Actors, open: BOOLEAN]
      /\ AutoSelect /\ ~ends => active' # None /\ on[active'] /\ (Opens => window'.open)
  BY <1>1, <1>2, <1>3, <1>4, ControlIsPassed
<1>6. TimelineType'
  BY <1>1, <1>2, <1>3, <1>5 DEF TimelineType
<1>7. BuiltWhole' /\ StillPlayable'
  BY <1>2, <1>4, <1>5 DEF BuiltWhole, StillPlayable, Enabled
<1> QED
  BY <1>6, <1>7 DEF TimelineInv

\* Everything the game and its timeline do in a session, and a new session.
LEMMA TimelineKeeps ==
  ASSUME TimelineInv, NextTimeline \/ Construct \/ UNCHANGED timelineVars
  PROVE  TimelineInv'
<1>1. CASE NextTimeline
  BY <1>1, StartKeeps, TickKeeps, WindowActionsKeep, SucceedKeeps DEF NextTimeline
<1>2. CASE Construct
  BY <1>2, ConstructKeeps
<1>3. CASE UNCHANGED timelineVars
  BY <1>3 DEF timelineVars, TimelineInv, TimelineType, BuiltWhole, StillPlayable, Enabled
<1> QED
  BY <1>1, <1>2, <1>3

\* Whatever a campaign does, its timeline takes a step of its own, stays as it
\* is, or is built anew.
LEMMA StepsOfTheTimeline ==
  [Next]_vars => NextTimeline \/ Construct \/ UNCHANGED timelineVars
  BY DEF Next, Play, Choose, Finish, NewGameSession, Done, vars

LEMMA TimelineInvariant == Spec => []TimelineInv
<1>1. Init => TimelineInv
  BY TimelineInit DEF Init
<1>2. TimelineInv /\ [Next]_vars => TimelineInv'
  BY TimelineKeeps, StepsOfTheTimeline
<1> QED
  BY <1>1, <1>2, PTL DEF Spec

\* Nobody is left waiting while a session runs: the invariant StillPlayable,
\* which select_next_actor() and the end of on_action_completed() are there for.
THEOREM SomebodyCanAct == Spec => []StillPlayable
<1>1. TimelineInv => StillPlayable
  BY DEF TimelineInv
<1> QED
  BY <1>1, TimelineInvariant, PTL

\* Whoever gets control was selected, over the places and the actors in play
\* that the action left behind.
LEMMA ControlIsSelected ==
  ASSUME TimelineInv, NextTimeline \/ Construct \/ UNCHANGED timelineVars,
         active' # active, active' # None
  PROVE  active' = NextActor(position', enabled')
<1>1. CASE Start
  BY <1>1 DEF Start
<1>2. CASE Tick
  BY <1>2 DEF Tick, Process
<1>3. CASE Succeed
  <2>1. PICK a \in Actors, cost \in 1..2, keep \in BOOLEAN,
             toggled \in {{}} \cup {{b} : b \in Actors} :
               ActionSucceeds(a, cost, toggled, keep)
    BY <1>3 DEF Succeed
  <2>2. \E ends : PassControl(position', enabled', keep, ends)
    BY <2>1 DEF ActionSucceeds
  <2> QED
    BY <2>2 DEF PassControl
<1>4. CASE \/ \E a \in Actors : Submit(a)
           \/ \E who \in (SUBSET Actors) \ {{}, {active}} : OpenReaction(who)
           \/ ForceClose \/ ActionFails \/ Construct \/ UNCHANGED timelineVars
  BY <1>4 DEF Submit, OpenReaction, ForceClose, ActionFails, Construct, timelineVars
<1> QED
  BY <1>1, <1>2, <1>3, <1>4 DEF NextTimeline

\* Whoever gets control has nobody behind him, whatever ended the turn before:
\* the action property NobodyPassedOver, over sorted_enabled_actors().
THEOREM ControlGoesToTheSoonest == Spec => NobodyPassedOver
<1> DEFINE Passed ==
      active' # active /\ active' # None =>
         /\ enabled'[active']
         /\ \A b \in Actors : enabled'[b] =>
               /\ position'[active'] <= position'[b]
               /\ position'[active'] = position'[b] => Rank[active'] <= Rank[b]
<1>1. ASSUME TimelineInv, [Next]_vars PROVE [Passed]_timelineVars
  <2> SUFFICES ASSUME active' # active, active' # None PROVE Passed
    OBVIOUS
  <2>1. NextTimeline \/ Construct \/ UNCHANGED timelineVars
    BY <1>1, StepsOfTheTimeline
  <2>2. active' = NextActor(position', enabled')
    BY <1>1, <2>1, ControlIsSelected
  <2>3. position' \in [Actors -> Int]
    BY <1>1, <2>1, TimelineKeeps DEF TimelineInv, TimelineType
  <2>4. Enabled(enabled') # {}
    BY <2>2, <2>3, NextActorIsSomebody
  <2>5. /\ active' \in Actors /\ enabled'[active']
        /\ \A b \in Actors : enabled'[b] => Sooner(position', active', b)
    BY <2>2, <2>3, <2>4, NextActorIsSoonest
  <2>6. Rank \in [Actors -> Int]
    BY TimelineAssumption
  <2>7. ASSUME NEW b \in Actors, enabled'[b]
        PROVE  /\ position'[active'] <= position'[b]
               /\ position'[active'] = position'[b] => Rank[active'] <= Rank[b]
    <3>1. Sooner(position', active', b)
      BY <2>5, <2>7
    <3>2. /\ position'[active'] \in Int /\ position'[b] \in Int
          /\ Rank[active'] \in Int /\ Rank[b] \in Int
      BY <2>3, <2>5, <2>6
    <3> QED
      BY <3>1, <3>2 DEF Sooner
  <2> QED
    BY <2>5, <2>7
<1> QED
  BY <1>1, TimelineInvariant, PTL DEF Spec, NobodyPassedOver

-----------------------------------------------------------------------------
(* Between the sessions. *)

CampaignType ==
  /\ results \in [Sessions -> {"none", "lost", "won"}]
  /\ unlocked \in SUBSET Sessions
  /\ current \in unlocked \cup {NoSession}

\* What is unlocked is what the results so far unlock, and what was unlocked
\* from the start: evaluate_unlocks() never lags behind.
UnlockedInTime ==
  \/ unlocked = Initial /\ \A s \in Sessions : ~IsCompleted(results, s)
  \/ unlocked = Initial \cup {s \in Sessions : Unlocks(results, s)}

CampaignInv == CampaignType /\ UnlockedInTime /\ AnnouncedOnce

LEMMA ThereAreSessions ==
  /\ Sessions # {} /\ NoSession \notin Sessions
  /\ Requires \in [Sessions -> SUBSET Sessions] /\ Initial \subseteq Sessions
<1>1. 1 \in DOMAIN Definitions
  BY CampaignAssumption
<1> QED
  BY <1>1, CampaignAssumption DEF Sessions, Range

LEMMA CampaignInit == InitCampaign => CampaignInv
<1> SUFFICES ASSUME InitCampaign PROVE CampaignInv
  OBVIOUS
<1>1. CampaignType
  BY ThereAreSessions DEF InitCampaign, CampaignType
<1>2. UnlockedInTime
  BY DEF InitCampaign, UnlockedInTime, IsCompleted
<1>3. ~IsComplete(results)
  BY ThereAreSessions DEF InitCampaign, IsComplete, IsCompleted
<1>4. finished = IsComplete(results)
  BY <1>3 DEF InitCampaign, IsComplete
<1>5. AnnouncedOnce
  BY <1>4 DEF InitCampaign, AnnouncedOnce
<1> QED
  BY <1>1, <1>2, <1>5 DEF CampaignInv

LEMMA StartSessionKeeps ==
  ASSUME CampaignInv, NEW s \in Sessions, StartSession(s)
  PROVE  CampaignInv'
  BY DEF CampaignInv, CampaignType, UnlockedInTime, AnnouncedOnce, StartSession,
         Unlocks, IsComplete, IsCompleted

\* A session that ends adds a result and keeps every other one.
LEMMA CompleteCurrentKeeps ==
  ASSUME CampaignInv, NEW victory \in BOOLEAN, NEW next \in Sessions \cup {NoSession},
         CompleteCurrent(victory, next)
  PROVE  CampaignInv'
<1> DEFINE result == [results EXCEPT ![current] = IF victory THEN "won" ELSE "lost"]
           new == NewlyUnlocked(result)
<1>1. /\ results \in [Sessions -> {"none", "lost", "won"}]
      /\ unlocked \subseteq Sessions /\ current \in Sessions
  BY DEF CampaignInv, CampaignType, CompleteCurrent
<1>2. /\ result \in [Sessions -> {"none", "lost", "won"}]
      /\ \A s \in Sessions : IsCompleted(results, s) => IsCompleted(result, s)
  BY <1>1 DEF IsCompleted
<1>3. /\ results' = result /\ unlocked' = unlocked \cup new
      /\ announced' = [s \in Sessions |-> announced[s] + IF s \in new THEN 1 ELSE 0]
      /\ finished' = (finished \/ IsComplete(result))
      /\ current' = next
      /\ next # NoSession => next \in unlocked \cup new
  BY DEF CompleteCurrent
<1> HIDE DEF result
<1>4. new = {s \in Sessions \ unlocked : Unlocks(result, s)}
  BY DEF NewlyUnlocked
<1>5. \A s \in Sessions : Unlocks(results, s) => Unlocks(result, s)
  BY <1>2, ThereAreSessions DEF Unlocks
<1> HIDE DEF new
<1>6. CampaignType'
  BY <1>1, <1>2, <1>3, <1>4 DEF CampaignType
<1>7. Initial \subseteq unlocked
  BY DEF CampaignInv, UnlockedInTime
<1>8. \A s \in unlocked \ Initial : Unlocks(result, s)
  BY <1>1, <1>5 DEF CampaignInv, AnnouncedOnce
<1>9. UnlockedInTime'
  BY <1>1, <1>3, <1>4, <1>7, <1>8 DEF UnlockedInTime
<1>10. finished' = IsComplete(result)
  <2>1. finished = IsComplete(results)
    BY DEF CampaignInv, AnnouncedOnce
  <2>2. IsComplete(results) => IsComplete(result)
    BY <1>2 DEF IsComplete
  <2> QED
    BY <1>3, <2>1, <2>2 DEF IsComplete
<1>11. announced' = [s \in Sessions |-> IF s \in unlocked' \ Initial THEN 1 ELSE 0]
  <2>1. announced = [s \in Sessions |-> IF s \in unlocked \ Initial THEN 1 ELSE 0]
    BY DEF CampaignInv, AnnouncedOnce
  <2>2. \A s \in Sessions : announced[s] + (IF s \in new THEN 1 ELSE 0)
                              = IF s \in unlocked' \ Initial THEN 1 ELSE 0
    BY <1>3, <1>4, <1>7, <2>1
  <2> QED
    BY <1>3, <2>2
<1>12. AnnouncedOnce'
  BY <1>3, <1>4, <1>8, <1>10, <1>11 DEF AnnouncedOnce
<1> QED
  BY <1>6, <1>9, <1>12 DEF CampaignInv

LEMMA CampaignInvariant == Spec => []CampaignInv
<1>1. Init => CampaignInv
  BY CampaignInit DEF Init
<1>2. ASSUME CampaignInv, [Next]_vars PROVE CampaignInv'
  <2>1. CASE \E s \in Sessions : Choose(s)
    BY <1>2, <2>1, StartSessionKeeps DEF Choose
  <2>2. CASE \E victory \in BOOLEAN, next \in Sessions \cup {NoSession} :
               Finish(victory, next)
    BY <1>2, <2>2, CompleteCurrentKeeps DEF Finish
  <2>3. CASE UNCHANGED campaignVars
    BY <1>2, <2>3 DEF campaignVars, CampaignInv, CampaignType, UnlockedInTime,
                      AnnouncedOnce, Unlocks, IsComplete, IsCompleted
  <2> QED
    BY <1>2, <2>1, <2>2, <2>3 DEF Next, Play, Done, vars
<1> QED
  BY <1>1, <1>2, PTL DEF Spec

\* Every session unlocked in play was announced once, only after all that it
\* requires, and the end of the campaign with the last session.
THEOREM UnlocksAreAnnouncedOnce == Spec => []AnnouncedOnce
<1>1. CampaignInv => AnnouncedOnce
  BY DEF CampaignInv
<1> QED
  BY <1>1, CampaignInvariant, PTL

\* A campaign that some session opens, and whose requirements are not circular
\* (no session requires one of its own level or a later one), is never stuck:
\* until all of it is completed a session can be played that was not.
THEOREM CampaignIsNeverStuck ==
  ASSUME Initial # {},
         NEW Level \in [Sessions -> Nat],
         \A s \in Sessions \ Initial : \A r \in Requires[s] : Level[r] < Level[s]
  PROVE  Spec => []NeverStuck
<1>1. ASSUME CampaignInv PROVE NeverStuck
  <2> DEFINE Left == {s \in Sessions : ~IsCompleted(results, s)}
             Levels == {Level[s] : s \in Left}
  <2> SUFFICES ASSUME Left # {} PROVE \E s \in unlocked : ~IsCompleted(results, s)
    BY DEF NeverStuck, IsComplete
  <2>1. CASE Left = Sessions
    <3>1. Initial \subseteq unlocked
      BY <1>1 DEF CampaignInv, UnlockedInTime
    <3> QED
      BY <2>1, <3>1, ThereAreSessions
  <2>2. CASE Left # Sessions
    <3>1. unlocked = Initial \cup {s \in Sessions : Unlocks(results, s)}
      BY <1>1, <2>2 DEF CampaignInv, UnlockedInTime
    <3>2. Levels \subseteq Nat /\ Levels # {}
      OBVIOUS
    <3>3. PICK n \in Levels : \A m \in Levels : n <= m
      BY <3>2, LeastNumber
    <3>4. PICK s \in Left : Level[s] = n
      BY <3>3
    <3>5. \A t \in Left : Level[s] <= Level[t]
      BY <3>3, <3>4
    <3>6. ASSUME s \notin Initial PROVE Unlocks(results, s)
      <4>1. SUFFICES ASSUME NEW r \in Requires[s] PROVE IsCompleted(results, r)
        BY DEF Unlocks
      <4>2. r \in Sessions /\ Level[r] < Level[s]
        BY <3>4, <3>6, <4>1, ThereAreSessions
      <4>3. Level[r] \in Nat /\ Level[s] \in Nat
        BY <3>4, <4>2
      <4>4. r \notin Left
        BY <3>5, <4>2, <4>3
      <4> QED
        BY <4>2, <4>4
    <3> QED
      BY <3>1, <3>4, <3>6
  <2> QED
    BY <2>1, <2>2
<1> QED
  BY <1>1, CampaignInvariant, PTL

-----------------------------------------------------------------------------
(* Milestones.  The list is sorted and names nobody twice, so what time passes *)
(* is among its first places, and callbacks that look ahead change what is     *)
(* behind those: an index names what it named when the pass began.             *)

Sorted(list) == \A i, j \in DOMAIN list : i < j => Threshold[list[i]] <= Threshold[list[j]]
Distinct(list) == \A i, j \in DOMAIN list : list[i] = list[j] => i = j
Listing(list) == list \in Seq(Milestones) /\ Sorted(list) /\ Distinct(list)

\* The first `d` entries of both lists are the same.
Agree(list, other, d) ==
  /\ d <= Len(list) /\ d <= Len(other)
  /\ \A i \in 1..d : list[i] = other[i]

LEMMA Entries ==
  ASSUME NEW list \in Seq(Milestones)
  PROVE  /\ Len(list) \in Nat /\ DOMAIN list = 1..Len(list)
         /\ \A i \in DOMAIN list : list[i] \in Milestones /\ Threshold[list[i]] \in Int
<1>1. /\ Len(list) \in Nat /\ DOMAIN list = 1..Len(list)
      /\ \A i \in DOMAIN list : list[i] \in Milestones
  OBVIOUS
<1> QED
  BY <1>1, TimelineAssumption DEF Range

\* A set of places that has with a place all those before it.
LEMMA Beginning ==
  ASSUME NEW n \in Nat, NEW S, S \subseteq 1..n, \A i \in S : \A j \in 1..n : j < i => j \in S
  PROVE  /\ Cardinality(S) \in 0..n
         /\ S = 1..Cardinality(S)
<1> DEFINE T == {k \in Nat : k + 1 \notin S}
<1>1. n \in T
  OBVIOUS
<1>2. PICK k \in T : \A m \in T : k <= m
  BY <1>1, LeastNumber
<1>3. S = 1..k
  <2>1. ASSUME NEW i \in 1..k PROVE i \in S
    <3>1. i - 1 \in Nat /\ ~(k <= i - 1)
      BY <1>2
    <3>2. i - 1 \notin T
      BY <1>2, <3>1
    <3> QED
      BY <3>1, <3>2
  <2>2. ASSUME NEW i \in S PROVE i \in 1..k
    <3>1. SUFFICES ASSUME k < i PROVE FALSE
      BY <1>2
    <3>2. k + 1 \in 1..n /\ (k + 1 = i \/ k + 1 < i) /\ k + 1 \notin S
      BY <1>2, <3>1
    <3> QED
      BY <3>2
  <2> QED
    BY <2>1, <2>2
<1>4. k <= n
  BY <1>1, <1>2
<1>5. Cardinality(1..k) = k
  <2>1. Cardinality(1..k) = IF 1 > k THEN 0 ELSE k - 1 + 1
    BY <1>2, FS_Interval
  <2> QED
    BY <1>2, <2>1
<1> QED
  BY <1>2, <1>3, <1>4, <1>5

\* A new entry takes its place behind those that are not later.
LEMMA AddKeeps ==
  ASSUME NEW list, Listing(list), NEW m \in Milestones, m \notin Range(list),
         NEW y, y = AddMilestone(list, m)
  PROVE  /\ Listing(y) /\ Range(y) = Range(list) \cup {m}
         /\ \A d \in 0..Len(list) :
              (\A i \in 1..d : Threshold[list[i]] <= Threshold[m]) => Agree(y, list, d)
<1> DEFINE n == Len(list)
           S == {i \in DOMAIN list : Threshold[list[i]] <= Threshold[m]}
           p == Cardinality(S)
<1>1. /\ list \in Seq(Milestones) /\ Sorted(list) /\ Distinct(list)
      /\ n \in Nat /\ DOMAIN list = 1..n
      /\ \A i \in 1..n : list[i] \in Milestones /\ Threshold[list[i]] \in Int
      /\ Threshold[m] \in Int
  BY Entries, TimelineAssumption DEF Listing
<1>2. p \in 0..n /\ S = 1..p
  <2>1. S \subseteq 1..n
    BY <1>1
  <2>2. ASSUME NEW i \in S, NEW j \in 1..n, j < i PROVE j \in S
    <3>1. Threshold[list[j]] <= Threshold[list[i]]
      BY <1>1, <2>1, <2>2 DEF Sorted
    <3>2. Threshold[list[j]] \in Int /\ Threshold[list[i]] \in Int /\ Threshold[list[i]] <= Threshold[m]
      BY <1>1, <2>1
    <3> QED
      BY <1>1, <3>1, <3>2
  <2> HIDE DEF S
  <2> QED
    BY <1>1, <2>1, <2>2, Beginning
<1>3. y = SubSeq(list, 1, p) \o <<m>> \o SubSeq(list, p + 1, n)
  <2>1. y = InsertAt(list, p + 1, m)
    BY DEF AddMilestone
  <2>2. y = SubSeq(list, 1, (p + 1) - 1) \o <<m>> \o SubSeq(list, p + 1, n)
    BY <2>1 DEF InsertAt
  <2>3. (p + 1) - 1 = p
    BY <1>2
  <2> QED
    BY <2>2, <2>3
<1>4. \A i \in 1..n : i <= p <=> Threshold[list[i]] <= Threshold[m]
  BY <1>1, <1>2
<1> HIDE DEF p, S
<1>5. /\ y \in Seq(Milestones) /\ Len(y) = n + 1 /\ DOMAIN y = 1..(n + 1)
      /\ \A i \in 1..p : y[i] = list[i]
      /\ y[p + 1] = m
      /\ \A i \in (p + 2)..(n + 1) : y[i] = list[i - 1]
  <2>1. /\ SubSeq(list, 1, p) \in Seq(Milestones) /\ Len(SubSeq(list, 1, p)) = p
        /\ \A i \in 1..p : SubSeq(list, 1, p)[i] = list[i]
    BY <1>1, <1>2
  <2>2. /\ SubSeq(list, p + 1, n) \in Seq(Milestones) /\ Len(SubSeq(list, p + 1, n)) = n - p
        /\ \A i \in 1..(n - p) : SubSeq(list, p + 1, n)[i] = list[p + i]
    <3>1. p + 1 \in Int /\ n \in Int /\ \A i \in (p + 1)..n : list[i] \in Milestones
      BY <1>1, <1>2
    <3>2. /\ SubSeq(list, p + 1, n) \in Seq(Milestones)
          /\ Len(SubSeq(list, p + 1, n)) = IF p + 1 <= n THEN n - (p + 1) + 1 ELSE 0
          /\ \A i \in 1..(n - (p + 1) + 1) : SubSeq(list, p + 1, n)[i] = list[(p + 1) + i - 1]
      BY <3>1, SubSeqProperties
    <3>3. Len(SubSeq(list, p + 1, n)) = n - p
      <4>1. n \in Nat /\ p \in 0..n
        BY <1>1, <1>2
      <4>2. (IF p + 1 <= n THEN n - (p + 1) + 1 ELSE 0) = n - p
        <5> HIDE DEF n
        <5> QED
          BY <4>1
      <4> QED
        BY <3>2, <4>2
    <3>4. ASSUME NEW i \in 1..(n - p) PROVE SubSeq(list, p + 1, n)[i] = list[p + i]
      <4>1. i \in 1..(n - (p + 1) + 1) /\ (p + 1) + i - 1 = p + i
        BY <1>1, <1>2
      <4>2. SubSeq(list, p + 1, n)[i] = list[(p + 1) + i - 1]
        BY <3>2, <4>1
      <4> QED
        BY <4>1, <4>2
    <3> QED
      BY <3>2, <3>3, <3>4
  <2> DEFINE a == SubSeq(list, 1, p)
             b == SubSeq(list, p + 1, n)
  <2> HIDE DEF a, b
  <2>3. /\ a \o <<m>> \in Seq(Milestones) /\ Len(a \o <<m>>) = p + 1
        /\ \A i \in 1..p : (a \o <<m>>)[i] = a[i]
        /\ (a \o <<m>>)[p + 1] = m
    BY <1>2, <2>1 DEF a
  <2> DEFINE c == a \o <<m>>
  <2> HIDE DEF c
  <2>4. /\ c \o b \in Seq(Milestones) /\ Len(c \o b) = n + 1
        /\ \A i \in 1..(p + 1) : (c \o b)[i] = c[i]
        /\ \A i \in (p + 2)..(n + 1) : (c \o b)[i] = b[i - (p + 1)]
    <3>1. /\ c \in Seq(Milestones) /\ b \in Seq(Milestones) /\ Len(c) = p + 1 /\ Len(b) = n - p
      BY <2>2, <2>3 DEF b, c
    <3>2. /\ c \o b \in Seq(Milestones) /\ Len(c \o b) = Len(c) + Len(b)
          /\ \A i \in 1..(Len(c) + Len(b)) : (c \o b)[i] = IF i <= Len(c) THEN c[i] ELSE b[i - Len(c)]
      BY <3>1, ConcatProperties
    <3>3. /\ Len(c) + Len(b) = n + 1
          /\ \A i \in 1..(p + 1) : i \in 1..(n + 1) /\ i <= p + 1
          /\ \A i \in (p + 2)..(n + 1) : i \in 1..(n + 1) /\ ~(i <= p + 1)
      BY <1>1, <1>2, <3>1
    <3> QED
      BY <3>1, <3>2, <3>3
  <2>5. y = c \o b
    BY <1>3 DEF a, b, c
  <2>6. ASSUME NEW i \in (p + 2)..(n + 1) PROVE y[i] = list[i - 1]
    <3>1. i - (p + 1) \in 1..(n - p) /\ p + (i - (p + 1)) = i - 1
      BY <1>1, <1>2
    <3>2. b[i - (p + 1)] = list[p + (i - (p + 1))]
      BY <2>2, <3>1 DEF b
    <3> QED
      BY <2>4, <2>5, <3>1, <3>2
  <2>7. \A i \in 1..p : y[i] = list[i]
    BY <1>2, <2>1, <2>3, <2>4, <2>5 DEF a, c
  <2>8. y[p + 1] = m
    BY <1>2, <2>3, <2>4, <2>5 DEF c
  <2>9. y \in Seq(Milestones) /\ Len(y) = n + 1
    BY <2>4, <2>5
  <2>10. DOMAIN y = 1..(n + 1)
    BY <2>9
  <2> QED
    BY <2>6, <2>7, <2>8, <2>9, <2>10
<1>6. \A i \in 1..(n + 1) :
        \/ i <= p /\ i \in 1..n /\ y[i] = list[i]
        \/ i = p + 1 /\ y[i] = m
        \/ i > p + 1 /\ i - 1 \in 1..n /\ i - 1 > p /\ y[i] = list[i - 1]
  BY <1>1, <1>2, <1>5
<1>7. Sorted(y)
  <2> SUFFICES ASSUME NEW i \in 1..(n + 1), NEW j \in 1..(n + 1), i < j
               PROVE  Threshold[y[i]] <= Threshold[y[j]]
    BY <1>5 DEF Sorted
  <2>1. \A k, l \in 1..n : k < l => Threshold[list[k]] <= Threshold[list[l]]
    BY <1>1 DEF Sorted
  <2>2. CASE i <= p
    <3>1. i \in 1..n /\ y[i] = list[i]
      BY <1>2, <1>6, <2>2
    <3>2. CASE j = p + 1
      BY <1>4, <1>5, <2>2, <3>1, <3>2
    <3>3. CASE j <= p
      BY <1>6, <2>1, <3>1, <3>3, <1>2
    <3>4. CASE j > p + 1
      <4>1. j - 1 \in 1..n /\ y[j] = list[j - 1] /\ i < j - 1
        BY <1>2, <1>6, <2>2, <3>4
      <4> QED
        BY <2>1, <3>1, <4>1
    <3> QED
      BY <1>2, <3>2, <3>3, <3>4
  <2>3. CASE i = p + 1
    <3>1. j - 1 \in 1..n /\ j - 1 > p /\ y[j] = list[j - 1]
      BY <1>2, <1>6, <2>3
    <3>2. ~(Threshold[list[j - 1]] <= Threshold[m])
      BY <1>2, <1>4, <3>1
    <3> QED
      BY <1>1, <1>5, <2>3, <3>1, <3>2
  <2>4. CASE i > p + 1
    <3>1. i - 1 \in 1..n /\ j - 1 \in 1..n /\ y[i] = list[i - 1] /\ y[j] = list[j - 1]
      BY <1>2, <1>6, <2>4
    <3> QED
      BY <2>1, <3>1
  <2> QED
    BY <1>2, <2>2, <2>3, <2>4
<1>8. \A i \in 1..n : list[i] # m
  BY <1>1 DEF Range
<1>9. Distinct(y)
  <2> SUFFICES ASSUME NEW i \in 1..(n + 1), NEW j \in 1..(n + 1), i < j, y[i] = y[j]
               PROVE  FALSE
    BY <1>5 DEF Distinct
  <2>1. \A k, l \in 1..n : list[k] = list[l] => k = l
    BY <1>1 DEF Distinct
  <2> QED
    <3>2. CASE i = p + 1
      BY <1>2, <1>5, <1>6, <1>8, <3>2
    <3>3. CASE j = p + 1
      BY <1>2, <1>5, <1>6, <1>8, <3>3
    <3>4. CASE i # p + 1 /\ j # p + 1
      BY <1>2, <1>6, <2>1, <3>4
    <3> QED
      BY <3>2, <3>3, <3>4
<1>10. Range(y) = Range(list) \cup {m}
  <2>1. ASSUME NEW i \in 1..(n + 1) PROVE y[i] \in Range(list) \cup {m}
    BY <1>1, <1>6 DEF Range
  <2>2. ASSUME NEW i \in 1..n PROVE list[i] \in Range(y)
    <3>1. CASE i <= p
      BY <1>2, <1>5, <3>1 DEF Range
    <3>2. CASE i > p
      <4>1. i + 1 \in (p + 2)..(n + 1) /\ (i + 1) - 1 = i /\ i + 1 \in DOMAIN y
        BY <1>1, <1>2, <1>5, <3>2
      <4> QED
        BY <1>5, <4>1 DEF Range
    <3> QED
      BY <1>2, <3>1, <3>2
  <2>3. m \in Range(y)
    BY <1>1, <1>2, <1>5 DEF Range
  <2> QED
    BY <1>1, <1>5, <2>1, <2>2, <2>3 DEF Range
<1>11. ASSUME NEW d \in 0..n, \A i \in 1..d : Threshold[list[i]] <= Threshold[m]
       PROVE  Agree(y, list, d)
  <2>1. d <= p
    <3>1. d = 0 \/ d \in 1..n
      BY <1>1, <1>11
    <3> QED
      BY <1>2, <1>4, <1>11, <3>1
  <2> QED
    BY <1>1, <1>2, <1>5, <2>1 DEF Agree
<1> QED
  BY <1>5, <1>7, <1>9, <1>10, <1>11 DEF Listing

\* What each of the recursive functions of the model makes of its last value.
Onward(fun, args, k, prev) ==
  CASE fun = "added" -> AddMilestone(prev, args.new[k])
    [] fun = "left" -> IF k \in args.gone THEN prev ELSE Append(prev, args.list[k])
    [] fun = "run" -> IF k \in args.due THEN FireAt(prev, k) ELSE prev

\* The table of its values up to the n-th: there is one.
Table(f, n, first, fun, args) ==
  f[0] = first /\ \A k \in 1..n : f[k] = Onward(fun, args, k, f[k - 1])

LEMMA RunExists ==
  ASSUME NEW n \in Nat, NEW first, NEW fun, NEW args
  PROVE  \E f : Table(f, n, first, fun, args)
<1> DEFINE Upto(f, m) == f[0] = first /\ \A k \in 1..m : f[k] = Onward(fun, args, k, f[k - 1])
           S == {m \in Nat : \E f : Upto(f, m)}
<1>1. 0 \in S
  <2>1. Upto([k \in 0..0 |-> first], 0)
    OBVIOUS
  <2>2. QED
    BY <2>1
<1>2. ASSUME NEW m \in Nat, m \in S PROVE m + 1 \in S
  <2>1. PICK f : Upto(f, m)
    BY <1>2
  <2> DEFINE y == [k \in 0..(m + 1) |-> IF k <= m THEN f[k] ELSE Onward(fun, args, m + 1, f[m])]
  <2>2. \A k \in 0..m : y[k] = f[k]
    OBVIOUS
  <2>3. y[m + 1] = Onward(fun, args, m + 1, f[m])
    OBVIOUS
  <2> HIDE DEF y
  <2>4. ASSUME NEW k \in 1..(m + 1) PROVE y[k] = Onward(fun, args, k, y[k - 1])
    <3>1. CASE k = m + 1
      <4>1. k - 1 = m /\ y[k - 1] = f[m]
        BY <2>2, <3>1
      <4>2. QED
        BY <2>3, <3>1, <4>1
    <3>2. CASE k # m + 1
      <4>1. k \in 1..m /\ k \in 0..m /\ k - 1 \in 0..m
        BY <3>2
      <4>2. y[k] = f[k] /\ y[k - 1] = f[k - 1]
        BY <2>2, <4>1
      <4>3. QED
        BY <2>1, <4>1, <4>2
    <3>3. QED
      BY <3>1, <3>2
  <2>5. Upto(y, m + 1)
    BY <2>1, <2>2, <2>4
  <2>6. QED
    BY <2>5
<1> HIDE DEF S
<1>3. n \in S
  BY <1>1, <1>2, CountingUp
<1>4. QED
  BY <1>3 DEF S, Table

\* So each of these functions has the values its definition says.
LEMMA AddedTable ==
  ASSUME NEW list, NEW new, Len(new) \in Nat
  PROVE  \E f : /\ Table(f, Len(new), list, "added", [new |-> new])
                /\ AddMilestones(list, new) = f[Len(new)]
<1> DEFINE args == [new |-> new]
           Run(f) == f = [k \in 0..Len(new) |->
                            IF k = 0 THEN list ELSE AddMilestone(f[k - 1], new[k])]
           f == CHOOSE f : Run(f)
<1>1. Run(f)
  <2>1. PICK t : Table(t, Len(new), list, "added", args)
    BY RunExists
  <2> DEFINE r == [k \in 0..Len(new) |-> t[k]]
  <2>2. r[0] = list /\ \A k \in 1..Len(new) : r[k] = Onward("added", args, k, r[k - 1])
    BY <2>1 DEF Table
  <2>3. r = [k \in 0..Len(new) |-> r[k]]
    OBVIOUS
  <2> HIDE DEF r
  <2>4. ASSUME NEW k \in 1..Len(new) PROVE r[k] = AddMilestone(r[k - 1], new[k])
    BY <2>2 DEF Onward
  <2>5. ASSUME NEW k \in 0..Len(new)
        PROVE  r[k] = IF k = 0 THEN list ELSE AddMilestone(r[k - 1], new[k])
    BY <2>2, <2>4
  <2>6. Run(r)
    BY <2>3, <2>5
  <2> QED
    BY <2>6
<1>2. AddMilestones(list, new) = f[Len(new)]
  BY DEF AddMilestones
<1> HIDE DEF f
<1>3. f[0] = list /\ \A k \in 1..Len(new) : f[k] = AddMilestone(f[k - 1], new[k])
  <2>1. 0 \in 0..Len(new) /\ \A k \in 1..Len(new) : k \in 0..Len(new) /\ k # 0
    OBVIOUS
  <2> QED
    BY <1>1, <2>1
<1>4. Table(f, Len(new), list, "added", args)
  BY <1>3 DEF Table, Onward
<1> QED
  BY <1>2, <1>4

LEMMA LeftTable ==
  ASSUME NEW list, NEW gone, Len(list) \in Nat
  PROVE  \E f : /\ Table(f, Len(list), <<>>, "left", [list |-> list, gone |-> gone])
                /\ Without(list, gone) = f[Len(list)]
<1> DEFINE args == [list |-> list, gone |-> gone]
           Run(f) == f = [k \in 0..Len(list) |->
                            IF k = 0 THEN <<>>
                            ELSE IF k \in gone THEN f[k - 1] ELSE Append(f[k - 1], list[k])]
           f == CHOOSE f : Run(f)
<1>1. Run(f)
  <2>1. PICK t : Table(t, Len(list), <<>>, "left", args)
    BY RunExists
  <2> DEFINE r == [k \in 0..Len(list) |-> t[k]]
  <2>2. r[0] = <<>> /\ \A k \in 1..Len(list) : r[k] = Onward("left", args, k, r[k - 1])
    BY <2>1 DEF Table
  <2>3. r = [k \in 0..Len(list) |-> r[k]]
    OBVIOUS
  <2> HIDE DEF r
  <2>4. ASSUME NEW k \in 1..Len(list)
        PROVE  r[k] = IF k \in gone THEN r[k - 1] ELSE Append(r[k - 1], list[k])
    BY <2>2 DEF Onward
  <2>5. ASSUME NEW k \in 0..Len(list)
        PROVE  r[k] = IF k = 0 THEN <<>>
                      ELSE IF k \in gone THEN r[k - 1] ELSE Append(r[k - 1], list[k])
    BY <2>2, <2>4
  <2>6. Run(r)
    BY <2>3, <2>5
  <2> QED
    BY <2>6
<1>2. Without(list, gone) = f[Len(list)]
  BY DEF Without
<1> HIDE DEF f
<1>3. f[0] = <<>> /\ \A k \in 1..Len(list) :
         f[k] = IF k \in gone THEN f[k - 1] ELSE Append(f[k - 1], list[k])
  <2>1. 0 \in 0..Len(list) /\ \A k \in 1..Len(list) : k \in 0..Len(list) /\ k # 0
    OBVIOUS
  <2> QED
    BY <1>1, <2>1
<1>4. Table(f, Len(list), <<>>, "left", args)
  BY <1>3 DEF Table, Onward
<1> QED
  BY <1>2, <1>4

Whole(list) == [list |-> list, calls |-> <<>>, remove |-> {}]

LEMMA RunTable ==
  ASSUME NEW list, NEW old, NEW new, Len(list) \in Nat
  PROVE  \E f : /\ Table(f, Len(list), Whole(list), "run", [due |-> Due(list, old, new)])
                /\ AdvanceMilestones(list, old, new)
                     = [f[Len(list)] EXCEPT !.list = Without(@, f[Len(list)].remove)]
<1> DEFINE due == Due(list, old, new)
           args == [due |-> due]
           Run(f) == f = [k \in 0..Len(list) |->
                            IF k = 0 THEN [list |-> list, calls |-> <<>>, remove |-> {}]
                            ELSE IF k \in due THEN FireAt(f[k - 1], k) ELSE f[k - 1]]
           f == CHOOSE f : Run(f)
<1>2. AdvanceMilestones(list, old, new) = [f[Len(list)] EXCEPT !.list = Without(@, f[Len(list)].remove)]
  BY DEF AdvanceMilestones
<1> HIDE DEF due
<1>1. Run(f)
  <2>1. PICK t : Table(t, Len(list), Whole(list), "run", args)
    BY RunExists
  <2> DEFINE r == [k \in 0..Len(list) |-> t[k]]
  <2>2. r[0] = Whole(list) /\ \A k \in 1..Len(list) : r[k] = Onward("run", args, k, r[k - 1])
    BY <2>1 DEF Table
  <2>3. r = [k \in 0..Len(list) |-> r[k]]
    OBVIOUS
  <2> HIDE DEF r
  <2>4. ASSUME NEW k \in 1..Len(list)
        PROVE  r[k] = IF k \in due THEN FireAt(r[k - 1], k) ELSE r[k - 1]
    BY <2>2 DEF Onward
  <2>5. r[0] = [list |-> list, calls |-> <<>>, remove |-> {}]
    BY <2>2 DEF Whole
  <2>6. ASSUME NEW k \in 0..Len(list)
        PROVE  r[k] = IF k = 0 THEN [list |-> list, calls |-> <<>>, remove |-> {}]
                      ELSE IF k \in due THEN FireAt(r[k - 1], k) ELSE r[k - 1]
    BY <2>4, <2>5
  <2>7. Run(r)
    BY <2>3, <2>6
  <2> QED
    BY <2>7
<1> HIDE DEF f
<1>3. f[0] = Whole(list)
      /\ \A k \in 1..Len(list) : f[k] = IF k \in due THEN FireAt(f[k - 1], k) ELSE f[k - 1]
  <2>1. 0 \in 0..Len(list) /\ \A k \in 1..Len(list) : k \in 0..Len(list) /\ k # 0
    OBVIOUS
  <2> QED
    BY <1>1, <2>1 DEF Whole
<1>4. Table(f, Len(list), Whole(list), "run", args)
  BY <1>3 DEF Table, Onward
<1> QED
  BY <1>2, <1>4 DEF due

\* One entry more at the end.
LEMMA AppendKeeps ==
  ASSUME NEW list, Listing(list), NEW m \in Milestones, m \notin Range(list),
         \A e \in Range(list) : Threshold[e] <= Threshold[m]
  PROVE  /\ Listing(Append(list, m)) /\ Range(Append(list, m)) = Range(list) \cup {m}
         /\ Len(Append(list, m)) = Len(list) + 1 /\ Append(list, m)[Len(list) + 1] = m
         /\ \A i \in 1..Len(list) : Append(list, m)[i] = list[i]
<1> DEFINE y == Append(list, m)
           n == Len(list)
<1>1. /\ list \in Seq(Milestones) /\ Sorted(list) /\ Distinct(list)
      /\ n \in Nat /\ DOMAIN list = 1..n
  BY Entries DEF Listing
<1>2. /\ y \in Seq(Milestones) /\ Len(y) = n + 1 /\ DOMAIN y = 1..(n + 1) /\ y[n + 1] = m
      /\ \A i \in 1..n : y[i] = list[i]
  BY <1>1
<1> HIDE DEF y, n
<1>3. \A i \in 1..(n + 1) : i = n + 1 \/ i \in 1..n
  BY <1>1
<1>4. \A i \in 1..n : list[i] # m /\ Threshold[list[i]] <= Threshold[m]
  BY <1>1 DEF Range
<1>5. Sorted(y)
  <2> SUFFICES ASSUME NEW i \in 1..(n + 1), NEW j \in 1..(n + 1), i < j
               PROVE  Threshold[y[i]] <= Threshold[y[j]]
    BY <1>2 DEF Sorted
  <2>1. i \in 1..n /\ y[i] = list[i]
    BY <1>1, <1>2
  <2>2. CASE j \in 1..n
    BY <1>1, <1>2, <2>1, <2>2 DEF Sorted
  <2>3. CASE j = n + 1
    BY <1>2, <1>4, <2>1, <2>3
  <2> QED
    BY <1>3, <2>2, <2>3
<1>6. Distinct(y)
  <2> SUFFICES ASSUME NEW i \in 1..(n + 1), NEW j \in 1..(n + 1), y[i] = y[j]
               PROVE  i = j
    BY <1>2 DEF Distinct
  <2>1. CASE i \in 1..n /\ j \in 1..n
    BY <1>1, <1>2, <2>1 DEF Distinct
  <2> QED
    BY <1>2, <1>3, <1>4, <2>1
<1>7. Range(y) = Range(list) \cup {m}
  <2>1. Range(y) = {y[i] : i \in 1..(n + 1)} /\ Range(list) = {list[i] : i \in 1..n}
    BY <1>1, <1>2 DEF Range
  <2>2. n + 1 \in 1..(n + 1) /\ \A i \in 1..n : i \in 1..(n + 1)
    BY <1>1
  <2> QED
    BY <1>2, <1>3, <2>1, <2>2
<1>8. Listing(y)
  BY <1>2, <1>5, <1>6 DEF Listing
<1> QED
  BY <1>2, <1>7, <1>8 DEF y, n

LEMMA Nothing == Listing(<<>>) /\ Range(<<>>) = {} /\ Len(<<>>) = 0
  BY DEF Listing, Sorted, Distinct, Range

\* Taking entries out leaves the others where they were, up to the first one out.
LEMMA WithoutKeeps ==
  ASSUME NEW list, Listing(list), NEW gone, NEW y, y = Without(list, gone)
  PROVE  /\ Listing(y) /\ Range(y) = {list[i] : i \in DOMAIN list \ gone}
         /\ \A d \in 0..Len(list) : (1..d) \cap gone = {} => Agree(y, list, d)
<1> DEFINE n == Len(list)
           Left(k) == {list[i] : i \in (1..k) \ gone}
           Fine(x, k) ==
             /\ Listing(x) /\ Range(x) = Left(k)
             /\ \A d \in 0..k : (1..d) \cap gone = {} => Agree(x, list, d)
<1>1. /\ list \in Seq(Milestones) /\ n \in Nat /\ DOMAIN list = 1..n
      /\ \A i \in 1..n : list[i] \in Milestones
      /\ \A i, j \in 1..n : i < j => Threshold[list[i]] <= Threshold[list[j]]
      /\ \A i, j \in 1..n : list[i] = list[j] => i = j
  BY Entries DEF Listing, Sorted, Distinct
<1>2. PICK f : /\ Table(f, n, <<>>, "left", [list |-> list, gone |-> gone])
               /\ y = f[n]
  BY <1>1, LeftTable
<1>3. f[0] = <<>> /\ \A k \in 1..n : f[k] = IF k \in gone THEN f[k - 1] ELSE Append(f[k - 1], list[k])
  BY <1>2 DEF Table, Onward
<1> HIDE DEF n
<1> DEFINE S == {k \in Nat : k <= n => Fine(f[k], k)}
<1>4. 0 \in S
  <2>1. Left(0) = {}
    OBVIOUS
  <2>2. \A d \in 0..0 : Agree(<<>>, list, d)
    BY <1>1, Nothing DEF Agree, n
  <2>3. Fine(f[0], 0)
    BY <1>3, <2>1, <2>2, Nothing
  <2> QED
    BY <2>3
<1>5. ASSUME NEW k \in Nat, k \in S PROVE k + 1 \in S
  <2> SUFFICES ASSUME k + 1 <= n PROVE Fine(f[k + 1], k + 1)
    OBVIOUS
  <2> DEFINE x == f[k]
             m == list[k + 1]
  <2>1. Fine(x, k)
    BY <1>1, <1>5
  <2>2. k + 1 \in 1..n /\ (k + 1) - 1 = k /\ \A i \in 1..(k + 1) : i = k + 1 \/ i \in 1..k
    BY <1>1
  <2>3. f[k + 1] = IF k + 1 \in gone THEN x ELSE Append(x, m)
    BY <1>3, <2>2
  <2>4. Left(k + 1) = IF k + 1 \in gone THEN Left(k) ELSE Left(k) \cup {m}
    <3>1. (1..(k + 1)) \ gone = IF k + 1 \in gone THEN (1..k) \ gone
                                ELSE ((1..k) \ gone) \cup {k + 1}
      BY <2>2
    <3> QED
      BY <3>1
  <2>5. \A d \in 0..(k + 1) : d \in 0..k \/ d = k + 1
    BY <1>1
  <2> HIDE DEF x, m, S
  <2>6. CASE k + 1 \in gone
    <3>1. f[k + 1] = x /\ Left(k + 1) = Left(k)
      BY <2>3, <2>4, <2>6
    <3>2. ASSUME NEW d \in 0..(k + 1), (1..d) \cap gone = {} PROVE d \in 0..k
      <4>1. d = k + 1 => k + 1 \in 1..d
        BY <2>2
      <4> QED
        BY <2>5, <2>6, <3>2, <4>1
    <3> HIDE DEF Left
    <3> QED
      BY <2>1, <3>1, <3>2
  <2>7. CASE k + 1 \notin gone
    <3>1. f[k + 1] = Append(x, m) /\ Left(k + 1) = Left(k) \cup {m}
      BY <2>3, <2>4, <2>7
    <3>2. m \in Milestones /\ Listing(x) /\ Range(x) = Left(k)
      BY <1>1, <2>1, <2>2 DEF m
    <3>3. ASSUME NEW e \in Left(k) PROVE e # m /\ Threshold[e] <= Threshold[m]
      <4>1. PICK i \in 1..k : e = list[i]
        OBVIOUS
      <4>2. i \in 1..n /\ i < k + 1 /\ i # k + 1
        BY <1>1, <2>2
      <4> QED
        BY <1>1, <2>2, <4>1, <4>2 DEF m
    <3> HIDE DEF Left
    <3>4. /\ Listing(f[k + 1]) /\ Range(f[k + 1]) = Left(k + 1)
          /\ Len(f[k + 1]) = Len(x) + 1 /\ f[k + 1][Len(x) + 1] = m
          /\ \A i \in 1..Len(x) : f[k + 1][i] = x[i]
      <4>1. m \notin Range(x) /\ \A e \in Range(x) : Threshold[e] <= Threshold[m]
        BY <3>2, <3>3
      <4> DEFINE z == Append(x, m)
      <4>2. /\ Listing(z) /\ Range(z) = Range(x) \cup {m}
            /\ Len(z) = Len(x) + 1 /\ z[Len(x) + 1] = m
            /\ \A i \in 1..Len(x) : z[i] = x[i]
        BY <3>2, <4>1, AppendKeeps
      <4> HIDE DEF z
      <4> QED
        BY <3>1, <3>2, <4>2 DEF z
    <3>5. Len(x) \in Nat
      BY <3>2, Entries DEF Listing
    <3>6. ASSUME NEW d \in 0..(k + 1), (1..d) \cap gone = {}
          PROVE  Agree(f[k + 1], list, d)
      <4>1. CASE d \in 0..k
        <5>1. Agree(x, list, d)
          BY <2>1, <3>6, <4>1
        <5> QED
          BY <1>1, <3>4, <3>5, <5>1 DEF Agree
      <4>2. CASE d = k + 1
        <5>1. (1..k) \cap gone = {} /\ k \in 0..k
          BY <3>6, <4>2
        <5>2. Agree(x, list, k)
          BY <2>1, <5>1
        <5>3. Len(x) = k
          <6> USE DEF Left
          <6>1. k <= Len(x) /\ \A i \in 1..k : x[i] = list[i]
            BY <5>2 DEF Agree
          <6>2. SUFFICES ASSUME k < Len(x) PROVE FALSE
            BY <3>5, <6>1
          <6>3. k + 1 \in DOMAIN x /\ x \in Seq(Milestones) /\ DOMAIN x = 1..Len(x)
            BY <3>2, <3>5, <6>2, Entries DEF Listing
          <6>4. x[k + 1] \in Left(k)
            BY <3>2, <6>3 DEF Range
          <6>5. PICK i \in 1..k : x[k + 1] = list[i]
            BY <6>4
          <6>6. i \in DOMAIN x /\ x[i] = x[k + 1] /\ i # k + 1
            BY <6>1, <6>2, <6>3, <6>5
          <6> QED
            BY <3>2, <6>3, <6>6 DEF Listing, Distinct
        <5>4. \A i \in 1..(k + 1) : f[k + 1][i] = list[i]
          BY <2>2, <3>4, <5>2, <5>3 DEF Agree, m
        <5> QED
          BY <1>1, <2>2, <3>4, <4>2, <5>3, <5>4 DEF Agree, n
      <4> QED
        BY <2>5, <4>1, <4>2
    <3> QED
      BY <3>4, <3>6
  <2> QED
    BY <2>6, <2>7
<1> HIDE DEF S
<1>6. n \in S
  BY <1>1, <1>4, <1>5, CountingUp
<1>7. Fine(y, n)
  BY <1>1, <1>2, <1>6 DEF S
<1> QED
  BY <1>1, <1>7 DEF n

\* What a callback registers takes its place behind all that is not later.
LEMMA AddManyKeeps ==
  ASSUME NEW list, Listing(list), NEW new \in Seq(Milestones), Distinct(new),
         Range(new) \cap Range(list) = {}, NEW y, y = AddMilestones(list, new)
  PROVE  /\ Listing(y) /\ Range(y) = Range(list) \cup Range(new)
         /\ \A d \in 0..Len(list) :
              (\A i \in 1..d : \A e \in Range(new) : Threshold[list[i]] <= Threshold[e])
                => Agree(y, list, d)
<1> DEFINE n == Len(new)
           Added(k) == {new[i] : i \in 1..k}
           Before(d) == \A i \in 1..d : \A e \in Range(new) : Threshold[list[i]] <= Threshold[e]
           Fine(x, k) ==
             /\ Listing(x) /\ Range(x) = Range(list) \cup Added(k)
             /\ \A d \in 0..Len(list) : Before(d) => Agree(x, list, d)
<1>1. /\ n \in Nat /\ DOMAIN new = 1..n
      /\ \A i \in 1..n : new[i] \in Milestones /\ new[i] \in Range(new)
      /\ \A i, j \in 1..n : new[i] = new[j] => i = j
      /\ Range(new) = Added(n)
  BY Entries DEF Distinct, Range
<1>2. PICK f : Table(f, n, list, "added", [new |-> new]) /\ y = f[n]
  BY <1>1, AddedTable
<1>3. f[0] = list /\ \A k \in 1..n : f[k] = AddMilestone(f[k - 1], new[k])
  BY <1>2 DEF Table, Onward
<1>4. list \in Seq(Milestones) /\ Len(list) \in Nat
  BY Entries DEF Listing
<1> HIDE DEF n, Before
<1> DEFINE S == {k \in Nat : k <= n => Fine(f[k], k)}
<1>5. 0 \in S
  <2>1. Added(0) = {}
    OBVIOUS
  <2>2. \A d \in 0..Len(list) : Agree(list, list, d)
    BY <1>4 DEF Agree
  <2>3. Fine(f[0], 0)
    BY <1>3, <2>1, <2>2
  <2> QED
    BY <2>3
<1>6. ASSUME NEW k \in Nat, k \in S PROVE k + 1 \in S
  <2> SUFFICES ASSUME k + 1 <= n PROVE Fine(f[k + 1], k + 1)
    OBVIOUS
  <2> DEFINE x == f[k]
             m == new[k + 1]
  <2>1. Fine(x, k)
    <3>1. k <= n => Fine(f[k], k)
      BY <1>6
    <3>2. k <= n
      BY <1>1
    <3> QED
      BY <3>1, <3>2
  <2>2. k + 1 \in 1..n /\ (k + 1) - 1 = k /\ \A i \in 1..(k + 1) : i = k + 1 \/ i \in 1..k
    BY <1>1
  <2>3. f[k + 1] = AddMilestone(x, m)
    BY <1>3, <2>2
  <2>4. Added(k + 1) = Added(k) \cup {m}
    <3>1. 1..(k + 1) = (1..k) \cup {k + 1}
      BY <2>2
    <3> QED
      BY <3>1
  <2>5. m \in Milestones /\ m \in Range(new)
    BY <1>1, <2>2
  <2>6. m \notin Added(k)
    <3> SUFFICES ASSUME NEW i \in 1..k, new[i] = m PROVE FALSE
      OBVIOUS
    <3>1. i \in 1..n /\ i # k + 1
      BY <1>1, <2>2
    <3> QED
      BY <1>1, <2>2, <3>1
  <2>7. m \notin Range(x) /\ Listing(x)
    BY <2>1, <2>5, <2>6
  <2> HIDE DEF x, m, S, Added
  <2>8. /\ Listing(f[k + 1]) /\ Range(f[k + 1]) = Range(x) \cup {m}
        /\ \A d \in 0..Len(x) :
             (\A i \in 1..d : Threshold[x[i]] <= Threshold[m]) => Agree(f[k + 1], x, d)
    BY <2>3, <2>5, <2>7, AddKeeps
  <2>9. ASSUME NEW d \in 0..Len(list), Before(d) PROVE Agree(f[k + 1], list, d)
    <3>1. Agree(x, list, d)
      BY <2>1, <2>9
    <3>2. Len(x) \in Nat /\ Len(f[k + 1]) \in Nat
      BY <2>7, <2>8, Entries DEF Listing
    <3>3. d \in 0..Len(x) /\ \A i \in 1..d : x[i] = list[i]
      BY <1>4, <3>1, <3>2 DEF Agree
    <3>4. \A i \in 1..d : Threshold[x[i]] <= Threshold[m]
      BY <2>5, <2>9, <3>3 DEF Before
    <3>5. Agree(f[k + 1], x, d)
      BY <2>8, <3>3, <3>4
    <3> QED
      BY <3>1, <3>5 DEF Agree
  <2> QED
    BY <2>1, <2>4, <2>8, <2>9
<1> HIDE DEF S
<1>7. n \in S
  BY <1>1, <1>5, <1>6, CountingUp
<1>8. Fine(y, n)
  BY <1>1, <1>2, <1>7 DEF S
<1> QED
  BY <1>1, <1>8 DEF Before

\* A callback that takes nothing out of the first `d` entries and registers
\* nothing before them leaves them where they are.
LEMMA ChangedKeeps ==
  ASSUME NEW list, Listing(list), NEW effect, effect.add \in Seq(Milestones),
         Distinct(effect.add), Range(effect.add) \cap Range(list) = {},
         NEW d \in 0..Len(list),
         \A i \in 1..d : /\ Threshold[list[i]] \notin effect.remove
                         /\ \A e \in Range(effect.add) : Threshold[list[i]] <= Threshold[e],
         NEW y, y = Changed(list, effect)
  PROVE  /\ Listing(y) /\ Range(y) \subseteq Range(list) \cup Range(effect.add)
         /\ Agree(y, list, d)
<1> DEFINE gone == {i \in DOMAIN list : Threshold[list[i]] \in effect.remove}
           w == Without(list, gone)
<1>1. y = AddMilestones(w, effect.add)
  BY DEF Changed
<1>2. (1..d) \cap gone = {}
  OBVIOUS
<1> HIDE DEF gone
<1>3. w = Without(list, gone)
  OBVIOUS
<1> HIDE DEF w
<1>4. /\ Listing(w) /\ Range(w) = {list[i] : i \in DOMAIN list \ gone}
      /\ Agree(w, list, d)
  BY <1>2, <1>3, WithoutKeeps
<1>5. Range(w) \subseteq Range(list)
  BY <1>4 DEF Range
<1>6. Len(w) \in Nat /\ Len(list) \in Nat
  BY <1>4, Entries DEF Listing
<1>7. d \in 0..Len(w) /\ \A i \in 1..d : w[i] = list[i]
  BY <1>4, <1>6 DEF Agree
<1>8. /\ Listing(y) /\ Range(y) = Range(w) \cup Range(effect.add)
      /\ \A k \in 0..Len(w) :
           (\A i \in 1..k : \A e \in Range(effect.add) : Threshold[w[i]] <= Threshold[e])
             => Agree(y, w, k)
  <2>1. Range(effect.add) \cap Range(w) = {}
    BY <1>5
  <2> QED
    BY <1>1, <1>4, <2>1, AddManyKeeps
<1>9. \A i \in 1..d : \A e \in Range(effect.add) : Threshold[w[i]] <= Threshold[e]
  BY <1>7
<1>10. Agree(y, w, d)
  BY <1>7, <1>8, <1>9
<1>11. Agree(y, list, d)
  BY <1>4, <1>10 DEF Agree
<1> QED
  BY <1>5, <1>8, <1>11

\* The milestones of a list whose thresholds time passes.
Passed(list, old, new) == {m \in Range(list) : old < Threshold[m] /\ Threshold[m] <= new}

\* The callback of a milestone looks ahead of the time that is being reached.
LooksAhead(m, new) ==
  /\ \A e \in Range(Callback[m].add) : new <= Threshold[e]
  /\ \A t \in Callback[m].remove : new < t

\* The pass of advance(): what time passes is called, each once; what is not later
\* than the new time stays but for the one-shot entries among them.
LEMMA PassKeeps ==
  ASSUME NEW list, Listing(list), NEW old \in Int, NEW new \in Int,
         NEW D, D = Passed(list, old, new),
         \A m \in D : /\ LooksAhead(m, new)
                      /\ Distinct(Callback[m].add)
                      /\ Range(Callback[m].add) \cap Range(list) = {},
         \A m, o \in D : m # o => Range(Callback[m].add) \cap Range(Callback[o].add) = {},
         NEW y, y = AdvanceMilestones(list, old, new)
  PROVE  /\ Listing(y.list) /\ Listing(y.calls) /\ Range(y.calls) = D
         /\ \A e \in Range(y.list) : e \in Range(list) \/ \E m \in D : e \in Range(Callback[m].add)
         /\ \A e \in Range(list) : Threshold[e] <= new =>
              (e \in Range(y.list) <=> ~(e \in D /\ e \in OneShot))
<1> DEFINE n == Len(list)
           due == Due(list, old, new)
           B == {i \in 1..n : Threshold[list[i]] <= new}
           d == Cardinality(B)
           Spent(k) == {i \in due : i <= k /\ list[i] \in OneShot}
           Fine(x, k) ==
             /\ x = [list |-> x.list, calls |-> x.calls, remove |-> x.remove]
             /\ Listing(x.list) /\ Agree(x.list, list, d)
             /\ \A e \in Range(x.list) :
                  e \in Range(list) \/ \E i \in due : i <= k /\ e \in Range(Callback[list[i]].add)
             /\ Listing(x.calls) /\ Range(x.calls) = {list[i] : i \in {j \in due : j <= k}}
             /\ x.remove = Spent(k)
<1>1. /\ list \in Seq(Milestones) /\ n \in Nat /\ DOMAIN list = 1..n
      /\ \A i \in 1..n : list[i] \in Milestones /\ Threshold[list[i]] \in Int
      /\ \A i, j \in 1..n : i < j => Threshold[list[i]] <= Threshold[list[j]]
      /\ \A i, j \in 1..n : list[i] = list[j] => i = j
      /\ Range(list) = {list[i] : i \in 1..n}
  <2>1. /\ list \in Seq(Milestones) /\ n \in Nat /\ DOMAIN list = 1..n
        /\ \A i \in 1..n : list[i] \in Milestones /\ Threshold[list[i]] \in Int
    BY Entries DEF Listing
  <2>2. Range(list) = {list[i] : i \in 1..n}
    BY <2>1 DEF Range
  <2> HIDE DEF n
  <2> QED
    BY <2>1, <2>2 DEF Listing, Sorted, Distinct
<1>2. due = {i \in 1..n : old < Threshold[list[i]] /\ Threshold[list[i]] <= new}
  BY <1>1 DEF Due
<1>3. D = {list[i] : i \in due} /\ due \subseteq 1..n
  BY <1>1, <1>2 DEF Passed
<1>4. d \in 0..n /\ B = 1..d
  <2>1. \A i \in B : \A j \in 1..n : j < i => j \in B
    BY <1>1
  <2>2. B \subseteq 1..n
    OBVIOUS
  <2> HIDE DEF B
  <2> QED
    BY <1>1, <2>1, <2>2, Beginning
<1>5. due \subseteq 1..d
  BY <1>2, <1>4
<1>6. PICK f : /\ Table(f, n, Whole(list), "run", [due |-> due])
               /\ y = [f[n] EXCEPT !.list = Without(@, f[n].remove)]
  BY <1>1, RunTable
<1> HIDE DEF d, due
<1>7. /\ f[0] = Whole(list)
      /\ \A k \in 1..n : f[k] = IF k \in due THEN FireAt(f[k - 1], k) ELSE f[k - 1]
  BY <1>6 DEF Table, Onward
<1> DEFINE S == {k \in Nat : k <= n => Fine(f[k], k)}
<1>8. 0 \in S
  <2>1. ~(\E i \in due : i <= 0)
    BY <1>3
  <2>2. Spent(0) = {} /\ {list[i] : i \in {j \in due : j <= 0}} = {}
    BY <2>1
  <2>3. Agree(list, list, d)
    BY <1>1, <1>4 DEF Agree
  <2>4. Fine(Whole(list), 0)
    BY <2>2, <2>3, Nothing DEF Whole
  <2> HIDE DEF Fine
  <2> QED
    BY <1>7, <2>4
<1>9. ASSUME NEW k \in Nat, k \in S PROVE k + 1 \in S
  <2> SUFFICES ASSUME k + 1 <= n PROVE Fine(f[k + 1], k + 1)
    OBVIOUS
  <2> DEFINE x == f[k]
             z == f[k + 1]
             m == list[k + 1]
             o == k + 1
  <2>1. Fine(x, k)
    <3>1. k <= n => Fine(f[k], k)
      BY <1>9
    <3>2. k <= n
      BY <1>1
    <3> QED
      BY <3>1, <3>2
  <2>2. o \in 1..n /\ o - 1 = k /\ \A i \in 1..n : i <= o <=> i <= k \/ i = o
    BY <1>1
  <2>3. z = IF o \in due THEN FireAt(x, o) ELSE x
    BY <1>7, <2>2
  <2>4. /\ {j \in due : j <= o} = {j \in due : j <= k} \cup (due \cap {o})
        /\ Spent(o) = Spent(k) \cup {i \in due \cap {o} : list[i] \in OneShot}
    BY <1>3, <2>2
  <2>5. m \in Milestones /\ o \in Nat /\ o > k
    BY <1>1, <2>2
  <2> HIDE DEF x, z, S
  <2>6. CASE o \notin due
    <3>1. z = x /\ Spent(o) = Spent(k) /\ {j \in due : j <= o} = {j \in due : j <= k}
      BY <2>3, <2>4, <2>6
    <3>2. \A i \in due : i <= o <=> i <= k
      BY <1>3, <2>2, <2>6
    <3> HIDE DEF Spent, o
    <3>3. Fine(z, o)
      BY <2>1, <3>1, <3>2
    <3> QED
      BY <3>3 DEF o, z
  <2>7. CASE o \in due
    <3> DEFINE w == Changed(x.list, Callback[m])
    <3>1. x.list \in Seq(Milestones) /\ Len(x.list) \in Nat /\ d <= Len(x.list)
          /\ \A i \in 1..d : x.list[i] = list[i]
      BY <2>1, Entries DEF Listing, Agree
    <3>2. o \in 1..d /\ x.list[o] = m /\ ~(o > Len(x.list))
      BY <1>4, <1>5, <2>7, <3>1
    <3>3. m \in D /\ Callback[m].add \in Seq(Milestones)
      <4>1. m \in D
        BY <1>3, <2>7
      <4> QED
        BY <2>5, <4>1, TimelineAssumption
    <3>4. /\ Listing(w) /\ Range(w) \subseteq Range(x.list) \cup Range(Callback[m].add)
          /\ Agree(w, x.list, d)
      <4>1. Range(Callback[m].add) \cap Range(x.list) = {}
        <5> SUFFICES ASSUME NEW e \in Range(Callback[m].add), e \in Range(x.list) PROVE FALSE
          OBVIOUS
        <5>1. e \notin Range(list)
          BY <3>3
        <5>2. PICK i \in due : i <= k /\ e \in Range(Callback[list[i]].add)
          BY <2>1, <5>1
        <5>3. list[i] \in D /\ list[i] # m
          BY <1>1, <1>3, <2>2, <2>5, <5>2
        <5> QED
          BY <3>3, <5>2, <5>3
      <4>2. ASSUME NEW i \in 1..d
            PROVE  /\ Threshold[x.list[i]] \notin Callback[m].remove
                   /\ \A e \in Range(Callback[m].add) : Threshold[x.list[i]] <= Threshold[e]
        <5>1. x.list[i] = list[i] /\ Threshold[list[i]] <= new /\ Threshold[list[i]] \in Int
          BY <1>1, <1>4, <3>1
        <5>2. \A t \in Callback[m].remove : t \in Int /\ new < t
          BY <2>5, <3>3, TimelineAssumption DEF LooksAhead
        <5>3. \A e \in Range(Callback[m].add) : Threshold[e] \in Int /\ new <= Threshold[e]
          <6>1. \A e \in Range(Callback[m].add) : e \in Milestones
            BY <3>3 DEF Range
          <6> QED
            BY <3>3, <6>1, TimelineAssumption DEF LooksAhead
        <5> QED
          BY <5>1, <5>2, <5>3
      <4>3. d \in 0..Len(x.list) /\ Distinct(Callback[m].add) /\ Listing(x.list)
        BY <1>4, <2>1, <3>1, <3>3
      <4> DEFINE xs == x.list
                 effect == Callback[m]
      <4>4. w = Changed(xs, effect) /\ effect.add \in Seq(Milestones)
        BY <3>3
      <4> HIDE DEF xs, effect, w
      <4>5. /\ Listing(xs) /\ Distinct(effect.add) /\ Range(effect.add) \cap Range(xs) = {}
            /\ d \in 0..Len(xs)
            /\ \A i \in 1..d : /\ Threshold[xs[i]] \notin effect.remove
                               /\ \A e \in Range(effect.add) : Threshold[xs[i]] <= Threshold[e]
        BY <4>1, <4>2, <4>3 DEF xs, effect
      <4>6. /\ Listing(w) /\ Range(w) \subseteq Range(xs) \cup Range(effect.add)
            /\ Agree(w, xs, d)
        BY <4>4, <4>5, ChangedKeeps
      <4> QED
        BY <4>6 DEF xs, effect
    <3> HIDE DEF w
    <3>5. Len(w) \in Nat /\ d <= Len(w) /\ \A i \in 1..d : w[i] = list[i]
      BY <3>1, <3>4, Entries DEF Listing, Agree
    <3>6. z = [list |-> w, calls |-> Append(x.calls, m),
               remove |-> IF m \in OneShot THEN x.remove \cup {o} ELSE x.remove]
      <4>1. o <= Len(w) /\ w[o] = m
        BY <1>4, <3>2, <3>5
      <4>2. z = FireAt(x, o)
        BY <2>3, <2>7
      <4> HIDE DEF m, o
      <4> QED
        BY <3>2, <4>1, <4>2 DEF FireAt, w
    <3>7. Agree(z.list, list, d) /\ Listing(z.list)
      BY <1>1, <1>4, <3>4, <3>5, <3>6 DEF Agree
    <3>8. ASSUME NEW e \in Range(z.list)
          PROVE  e \in Range(list) \/ \E i \in due : i <= o /\ e \in Range(Callback[list[i]].add)
      <4>1. e \in Range(x.list) \/ e \in Range(Callback[m].add)
        BY <3>4, <3>6
      <4>2. CASE e \in Range(x.list)
        <5>1. e \in Range(list) \/ \E i \in due : i <= k /\ e \in Range(Callback[list[i]].add)
          BY <2>1, <4>2
        <5> QED
          BY <1>3, <2>2, <5>1
      <4>3. CASE e \in Range(Callback[m].add)
        BY <2>5, <2>7, <4>3
      <4> QED
        BY <4>1, <4>2, <4>3
    <3>9. Listing(z.calls) /\ Range(z.calls) = {list[i] : i \in {j \in due : j <= o}}
      <4>1. {list[i] : i \in {j \in due : j <= o}} = {list[i] : i \in {j \in due : j <= k}} \cup {m}
        BY <2>4, <2>7
      <4>2. ASSUME NEW e \in Range(x.calls) PROVE e # m /\ Threshold[e] <= Threshold[m]
        <5>1. PICK i \in due : i <= k /\ e = list[i]
          BY <2>1
        <5> QED
          BY <1>1, <1>3, <2>2, <5>1
      <4>3. Listing(x.calls) /\ Range(x.calls) = {list[i] : i \in {j \in due : j <= k}}
        BY <2>1
      <4>4. m \notin Range(x.calls) /\ \A e \in Range(x.calls) : Threshold[e] <= Threshold[m]
        BY <4>2
      <4>5. Listing(Append(x.calls, m)) /\ Range(Append(x.calls, m)) = Range(x.calls) \cup {m}
        <5> HIDE DEF m
        <5> QED
          BY <2>5, <4>3, <4>4, AppendKeeps
      <4>6. z.calls = Append(x.calls, m)
        BY <3>6
      <4> QED
        BY <4>1, <4>3, <4>5, <4>6
    <3>10. z.remove = Spent(o)
      <4>1. {i \in due \cap {o} : list[i] \in OneShot} = IF m \in OneShot THEN {o} ELSE {}
        BY <2>7
      <4>2. z.remove = IF m \in OneShot THEN Spent(k) \cup {o} ELSE Spent(k)
        BY <2>1, <3>6
      <4> QED
        BY <2>4, <4>1, <4>2
    <3>11. z = [list |-> z.list, calls |-> z.calls, remove |-> z.remove]
      BY <3>6
    <3> HIDE DEF o, Spent
    <3>12. Fine(z, o)
      BY <3>7, <3>8, <3>9, <3>10, <3>11
    <3> QED
      BY <3>12 DEF o, z
  <2> QED
    BY <2>6, <2>7
<1> HIDE DEF S
<1>10. n \in S
  BY <1>1, <1>8, <1>9, CountingUp
<1>11. Fine(f[n], n)
  BY <1>1, <1>10 DEF S
<1> DEFINE x == f[n]
<1>12. /\ y.list = Without(x.list, x.remove) /\ y.calls = x.calls
  <2>1. y = [x EXCEPT !.list = Without(@, x.remove)]
    BY <1>6
  <2>2. x = [list |-> x.list, calls |-> x.calls, remove |-> x.remove]
    BY <1>11
  <2> HIDE DEF x
  <2> DEFINE l == x.list
             c == x.calls
             r == x.remove
  <2>3. x = [list |-> l, calls |-> c, remove |-> r]
    BY <2>2
  <2> HIDE DEF l, c, r
  <2>4. y = [[list |-> l, calls |-> c, remove |-> r] EXCEPT !.list = Without(@, x.remove)]
    BY <2>1, <2>3
  <2> QED
    BY <2>3, <2>4
<1> HIDE DEF x
<1>13. /\ Listing(y.list) /\ Range(y.list) = {x.list[i] : i \in DOMAIN x.list \ x.remove}
  <2>1. Listing(x.list)
    BY <1>11 DEF x
  <2> QED
    BY <1>12, <2>1, WithoutKeeps
<1>14. Listing(y.calls) /\ Range(y.calls) = D
  <2> HIDE DEF n
  <2>1. {j \in due : j <= n} = due
    <3>1. \A j \in due : j <= n
      BY <1>1, <1>3
    <3> QED
      BY <3>1
  <2> QED
    BY <1>3, <1>11, <1>12, <2>1 DEF x
<1>15. ASSUME NEW e \in Range(y.list)
       PROVE  e \in Range(list) \/ \E m \in D : e \in Range(Callback[m].add)
  <2>1. e \in Range(x.list)
    BY <1>13 DEF Range
  <2>2. e \in Range(list) \/ \E i \in due : e \in Range(Callback[list[i]].add)
    BY <1>11, <2>1 DEF x
  <2> QED
    BY <1>3, <2>2
<1>16. ASSUME NEW e \in Range(list), Threshold[e] <= new
       PROVE  e \in Range(y.list) <=> ~(e \in D /\ e \in OneShot)
  <2>1. PICK i \in 1..n : e = list[i]
    BY <1>1
  <2>2. i \in 1..d
    BY <1>4, <1>16, <2>1
  <2>3. /\ x.list \in Seq(Milestones) /\ Len(x.list) \in Nat /\ d <= Len(x.list)
        /\ \A j \in 1..d : x.list[j] = list[j]
        /\ DOMAIN x.list = 1..Len(x.list)
        /\ \A j, l \in DOMAIN x.list : x.list[j] = x.list[l] => j = l
    <3>1. Listing(x.list) /\ Agree(x.list, list, d)
      BY <1>11 DEF x
    <3> QED
      BY <3>1, Entries DEF Listing, Agree, Distinct
  <2>4. i \in DOMAIN x.list /\ x.list[i] = e
    BY <1>4, <2>1, <2>2, <2>3
  <2>5. e \in Range(y.list) <=> i \notin x.remove
    BY <1>13, <2>3, <2>4
  <2>6. x.remove = Spent(n)
    BY <1>11 DEF x
  <2>7. e \in D <=> i \in due
    BY <1>1, <1>3, <2>1
  <2>8. i \in Spent(n) <=> i \in due /\ e \in OneShot
    BY <2>1
  <2> QED
    BY <2>5, <2>6, <2>7, <2>8
<1> QED
  BY <1>13, <1>14, <1>15, <1>16

\* Who is called is called once.
LEMMA CalledOnce ==
  ASSUME NEW list, Listing(list), NEW m
  PROVE  Cardinality({i \in DOMAIN list : list[i] = m}) = IF m \in Range(list) THEN 1 ELSE 0
<1> DEFINE I == {i \in DOMAIN list : list[i] = m}
<1>1. CASE m \in Range(list)
  <2>1. PICK i \in DOMAIN list : list[i] = m
    BY <1>1 DEF Range
  <2>2. I = {i}
    BY <2>1 DEF Listing, Distinct
  <2> QED
    BY <1>1, <2>2, FS_Singleton
<1>2. CASE m \notin Range(list)
  <2>1. I = {}
    BY <1>2 DEF Range
  <2> QED
    BY <1>2, <2>1, FS_EmptySet
<1> QED
  BY <1>1, <1>2

\* Time is a number.
LEMMA LowestIsNat ==
  ASSUME NEW at \in [Actors -> Nat], NEW on, time \in Nat
  PROVE  Lowest(at, on) \in Nat
<1> DEFINE T == {at[a] : a \in Enabled(on)}
<1>1. CASE Enabled(on) = {}
  BY <1>1 DEF Lowest
<1>2. CASE Enabled(on) # {}
  <2>1. T \subseteq Nat /\ T # {}
    BY <1>2 DEF Enabled
  <2>2. \E t \in T : \A u \in T : t <= u
    <3> HIDE DEF T
    <3> QED
      BY <2>1, LeastNumber
  <2>3. \E t \in T : \A a \in Enabled(on) : t <= at[a]
    BY <2>2
  <2>4. Lowest(at, on) = CHOOSE t \in T : \A a \in Enabled(on) : t <= at[a]
    BY <1>2 DEF Lowest
  <2>5. Lowest(at, on) \in T
    BY <2>3, <2>4
  <2> QED
    BY <2>1, <2>5
<1> QED
  BY <1>1, <1>2

\* No milestone is registered twice, before the session or by callbacks.
RegisteredOnce ==
  /\ Distinct(Initially)
  /\ \A m \in Milestones : /\ Distinct(Callback[m].add)
                           /\ Range(Callback[m].add) \cap Range(Initially) = {}
  /\ \A m, o \in Milestones :
       m # o => Range(Callback[m].add) \cap Range(Callback[o].add) = {}

\* A callback that runs while time moves on registers nothing that should have
\* fired by then, and removes only what is still to come.
CallbacksLookAhead ==
  [][status = "running" /\ time' > time =>
       \A m \in Passed(entries, time, time') : LooksAhead(m, time')]_vars

MilestoneType ==
  /\ position \in [Actors -> Nat] /\ time \in Nat
  /\ fired \in [Milestones -> Nat]
  /\ since \in [Milestones -> Nat \cup {Never}]
  /\ Listing(entries)

\* What the history variables say of milestones that are not registered yet,
\* and of those that callbacks register.
MilestoneHistory ==
  /\ \A m \in Milestones : since[m] # Never => since[m] <= time
  /\ \A m \in Milestones : since[m] = Never => m \notin Range(entries) /\ fired[m] = 0
  /\ \A a \in Milestones : \A e \in Range(Callback[a].add) : since[e] # Never => fired[a] > 0

\* No milestone fires before the session is started.
NothingFiredYet ==
  status \in {"none", "created"} =>
    /\ entries = Registered
    /\ fired = [m \in Milestones |-> 0]

MilestoneInv == MilestoneType /\ MilestoneHistory /\ NothingFiredYet /\ MilestonesOnTime

LEMMA CallbacksAreCallbacks ==
  ASSUME NEW m \in Milestones
  PROVE  Callback[m].add \in Seq(Milestones) /\ Range(Callback[m].add) \subseteq Milestones
<1>1. Callback[m].add \in Seq(Milestones)
  BY TimelineAssumption
<1> QED
  BY <1>1, Entries DEF Range

LEMMA RegisteredIsListing ==
  ASSUME RegisteredOnce
  PROVE  Listing(Registered) /\ Range(Registered) = Range(Initially) /\ Range(Initially) \subseteq Milestones
<1>1. Initially \in Seq(Milestones) /\ Distinct(Initially)
  BY TimelineAssumption DEF RegisteredOnce
<1>2. Range(Initially) \subseteq Milestones
  BY <1>1, Entries DEF Range
<1>3. /\ Listing(Registered) /\ Range(Registered) = Range(<<>>) \cup Range(Initially)
  <2>1. Range(Initially) \cap Range(<<>>) = {} /\ Listing(<<>>)
    BY Nothing
  <2>2. Registered = AddMilestones(<<>>, Initially)
    BY DEF Registered
  <2> QED
    BY <1>1, <2>1, <2>2, AddManyKeeps
<1> QED
  BY <1>2, <1>3, Nothing

\* A session as it is before it starts, and at its start.
LEMMA FreshMilestones ==
  ASSUME RegisteredOnce,
         position' \in [Actors -> Nat], time' \in Nat,
         entries' = Registered, fired' = [m \in Milestones |-> 0],
         since' = [m \in Milestones |-> IF m \in Range(Initially) THEN time' ELSE Never]
  PROVE  MilestoneInv'
<1>1. /\ Listing(Registered) /\ Range(Registered) = Range(Initially)
      /\ \A m \in Milestones : Threshold[m] \in Int
  BY RegisteredIsListing, TimelineAssumption
<1>2. Never \notin Nat
  BY DEF Never
<1>3. \A m \in Milestones : /\ fired'[m] = 0
                            /\ since'[m] = IF m \in Range(Initially) THEN time' ELSE Never
  OBVIOUS
<1>4. MilestoneType'
  BY <1>1, <1>2 DEF MilestoneType
<1>5. MilestoneHistory'
  <2>1. \A m \in Milestones : since'[m] # Never => since'[m] <= time'
    BY <1>2, <1>3
  <2>2. \A m \in Milestones : since'[m] = Never => m \notin Range(entries') /\ fired'[m] = 0
    BY <1>1, <1>2, <1>3
  <2>3. ASSUME NEW a \in Milestones, NEW e \in Range(Callback[a].add) PROVE since'[e] = Never
    <3>1. e \in Milestones /\ e \notin Range(Initially)
      BY CallbacksAreCallbacks DEF RegisteredOnce
    <3> QED
      BY <1>3, <3>1
  <2> QED
    BY <2>1, <2>2, <2>3 DEF MilestoneHistory
<1>6. NothingFiredYet'
  BY DEF NothingFiredYet
<1>7. MilestonesOnTime'
  <2> SUFFICES ASSUME NEW m \in Milestones, since'[m] # Never
               PROVE  /\ ~(since'[m] < Threshold[m] /\ Threshold[m] <= time')
                      /\ fired'[m] = 0 /\ m \in Range(entries')
    BY DEF MilestonesOnTime
  <2>1. m \in Range(Initially) /\ since'[m] = time'
    BY <1>3
  <2> QED
    BY <1>1, <1>2, <1>3, <2>1
<1> QED
  BY <1>4, <1>5, <1>6, <1>7 DEF MilestoneInv

\* Where no milestone is touched.
LEMMA MilestonesStay ==
  ASSUME MilestoneInv, UNCHANGED <<time, entries, fired, since>>,
         position' \in [Actors -> Nat],
         status' \in {"none", "created"} => status' = status
  PROVE  MilestoneInv'
<1>1. MilestoneType' /\ MilestoneHistory'
  BY DEF MilestoneInv, MilestoneType, MilestoneHistory
<1>2. NothingFiredYet' /\ MilestonesOnTime'
  BY DEF MilestoneInv, NothingFiredYet, MilestonesOnTime
<1> QED
  BY <1>1, <1>2 DEF MilestoneInv

\* Time moves on, and the milestones it passes fire.
LEMMA TimePasses ==
  ASSUME RegisteredOnce, MilestoneInv, status = "running", status' = "running",
         position' \in [Actors -> Nat],
         NEW new \in Nat, AdvanceTime(new), new > time,
         \A m \in Passed(entries, time, new) : LooksAhead(m, new)
  PROVE  MilestoneInv'
<1> DEFINE pass == AdvanceMilestones(entries, time, new)
           D == Passed(entries, time, new)
           L == Range(entries)
           P == Range(pass.list)
           On(m) == since[m] < Threshold[m] /\ Threshold[m] <= time
<1>1. /\ time \in Nat /\ fired \in [Milestones -> Nat]
      /\ since \in [Milestones -> Nat \cup {Never}] /\ Listing(entries)
      /\ L \subseteq Milestones /\ D \subseteq L
      /\ \A m \in Milestones : Threshold[m] \in Int
  BY Entries, TimelineAssumption DEF MilestoneInv, MilestoneType, Listing, Range, Passed
<1>2. \A m \in D : time < Threshold[m] /\ Threshold[m] <= new
  BY DEF Passed
<1>3. \A m \in L : time < Threshold[m] /\ Threshold[m] <= new => m \in D
  BY DEF Passed
<1>4. ASSUME NEW m \in Milestones
      PROVE  /\ since[m] # Never => since[m] <= time
             /\ since[m] = Never => m \notin L /\ fired[m] = 0
             /\ since[m] # Never => /\ fired[m] = IF On(m) THEN 1 ELSE 0
                                    /\ (m \in L) = (On(m) => m \notin OneShot)
  BY DEF MilestoneInv, MilestoneHistory, MilestonesOnTime
<1>5. \A m \in Milestones : \A e \in Range(Callback[m].add) : since[e] # Never => fired[m] > 0
  BY DEF MilestoneInv, MilestoneHistory
<1>6. ASSUME NEW m \in D PROVE fired[m] = 0 /\ since[m] # Never
  <2>1. m \in L /\ m \in Milestones /\ ~(Threshold[m] <= time)
    BY <1>1, <1>2
  <2> QED
    BY <1>4, <2>1
<1>7. ASSUME NEW m \in D PROVE \A e \in Range(Callback[m].add) : since[e] = Never
  BY <1>1, <1>5, <1>6
<1> HIDE DEF D, L, On
<1>8. ASSUME NEW m \in D
      PROVE  /\ Distinct(Callback[m].add)
             /\ Range(Callback[m].add) \cap L = {}
  <2>1. m \in Milestones
    BY <1>1
  <2>2. Range(Callback[m].add) \subseteq Milestones
    BY <2>1, CallbacksAreCallbacks
  <2> QED
    BY <1>4, <1>7, <2>1, <2>2 DEF RegisteredOnce
<1>9. /\ Listing(pass.list) /\ Listing(pass.calls) /\ Range(pass.calls) = D
      /\ \A e \in P : e \in L \/ \E m \in D : e \in Range(Callback[m].add)
      /\ \A e \in L : Threshold[e] <= new => (e \in P <=> ~(e \in D /\ e \in OneShot))
  <2>1. \A m, o \in D : m # o => Range(Callback[m].add) \cap Range(Callback[o].add) = {}
    BY <1>1 DEF RegisteredOnce
  <2>2. \A m \in D : LooksAhead(m, new)
    BY DEF D
  <2> DEFINE list == entries
             old == time
             y == AdvanceMilestones(list, old, new)
  <2>3. Listing(list) /\ old \in Int /\ D = Passed(list, old, new) /\ L = Range(list)
    BY <1>1 DEF D, L
  <2>4. \A m \in D : /\ LooksAhead(m, new)
                     /\ Distinct(Callback[m].add)
                     /\ Range(Callback[m].add) \cap Range(list) = {}
    BY <1>8, <2>2, <2>3
  <2>5. y = pass
    OBVIOUS
  <2> HIDE DEF list, old
  <2>6. /\ Listing(y.list) /\ Listing(y.calls) /\ Range(y.calls) = D
        /\ \A e \in Range(y.list) : e \in Range(list) \/ \E m \in D : e \in Range(Callback[m].add)
        /\ \A e \in Range(list) : Threshold[e] <= new =>
             (e \in Range(y.list) <=> ~(e \in D /\ e \in OneShot))
    BY <2>1, <2>3, <2>4, PassKeeps
  <2> HIDE DEF y, pass
  <2> QED
    BY <2>3, <2>5, <2>6
<1>10. /\ time' = new /\ entries' = pass.list
       /\ fired' = [m \in Milestones |->
            fired[m] + Cardinality({i \in DOMAIN pass.calls : pass.calls[i] = m})]
       /\ since' = [m \in Milestones |->
            IF m \in P \ L THEN new
            ELSE IF m \in L \ (P \cup Range(pass.calls)) THEN Never ELSE since[m]]
  BY DEF AdvanceTime, L
<1> HIDE DEF pass
<1>11. \A m \in Milestones : fired'[m] = IF m \in D THEN fired[m] + 1 ELSE fired[m]
  BY <1>1, <1>9, <1>10, CalledOnce
<1>12. \A m \in Milestones :
         since'[m] = IF m \in P \ L THEN new
                     ELSE IF m \in L \ (P \cup D) THEN Never ELSE since[m]
  BY <1>9, <1>10
<1> HIDE DEF P
<1>13. P \subseteq Milestones /\ Range(entries') = P
  BY <1>9, <1>10, Entries DEF Listing, Range, P
<1>14. ASSUME NEW m \in P, m \notin L
       PROVE  since[m] = Never /\ fired[m] = 0 /\ m \in Milestones
  BY <1>1, <1>4, <1>7, <1>9, <1>13, <1>14
<1>15. MilestoneType'
  <2>1. \A m \in Milestones : fired'[m] \in Nat /\ since'[m] \in Nat \cup {Never}
    BY <1>1, <1>11, <1>12
  <2> QED
    BY <1>9, <1>10, <2>1 DEF MilestoneType
<1>16. MilestoneHistory'
  <2>1. ASSUME NEW m \in Milestones, since'[m] # Never PROVE since'[m] <= new
    BY <1>1, <1>4, <1>12, <2>1
  <2>2. ASSUME NEW m \in Milestones, since'[m] = Never PROVE m \notin P /\ fired'[m] = 0
    <3>1. m \notin P \ L /\ m \notin D
      BY <1>6, <1>12, <2>2 DEF Never
    <3>2. CASE m \in L
      <4>1. since[m] # Never
        BY <1>4, <3>2
      <4>2. m \notin P
        BY <1>12, <2>2, <3>1, <4>1
      <4>3. ~(Threshold[m] <= new)
        BY <1>9, <3>1, <3>2, <4>2
      <4>4. ~On(m)
        BY <1>1, <4>3 DEF On
      <4> QED
        BY <1>4, <1>11, <3>1, <4>1, <4>2, <4>4
    <3>3. CASE m \notin L
      BY <1>4, <1>11, <1>12, <2>2, <3>1, <3>3
    <3> QED
      BY <3>2, <3>3
  <2>3. ASSUME NEW a \in Milestones, NEW e \in Range(Callback[a].add), since'[e] # Never
        PROVE  fired'[a] > 0
    <3>1. e \in Milestones
      BY CallbacksAreCallbacks
    <3>2. CASE since[e] # Never
      BY <1>1, <1>5, <1>11, <3>2
    <3>3. CASE since[e] = Never
      <4>1. e \in P /\ e \notin L
        BY <1>12, <2>3, <3>1, <3>3
      <4>2. PICK m \in D : e \in Range(Callback[m].add)
        BY <1>9, <4>1
      <4>3. m = a
        BY <1>1, <2>3, <4>2 DEF RegisteredOnce
      <4> QED
        BY <1>6, <1>11, <4>2, <4>3
    <3> QED
      BY <3>2, <3>3
  <2> QED
    BY <1>10, <1>13, <2>1, <2>2, <2>3 DEF MilestoneHistory
<1>17. NothingFiredYet'
  BY DEF NothingFiredYet
<1>18. MilestonesOnTime'
  <2> SUFFICES ASSUME NEW m \in Milestones, since'[m] # Never
               PROVE  LET due == since'[m] < Threshold[m] /\ Threshold[m] <= new
                      IN /\ fired'[m] = IF due THEN 1 ELSE 0
                         /\ (m \in P) = (due => m \notin OneShot)
    BY <1>10, <1>13 DEF MilestonesOnTime
  <2>1. CASE m \in D
    <3>1. m \in L /\ since'[m] = since[m] /\ fired'[m] = 1
      BY <1>1, <1>6, <1>11, <1>12, <2>1
    <3>2. since'[m] < Threshold[m] /\ Threshold[m] <= new
      BY <1>1, <1>2, <1>4, <1>6, <2>1, <3>1
    <3>3. m \in P <=> m \notin OneShot
      BY <1>9, <2>1, <3>1, <3>2
    <3> QED
      BY <3>1, <3>2, <3>3
  <2>2. CASE m \in L /\ m \notin D /\ Threshold[m] <= new
    <3>1. m \in P /\ since'[m] = since[m] /\ fired'[m] = fired[m]
      BY <1>9, <1>11, <1>12, <2>2
    <3>2. Threshold[m] <= time
      BY <1>1, <1>3, <2>2
    <3>3. On(m) <=> since'[m] < Threshold[m] /\ Threshold[m] <= new
      BY <2>2, <3>1, <3>2 DEF On
    <3> QED
      BY <1>4, <2>2, <3>1, <3>3
  <2>3. CASE m \in L /\ m \notin D /\ ~(Threshold[m] <= new)
    <3>1. m \in P /\ since'[m] = since[m] /\ fired'[m] = fired[m]
      BY <1>11, <1>12, <2>3
    <3>2. ~On(m)
      BY <1>1, <2>3 DEF On
    <3> QED
      BY <1>4, <2>3, <3>1, <3>2
  <2>4. CASE m \notin L /\ m \in P
    <3>1. since'[m] = new /\ fired'[m] = 0
      BY <1>1, <1>11, <1>12, <1>14, <2>4
    <3>2. ~(since'[m] < Threshold[m] /\ Threshold[m] <= new)
      BY <1>1, <3>1
    <3> QED
      BY <2>4, <3>1, <3>2
  <2>5. CASE m \notin L /\ m \notin P
    <3>1. since'[m] = since[m] /\ fired'[m] = fired[m]
      BY <1>1, <1>11, <1>12, <2>5
    <3>2. On(m) /\ m \in OneShot /\ fired[m] = 1
      BY <1>4, <2>5, <3>1
    <3>3. since'[m] < Threshold[m] /\ Threshold[m] <= new
      BY <1>1, <3>1, <3>2 DEF On
    <3> QED
      BY <2>5, <3>1, <3>2, <3>3
  <2> QED
    BY <2>1, <2>2, <2>3, <2>4, <2>5
<1> QED
  BY <1>15, <1>16, <1>17, <1>18 DEF MilestoneInv

LEMMA MilestonesAtStart ==
  ASSUME RegisteredOnce, MilestoneInv, Start
  PROVE  MilestoneInv'
<1>1. /\ position \in [Actors -> Nat] /\ position' = position /\ time \in Nat
      /\ time' = Lowest(position, enabled)
      /\ entries = Registered /\ fired = [m \in Milestones |-> 0]
      /\ entries' = entries /\ fired' = fired
      /\ since' = [m \in Milestones |-> IF m \in Range(Initially) THEN time' ELSE Never]
  BY DEF MilestoneInv, MilestoneType, NothingFiredYet, Start
<1>2. time' \in Nat
  BY <1>1, LowestIsNat
<1> QED
  BY <1>1, <1>2, FreshMilestones

LEMMA MilestonesAtInit ==
  ASSUME RegisteredOnce, InitTimeline
  PROVE  MilestoneInv
<1>1. /\ Listing(Registered) /\ Range(Registered) = Range(Initially)
      /\ \A m \in Milestones : Threshold[m] \in Int
  BY RegisteredIsListing, TimelineAssumption
<1>2. Never \notin Nat
  BY DEF Never
<1>3. /\ position = [a \in Actors |-> 0] /\ time = 0 /\ entries = Registered
      /\ fired = [m \in Milestones |-> 0]
      /\ since = [m \in Milestones |-> IF m \in Range(Initially) THEN 0 ELSE Never]
  BY DEF InitTimeline, Unregistered
<1>4. MilestoneType
  <2>1. position \in [Actors -> Nat] /\ fired \in [Milestones -> Nat]
        /\ since \in [Milestones -> Nat \cup {Never}]
    BY <1>3
  <2> QED
    BY <1>1, <1>3, <2>1 DEF MilestoneType
<1>5. MilestoneHistory
  <2>1. ASSUME NEW a \in Milestones, NEW e \in Range(Callback[a].add) PROVE since[e] = Never
    <3>1. e \in Milestones /\ e \notin Range(Initially)
      BY CallbacksAreCallbacks DEF RegisteredOnce
    <3> QED
      BY <1>3, <3>1
  <2> QED
    BY <1>1, <1>2, <1>3, <2>1 DEF MilestoneHistory
<1>6. NothingFiredYet
  BY <1>3 DEF NothingFiredYet
<1>7. MilestonesOnTime
  <2> SUFFICES ASSUME NEW m \in Milestones, since[m] # Never
               PROVE  /\ ~(since[m] < Threshold[m] /\ Threshold[m] <= time)
                      /\ fired[m] = 0 /\ m \in Range(entries)
    BY DEF MilestonesOnTime
  <2> QED
    BY <1>1, <1>3
<1> QED
  BY <1>4, <1>5, <1>6, <1>7 DEF MilestoneInv

LEMMA MilestonesAtConstruct ==
  ASSUME RegisteredOnce, Construct
  PROVE  MilestoneInv'
<1>1. /\ position' \in [Actors -> Nat] /\ time' = 0
      /\ entries' = Registered /\ fired' = [m \in Milestones |-> 0]
      /\ since' = [m \in Milestones |-> IF m \in Range(Initially) THEN 0 ELSE Never]
  BY TimelineAssumption DEF Construct, Unregistered
<1> QED
  BY <1>1, FreshMilestones

LEMMA MilestonesAtSuccess ==
  ASSUME RegisteredOnce, MilestoneInv, Succeed,
         status = "running" /\ time' > time =>
           \A m \in Passed(entries, time, time') : LooksAhead(m, time')
  PROVE  MilestoneInv'
<1>1. PICK a \in Actors, cost \in 1..2, keep \in BOOLEAN :
        \E toggled \in {{}} \cup {{b} : b \in Actors} : ActionSucceeds(a, cost, toggled, keep)
  BY DEF Succeed
<1>2. PICK toggled \in {{}} \cup {{b} : b \in Actors} : ActionSucceeds(a, cost, toggled, keep)
  BY <1>1
<1> DEFINE at == [position EXCEPT ![a] = @ + cost]
           on == [b \in Actors |-> IF b \in toggled THEN ~enabled[b] ELSE enabled[b]]
           new == Lowest(at, on)
<1>3. /\ status = "running" /\ status' = status /\ position' = at /\ AdvanceTime(new)
  BY <1>2 DEF ActionSucceeds
<1>4. at \in [Actors -> Nat] /\ time \in Nat
  BY DEF MilestoneInv, MilestoneType
<1> HIDE DEF at, on
<1>5. new \in Nat
  BY <1>4, LowestIsNat
<1> HIDE DEF new
<1>6. CASE new > time
  <2>1. time' = new
    BY <1>3, <1>6 DEF AdvanceTime
  <2>2. \A m \in Passed(entries, time, new) : LooksAhead(m, new)
    BY <1>3, <1>6, <2>1
  <2>3. status' = "running" /\ position' \in [Actors -> Nat]
    BY <1>3, <1>4
  <2> QED
    BY <1>3, <1>5, <1>6, <2>2, <2>3, TimePasses
<1>7. CASE ~(new > time)
  <2>1. UNCHANGED <<time, entries, fired, since>>
    BY <1>3, <1>7 DEF AdvanceTime
  <2> QED
    BY <1>3, <1>4, <2>1, MilestonesStay
<1> QED
  BY <1>6, <1>7

LEMMA MilestonesInPlay ==
  ASSUME RegisteredOnce, MilestoneInv, NextTimeline,
         status = "running" /\ time' > time =>
           \A m \in Passed(entries, time, time') : LooksAhead(m, time')
  PROVE  MilestoneInv'
<1>1. position \in [Actors -> Nat]
  BY DEF MilestoneInv, MilestoneType
<1>2. CASE Start
  BY <1>2, MilestonesAtStart
<1>3. CASE Tick
  <2>1. UNCHANGED <<time, entries, fired, since>> /\ position' = position
        /\ (status' \in {"none", "created"} => status' = status)
    BY <1>3 DEF Tick
  <2> QED
    BY <1>1, <2>1, MilestonesStay
<1>4. CASE \/ \E a \in Actors : Submit(a)
           \/ \E who \in (SUBSET Actors) \ {{}, {active}} : OpenReaction(who)
           \/ ForceClose \/ ActionFails
  <2>1. UNCHANGED <<time, entries, fired, since>> /\ position' = position /\ status' = status
    BY <1>4 DEF Submit, OpenReaction, ForceClose, ActionFails
  <2> QED
    BY <1>1, <2>1, MilestonesStay
<1>5. CASE Succeed
  BY <1>5, MilestonesAtSuccess
<1> QED
  BY <1>2, <1>3, <1>4, <1>5 DEF NextTimeline

\* A milestone fires if and only if time has passed its threshold since it was
\* registered, and then once: for any actors, milestones and callbacks, as
\* long as no milestone is registered twice and callbacks look ahead.  The
\* places by which the pass of advance() knows what is due would otherwise be
\* those of other entries.
THEOREM MilestonesComeOnTime ==
  ASSUME RegisteredOnce
  PROVE  Spec /\ CallbacksLookAhead => []MilestonesOnTime
<1> DEFINE Ahead == status = "running" /\ time' > time =>
                      \A m \in Passed(entries, time, time') : LooksAhead(m, time')
<1>1. Init => MilestoneInv
  BY MilestonesAtInit DEF Init
<1>2. MilestoneInv /\ [Next]_vars /\ [Ahead]_vars => MilestoneInv'
  <2> SUFFICES ASSUME MilestoneInv, [Next]_vars, [Ahead]_vars PROVE MilestoneInv'
    OBVIOUS
  <2>1. position \in [Actors -> Nat]
    BY DEF MilestoneInv, MilestoneType
  <2>2. CASE UNCHANGED timelineVars
    <3>1. /\ UNCHANGED <<time, entries, fired, since>>
          /\ position' = position /\ status' = status
      BY <2>2 DEF timelineVars
    <3> QED
      BY <2>1, <3>1, MilestonesStay
  <2>3. CASE NewGameSession
    BY <2>3, MilestonesAtConstruct DEF NewGameSession
  <2>4. CASE Play /\ ~UNCHANGED timelineVars
    <3>1. Ahead
      BY <2>4 DEF vars
    <3> QED
      BY <2>4, <3>1, MilestonesInPlay DEF Play
  <2>5. Next => UNCHANGED timelineVars \/ NewGameSession \/ Play
    BY DEF Next, Choose, Finish, Done, vars
  <2>6. UNCHANGED vars => UNCHANGED timelineVars
    BY DEF vars
  <2> QED
    BY <2>2, <2>3, <2>4, <2>5, <2>6
<1>3. MilestoneInv => MilestonesOnTime
  BY DEF MilestoneInv
<1> QED
  BY <1>1, <1>2, <1>3, PTL DEF Spec, CallbacksLookAhead
=============================================================================
