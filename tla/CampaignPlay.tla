---------------------------- MODULE CampaignPlay ----------------------------
(***************************************************************************)
(* A campaign that is played: start_session() names the session for which  *)
(* the game builds a GameSession with a timeline, and the end of that      *)
(* GameSession is reported by complete_current_session().                  *)
(***************************************************************************)
EXTENDS Timeline, Campaign

CONSTANT MaxStarts  \* bound on the number of sessions started

VARIABLE starts     \* the number of sessions started

vars == <<timelineVars, campaignVars, starts>>

Init ==
    /\ InitCampaign
    /\ InitTimeline
    /\ starts = 0

\* The game drops the GameSession it had, if any, and builds a new one.
NewGameSession == Construct /\ starts' = starts + 1

\* A session is chosen from the menu, also while another one is played.
Choose(s) ==
    /\ starts < MaxStarts
    /\ StartSession(s)
    /\ NewGameSession

Finish(victory, next) ==
    /\ status = "completed"
    /\ CompleteCurrent(victory, next)
    /\ IF next = NoSession THEN UNCHANGED <<timelineVars, starts>>
       ELSE starts < MaxStarts /\ NewGameSession

Play == NextTimeline /\ UNCHANGED <<campaignVars, starts>>

Done ==
    /\ starts = MaxStarts /\ current = NoSession
    /\ UNCHANGED vars

Next ==
    \/ Play
    \/ \E s \in Sessions : Choose(s)
    \/ \E victory \in BOOLEAN, next \in Sessions \cup {NoSession} :
          Finish(victory, next)
    \/ Done

Spec == Init /\ [][Next]_vars
-----------------------------------------------------------------------------
(* Properties *)

\* A campaign that is not complete has a session that can be played and was
\* not: what unlocks a session is that others were completed, in any order
\* and with any result, also when they are replayed or dropped.
NeverStuck ==
    IsComplete(results) \/
        \E s \in unlocked : ~IsCompleted(results, s)

\* Every session that is unlocked in play is announced once, only after the
\* last of the sessions it requires, and the end of the campaign when the last
\* session is completed.
AnnouncedOnce ==
    /\ announced = [s \in Sessions |-> IF s \in unlocked \ Initial THEN 1 ELSE 0]
    /\ \A s \in unlocked \ Initial : Unlocks(results, s)
    /\ finished = IsComplete(results)
=============================================================================
