------------------------------ MODULE Campaign ------------------------------
(***************************************************************************)
(* gmFlow::Campaign and CampaignState: sessions that unlock one another,   *)
(* at most one of them current, each with the result of the last time it   *)
(* was played.  Callbacks run inside complete_current_session() and may    *)
(* start a session there.                                                  *)
(***************************************************************************)
EXTENDS Integers, Sequences, FiniteSets, SequencesExt

CONSTANTS
    Definitions,  \* the session definitions, in the order given
    Requires,     \* unlock_requires of each session
    Initial,      \* the sessions with initial_unlock
    NoSession

Sessions == Range(Definitions)

ASSUME CampaignAssumption ==
    /\ Definitions \in Seq(Sessions) /\ Len(Definitions) > 0
    /\ Requires \in [Sessions -> SUBSET Sessions]
    /\ Initial \subseteq Sessions
    /\ NoSession \notin Sessions

VARIABLES
    results,    \* CampaignState::_results: "none", "lost" or "won"
    unlocked,   \* CampaignState::_unlocked
    current,    \* _current_session_id
    announced,  \* history: how often EVT_CAMPAIGN_SESSION_UNLOCKED told of each
    finished    \* history: was EVT_CAMPAIGN_COMPLETED announced

campaignVars == <<results, unlocked, current, announced, finished>>

InitCampaign ==
    /\ results = [s \in Sessions |-> "none"]
    /\ unlocked = Initial
    /\ current = NoSession
    /\ announced = [s \in Sessions |-> 0]
    /\ finished = FALSE

IsCompleted(result, s) == result[s] # "none"

IsComplete(result) == \A s \in Sessions : IsCompleted(result, s)

\* start_session(): whatever was current is forgotten without a word.
StartSession(s) ==
    /\ s \in unlocked
    /\ current' = s
    /\ UNCHANGED <<results, unlocked, announced, finished>>

\* Mutant of Unlocks: only a victory counts.
UnlocksByVictory(result, s) == \A r \in Requires[s] : result[r] = "won"

\* What a session needs is completed sessions, whether won or lost.
Unlocks(result, s) == \A r \in Requires[s] : IsCompleted(result, r)

\* Mutant of NewlyUnlocked: what is unlocked already is not passed over.
NewlyUnlockedAgain(result) == {s \in Sessions : Unlocks(result, s)}

\* evaluate_unlocks(): the sessions it unlocks, each with a callback.
NewlyUnlocked(result) == {s \in Sessions \ unlocked : Unlocks(result, s)}

\* complete_current_session(): the result replaces an earlier one; callbacks
\* that are made may start a session that is unlocked by then, `next`.
CompleteCurrent(victory, next) ==
    LET result == [results EXCEPT ![current] = IF victory THEN "won" ELSE "lost"]
        new == NewlyUnlocked(result)
        calls == new # {} \/ IsComplete(result)
    IN /\ current # NoSession
       /\ next # NoSession => calls /\ next \in unlocked \cup new
       /\ results' = result
       /\ unlocked' = unlocked \cup new
       /\ announced' = [s \in Sessions |-> announced[s] + IF s \in new THEN 1 ELSE 0]
       /\ finished' = (finished \/ IsComplete(result))
       /\ current' = next
=============================================================================
