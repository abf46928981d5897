------------------------------ MODULE TrisProofs ------------------------------
(***************************************************************************)
(* The outcome of a Tic-Tac-Toe game is right on every board and with      *)
(* every set of winning lines, whatever commands arrive and whether or not *)
(* a window listens; the marks alternate; and a window that heard the game *)
(* from its opening events on shows it once it has handled what is sent.   *)
(***************************************************************************)
EXTENDS TrisTable, FiniteSetTheorems, SequenceTheorems, WellFoundedInduction, TLAPS

\* The inductive invariant: the engine's types are needed with the outcome,
\* for the statuses of a move are computed from the statuses before it.
IInv == EngineTypeOK /\ OutcomeRight

\* A move by m can complete lines of m only.
LEMMA MoveLinesItsOwn ==
    ASSUME EngineTypeOK, NEW m \in Mark, NEW c \in Cells, cells[c] = Empty,
           NEW p \in Mark, Lined(Marked(m, c), p), ~Lined(cells, p)
    PROVE  p = m
<1>1. PICK l \in Lines : \A d \in l : Marked(m, c)[d] = p
  BY DEF Lined
<1>2. l \subseteq Cells
  BY LinesAssumption
<1>3. CASE c \in l
  <2>1. Marked(m, c)[c] = m
    BY DEF Marked, EngineTypeOK
  <2>2. QED
    BY <1>1, <1>3, <2>1
<1>4. CASE c \notin l
  <2>1. \A d \in l : cells[d] = p
    BY <1>1, <1>2, <1>4 DEF Marked, EngineTypeOK
  <2>2. QED
    BY <2>1 DEF Lined
<1>5. QED
  BY <1>3, <1>4

\* A board that nobody has marked is undecided.
LEMMA BlankUndecided ==
    ASSUME NEW board, board = [c \in Cells |-> Empty]
    PROVE  Evaluate(board) = "NONE" /\ \A m \in Mark : ~Lined(board, m)
<1>1. ASSUME NEW m \in Mark, NEW l \in Lines
      PROVE  \E c \in l : board[c] # m
  <2>1. PICK c \in l : c \in Cells
    BY LinesAssumption
  <2>2. board[c] = Empty
    BY <2>1
  <2>3. QED
    BY <2>1, <2>2 DEF Mark, Empty
<1>2. ~IsFull(board)
  BY LinesAssumption DEF IsFull
<1>3. QED
  BY <1>1, <1>2 DEF Evaluate, Lined

\* What a legal move finds: a running, undecided game without results.
LEMMA LegalFinds ==
    ASSUME IInv, NEW m, NEW c, Legal(m, c)
    PROVE  /\ m \in Mark /\ c \in Cells /\ cells[c] = Empty /\ m = active
           /\ phase # "BOOTSTRAP"
           /\ \A p \in Mark : ~Lined(cells, p)
           /\ \A p \in Mark : "WINNER" \notin statuses[p] /\ "DRAW" \notin statuses[p]
<1>1. /\ m \in Mark /\ c \in Cells /\ cells[c] = Empty /\ m = active /\ IsActive
  BY DEF Legal
<1>2. phase # "BOOTSTRAP"
  BY <1>1 DEF IsActive
<1>3. Evaluate(cells) = "NONE"
  BY <1>1, <1>2 DEF IInv, OutcomeRight
<1>4. \A p \in Mark : ~Lined(cells, p)
  BY <1>3 DEF Evaluate
<1>5. QED
  BY <1>1, <1>2, <1>3, <1>4 DEF IInv, OutcomeRight

\* A new game starts undecided, with the first player on turn.
LEMMA StartGameRight ==
    ASSUME NEW dice, NEW first \in Mark, StartGame(dice, first)
    PROVE  IInv'
<1>1. /\ cells' = [c \in Cells |-> Empty]
      /\ statuses' = [m \in Mark |-> IF m = first THEN {"ACTIVE_TURN"} ELSE {}]
      /\ starter' = first /\ active' = first
      /\ phase' = "PLAYER1_TURN" /\ turn' = "X"
  BY DEF StartGame, ActorFor
<1>2. EngineTypeOK'
  BY <1>1 DEF EngineTypeOK, Phases, Mark
<1>3. Evaluate(cells') = "NONE" /\ \A m \in Mark : ~Lined(cells', m)
  BY <1>1, BlankUndecided
<1>4. OutcomeRight'
  BY <1>1, <1>3 DEF OutcomeRight, IsActive, Mark
<1>5. QED
  BY <1>2, <1>4 DEF IInv

\* A winning move gives the badge to the one player who has a line.
LEMMA WinRight ==
    ASSUME IInv, NEW m, NEW c, Win(m, c)
    PROVE  IInv'
<1> DEFINE after == Marked(m, c)
<1>1. /\ m \in Mark /\ c \in Cells /\ cells[c] = Empty
      /\ \A p \in Mark : ~Lined(cells, p)
      /\ \A p \in Mark : "WINNER" \notin statuses[p] /\ "DRAW" \notin statuses[p]
  BY LegalFinds DEF Win
<1>2. /\ Evaluate(after) = "WIN" /\ cells' = after
      /\ statuses' = [p \in Mark |-> (statuses[p] \ {"ACTIVE_TURN"})
                                      \cup (IF p = m THEN {"WINNER"} ELSE {})]
      /\ phase' = "GAME_OVER" /\ turn' = Empty
      /\ active' = active /\ starter' = starter
  BY DEF Win, SetPhase, ActorFor
<1>3. EngineTypeOK'
  <2>1. cells' \in [Cells -> Mark \cup {Empty}]
    BY <1>1, <1>2 DEF IInv, EngineTypeOK, Marked
  <2>2. statuses' \in [Mark -> SUBSET {"ACTIVE_TURN", "WINNER", "DRAW"}]
    BY <1>2 DEF IInv, EngineTypeOK
  <2>3. QED
    BY <1>2, <2>1, <2>2 DEF IInv, EngineTypeOK, Phases
<1>4. \A p \in Mark : Lined(after, p) <=> p = m
  <2>1. \A p \in Mark : Lined(after, p) => p = m
    BY <1>1, MoveLinesItsOwn DEF IInv
  <2>2. \E p \in Mark : Lined(after, p)
    BY <1>2 DEF Evaluate
  <2>3. QED
    BY <2>1, <2>2
<1>5. OutcomeRight'
  BY <1>1, <1>2, <1>4 DEF OutcomeRight, IsActive, Mark
<1>6. QED
  BY <1>3, <1>5 DEF IInv

\* A draw is announced only on a full board without a line.
LEMMA DrawRight ==
    ASSUME IInv, NEW m, NEW c, Draw(m, c)
    PROVE  IInv'
<1> DEFINE after == Marked(m, c)
<1>1. /\ m \in Mark /\ c \in Cells
      /\ \A p \in Mark : "WINNER" \notin statuses[p] /\ "DRAW" \notin statuses[p]
  BY LegalFinds DEF Draw
<1>2. /\ Evaluate(after) = "DRAW" /\ cells' = after
      /\ statuses' = [p \in Mark |-> (statuses[p] \ {"ACTIVE_TURN"}) \cup {"DRAW"}]
      /\ phase' = "GAME_OVER" /\ turn' = Empty
      /\ active' = active /\ starter' = starter
  BY DEF Draw, SetPhase, ActorFor
<1>3. EngineTypeOK'
  <2>1. cells' \in [Cells -> Mark \cup {Empty}]
    BY <1>1, <1>2 DEF IInv, EngineTypeOK, Marked
  <2>2. statuses' \in [Mark -> SUBSET {"ACTIVE_TURN", "WINNER", "DRAW"}]
    BY <1>2 DEF IInv, EngineTypeOK
  <2>3. QED
    BY <1>2, <2>1, <2>2 DEF IInv, EngineTypeOK, Phases
<1>4. \A p \in Mark : ~Lined(after, p)
  BY <1>2 DEF Evaluate
<1>5. OutcomeRight'
  BY <1>1, <1>2, <1>4 DEF OutcomeRight, IsActive, Mark
<1>6. QED
  BY <1>3, <1>5 DEF IInv

\* A move that decides nothing hands the turn over and leaves no result.
LEMMA ContinueRight ==
    ASSUME IInv, NEW m, NEW c, Continue(m, c)
    PROVE  IInv'
<1> DEFINE after == Marked(m, c)
<1>1. /\ m \in Mark /\ c \in Cells /\ m = active
      /\ \A p \in Mark : "WINNER" \notin statuses[p] /\ "DRAW" \notin statuses[p]
  BY LegalFinds DEF Continue
<1>2. /\ Evaluate(after) = "NONE" /\ cells' = after
      /\ active' = Opponent(m) /\ starter' = starter
      /\ statuses' = [p \in Mark |-> IF p = Opponent(m)
                                      THEN statuses[p] \cup {"ACTIVE_TURN"}
                                      ELSE statuses[p] \ {"ACTIVE_TURN"}]
      /\ phase' = PhaseFor(Opponent(m)) /\ turn' = ActorFor(PhaseFor(Opponent(m)))
  BY DEF Continue, SetPhase
<1>3. phase' \in {"PLAYER1_TURN", "PLAYER2_TURN"} /\ turn' \in Mark /\ active' \in Mark
  BY <1>2 DEF PhaseFor, ActorFor, Mark, Opponent
<1>4. EngineTypeOK'
  <2>1. cells' \in [Cells -> Mark \cup {Empty}]
    BY <1>1, <1>2 DEF IInv, EngineTypeOK, Marked
  <2>2. statuses' \in [Mark -> SUBSET {"ACTIVE_TURN", "WINNER", "DRAW"}]
    BY <1>2 DEF IInv, EngineTypeOK
  <2>3. QED
    BY <1>2, <1>3, <2>1, <2>2 DEF IInv, EngineTypeOK, Phases
<1>5. \A p \in Mark : ~Lined(after, p)
  BY <1>2 DEF Evaluate
<1>6. \A p \in Mark : "ACTIVE_TURN" \in statuses'[p] <=> p = active'
  <2>1. \A p \in Mark : p # Opponent(m) => "ACTIVE_TURN" \notin statuses'[p]
    BY <1>2
  <2>2. Opponent(m) \in Mark => "ACTIVE_TURN" \in statuses'[Opponent(m)]
    BY <1>2
  <2>3. QED
    BY <1>2, <2>1, <2>2
<1>7. \A p \in Mark : "WINNER" \notin statuses'[p] /\ "DRAW" \notin statuses'[p]
  BY <1>1, <1>2
<1>8. OutcomeRight'
  BY <1>2, <1>3, <1>5, <1>6, <1>7 DEF OutcomeRight, IsActive, Mark
<1>9. QED
  BY <1>4, <1>8 DEF IInv

\* The engine's state is all the invariant reads.
LEMMA IdleRight ==
    ASSUME IInv, UNCHANGED engineVars
    PROVE  IInv'
  BY DEF IInv, EngineTypeOK, OutcomeRight, engineVars, IsActive, Evaluate, Lined, IsFull

LEMMA MoveRight ==
    ASSUME IInv, NEW m, NEW c, HandleMove(m, c)
    PROVE  IInv'
<1>1. CASE RefuseMove(m, c)
  BY <1>1, IdleRight DEF RefuseMove
<1>2. QED
  BY <1>1, WinRight, DrawRight, ContinueRight DEF HandleMove

LEMMA NewGameRight ==
    ASSUME NEW dice, NewGame(dice)
    PROVE  IInv'
<1>1. PICK first \in (IF dice THEN Mark ELSE {"X"}) : StartGame(dice, first)
  BY DEF NewGame
<1>2. first \in Mark
  BY <1>1 DEF Mark
<1>3. QED
  BY <1>1, <1>2, StartGameRight

LEMMA InitRight == Init => IInv
<1> SUFFICES ASSUME Init PROVE IInv
  OBVIOUS
<1>1. EngineTypeOK
  BY DEF Init, GameInit, EngineTypeOK, Mark, Phases
<1>2. OutcomeRight
  BY DEF Init, GameInit, OutcomeRight
<1>3. QED
  BY <1>1, <1>2 DEF IInv

LEMMA NextRight == IInv /\ [Next]_vars => IInv'
<1> SUFFICES ASSUME IInv, [Next]_vars PROVE IInv'
  OBVIOUS
<1>1. ASSUME NEW c \in Cells, Click(c) PROVE IInv'
  BY <1>1, IdleRight DEF Click, Command, gameVars
<1>2. ASSUME NEW dice \in BOOLEAN, Reload(dice) PROVE IInv'
  BY <1>2, IdleRight DEF Reload, Command, gameVars
<1>3. ASSUME Handle PROVE IInv'
  <2> DEFINE cmd == Head(commands)
  <2>1. CASE HandleMove(cmd.player, cmd.cell)
    BY <2>1, MoveRight
  <2>2. CASE NewGame(cmd.dice)
    BY <2>2, NewGameRight
  <2>3. QED
    BY <1>3, <2>1, <2>2 DEF Handle
<1>4. ASSUME HandleOther PROVE IInv'
  BY <1>4, MoveRight, NewGameRight DEF HandleOther
<1>5. ASSUME SendEvent \/ Receive \/ Close \/ Open PROVE IInv'
  BY <1>5, IdleRight DEF SendEvent, Receive, Close, Open, gameVars
<1>6. ASSUME UNCHANGED vars PROVE IInv'
  BY <1>6, IdleRight DEF vars, gameVars
<1>7. QED
  BY <1>1, <1>2, <1>3, <1>4, <1>5, <1>6 DEF Next

\* A legal move adds one mark of the mover and none of the other.
LEMMA MoveCounts ==
    ASSUME IInv, NEW m, NEW c, Legal(m, c), cells' = Marked(m, c)
    PROVE  /\ Count(m) \in Nat /\ Count(m)' = Count(m) + 1
           /\ Count(Opponent(m)) \in Nat /\ Count(Opponent(m))' = Count(Opponent(m))
<1> DEFINE Set(p) == {d \in Cells : cells[d] = p}
<1>1. m \in Mark /\ c \in Cells /\ cells[c] = Empty
  BY DEF Legal
<1>2. \A p : IsFiniteSet(Set(p)) /\ Cardinality(Set(p)) \in Nat
  <2>1. TAKE p
  <2>2. IsFiniteSet(Set(p))
    BY LinesAssumption, FS_Subset
  <2>3. QED
    BY <2>2, FS_CardinalityType
<1>3. {d \in Cells : cells'[d] = m} = Set(m) \cup {c} /\ c \notin Set(m)
  BY <1>1 DEF IInv, EngineTypeOK, Marked, Mark, Empty
<1>4. {d \in Cells : cells'[d] = Opponent(m)} = Set(Opponent(m))
  <2>1. Opponent(m) # m /\ Opponent(m) # Empty
    BY <1>1 DEF Mark, Empty, Opponent
  <2>2. \A d \in Cells : cells'[d] = Opponent(m) <=> cells[d] = Opponent(m)
    BY <1>1, <2>1 DEF IInv, EngineTypeOK, Marked
  <2>3. QED
    BY <2>2
<1>5. Cardinality(Set(m) \cup {c}) = Cardinality(Set(m)) + 1
  <2>1. IsFiniteSet(Set(m)) /\ c \notin Set(m)
    BY <1>2, <1>3
  <2> HIDE DEF Set
  <2>2. QED
    BY <2>1, FS_AddElement
<1>6. /\ Count(m)' = Cardinality(Set(m) \cup {c}) /\ Count(m) = Cardinality(Set(m))
      /\ Count(Opponent(m))' = Cardinality(Set(Opponent(m)))
      /\ Count(Opponent(m)) = Cardinality(Set(Opponent(m)))
  BY <1>3, <1>4 DEF Count
<1>7. QED
  BY <1>2, <1>5, <1>6

\* A legal move keeps the players' alternation.
LEMMA MoveAlternates ==
    ASSUME IInv, MarksAlternate, NEW m, NEW c, Legal(m, c), cells' = Marked(m, c),
           starter' = starter, active' = Opponent(m) \/ ~IsActive'
    PROVE  MarksAlternate'
<1>1. m \in Mark /\ m = active /\ IsActive /\ starter \in Mark
  BY DEF Legal, IInv, EngineTypeOK
<1>2. /\ Count(m) \in Nat /\ Count(m)' = Count(m) + 1
      /\ Count(Opponent(m)) \in Nat /\ Count(Opponent(m))' = Count(Opponent(m))
  BY MoveCounts
<1>3. m # Opponent(m) /\ Opponent(Opponent(m)) = m
  BY <1>1 DEF Mark, Opponent
<1>4. CASE m = starter
  <2>1. Count(m) = Count(Opponent(m))
    BY <1>1, <1>4 DEF MarksAlternate
  <2>2. /\ Count(starter)' = Count(m) + 1
        /\ Count(Opponent(starter))' = Count(Opponent(m))
    BY <1>2, <1>4 DEF Count
  <2>3. QED
    BY <1>2, <1>3, <1>4, <2>1, <2>2 DEF MarksAlternate
<1>5. CASE m # starter
  <2>1. starter = Opponent(m)
    BY <1>1, <1>5 DEF Mark, Opponent
  <2>2. Count(starter) = Count(m) + 1
    BY <1>1, <1>2, <1>3, <1>5, <2>1 DEF MarksAlternate
  <2>3. /\ Count(Opponent(starter))' = Count(m) + 1
        /\ Count(starter)' = Count(Opponent(m))
    BY <1>2, <1>3, <2>1 DEF Count
  <2>4. QED
    BY <1>2, <1>3, <1>5, <2>1, <2>2, <2>3 DEF MarksAlternate
<1>6. QED
  BY <1>4, <1>5

\* A game of Tic-Tac-Toe always has the outcome its board shows: it is over
\* exactly on a line or a full board, the winner's badge is on the one player
\* with a line, both drew only without one, and nobody is on turn afterwards,
\* on every board, with every set of lines and every bound (TrisEngine.cpp
\* handle_move and start_game).
THEOREM OutcomeAlwaysRight == Spec => []OutcomeRight
<1>1. IInv => OutcomeRight
  BY DEF IInv
<1>2. QED
  BY InitRight, NextRight, <1>1, PTL DEF Spec

\* On a blank board nobody is ahead.
LEMMA BlankAlternates ==
    ASSUME cells = [c \in Cells |-> Empty], starter \in Mark, IsActive => active = starter
    PROVE  MarksAlternate
<1>1. \A m \in Mark : Count(m) = 0
  <2>1. TAKE m \in Mark
  <2>2. {c \in Cells : cells[c] = m} = {}
    BY DEF Mark, Empty
  <2>3. QED
    BY <2>2, FS_EmptySet DEF Count
<1>2. Opponent(starter) \in Mark
  BY DEF Opponent, Mark
<1>3. QED
  BY <1>1, <1>2 DEF MarksAlternate

LEMMA MovesAlternate ==
    ASSUME IInv, MarksAlternate, NEW m, NEW c, HandleMove(m, c)
    PROVE  MarksAlternate'
<1>1. CASE RefuseMove(m, c)
  BY <1>1 DEF RefuseMove, engineVars, MarksAlternate, Count, IsActive
<1>2. CASE Win(m, c)
  BY <1>2, MoveAlternates DEF Win, SetPhase, IsActive
<1>3. CASE Draw(m, c)
  BY <1>3, MoveAlternates DEF Draw, SetPhase, IsActive
<1>4. CASE Continue(m, c)
  BY <1>4, MoveAlternates DEF Continue
<1>5. QED
  BY <1>1, <1>2, <1>3, <1>4 DEF HandleMove

LEMMA NewGameAlternates ==
    ASSUME NEW dice, NewGame(dice)
    PROVE  MarksAlternate'
<1>1. PICK first \in (IF dice THEN Mark ELSE {"X"}) : StartGame(dice, first)
  BY DEF NewGame
<1>2. /\ first \in Mark /\ starter' = first /\ active' = first
      /\ cells' = [c \in Cells |-> Empty]
  BY <1>1 DEF StartGame, Mark
<1>3. \A m \in Mark : Count(m)' = 0
  <2>1. TAKE m \in Mark
  <2>2. {c \in Cells : cells'[c] = m} = {}
    BY <1>2 DEF Mark, Empty
  <2>3. QED
    BY <2>2, FS_EmptySet DEF Count
<1>4. Count(starter)' = 0 /\ Count(Opponent(starter))' = 0
  <2>1. first \in Mark /\ Opponent(first) \in Mark
    BY <1>2 DEF Opponent, Mark
  <2>2. Count(first)' = 0 /\ Count(Opponent(first))' = 0
    BY <1>3, <2>1
  <2>3. QED
    BY <1>2, <2>2 DEF Count
<1>5. QED
  BY <1>2, <1>4 DEF MarksAlternate

LEMMA NextAlternates == IInv /\ MarksAlternate /\ [Next]_vars => MarksAlternate'
<1> SUFFICES ASSUME IInv, MarksAlternate, [Next]_vars PROVE MarksAlternate'
  OBVIOUS
<1>1. ASSUME UNCHANGED engineVars PROVE MarksAlternate'
  BY <1>1 DEF engineVars, MarksAlternate, Count, IsActive
<1>2. ASSUME NEW c \in Cells, Click(c) PROVE MarksAlternate'
  BY <1>1, <1>2 DEF Click, Command, gameVars
<1>3. ASSUME NEW dice \in BOOLEAN, Reload(dice) PROVE MarksAlternate'
  BY <1>1, <1>3 DEF Reload, Command, gameVars
<1>4. ASSUME Handle PROVE MarksAlternate'
  <2> DEFINE cmd == Head(commands)
  <2>1. CASE HandleMove(cmd.player, cmd.cell)
    BY <2>1, MovesAlternate
  <2>2. CASE NewGame(cmd.dice)
    BY <2>2, NewGameAlternates
  <2>3. QED
    BY <1>4, <2>1, <2>2 DEF Handle
<1>5. ASSUME HandleOther PROVE MarksAlternate'
  BY <1>5, MovesAlternate, NewGameAlternates DEF HandleOther
<1>6. ASSUME SendEvent \/ Receive \/ Close \/ Open PROVE MarksAlternate'
  BY <1>1, <1>6 DEF SendEvent, Receive, Close, Open, gameVars
<1>7. ASSUME UNCHANGED vars PROVE MarksAlternate'
  BY <1>1, <1>7 DEF vars, gameVars
<1>8. QED
  BY <1>2, <1>3, <1>4, <1>5, <1>6, <1>7 DEF Next

\* The players alternate in every game, on every finite board: stale clicks,
\* doubled clicks and commands of other clients cannot give one of them two
\* marks in a row, and the player on turn is the one who is behind
\* (TrisEngine.cpp handle_move).
THEOREM AlwaysAlternate == Spec => []MarksAlternate
<1>1. Init => MarksAlternate
  BY BlankAlternates DEF Init, GameInit, Mark
<1>2. QED
  BY InitRight, NextRight, NextAlternates, <1>1, PTL DEF Spec

-----------------------------------------------------------------------------
(* The window. *)

Badges == {"ACTIVE_TURN", "WINNER", "DRAW"}
Boards == [Cells -> Mark \cup {Empty}]

BoardViews == [cells: Boards, active: Mark \cup {Empty}, over: BOOLEAN, enabled: BOOLEAN]
ActorViews == [listed: BOOLEAN, statuses: [Mark -> SUBSET Badges]]
FlowViews == [phase: Phases \cup {Empty}, turns: Nat]

Views == [board: BoardViews, actors: ActorViews, flow: FlowViews]

\* The events of a move.
MoveEvents ==
    [id: {"INVALID_MOVE", "GAME_WON", "GAME_DRAW"}]
    \cup [id: {"PHASE_CHANGED"}, phase: Phases]
    \cup [id: {"STATUS_ADDED", "STATUS_REMOVED"}, actor: Mark, status: Badges]
    \cup [id: {"CELL_CHANGED"}, cell: Cells, mark: Mark]

Events ==
    MoveEvents
    \cup [id: {"ACTOR_SNAPSHOT"}, statuses: [Mark -> SUBSET Badges]]
    \cup [id: {"MAP_SNAPSHOT"}, cells: Boards]
    \cup [id: {"SESSION_STARTED"}, phase: Phases]
    \cup [id: {"DICE_ROLLED"}]

\* What the window is to show of the engine's game.
Game == [cells |-> cells, statuses |-> statuses, active |-> active, phase |-> phase,
         running |-> IsActive, turns |-> Turns]

\* A picture `u` shows the game `g` on its board and its flow panel.
BoardRight(u, g) ==
    /\ u.board.cells = g.cells
    /\ u.board.over <=> g.phase = "GAME_OVER"
    /\ u.board.enabled <=> g.running
    /\ g.running => u.board.active = g.active
    /\ u.flow = [phase |-> g.phase, turns |-> g.turns]

\* It shows the game's badges on its actors panel.
RosterRight(u, g) == u.actors.listed /\ u.actors.statuses = g.statuses

Pictures(u, g) ==
    /\ boardHeard => BoardRight(u, g)
    /\ rosterHeard => RosterRight(u, g)

\* What the window shows after each of the events `es`, from the picture `v` on.
IsFilm(w, v, es) ==
    /\ w[0] = v
    /\ \A k \in 1..Len(es) : w[k] = Shown(w[k - 1], es[k])

\* What the window has still to handle if nothing is lost.
Ahead == events \o outbox

\* A window that heard the game from its opening events on will show it once
\* it has handled what is ahead of it.
WillAgree == \A w : IsFilm(w, view, Ahead) => Pictures(w[Len(Ahead)], Game)

\* A game as start_game leaves it, and the events that open it.
BlankBoard == [c \in Cells |-> Empty]
FirstBadges(first) == [m \in Mark |-> IF m = first THEN {"ACTIVE_TURN"} ELSE {}]

FreshGame(first) ==
    [cells |-> BlankBoard, statuses |-> FirstBadges(first), active |-> first,
     phase |-> "PLAYER1_TURN", running |-> TRUE, turns |-> 1]

DiceRolled == [id |-> "DICE_ROLLED"]
ActorSnapshot(badges) == [id |-> "ACTOR_SNAPSHOT", statuses |-> badges]
MapSnapshot(board) == [id |-> "MAP_SNAPSHOT", cells |-> board]
SessionStarted == [id |-> "SESSION_STARTED", phase |-> "PLAYER1_TURN"]

FromSession(first) == <<SessionStarted, Added(first, "ACTIVE_TURN")>>
FromMap(first) == <<MapSnapshot(BlankBoard), SessionStarted, Added(first, "ACTIVE_TURN")>>
FromRoster(first) ==
    <<ActorSnapshot(FirstBadges(first)), MapSnapshot(BlankBoard), SessionStarted,
      Added(first, "ACTIVE_TURN")>>
FromDice(first) ==
    <<DiceRolled, ActorSnapshot(FirstBadges(first)), MapSnapshot(BlankBoard),
      SessionStarted, Added(first, "ACTIVE_TURN")>>

\* What the engine has still to send opens the game it is in, or is of a move.
OutboxOpens(first) ==
    /\ Game = FreshGame(first)
    /\ outbox \in {FromDice(first), FromRoster(first), FromMap(first), FromSession(first)}

OutboxRight == outbox \in Seq(MoveEvents) \/ \E first \in Mark : OutboxOpens(first)

\* The inductive invariant of the window.
WInv == view \in Views /\ events \in Seq(Events) /\ OutboxRight /\ WillAgree

\* A set that has 0, and with a number its successor, has every number.
LEMMA CountingUp ==
    ASSUME NEW S, 0 \in S, \A n \in Nat : n \in S => n + 1 \in S
    PROVE  Nat \subseteq S
<1> DEFINE T == Nat \ S
<1> SUFFICES ASSUME T # {} PROVE FALSE
  OBVIOUS
<1>1. IsWellFoundedOn(OpToRel(<, Nat), Nat)
  BY NatLessThanWellFounded
<1>2. PICK n \in T : \A m \in T : ~(<<m, n>> \in OpToRel(<, Nat))
  BY <1>1, WFMin
<1>3. \A m \in T : ~(m < n)
  BY <1>2 DEF OpToRel
<1>4. n \in T
  BY <1>2
<1>5. n # 0 /\ n - 1 \in Nat /\ n - 1 < n
  BY <1>4
<1>6. n - 1 \notin T
  BY <1>3, <1>5
<1>7. QED
  BY <1>4, <1>5, <1>6

\* What the modules of the window do, event by event.
LEMMA ShownCell ==
    ASSUME NEW v \in Views, NEW m \in Mark, NEW c \in Cells,
           NEW u, u = Shown(v, CellChanged(m, c))
    PROVE  /\ u \in Views /\ u.board = [v.board EXCEPT !.cells = [@ EXCEPT ![c] = m]]
           /\ u.actors = v.actors /\ u.flow = v.flow
<1>1. /\ u.board = [v.board EXCEPT !.cells[c] = m]
      /\ u.actors = v.actors /\ u.flow = v.flow
      /\ u = [board |-> u.board, actors |-> u.actors, flow |-> u.flow]
  BY DEF Shown, BoardShown, ActorsShown, FlowShown, CellChanged, Ends
<1>2. u.board \in BoardViews
  BY <1>1 DEF Views, BoardViews, Boards
<1>3. QED
  BY <1>1, <1>2 DEF Views

LEMMA ShownAdded ==
    ASSUME NEW v \in Views, NEW m \in Mark, NEW s \in Badges,
           NEW u, u = Shown(v, Added(m, s))
    PROVE  /\ u \in Views /\ u.flow = v.flow
           /\ /\ u.board.cells = v.board.cells /\ u.board.over = v.board.over
              /\ u.board.enabled = v.board.enabled
           /\ s = "ACTIVE_TURN" => u.board.active = m
           /\ s # "ACTIVE_TURN" => u.board = v.board
           /\ v.actors.listed =>
                 /\ u.actors.listed
                 /\ u.actors.statuses = [v.actors.statuses EXCEPT ![m] = @ \cup {s}]
<1>1. /\ u.board = IF s = "ACTIVE_TURN" THEN [v.board EXCEPT !.active = m] ELSE v.board
      /\ u.actors = IF v.actors.listed
                    THEN [v.actors EXCEPT !.statuses[m] = @ \cup {s}] ELSE v.actors
      /\ u.flow = v.flow
      /\ u = [board |-> u.board, actors |-> u.actors, flow |-> u.flow]
  BY DEF Shown, BoardShown, ActorsShown, FlowShown, Added, Ends
<1>2. v.board \in BoardViews /\ v.actors \in ActorViews /\ v.flow \in FlowViews
  BY DEF Views
<1>3. u.board \in BoardViews
  BY <1>1, <1>2 DEF BoardViews
<1>4. [v.actors.statuses EXCEPT ![m] = @ \cup {s}] \in [Mark -> SUBSET Badges]
  BY <1>2 DEF ActorViews
<1>5. u.actors \in ActorViews
  BY <1>1, <1>2, <1>4 DEF ActorViews
<1>6. u.flow \in FlowViews
  BY <1>1, <1>2
<1>7. u = [board |-> u.board, actors |-> u.actors, flow |-> u.flow]
  BY <1>1
<1>8. u \in Views
  BY <1>3, <1>5, <1>6, <1>7, Zenon DEF Views
<1>9. v.actors.listed =>
        /\ u.actors.listed
        /\ u.actors.statuses = [v.actors.statuses EXCEPT ![m] = @ \cup {s}]
  BY <1>1, <1>2 DEF ActorViews
<1>10. QED
  BY <1>1, <1>8, <1>9

LEMMA ShownRemoved ==
    ASSUME NEW v \in Views, NEW m \in Mark, NEW s \in Badges,
           NEW u, u = Shown(v, Removed(m, s))
    PROVE  /\ u \in Views /\ u.flow = v.flow /\ u.board = v.board
           /\ v.actors.listed =>
                 /\ u.actors.listed
                 /\ u.actors.statuses = [v.actors.statuses EXCEPT ![m] = @ \ {s}]
<1>1. /\ u.board = v.board
      /\ u.actors = IF v.actors.listed
                    THEN [v.actors EXCEPT !.statuses[m] = @ \ {s}] ELSE v.actors
      /\ u.flow = v.flow
      /\ u = [board |-> u.board, actors |-> u.actors, flow |-> u.flow]
  BY DEF Shown, BoardShown, ActorsShown, FlowShown, Removed, Ends
<1>2. v.board \in BoardViews /\ v.actors \in ActorViews /\ v.flow \in FlowViews
  BY DEF Views
<1>3. [v.actors.statuses EXCEPT ![m] = @ \ {s}] \in [Mark -> SUBSET Badges]
  BY <1>2 DEF ActorViews
<1>4. u.actors \in ActorViews
  BY <1>1, <1>2, <1>3 DEF ActorViews
<1>5. u.board \in BoardViews /\ u.flow \in FlowViews
  BY <1>1, <1>2
<1>6. u = [board |-> u.board, actors |-> u.actors, flow |-> u.flow]
  BY <1>1
<1>7. u \in Views
  BY <1>4, <1>5, <1>6, Zenon DEF Views
<1>8. v.actors.listed =>
        /\ u.actors.listed
        /\ u.actors.statuses = [v.actors.statuses EXCEPT ![m] = @ \ {s}]
  BY <1>1, <1>2 DEF ActorViews
<1>9. QED
  BY <1>1, <1>7, <1>8

LEMMA ShownPhase ==
    ASSUME NEW v \in Views, NEW p \in Phases, NEW u, u = Shown(v, PhaseChanged(p))
    PROVE  /\ u \in Views /\ u.actors = v.actors
           /\ p = "GAME_OVER" =>
                 u.board.cells = v.board.cells /\ u.board.over /\ ~u.board.enabled
           /\ p # "GAME_OVER" => u.board = v.board
           /\ u.flow = [phase |-> p, turns |-> v.flow.turns + TurnOf(p)]
<1>1. /\ u.board = IF p = "GAME_OVER"
                   THEN [v.board EXCEPT !.over = TRUE, !.enabled = FALSE] ELSE v.board
      /\ u.flow = [phase |-> p, turns |-> v.flow.turns + TurnOf(p)]
      /\ u.actors = v.actors
      /\ u = [board |-> u.board, actors |-> u.actors, flow |-> u.flow]
  BY DEF Shown, BoardShown, ActorsShown, FlowShown, PhaseChanged, Ends
<1>2. u.board \in BoardViews
  BY <1>1 DEF Views, BoardViews
<1>3. u.flow \in FlowViews
  BY <1>1 DEF Views, FlowViews, TurnOf
<1>4. QED
  BY <1>1, <1>2, <1>3 DEF Views

LEMMA ShownEnd ==
    ASSUME NEW v \in Views, NEW k \in {"GAME_WON", "GAME_DRAW"}, NEW u,
           u = Shown(v, [id |-> k])
    PROVE  /\ u \in Views /\ u.actors = v.actors /\ u.flow = v.flow
           /\ u.board = [v.board EXCEPT !.over = TRUE, !.enabled = FALSE]
<1>1. /\ u.board = [v.board EXCEPT !.over = TRUE, !.enabled = FALSE]
      /\ u.actors = v.actors /\ u.flow = v.flow
      /\ u = [board |-> u.board, actors |-> u.actors, flow |-> u.flow]
  BY DEF Shown, BoardShown, ActorsShown, FlowShown, Ends
<1>2. u.board \in BoardViews
  BY <1>1 DEF Views, BoardViews
<1>3. QED
  BY <1>1, <1>2 DEF Views

\* A refused move and a roll change none of these modules.
LEMMA ShownNothing ==
    ASSUME NEW v \in Views, NEW k \in {"INVALID_MOVE", "DICE_ROLLED"}
    PROVE  Shown(v, [id |-> k]) = v
<1>1. Shown(v, [id |-> k]) = [board |-> v.board, actors |-> v.actors, flow |-> v.flow]
  BY DEF Shown, BoardShown, ActorsShown, FlowShown, Ends
<1>2. QED
  BY <1>1 DEF Views

LEMMA ShownMap ==
    ASSUME NEW v \in Views, NEW board \in Boards,
           NEW u, u = Shown(v, MapSnapshot(board))
    PROVE  u \in Views /\ u.actors = v.actors
<1>1. /\ u.board = [v.board EXCEPT !.cells = board, !.enabled = TRUE]
      /\ u.actors = v.actors /\ u.flow = v.flow
      /\ u = [board |-> u.board, actors |-> u.actors, flow |-> u.flow]
  BY DEF Shown, BoardShown, ActorsShown, FlowShown, MapSnapshot, Ends
<1>2. u.board \in BoardViews
  BY <1>1 DEF Views, BoardViews
<1>3. QED
  BY <1>1, <1>2 DEF Views

LEMMA ShownActors ==
    ASSUME NEW v \in Views, NEW badges \in [Mark -> SUBSET Badges],
           NEW u, u = Shown(v, ActorSnapshot(badges))
    PROVE  /\ u \in Views /\ u.flow = v.flow
           /\ u.actors = [listed |-> TRUE, statuses |-> badges]
<1>1. /\ u.board = [v.board EXCEPT !.active = OnTurn(badges, @)]
      /\ u.actors = [listed |-> TRUE, statuses |-> badges] /\ u.flow = v.flow
      /\ u = [board |-> u.board, actors |-> u.actors, flow |-> u.flow]
  BY DEF Shown, BoardShown, ActorsShown, FlowShown, ActorSnapshot, Ends
<1>2. v.board \in BoardViews
  BY DEF Views
<1>3. OnTurn(badges, v.board.active) \in Mark \cup {Empty}
  BY <1>2 DEF OnTurn, BoardViews
<1>4. u.board \in BoardViews
  BY <1>1, <1>2, <1>3 DEF BoardViews
<1>5. u.actors \in ActorViews
  BY <1>1 DEF ActorViews
<1>6. QED
  BY <1>1, <1>4, <1>5 DEF Views

LEMMA ShownSession ==
    ASSUME NEW v \in Views, NEW p \in Phases,
           NEW u, u = Shown(v, [id |-> "SESSION_STARTED", phase |-> p])
    PROVE  /\ u \in Views /\ u.actors = v.actors
           /\ u.board.cells = BlankBoard /\ u.board.enabled /\ ~u.board.over
           /\ u.flow = [phase |-> p, turns |-> TurnOf(p)]
<1>1. /\ u.board = [v.board EXCEPT !.cells = BlankBoard, !.enabled = TRUE, !.over = FALSE]
      /\ u.flow = [phase |-> p, turns |-> TurnOf(p)] /\ u.actors = v.actors
      /\ u = [board |-> u.board, actors |-> u.actors, flow |-> u.flow]
  BY DEF Shown, BoardShown, ActorsShown, FlowShown, Ends, BlankBoard
<1>2. BlankBoard \in Boards
  BY DEF BlankBoard, Boards
<1>3. u.board \in BoardViews
  BY <1>1, <1>2 DEF Views, BoardViews
<1>4. u.flow \in FlowViews
  BY <1>1 DEF FlowViews, TurnOf
<1>5. u.board.cells = BlankBoard /\ u.board.enabled /\ ~u.board.over
  BY <1>1 DEF Views, BoardViews
<1>6. u \in Views
  BY <1>1, <1>3, <1>4 DEF Views
<1>7. QED
  BY <1>1, <1>5, <1>6

LEMMA ShownIsAView ==
    ASSUME NEW v \in Views, NEW e \in Events
    PROVE  Shown(v, e) \in Views
<1>1. CASE e.id = "CELL_CHANGED"
  <2>1. e.mark \in Mark /\ e.cell \in Cells /\ e = CellChanged(e.mark, e.cell)
    BY <1>1 DEF Events, MoveEvents, CellChanged
  <2>2. Shown(v, CellChanged(e.mark, e.cell)) \in Views
    BY <2>1, ShownCell
  <2>3. QED
    BY <2>1, <2>2
<1>2. CASE e.id = "STATUS_ADDED"
  <2>1. e.actor \in Mark /\ e.status \in Badges /\ e = Added(e.actor, e.status)
    BY <1>2 DEF Events, MoveEvents, Added
  <2>2. Shown(v, Added(e.actor, e.status)) \in Views
    BY <2>1, ShownAdded
  <2>3. QED
    BY <2>1, <2>2
<1>3. CASE e.id = "STATUS_REMOVED"
  <2>1. e.actor \in Mark /\ e.status \in Badges /\ e = Removed(e.actor, e.status)
    BY <1>3 DEF Events, MoveEvents, Removed
  <2>2. Shown(v, Removed(e.actor, e.status)) \in Views
    BY <2>1, ShownRemoved
  <2>3. QED
    BY <2>1, <2>2
<1>4. CASE e.id = "MAP_SNAPSHOT"
  <2>1. e.cells \in Boards /\ e = MapSnapshot(e.cells)
    BY <1>4 DEF Events, MoveEvents, MapSnapshot
  <2>2. Shown(v, MapSnapshot(e.cells)) \in Views
    BY <2>1, ShownMap
  <2>3. QED
    BY <2>1, <2>2
<1>5. CASE e.id = "ACTOR_SNAPSHOT"
  <2>1. e.statuses \in [Mark -> SUBSET Badges] /\ e = ActorSnapshot(e.statuses)
    BY <1>5 DEF Events, MoveEvents, ActorSnapshot
  <2>2. Shown(v, ActorSnapshot(e.statuses)) \in Views
    BY <2>1, ShownActors
  <2>3. QED
    BY <2>1, <2>2
<1>6. CASE e.id = "SESSION_STARTED"
  <2>1. e.phase \in Phases /\ e = [id |-> "SESSION_STARTED", phase |-> e.phase]
    BY <1>6 DEF Events, MoveEvents
  <2>2. Shown(v, [id |-> "SESSION_STARTED", phase |-> e.phase]) \in Views
    BY <2>1, ShownSession
  <2>3. QED
    BY <2>1, <2>2
<1>7. CASE e.id = "PHASE_CHANGED"
  <2>1. e.phase \in Phases /\ e = PhaseChanged(e.phase)
    BY <1>7 DEF Events, MoveEvents, PhaseChanged
  <2>2. Shown(v, PhaseChanged(e.phase)) \in Views
    BY <2>1, ShownPhase
  <2>3. QED
    BY <2>1, <2>2
<1>8. CASE e.id \in {"GAME_WON", "GAME_DRAW", "INVALID_MOVE", "DICE_ROLLED"}
  <2>1. e = [id |-> e.id]
    BY <1>8 DEF Events, MoveEvents
  <2>2. Shown(v, [id |-> e.id]) \in Views
    BY <1>8, ShownEnd, ShownNothing
  <2>3. QED
    BY <2>1, <2>2
<1>9. e.id \in {"ACTOR_SNAPSHOT", "MAP_SNAPSHOT", "SESSION_STARTED", "PHASE_CHANGED",
                "GAME_WON", "GAME_DRAW", "INVALID_MOVE", "DICE_ROLLED", "CELL_CHANGED",
                "STATUS_ADDED", "STATUS_REMOVED"}
  BY DEF Events, MoveEvents
<1>10. QED
  BY <1>1, <1>2, <1>3, <1>4, <1>5, <1>6, <1>7, <1>8, <1>9

\* What the window shows is a picture at every moment of a film.
LEMMA FilmOfViews ==
    ASSUME NEW v \in Views, NEW es \in Seq(Events), NEW w, IsFilm(w, v, es)
    PROVE  \A k \in 0..Len(es) : w[k] \in Views
<1> DEFINE S == {k \in Nat : k <= Len(es) => w[k] \in Views}
<1>1. 0 \in S
  BY DEF IsFilm
<1>2. ASSUME NEW n \in Nat, n \in S PROVE n + 1 \in S
  <2> SUFFICES ASSUME n + 1 <= Len(es) PROVE w[n + 1] \in Views
    OBVIOUS
  <2>1. w[n] \in Views /\ es[n + 1] \in Events
    BY <1>2
  <2>2. w[n + 1] = Shown(w[n], es[n + 1])
    BY <1>2 DEF IsFilm
  <2>3. QED
    BY <2>1, <2>2, ShownIsAView
<1> HIDE DEF S
<1>3. Nat \subseteq S
  BY <1>1, <1>2, CountingUp
<1>4. QED
  BY <1>3 DEF S

\* A film of more events goes on where the film of the first ones ends.
LEMMA FilmGoesOn ==
    ASSUME NEW v, NEW es \in Seq(Events), NEW sent \in Seq(Events), NEW w,
           IsFilm(w, v, es \o sent)
    PROVE  /\ Len(es \o sent) = Len(es) + Len(sent)
           /\ IsFilm(w, v, es)
           /\ IsFilm([k \in 0..Len(sent) |-> w[Len(es) + k]], w[Len(es)], sent)
<1> DEFINE n == Len(es)
           x == [k \in 0..Len(sent) |-> w[n + k]]
<1>1. /\ Len(es \o sent) = n + Len(sent) /\ n \in Nat /\ Len(sent) \in Nat
      /\ \A k \in 1..n : (es \o sent)[k] = es[k]
      /\ \A k \in 1..Len(sent) : (es \o sent)[n + k] = sent[k]
  OBVIOUS
<1>2. IsFilm(w, v, es)
  BY <1>1 DEF IsFilm
<1>3. ASSUME NEW k \in 1..Len(sent)
      PROVE  x[k] = Shown(x[k - 1], sent[k])
  <2>1. n + k \in 1..Len(es \o sent)
    BY <1>1
  <2>2. w[n + k] = Shown(w[n + k - 1], (es \o sent)[n + k])
    BY <2>1 DEF IsFilm
  <2>3. x[k] = w[n + k] /\ x[k - 1] = w[n + (k - 1)] /\ n + (k - 1) = n + k - 1
    BY <1>1
  <2>4. QED
    BY <1>1, <2>2, <2>3
<1>4. x[0] = w[n]
  BY <1>1
<1>5. IsFilm(x, w[n], sent)
  BY <1>3, <1>4 DEF IsFilm
<1>6. QED
  BY <1>1, <1>2, <1>5

\* The film from one event on is the end of the film from the event before.
LEMMA FilmStartsEarlier ==
    ASSUME NEW v, NEW es \in Seq(Events), es # <<>>, NEW w,
           IsFilm(w, Shown(v, Head(es)), Tail(es))
    PROVE  \E x : IsFilm(x, v, es) /\ x[Len(es)] = w[Len(Tail(es))]
<1> DEFINE x == [k \in 0..Len(es) |-> IF k = 0 THEN v ELSE w[k - 1]]
<1>1. /\ Len(es) \in Nat /\ Len(es) > 0 /\ Len(Tail(es)) = Len(es) - 1
      /\ Head(es) = es[1]
      /\ \A k \in 1..(Len(es) - 1) : Tail(es)[k] = es[k + 1]
  OBVIOUS
<1>2. ASSUME NEW k \in 1..Len(es) PROVE x[k] = Shown(x[k - 1], es[k])
  <2>1. CASE k = 1
    <3>1. x[1] = w[0] /\ x[0] = v
      BY <1>1
    <3>2. QED
      BY <1>1, <2>1, <3>1 DEF IsFilm
  <2>2. CASE k # 1
    <3>1. k - 1 \in 1..(Len(es) - 1) /\ (k - 1) + 1 = k
      BY <1>1, <2>2
    <3>2. w[k - 1] = Shown(w[(k - 1) - 1], Tail(es)[k - 1])
      BY <1>1, <3>1 DEF IsFilm
    <3>3. x[k] = w[k - 1] /\ x[k - 1] = w[(k - 1) - 1]
      BY <1>1, <3>1
    <3>4. Tail(es)[k - 1] = es[k]
      BY <1>1, <3>1
    <3>5. QED
      BY <3>2, <3>3, <3>4
  <2>3. QED
    BY <2>1, <2>2
<1>3. x[0] = v /\ x[Len(es)] = w[Len(Tail(es))]
  BY <1>1
<1>4. QED
  BY <1>2, <1>3 DEF IsFilm

\* The messages are events.
LEMMA TheyAreEvents ==
    /\ \A m \in Mark, c \in Cells : CellChanged(m, c) \in MoveEvents
    /\ \A m \in Mark, b \in Badges : Added(m, b) \in MoveEvents /\ Removed(m, b) \in MoveEvents
    /\ \A p \in Phases : PhaseChanged(p) \in MoveEvents
    /\ [id |-> "GAME_WON"] \in MoveEvents /\ [id |-> "GAME_DRAW"] \in MoveEvents
    /\ [id |-> "INVALID_MOVE"] \in MoveEvents
    /\ DiceRolled \in Events /\ SessionStarted \in Events
    /\ \A b \in Boards : MapSnapshot(b) \in Events
    /\ \A f \in [Mark -> SUBSET Badges] : ActorSnapshot(f) \in Events
<1>1. \A m \in Mark, c \in Cells : CellChanged(m, c) \in MoveEvents
  BY DEF MoveEvents, CellChanged
<1>2. \A m \in Mark, b \in Badges : Added(m, b) \in MoveEvents /\ Removed(m, b) \in MoveEvents
  BY DEF MoveEvents, Added, Removed
<1>3. \A p \in Phases : PhaseChanged(p) \in MoveEvents
  BY DEF MoveEvents, PhaseChanged
<1>4. /\ [id |-> "GAME_WON"] \in MoveEvents /\ [id |-> "GAME_DRAW"] \in MoveEvents
      /\ [id |-> "INVALID_MOVE"] \in MoveEvents
  BY DEF MoveEvents
<1>5. DiceRolled \in Events /\ SessionStarted \in Events
  BY DEF Events, SessionStarted, DiceRolled, Phases
<1>6. \A b \in Boards : MapSnapshot(b) \in Events
  BY DEF Events, MapSnapshot
<1>7. \A f \in [Mark -> SUBSET Badges] : ActorSnapshot(f) \in Events
  BY DEF Events, ActorSnapshot
<1>8. QED
  BY <1>1, <1>2, <1>3, <1>4, <1>5, <1>6, <1>7

\* A legal move marks one more cell, so one more turn has been opened, or the
\* game is over and the count stays.
LEMMA MoveTurns ==
    ASSUME IInv, NEW m, NEW c, Legal(m, c), cells' = Marked(m, c)
    PROVE  /\ Turns \in Nat
           /\ IsActive' => Turns' = Turns + 1
           /\ ~IsActive' => Turns' = Turns
<1> DEFINE Set == {d \in Cells : cells[d] # Empty}
<1>1. m \in Mark /\ c \in Cells /\ cells[c] = Empty /\ IsActive
  BY DEF Legal
<1>2. IsFiniteSet(Set) /\ Cardinality(Set) \in Nat
  <2>1. IsFiniteSet(Set)
    BY LinesAssumption, FS_Subset
  <2>2. QED
    BY <2>1, FS_CardinalityType
<1>3. {d \in Cells : cells'[d] # Empty} = Set \cup {c} /\ c \notin Set
  BY <1>1 DEF IInv, EngineTypeOK, Marked, Mark, Empty
<1>4. Turns = Cardinality(Set) + 1
  BY <1>1 DEF Turns
<1>5. /\ IsActive' => Turns' = Cardinality(Set \cup {c}) + 1
      /\ ~IsActive' => Turns' = Cardinality(Set \cup {c}) + 0
  BY <1>3 DEF Turns
<1> HIDE DEF Set
<1>6. Cardinality(Set \cup {c}) = Cardinality(Set) + 1
  BY <1>2, <1>3, FS_AddElement
<1>7. QED
  BY <1>2, <1>4, <1>5, <1>6

WinEvents(m, c) ==
    <<CellChanged(m, c), Removed(m, "ACTIVE_TURN"), Added(m, "WINNER"),
      PhaseChanged("GAME_OVER"), [id |-> "GAME_WON"]>>

\* The events of a win turn a right picture into a right picture.
LEMMA WinShown ==
    ASSUME IInv, NEW m, NEW c, Win(m, c), NEW w, w[0] \in Views,
           IsFilm(w, w[0], WinEvents(m, c))
    PROVE  /\ BoardRight(w[0], Game) => BoardRight(w[5], Game')
           /\ RosterRight(w[0], Game) => RosterRight(w[5], Game')
<1>1. m \in Mark /\ c \in Cells /\ m = active /\ IsActive
  BY LegalFinds DEF Win, Legal
<1>2. /\ cells' = [cells EXCEPT ![c] = m]
      /\ statuses' = [p \in Mark |-> (statuses[p] \ {"ACTIVE_TURN"})
                                     \cup (IF p = m THEN {"WINNER"} ELSE {})]
      /\ phase' = "GAME_OVER" /\ ~IsActive'
  BY DEF Win, Marked, SetPhase, IsActive
<1>3. Turns' = Turns /\ Turns \in Nat
  BY <1>2, MoveTurns DEF Win
<1>4. /\ w[1] = Shown(w[0], CellChanged(m, c))
      /\ w[2] = Shown(w[1], Removed(m, "ACTIVE_TURN"))
      /\ w[3] = Shown(w[2], Added(m, "WINNER"))
      /\ w[4] = Shown(w[3], PhaseChanged("GAME_OVER"))
      /\ w[5] = Shown(w[4], [id |-> "GAME_WON"])
  BY DEF IsFilm, WinEvents
<1>5. "ACTIVE_TURN" \in Badges /\ "WINNER" \in Badges /\ "GAME_OVER" \in Phases
  BY DEF Badges, Phases
<1>6. /\ w[1] \in Views /\ w[1].board = [w[0].board EXCEPT !.cells = [@ EXCEPT ![c] = m]]
      /\ w[1].actors = w[0].actors /\ w[1].flow = w[0].flow
  BY <1>1, <1>4, ShownCell
<1>7. /\ w[2] \in Views /\ w[2].board = w[1].board /\ w[2].flow = w[1].flow
      /\ w[1].actors.listed =>
            /\ w[2].actors.listed
            /\ w[2].actors.statuses = [w[1].actors.statuses EXCEPT ![m] = @ \ {"ACTIVE_TURN"}]
  BY <1>1, <1>4, <1>5, <1>6, ShownRemoved
<1>8. /\ w[3] \in Views /\ w[3].board = w[2].board /\ w[3].flow = w[2].flow
      /\ w[2].actors.listed =>
            /\ w[3].actors.listed
            /\ w[3].actors.statuses = [w[2].actors.statuses EXCEPT ![m] = @ \cup {"WINNER"}]
  BY <1>1, <1>4, <1>5, <1>7, ShownAdded
<1>9. /\ w[4] \in Views /\ w[4].actors = w[3].actors
      /\ w[4].board.cells = w[3].board.cells /\ w[4].board.over /\ ~w[4].board.enabled
      /\ w[4].flow = [phase |-> "GAME_OVER", turns |-> w[3].flow.turns + TurnOf("GAME_OVER")]
  BY <1>4, <1>5, <1>8, ShownPhase
<1>10. /\ w[5] \in Views /\ w[5].actors = w[4].actors /\ w[5].flow = w[4].flow
       /\ w[5].board = [w[4].board EXCEPT !.over = TRUE, !.enabled = FALSE]
  BY <1>4, <1>9, ShownEnd
<1>11. ASSUME BoardRight(w[0], Game) PROVE BoardRight(w[5], Game')
  <2>1. w[0].board \in BoardViews /\ w[0].board.cells = cells
        /\ w[0].flow = [phase |-> phase, turns |-> Turns]
    BY <1>11 DEF BoardRight, Game, Views
  <2>2. w[5].board.cells = cells' /\ w[5].board.over /\ ~w[5].board.enabled
    BY <1>2, <1>6, <1>7, <1>8, <1>9, <1>10, <2>1 DEF BoardViews
  <2>3. w[5].flow = [phase |-> phase', turns |-> Turns']
    BY <1>2, <1>3, <1>6, <1>7, <1>8, <1>9, <1>10, <2>1 DEF TurnOf
  <2>4. QED
    BY <1>2, <2>2, <2>3 DEF BoardRight, Game
<1>12. ASSUME RosterRight(w[0], Game) PROVE RosterRight(w[5], Game')
  <2>1. statuses \in [Mark -> SUBSET Badges]
    BY DEF IInv, EngineTypeOK, Badges
  <2>2. \A p \in Mark : p # m => "ACTIVE_TURN" \notin statuses[p]
    BY <1>1 DEF IInv, OutcomeRight, IsActive
  <2>3. w[1].actors.listed /\ w[1].actors.statuses = statuses
    BY <1>6, <1>12 DEF RosterRight, Game
  <2>4. w[2].actors.listed /\ w[2].actors.statuses = [statuses EXCEPT ![m] = @ \ {"ACTIVE_TURN"}]
    BY <1>7, <2>3
  <2> DEFINE s2 == [statuses EXCEPT ![m] = @ \ {"ACTIVE_TURN"}]
             s3 == [s2 EXCEPT ![m] = @ \cup {"WINNER"}]
  <2>5. w[3].actors.listed /\ w[3].actors.statuses = s3
    BY <1>8, <2>4
  <2>6. s3 = statuses'
    <3>1. \A p \in Mark : s3[p] = statuses'[p]
      BY <1>1, <1>2, <2>1, <2>2
    <3>2. s3 \in [Mark -> SUBSET Badges] /\ statuses' \in [Mark -> SUBSET Badges]
      BY <1>1, <1>2, <1>5, <2>1
    <3>3. QED
      BY <3>1, <3>2
  <2> HIDE DEF s2, s3
  <2>7. QED
    BY <1>9, <1>10, <2>5, <2>6 DEF RosterRight, Game
<1>13. QED
  BY <1>11, <1>12

\* So do the events of a draw.
LEMMA DrawShown ==
    ASSUME IInv, NEW m, NEW c, Draw(m, c), NEW w, w[0] \in Views,
           IsFilm(w, w[0], DrawEvents(m, c))
    PROVE  /\ BoardRight(w[0], Game) => BoardRight(w[6], Game')
           /\ RosterRight(w[0], Game) => RosterRight(w[6], Game')
<1>1. m \in Mark /\ c \in Cells /\ m = active /\ IsActive /\ "X" \in Mark /\ "O" \in Mark
  BY LegalFinds DEF Draw, Legal, Mark
<1>2. /\ cells' = [cells EXCEPT ![c] = m]
      /\ statuses' = [p \in Mark |-> (statuses[p] \ {"ACTIVE_TURN"}) \cup {"DRAW"}]
      /\ phase' = "GAME_OVER" /\ ~IsActive'
  BY DEF Draw, Marked, SetPhase, IsActive
<1>3. Turns' = Turns /\ Turns \in Nat
  BY <1>2, MoveTurns DEF Draw
<1>4. /\ w[1] = Shown(w[0], CellChanged(m, c))
      /\ w[2] = Shown(w[1], Removed(m, "ACTIVE_TURN"))
      /\ w[3] = Shown(w[2], Added("X", "DRAW"))
      /\ w[4] = Shown(w[3], Added("O", "DRAW"))
      /\ w[5] = Shown(w[4], PhaseChanged("GAME_OVER"))
      /\ w[6] = Shown(w[5], [id |-> "GAME_DRAW"])
  BY DEF IsFilm, DrawEvents
<1>5. "ACTIVE_TURN" \in Badges /\ "DRAW" \in Badges /\ "GAME_OVER" \in Phases
  BY DEF Badges, Phases
<1>6. /\ w[1] \in Views /\ w[1].board = [w[0].board EXCEPT !.cells = [@ EXCEPT ![c] = m]]
      /\ w[1].actors = w[0].actors /\ w[1].flow = w[0].flow
  BY <1>1, <1>4, ShownCell
<1>7. /\ w[2] \in Views /\ w[2].board = w[1].board /\ w[2].flow = w[1].flow
      /\ w[1].actors.listed =>
            /\ w[2].actors.listed
            /\ w[2].actors.statuses = [w[1].actors.statuses EXCEPT ![m] = @ \ {"ACTIVE_TURN"}]
  BY <1>1, <1>4, <1>5, <1>6, ShownRemoved
<1>8. /\ w[3] \in Views /\ w[3].board = w[2].board /\ w[3].flow = w[2].flow
      /\ w[2].actors.listed =>
            /\ w[3].actors.listed
            /\ w[3].actors.statuses = [w[2].actors.statuses EXCEPT !["X"] = @ \cup {"DRAW"}]
  BY <1>1, <1>4, <1>5, <1>7, ShownAdded
<1>9. /\ w[4] \in Views /\ w[4].board = w[3].board /\ w[4].flow = w[3].flow
      /\ w[3].actors.listed =>
            /\ w[4].actors.listed
            /\ w[4].actors.statuses = [w[3].actors.statuses EXCEPT !["O"] = @ \cup {"DRAW"}]
  BY <1>1, <1>4, <1>5, <1>8, ShownAdded
<1>10. /\ w[5] \in Views /\ w[5].actors = w[4].actors
       /\ w[5].board.cells = w[4].board.cells /\ w[5].board.over /\ ~w[5].board.enabled
       /\ w[5].flow = [phase |-> "GAME_OVER", turns |-> w[4].flow.turns + TurnOf("GAME_OVER")]
  BY <1>4, <1>5, <1>9, ShownPhase
<1>11. /\ w[6] \in Views /\ w[6].actors = w[5].actors /\ w[6].flow = w[5].flow
       /\ w[6].board = [w[5].board EXCEPT !.over = TRUE, !.enabled = FALSE]
  BY <1>4, <1>10, ShownEnd
<1>12. ASSUME BoardRight(w[0], Game) PROVE BoardRight(w[6], Game')
  <2>1. w[0].board \in BoardViews /\ w[0].board.cells = cells
        /\ w[0].flow = [phase |-> phase, turns |-> Turns]
    BY <1>12 DEF BoardRight, Game, Views
  <2>2. w[6].board.cells = cells' /\ w[6].board.over /\ ~w[6].board.enabled
    BY <1>2, <1>6, <1>7, <1>8, <1>9, <1>10, <1>11, <2>1 DEF BoardViews
  <2>3. w[6].flow = [phase |-> phase', turns |-> Turns']
    BY <1>2, <1>3, <1>6, <1>7, <1>8, <1>9, <1>10, <1>11, <2>1 DEF TurnOf
  <2>4. QED
    BY <1>2, <2>2, <2>3 DEF BoardRight, Game
<1>13. ASSUME RosterRight(w[0], Game) PROVE RosterRight(w[6], Game')
  <2> DEFINE s2 == [statuses EXCEPT ![m] = @ \ {"ACTIVE_TURN"}]
             s3 == [s2 EXCEPT !["X"] = @ \cup {"DRAW"}]
             s4 == [s3 EXCEPT !["O"] = @ \cup {"DRAW"}]
  <2>1. statuses \in [Mark -> SUBSET Badges]
    BY DEF IInv, EngineTypeOK, Badges
  <2>2. \A p \in Mark : p # m => "ACTIVE_TURN" \notin statuses[p]
    BY <1>1 DEF IInv, OutcomeRight, IsActive
  <2>3. w[1].actors.listed /\ w[1].actors.statuses = statuses
    BY <1>6, <1>13 DEF RosterRight, Game
  <2>4. w[2].actors.listed /\ w[2].actors.statuses = s2
    BY <1>7, <2>3
  <2>5. w[3].actors.listed /\ w[3].actors.statuses = s3
    BY <1>8, <2>4
  <2>6. w[4].actors.listed /\ w[4].actors.statuses = s4
    BY <1>9, <2>5
  <2>7. s4 = statuses'
    <3>1. s2 \in [Mark -> SUBSET Badges] /\ \A p \in Mark : s2[p] = statuses[p] \ {"ACTIVE_TURN"}
      BY <1>1, <2>1, <2>2
    <3> HIDE DEF s2
    <3>2. s4 \in [Mark -> SUBSET Badges] /\ \A p \in Mark : s4[p] = s2[p] \cup {"DRAW"}
      BY <1>1, <1>5, <3>1 DEF Mark
    <3>3. statuses' \in [Mark -> SUBSET Badges] /\ \A p \in Mark : s4[p] = statuses'[p]
      BY <1>2, <1>5, <2>1, <3>1, <3>2
    <3> HIDE DEF s3, s4
    <3>4. QED
      BY <3>2, <3>3
  <2> HIDE DEF s2, s3, s4
  <2>8. QED
    BY <1>10, <1>11, <2>6, <2>7 DEF RosterRight, Game
<1>14. QED
  BY <1>12, <1>13

ContinueEvents(m, c) ==
    <<CellChanged(m, c), Removed(m, "ACTIVE_TURN"), Added(Opponent(m), "ACTIVE_TURN"),
      PhaseChanged(PhaseFor(Opponent(m)))>>

\* So do the events of a move that decides nothing.
LEMMA ContinueShown ==
    ASSUME IInv, NEW m, NEW c, Continue(m, c), NEW w, w[0] \in Views,
           IsFilm(w, w[0], ContinueEvents(m, c))
    PROVE  /\ BoardRight(w[0], Game) => BoardRight(w[4], Game')
           /\ RosterRight(w[0], Game) => RosterRight(w[4], Game')
<1> DEFINE next == Opponent(m)
           p == PhaseFor(next)
<1>1. /\ m \in Mark /\ c \in Cells /\ m = active /\ IsActive
      /\ next \in Mark /\ next # m
  BY LegalFinds DEF Continue, Legal, Mark, Opponent
<1>2. /\ cells' = [cells EXCEPT ![c] = m]
      /\ statuses' = [q \in Mark |-> IF q = next THEN statuses[q] \cup {"ACTIVE_TURN"}
                                     ELSE statuses[q] \ {"ACTIVE_TURN"}]
      /\ active' = next /\ phase' = p
  BY DEF Continue, Marked, SetPhase
<1>3. p \in Phases /\ p # "GAME_OVER" /\ TurnOf(p) = 1
  BY DEF PhaseFor, Phases, TurnOf
<1>4. /\ w[1] = Shown(w[0], CellChanged(m, c))
      /\ w[2] = Shown(w[1], Removed(m, "ACTIVE_TURN"))
      /\ w[3] = Shown(w[2], Added(next, "ACTIVE_TURN"))
      /\ w[4] = Shown(w[3], PhaseChanged(p))
  BY DEF IsFilm, ContinueEvents
<1>5. IsActive' /\ phase' # "GAME_OVER"
  BY <1>2 DEF IsActive, PhaseFor
<1>6. Turns' = Turns + 1 /\ Turns \in Nat
  BY <1>5, MoveTurns DEF Continue
<1>7. "ACTIVE_TURN" \in Badges
  BY DEF Badges
<1> HIDE DEF next, p
<1>8. /\ w[1] \in Views /\ w[1].board = [w[0].board EXCEPT !.cells = [@ EXCEPT ![c] = m]]
      /\ w[1].actors = w[0].actors /\ w[1].flow = w[0].flow
  BY <1>1, <1>4, ShownCell
<1>9. /\ w[2] \in Views /\ w[2].board = w[1].board /\ w[2].flow = w[1].flow
      /\ w[1].actors.listed =>
            /\ w[2].actors.listed
            /\ w[2].actors.statuses = [w[1].actors.statuses EXCEPT ![m] = @ \ {"ACTIVE_TURN"}]
  BY <1>1, <1>4, <1>7, <1>8, ShownRemoved
<1>10. /\ w[3] \in Views /\ w[3].flow = w[2].flow /\ w[3].board.active = next
       /\ w[3].board.cells = w[2].board.cells /\ w[3].board.over = w[2].board.over
       /\ w[3].board.enabled = w[2].board.enabled
       /\ w[2].actors.listed =>
             /\ w[3].actors.listed
             /\ w[3].actors.statuses = [w[2].actors.statuses EXCEPT ![next] = @ \cup {"ACTIVE_TURN"}]
  BY <1>1, <1>4, <1>7, <1>9, ShownAdded
<1>11. /\ w[4] \in Views /\ w[4].actors = w[3].actors /\ w[4].board = w[3].board
       /\ w[4].flow = [phase |-> p, turns |-> w[3].flow.turns + TurnOf(p)]
  BY <1>3, <1>4, <1>10, ShownPhase
<1>12. ASSUME BoardRight(w[0], Game) PROVE BoardRight(w[4], Game')
  <2>1. /\ w[0].board \in BoardViews /\ w[0].board.cells = cells
        /\ ~w[0].board.over /\ w[0].board.enabled
        /\ w[0].flow = [phase |-> phase, turns |-> Turns]
    BY <1>1, <1>12 DEF BoardRight, Game, Views, IsActive
  <2>2. /\ w[4].board.cells = cells' /\ ~w[4].board.over /\ w[4].board.enabled
        /\ w[4].board.active = active'
    BY <1>2, <1>8, <1>9, <1>10, <1>11, <2>1 DEF BoardViews
  <2>3. w[4].flow = [phase |-> phase', turns |-> Turns']
    BY <1>2, <1>3, <1>6, <1>8, <1>9, <1>10, <1>11, <2>1
  <2>4. QED
    BY <1>5, <2>2, <2>3 DEF BoardRight, Game
<1>13. ASSUME RosterRight(w[0], Game) PROVE RosterRight(w[4], Game')
  <2> DEFINE s2 == [statuses EXCEPT ![m] = @ \ {"ACTIVE_TURN"}]
             s3 == [s2 EXCEPT ![next] = @ \cup {"ACTIVE_TURN"}]
  <2>1. statuses \in [Mark -> SUBSET Badges]
    BY DEF IInv, EngineTypeOK, Badges
  <2>2. \A q \in Mark : q = m \/ q = next
    BY <1>1 DEF Mark
  <2>3. w[1].actors.listed /\ w[1].actors.statuses = statuses
    BY <1>8, <1>13 DEF RosterRight, Game
  <2>4. w[2].actors.listed /\ w[2].actors.statuses = s2
    BY <1>9, <2>3
  <2>5. w[3].actors.listed /\ w[3].actors.statuses = s3
    BY <1>10, <2>4
  <2>6. s3 = statuses'
    <3>1. s3 \in [Mark -> SUBSET Badges] /\ statuses' \in [Mark -> SUBSET Badges]
      BY <1>1, <1>2, <1>7, <2>1
    <3>2. s3[m] = statuses'[m] /\ s3[next] = statuses'[next]
      BY <1>1, <1>2, <2>1
    <3> HIDE DEF s2, s3
    <3>3. QED
      BY <2>2, <3>1, <3>2
  <2> HIDE DEF s2, s3
  <2>7. QED
    BY <1>11, <2>5, <2>6 DEF RosterRight, Game
<1>14. QED
  BY <1>12, <1>13

\* From SESSION_STARTED on, the opening of a game needs no picture to start from.
LEMMA SessionShown ==
    ASSUME NEW first \in Mark, NEW w, w[0] \in Views, IsFilm(w, w[0], FromSession(first))
    PROVE  BoardRight(w[2], FreshGame(first))
<1>1. "ACTIVE_TURN" \in Badges /\ "PLAYER1_TURN" \in Phases /\ TurnOf("PLAYER1_TURN") = 1
  BY DEF Badges, Phases, TurnOf
<1>2. /\ w[1] = Shown(w[0], [id |-> "SESSION_STARTED", phase |-> "PLAYER1_TURN"])
      /\ w[2] = Shown(w[1], Added(first, "ACTIVE_TURN"))
  BY DEF IsFilm, FromSession, SessionStarted
<1>3. /\ w[1] \in Views
      /\ w[1].board.cells = BlankBoard /\ w[1].board.enabled /\ ~w[1].board.over
      /\ w[1].flow = [phase |-> "PLAYER1_TURN", turns |-> TurnOf("PLAYER1_TURN")]
  BY <1>1, <1>2, ShownSession
<1>4. /\ w[2] \in Views /\ w[2].flow = w[1].flow /\ w[2].board.active = first
      /\ w[2].board.cells = w[1].board.cells /\ w[2].board.over = w[1].board.over
      /\ w[2].board.enabled = w[1].board.enabled
      /\ w[1].actors.listed =>
            /\ w[2].actors.listed
            /\ w[2].actors.statuses = [w[1].actors.statuses EXCEPT ![first] = @ \cup {"ACTIVE_TURN"}]
  BY <1>1, <1>2, <1>3, ShownAdded
<1>5. QED
  BY <1>1, <1>3, <1>4 DEF BoardRight, FreshGame

\* From ACTOR_SNAPSHOT on, the badges need none either.
LEMMA RosterShown ==
    ASSUME NEW first \in Mark, NEW w, w[0] \in Views, IsFilm(w, w[0], FromRoster(first))
    PROVE  /\ w[2] \in Views
           /\ BoardRight(w[4], FreshGame(first)) /\ RosterRight(w[4], FreshGame(first))
<1> DEFINE badges == FirstBadges(first)
<1>1. /\ w[1] = Shown(w[0], ActorSnapshot(badges)) /\ w[2] = Shown(w[1], MapSnapshot(BlankBoard))
      /\ w[3] = Shown(w[2], SessionStarted)
      /\ w[4] = Shown(w[3], Added(first, "ACTIVE_TURN"))
  BY DEF IsFilm, FromRoster
<1>2. "ACTIVE_TURN" \in Badges /\ BlankBoard \in Boards /\ badges \in [Mark -> SUBSET Badges]
  BY DEF Badges, BlankBoard, Boards, FirstBadges
<1>3. badges = [badges EXCEPT ![first] = @ \cup {"ACTIVE_TURN"}]
  BY DEF FirstBadges
<1> HIDE DEF badges
<1>4. w[1] \in Views /\ w[1].actors = [listed |-> TRUE, statuses |-> badges]
  BY <1>1, <1>2, ShownActors
<1>5. w[2] \in Views /\ w[2].actors = w[1].actors
  BY <1>1, <1>2, <1>4, ShownMap
<1>6. w[3] \in Views /\ w[3].actors = w[2].actors
  <2>1. w[3] = Shown(w[2], [id |-> "SESSION_STARTED", phase |-> "PLAYER1_TURN"])
    BY <1>1 DEF SessionStarted
  <2>2. QED
    BY <1>5, <2>1, ShownSession DEF Phases
<1>7. /\ w[4].actors.listed
      /\ w[4].actors.statuses = [w[3].actors.statuses EXCEPT ![first] = @ \cup {"ACTIVE_TURN"}]
  <2>1. first \in Mark /\ w[3] \in Views /\ w[4] = Shown(w[3], Added(first, "ACTIVE_TURN"))
    BY <1>1, <1>6
  <2>2. w[3].actors.listed
    BY <1>4, <1>5, <1>6
  <2>3. QED
    BY ONLY <1>2, <2>1, <2>2, ShownAdded
<1>8. RosterRight(w[4], FreshGame(first))
  BY <1>3, <1>4, <1>5, <1>6, <1>7 DEF RosterRight, FreshGame, badges
<1>9. BoardRight(w[4], FreshGame(first))
  <2> DEFINE x == [k \in 0..2 |-> w[2 + k]]
  <2>1. x[0] = w[2] /\ x[1] = w[3] /\ x[2] = w[4]
    OBVIOUS
  <2> HIDE DEF x
  <2>2. \A k \in 1..2 : x[k] = Shown(x[k - 1], FromSession(first)[k])
    <3>1. \A k \in 1..2 : k = 1 \/ k = 2
      OBVIOUS
    <3>2. QED
      BY <1>1, <2>1, <3>1 DEF FromSession
  <2>3. Len(FromSession(first)) = 2
    BY DEF FromSession
  <2>4. x[0] \in Views /\ IsFilm(x, x[0], FromSession(first))
    BY <1>5, <2>1, <2>2, <2>3 DEF IsFilm
  <2>5. QED
    BY <2>1, <2>4, SessionShown
<1>10. QED
  BY <1>5, <1>8, <1>9

\* With the roll announced before them, the same.
LEMMA DiceShown ==
    ASSUME NEW first \in Mark, NEW w, w[0] \in Views, IsFilm(w, w[0], FromDice(first))
    PROVE  BoardRight(w[5], FreshGame(first)) /\ RosterRight(w[5], FreshGame(first))
<1> DEFINE x == [k \in 0..4 |-> w[1 + k]]
<1>1. /\ w[1] = Shown(w[0], DiceRolled) /\ w[2] = Shown(w[1], ActorSnapshot(FirstBadges(first)))
      /\ w[3] = Shown(w[2], MapSnapshot(BlankBoard)) /\ w[4] = Shown(w[3], SessionStarted)
      /\ w[5] = Shown(w[4], Added(first, "ACTIVE_TURN"))
  BY DEF IsFilm, FromDice
<1>2. w[1] = w[0]
  BY <1>1, ShownNothing DEF DiceRolled
<1>3. x[0] = w[1] /\ x[1] = w[2] /\ x[2] = w[3] /\ x[3] = w[4] /\ x[4] = w[5]
  OBVIOUS
<1> HIDE DEF x
<1>4. /\ x[1] = Shown(x[0], ActorSnapshot(FirstBadges(first)))
      /\ x[2] = Shown(x[1], MapSnapshot(BlankBoard)) /\ x[3] = Shown(x[2], SessionStarted)
      /\ x[4] = Shown(x[3], Added(first, "ACTIVE_TURN"))
  BY <1>1, <1>3
<1>5. x[0] \in Views /\ IsFilm(x, x[0], FromRoster(first))
  <2>1. \A k \in 1..4 : x[k] = Shown(x[k - 1], FromRoster(first)[k])
    <3>1. \A k \in 1..4 : k = 1 \/ k = 2 \/ k = 3 \/ k = 4
      OBVIOUS
    <3>2. QED
      BY <1>4, <3>1 DEF FromRoster
  <2>2. Len(FromRoster(first)) = 4
    BY DEF FromRoster
  <2>3. QED
    BY <1>2, <1>3, <2>1, <2>2 DEF IsFilm
<1>6. QED
  BY <1>3, <1>5, RosterShown

\* The openings of a game are events.
LEMMA OpeningsAreEvents ==
    ASSUME NEW first \in Mark
    PROVE  /\ FromDice(first) \in Seq(Events) /\ FromRoster(first) \in Seq(Events)
           /\ FromMap(first) \in Seq(Events) /\ FromSession(first) \in Seq(Events)
<1>1. BlankBoard \in Boards /\ FirstBadges(first) \in [Mark -> SUBSET Badges]
  BY DEF BlankBoard, Boards, FirstBadges, Badges
<1>2. /\ DiceRolled \in Events /\ ActorSnapshot(FirstBadges(first)) \in Events
      /\ MapSnapshot(BlankBoard) \in Events /\ SessionStarted \in Events
  BY <1>1, TheyAreEvents
<1>3. Added(first, "ACTIVE_TURN") \in Events
  BY TheyAreEvents DEF Events, Badges
<1>4. QED
  BY <1>2, <1>3 DEF FromDice, FromRoster, FromMap, FromSession

\* What the engine has still to send are events.
LEMMA OutboxOfEvents ==
    ASSUME OutboxRight
    PROVE  outbox \in Seq(Events)
<1>1. CASE outbox \in Seq(MoveEvents)
  <2>1. MoveEvents \subseteq Events
    BY DEF Events
  <2>2. QED
    BY <1>1, <2>1
<1>2. ASSUME NEW first \in Mark, OutboxOpens(first) PROVE outbox \in Seq(Events)
  BY <1>2, OpeningsAreEvents DEF OutboxOpens
<1>3. QED
  BY <1>1, <1>2 DEF OutboxRight

\* A handler whose events make a right picture right again keeps the promise.
LEMMA HandlerAgrees ==
    ASSUME WInv, outbox = <<>>, UNCHANGED <<linkVars, view>>, outbox' \in Seq(Events),
           \A w : w[0] \in Views /\ IsFilm(w, w[0], outbox') =>
               /\ BoardRight(w[0], Game) => BoardRight(w[Len(outbox')], Game')
               /\ RosterRight(w[0], Game) => RosterRight(w[Len(outbox')], Game')
    PROVE  WillAgree'
<1> DEFINE sent == outbox'
<1>1. events \in Seq(Events) /\ view \in Views /\ Ahead = events /\ sent \in Seq(Events)
  BY DEF WInv, Ahead
<1>2. \A w : w[0] \in Views /\ IsFilm(w, w[0], sent) =>
               /\ BoardRight(w[0], Game) => BoardRight(w[Len(sent)], Game')
               /\ RosterRight(w[0], Game) => RosterRight(w[Len(sent)], Game')
  OBVIOUS
<1>3. /\ Ahead' = events \o sent /\ view' = view
      /\ boardHeard' = boardHeard /\ rosterHeard' = rosterHeard
  BY DEF Ahead, linkVars, heardVars
<1> HIDE DEF sent
<1>4. ASSUME NEW w, IsFilm(w, view, events \o sent)
      PROVE  /\ boardHeard => BoardRight(w[Len(events \o sent)], Game')
             /\ rosterHeard => RosterRight(w[Len(events \o sent)], Game')
  <2> DEFINE x == [k \in 0..Len(sent) |-> w[Len(events) + k]]
  <2>1. /\ Len(events \o sent) = Len(events) + Len(sent)
        /\ IsFilm(w, view, events) /\ IsFilm(x, w[Len(events)], sent)
    BY <1>1, <1>4, FilmGoesOn
  <2>2. Pictures(w[Len(events)], Game)
    BY <1>1, <2>1 DEF WInv, WillAgree
  <2>3. w[Len(events)] \in Views
    BY <1>1, <2>1, FilmOfViews
  <2>4. x[0] = w[Len(events)] /\ x[Len(sent)] = w[Len(events \o sent)]
    BY <1>1, <2>1
  <2> HIDE DEF x
  <2>5. x[0] \in Views /\ IsFilm(x, x[0], sent)
    BY <2>1, <2>3, <2>4
  <2>6. /\ BoardRight(x[0], Game) => BoardRight(x[Len(sent)], Game')
        /\ RosterRight(x[0], Game) => RosterRight(x[Len(sent)], Game')
    BY <1>2, <2>5
  <2>7. QED
    BY <2>2, <2>4, <2>6 DEF Pictures
<1>5. QED
  BY <1>3, <1>4 DEF WillAgree, Pictures

LEMMA MoveAgrees ==
    ASSUME IInv, WInv, NEW m, NEW c, HandleMove(m, c), outbox = <<>>,
           UNCHANGED <<linkVars, view>>
    PROVE  OutboxRight' /\ WillAgree'
<1> DEFINE Good(sent) == \A w : w[0] \in Views /\ IsFilm(w, w[0], sent) =>
               /\ BoardRight(w[0], Game) => BoardRight(w[Len(sent)], Game')
               /\ RosterRight(w[0], Game) => RosterRight(w[Len(sent)], Game')
<1>1. ASSUME outbox' \in Seq(MoveEvents), Good(outbox') PROVE OutboxRight' /\ WillAgree'
  <2>1. OutboxRight'
    BY <1>1 DEF OutboxRight
  <2>2. outbox' \in Seq(Events)
    BY <1>1 DEF Events
  <2>3. QED
    BY <1>1, <2>1, <2>2, HandlerAgrees
<1>2. /\ "ACTIVE_TURN" \in Badges /\ "WINNER" \in Badges /\ "DRAW" \in Badges
      /\ "GAME_OVER" \in Phases
  BY DEF Badges, Phases
<1>3. CASE RefuseMove(m, c)
  <2>1. outbox' = <<[id |-> "INVALID_MOVE"]>> /\ Game' = Game
    BY <1>3 DEF RefuseMove, engineVars, Game, IsActive, Turns
  <2>2. outbox' \in Seq(MoveEvents) /\ Len(outbox') = 1 /\ outbox'[1] = [id |-> "INVALID_MOVE"]
    BY <2>1, TheyAreEvents
  <2>3. ASSUME NEW w, w[0] \in Views, IsFilm(w, w[0], outbox') PROVE w[1] = w[0]
    <3>1. w[1] = Shown(w[0], [id |-> "INVALID_MOVE"])
      BY <2>2, <2>3 DEF IsFilm
    <3>2. QED
      BY <2>3, <3>1, ShownNothing
  <2>4. Good(outbox')
    BY <2>1, <2>2, <2>3
  <2>5. QED
    BY <1>1, <2>2, <2>4
<1>4. CASE Win(m, c)
  <2>1. m \in Mark /\ c \in Cells
    BY <1>4, LegalFinds DEF Win
  <2>2. outbox' = WinEvents(m, c)
    BY <1>4 DEF Win, WinEvents
  <2>3. outbox' \in Seq(MoveEvents) /\ Len(outbox') = 5
    BY <1>2, <2>1, <2>2, TheyAreEvents DEF WinEvents
  <2>4. Good(outbox')
    BY <1>4, <2>2, <2>3, WinShown
  <2>5. QED
    BY <1>1, <2>3, <2>4
<1>5. CASE Draw(m, c)
  <2>1. m \in Mark /\ c \in Cells /\ "X" \in Mark /\ "O" \in Mark
    BY <1>5, LegalFinds DEF Draw, Mark
  <2>2. outbox' = DrawEvents(m, c)
    BY <1>5 DEF Draw
  <2>3. outbox' \in Seq(MoveEvents) /\ Len(outbox') = 6
    BY <1>2, <2>1, <2>2, TheyAreEvents DEF DrawEvents
  <2>4. Good(outbox')
    BY <1>5, <2>2, <2>3, DrawShown
  <2>5. QED
    BY <1>1, <2>3, <2>4
<1>6. CASE Continue(m, c)
  <2>1. m \in Mark /\ c \in Cells /\ Opponent(m) \in Mark /\ PhaseFor(Opponent(m)) \in Phases
    BY <1>6, LegalFinds DEF Continue, Mark, Opponent, PhaseFor, Phases
  <2>2. outbox' = ContinueEvents(m, c)
    BY <1>6 DEF Continue, ContinueEvents
  <2>3. outbox' \in Seq(MoveEvents) /\ Len(outbox') = 4
    BY <1>2, <2>1, <2>2, TheyAreEvents DEF ContinueEvents
  <2>4. Good(outbox')
    BY <1>6, <2>2, <2>3, ContinueShown
  <2>5. QED
    BY <1>1, <2>3, <2>4
<1>7. QED
  BY <1>3, <1>4, <1>5, <1>6 DEF HandleMove

\* A sequence of five is its first element and the other four.
LEMMA FiveEvents ==
    ASSUME NEW a, NEW b, NEW c, NEW d, NEW e
    PROVE  <<a>> \o <<b, c, d, e>> = <<a, b, c, d, e>>
<1> DEFINE S == {a, b, c, d, e}
<1>1. <<a>> \in Seq(S) /\ <<b, c, d, e>> \in Seq(S) /\ <<a, b, c, d, e>> \in Seq(S)
  OBVIOUS
<1>2. Len(<<a>>) = 1 /\ Len(<<b, c, d, e>>) = 4 /\ Len(<<a, b, c, d, e>>) = 5
  OBVIOUS
<1>3. Len(<<a>> \o <<b, c, d, e>>) = 5 /\ <<a>> \o <<b, c, d, e>> \in Seq(S)
  BY <1>1, <1>2
<1>4. \A i \in 1..5 : (<<a>> \o <<b, c, d, e>>)[i] = <<a, b, c, d, e>>[i]
  BY <1>1, <1>2
<1> HIDE DEF S
<1>5. QED
  BY <1>1, <1>2, <1>3, <1>4, SeqEqual

LEMMA NewGameAgrees ==
    ASSUME WInv, NEW dice, NewGame(dice), outbox = <<>>,
           UNCHANGED <<linkVars, view>>
    PROVE  OutboxRight' /\ WillAgree'
<1>1. PICK first \in (IF dice THEN Mark ELSE {"X"}) : StartGame(dice, first)
  BY DEF NewGame
<1>2. first \in Mark
  BY <1>1 DEF Mark
<1>3. Game' = FreshGame(first)
  <2>1. /\ cells' = BlankBoard /\ statuses' = FirstBadges(first) /\ active' = first
        /\ phase' = "PLAYER1_TURN" /\ IsActive'
    BY <1>1 DEF StartGame, IsActive, BlankBoard, FirstBadges
  <2>2. {c \in Cells : cells'[c] # Empty} = {}
    BY <2>1 DEF BlankBoard
  <2>3. Turns' = 1
    <3>1. Turns' = Cardinality({c \in Cells : cells'[c] # Empty}) + 1
      BY <2>1 DEF Turns
    <3>2. Turns' = Cardinality({}) + 1
      BY <2>2, <3>1
    <3>3. Cardinality({}) = 0
      BY FS_EmptySet
    <3>4. QED
      BY <3>2, <3>3
  <2>4. QED
    BY <2>1, <2>3 DEF Game, FreshGame
<1>4. outbox' \in {FromDice(first), FromRoster(first)}
  <2>1. outbox' = (IF dice THEN <<DiceRolled>> ELSE <<>>) \o FromRoster(first)
    BY <1>1 DEF StartGame, StartEvents, FromRoster, DiceRolled, ActorSnapshot,
       MapSnapshot, SessionStarted, BlankBoard, FirstBadges
  <2>2. <<DiceRolled>> \o FromRoster(first) = FromDice(first)
    BY FiveEvents DEF FromRoster, FromDice
  <2>3. <<>> \o FromRoster(first) = FromRoster(first)
    BY <1>2, OpeningsAreEvents, ConcatEmptySeq
  <2>4. QED
    BY <2>1, <2>2, <2>3
<1>5. OutboxRight'
  BY <1>2, <1>3, <1>4 DEF OutboxRight, OutboxOpens
<1>6. outbox' \in Seq(Events)
  BY <1>2, <1>4, OpeningsAreEvents
<1>7. ASSUME NEW w, w[0] \in Views, IsFilm(w, w[0], outbox')
      PROVE  BoardRight(w[Len(outbox')], Game') /\ RosterRight(w[Len(outbox')], Game')
  <2>1. Len(FromDice(first)) = 5 /\ Len(FromRoster(first)) = 4
    BY DEF FromDice, FromRoster
  <2>2. CASE outbox' = FromDice(first)
    BY <1>2, <1>3, <1>7, <2>1, <2>2, DiceShown
  <2>3. CASE outbox' = FromRoster(first)
    BY <1>2, <1>3, <1>7, <2>1, <2>3, RosterShown
  <2>4. QED
    BY <1>4, <2>2, <2>3
<1>8. WillAgree'
  BY <1>6, <1>7, HandlerAgrees
<1>9. QED
  BY <1>5, <1>8

\* An event that goes from the outbox to the link stays ahead of the window.
LEMMA StillAhead ==
    ASSUME NEW S, NEW s \in Seq(S), NEW t \in Seq(S), t # <<>>
    PROVE  Append(s, Head(t)) \o Tail(t) = s \o t
<1>1. Head(t) \in S /\ Tail(t) \in Seq(S) /\ Len(Tail(t)) = Len(t) - 1
  BY HeadTailProperties
<1>2. t = <<Head(t)>> \o Tail(t)
  <2>1. <<Head(t)>> \in Seq(S) /\ Len(<<Head(t)>>) = 1 /\ <<Head(t)>>[1] = t[1]
    BY <1>1
  <2> DEFINE u == <<Head(t)>> \o Tail(t)
  <2>2. u \in Seq(S) /\ Len(u) = Len(t)
    BY <1>1, <2>1, ConcatProperties
  <2>3. ASSUME NEW i \in 1..Len(t) PROVE t[i] = u[i]
    <3>1. u[i] = IF i <= 1 THEN <<Head(t)>>[i] ELSE Tail(t)[i - 1]
      BY <1>1, <2>1, <2>2, ConcatProperties
    <3>2. i = 1 \/ (i - 1 \in 1..Len(Tail(t)) /\ (i - 1) + 1 = i)
      BY <1>1
    <3>3. \A j \in 1..Len(Tail(t)) : Tail(t)[j] = t[j + 1]
      BY HeadTailProperties
    <3>4. QED
      BY <2>1, <3>1, <3>2, <3>3
  <2> HIDE DEF u
  <2>4. t = u
    BY <2>2, <2>3, SeqEqual
  <2>5. QED
    BY <2>4 DEF u
<1>3. <<Head(t)>> \in Seq(S) /\ Append(s, Head(t)) = s \o <<Head(t)>>
  BY <1>1, AppendIsConcat
<1>4. (s \o <<Head(t)>>) \o Tail(t) = s \o (<<Head(t)>> \o Tail(t))
  BY <1>1, <1>3, ConcatAssociative
<1>5. QED
  BY <1>2, <1>3, <1>4

\* What follows the first event of an opening, or of a move, is of the same kind.
LEMMA OutboxGoesOn ==
    ASSUME OutboxRight, outbox # <<>>, outbox' = Tail(outbox), UNCHANGED engineVars
    PROVE  OutboxRight'
<1>1. CASE outbox \in Seq(MoveEvents)
  BY <1>1 DEF OutboxRight
<1>2. ASSUME NEW first \in Mark, OutboxOpens(first) PROVE OutboxRight'
  <2>1. Game' = FreshGame(first)
    BY <1>2 DEF OutboxOpens, engineVars, Game, IsActive, Turns
  <2>2. /\ Tail(FromDice(first)) = FromRoster(first) /\ Tail(FromRoster(first)) = FromMap(first)
        /\ Tail(FromMap(first)) = FromSession(first)
        /\ Tail(FromSession(first)) = <<Added(first, "ACTIVE_TURN")>>
    BY DEF FromDice, FromRoster, FromMap, FromSession
  <2>3. <<Added(first, "ACTIVE_TURN")>> \in Seq(MoveEvents)
    BY TheyAreEvents DEF Badges
  <2>4. \/ outbox' \in {FromRoster(first), FromMap(first), FromSession(first)}
        \/ outbox' = <<Added(first, "ACTIVE_TURN")>>
    BY <1>2, <2>2 DEF OutboxOpens
  <2>5. CASE outbox' = <<Added(first, "ACTIVE_TURN")>>
    BY <2>3, <2>5 DEF OutboxRight
  <2>6. CASE outbox' \in {FromRoster(first), FromMap(first), FromSession(first)}
    BY <2>1, <2>6 DEF OutboxRight, OutboxOpens
  <2>7. QED
    BY <2>4, <2>5, <2>6
<1>3. QED
  BY <1>1, <1>2 DEF OutboxRight

\* Once SESSION_STARTED, or ACTOR_SNAPSHOT, is the next event to go, the rest
\* of the opening shows the game whatever the window shows before it.
LEMMA OpeningShows ==
    ASSUME WInv, outbox # <<>>, NEW w, IsFilm(w, view, Ahead)
    PROVE  /\ Head(outbox).id = "SESSION_STARTED" => BoardRight(w[Len(Ahead)], Game)
           /\ Head(outbox).id = "ACTOR_SNAPSHOT" => RosterRight(w[Len(Ahead)], Game)
<1> DEFINE x == [k \in 0..Len(outbox) |-> w[Len(events) + k]]
<1>1. events \in Seq(Events) /\ outbox \in Seq(Events) /\ view \in Views
  BY OutboxOfEvents DEF WInv
<1>2. /\ Len(Ahead) = Len(events) + Len(outbox)
      /\ IsFilm(w, view, events) /\ IsFilm(x, w[Len(events)], outbox)
  BY <1>1, FilmGoesOn DEF Ahead
<1>3. w[Len(events)] \in Views
  BY <1>1, <1>2, FilmOfViews
<1>4. x[0] = w[Len(events)] /\ x[Len(outbox)] = w[Len(Ahead)]
  BY <1>1, <1>2
<1> HIDE DEF x
<1>5. x[0] \in Views /\ IsFilm(x, x[0], outbox)
  BY <1>2, <1>3, <1>4
<1>6. CASE outbox \in Seq(MoveEvents)
  <2>1. Head(outbox) \in MoveEvents
    BY <1>6
  <2>2. QED
    BY <2>1 DEF MoveEvents
<1>7. ASSUME NEW first \in Mark, OutboxOpens(first)
      PROVE  /\ Head(outbox).id = "SESSION_STARTED" => BoardRight(x[Len(outbox)], Game)
             /\ Head(outbox).id = "ACTOR_SNAPSHOT" => RosterRight(x[Len(outbox)], Game)
  <2>1. /\ Game = FreshGame(first)
        /\ outbox \in {FromDice(first), FromRoster(first), FromMap(first), FromSession(first)}
    BY <1>7 DEF OutboxOpens
  <2>2. /\ Head(FromDice(first)).id = "DICE_ROLLED"
        /\ Head(FromRoster(first)).id = "ACTOR_SNAPSHOT"
        /\ Head(FromMap(first)).id = "MAP_SNAPSHOT"
        /\ Head(FromSession(first)).id = "SESSION_STARTED"
    BY DEF FromDice, FromRoster, FromMap, FromSession, DiceRolled, ActorSnapshot,
       MapSnapshot, SessionStarted
  <2>3. Len(FromRoster(first)) = 4 /\ Len(FromSession(first)) = 2
    BY DEF FromRoster, FromSession
  <2>4. ASSUME Head(outbox).id = "SESSION_STARTED" PROVE BoardRight(x[Len(outbox)], Game)
    <3>1. outbox = FromSession(first)
      BY <2>1, <2>2, <2>4
    <3>2. QED
      BY <1>5, <2>1, <2>3, <3>1, SessionShown
  <2>5. ASSUME Head(outbox).id = "ACTOR_SNAPSHOT" PROVE RosterRight(x[Len(outbox)], Game)
    <3>1. outbox = FromRoster(first)
      BY <2>1, <2>2, <2>5
    <3>2. QED
      BY <1>5, <2>1, <2>3, <3>1, RosterShown
  <2>6. QED
    BY <2>4, <2>5
<1>8. QED
  BY <1>4, <1>6, <1>7 DEF WInv, OutboxRight

LEMMA SendAgrees ==
    ASSUME WInv, SendEvent
    PROVE  WInv'
<1>1. /\ outbox # <<>> /\ outbox' = Tail(outbox) /\ UNCHANGED engineVars /\ view' = view
      /\ events \in Seq(Events) /\ outbox \in Seq(Events) /\ view \in Views
  BY OutboxOfEvents DEF SendEvent, windowVars, WInv
<1>2. OutboxRight'
  BY <1>1, OutboxGoesOn DEF WInv
<1>3. Game' = Game
  BY <1>1 DEF engineVars, Game, IsActive, Turns
<1>4. CASE Queued(Head(outbox))
  <2>1. /\ events' = Append(events, Head(outbox))
        /\ boardHeard' => boardHeard \/ Head(outbox).id = "SESSION_STARTED"
        /\ rosterHeard' => rosterHeard \/ Head(outbox).id = "ACTOR_SNAPSHOT"
    BY <1>4 DEF Queued
  <2>2. events' \in Seq(Events)
    BY <1>1, <2>1
  <2>3. Ahead' = Ahead
    BY <1>1, <2>1, StillAhead DEF Ahead
  <2>4. ASSUME NEW w, IsFilm(w, view, Ahead)
        PROVE  /\ boardHeard' => BoardRight(w[Len(Ahead)], Game)
               /\ rosterHeard' => RosterRight(w[Len(Ahead)], Game)
    <3>1. Pictures(w[Len(Ahead)], Game)
      BY <2>4 DEF WInv, WillAgree
    <3>2. /\ Head(outbox).id = "SESSION_STARTED" => BoardRight(w[Len(Ahead)], Game)
          /\ Head(outbox).id = "ACTOR_SNAPSHOT" => RosterRight(w[Len(Ahead)], Game)
      BY <1>1, <2>4, OpeningShows
    <3>3. QED
      BY <2>1, <3>1, <3>2 DEF Pictures
  <2>5. WillAgree'
    BY <1>1, <1>3, <2>3, <2>4 DEF WillAgree, Pictures
  <2>6. QED
    BY <1>1, <1>2, <2>2, <2>5 DEF WInv
<1>5. ASSUME NEW fd, Lost(fd) PROVE WInv'
  <2>1. events' = events /\ ~boardHeard' /\ ~rosterHeard'
    BY <1>5 DEF Lost
  <2>2. WillAgree'
    BY <2>1 DEF WillAgree, Pictures
  <2>3. QED
    BY <1>1, <1>2, <2>1, <2>2 DEF WInv
<1>6. QED
  BY <1>4, <1>5 DEF SendEvent

LEMMA ReceiveAgrees ==
    ASSUME WInv, Receive
    PROVE  WInv'
<1>1. /\ view \in Views /\ events \in Seq(Events) /\ events # <<>> /\ outbox \in Seq(Events)
  BY OutboxOfEvents DEF WInv, Receive
<1>2. /\ view' = Shown(view, Head(events)) /\ events' = Tail(events)
      /\ UNCHANGED <<engineVars, outbox, boardHeard, rosterHeard>>
  BY DEF Receive, gameVars, heardVars
<1>3. view' \in Views /\ events' \in Seq(Events)
  BY <1>1, <1>2, ShownIsAView
<1>4. Game' = Game /\ OutboxRight'
  BY <1>2 DEF Game, engineVars, IsActive, Turns, WInv, OutboxRight, OutboxOpens
<1>5. Ahead # <<>> /\ Ahead \in Seq(Events) /\ Head(Ahead) = Head(events) /\ Tail(Ahead) = Ahead'
  <2> DEFINE both == events \o outbox
  <2>1. both \in Seq(Events) /\ Len(both) = Len(events) + Len(outbox) /\ Len(events) > 0
    BY <1>1
  <2>2. both # <<>> /\ Head(both) = Head(events)
    BY <1>1, <2>1
  <2>3. Tail(events) \in Seq(Events) /\ Len(Tail(events)) = Len(events) - 1
    BY <1>1
  <2>4. Tail(both) = Tail(events) \o outbox
    <3> DEFINE s == Tail(both)
               t == Tail(events) \o outbox
    <3>1. s \in Seq(Events) /\ Len(s) = Len(both) - 1
          /\ \A i \in 1..Len(s) : s[i] = both[i + 1]
      BY <2>1, <2>2, HeadTailProperties
    <3>2. t \in Seq(Events) /\ Len(t) = Len(s)
      BY <1>1, <2>1, <2>3, <3>1, ConcatProperties
    <3>3. ASSUME NEW i \in 1..Len(s) PROVE s[i] = t[i]
      <4>1. both[i + 1] = IF i + 1 <= Len(events) THEN events[i + 1]
                          ELSE outbox[i + 1 - Len(events)]
        BY <1>1, <2>1, <3>1, ConcatProperties
      <4>2. t[i] = IF i <= Len(events) - 1 THEN Tail(events)[i]
                   ELSE outbox[i - (Len(events) - 1)]
        BY <1>1, <2>1, <2>3, <3>1, ConcatProperties
      <4>3. i <= Len(events) - 1 => Tail(events)[i] = events[i + 1]
        BY <1>1, <2>3, HeadTailProperties
      <4>4. i + 1 - Len(events) = i - (Len(events) - 1)
        BY <1>1
      <4>5. QED
        BY <1>1, <3>1, <4>1, <4>2, <4>3, <4>4
    <3> HIDE DEF s, t
    <3>4. s = t
      BY <3>1, <3>2, <3>3, SeqEqual
    <3>5. QED
      BY <3>4 DEF s, t
  <2>5. QED
    BY <1>2, <2>1, <2>2, <2>4 DEF Ahead
<1>6. ASSUME NEW w, IsFilm(w, Shown(view, Head(Ahead)), Tail(Ahead))
      PROVE  Pictures(w[Len(Tail(Ahead))], Game)
  <2>1. PICK x : IsFilm(x, view, Ahead) /\ x[Len(Ahead)] = w[Len(Tail(Ahead))]
    BY <1>5, <1>6, FilmStartsEarlier
  <2>2. Pictures(x[Len(Ahead)], Game)
    BY <2>1 DEF WInv, WillAgree
  <2>3. QED
    BY <2>1, <2>2
<1>7. WillAgree'
  BY <1>2, <1>4, <1>5, <1>6 DEF WillAgree, Pictures
<1>8. QED
  BY <1>3, <1>4, <1>7 DEF WInv

\* The engine and the link stand still.
LEMMA IdleAgrees ==
    ASSUME WInv, UNCHANGED <<engineVars, outbox, events, boardHeard, rosterHeard, view>>
    PROVE  WInv'
<1>1. Game' = Game /\ Ahead' = Ahead
  BY DEF Game, engineVars, IsActive, Turns, Ahead
<1>2. WillAgree'
  BY <1>1 DEF WInv, WillAgree, Pictures
<1>3. OutboxRight'
  BY <1>1 DEF WInv, OutboxRight, OutboxOpens
<1>4. QED
  BY <1>2, <1>3 DEF WInv

LEMMA BlankIsAView == NoView \in Views
<1>1. NoView.board \in BoardViews
  BY DEF NoView, BoardViews, Boards
<1>2. NoView.actors \in ActorViews /\ NoView.flow \in FlowViews
  BY DEF NoView, ActorViews, FlowViews
<1>3. NoView = [board |-> NoView.board, actors |-> NoView.actors, flow |-> NoView.flow]
  BY DEF NoView
<1>4. QED
  BY <1>1, <1>2, <1>3, Zenon DEF Views

LEMMA InitAgrees == Init => WInv
<1> SUFFICES ASSUME Init PROVE WInv
  OBVIOUS
<1>1. view \in Views /\ events = <<>> /\ outbox = <<>> /\ ~boardHeard /\ ~rosterHeard
  BY BlankIsAView DEF Init, GameInit
<1>2. QED
  BY <1>1 DEF WInv, OutboxRight, WillAgree, Pictures

LEMMA NextAgrees == IInv /\ WInv /\ [Next]_vars => WInv'
<1> SUFFICES ASSUME IInv, WInv, [Next]_vars PROVE WInv'
  OBVIOUS
<1>1. ASSUME OutboxRight', WillAgree', UNCHANGED <<linkVars, view>> PROVE WInv'
  BY <1>1 DEF WInv, linkVars
<1>2. ASSUME NEW c \in Cells, Click(c) PROVE WInv'
  BY <1>2, IdleAgrees DEF Click, Command, gameVars, linkVars, heardVars
<1>3. ASSUME NEW dice \in BOOLEAN, Reload(dice) PROVE WInv'
  BY <1>3, IdleAgrees DEF Reload, Command, gameVars, linkVars, heardVars
<1>4. ASSUME Handle PROVE WInv'
  <2> DEFINE cmd == Head(commands)
  <2>1. /\ outbox = <<>> /\ UNCHANGED <<linkVars, view>>
        /\ HandleMove(cmd.player, cmd.cell) \/ NewGame(cmd.dice)
    BY <1>4 DEF Handle
  <2> HIDE DEF cmd
  <2>2. CASE HandleMove(cmd.player, cmd.cell)
    BY <1>1, <2>1, <2>2, MoveAgrees
  <2>3. CASE NewGame(cmd.dice)
    BY <1>1, <2>1, <2>3, NewGameAgrees
  <2>4. QED
    BY <2>1, <2>2, <2>3
<1>5. ASSUME HandleOther PROVE WInv'
  <2>1. outbox = <<>> /\ UNCHANGED <<linkVars, view>>
    BY <1>5 DEF HandleOther, windowVars
  <2>2. ASSUME NEW m, NEW c, HandleMove(m, c) PROVE WInv'
    BY <1>1, <2>1, <2>2, MoveAgrees
  <2>3. ASSUME NEW dice \in BOOLEAN, NewGame(dice) PROVE WInv'
    BY <1>1, <2>1, <2>3, NewGameAgrees
  <2>4. QED
    BY <1>5, <2>2, <2>3 DEF HandleOther
<1>6. CASE SendEvent
  BY <1>6, SendAgrees
<1>7. CASE Receive
  BY <1>7, ReceiveAgrees
<1>8. CASE Close
  <2>1. /\ view' \in Views /\ events' = <<>> /\ ~boardHeard' /\ ~rosterHeard'
        /\ UNCHANGED <<engineVars, outbox>>
    BY <1>8, BlankIsAView DEF Close, gameVars
  <2>2. OutboxRight'
    BY <2>1 DEF WInv, OutboxRight, OutboxOpens, Game, engineVars, IsActive, Turns
  <2>3. WillAgree'
    BY <2>1 DEF WillAgree, Pictures
  <2>4. QED
    BY <2>1, <2>2, <2>3 DEF WInv
<1>9. CASE Open \/ UNCHANGED vars
  BY <1>9, IdleAgrees DEF Open, vars, gameVars, linkVars, heardVars, windowVars
<1>10. QED
  BY <1>2, <1>3, <1>4, <1>5, <1>6, <1>7, <1>8, <1>9 DEF Next

\* A window that lost no event since the game's SESSION_STARTED shows the
\* engine's board, turn and phase once it has handled what was sent, and one that
\* lost none since its ACTOR_SNAPSHOT the badges: on every board, with any number
\* of commands and events under way, however often it was closed and opened
\* before and whatever the engine's stale socket swallowed then (start_game's
\* order of events, IpSocketChannel::send, the window's modules).
THEOREM WindowAlwaysAgrees == Spec => []WindowAgrees
<1>1. ASSUME WInv, outbox = <<>>, events = <<>> PROVE Pictures(view, Game)
  <2> DEFINE w == [k \in 0..0 |-> view]
  <2>1. Ahead = <<>> /\ Len(Ahead) = 0
    BY <1>1 DEF Ahead
  <2>2. IsFilm(w, view, Ahead) /\ w[Len(Ahead)] = view
    BY <2>1 DEF IsFilm
  <2> HIDE DEF w
  <2>3. QED
    BY <1>1, <2>2 DEF WInv, WillAgree
<1>2. ASSUME WInv, outbox = <<>>, events = <<>>, boardHeard PROVE BoardRight(view, Game)
  BY <1>1, <1>2 DEF Pictures
<1>3. ASSUME WInv, outbox = <<>>, events = <<>>, rosterHeard
      PROVE  view.actors = [listed |-> TRUE, statuses |-> statuses]
  <2>1. view.actors \in ActorViews
    BY <1>3 DEF WInv, Views
  <2>2. view.actors.listed /\ view.actors.statuses = statuses
    BY <1>1, <1>3 DEF Pictures, RosterRight, Game
  <2>3. QED
    BY <2>1, <2>2 DEF ActorViews
<1>4. WInv => WindowAgrees
  BY <1>2, <1>3 DEF WindowAgrees, BoardRight, Game
<1>5. QED
  BY InitRight, NextRight, InitAgrees, NextAgrees, <1>4, PTL DEF Spec
=============================================================================
