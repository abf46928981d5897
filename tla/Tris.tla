-------------------------------- MODULE Tris --------------------------------
(***************************************************************************)
(* The Tic-Tac-Toe CoreEngine: TrisEngine with the board, the players'     *)
(* statuses, the turn flow and the win rules it calls.  A command is       *)
(* handled whole on the server's thread and nothing else reads the         *)
(* engine's state, so a handler is one action that leaves its events in    *)
(* the outbox; they are sent one by one, each with the values of its time, *)
(* before the next command is read (TrisTable).                            *)
(*                                                                         *)
(* The board is any set of cells with its winning lines: nothing in the    *)
(* engine depends on the grid but WINNING_LINES.  A command's row and      *)
(* column, truncated to a byte by handle_move, are a cell or OffBoard.     *)
(***************************************************************************)
EXTENDS Integers, FiniteSets, Sequences

CONSTANTS
    Cells,      \* the cells of the board
    Lines,      \* WINNING_LINES, each the set of its cells
    OffBoard    \* the address of no cell

ASSUME LinesAssumption ==
    /\ Cells # {} /\ IsFiniteSet(Cells)
    /\ Lines \subseteq SUBSET Cells
    /\ {} \notin Lines
    /\ OffBoard \notin Cells

VARIABLES
    cells,      \* Board: the mark of each cell
    statuses,   \* Players: the statuses of each player
    active,     \* Players::_active
    starter,    \* TrisEngine::_starter_mark
    phase,      \* TurnFlow::_phase
    turn,       \* TurnFlow::_turn: the actor of the open turn, or Empty
    outbox      \* the events the handler in progress has still to send

engineVars == <<cells, statuses, active, starter, phase, turn>>
gameVars == <<engineVars, outbox>>

Empty == ""
Mark == {"X", "O"}
Opponent(m) == IF m = "X" THEN "O" ELSE "X"

Phases == {"BOOTSTRAP", "PLAYER1_TURN", "PLAYER2_TURN", "GAME_OVER"}
IsActive == phase \in {"PLAYER1_TURN", "PLAYER2_TURN"}
PhaseFor(m) == IF m = starter THEN "PLAYER1_TURN" ELSE "PLAYER2_TURN"
ActorFor(p) == CASE p = "PLAYER1_TURN" -> "X"
                 [] p = "PLAYER2_TURN" -> "O"
                 [] OTHER -> Empty

\* The three cells of a line carry the mark (WINNING_LINES, line_condition).
Lined(board, m) == \E l \in Lines : \A c \in l : board[c] = m
IsFull(board) == \A c \in Cells : board[c] # Empty

\* A plausible slip: the full board is asked for before the lines.
EvaluateFullFirst(board) ==
    IF IsFull(board) THEN "DRAW"
    ELSE IF \E m \in Mark : Lined(board, m) THEN "WIN" ELSE "NONE"

Evaluate(board) ==
    IF \E m \in Mark : Lined(board, m) THEN "WIN"
    ELSE IF IsFull(board) THEN "DRAW" ELSE "NONE"

GameInit ==
    /\ cells = [c \in Cells |-> Empty]
    /\ statuses = [m \in Mark |-> {}]
    /\ active = "X" /\ starter = "X"
    /\ phase = "BOOTSTRAP" /\ turn = Empty
    /\ outbox = <<>>

-----------------------------------------------------------------------------
(* The events.                                                             *)

Added(m, s) == [id |-> "STATUS_ADDED", actor |-> m, status |-> s]
Removed(m, s) == [id |-> "STATUS_REMOVED", actor |-> m, status |-> s]
PhaseChanged(p) == [id |-> "PHASE_CHANGED", phase |-> p]

-----------------------------------------------------------------------------
(* The handlers.                                                           *)

\* The events of a new game; the roll is announced when there was one.
StartEvents(dice, first) ==
    (IF dice THEN <<[id |-> "DICE_ROLLED"]>> ELSE <<>>)
    \o <<[id |-> "ACTOR_SNAPSHOT",
          statuses |-> [m \in Mark |-> IF m = first THEN {"ACTIVE_TURN"} ELSE {}]],
         [id |-> "MAP_SNAPSHOT", cells |-> [c \in Cells |-> Empty]],
         [id |-> "SESSION_STARTED", phase |-> "PLAYER1_TURN"],
         Added(first, "ACTIVE_TURN")>>

\* TrisEngine::start_game: Starter::choose has given the first mark.
StartGame(dice, first) ==
    /\ cells' = [c \in Cells |-> Empty]
    /\ statuses' = [m \in Mark |-> IF m = first THEN {"ACTIVE_TURN"} ELSE {}]
    /\ starter' = first /\ active' = first
    /\ phase' = "PLAYER1_TURN" /\ turn' = ActorFor("PLAYER1_TURN")
    /\ outbox' = StartEvents(dice, first)

\* NEW_GAME: dice_1d2 rolls for the first mark, any other mode starts with X.
NewGame(dice) == \E first \in (IF dice THEN Mark ELSE {"X"}) : StartGame(dice, first)

\* A plausible slip: whose turn it is is not asked.
LegalForAnyone(m, c) ==
    /\ IsActive
    /\ m \in Mark
    /\ c \in Cells /\ cells[c] = Empty

\* The validation of handle_move; parse_mark gives Empty for an unknown name.
Legal(m, c) ==
    /\ IsActive
    /\ m \in Mark /\ m = active
    /\ c \in Cells /\ cells[c] = Empty

RefuseMove(m, c) ==
    /\ ~Legal(m, c)
    /\ outbox' = <<[id |-> "INVALID_MOVE"]>>
    /\ UNCHANGED engineVars

\* Board::set and the event that reports it.
Marked(m, c) == [cells EXCEPT ![c] = m]
CellChanged(m, c) == [id |-> "CELL_CHANGED", cell |-> c, mark |-> m]

\* TurnFlow::set_phase opens the turn of the phase.
SetPhase(p) == phase' = p /\ turn' = ActorFor(p)

\* Players::mark_winner and the events of a win.
Win(m, c) ==
    /\ Legal(m, c) /\ Evaluate(Marked(m, c)) = "WIN"
    /\ cells' = Marked(m, c)
    /\ statuses' = [p \in Mark |-> (statuses[p] \ {"ACTIVE_TURN"})
                                   \cup (IF p = m THEN {"WINNER"} ELSE {})]
    /\ SetPhase("GAME_OVER")
    /\ outbox' = <<CellChanged(m, c), Removed(m, "ACTIVE_TURN"), Added(m, "WINNER"),
                   PhaseChanged("GAME_OVER"), [id |-> "GAME_WON"]>>
    /\ UNCHANGED <<active, starter>>

\* A plausible slip: a draw leaves the turn badge of the last player.
DrawEventsKeepTurn(m, c) ==
    <<CellChanged(m, c), Added("X", "DRAW"), Added("O", "DRAW"),
      PhaseChanged("GAME_OVER"), [id |-> "GAME_DRAW"]>>

DrawEvents(m, c) ==
    <<CellChanged(m, c), Removed(m, "ACTIVE_TURN"), Added("X", "DRAW"), Added("O", "DRAW"),
      PhaseChanged("GAME_OVER"), [id |-> "GAME_DRAW"]>>

\* Players::mark_draw and the events of a draw.
Draw(m, c) ==
    /\ Legal(m, c) /\ Evaluate(Marked(m, c)) = "DRAW"
    /\ cells' = Marked(m, c)
    /\ statuses' = [p \in Mark |-> (statuses[p] \ {"ACTIVE_TURN"}) \cup {"DRAW"}]
    /\ SetPhase("GAME_OVER")
    /\ outbox' = DrawEvents(m, c)
    /\ UNCHANGED <<active, starter>>

\* Players::set_active(next) and the events of a move that decides nothing.
Continue(m, c) ==
    LET next == Opponent(m) IN
    /\ Legal(m, c) /\ Evaluate(Marked(m, c)) = "NONE"
    /\ cells' = Marked(m, c)
    /\ active' = next
    /\ statuses' = [p \in Mark |-> IF p = next THEN statuses[p] \cup {"ACTIVE_TURN"}
                                   ELSE statuses[p] \ {"ACTIVE_TURN"}]
    /\ SetPhase(PhaseFor(next))
    /\ outbox' = <<CellChanged(m, c), Removed(m, "ACTIVE_TURN"),
                   Added(next, "ACTIVE_TURN"), PhaseChanged(PhaseFor(next))>>
    /\ UNCHANGED starter

HandleMove(m, c) == RefuseMove(m, c) \/ Win(m, c) \/ Draw(m, c) \/ Continue(m, c)

-----------------------------------------------------------------------------
\* The type of the engine's state.
EngineTypeOK ==
    /\ cells \in [Cells -> Mark \cup {Empty}]
    /\ statuses \in [Mark -> SUBSET {"ACTIVE_TURN", "WINNER", "DRAW"}]
    /\ active \in Mark /\ starter \in Mark
    /\ phase \in Phases
    /\ turn \in Mark \cup {Empty}

\* The game is over exactly when a line is complete or the board is full, and
\* the badges tell the same story: the winner is the one player with a line,
\* even when the winning mark is also the last free cell; both drew only on a
\* full board without a line; and nobody is on turn then (TrisEngine.cpp
\* handle_move, WinRules.cpp evaluate, Players.cpp mark_winner and mark_draw).
OutcomeRight ==
    phase # "BOOTSTRAP" =>
    /\ IsActive <=> Evaluate(cells) = "NONE"
    /\ \A m \in Mark :
          /\ "WINNER" \in statuses[m] <=> Lined(cells, m)
          /\ "DRAW" \in statuses[m] <=> Evaluate(cells) = "DRAW"
          /\ "ACTIVE_TURN" \in statuses[m] <=> IsActive /\ m = active
    /\ ~(Lined(cells, "X") /\ Lined(cells, "O"))

\* The turns of this game that have been opened.
Turns == Cardinality({c \in Cells : cells[c] # Empty}) + (IF IsActive THEN 1 ELSE 0)

\* The marks a player has set.
Count(m) == Cardinality({c \in Cells : cells[c] = m})

\* The players really alternate, whatever stale or doubled clicks arrive: the
\* starter is never more than one mark ahead, and the player on turn is the
\* one who is behind (TrisEngine.cpp handle_move).
MarksAlternate ==
    /\ Count(starter) - Count(Opponent(starter)) \in {0, 1}
    /\ IsActive => (active = starter <=> Count(starter) = Count(Opponent(starter)))
=============================================================================
