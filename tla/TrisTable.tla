------------------------------ MODULE TrisTable ------------------------------
(***************************************************************************)
(* A Tic-Tac-Toe table: the engine of Tris, the channel that carries its   *)
(* events and the desktop window (TrisMainWindow with its board module and *)
(* its actor and flow dashboards).  A click or the reload button sends a   *)
(* command and changes nothing else until the engine's events come back,   *)
(* so the window may act on an old picture.  It may be closed and opened   *)
(* again while the engine goes on; the engine's socket to the old window   *)
(* then stays open until a send on it fails.                               *)
(***************************************************************************)
EXTENDS Tris

CONSTANTS
    MaxCommands,    \* bound: commands under way from the window
    MaxEvents,      \* bound: events under way to the window
    MaxMissed       \* bound: marks of a game an open window has not heard from its start

VARIABLES
    open,       \* a window listens for the engine
    link,       \* IpSocketChannel: no socket, one to the window, one to a closed window
    events,     \* the events on their way to the window
    boardHeard, \* the window heard all of this game from SESSION_STARTED on
    rosterHeard,\* ... from ACTOR_SNAPSHOT on
    view,       \* what the modules of the window show
    dialled,    \* the window has its connection to the engine's CmdServer
    commands    \* the commands on their way to the engine

heardVars == <<boardHeard, rosterHeard>>
linkVars == <<open, link, events, heardVars>>
windowVars == <<view, dialled, commands>>
vars == <<gameVars, linkVars, windowVars>>

\* The window as it is built: board, actor and flow modules are blank.
NoView ==
    [board |-> [cells |-> [c \in Cells |-> Empty], active |-> Empty,
                over |-> FALSE, enabled |-> TRUE],
     actors |-> [listed |-> FALSE, statuses |-> [m \in Mark |-> {}]],
     flow |-> [phase |-> Empty, turns |-> 0]]

Init ==
    /\ GameInit
    /\ open \in BOOLEAN /\ link = "none" /\ events = <<>>
    /\ boardHeard = FALSE /\ rosterHeard = FALSE
    /\ view = NoView /\ dialled = FALSE /\ commands = <<>>

-----------------------------------------------------------------------------
(* The engine's side.                                                      *)

MayMove ==
    open /\ ~(boardHeard /\ rosterHeard) =>
        Cardinality({c \in Cells : cells[c] # Empty}) <= MaxMissed

\* CmdServer::run hands the next command to TrisEngine::handle_command.
Handle ==
    /\ outbox = <<>>
    /\ commands # <<>>
    /\ LET cmd == Head(commands) IN
       \/ cmd.id = "MOVE" /\ MayMove /\ HandleMove(cmd.player, cmd.cell)
       \/ cmd.id = "NEW_GAME" /\ NewGame(cmd.dice)
    /\ commands' = Tail(commands)
    /\ UNCHANGED <<linkVars, view, dialled>>

\* A command of another client, which may name any player and any cell.  It
\* is served while the window is not connected; bound: and no other command is under way.
HandleOther ==
    /\ outbox = <<>>
    /\ ~dialled /\ commands = <<>>
    /\ \/ MayMove /\ \E m \in Mark \cup {Empty}, c \in Cells \cup {OffBoard} : HandleMove(m, c)
       \/ \E dice \in BOOLEAN : NewGame(dice)
    /\ UNCHANGED <<linkVars, windowVars>>

\* The event arrives; the window has heard the game from its opening events on.
Queued(e) ==
    /\ Len(events) < MaxEvents
    /\ events' = Append(events, e)
    /\ link' = "live"
    /\ boardHeard' = (boardHeard \/ e.id = "SESSION_STARTED")
    /\ rosterHeard' = (rosterHeard \/ e.id = "ACTOR_SNAPSHOT")

\* The event is lost; `fd` is what becomes of the socket.
Lost(fd) ==
    /\ link' = fd
    /\ boardHeard' = FALSE /\ rosterHeard' = FALSE
    /\ UNCHANGED events

\* GuiBridge::send_event and IpSocketChannel::send for the next event.  A
\* socket is connected only when there is none.  On the socket to a closed
\* window a send may seem to succeed, or fail and close it; an error is
\* swallowed and the event is never sent again.
SendEvent ==
    /\ outbox # <<>>
    /\ outbox' = Tail(outbox)
    /\ \/ link = "live" /\ Queued(Head(outbox))
       \/ link = "stale" /\ \E fd \in {"stale", "none"} : Lost(fd)
       \/ link = "none" /\ open /\ Queued(Head(outbox))
       \/ link = "none" /\ ~open /\ Lost("none")
    /\ UNCHANGED <<engineVars, open, windowVars>>

-----------------------------------------------------------------------------
(* The window's side.                                                      *)

\* EngineSender::send connects for the first command and keeps the connection.
Command(cmd) ==
    /\ open /\ Len(commands) < MaxCommands
    /\ commands' = Append(commands, cmd) /\ dialled' = TRUE
    /\ UNCHANGED <<gameVars, linkVars, view>>

\* GmTrisBoardModule._on_cell_clicked: a button sends only while it is
\* enabled, and for the mark the module believes to be on turn.
Click(c) ==
    /\ view.board.enabled /\ ~view.board.over /\ view.board.active # Empty
    /\ Command([id |-> "MOVE", player |-> view.board.active, cell |-> c])

\* TrisMainWindow._on_reload: a new match with the chosen starter mode.
Reload(dice) == Command([id |-> "NEW_GAME", dice |-> dice])

\* The mark of the actor whose badge says ACTIVE_TURN, if any.
OnTurn(badges, old) ==
    IF \E m \in Mark : "ACTIVE_TURN" \in badges[m]
    THEN CHOOSE m \in Mark : "ACTIVE_TURN" \in badges[m] ELSE old

\* The events that end a game for the board.
Ends(e) ==
    \/ e.id \in {"GAME_WON", "GAME_DRAW"}
    \/ e.id = "PHASE_CHANGED" /\ e.phase = "GAME_OVER"

\* GmTrisBoardModule.on_envelope; BoardWidget.reset blanks and enables the grid.
BoardShown(b, e) ==
    CASE e.id = "ACTOR_SNAPSHOT" -> [b EXCEPT !.active = OnTurn(e.statuses, @)]
      [] e.id = "MAP_SNAPSHOT" -> [b EXCEPT !.cells = e.cells, !.enabled = TRUE]
      [] e.id = "SESSION_STARTED" ->
            [b EXCEPT !.cells = [c \in Cells |-> Empty], !.enabled = TRUE, !.over = FALSE]
      [] e.id = "CELL_CHANGED" -> [b EXCEPT !.cells[e.cell] = e.mark]
      [] e.id = "STATUS_ADDED" /\ e.status = "ACTIVE_TURN" -> [b EXCEPT !.active = e.actor]
      [] Ends(e) -> [b EXCEPT !.over = TRUE, !.enabled = FALSE]
      [] OTHER -> b

\* GmActorModule.on_envelope: statuses of actors no snapshot has listed are ignored.
ActorsShown(a, e) ==
    CASE e.id = "ACTOR_SNAPSHOT" -> [listed |-> TRUE, statuses |-> e.statuses]
      [] e.id = "STATUS_ADDED" /\ a.listed -> [a EXCEPT !.statuses[e.actor] = @ \cup {e.status}]
      [] e.id = "STATUS_REMOVED" /\ a.listed -> [a EXCEPT !.statuses[e.actor] = @ \ {e.status}]
      [] OTHER -> a

\* TrisEventAdapter gives a turn to the phase of a player.
TurnOf(p) == IF p \in {"PLAYER1_TURN", "PLAYER2_TURN"} THEN 1 ELSE 0

\* GmFlowModule.on_envelope on what TrisEventAdapter makes of the event: a new
\* session starts the count of turns again.
FlowShown(f, e) ==
    CASE e.id = "SESSION_STARTED" -> [phase |-> e.phase, turns |-> TurnOf(e.phase)]
      [] e.id = "PHASE_CHANGED" -> [phase |-> e.phase, turns |-> f.turns + TurnOf(e.phase)]
      [] OTHER -> f

\* TrisMainWindow._on_envelope: the board, then the dashboards.
Shown(v, e) ==
    [board |-> BoardShown(v.board, e), actors |-> ActorsShown(v.actors, e),
     flow |-> FlowShown(v.flow, e)]

Receive ==
    /\ events # <<>>
    /\ view' = Shown(view, Head(events))
    /\ events' = Tail(events)
    /\ UNCHANGED <<gameVars, open, link, heardVars, dialled, commands>>

\* closeEvent: what was on its way to the window is lost; commands already
\* sent still arrive.
Close ==
    /\ open
    /\ open' = FALSE /\ events' = <<>>
    /\ link' = IF link = "live" THEN "stale" ELSE link
    /\ boardHeard' = FALSE /\ rosterHeard' = FALSE
    /\ view' = NoView /\ dialled' = FALSE
    /\ UNCHANGED <<gameVars, commands>>

\* A window is opened: it listens, and has no picture until events arrive.
Open ==
    /\ ~open /\ open' = TRUE
    /\ UNCHANGED <<gameVars, link, events, heardVars, windowVars>>

Next ==
    \/ \E c \in Cells : Click(c)
    \/ \E dice \in BOOLEAN : Reload(dice)
    \/ Handle \/ HandleOther \/ SendEvent \/ Receive \/ Close \/ Open

Spec == Init /\ [][Next]_vars

-----------------------------------------------------------------------------
\* Once everything sent has been handled, the window shows the engine's game
\* as far as it can know it.  If no event was lost since the game's
\* SESSION_STARTED, the board has the engine's marks, accepts clicks exactly
\* while the game runs and sends them for the player on turn, and the flow
\* panel names the phase and has counted every turn; if none was lost since
\* its ACTOR_SNAPSHOT, the actors panel has the engine's badges.  So the board
\* repairs itself with the first new game whose SESSION_STARTED gets past the
\* stale socket, whatever was shown before (start_game's order of events,
\* IpSocketChannel::send, the modules' handlers).
WindowAgrees ==
    outbox = <<>> /\ events = <<>> =>
    /\ boardHeard =>
          /\ view.board.cells = cells
          /\ view.board.over <=> phase = "GAME_OVER"
          /\ view.board.enabled <=> IsActive
          /\ IsActive => view.board.active = active
          /\ view.flow = [phase |-> phase, turns |-> Turns]
    /\ rosterHeard => view.actors = [listed |-> TRUE, statuses |-> statuses]
=============================================================================
