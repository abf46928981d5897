\* Tic-Tac-Toe: the whole 3x3 board, one command under way, a window that may
\* be closed and opened.
CONSTANTS
    c11 = c11  c12 = c12  c13 = c13
    c21 = c21  c22 = c22  c23 = c23
    c31 = c31  c32 = c32  c33 = c33
    OffBoard = OffBoard
    Cells <- MCCells
    Lines <- MCLines
    MaxCommands = 1
    MaxEvents = 1
    MaxMissed = 1
SYMMETRY MCSymmetry
SPECIFICATION Spec
INVARIANTS
    OutcomeRight
    MarksAlternate
    WindowAgrees
