------------------------------- MODULE MCTris -------------------------------
(* The 3x3 board of WINNING_LINES; its rotations and reflections are a       *)
(* symmetry of the specification.                                            *)
EXTENDS TrisTable, TLC

CONSTANTS c11, c12, c13, c21, c22, c23, c31, c32, c33

Grid == <<<<c11, c12, c13>>, <<c21, c22, c23>>, <<c31, c32, c33>>>>

MCCells == {Grid[r][c] : r, c \in 1..3}

MCLines ==
    {{Grid[r][c] : c \in 1..3} : r \in 1..3} \cup {{Grid[r][c] : r \in 1..3} : c \in 1..3}
    \cup {{Grid[i][i] : i \in 1..3}, {Grid[i][4 - i] : i \in 1..3}}

\* The permutations of the cells that keep the lines: those of the square.
MCSymmetry ==
    {p \in Permutations(MCCells) : \A l \in MCLines : {p[c] : c \in l} \in MCLines}
=============================================================================
