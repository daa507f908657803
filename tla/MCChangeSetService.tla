-------------------------- MODULE MCChangeSetService --------------------------
EXTENDS ChangeSetService, TLC

CONSTANTS c1, c2, p1, p2

\* two Change Sets over the same paths, or over one path each
MCOverlapping == [c \in ChangeSets |-> Paths]
MCDisjoint == [c \in ChangeSets |-> IF c = c1 THEN {p1} ELSE {p2}]
Symmetry == Permutations(ChangeSets) \cup Permutations(Paths)
===============================================================================
