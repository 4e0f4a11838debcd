---------------------------- MODULE MCDiscussion ----------------------------
\* Constant values that a configuration file cannot spell.
EXTENDS Discussion, TLC

CONSTANTS p, q, m1, m2, r1, r2

\* p and q speak once each.
Authors == [m \in Messages |-> IF m = m1 THEN p ELSE q]

Interchangeable == Permutations(Moves)
=============================================================================
