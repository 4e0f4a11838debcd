-------------------------- MODULE MCSessionManager --------------------------
\* Constant values that a configuration file cannot spell.
EXTENDS SessionManager, TLC

CONSTANTS a, b, d, a1, a2, b1, d1, arm, other

\* Groups of two, the smallest normalizeCondition admits, and one session per
\* arm and round.
PairOf == [c \in Conditions |-> 2]
GoalOne == [c \in Conditions |-> 1]

Whose == [r \in Requests |-> CASE r \in {a1, a2} -> a [] r = b1 -> b [] r = d1 -> d]

\* b and d, each with one request, may trade places in a safety run where
\* neither is a Prolific participant.
Strangers == {[x \in {b, d, b1, d1} |->
                 CASE x \in {b, d} -> p[x]
                   [] x = b1 -> IF p[b] = b THEN b1 ELSE d1
                   [] x = d1 -> IF p[d] = d THEN d1 ELSE b1] : p \in Permutations({b, d})}
=============================================================================
