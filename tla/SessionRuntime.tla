--------------------------- MODULE SessionRuntime ---------------------------
(***************************************************************************)
(* SessionRuntime: the state of one running discussion in the Chat         *)
(* Service, and the evaluation of a closed contribution window over it     *)
(* (bot-rules.ts, the nudging arms).  A runtime is a snapshot; its         *)
(* revision is the one its latest snapshot took.                           *)
(***************************************************************************)
EXTENDS CheckpointMerge, FiniteSets

CONSTANTS
    Participants,   \* the group
    Sender,         \* [Messages -> Participants]
    Threshold,      \* contributionThreshold, in percent
    WrapUp          \* protectedEndMinutes, in windows

\* handleEvent for these events, in the order of the timeline: markProcessed,
\* then recordMessage, or recordRanking with its recordBehavior.
Recorded(rt, events, timeline) ==
    LET new == events \ rt.processed IN
    [revision  |-> rt.revision,
     log       |-> rt.log \cup new,
     order     |-> Appended(rt.order, Selected(timeline, Moves \cap new)),
     verdict   |-> rt.verdict,
     failed    |-> rt.failed,
     windows   |-> rt.windows,
     processed |-> rt.processed \cup new]

\* recordClassification, recordClassificationFailure
Judged(rt, m, v) == [rt EXCEPT !.verdict = [@ EXCEPT ![m] = v]]
Unclassified(rt, m) == [rt EXCEPT !.failed = @ \cup {m}]

\* recordWindowEvaluation (after recordIntervention, when nudged)
Evaluated(rt, w) == [rt EXCEPT !.windows = @ \cup {w}]

\* checkpoint
Snapshot(rt) == [rt EXCEPT !.revision = @ + 1]

\* restore: the latest boundary with a record is the latest claimed one.
LastBoundary(rt) ==
    IF rt.windows = {} THEN 0
    ELSE CHOOSE k \in {w.end : w \in rt.windows} : \A w \in rt.windows : w.end <= k

\* isInsideInterventionWindow; the grid starts after the warm-up.
InsideInterventionWindow(k) == Duration - k > WrapUp

\* contributionSplit: the messages of the window that ended at k, as far as
\* the runtime has them, except invitations.  A message without a verdict
\* counts.  Every message weighs the same here.
Counted(rt, sentIn, k) ==
    {m \in Messages \cap rt.log : sentIn[m] = k /\ rt.verdict[m] # "invites"}

\* 0.90 of the share plus 0.10 of the mean meaningfulness, in percent,
\* multiplied out.
Dominates(p, counted, verdict) ==
    LET own == {m \in counted : Sender[m] = p}
        judged == {m \in own : verdict[m] # "none"}
        meaningful == {m \in own : verdict[m] = "meaningful"}
        total == Cardinality(counted)
        n == Cardinality(judged)
    IN  /\ total > 0
        /\ IF n = 0 THEN 90 * Cardinality(own) >= Threshold * total
           ELSE 90 * Cardinality(own) * n + 10 * Cardinality(meaningful) * total
                    >= Threshold * total * n

\* overThreshold is not empty: the top entry is the nudge's target.
SomeoneDominates(rt, sentIn, k) ==
    \E p \in Participants :
        Dominates(p, Counted(rt, sentIn, k), rt.verdict)
=============================================================================
