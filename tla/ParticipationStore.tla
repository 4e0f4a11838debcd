------------------------- MODULE ParticipationStore -------------------------
(***************************************************************************)
(* The Prolific side of the database: per submission the arrival row (how  *)
(* far the participant got, the terminal outcome, what it entitles to) and *)
(* the compensation row that queues an action on Prolific.  Each operator  *)
(* is one statement or one transaction of ParticipationStore.              *)
(***************************************************************************)
EXTENDS Integers, FiniteSets

CONSTANTS
    Submissions,    \* Prolific submissions that arrived
    Milestones,     \* the stages browsers report (heartbeats)
    AttemptLimit    \* attempts of the automation (five in the code)

VARIABLES
    stage,      \* [Submissions -> Stages]
    outcome,    \* [Submissions -> Outcomes]; "open" while there is none
    kind,       \* [Submissions -> Kinds]: compensationKind of the arrival
    stale,      \* [Submissions -> BOOLEAN]: lastSeenAt is behind the cutoff
    action      \* [Submissions -> compensation row]

storeVars == <<stage, outcome, kind, stale, action>>

Journey == <<"arrived", "consent", "entry", "waiting", "chat", "exit">>
Stages == {Journey[i] : i \in 1 .. 6} \cup {"done", "terminated"}
Rank(st) == IF st \in {"done", "terminated"} THEN 7
            ELSE CHOOSE i \in 1 .. 6 : Journey[i] = st

SelfOutcomes == {"declined_consent", "ineligible", "voluntary_withdrawal"}
GroupOutcomes ==
    {"unmatched", "technical_failure", "participant_dropout", "group_aborted"}
Outcomes == {"open", "completed", "connection_timeout"} \cup SelfOutcomes \cup GroupOutcomes

Kinds == {"unset", "none", "partial", "manual_review", "full"}

ActionStatuses ==
    {"absent", "not_required", "pending", "failed", "return_requested",
     "bonus_prepared", "payment_in_progress", "payment_uncertain",
     "payment_submitted", "resolved_manually"}

\* The columns decisions depend on: returnRequestedAt, bonusBatchId and
\* paymentSubmittedAt are set or not, nextAttemptAt has passed or not.
ActionRows ==
    [status : ActionStatuses, returned : BOOLEAN, prepared : BOOLEAN,
     paid : BOOLEAN, attempts : 0 .. AttemptLimit, due : BOOLEAN]

ASSUME ParticipationAssumption ==
    /\ Milestones \subseteq {Journey[i] : i \in 1 .. 6}
    /\ AttemptLimit \in Nat

NoAction ==
    [status |-> "absent", returned |-> FALSE, prepared |-> FALSE,
     paid |-> FALSE, attempts |-> 0, due |-> FALSE]

StoreTypeOK ==
    /\ stage \in [Submissions -> Stages]
    /\ outcome \in [Submissions -> Outcomes]
    /\ kind \in [Submissions -> Kinds]
    /\ stale \in [Submissions -> BOOLEAN]
    /\ action \in [Submissions -> ActionRows]

StoreInit ==
    /\ stage = [s \in Submissions |-> "arrived"]
    /\ outcome = [s \in Submissions |-> "open"]
    /\ kind = [s \in Submissions |-> "unset"]
    /\ stale = [s \in Submissions |-> FALSE]
    /\ action = [s \in Submissions |-> NoAction]

----------------------------------------------------------------------------
\* Seeded bug: a heartbeat stores the stage its tab shows.
HeartbeatAnyStage(s, m) ==
    /\ outcome[s] = "open"
    /\ stage' = [stage EXCEPT ![s] = m]
    /\ stale' = [stale EXCEPT ![s] = FALSE]
    /\ UNCHANGED <<outcome, kind, action>>

\* recordParticipationStage: both updates carry the outcome predicate, the
\* first one also asks for an earlier stage.
Heartbeat(s, m) ==
    /\ outcome[s] = "open"
    /\ stage' = IF Rank(stage[s]) < Rank(m) THEN [stage EXCEPT ![s] = m] ELSE stage
    /\ stale' = [stale EXCEPT ![s] = FALSE]
    /\ UNCHANGED <<outcome, kind, action>>

\* terminationData and the queued action; an action queued before is kept.
Terminate(s, o, k) ==
    /\ stage' = [stage EXCEPT ![s] = "terminated"]
    /\ outcome' = [outcome EXCEPT ![s] = o]
    /\ kind' = [kind EXCEPT ![s] = k]
    /\ stale' = [stale EXCEPT ![s] = FALSE]
    /\ action' = IF action[s].status = "absent"
                 THEN [action EXCEPT ![s].status = "pending", ![s].due = TRUE]
                 ELSE action

\* The update of completeProlificParticipation, on the key alone.
Complete(s) ==
    /\ stage' = [stage EXCEPT ![s] = "done"]
    /\ outcome' = [outcome EXCEPT ![s] = "completed"]
    /\ kind' = [kind EXCEPT ![s] = "full"]
    /\ stale' = [stale EXCEPT ![s] = FALSE]
    /\ action' = [action EXCEPT ![s].status = "not_required"]

\* markProlificAction with the patch its callers pass for a status.  Attempts
\* beyond the limit are not counted: only "below the limit" is ever asked.
Mark(s, st) ==
    LET row == action[s]
    IN /\ row.status # "absent"
       /\ action' = [action EXCEPT ![s] =
            [status   |-> st,
             returned |-> row.returned \/ st = "return_requested",
             prepared |-> row.prepared \/ st = "bonus_prepared",
             paid     |-> row.paid \/ st = "payment_submitted",
             attempts |-> IF row.attempts < AttemptLimit THEN row.attempts + 1
                          ELSE AttemptLimit,
             due      |-> st # "failed"]]
       /\ UNCHANGED <<stage, outcome, kind, stale>>

\* dueProlificActions.
Due ==
    {s \in Submissions : /\ action[s].status \in {"pending", "failed"}
                         /\ action[s].attempts < AttemptLimit
                         /\ action[s].due}

\* The retry time of a failed action arrives.
BackoffPasses(s) ==
    /\ action[s].status = "failed"
    /\ ~ action[s].due
    /\ action' = [action EXCEPT ![s].due = TRUE]
    /\ UNCHANGED <<stage, outcome, kind, stale>>
=============================================================================
