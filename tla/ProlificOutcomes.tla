-------------------------- MODULE ProlificOutcomes --------------------------
(***************************************************************************)
(* The life of Prolific submissions in the Session Manager: how they end   *)
(* (Participation) and how the ending is settled on Prolific               *)
(* (ProlificActions), over one database, with restarts of the process.     *)
(***************************************************************************)
EXTENDS Participation, ProlificActions

CONSTANTS
    MayRestart,     \* BOOLEAN: whether the process may restart
    ManualOnly      \* BOOLEAN: researchers act only while the automation is off

ASSUME OutcomesAssumption == MayRestart \in BOOLEAN /\ ManualOnly \in BOOLEAN

vars == <<storeVars, writerVars, payerVars>>

TypeOK == StoreTypeOK /\ WriterTypeOK /\ PayerTypeOK

Init == StoreInit /\ WriterInit /\ PayerInit

\* The timer takes the submissions its sweep claimed, one after the other,
\* outside the chain.  (The model lets the next sweep start during the last
\* request.)  Without PROLIFIC_AUTO_RETURN_DISCONNECTS it skips them.
ReturnClaimed ==
    /\ scanned = {}
    /\ \/ \E s \in claimed : claimed' = claimed \ {s} /\ AutoReturn(s)
       \/ claimed # {} /\ claimed' = {} /\ UNCHANGED <<payerVars, storeVars>>
    /\ UNCHANGED <<op, scanned>>

\* The process loses every operation in flight; it may come back with the
\* automation switched.
Restart ==
    /\ MayRestart
    /\ automation' \in BOOLEAN
    /\ op' = [w \in Writers |-> NoOp]
    /\ scanned' = {} /\ claimed' = {}
    /\ queue' = {}
    /\ job' = [k \in Payers |-> NoJob]
    /\ UNCHANGED <<storeVars, payments>>

PayersNext ==
    \/ ListDue \/ ProcessAll
    \/ \E k \in Payers : Calls(k)
    \/ /\ ManualOnly => ~ automation
       /\ \E k \in Clerks, s \in Submissions : Asks(k, s)
    \/ \E s \in Submissions : BackoffPasses(s) /\ UNCHANGED payerVars

Next ==
    \/ ParticipationNext /\ UNCHANGED payerVars
    \/ PayersNext /\ UNCHANGED writerVars
    \/ ReturnClaimed
    \/ Restart

Spec == Init /\ [][Next]_vars

----------------------------------------------------------------------------
(***************************************************************************)
(* Safety                                                                  *)
(***************************************************************************)

\* Money moves at most once per submission: the endpoint is not idempotent, so
\* a lost answer, a crash inside the payment or a failed paid marker must
\* never lead to a second call.
PaidAtMostOnce == \A s \in Submissions : payments[s] <= 1

\* A row whose payment may have reached Prolific is never payable again.
SettledNotPayable ==
    \A s \in Submissions : payments[s] > 0 => action[s].status # "bonus_prepared"

\* A timeout pays by the stage the participant had reached when it ended,
\* although the sweep read the stage in its scan: a heartbeat in between wins.
TimeoutPaysByStage ==
    [][\A s \in Submissions :
        outcome[s] # outcome'[s] /\ outcome'[s] = "connection_timeout" =>
            kind'[s] = DisconnectKind(stage[s])]_vars

\* Two tabs in different stages report them in any order: the stored stage
\* never goes back while the submission is open.
StageNeverRegresses ==
    [][\A s \in Submissions :
        outcome'[s] = "open" => Rank(stage'[s]) >= Rank(stage[s])]_vars

----------------------------------------------------------------------------
(***************************************************************************)
(* Why the payment is safe                                                 *)
(***************************************************************************)

\* Either the automation acts or a researcher.
OneSettler ==
    /\ automation => \A k \in Clerks : Idle(k)
    /\ ~ automation => Idle(Worker) /\ queue = {}

ReturnerOnlyReturns ==
    job[Returner].step \in {"idle", "return", "returned", "failing"}
        /\ (~ Idle(Returner) => job[Returner].goal = "return")

\* The record an actor will act on later still says so: the worker's list
\* knows which batches exist, ...
QueueCurrent ==
    \A q \in queue :
        /\ q.row.status \in {"pending", "failed"}
        /\ q.row.prepared = action[q.sub].prepared
        /\ \A r \in queue : r.sub = q.sub => r = q
        /\ ~ Idle(Worker) => Snap(Worker).sub # q.sub

\* ... whoever prepares a batch does it for a row without one, ...
Preparing(k) ==
    \/ job[k].step \in {"prepare", "prepared"}
    \/ ~ Idle(k) /\ job[k].goal = "bonus"
PreparedOnce == \A k \in Payers : Preparing(k) => ~ action[Snap(k).sub].prepared

\* ... and whoever pays pays the first time, behind the guard.
FirstPayment ==
    \A k \in Payers :
        /\ job[k].step \in {"guard", "pay"} =>
            payments[Snap(k).sub] = 0 /\ action[Snap(k).sub].prepared
        /\ Doing(k, "pay") => action[Snap(k).sub].status # "bonus_prepared"

PaidBehindGuard ==
    \A s \in Submissions : payments[s] > 0 =>
        action[s].prepared /\ action[s].status # "bonus_prepared"

\* What the sweep listed is still true of a submission it will claim.
ScanCurrent ==
    \A v \in scanned : v.sub \in Silent => v.kind = DisconnectKind(stage[v.sub])

\* The inductive invariant behind the payment and the timeout: what an actor
\* read before a call still holds when it writes, and money that moved left
\* the row behind the guard.
IInv ==
    /\ TypeOK /\ ScanCurrent
    /\ OneSettler /\ ReturnerOnlyReturns /\ QueueCurrent
    /\ PreparedOnce /\ FirstPayment /\ PaidBehindGuard /\ PaidAtMostOnce
=============================================================================
