--------------------------- MODULE ProlificActions ---------------------------
(***************************************************************************)
(* ProlificActionsService: return requests and bonus payments on Prolific. *)
(* Three kinds of actor: the opt-in automation (a timer that works on the  *)
(* actions listDue returned), the disconnect sweep that requests returns,  *)
(* and requests of researchers.  An actor reads the record, calls Prolific *)
(* and writes the result back; the call may fail, or succeed and lose its  *)
(* answer.  Prolific pays whenever a batch is submitted: payments counts   *)
(* how often money moved for a submission.                                 *)
(***************************************************************************)
EXTENDS ParticipationStore

CONSTANTS
    Worker,         \* the automation timer (processDue)
    Returner,       \* automatic returns after the disconnect sweep
    Clerks,         \* requests of researchers in flight at once
    MaxPayments     \* bound: payments counted per submission

Payers == Clerks \cup {Worker, Returner}

ASSUME PayersAssumption ==
    /\ Worker \notin Clerks \cup {Returner} /\ Returner \notin Clerks
    /\ MaxPayments \in Nat \ {0}

VARIABLES
    automation, \* PROLIFIC_PAYMENT_AUTOMATION, fixed when the process starts
    queue,      \* records of dueProlificActions the worker has not reached
    job,        \* [Payers -> what each is doing]
    payments    \* [Submissions -> how often Prolific paid]; external

payerVars == <<automation, queue, job, payments>>

\* A record as an actor read it: the columns its decisions use.
Snapshots ==
    [sub : Submissions, outcome : Outcomes, kind : Kinds, row : ActionRows]
Snapshot(s) ==
    [sub |-> s, outcome |-> outcome[s], kind |-> kind[s], row |-> action[s]]

NoJob == [step |-> "idle"]
Steps ==
    {"return", "returned",     \* calling Prolific; accepted, not yet stored
     "reread", "recheck",      \* worker: fetch the record again
     "prepare", "prepared",
     "guard", "pay", "accepted", "uncertain",
     "failing"}                \* recordFailure not yet written
Goals == {"return", "bonus", "pay", "all"}
Jobs == {NoJob} \cup [step : Steps, goal : Goals, snap : Snapshots]

PayerTypeOK ==
    /\ automation \in BOOLEAN
    /\ queue \subseteq Snapshots
    /\ job \in [Payers -> Jobs]
    /\ payments \in [Submissions -> 0 .. MaxPayments]

PayerInit ==
    /\ automation \in BOOLEAN
    /\ queue = {}
    /\ job = [k \in Payers |-> NoJob]
    /\ payments = [s \in Submissions |-> 0]

----------------------------------------------------------------------------
Idle(k) == job[k] = NoJob
Doing(k, step) == job[k].step = step
Snap(k) == job[k].snap
Fresh(k) == Snapshot(job[k].snap.sub)
Set(k, step, goal, snap) ==
    job' = [job EXCEPT ![k] = [step |-> step, goal |-> goal, snap |-> snap]]
Continue(k, step) == job' = [job EXCEPT ![k].step = step]
Stop(k) == job' = [job EXCEPT ![k] = NoJob]

\* A thrown error: the automation and the sweep record it, a researcher sees it.
Raise(k) == IF k \in Clerks THEN Stop(k) ELSE Continue(k, "failing")

\* requireOutcome.
Actionable(snap) == snap.outcome \notin {"open", "completed"}

\* Seeded bug: any prepared batch is paid, whatever became of it before.
PayableBatch(snap) == snap.row.prepared /\ ~ snap.row.paid

\* The conditions of payBonus, on the record its caller read.
Payable(snap) == snap.row.prepared /\ snap.row.status = "bonus_prepared"

\* What processAll does next with a prepared record, and with one whose return
\* is requested.
PayOrRaise(k, snap) ==
    CASE snap.row.paid -> Stop(k)
      [] Payable(snap) -> Set(k, "guard", "all", snap)
      [] OTHER         -> Set(k, "failing", "all", snap)

PrepareOrPay(k, snap) ==
    CASE snap.kind # "partial" -> Stop(k)
      [] snap.row.prepared     -> PayOrRaise(k, snap)
      [] OTHER                 -> Set(k, "prepare", "all", snap)

----------------------------------------------------------------------------
(***************************************************************************)
(* Who starts a job                                                        *)
(***************************************************************************)

\* processDue: one run at a time, on the records the query returned.
ListDue ==
    /\ automation
    /\ Idle(Worker) /\ queue = {} /\ Due # {}
    /\ queue' = {Snapshot(s) : s \in Due}
    /\ UNCHANGED <<automation, job, payments, storeVars>>

\* processAll starts with the record as it was listed.
ProcessAll ==
    /\ Idle(Worker)
    /\ \E snap \in queue :
        /\ queue' = queue \ {snap}
        /\ CASE ~ Actionable(snap) -> UNCHANGED job
             [] ~ snap.row.returned -> Set(Worker, "return", "all", snap)
             [] OTHER -> PrepareOrPay(Worker, snap)
    /\ UNCHANGED <<automation, payments, storeVars>>

\* requestReturnById.
AskReturn(k, s) ==
    /\ Idle(k)
    /\ Actionable(Snapshot(s)) /\ ~ action[s].returned
    /\ Set(k, "return", "return", Snapshot(s))
    /\ UNCHANGED <<automation, queue, payments, storeVars>>

\* requestReturnAndRecordFailureById, for a submission the disconnect sweep
\* claimed: a record that is not actionable any more counts as a failure too.
AutoReturn(s) ==
    /\ Idle(Returner)
    /\ CASE ~ Actionable(Snapshot(s)) -> Set(Returner, "failing", "return", Snapshot(s))
         [] action[s].returned -> UNCHANGED job
         [] OTHER -> Set(Returner, "return", "return", Snapshot(s))
    /\ UNCHANGED <<automation, queue, payments, storeVars>>

\* Seeded bug: a bonus can be prepared again after its batch exists.
AskBonusAgain(k, s) ==
    /\ Idle(k)
    /\ Actionable(Snapshot(s)) /\ kind[s] = "partial"
    /\ Set(k, IF action[s].returned THEN "prepare" ELSE "return", "bonus", Snapshot(s))
    /\ UNCHANGED <<automation, queue, payments, storeVars>>

\* prepareBonusById: only partial compensation, only without a batch.
AskBonus(k, s) ==
    /\ Idle(k)
    /\ Actionable(Snapshot(s)) /\ kind[s] = "partial" /\ ~ action[s].prepared
    /\ Set(k, IF action[s].returned THEN "prepare" ELSE "return", "bonus", Snapshot(s))
    /\ UNCHANGED <<automation, queue, payments, storeVars>>

\* payBonusById: nothing to do once paid.
AskPayment(k, s) ==
    /\ Idle(k)
    /\ Actionable(Snapshot(s)) /\ ~ action[s].paid /\ Payable(Snapshot(s))
    /\ Set(k, "guard", "pay", Snapshot(s))
    /\ UNCHANGED <<automation, queue, payments, storeVars>>

\* resolveManuallyById needs nothing but an outcome.
ResolveManually(k, s) ==
    /\ Idle(k)
    /\ Actionable(Snapshot(s))
    /\ Mark(s, "resolved_manually")
    /\ UNCHANGED payerVars

----------------------------------------------------------------------------
(***************************************************************************)
(* The three calls                                                         *)
(***************************************************************************)

\* POST request-return, harmless when repeated.
CallReturn(k) ==
    /\ Doing(k, "return")
    /\ Continue(k, "returned") \/ Raise(k)
    /\ UNCHANGED <<automation, queue, payments, storeVars>>

StoreReturn(k) ==
    /\ Doing(k, "returned")
    /\ Mark(Snap(k).sub, "return_requested")
    /\ CASE job[k].goal = "all"   -> Continue(k, "reread")
         [] job[k].goal = "bonus" -> Continue(k, "prepare")
         [] OTHER                 -> Stop(k)
    /\ UNCHANGED <<automation, queue, payments>>

Reread(k) ==
    /\ Doing(k, "reread")
    /\ PrepareOrPay(k, Fresh(k))
    /\ UNCHANGED <<automation, queue, payments, storeVars>>

\* POST bonus-payments creates a batch; a lost answer leaves it unused.
CallPrepare(k) ==
    /\ Doing(k, "prepare")
    /\ Continue(k, "prepared") \/ Raise(k)
    /\ UNCHANGED <<automation, queue, payments, storeVars>>

StorePrepared(k) ==
    /\ Doing(k, "prepared")
    /\ Mark(Snap(k).sub, "bonus_prepared")
    /\ IF job[k].goal = "all" THEN Continue(k, "recheck") ELSE Stop(k)
    /\ UNCHANGED <<automation, queue, payments>>

Recheck(k) ==
    /\ Doing(k, "recheck")
    /\ PayOrRaise(k, Fresh(k))
    /\ UNCHANGED <<automation, queue, payments, storeVars>>

\* The one-way guard before the call that must not be repeated; no call when
\* the write fails.
StoreGuard(k) ==
    /\ Doing(k, "guard")
    /\ \/ Mark(Snap(k).sub, "payment_in_progress") /\ Continue(k, "pay")
       \/ UNCHANGED storeVars /\ Raise(k)
    /\ UNCHANGED <<automation, queue, payments>>

\* Prolific pays and answers, pays and the answer is lost, or refuses.
CallPay(k) ==
    /\ Doing(k, "pay")
    /\ \/ /\ payments[Snap(k).sub] < MaxPayments
          /\ payments' = [payments EXCEPT ![Snap(k).sub] = @ + 1]
          /\ Continue(k, "accepted") \/ Continue(k, "uncertain")
       \/ UNCHANGED payments /\ Continue(k, "uncertain")
    /\ UNCHANGED <<automation, queue, storeVars>>

\* The paid marker; when this write fails the guard stays.
StorePaid(k) ==
    /\ Doing(k, "accepted")
    /\ Mark(Snap(k).sub, "payment_submitted") \/ UNCHANGED storeVars
    /\ Stop(k)
    /\ UNCHANGED <<automation, queue, payments>>

StoreUncertain(k) ==
    /\ Doing(k, "uncertain")
    /\ \/ Mark(Snap(k).sub, "payment_uncertain") /\ Stop(k)
       \/ UNCHANGED storeVars /\ Raise(k)
    /\ UNCHANGED <<automation, queue, payments>>

\* recordFailure overwrites whatever status the row has by now.
RecordFailure(k) ==
    /\ Doing(k, "failing")
    /\ Mark(Snap(k).sub, "failed")
    /\ Stop(k)
    /\ UNCHANGED <<automation, queue, payments>>

----------------------------------------------------------------------------
Calls(k) ==
    \/ CallReturn(k) \/ StoreReturn(k) \/ Reread(k)
    \/ CallPrepare(k) \/ StorePrepared(k) \/ Recheck(k)
    \/ StoreGuard(k) \/ CallPay(k) \/ StorePaid(k) \/ StoreUncertain(k)
    \/ RecordFailure(k)

Asks(k, s) ==
    AskReturn(k, s) \/ AskBonus(k, s) \/ AskPayment(k, s) \/ ResolveManually(k, s)
=============================================================================
