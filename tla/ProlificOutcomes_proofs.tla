----------------------- MODULE ProlificOutcomes_proofs -----------------------
(***************************************************************************)
(* Proofs about ProlificOutcomes, for any number of submissions, tabs and  *)
(* attempts.  The payment theorems assume what the code leaves to its      *)
(* operators: one researcher at a time, acting while the automation is off.*)
(***************************************************************************)
EXTENDS ProlificOutcomes, TLAPS

\* The part of the invariant that is about payers.
PayerInv ==
    /\ PayerTypeOK
    /\ OneSettler /\ ReturnerOnlyReturns /\ QueueCurrent
    /\ PreparedOnce /\ FirstPayment /\ PaidBehindGuard /\ PaidAtMostOnce

\* No batch appears or disappears, and no row becomes payable.
RowsSettle ==
    \A s \in Submissions :
        /\ action'[s].prepared = action[s].prepared
        /\ action'[s].status = "bonus_prepared" => action[s].status = "bonus_prepared"

SoleClerk == \A a, b \in Clerks : a = b

----------------------------------------------------------------------------
(***************************************************************************)
(* The database                                                            *)
(***************************************************************************)

\* Every stage has a place in the journey.
LEMMA RankInt == \A st \in Stages : Rank(st) \in 1 .. 7
<1>1. SUFFICES ASSUME NEW st \in Stages, st \notin {"done", "terminated"}
               PROVE  (CHOOSE i \in 1 .. 6 : Journey[i] = st) \in 1 .. 6
    BY DEF Rank
<1>2. PICK i \in 1 .. 6 : Journey[i] = st
    BY <1>1 DEF Stages
<1> QED
    BY <1>2

\* A marked action keeps the types and its batch, and only becomes payable
\* when it is marked so.
LEMMA MarkRow ==
    ASSUME StoreTypeOK, NEW s \in Submissions, NEW st \in ActionStatuses, Mark(s, st)
    PROVE  /\ StoreTypeOK'
           /\ UNCHANGED <<stage, outcome, kind, stale>>
           /\ st # "bonus_prepared" => RowsSettle
           /\ action'[s].status = st
           /\ action'[s].prepared = (action[s].prepared \/ st = "bonus_prepared")
           /\ \A t \in Submissions \ {s} : action'[t] = action[t]
<1> DEFINE row == action[s]
           new == [status   |-> st,
                   returned |-> row.returned \/ st = "return_requested",
                   prepared |-> row.prepared \/ st = "bonus_prepared",
                   paid     |-> row.paid \/ st = "payment_submitted",
                   attempts |-> IF row.attempts < AttemptLimit THEN row.attempts + 1
                                ELSE AttemptLimit,
                   due      |-> st # "failed"]
<1>1. action' = [action EXCEPT ![s] = new] /\ UNCHANGED <<stage, outcome, kind, stale>>
    BY DEF Mark
<1>2. row \in ActionRows
    BY DEF StoreTypeOK
<1>3. AttemptLimit \in Nat
    BY ParticipationAssumption
<1>4. (IF row.attempts < AttemptLimit THEN row.attempts + 1 ELSE AttemptLimit)
        \in 0 .. AttemptLimit
    BY <1>2, <1>3 DEF ActionRows
<1>5. new \in ActionRows
    BY <1>2, <1>4 DEF ActionRows
<1>6. action' \in [Submissions -> ActionRows]
    BY <1>1, <1>5 DEF StoreTypeOK
<1>7. StoreTypeOK'
    BY <1>1, <1>6 DEF StoreTypeOK
<1>8. action'[s] = new /\ \A t \in Submissions \ {s} : action'[t] = action[t]
    BY <1>1 DEF StoreTypeOK
<1>9. st # "bonus_prepared" => RowsSettle
  <2>1. SUFFICES ASSUME st # "bonus_prepared", NEW t \in Submissions
                 PROVE  /\ action'[t].prepared = action[t].prepared
                        /\ action'[t].status = "bonus_prepared"
                            => action[t].status = "bonus_prepared"
      BY DEF RowsSettle
  <2>2. CASE t = s
      BY <1>2, <1>8, <2>1, <2>2 DEF ActionRows
  <2>3. CASE t # s
      BY <1>8, <2>3
  <2> QED
      BY <2>2, <2>3
<1> QED
    BY <1>1, <1>7, <1>8, <1>9

\* A termination keeps the types and makes no row payable.
LEMMA TerminateRow ==
    ASSUME StoreTypeOK, NEW s \in Submissions, NEW o \in Outcomes, NEW k \in Kinds,
           Terminate(s, o, k)
    PROVE  StoreTypeOK' /\ RowsSettle
<1>1. stage' \in [Submissions -> Stages] /\ outcome' \in [Submissions -> Outcomes]
      /\ kind' \in [Submissions -> Kinds] /\ stale' \in [Submissions -> BOOLEAN]
    BY DEF Terminate, StoreTypeOK, Stages
<1>2. action[s] \in ActionRows
    BY DEF StoreTypeOK
<1>3. CASE action[s].status = "absent"
  <2> DEFINE new == [action[s] EXCEPT !.status = "pending", !.due = TRUE]
  <2>1. action' = [action EXCEPT ![s] = new]
      BY <1>3 DEF Terminate, StoreTypeOK
  <2>2. new \in ActionRows /\ new.prepared = action[s].prepared
        /\ new.status = "pending"
      BY <1>2 DEF ActionRows, ActionStatuses
  <2>3. action' \in [Submissions -> ActionRows]
      BY <2>1, <2>2 DEF StoreTypeOK
  <2>4. RowsSettle
      BY <2>1, <2>2 DEF StoreTypeOK, RowsSettle
  <2> QED
      BY <1>1, <2>3, <2>4 DEF StoreTypeOK
<1>4. CASE action[s].status # "absent"
  <2>1. action' = action
      BY <1>4 DEF Terminate
  <2> QED
      BY <1>1, <2>1 DEF StoreTypeOK, RowsSettle
<1> QED
    BY <1>3, <1>4

\* A completion keeps the types and makes no row payable.
LEMMA CompleteRow ==
    ASSUME StoreTypeOK, NEW s \in Submissions, Complete(s)
    PROVE  StoreTypeOK' /\ RowsSettle
<1> DEFINE new == [action[s] EXCEPT !.status = "not_required"]
<1>1. stage' \in [Submissions -> Stages] /\ outcome' \in [Submissions -> Outcomes]
      /\ kind' \in [Submissions -> Kinds] /\ stale' \in [Submissions -> BOOLEAN]
    BY DEF Complete, StoreTypeOK, Stages, Outcomes, Kinds
<1>2. action[s] \in ActionRows
    BY DEF StoreTypeOK
<1>3. action' = [action EXCEPT ![s] = new]
    BY DEF Complete, StoreTypeOK
<1>4. new \in ActionRows /\ new.prepared = action[s].prepared
      /\ new.status = "not_required"
    BY <1>2 DEF ActionRows, ActionStatuses
<1>5. action' \in [Submissions -> ActionRows] /\ RowsSettle
    BY <1>3, <1>4 DEF StoreTypeOK, RowsSettle
<1> QED
    BY <1>1, <1>5 DEF StoreTypeOK

\* So does a heartbeat, ...
LEMMA HeartbeatRow ==
    ASSUME StoreTypeOK, NEW s \in Submissions, NEW m \in Milestones, Heartbeat(s, m)
    PROVE  StoreTypeOK' /\ RowsSettle
<1>1. m \in Stages
    BY ParticipationAssumption DEF Stages
<1>2. stage' \in [Submissions -> Stages] /\ stale' \in [Submissions -> BOOLEAN]
    BY <1>1 DEF Heartbeat, StoreTypeOK
<1> QED
    BY <1>2 DEF Heartbeat, StoreTypeOK, RowsSettle

\* ... and the passing of a retry time.
LEMMA BackoffRow ==
    ASSUME StoreTypeOK, NEW s \in Submissions, BackoffPasses(s)
    PROVE  StoreTypeOK' /\ RowsSettle /\ UNCHANGED <<stage, outcome, kind, stale>>
<1> DEFINE new == [action[s] EXCEPT !.due = TRUE]
<1>1. action[s] \in ActionRows
    BY DEF StoreTypeOK
<1>2. action' = [action EXCEPT ![s] = new]
    BY DEF BackoffPasses, StoreTypeOK
<1>3. new \in ActionRows /\ new.prepared = action[s].prepared
      /\ new.status = action[s].status
    BY <1>1 DEF ActionRows
<1>4. action' \in [Submissions -> ActionRows] /\ RowsSettle
    BY <1>2, <1>3 DEF StoreTypeOK, RowsSettle
<1> QED
    BY <1>4 DEF BackoffPasses, StoreTypeOK

----------------------------------------------------------------------------
(***************************************************************************)
(* Payers                                                                  *)
(***************************************************************************)

\* A payer is idle or holds a record of some submission.
LEMMA JobCases ==
    ASSUME PayerTypeOK, NEW k \in Payers
    PROVE  /\ Idle(k) <=> Doing(k, "idle")
           /\ ~ Idle(k) => /\ job[k] \in [step : Steps, goal : Goals, snap : Snapshots]
                           /\ Snap(k).sub \in Submissions
<1>1. job[k] \in Jobs
    BY DEF PayerTypeOK
<1> QED
    BY <1>1 DEF Jobs, NoJob, Idle, Doing, Steps, Snap, Snapshots

\* Two settlers are never at work together.
LEMMA OneAtWork ==
    ASSUME OneSettler, SoleClerk, automation \in BOOLEAN,
           NEW a \in Payers \ {Returner}, NEW b \in Payers \ {Returner},
           ~ Idle(a), ~ Idle(b)
    PROVE  a = b
BY DEF OneSettler, SoleClerk, Payers

\* What a record read now says.
LEMMA SnapshotType ==
    ASSUME StoreTypeOK, NEW s \in Submissions
    PROVE  /\ Snapshot(s) \in Snapshots
           /\ Snapshot(s).sub = s /\ Snapshot(s).kind = kind[s]
           /\ Snapshot(s).row = action[s] /\ Snapshot(s).outcome = outcome[s]
BY DEF StoreTypeOK, Snapshot, Snapshots

\* While payers rest, the rows may settle around them.
LEMMA RestingPayers ==
    ASSUME PayerInv, RowsSettle, UNCHANGED payerVars
    PROVE  PayerInv'
<1>1. UNCHANGED <<automation, queue, job, payments>>
    BY DEF payerVars
<1>2. PayerTypeOK' /\ OneSettler' /\ ReturnerOnlyReturns' /\ PaidAtMostOnce'
    BY <1>1 DEF PayerInv, PayerTypeOK, OneSettler, ReturnerOnlyReturns, PaidAtMostOnce,
       Idle
<1>3. QueueCurrent'
  <2>1. \A q \in queue : q.sub \in Submissions
      BY DEF PayerInv, PayerTypeOK, Snapshots
  <2> QED
      BY <1>1, <2>1 DEF PayerInv, QueueCurrent, RowsSettle, Idle, Snap
<1>4. PreparedOnce'
  <2>1. SUFFICES ASSUME NEW k \in Payers, Preparing(k)
                 PROVE  ~ action'[Snap(k).sub].prepared
      BY <1>1 DEF PreparedOnce, Preparing, Idle, Snap
  <2>2. ~ Idle(k)
      BY <2>1, JobCases DEF Preparing, PayerInv, Doing
  <2> QED
      BY <2>1, <2>2, JobCases DEF PayerInv, PreparedOnce, RowsSettle
<1>5. FirstPayment'
  <2>1. SUFFICES ASSUME NEW k \in Payers, job[k].step \in {"guard", "pay"}
                 PROVE  /\ payments[Snap(k).sub] = 0 /\ action'[Snap(k).sub].prepared
                        /\ Doing(k, "pay") => action'[Snap(k).sub].status # "bonus_prepared"
      BY <1>1 DEF FirstPayment, Doing, Snap
  <2>2. ~ Idle(k)
      BY <2>1, JobCases DEF PayerInv, Doing
  <2> QED
      BY <2>1, <2>2, JobCases DEF PayerInv, FirstPayment, RowsSettle
<1>6. PaidBehindGuard'
    BY <1>1 DEF PayerInv, PaidBehindGuard, RowsSettle
<1> QED
    BY <1>2, <1>3, <1>4, <1>5, <1>6 DEF PayerInv

\* One payer moves on while the rows settle: what its new job must satisfy.
LEMMA JobStep ==
    ASSUME PayerInv, RowsSettle, NEW k \in Payers, NEW j \in Jobs,
           job' = [job EXCEPT ![k] = j], queue' \subseteq queue,
           UNCHANGED <<automation, payments>>,
           j # NoJob =>
             /\ k \in Clerks => ~ automation
             /\ k = Worker => automation /\ \A q \in queue' : j.snap.sub # q.sub
             /\ k = Returner => j.step \in {"return", "returned", "failing"}
                                /\ j.goal = "return"
             /\ j.step \in {"prepare", "prepared"} \/ j.goal = "bonus"
                  => ~ action[j.snap.sub].prepared
             /\ j.step \in {"guard", "pay"} =>
                  payments[j.snap.sub] = 0 /\ action[j.snap.sub].prepared
             /\ j.step = "pay" => action'[j.snap.sub].status # "bonus_prepared"
    PROVE  PayerInv'
<1>1. job \in [Payers -> Jobs] /\ job' \in [Payers -> Jobs] /\ job'[k] = j
      /\ \A l \in Payers \ {k} : job'[l] = job[l]
    BY DEF PayerInv, PayerTypeOK
<1>2. PayerTypeOK'
    BY <1>1 DEF PayerInv, PayerTypeOK
<1>3. j = NoJob \/ j \in [step : Steps, goal : Goals, snap : Snapshots]
    BY DEF Jobs
<1>4. OneSettler' 
    BY <1>1, PayersAssumption DEF PayerInv, OneSettler, Idle, Payers
<1>5. ReturnerOnlyReturns'
    BY <1>1 DEF PayerInv, ReturnerOnlyReturns, Idle, Payers, NoJob
<1>6. PaidAtMostOnce'
    BY DEF PayerInv, PaidAtMostOnce
<1>7. QueueCurrent'
  <2>1. \A q \in queue : q.sub \in Submissions
      BY DEF PayerInv, PayerTypeOK, Snapshots
  <2>2. SUFFICES ASSUME NEW q \in queue'
                 PROVE  /\ q.row.status \in {"pending", "failed"}
                        /\ q.row.prepared = action'[q.sub].prepared
                        /\ \A r \in queue' : r.sub = q.sub => r = q
                        /\ (~ Idle(Worker))' => job'[Worker].snap.sub # q.sub
      BY DEF QueueCurrent, Snap
  <2>3. q \in queue /\ q.row.status \in {"pending", "failed"}
        /\ q.row.prepared = action'[q.sub].prepared
        /\ \A r \in queue' : r.sub = q.sub => r = q
      BY <2>1 DEF PayerInv, QueueCurrent, RowsSettle
  <2>4. (~ Idle(Worker))' => job'[Worker].snap.sub # q.sub
    <3>1. CASE k = Worker
        BY <1>1, <3>1 DEF Idle
    <3>2. CASE k # Worker
        BY <1>1, <2>3, <3>2 DEF PayerInv, QueueCurrent, Idle, Snap, Payers
    <3> QED
        BY <3>1, <3>2
  <2> QED
      BY <2>3, <2>4
<1>8. PreparedOnce'
  <2>1. SUFFICES ASSUME NEW l \in Payers, Preparing(l)'
                 PROVE  ~ action'[job'[l].snap.sub].prepared
      BY DEF PreparedOnce, Snap
  <2>2. CASE l = k
    <3>1. j # NoJob /\ (j.step \in {"prepare", "prepared"} \/ j.goal = "bonus")
        BY <1>1, <2>1, <2>2 DEF Preparing, NoJob, Idle
    <3>2. j.snap.sub \in Submissions
        BY <1>3, <3>1 DEF Snapshots
    <3> QED
        BY <1>1, <2>2, <3>1, <3>2 DEF RowsSettle
  <2>3. CASE l # k
    <3>1. Preparing(l)
        BY <1>1, <2>1, <2>3 DEF Preparing, Idle
    <3>2. ~ Idle(l)
        BY <3>1, JobCases DEF Preparing, PayerInv, Doing
    <3> QED
        BY <1>1, <2>3, <3>1, <3>2, JobCases DEF PayerInv, PreparedOnce, RowsSettle, Snap
  <2> QED
      BY <2>2, <2>3
<1>9. FirstPayment'
  <2>1. SUFFICES ASSUME NEW l \in Payers, job'[l].step \in {"guard", "pay"}
                 PROVE  /\ payments[job'[l].snap.sub] = 0
                        /\ action'[job'[l].snap.sub].prepared
                        /\ job'[l].step = "pay"
                             => action'[job'[l].snap.sub].status # "bonus_prepared"
      BY DEF FirstPayment, Doing, Snap
  <2>2. CASE l = k
    <3>1. j # NoJob /\ j.step \in {"guard", "pay"}
        BY <1>1, <2>1, <2>2 DEF NoJob
    <3>2. j.snap.sub \in Submissions
        BY <1>3, <3>1 DEF Snapshots
    <3> QED
        BY <1>1, <2>2, <3>1, <3>2 DEF RowsSettle
  <2>3. CASE l # k
    <3>1. job[l].step \in {"guard", "pay"} /\ job'[l] = job[l]
        BY <1>1, <2>1, <2>3
    <3>2. ~ Idle(l)
        BY <3>1, JobCases DEF PayerInv, Doing
    <3> QED
        BY <3>1, <3>2, JobCases DEF PayerInv, FirstPayment, RowsSettle, Snap, Doing
  <2> QED
      BY <2>2, <2>3
<1>10. PaidBehindGuard'
    BY DEF PayerInv, PaidBehindGuard, RowsSettle
<1> QED
    BY <1>2, <1>4, <1>5, <1>6, <1>7, <1>8, <1>9, <1>10 DEF PayerInv

\* A payer stops.
LEMMA Stopped ==
    ASSUME PayerInv, RowsSettle, NEW k \in Payers, Stop(k), queue' \subseteq queue,
           UNCHANGED <<automation, payments>>
    PROVE  PayerInv'
BY JobStep DEF Stop, Jobs

\* A payer takes the next step with the record it has.
LEMMA Continued ==
    ASSUME PayerInv, RowsSettle, NEW k \in Payers, ~ Idle(k), NEW st \in Steps,
           Continue(k, st), UNCHANGED <<automation, queue, payments>>,
           k = Returner => st \in {"return", "returned", "failing"},
           st \in {"prepare", "prepared"} => ~ action[Snap(k).sub].prepared,
           st \in {"guard", "pay"} =>
             payments[Snap(k).sub] = 0 /\ action[Snap(k).sub].prepared,
           st = "pay" => action'[Snap(k).sub].status # "bonus_prepared"
    PROVE  PayerInv'
<1> DEFINE j == [step |-> st, goal |-> job[k].goal, snap |-> job[k].snap]
<1>1. job[k] \in [step : Steps, goal : Goals, snap : Snapshots]
    BY JobCases DEF PayerInv
<1>2. j \in Jobs
    BY <1>1 DEF Jobs
<1>3. [job[k] EXCEPT !.step = st] = j
    BY <1>1
<1>4. job' = [job EXCEPT ![k] = j]
    BY <1>3 DEF Continue, PayerInv, PayerTypeOK
<1>5. /\ k \in Clerks => ~ automation
      /\ k = Worker => automation /\ \A q \in queue' : j.snap.sub # q.sub
    BY DEF PayerInv, OneSettler, QueueCurrent, Snap, PayerTypeOK
<1>6. k = Returner => j.step \in {"return", "returned", "failing"} /\ j.goal = "return"
    BY DEF PayerInv, ReturnerOnlyReturns
<1>7. j.step \in {"prepare", "prepared"} \/ j.goal = "bonus"
        => ~ action[j.snap.sub].prepared
    BY DEF PayerInv, PreparedOnce, Preparing, Snap
<1>8. /\ j.step \in {"guard", "pay"} =>
           payments[j.snap.sub] = 0 /\ action[j.snap.sub].prepared
      /\ j.step = "pay" => action'[j.snap.sub].status # "bonus_prepared"
    BY DEF Snap
<1> HIDE DEF j
<1> QED
    BY <1>2, <1>4, <1>5, <1>6, <1>7, <1>8, JobStep

\* A thrown error.
LEMMA Raised ==
    ASSUME PayerInv, RowsSettle, NEW k \in Payers, ~ Idle(k), Raise(k),
           UNCHANGED <<automation, queue, payments>>
    PROVE  PayerInv'
<1>1. CASE k \in Clerks
    BY <1>1, Stopped DEF Raise
<1>2. CASE k \notin Clerks
  <2>1. Continue(k, "failing")
      BY <1>2 DEF Raise
  <2> QED
      BY <2>1, Continued DEF Steps
<1> QED
    BY <1>1, <1>2

\* A payer starts, or goes on with another record.
LEMMA JobSet ==
    ASSUME PayerInv, RowsSettle, NEW k \in Payers,
           NEW st \in Steps, NEW g \in Goals, NEW snap \in Snapshots,
           Set(k, st, g, snap), queue' \subseteq queue,
           UNCHANGED <<automation, payments>>,
           k \in Clerks => ~ automation,
           k = Worker => automation /\ \A q \in queue' : snap.sub # q.sub,
           k = Returner => st \in {"return", "returned", "failing"} /\ g = "return",
           st \in {"prepare", "prepared"} \/ g = "bonus" => ~ action[snap.sub].prepared,
           st \in {"guard", "pay"} => payments[snap.sub] = 0 /\ action[snap.sub].prepared,
           st # "pay"
    PROVE  PayerInv'
<1> DEFINE j == [step |-> st, goal |-> g, snap |-> snap]
<1>1. j \in Jobs
    BY DEF Jobs
<1>2. job' = [job EXCEPT ![k] = j]
    BY DEF Set
<1> QED
    BY <1>1, <1>2, JobStep

\* What follows a prepared record, or one read again, is safe when the record
\* is as the row is.
LEMMA PreparedNext ==
    ASSUME PayerInv, RowsSettle, NEW k \in Payers \ {Returner}, NEW snap \in Snapshots,
           PrepareOrPay(k, snap) \/ PayOrRaise(k, snap),
           queue' \subseteq queue, UNCHANGED <<automation, payments>>,
           k \in Clerks => ~ automation,
           k = Worker => automation /\ \A q \in queue' : snap.sub # q.sub,
           snap.row.prepared = action[snap.sub].prepared,
           snap.row.status = "bonus_prepared" =>
               action[snap.sub].status = "bonus_prepared"
    PROVE  PayerInv'
<1>1. snap.sub \in Submissions
    BY DEF Snapshots
<1>2. CASE Stop(k)
    BY <1>2, Stopped
<1>3. CASE Set(k, "failing", "all", snap)
    BY <1>3, JobSet DEF Steps, Goals
<1>4. CASE Payable(snap) /\ Set(k, "guard", "all", snap)
  <2>1. action[snap.sub].prepared /\ action[snap.sub].status = "bonus_prepared"
      BY <1>4 DEF Payable
  <2>2. payments[snap.sub] = 0
      BY <1>1, <2>1 DEF PayerInv, PaidBehindGuard, PayerTypeOK
  <2> QED
      BY <1>4, <2>1, <2>2, JobSet DEF Steps, Goals
<1>5. CASE ~ snap.row.prepared /\ Set(k, "prepare", "all", snap)
    BY <1>5, JobSet DEF Steps, Goals
<1>6. PayOrRaise(k, snap) =>
        \/ Stop(k) \/ Set(k, "failing", "all", snap)
        \/ Payable(snap) /\ Set(k, "guard", "all", snap)
    BY DEF PayOrRaise
<1>7. PrepareOrPay(k, snap) =>
        \/ Stop(k) \/ PayOrRaise(k, snap)
        \/ ~ snap.row.prepared /\ Set(k, "prepare", "all", snap)
    BY DEF PrepareOrPay
<1> QED
    BY <1>2, <1>3, <1>4, <1>5, <1>6, <1>7

----------------------------------------------------------------------------
(***************************************************************************)
(* Calls to Prolific                                                       *)
(***************************************************************************)

\* Whoever is neither idle nor returning is not the automatic return.
LEMMA NotReturner ==
    ASSUME PayerInv, NEW k \in Payers,
           job[k].step \notin {"idle", "return", "returned", "failing"}
    PROVE  k \in Payers \ {Returner} /\ ~ Idle(k)
BY JobCases DEF PayerInv, ReturnerOnlyReturns, Doing

\* A working settler works when it is its turn.
LEMMA AtWork ==
    ASSUME PayerInv, NEW k \in Payers, ~ Idle(k)
    PROVE  /\ k \in Clerks => ~ automation
           /\ k = Worker => automation /\ \A q \in queue : Snap(k).sub # q.sub
BY DEF PayerInv, OneSettler, QueueCurrent, PayerTypeOK

\* Storing a new batch: nobody else is preparing or paying.
LEMMA StorePreparedSafe ==
    ASSUME StoreTypeOK, PayerInv, SoleClerk, NEW k \in Payers, StorePrepared(k)
    PROVE  StoreTypeOK' /\ UNCHANGED <<stage, outcome, kind, stale>> /\ PayerInv'
<1> DEFINE s == Snap(k).sub
<1>1. k \in Payers \ {Returner} /\ ~ Idle(k)
    BY NotReturner DEF StorePrepared, Doing
<1>2. s \in Submissions
    BY <1>1, JobCases DEF PayerInv
<1>3. ~ action[s].prepared
    BY DEF PayerInv, PreparedOnce, Preparing, StorePrepared, Doing
<1>4. payments[s] = 0
    BY <1>2, <1>3 DEF PayerInv, PaidBehindGuard, PayerTypeOK
<1>5. /\ StoreTypeOK' /\ UNCHANGED <<stage, outcome, kind, stale>>
      /\ action'[s].status = "bonus_prepared"
      /\ action'[s].prepared = (action[s].prepared \/ "bonus_prepared" = "bonus_prepared")
      /\ \A t \in Submissions \ {s} : action'[t] = action[t]
    BY <1>2, MarkRow DEF StorePrepared, ActionStatuses
<1>6. action'[s].prepared
    BY <1>5
<1>7. UNCHANGED <<automation, queue, payments>>
    BY DEF StorePrepared
<1>8. (Continue(k, "recheck") /\ job[k].goal = "all") \/ Stop(k)
    BY DEF StorePrepared
<1>9. /\ job[k] \in [step : Steps, goal : Goals, snap : Snapshots]
      /\ job \in [Payers -> Jobs]
    BY <1>1, JobCases DEF PayerInv, PayerTypeOK
<1>10. job'[k] = NoJob
       \/ job'[k] = [step |-> "recheck", goal |-> "all", snap |-> job[k].snap]
    BY <1>8, <1>9 DEF Continue, Stop
<1>11. /\ job'[k] \in Jobs /\ ~ Preparing(k)' /\ job'[k].step \notin {"guard", "pay"}
       /\ job'[k] # NoJob => job'[k].snap = job[k].snap
    BY <1>9, <1>10 DEF Jobs, Steps, Goals, NoJob, Preparing, Idle
<1>12. \A l \in Payers \ {k} : job'[l] = job[l]
    BY <1>8, <1>9 DEF Continue, Stop
<1>13. job' \in [Payers -> Jobs]
    BY <1>8, <1>9, <1>11, <1>12 DEF Continue, Stop
<1>14. PayerTypeOK'
    BY <1>7, <1>13 DEF PayerInv, PayerTypeOK
<1>15. OneSettler'
    BY <1>1, <1>7, <1>12, AtWork DEF PayerInv, OneSettler, Idle, Payers
<1>16. ReturnerOnlyReturns'
    BY <1>1, <1>12 DEF PayerInv, ReturnerOnlyReturns, Idle, Payers
<1>17. PaidAtMostOnce'
    BY <1>7 DEF PayerInv, PaidAtMostOnce
<1>18. PaidBehindGuard'
    BY <1>4, <1>5, <1>7 DEF PayerInv, PaidBehindGuard
<1>19. QueueCurrent'
  <2>1. SUFFICES ASSUME NEW q \in queue
                 PROVE  /\ q.row.status \in {"pending", "failed"}
                        /\ q.row.prepared = action'[q.sub].prepared
                        /\ \A r \in queue : r.sub = q.sub => r = q
                        /\ job'[Worker] # NoJob => job'[Worker].snap.sub # q.sub
      BY <1>7 DEF QueueCurrent, Idle, Snap
  <2>2. automation /\ k = Worker
      BY <1>1, AtWork DEF PayerInv, OneSettler, Payers, PayerTypeOK
  <2>3. q.sub # s /\ q.sub \in Submissions
      BY <1>1, <2>2, AtWork DEF PayerInv, PayerTypeOK, Snapshots
  <2>4. action'[q.sub] = action[q.sub]
      BY <1>5, <2>3
  <2>5. job'[Worker] # NoJob => job'[Worker].snap.sub # q.sub
      BY <1>11, <2>2, <2>3 DEF Snap
  <2> QED
      BY <2>4, <2>5 DEF PayerInv, QueueCurrent
<1>20. PreparedOnce'
  <2>1. SUFFICES ASSUME NEW l \in Payers, Preparing(l)' PROVE FALSE
      BY DEF PreparedOnce
  <2>2. l # k /\ job'[l] = job[l]
      BY <1>11, <1>12, <2>1
  <2>3. Preparing(l)
      BY <2>1, <2>2 DEF Preparing, Idle
  <2>4. ~ Idle(l)
      BY <2>3, JobCases DEF Preparing, PayerInv, Doing
  <2>5. l # Returner
      BY <2>3, <2>4 DEF Preparing, PayerInv, ReturnerOnlyReturns
  <2> QED
      BY <1>1, <2>2, <2>4, <2>5, OneAtWork DEF PayerInv, PayerTypeOK
<1>21. FirstPayment'
  <2>1. SUFFICES ASSUME NEW l \in Payers, job'[l].step \in {"guard", "pay"} PROVE FALSE
      BY DEF FirstPayment, Doing
  <2>2. l # k /\ job'[l] = job[l]
      BY <1>11, <1>12, <2>1
  <2>3. l \in Payers \ {Returner} /\ ~ Idle(l)
      BY <2>1, <2>2, NotReturner
  <2> QED
      BY <1>1, <2>2, <2>3, OneAtWork DEF PayerInv, PayerTypeOK
<1> QED
    BY <1>5, <1>14, <1>15, <1>16, <1>17, <1>18, <1>19, <1>20, <1>21 DEF PayerInv

\* The payment itself: it is the first, the guard is stored and nobody else is
\* about to pay.
LEMMA CallPaySafe ==
    ASSUME PayerInv, SoleClerk, NEW k \in Payers, CallPay(k)
    PROVE  PayerInv'
<1> DEFINE s == Snap(k).sub
<1>1. k \in Payers \ {Returner} /\ ~ Idle(k)
    BY NotReturner DEF CallPay, Doing
<1>2. s \in Submissions
    BY <1>1, JobCases DEF PayerInv
<1>3. payments[s] = 0 /\ action[s].prepared /\ action[s].status # "bonus_prepared"
    BY DEF PayerInv, FirstPayment, CallPay, Doing
<1>4. UNCHANGED <<automation, queue, action>>
    BY DEF CallPay, storeVars
<1>5. RowsSettle
    BY <1>4 DEF RowsSettle
<1>6. CASE payments' = payments
    BY <1>1, <1>4, <1>5, <1>6, Continued DEF CallPay, Steps
<1>7. CASE /\ payments[s] < MaxPayments
           /\ payments' = [payments EXCEPT ![s] = payments[s] + 1]
           /\ Continue(k, "accepted") \/ Continue(k, "uncertain")
  <2>1. payments' \in [Submissions -> 0 .. MaxPayments] /\ payments'[s] = 1
        /\ \A t \in Submissions \ {s} : payments'[t] = payments[t]
      BY <1>2, <1>3, <1>7, PayersAssumption DEF PayerInv, PayerTypeOK
  <2>2. /\ job[k] \in [step : Steps, goal : Goals, snap : Snapshots]
        /\ job \in [Payers -> Jobs]
      BY <1>1, JobCases DEF PayerInv, PayerTypeOK
  <2>3. PICK st \in {"accepted", "uncertain"} : Continue(k, st)
      BY <1>7
  <2>4. /\ job'[k] = [step |-> st, goal |-> job[k].goal, snap |-> job[k].snap]
        /\ \A l \in Payers \ {k} : job'[l] = job[l]
      BY <2>2, <2>3 DEF Continue
  <2>5. job'[k] \in Jobs /\ job'[k].snap = job[k].snap /\ job'[k].goal = job[k].goal
        /\ job'[k].step \in {"accepted", "uncertain"}
      BY <2>2, <2>4 DEF Jobs, Steps
  <2>6. job' \in [Payers -> Jobs]
      BY <2>2, <2>3, <2>4, <2>5 DEF Continue
  <2>7. PayerTypeOK'
      BY <1>4, <2>1, <2>6 DEF PayerInv, PayerTypeOK
  <2>8. OneSettler'
      BY <1>1, <1>4, <2>4, AtWork DEF PayerInv, OneSettler, Idle, Payers
  <2>9. ReturnerOnlyReturns'
      BY <1>1, <2>4 DEF PayerInv, ReturnerOnlyReturns, Idle, Payers
  <2>10. PaidAtMostOnce' /\ PaidBehindGuard'
      BY <1>3, <1>4, <2>1 DEF PayerInv, PaidAtMostOnce, PaidBehindGuard
  <2>11. QueueCurrent'
    <3>1. CASE k = Worker
        BY <1>1, <1>4, <2>5, <3>1 DEF PayerInv, QueueCurrent, Idle, Snap
    <3>2. CASE k # Worker
        BY <1>4, <2>4, <3>2 DEF PayerInv, QueueCurrent, Idle, Snap, Payers
    <3> QED
        BY <3>1, <3>2
  <2>12. PreparedOnce'
    <3>1. SUFFICES ASSUME NEW l \in Payers, Preparing(l)'
                   PROVE  ~ action[job'[l].snap.sub].prepared
        BY <1>4 DEF PreparedOnce, Snap
    <3>2. CASE l = k
        BY <1>1, <2>5, <3>1, <3>2 DEF PayerInv, PreparedOnce, Preparing, Idle, Snap
    <3>3. CASE l # k
        BY <2>4, <3>1, <3>3 DEF PayerInv, PreparedOnce, Preparing, Idle, Snap
    <3> QED
        BY <3>2, <3>3
  <2>13. FirstPayment'
    <3>1. SUFFICES ASSUME NEW l \in Payers, job'[l].step \in {"guard", "pay"} PROVE FALSE
        BY DEF FirstPayment, Doing
    <3>2. l # k /\ job'[l] = job[l]
        BY <2>4, <2>5, <3>1
    <3>3. l \in Payers \ {Returner} /\ ~ Idle(l)
        BY <3>1, <3>2, NotReturner
    <3> QED
        BY <1>1, <3>2, <3>3, OneAtWork DEF PayerInv, PayerTypeOK
  <2> QED
      BY <2>7, <2>8, <2>9, <2>10, <2>11, <2>12, <2>13 DEF PayerInv
<1> QED
    BY <1>6, <1>7 DEF CallPay

\* Every step of a call keeps the invariant.
LEMMA CallsSafe ==
    ASSUME StoreTypeOK, PayerInv, SoleClerk, NEW k \in Payers, Calls(k)
    PROVE  StoreTypeOK' /\ UNCHANGED <<stage, outcome, kind, stale>> /\ PayerInv'
<1> DEFINE s == Snap(k).sub
           goal == StoreTypeOK' /\ UNCHANGED <<stage, outcome, kind, stale>> /\ PayerInv'
<1>1. job[k].step # "idle" => ~ Idle(k) /\ s \in Submissions
    BY JobCases DEF PayerInv, Doing
<1>2. UNCHANGED storeVars =>
        StoreTypeOK' /\ RowsSettle /\ UNCHANGED <<stage, outcome, kind, stale>>
    BY DEF storeVars, StoreTypeOK, RowsSettle
<1>3. ASSUME NEW st \in ActionStatuses \ {"bonus_prepared"}, s \in Submissions, Mark(s, st)
      PROVE  /\ StoreTypeOK' /\ RowsSettle /\ UNCHANGED <<stage, outcome, kind, stale>>
             /\ action'[s].status = st
    BY <1>3, MarkRow
<1> HIDE DEF s
<1>4. CASE CallReturn(k)
  <2>1. ~ Idle(k) /\ StoreTypeOK' /\ RowsSettle /\ UNCHANGED <<stage, outcome, kind, stale>>
      BY <1>1, <1>2, <1>4 DEF CallReturn, Doing
  <2>2. UNCHANGED <<automation, queue, payments>>
        /\ (Continue(k, "returned") \/ Raise(k))
      BY <1>4 DEF CallReturn
  <2> QED
      BY <2>1, <2>2, Raised, Continued DEF Steps
<1>5. CASE StoreReturn(k)
  <2>1. ~ Idle(k) /\ StoreTypeOK' /\ RowsSettle /\ UNCHANGED <<stage, outcome, kind, stale>>
      BY <1>1, <1>3, <1>5 DEF StoreReturn, Doing, ActionStatuses, s
  <2>2. UNCHANGED <<automation, queue, payments>>
      BY <1>5 DEF StoreReturn
  <2>3. CASE Stop(k)
      BY <2>1, <2>2, <2>3, Stopped
  <2>4. CASE job[k].goal # "return" /\ Continue(k, "reread")
    <3>1. k # Returner
        BY <2>1, <2>4 DEF PayerInv, ReturnerOnlyReturns
    <3> QED
        BY <2>1, <2>2, <2>4, <3>1, Continued DEF Steps
  <2>5. CASE job[k].goal = "bonus" /\ Continue(k, "prepare")
    <3>1. k # Returner
        BY <2>1, <2>5 DEF PayerInv, ReturnerOnlyReturns
    <3>2. ~ action[Snap(k).sub].prepared
        BY <2>1, <2>5 DEF PayerInv, PreparedOnce, Preparing
    <3> QED
        BY <2>1, <2>2, <2>5, <3>1, <3>2, Continued DEF Steps
  <2> QED
      BY <1>5, <2>1, <2>3, <2>4, <2>5 DEF StoreReturn
<1>6. CASE Reread(k) \/ Recheck(k)
  <2>1. k \in Payers \ {Returner} /\ ~ Idle(k) /\ s \in Submissions
      BY <1>1, <1>6, NotReturner DEF Reread, Recheck, Doing
  <2>2. /\ UNCHANGED <<automation, queue, payments>>
        /\ StoreTypeOK' /\ RowsSettle /\ UNCHANGED <<stage, outcome, kind, stale>>
      BY <1>2, <1>6 DEF Reread, Recheck
  <2>3. /\ Fresh(k) \in Snapshots /\ Fresh(k).sub = Snap(k).sub
        /\ Fresh(k).row = action[Snap(k).sub]
      BY <2>1, SnapshotType DEF Fresh, Snap, s
  <2>4. PrepareOrPay(k, Fresh(k)) \/ PayOrRaise(k, Fresh(k))
      BY <1>6 DEF Reread, Recheck
  <2> HIDE DEF s
  <2> QED
      BY <2>1, <2>2, <2>3, <2>4, AtWork, PreparedNext
<1>7. CASE CallPrepare(k)
  <2>1. k \in Payers \ {Returner} /\ ~ Idle(k)
      BY <1>7, NotReturner DEF CallPrepare, Doing
  <2>2. /\ UNCHANGED <<automation, queue, payments>>
        /\ StoreTypeOK' /\ RowsSettle /\ UNCHANGED <<stage, outcome, kind, stale>>
      BY <1>2, <1>7 DEF CallPrepare
  <2>3. ~ action[Snap(k).sub].prepared
      BY <1>7 DEF CallPrepare, Doing, PayerInv, PreparedOnce, Preparing
  <2> QED
      BY <1>7, <2>1, <2>2, <2>3, Continued, Raised DEF CallPrepare, Steps
<1>8. CASE StorePrepared(k)
    BY <1>8, StorePreparedSafe
<1>9. CASE StoreGuard(k)
  <2>1. k \in Payers \ {Returner} /\ ~ Idle(k) /\ s \in Submissions
      BY <1>1, <1>9, NotReturner DEF StoreGuard, Doing
  <2>2. UNCHANGED <<automation, queue, payments>>
      BY <1>9 DEF StoreGuard
  <2>3. CASE Mark(s, "payment_in_progress") /\ Continue(k, "pay")
    <3>1. /\ StoreTypeOK' /\ RowsSettle /\ UNCHANGED <<stage, outcome, kind, stale>>
          /\ action'[Snap(k).sub].status # "bonus_prepared"
        BY <1>3, <2>1, <2>3 DEF ActionStatuses, s
    <3>2. payments[Snap(k).sub] = 0 /\ action[Snap(k).sub].prepared
        BY <1>9 DEF StoreGuard, Doing, PayerInv, FirstPayment
    <3> QED
        BY <2>1, <2>2, <2>3, <3>1, <3>2, Continued DEF Steps
  <2>4. CASE UNCHANGED storeVars /\ Raise(k)
      BY <1>2, <2>1, <2>2, <2>4, Raised
  <2> QED
      BY <1>9, <2>3, <2>4 DEF StoreGuard, s
<1>10. CASE CallPay(k)
    BY <1>2, <1>10, CallPaySafe DEF CallPay
<1>11. CASE StorePaid(k)
  <2>1. UNCHANGED <<automation, queue, payments>> /\ Stop(k)
      BY <1>11 DEF StorePaid
  <2>2. StoreTypeOK' /\ RowsSettle /\ UNCHANGED <<stage, outcome, kind, stale>>
      BY <1>1, <1>2, <1>3, <1>11 DEF StorePaid, Doing, ActionStatuses, s
  <2> QED
      BY <2>1, <2>2, Stopped
<1>12. CASE StoreUncertain(k)
  <2>1. UNCHANGED <<automation, queue, payments>> /\ ~ Idle(k)
      BY <1>1, <1>12 DEF StoreUncertain, Doing
  <2>2. StoreTypeOK' /\ RowsSettle /\ UNCHANGED <<stage, outcome, kind, stale>>
      BY <1>1, <1>2, <1>3, <1>12 DEF StoreUncertain, Doing, ActionStatuses, s
  <2> QED
      BY <1>12, <2>1, <2>2, Stopped, Raised DEF StoreUncertain
<1>13. CASE RecordFailure(k)
  <2>1. UNCHANGED <<automation, queue, payments>> /\ Stop(k)
      BY <1>13 DEF RecordFailure
  <2>2. StoreTypeOK' /\ RowsSettle /\ UNCHANGED <<stage, outcome, kind, stale>>
      BY <1>1, <1>3, <1>13 DEF RecordFailure, Doing, ActionStatuses, s
  <2> QED
      BY <2>1, <2>2, Stopped
<1> QED
    BY <1>4, <1>5, <1>6, <1>7, <1>8, <1>9, <1>10, <1>11, <1>12, <1>13 DEF Calls

----------------------------------------------------------------------------
(***************************************************************************)
(* Who starts a job                                                        *)
(***************************************************************************)

\* A run of the automation lists rows whose batches it knows.
LEMMA ListDueSafe ==
    ASSUME StoreTypeOK, PayerInv, ListDue
    PROVE  PayerInv'
<1>1. /\ automation /\ Idle(Worker) /\ queue' = {Snapshot(s) : s \in Due}
      /\ UNCHANGED <<automation, job, payments, action>>
    BY DEF ListDue, storeVars
<1>2. \A q \in queue' : /\ q \in Snapshots /\ q.row = action[q.sub]
                        /\ q.row.status \in {"pending", "failed"}
                        /\ q = Snapshot(q.sub)
    BY <1>1, SnapshotType DEF Due
<1>3. PayerTypeOK'
    BY <1>1, <1>2 DEF PayerInv, PayerTypeOK
<1>4. OneSettler' /\ ReturnerOnlyReturns' /\ PaidAtMostOnce' /\ PaidBehindGuard'
    BY <1>1 DEF PayerInv, OneSettler, ReturnerOnlyReturns, PaidAtMostOnce,
       PaidBehindGuard, Idle
<1>5. PreparedOnce' /\ FirstPayment'
    BY <1>1 DEF PayerInv, PreparedOnce, FirstPayment, Preparing, Idle, Snap, Doing
<1>6. QueueCurrent'
    BY <1>1, <1>2 DEF QueueCurrent, Idle
<1> QED
    BY <1>3, <1>4, <1>5, <1>6 DEF PayerInv

\* It acts on a listed row as if it had read it now.
LEMMA ProcessAllSafe ==
    ASSUME StoreTypeOK, PayerInv, ProcessAll
    PROVE  PayerInv'
<1>1. PICK snap \in queue :
        /\ queue' = queue \ {snap}
        /\ CASE ~ Actionable(snap) -> UNCHANGED job
             [] ~ snap.row.returned -> Set(Worker, "return", "all", snap)
             [] OTHER -> PrepareOrPay(Worker, snap)
    BY DEF ProcessAll
<1>2. Idle(Worker) /\ UNCHANGED <<automation, payments, action>>
    BY DEF ProcessAll, storeVars
<1>3. RowsSettle
    BY <1>2 DEF RowsSettle
<1>4. /\ snap \in Snapshots /\ snap.row.status # "bonus_prepared"
      /\ snap.row.prepared = action[snap.sub].prepared
      /\ \A q \in queue' : snap.sub # q.sub
    BY <1>1 DEF PayerInv, PayerTypeOK, QueueCurrent
<1>5. Worker \in Payers \ {Returner} /\ Worker \notin Clerks
    BY PayersAssumption DEF Payers
<1>6. automation /\ queue' \subseteq queue
    BY <1>1 DEF PayerInv, OneSettler, PayerTypeOK
<1>7. CASE UNCHANGED job
  <2>1. job' = [job EXCEPT ![Worker] = NoJob]
      BY <1>2, <1>7 DEF PayerInv, PayerTypeOK, Idle
  <2> QED
      BY <1>2, <1>3, <1>5, <1>6, <2>1, Stopped DEF Stop
<1>8. CASE Set(Worker, "return", "all", snap)
    BY <1>2, <1>3, <1>4, <1>5, <1>6, <1>8, JobSet DEF Steps, Goals
<1>9. CASE PrepareOrPay(Worker, snap)
    BY <1>2, <1>3, <1>4, <1>5, <1>6, <1>9, PreparedNext
<1> QED
    BY <1>1, <1>7, <1>8, <1>9

\* A researcher's request starts from the record as it is.
LEMMA AsksSafe ==
    ASSUME StoreTypeOK, PayerInv, ~ automation, NEW k \in Clerks, NEW s \in Submissions,
           Asks(k, s)
    PROVE  StoreTypeOK' /\ UNCHANGED <<stage, outcome, kind, stale>> /\ PayerInv'
<1>1. k \in Payers /\ k # Worker /\ k # Returner
    BY PayersAssumption DEF Payers
<1>2. /\ Snapshot(s) \in Snapshots /\ Snapshot(s).sub = s
      /\ Snapshot(s).row = action[s]
    BY SnapshotType
<1>3. UNCHANGED storeVars =>
        StoreTypeOK' /\ RowsSettle /\ UNCHANGED <<stage, outcome, kind, stale>>
    BY DEF storeVars, StoreTypeOK, RowsSettle
<1>4. CASE AskReturn(k, s)
    BY <1>1, <1>2, <1>3, <1>4, JobSet DEF AskReturn, Steps, Goals
<1>5. CASE AskBonus(k, s)
  <2> DEFINE st == IF action[s].returned THEN "prepare" ELSE "return"
  <2>1. st \in Steps /\ st \notin {"guard", "pay"}
      BY DEF Steps
  <2>2. Set(k, st, "bonus", Snapshot(s)) /\ ~ action[s].prepared
        /\ UNCHANGED <<automation, queue, payments, storeVars>>
      BY <1>5 DEF AskBonus
  <2> HIDE DEF st
  <2> QED
      BY <1>1, <1>2, <1>3, <2>1, <2>2, JobSet DEF Goals
<1>6. CASE AskPayment(k, s)
  <2>1. action[s].prepared /\ action[s].status = "bonus_prepared"
      BY <1>2, <1>6 DEF AskPayment, Payable
  <2>2. payments[s] = 0
      BY <2>1 DEF PayerInv, PaidBehindGuard, PayerTypeOK
  <2> QED
      BY <1>1, <1>2, <1>3, <1>6, <2>1, <2>2, JobSet DEF AskPayment, Steps, Goals
<1>7. CASE ResolveManually(k, s)
  <2>1. StoreTypeOK' /\ RowsSettle /\ UNCHANGED <<stage, outcome, kind, stale>>
      BY <1>7, MarkRow DEF ResolveManually, ActionStatuses
  <2> QED
      BY <1>7, <2>1, RestingPayers DEF ResolveManually
<1> QED
    BY <1>4, <1>5, <1>6, <1>7 DEF Asks

\* The automatic return starts from the record as it is.
LEMMA AutoReturnSafe ==
    ASSUME StoreTypeOK, PayerInv, NEW s \in Submissions, AutoReturn(s)
    PROVE  StoreTypeOK' /\ UNCHANGED storeVars /\ PayerInv'
<1>1. Returner \in Payers /\ Returner \notin Clerks /\ Returner # Worker
    BY PayersAssumption DEF Payers
<1>2. UNCHANGED storeVars /\ StoreTypeOK' /\ RowsSettle
      /\ UNCHANGED <<automation, queue, payments>>
    BY DEF AutoReturn, storeVars, StoreTypeOK, RowsSettle
<1>3. Snapshot(s) \in Snapshots
    BY SnapshotType
<1>4. CASE UNCHANGED job
    BY <1>2, <1>4, RestingPayers DEF payerVars
<1>5. CASE \/ Set(Returner, "failing", "return", Snapshot(s))
           \/ Set(Returner, "return", "return", Snapshot(s))
    BY <1>1, <1>2, <1>3, <1>5, JobSet DEF Steps, Goals
<1> QED
    BY <1>2, <1>4, <1>5 DEF AutoReturn

----------------------------------------------------------------------------
(***************************************************************************)
(* Writers                                                                 *)
(***************************************************************************)

\* The sweep's list is empty, or what it says of an open silent submission is
\* still so.
WriterInv == StoreTypeOK /\ WriterTypeOK /\ ScanCurrent

\* The two facts about a step of a writer the theorems need.
PaysByStage ==
    \A s \in Submissions :
        outcome[s] # outcome'[s] /\ outcome'[s] = "connection_timeout" =>
            kind'[s] = DisconnectKind(stage[s])
NoRegress ==
    \A s \in Submissions : outcome'[s] = "open" => Rank(stage'[s]) >= Rank(stage[s])

\* An ending that is no timeout.
LEMMA TerminateStep ==
    ASSUME WriterInv, NEW s \in Submissions, NEW o \in Outcomes \ {"open"}, NEW k \in Kinds,
           Terminate(s, o, k), scanned' \subseteq scanned,
           o = "connection_timeout" => k = DisconnectKind(stage[s])
    PROVE  StoreTypeOK' /\ RowsSettle /\ ScanCurrent' /\ PaysByStage /\ NoRegress
<1>1. StoreTypeOK' /\ RowsSettle
    BY TerminateRow DEF WriterInv
<1>2. /\ outcome'[s] = o /\ kind'[s] = k
      /\ \A t \in Submissions \ {s} :
            /\ outcome'[t] = outcome[t] /\ stage'[t] = stage[t] /\ stale'[t] = stale[t]
    BY DEF Terminate, WriterInv, StoreTypeOK
<1>3. \A v \in scanned : v.sub \in Submissions
    BY DEF WriterInv, WriterTypeOK
<1>4. ScanCurrent'
    BY <1>2, <1>3 DEF WriterInv, ScanCurrent, Silent
<1>5. PaysByStage
    BY <1>2 DEF PaysByStage
<1>6. NoRegress
    BY <1>2, RankInt DEF NoRegress, WriterInv, StoreTypeOK
<1> QED
    BY <1>1, <1>4, <1>5, <1>6

\* A completion.
LEMMA CompleteStep ==
    ASSUME WriterInv, NEW s \in Submissions, Complete(s), scanned' = scanned
    PROVE  StoreTypeOK' /\ RowsSettle /\ ScanCurrent' /\ PaysByStage /\ NoRegress
<1>1. StoreTypeOK' /\ RowsSettle
    BY CompleteRow DEF WriterInv
<1>2. /\ outcome'[s] = "completed"
      /\ \A t \in Submissions \ {s} :
            /\ outcome'[t] = outcome[t] /\ stage'[t] = stage[t] /\ stale'[t] = stale[t]
    BY DEF Complete, WriterInv, StoreTypeOK
<1>3. \A v \in scanned : v.sub \in Submissions
    BY DEF WriterInv, WriterTypeOK
<1>4. ScanCurrent'
    BY <1>2, <1>3 DEF WriterInv, ScanCurrent, Silent
<1>5. PaysByStage
    BY <1>2 DEF PaysByStage
<1>6. NoRegress
    BY <1>2, RankInt DEF NoRegress, WriterInv, StoreTypeOK
<1> QED
    BY <1>1, <1>4, <1>5, <1>6

\* A heartbeat: it makes the submission fresh, so the sweep will not claim it.
LEMMA HeartbeatStep ==
    ASSUME WriterInv, NEW s \in Submissions, NEW m \in Milestones, Heartbeat(s, m),
           scanned' = scanned
    PROVE  StoreTypeOK' /\ RowsSettle /\ ScanCurrent' /\ PaysByStage /\ NoRegress
<1>1. StoreTypeOK' /\ RowsSettle
    BY HeartbeatRow DEF WriterInv
<1>2. /\ outcome' = outcome /\ stale'[s] = FALSE
      /\ stage'[s] = IF Rank(stage[s]) < Rank(m) THEN m ELSE stage[s]
      /\ \A t \in Submissions \ {s} : stage'[t] = stage[t] /\ stale'[t] = stale[t]
    BY DEF Heartbeat, WriterInv, StoreTypeOK
<1>3. \A v \in scanned : v.sub \in Submissions
    BY DEF WriterInv, WriterTypeOK
<1>4. ScanCurrent'
    BY <1>2, <1>3 DEF WriterInv, ScanCurrent, Silent
<1>5. PaysByStage
    BY <1>2 DEF PaysByStage
<1>6. NoRegress
  <2>1. m \in Stages
      BY ParticipationAssumption DEF Stages
  <2>2. \A t \in Submissions : Rank(stage[t]) \in 1 .. 7 /\ Rank(m) \in 1 .. 7
      BY <2>1, RankInt DEF WriterInv, StoreTypeOK
  <2>3. SUFFICES ASSUME NEW t \in Submissions PROVE Rank(stage'[t]) >= Rank(stage[t])
      BY DEF NoRegress
  <2>4. CASE t = s
      BY <1>2, <2>2, <2>4
  <2>5. CASE t # s
      BY <1>2, <2>2, <2>5
  <2> QED
      BY <2>4, <2>5
<1> QED
    BY <1>1, <1>4, <1>5, <1>6

\* Steps that leave stages, outcomes and kinds alone.
LEMMA QuietStep ==
    ASSUME WriterInv, UNCHANGED <<stage, outcome, kind>>
    PROVE  PaysByStage /\ NoRegress
<1>1. \A s \in Submissions : Rank(stage[s]) \in 1 .. 7
    BY RankInt DEF WriterInv, StoreTypeOK
<1> QED
    BY <1>1 DEF PaysByStage, NoRegress

\* A writer reads before it writes; what it will write is an ending.
LEMMA BeginType ==
    ASSUME WriterTypeOK, NEW w \in Writers, NEW st \in {"check", "write", "complete"},
           NEW s \in Submissions, NEW o \in Outcomes \ {"open", "connection_timeout"},
           NEW k \in Kinds, Begin(w, st, s, o, k), UNCHANGED <<scanned, claimed>>
    PROVE  WriterTypeOK'
<1> DEFINE new == [step |-> st, sub |-> s, outcome |-> o, kind |-> k]
<1>1. new \in Ops
    BY DEF Ops
<1>2. op' = [op EXCEPT ![w] = new]
    BY DEF Begin
<1> HIDE DEF new
<1> QED
    BY <1>1, <1>2 DEF WriterTypeOK

\* It is idle again.
LEMMA FinishType ==
    ASSUME WriterTypeOK, NEW w \in Writers, Finish(w), UNCHANGED <<scanned, claimed>>
    PROVE  WriterTypeOK'
BY DEF WriterTypeOK, Finish, Ops

\* A busy writer holds an ending of some submission.
LEMMA OpCases ==
    ASSUME WriterTypeOK, NEW w \in Writers, op[w].step # "idle"
    PROVE  /\ op[w].sub \in Submissions /\ op[w].kind \in Kinds
           /\ op[w].outcome \in Outcomes \ {"open", "connection_timeout"}
BY DEF WriterTypeOK, Ops, NoOp

\* What an ending entitles to is a kind of compensation.
LEMMA KindTypes ==
    ASSUME NEW st, NEW o
    PROVE  DisconnectKind(st) \in Kinds /\ SelfKind(o, st) \in Kinds
BY DEF DisconnectKind, SelfKind, Kinds

\* Every step of a writer or a browser.
LEMMA WriterSafe ==
    ASSUME WriterInv, ParticipationNext
    PROVE  WriterInv' /\ RowsSettle /\ PaysByStage /\ NoRegress
<1>1. UNCHANGED storeVars =>
        StoreTypeOK' /\ RowsSettle /\ PaysByStage /\ NoRegress
        /\ (scanned' = scanned => ScanCurrent')
    BY QuietStep DEF WriterInv, storeVars, StoreTypeOK, RowsSettle, ScanCurrent, Silent
<1>2. ASSUME NEW s \in Submissions, NEW o \in SelfOutcomes, SelfTerminate(s, o)
      PROVE  WriterInv' /\ RowsSettle /\ PaysByStage /\ NoRegress
  <2>1. WriterTypeOK'
    <3>1. o \in Outcomes \ {"open", "connection_timeout"}
        BY DEF SelfOutcomes, Outcomes
    <3>2. Begin(Chain, "check", s, o, SelfKind(o, stage[s]))
          /\ UNCHANGED <<scanned, claimed>>
        BY <1>2 DEF SelfTerminate
    <3> QED
        BY <3>1, <3>2, KindTypes, BeginType DEF WriterInv, Writers
  <2> QED
      BY <1>1, <1>2, <2>1 DEF SelfTerminate, WriterInv
<1>3. ASSUME NEW s \in Submissions, NEW w \in {Chain, Expiry}, NEW o \in GroupOutcomes,
             GroupTerminate(w, s, o)
      PROVE  WriterInv' /\ RowsSettle /\ PaysByStage /\ NoRegress
  <2>1. WriterTypeOK'
    <3>1. o \in Outcomes \ {"open", "connection_timeout"} /\ "partial" \in Kinds
        BY DEF GroupOutcomes, Outcomes, Kinds
    <3>2. Begin(w, "check", s, o, "partial") /\ UNCHANGED <<scanned, claimed>>
        BY <1>3 DEF GroupTerminate
    <3> QED
        BY <3>1, <3>2, BeginType DEF WriterInv, Writers
  <2> QED
      BY <1>1, <1>3, <2>1 DEF GroupTerminate, WriterInv
<1>4. ASSUME NEW s \in Submissions, NEW t \in Tabs, ReadCompletion(t, s)
      PROVE  WriterInv' /\ RowsSettle /\ PaysByStage /\ NoRegress
  <2>1. WriterTypeOK'
    <3>1. "completed" \in Outcomes \ {"open", "connection_timeout"} /\ "full" \in Kinds
        BY DEF Outcomes, Kinds
    <3>2. Begin(t, "complete", s, "completed", "full") /\ UNCHANGED <<scanned, claimed>>
        BY <1>4 DEF ReadCompletion
    <3> QED
        BY <3>1, <3>2, BeginType DEF WriterInv, Writers
  <2> QED
      BY <1>1, <1>4, <2>1 DEF ReadCompletion, WriterInv
<1>5. ASSUME NEW s \in Submissions, NEW m \in Milestones, Beat(s, m)
      PROVE  WriterInv' /\ RowsSettle /\ PaysByStage /\ NoRegress
  <2>1. Heartbeat(s, m) /\ UNCHANGED <<op, scanned, claimed>>
      BY <1>5 DEF Beat, writerVars
  <2>2. WriterTypeOK'
      BY <2>1 DEF WriterInv, WriterTypeOK
  <2> QED
      BY <2>1, <2>2, HeartbeatStep DEF WriterInv
<1>6. ASSUME NEW s \in Submissions, FallSilent(s)
      PROVE  WriterInv' /\ RowsSettle /\ PaysByStage /\ NoRegress
  <2>1. /\ UNCHANGED <<stage, outcome, kind, action, op, scanned, claimed>>
        /\ stale' = [stale EXCEPT ![s] = TRUE] /\ \A v \in scanned : v.sub # s
      BY <1>6 DEF FallSilent, writerVars
  <2>2. StoreTypeOK' /\ WriterTypeOK' /\ RowsSettle
      BY <2>1 DEF WriterInv, StoreTypeOK, WriterTypeOK, RowsSettle
  <2>3. ScanCurrent'
      BY <2>1 DEF WriterInv, StoreTypeOK, WriterTypeOK, ScanCurrent, Silent
  <2> QED
      BY <2>1, <2>2, <2>3, QuietStep DEF WriterInv
<1>7. ASSUME NEW w \in {Chain, Expiry}, CheckOutcome(w)
      PROVE  WriterInv' /\ RowsSettle /\ PaysByStage /\ NoRegress
  <2>1. UNCHANGED <<scanned, claimed, storeVars>> /\ w \in Writers /\ At(w, "check")
      BY <1>7 DEF CheckOutcome, Writers
  <2>2. CASE Finish(w)
      BY <1>1, <2>1, <2>2, FinishType DEF WriterInv
  <2>3. CASE Begin(w, "write", op[w].sub, op[w].outcome, op[w].kind)
    <3>1. /\ op[w].sub \in Submissions /\ op[w].kind \in Kinds
          /\ op[w].outcome \in Outcomes \ {"open", "connection_timeout"}
        BY <2>1, OpCases DEF WriterInv, At
    <3>2. WriterTypeOK'
        BY <2>1, <2>3, <3>1, BeginType DEF WriterInv
    <3> QED
        BY <1>1, <2>1, <3>2 DEF WriterInv
  <2> QED
      BY <1>7, <2>2, <2>3 DEF CheckOutcome
<1>8. ASSUME NEW w \in {Chain, Expiry}, WriteOutcome(w)
      PROVE  WriterInv' /\ RowsSettle /\ PaysByStage /\ NoRegress
  <2>1. /\ UNCHANGED <<scanned, claimed>> /\ w \in Writers /\ At(w, "write")
        /\ Terminate(op[w].sub, op[w].outcome, op[w].kind) /\ Finish(w)
      BY <1>8 DEF WriteOutcome, Writers
  <2>2. /\ op[w].sub \in Submissions /\ op[w].kind \in Kinds
        /\ op[w].outcome \in Outcomes \ {"open", "connection_timeout"}
      BY <2>1, OpCases DEF WriterInv, At
  <2>3. WriterTypeOK'
      BY <2>1, FinishType DEF WriterInv
  <2> QED
      BY <2>1, <2>2, <2>3, TerminateStep DEF WriterInv
<1>9. ASSUME ScanStale
      PROVE  WriterInv' /\ RowsSettle /\ PaysByStage /\ NoRegress
  <2>1. /\ UNCHANGED <<op, claimed, storeVars>>
        /\ scanned' = {[sub |-> s, kind |-> DisconnectKind(stage[s])] : s \in Silent}
      BY <1>9 DEF ScanStale
  <2>2. WriterTypeOK'
      BY <2>1, KindTypes DEF WriterInv, WriterTypeOK, Silent
  <2>3. ScanCurrent'
      BY <2>1 DEF ScanCurrent, storeVars
  <2> QED
      BY <1>1, <2>1, <2>2, <2>3 DEF WriterInv
<1>10. ASSUME ClaimStale
       PROVE  WriterInv' /\ RowsSettle /\ PaysByStage /\ NoRegress
  <2>1. PICK v \in scanned :
          /\ scanned' = scanned \ {v}
          /\ IF v.sub \in Silent
             THEN /\ Terminate(v.sub, "connection_timeout", v.kind)
                  /\ claimed' = claimed \cup {v.sub}
             ELSE UNCHANGED <<claimed, storeVars>>
      BY <1>10 DEF ClaimStale
  <2>2. v.sub \in Submissions /\ v.kind \in Kinds /\ UNCHANGED op
      BY <1>10 DEF ClaimStale, WriterInv, WriterTypeOK
  <2>3. WriterTypeOK'
      BY <2>1, <2>2 DEF WriterInv, WriterTypeOK
  <2>4. CASE v.sub \in Silent
    <3>1. v.kind = DisconnectKind(stage[v.sub])
        BY <2>4 DEF WriterInv, ScanCurrent
    <3>2. "connection_timeout" \in Outcomes \ {"open"}
        BY DEF Outcomes
    <3>3. Terminate(v.sub, "connection_timeout", v.kind) /\ scanned' \subseteq scanned
        BY <2>1, <2>4
    <3> QED
        BY <2>2, <2>3, <3>1, <3>2, <3>3, TerminateStep DEF WriterInv
  <2>5. CASE v.sub \notin Silent
    <3>1. UNCHANGED storeVars
        BY <2>1, <2>5
    <3>2. ScanCurrent'
        BY <2>1, <3>1 DEF WriterInv, ScanCurrent, Silent, storeVars
    <3> QED
        BY <1>1, <2>3, <3>1, <3>2 DEF WriterInv
  <2> QED
      BY <2>4, <2>5
<1>11. ASSUME NEW t \in Tabs, WriteCompletion(t)
       PROVE  WriterInv' /\ RowsSettle /\ PaysByStage /\ NoRegress
  <2>1. /\ UNCHANGED <<scanned, claimed>> /\ t \in Writers /\ At(t, "complete")
        /\ Complete(op[t].sub) /\ Finish(t)
      BY <1>11 DEF WriteCompletion, Writers
  <2>2. op[t].sub \in Submissions
      BY <2>1, OpCases DEF WriterInv, At
  <2>3. WriterTypeOK'
      BY <2>1, FinishType DEF WriterInv
  <2> QED
      BY <2>1, <2>2, <2>3, CompleteStep DEF WriterInv
<1> QED
    BY <1>2, <1>3, <1>4, <1>5, <1>6, <1>7, <1>8, <1>9, <1>10, <1>11
    DEF ParticipationNext, Closing

----------------------------------------------------------------------------
(***************************************************************************)
(* Types, whoever acts when                                                *)
(***************************************************************************)

\* The ways a payer's job changes.
JobTypeStep(k) ==
    \/ Stop(k) \/ UNCHANGED job
    \/ ~ Idle(k) /\ (Raise(k) \/ \E st \in Steps : Continue(k, st))
    \/ \E st \in Steps, g \in Goals, snap \in Snapshots : Set(k, st, g, snap)

\* Each of them keeps the type.
LEMMA JobType ==
    ASSUME PayerTypeOK, NEW k \in Payers, JobTypeStep(k),
           automation' = automation, queue' \subseteq queue,
           payments' \in [Submissions -> 0 .. MaxPayments]
    PROVE  PayerTypeOK'
<1>1. job \in [Payers -> Jobs]
    BY DEF PayerTypeOK
<1>2. CASE Stop(k) \/ UNCHANGED job
    BY <1>1, <1>2 DEF Stop, Jobs, PayerTypeOK
<1>3. ASSUME NEW st \in Steps, ~ Idle(k), Continue(k, st) PROVE PayerTypeOK'
  <2> DEFINE j == [step |-> st, goal |-> job[k].goal, snap |-> job[k].snap]
  <2>1. job[k] \in [step : Steps, goal : Goals, snap : Snapshots]
      BY <1>3, JobCases
  <2>2. j \in Jobs /\ [job[k] EXCEPT !.step = st] = j
      BY <2>1 DEF Jobs
  <2>3. job' = [job EXCEPT ![k] = j]
      BY <1>1, <1>3, <2>2 DEF Continue
  <2> HIDE DEF j
  <2> QED
      BY <2>2, <2>3 DEF PayerTypeOK
<1>4. CASE ~ Idle(k) /\ Raise(k)
    BY <1>2, <1>3, <1>4 DEF Raise, Steps
<1>5. ASSUME NEW st \in Steps, NEW g \in Goals, NEW snap \in Snapshots, Set(k, st, g, snap)
      PROVE  PayerTypeOK'
  <2> DEFINE j == [step |-> st, goal |-> g, snap |-> snap]
  <2>1. j \in Jobs /\ job' = [job EXCEPT ![k] = j]
      BY <1>5 DEF Set, Jobs
  <2> HIDE DEF j
  <2> QED
      BY <2>1 DEF PayerTypeOK
<1> QED
    BY <1>2, <1>3, <1>4, <1>5 DEF JobTypeStep

\* What follows a record is a change of the job.
LEMMA PreparedJob ==
    ASSUME NEW k, NEW snap \in Snapshots, PrepareOrPay(k, snap) \/ PayOrRaise(k, snap)
    PROVE  JobTypeStep(k)
<1>1. PayOrRaise(k, snap) => Stop(k) \/ \E st \in Steps : Set(k, st, "all", snap)
    BY DEF PayOrRaise, Steps
<1>2. PrepareOrPay(k, snap) =>
        Stop(k) \/ PayOrRaise(k, snap) \/ \E st \in Steps : Set(k, st, "all", snap)
    BY DEF PrepareOrPay, Steps
<1> QED
    BY <1>1, <1>2 DEF JobTypeStep, Goals

\* Steps of a call.
LEMMA CallsType ==
    ASSUME StoreTypeOK, PayerTypeOK, NEW k \in Payers, Calls(k)
    PROVE  StoreTypeOK' /\ PayerTypeOK' /\ UNCHANGED <<stage, outcome, kind, stale>>
<1> DEFINE s == Snap(k).sub
<1>1. job[k].step # "idle" => ~ Idle(k) /\ s \in Submissions
    BY JobCases DEF Doing
<1>2. UNCHANGED storeVars => StoreTypeOK' /\ UNCHANGED <<stage, outcome, kind, stale>>
    BY DEF storeVars, StoreTypeOK
<1>3. ASSUME NEW st \in ActionStatuses, s \in Submissions, Mark(s, st)
      PROVE  StoreTypeOK' /\ UNCHANGED <<stage, outcome, kind, stale>>
    BY <1>3, MarkRow
<1>4. ~ Idle(k) /\ s \in Submissions
    BY <1>1 DEF Calls, CallReturn, StoreReturn, Reread, CallPrepare, StorePrepared, Recheck,
       StoreGuard, CallPay, StorePaid, StoreUncertain, RecordFailure, Doing
<1>5. StoreTypeOK' /\ UNCHANGED <<stage, outcome, kind, stale>>
    BY <1>2, <1>3, <1>4 DEF Calls, CallReturn, StoreReturn, Reread, CallPrepare,
       StorePrepared, Recheck, StoreGuard, CallPay, StorePaid, StoreUncertain,
       RecordFailure, ActionStatuses
<1>6. UNCHANGED <<automation, queue>>
    BY DEF Calls, CallReturn, StoreReturn, Reread, CallPrepare, StorePrepared, Recheck,
       StoreGuard, CallPay, StorePaid, StoreUncertain, RecordFailure
<1>7. payments' \in [Submissions -> 0 .. MaxPayments]
  <2>1. CASE CallPay(k)
      BY <1>4, <2>1, PayersAssumption DEF CallPay, PayerTypeOK
  <2>2. CASE ~ CallPay(k)
      BY <2>2 DEF PayerTypeOK, Calls, CallReturn, StoreReturn, Reread, CallPrepare,
         StorePrepared, Recheck, StoreGuard, StorePaid, StoreUncertain, RecordFailure
  <2> QED
      BY <2>1, <2>2
<1>8. JobTypeStep(k)
  <2>1. Fresh(k) \in Snapshots
      BY <1>4, SnapshotType DEF Fresh, Snap
  <2>2. CASE Reread(k) \/ Recheck(k)
      BY <2>1, <2>2, PreparedJob DEF Reread, Recheck
  <2>3. CASE CallReturn(k) \/ CallPrepare(k)
      BY <1>4, <2>3 DEF CallReturn, CallPrepare, JobTypeStep, Steps
  <2>4. CASE StoreReturn(k) \/ StorePrepared(k)
      BY <1>4, <2>4 DEF StoreReturn, StorePrepared, JobTypeStep, Steps
  <2>5. CASE StoreGuard(k) \/ StoreUncertain(k) \/ CallPay(k)
      BY <1>4, <2>5 DEF StoreGuard, StoreUncertain, CallPay, JobTypeStep, Steps
  <2>6. CASE StorePaid(k) \/ RecordFailure(k)
      BY <2>6 DEF StorePaid, RecordFailure, JobTypeStep
  <2> QED
      BY <2>2, <2>3, <2>4, <2>5, <2>6 DEF Calls
<1> QED
    BY <1>5, <1>6, <1>7, <1>8, JobType

\* Requests.
LEMMA AsksType ==
    ASSUME StoreTypeOK, PayerTypeOK, NEW k \in Payers, NEW s \in Submissions, Asks(k, s)
    PROVE  StoreTypeOK' /\ PayerTypeOK' /\ UNCHANGED <<stage, outcome, kind, stale>>
<1>1. Snapshot(s) \in Snapshots
    BY SnapshotType
<1>2. CASE ResolveManually(k, s)
  <2>1. StoreTypeOK' /\ UNCHANGED <<stage, outcome, kind, stale>>
      BY <1>2, MarkRow DEF ResolveManually, ActionStatuses
  <2> QED
      BY <1>2, <2>1 DEF ResolveManually, payerVars, PayerTypeOK
<1>3. CASE AskReturn(k, s) \/ AskBonus(k, s) \/ AskPayment(k, s)
  <2>1. UNCHANGED <<automation, queue, payments, storeVars>>
      BY <1>3 DEF AskReturn, AskBonus, AskPayment
  <2>2. JobTypeStep(k)
      BY <1>1, <1>3 DEF AskReturn, AskBonus, AskPayment, JobTypeStep, Steps, Goals
  <2>3. StoreTypeOK' /\ UNCHANGED <<stage, outcome, kind, stale>>
      BY <2>1 DEF storeVars, StoreTypeOK
  <2>4. payments' \in [Submissions -> 0 .. MaxPayments]
      BY <2>1 DEF PayerTypeOK
  <2> QED
      BY <2>1, <2>2, <2>3, <2>4, JobType
<1> QED
    BY <1>2, <1>3 DEF Asks

\* The automation.
LEMMA WorkerType ==
    ASSUME StoreTypeOK, PayerTypeOK, ListDue \/ ProcessAll
    PROVE  StoreTypeOK' /\ PayerTypeOK' /\ UNCHANGED <<stage, outcome, kind, stale>>
<1>1. StoreTypeOK' /\ UNCHANGED <<stage, outcome, kind, stale>>
    BY DEF ListDue, ProcessAll, storeVars, StoreTypeOK
<1>2. CASE ListDue
  <2>1. queue' \subseteq Snapshots
      BY <1>2, SnapshotType DEF ListDue, Due
  <2> QED
      BY <1>1, <1>2, <2>1 DEF ListDue, PayerTypeOK
<1>3. CASE ProcessAll
  <2>1. PICK snap \in queue :
          /\ queue' = queue \ {snap}
          /\ CASE ~ Actionable(snap) -> UNCHANGED job
               [] ~ snap.row.returned -> Set(Worker, "return", "all", snap)
               [] OTHER -> PrepareOrPay(Worker, snap)
      BY <1>3 DEF ProcessAll
  <2>2. snap \in Snapshots /\ Worker \in Payers
      BY DEF PayerTypeOK, Payers
  <2>3. \/ UNCHANGED job \/ Set(Worker, "return", "all", snap)
        \/ PrepareOrPay(Worker, snap)
      BY <2>1
  <2>4. JobTypeStep(Worker)
      BY <2>2, <2>3, PreparedJob DEF JobTypeStep, Steps, Goals
  <2>5. UNCHANGED <<automation, payments>> /\ queue' \subseteq queue
        /\ payments' \in [Submissions -> 0 .. MaxPayments]
      BY <1>3, <2>1 DEF ProcessAll, PayerTypeOK
  <2> QED
      BY <1>1, <2>2, <2>4, <2>5, JobType
<1> QED
    BY <1>2, <1>3

\* The automatic return.
LEMMA ReturnType ==
    ASSUME StoreTypeOK, PayerTypeOK, NEW s \in Submissions, AutoReturn(s)
    PROVE  StoreTypeOK' /\ PayerTypeOK' /\ UNCHANGED storeVars
<1>1. Snapshot(s) \in Snapshots /\ Returner \in Payers
    BY SnapshotType DEF Payers
<1>2. UNCHANGED <<automation, queue, payments, storeVars>>
    BY DEF AutoReturn
<1>3. \/ UNCHANGED job
      \/ Set(Returner, "failing", "return", Snapshot(s))
      \/ Set(Returner, "return", "return", Snapshot(s))
    BY DEF AutoReturn
<1>4. JobTypeStep(Returner)
    BY <1>1, <1>3 DEF JobTypeStep, Steps, Goals
<1>5. payments' \in [Submissions -> 0 .. MaxPayments]
    BY <1>2 DEF PayerTypeOK
<1> QED
    BY <1>1, <1>2, <1>4, <1>5, JobType DEF storeVars, StoreTypeOK

----------------------------------------------------------------------------
(***************************************************************************)
(* Theorems                                                                *)
(***************************************************************************)

\* What holds of every step, whoever acts when.
AnyInv == WriterInv /\ PayerTypeOK

\* It holds at the start.
LEMMA AnyStart == Init => AnyInv
<1> SUFFICES ASSUME Init PROVE AnyInv
    OBVIOUS
<1>1. NoAction \in ActionRows /\ "arrived" \in Stages
    BY ParticipationAssumption DEF NoAction, ActionRows, ActionStatuses, Stages, Journey
<1>2. StoreTypeOK
    BY <1>1 DEF Init, StoreInit, StoreTypeOK, Outcomes, Kinds
<1>3. WriterTypeOK /\ ScanCurrent
    BY DEF Init, WriterInit, WriterTypeOK, Ops, ScanCurrent
<1>4. PayerTypeOK
    BY PayersAssumption DEF Init, PayerInit, PayerTypeOK, Jobs
<1> QED
    BY <1>2, <1>3, <1>4 DEF AnyInv, WriterInv

\* Every step keeps it, pays a timeout by its stage and never goes back.
LEMMA AnyStep ==
    ASSUME AnyInv, [Next]_vars
    PROVE  AnyInv' /\ PaysByStage /\ NoRegress
<1>1. UNCHANGED <<stage, outcome, stale, writerVars>> /\ WriterInv /\ StoreTypeOK'
        => WriterInv'
    BY DEF WriterInv, WriterTypeOK, ScanCurrent, Silent, writerVars
<1>2. UNCHANGED <<stage, outcome, kind>> => PaysByStage /\ NoRegress
    BY QuietStep DEF AnyInv
<1>3. CASE ParticipationNext /\ UNCHANGED payerVars
  <2>1. PayerTypeOK'
      BY <1>3 DEF payerVars, AnyInv, PayerTypeOK
  <2> QED
      BY <1>3, <2>1, WriterSafe DEF AnyInv
<1>4. CASE PayersNext /\ UNCHANGED writerVars
  <2>1. CASE ListDue \/ ProcessAll
      BY <1>1, <1>2, <1>4, <2>1, WorkerType DEF AnyInv, WriterInv
  <2>2. ASSUME NEW k \in Payers, Calls(k) PROVE AnyInv' /\ PaysByStage /\ NoRegress
      BY <1>1, <1>2, <1>4, <2>2, CallsType DEF AnyInv, WriterInv
  <2>3. ASSUME NEW k \in Clerks, NEW s \in Submissions, Asks(k, s)
        PROVE  AnyInv' /\ PaysByStage /\ NoRegress
    <3>1. k \in Payers
        BY DEF Payers
    <3> QED
        BY <1>1, <1>2, <1>4, <2>3, <3>1, AsksType DEF AnyInv, WriterInv
  <2>4. ASSUME NEW s \in Submissions, BackoffPasses(s), UNCHANGED payerVars
        PROVE  AnyInv' /\ PaysByStage /\ NoRegress
    <3>1. PayerTypeOK'
        BY <2>4 DEF payerVars, AnyInv, PayerTypeOK
    <3> QED
        BY <1>1, <1>2, <1>4, <2>4, <3>1, BackoffRow DEF AnyInv, WriterInv
  <2> QED
      BY <1>4, <2>1, <2>2, <2>3, <2>4 DEF PayersNext
<1>5. CASE ReturnClaimed
  <2>1. UNCHANGED <<op, scanned>> /\ claimed' \subseteq claimed
      BY <1>5 DEF ReturnClaimed
  <2>2. StoreTypeOK' /\ PayerTypeOK' /\ UNCHANGED storeVars
    <3>1. CASE UNCHANGED <<payerVars, storeVars>>
        BY <3>1 DEF AnyInv, WriterInv, payerVars, storeVars, PayerTypeOK, StoreTypeOK
    <3>2. ASSUME NEW s \in claimed, AutoReturn(s)
          PROVE  StoreTypeOK' /\ PayerTypeOK' /\ UNCHANGED storeVars
        BY <3>2, ReturnType DEF AnyInv, WriterInv, WriterTypeOK
    <3> QED
        BY <1>5, <3>1, <3>2 DEF ReturnClaimed
  <2>3. WriterTypeOK' /\ ScanCurrent'
      BY <2>1, <2>2 DEF AnyInv, WriterInv, WriterTypeOK, ScanCurrent, Silent, storeVars
  <2> QED
      BY <1>2, <2>2, <2>3 DEF AnyInv, WriterInv, storeVars
<1>6. CASE Restart
  <2>1. StoreTypeOK' /\ UNCHANGED storeVars
      BY <1>6 DEF Restart, storeVars, AnyInv, WriterInv, StoreTypeOK
  <2>2. WriterTypeOK' /\ ScanCurrent'
      BY <1>6 DEF Restart, WriterTypeOK, Ops, ScanCurrent
  <2>3. PayerTypeOK'
      BY <1>6 DEF Restart, AnyInv, PayerTypeOK, Jobs
  <2> QED
      BY <1>2, <2>1, <2>2, <2>3 DEF AnyInv, WriterInv, storeVars
<1>7. CASE UNCHANGED vars
  <2>1. UNCHANGED <<storeVars, writerVars, payerVars>>
      BY <1>7 DEF vars
  <2> QED
      BY <1>2, <2>1 DEF AnyInv, WriterInv, StoreTypeOK, WriterTypeOK, PayerTypeOK,
         ScanCurrent, Silent, storeVars, writerVars, payerVars
<1> QED
    BY <1>3, <1>4, <1>5, <1>6, <1>7 DEF Next

\* Every reachable state has the types and a truthful sweep list.
THEOREM AnyInvariance == Spec => []AnyInv
<1>1. Init => AnyInv
    BY AnyStart
<1>2. AnyInv /\ [Next]_vars => AnyInv'
    BY AnyStep
<1> QED
    BY <1>1, <1>2, PTL DEF Spec

\* Every variable keeps its type, whoever acts when.
THEOREM TypeCorrect == Spec => []TypeOK
<1>1. AnyInv => TypeOK
    BY DEF AnyInv, WriterInv, TypeOK
<1> QED
    BY <1>1, AnyInvariance, PTL

\* A timeout pays by the stage the participant had reached when it ended.
THEOREM TimeoutByStage == Spec => TimeoutPaysByStage
<1>1. AnyInv /\ [Next]_vars => [PaysByStage]_vars
    BY AnyStep
<1>2. Spec => [][PaysByStage]_vars
    BY <1>1, AnyInvariance, PTL DEF Spec
<1> QED
    BY <1>2, PTL DEF TimeoutPaysByStage, PaysByStage

\* The stored stage of an open submission never goes back.
THEOREM StagesAdvance == Spec => StageNeverRegresses
<1>1. AnyInv /\ [Next]_vars => [NoRegress]_vars
    BY AnyStep
<1>2. Spec => [][NoRegress]_vars
    BY <1>1, AnyInvariance, PTL DEF Spec
<1> QED
    BY <1>2, PTL DEF StageNeverRegresses, NoRegress

\* Every step keeps the payers' part, if one researcher at a time acts and
\* only while the automation is off.
LEMMA PayerStep ==
    ASSUME ManualOnly, SoleClerk, AnyInv, PayerInv, [Next]_vars
    PROVE  PayerInv'
<1>1. CASE ParticipationNext /\ UNCHANGED payerVars
    BY <1>1, WriterSafe, RestingPayers DEF AnyInv
<1>2. CASE PayersNext /\ UNCHANGED writerVars
  <2>1. CASE ListDue
      BY <2>1, ListDueSafe DEF AnyInv, WriterInv
  <2>2. CASE ProcessAll
      BY <2>2, ProcessAllSafe DEF AnyInv, WriterInv
  <2>3. ASSUME NEW k \in Payers, Calls(k) PROVE PayerInv'
      BY <2>3, CallsSafe DEF AnyInv, WriterInv
  <2>4. ASSUME ~ automation, NEW k \in Clerks, NEW s \in Submissions, Asks(k, s)
        PROVE  PayerInv'
      BY <2>4, AsksSafe DEF AnyInv, WriterInv
  <2>5. ASSUME NEW s \in Submissions, BackoffPasses(s), UNCHANGED payerVars
        PROVE  PayerInv'
      BY <2>5, BackoffRow, RestingPayers DEF AnyInv, WriterInv
  <2> QED
      BY <1>2, <2>1, <2>2, <2>3, <2>4, <2>5 DEF PayersNext
<1>3. CASE ReturnClaimed
  <2>1. CASE UNCHANGED <<payerVars, storeVars>>
      BY <2>1, RestingPayers DEF storeVars, RowsSettle
  <2>2. ASSUME NEW s \in claimed, AutoReturn(s) PROVE PayerInv'
      BY <2>2, AutoReturnSafe DEF AnyInv, WriterInv, WriterTypeOK
  <2> QED
      BY <1>3, <2>1, <2>2 DEF ReturnClaimed
<1>4. CASE Restart
  <2>1. /\ automation' \in BOOLEAN /\ queue' = {} /\ UNCHANGED <<action, payments>>
        /\ job' = [k \in Payers |-> NoJob]
      BY <1>4 DEF Restart, storeVars
  <2>2. \A k \in Payers : job'[k] = NoJob /\ Idle(k)' /\ ~ Preparing(k)'
                          /\ job'[k].step = "idle"
      BY <2>1 DEF Idle, Preparing, NoJob
  <2>3. PayerTypeOK'
      BY <2>1 DEF PayerInv, PayerTypeOK, Jobs
  <2>4. OneSettler' /\ ReturnerOnlyReturns' /\ QueueCurrent'
      BY <2>1, <2>2 DEF OneSettler, ReturnerOnlyReturns, QueueCurrent, Payers
  <2>5. PreparedOnce' /\ FirstPayment'
      BY <2>2 DEF PreparedOnce, FirstPayment, Doing
  <2>6. PaidBehindGuard' /\ PaidAtMostOnce'
      BY <2>1 DEF PayerInv, PaidBehindGuard, PaidAtMostOnce
  <2> QED
      BY <2>3, <2>4, <2>5, <2>6 DEF PayerInv
<1>5. CASE UNCHANGED vars
    BY <1>5, RestingPayers DEF vars, storeVars, RowsSettle
<1> QED
    BY <1>1, <1>2, <1>3, <1>4, <1>5 DEF Next

\* The inductive invariant holds in every reachable state.
THEOREM Invariance == ASSUME ManualOnly, SoleClerk PROVE Spec => []IInv
<1>1. Init => PayerInv
  <2> SUFFICES ASSUME Init PROVE PayerInv
      OBVIOUS
  <2>1. PayerTypeOK
      BY AnyStart DEF AnyInv
  <2>2. \A k \in Payers : Idle(k) /\ ~ Preparing(k) /\ job[k].step = "idle"
      BY DEF Init, PayerInit, Idle, Preparing, NoJob
  <2>3. OneSettler /\ ReturnerOnlyReturns /\ QueueCurrent
      BY <2>2 DEF Init, PayerInit, OneSettler, ReturnerOnlyReturns, QueueCurrent, Payers
  <2>4. PreparedOnce /\ FirstPayment
      BY <2>2 DEF PreparedOnce, FirstPayment, Doing
  <2>5. PaidBehindGuard /\ PaidAtMostOnce
      BY DEF Init, PayerInit, PaidBehindGuard, PaidAtMostOnce
  <2> QED
      BY <2>1, <2>3, <2>4, <2>5 DEF PayerInv
<1>2. AnyInv /\ PayerInv /\ [Next]_vars => PayerInv'
    BY PayerStep
<1>3. AnyInv /\ PayerInv => IInv
    BY DEF AnyInv, WriterInv, PayerInv, IInv, TypeOK
<1> QED
    BY <1>1, <1>2, <1>3, AnyInvariance, PTL DEF Spec

\* Money moves at most once for a submission, whatever calls fail, answers are
\* lost and restarts happen.
THEOREM PaidOnce == ASSUME ManualOnly, SoleClerk PROVE Spec => []PaidAtMostOnce
<1>1. IInv => PaidAtMostOnce
    BY DEF IInv
<1> QED
    BY <1>1, Invariance, PTL

\* A row whose payment may have reached Prolific is never payable again.
THEOREM SettledStays == ASSUME ManualOnly, SoleClerk PROVE Spec => []SettledNotPayable
<1>1. IInv => SettledNotPayable
    BY DEF IInv, PaidBehindGuard, SettledNotPayable
<1> QED
    BY <1>1, Invariance, PTL
=============================================================================
