# GDM Platform: TLA+ specifications

The GDM platform runs online experiments on group decision making. Participants
(many of them recruited through Prolific, a paid panel) wait in a lobby until a
group is complete, discuss a ranking task in a Matrix chat room watched by a
nudging bot (or write a text together in an Etherpad), fill in an exit survey and
are paid. This directory holds the specification of the platform: what it must
guarantee while participants join, leave, fall silent and reload, while deadlines
pass, services restart, messages are late or lost and the researcher operates
the study.

All paths are relative to the repository; `SM` stands for
`src/backend/session-manager/src`, `CS` for `src/backend/chat-service/src`, `FP`
for `src/frontend/participant/src`.

## 1. Inventory

| Component | Source | State | Operations | Hard behaviour |
| --- | --- | --- | --- | --- |
| Session table | `SM/store/store.service.ts`, `SM/store/forming-session.ts` | session rows (status, condition snapshot, round, deadline, room), participant rows, credentials, rounds, conditions | one method per statement or transaction | everything between two statements can interleave |
| Matchmaking and lifecycle | `SM/sessions/sessions.service.ts` | `matchmakingChain` (a promise chain), `runtimeWriteChains`, the lifecycle timer | `openSession`, `terminateParticipation`, `startRound`, `runLifecycleSweep`, `completeSession`, `finalizeSession` | duplicate tabs, decisions on a status read earlier, sweeps outside the chain |
| Room provisioning | `SM/sessions/room-provisioning.ts`, `SM/matrix/matrix.service.ts` | `provisionChains`, `participantAccessChains`; the homeserver's rooms | `ensureParticipantAccess`, `ensureProvisioned`, `provision` | retries, lost answers, a race with the deadline and with departures |
| Participation outcomes | `SM/store/participation.store.ts`, `SM/sessions/compensation.ts` | per Prolific submission: stage, heartbeat, terminal outcome, compensation | `recordParticipationStage`, `terminateProlificParticipation`, `terminateStaleProlificParticipation`, `completeProlificParticipation` | "exactly one terminal outcome" under concurrent writers |
| Prolific actions | `SM/prolific/prolific-actions.service.ts` | action status, return/bonus/payment markers, attempts | `processDue`, `payBonusById`, `resolveManuallyById`, ... | a payment endpoint that is not idempotent, lost answers, two operators |
| Runtime checkpoints | `SM/store/checkpoint-merge.ts`, `SM/store/runtime-checkpoint.ts` | stored discussion of a session, `checkpointRevision` | `saveRuntimeCheckpoint` | late, duplicated, reordered checkpoints |
| Chat runtime | `CS/sessions/sessions.service.ts`, `CS/sessions/session-runtime.ts` | live sessions, buffered events, timers | start, event, tick, end, recover | events during start/finalize, crash and recovery |
| Bot rules | `CS/rules/bot-rules.ts` | contribution windows, nudge history | window evaluation, nudge choice | window boundaries, cooldowns |
| Etherpad workspace | `SM/etherpad/*`, `src/infra/etherpad` | control record, admissions, pad records and their index; the editor's policies and pending revisions; the supervisor's child process | prepare, attach, pad, finish, leave, reconcile; create, close, write; start, stop | a text lives in the editor until it is captured; deadlines, lost answers, crashes of the editor and of the service |
| Submission verification | `SM/sessions/prolific-verification.ts` | a 60 s cache | `verify` | a cached verification is used by requests that must not accept it |
| Participant's browser | `FP/App.tsx`, `FP/study/*`, `FP/components/*` | the page, React state, `sessionStorage` of the tab | enter, resume, wait, poll, heartbeat, surveys, withdraw | refreshes and closed tabs between two requests, lost answers, two tabs, an end decided elsewhere |
| Shared ranking | `FP/components/SharedRanking.tsx`, `FP/study/ranking.ts`, `FP/study/matrixClient.ts` | the order a browser shows, its pending sends; the room's ranking events | move, drop, send, roll back, receive, seed after a refresh | everybody edits at once, own edits are applied before they are ordered, refused and unanswered requests |
| Reports, exports, row mappers, validation, guards | `SM/reports`, `SM/sessions/session-exports.ts`, `SM/validation`, `SM/auth` | none of their own | formatting, checking | none that needs a model checker |
| Dashboard, shared package, infrastructure, tests | `src/frontend/admin-dashboard`, `src/packages/shared`, `src/infra`, `src/e2e`, `src/loadtest` | none the backend relies on | display, configuration, simulated load | none that needs a model checker |

**How they interact.** A browser opens a session over HTTP. `SessionsService`
takes a seat inside `matchmakingChain`, stores Matrix credentials outside it and
lets `RoomProvisioner` work in the background as soon as the group is full. The
provisioner builds the room, makes the Chat Service accept the session over HTTP
and only then publishes it as running. The Chat Service records the discussion,
sends checkpoints, and reports the end (`finalizeSession`). Meanwhile the
lifecycle timer (every five seconds) aborts groups whose waiting deadline has
passed and terminalizes Prolific participants whose browser fell silent, and a
participant may withdraw. All of these share the database only; nothing but the
promise chain and a few conditional updates keeps them apart.

**What makes it correct.** Nobody holds two seats; a group is never overfilled;
recruiting stops at the goal; a group never mixes study rounds; an ended session
stays ended; every queued request is answered; an overdue group does not linger;
a silent participant is given an outcome;
money moves at most once for a submission, and by the stage it had reached; the
record of a discussion has no holes and no inventions, whichever process
crashed, and a managed discussion ends; a written text is captured as the editor
accepted it; the group ends up looking at one ranking unless its edits overlapped;
the last page is only shown to participants whose completion is
stored, and an open page learns that its participation ended.

## 2. Plan

1. *(done)* `SessionStore`, `Matchmaking`, `Provisioning`, `SessionManager`,
   the abstract `GroupFormation`, `SessionManager_proofs` and `SessionRounds_proofs`.
2. *(done)* `ParticipationStore`, `Participation`, `ProlificActions` and their
   composition `ProlificOutcomes`: how a submission ends and is settled.
3. *(done)* `CheckpointMerge`, `SessionRuntime`, `ChatService` and their
   composition with the Session Manager, `Discussion`: the record of a discussion
   under reordered, repeated and lost checkpoints, crashes and recoveries; the
   abstract `ResearchRecord`; `Discussion_proofs` and `DiscussionLives_proofs`.
4. *(done)* `WritingWorkspace` and `WritingWorkspace_proofs`: the Etherpad mode.
5. *(done)* `StudyVisit` and `StudyVisit_proofs`: the browser application with
   the verification of submissions.
6. *(done)* `SharedRanking` and `SharedRanking_proofs`: the list a group edits
   together.
7. *(left)* rooms and memberships as a module refining the single step
   `StartChat`.

## 3. Modules

### SessionStore
The database of the Session Manager as far as the lifecycle needs it. A session
is a number handed out in creation order (so `findForming`'s "oldest" is the
smallest); its row keeps `status`, `condOf` (the condition snapshot), `roundOf`,
`members`, `creds` and `overdue` (whether `waitingDeadlineAt` has passed). Each
operator is one statement or transaction of `StoreService`: `Forming`,
`Claimed`, `SeatsOf` are the queries; `CreateForming`, `AddParticipant`,
`RemoveParticipant`, `SetCreds`, `SetStatus` the updates. `ended` and `silent`
stand for the participation table: which submissions have a terminal outcome,
and whose heartbeat is older than the reconnect grace.

`claimedCount` counts provisioning and completed sessions as well: `Claimed`
takes every status but "aborted". `findByProlificSession` finds the seat of a
submission in a session of any status, `findByTrackingToken` skips aborted ones:
`SeatsOf`.

### Matchmaking
`SessionsService` as a set of actors with program counters: open-session
requests (several per participant: tabs and retries), withdrawing participants,
the lifecycle timer, the researcher. `owner` is `matchmakingChain`. One action is
the code between two awaits that touch shared state:

| Code | Actions |
| --- | --- |
| `openSession` | `OpenSession` (outcome check and heartbeat), `ReserveSeat` (enter the chain, select expired groups), the sweep, `ReturnSeat` / `ChooseSeat` / `AddSeat`, `GrantAccess` |
| `abortLobbies`, `terminateSessionParticipants` | `AbortRow` (conditional update of one selected row), `ReadRoster`, `TerminateMember`, `SweepDone` |
| `terminateParticipation` | `Withdraw` (seat and status read, outcome written), then `leaveSession` |
| `leaveSession` | `LeaveStarted`, `LeaveLobby` + `RemoveSeat`, `LeaveProvisioning` |
| `runLifecycleSweep` | `TimerTick`, the sweep **outside** the chain, `ListStale`, `ClaimVictim`, `leaveSession`, `StaleDone` |
| `startRound` | `StartRound`, the sweep, `StartNewRound` |
| browsers, clock, researcher | `DeadlinePasses`, `FallSilent`, `Heartbeat`, `ToggleCondition` |

What an actor has read and will use later is explicit: `seen` (a seat and the
status of its session at that read), `rows`, `todo`, `roster`, `victims`.
`RemoveSeat` is separate from the status check in `LeaveLobby`: the transaction
of `removeParticipantFromWaitingSession` runs at the database's default
isolation, so another statement can commit between its read and its delete.

### Provisioning
Per session, the stage of the one running attempt (`provisionChains` makes it
single-flight): `ReadFullGroup`, `ClaimGroup`, `StartChat`, `Publish`, and
`FailProvisioning` from any stage (homeserver, Chat Service or database error,
and a lost answer of the Chat Service, which then manages the session all the
same: `chat`). `FinalizeRead`/`CompleteRead` and `CompleteWrite` are the two
statements of `finalizeSession` and `completeSession`.

### SessionManager
Composes the two and adds `Restart`: the process loses its promises (the chain,
all requests in flight, attempts) and keeps the database. It also states the
properties, the inductive invariant, the refinement mapping and the fairness.

### GroupFormation
The promise, with every operation in one step: groups form, people sit in a
group with room if they have no other claim, stand up, groups end and stay
ended. `SessionManager` implements it (`SeatsAreAtomic`).

### MCSessionManager, SessionManager_proofs, SessionRounds_proofs
Constant values for TLC; theorems and proofs.

### ParticipationStore
The Prolific half of the database: per submission `stage`, `outcome` ("open"
while there is none), `kind` (what the ending entitles to), `stale` (the last
heartbeat is behind the sweep's cutoff) and `action`, the compensation row with
the columns decisions use: whether the return was requested, a batch prepared,
the payment submitted, how often it was attempted and whether the next attempt
is due. Each operator is one statement or transaction of `ParticipationStore`.

### Participation
Who ends a submission. `op[w]` is the write a writer is about to make after its
read: `CheckOutcome` and `WriteOutcome` are the find and the update in the
transaction of `terminateProlificParticipation` (read committed: another write
can commit between them), `ReadCompletion` and `WriteCompletion` the two halves
of a completion. `Chain` is the operation inside `matchmakingChain` (withdrawal,
group abort, disconnect sweep, one at a time), `Expiry` the timer's sweep of
expired lobbies outside it, `Tabs` the completion requests. The disconnect sweep
reads all silent submissions with their stages (`ScanStale`, kept in `scanned`)
and claims them one by one (`ClaimStale`, a conditional update). Which group is
aborted is the business of the session modules: here any submission that
reached the waiting room may be a member of one.

### ProlificActions
`ProlificActionsService`, call by call: `CallReturn`, `CallPrepare` and `CallPay`
are requests to Prolific, `Store...` the write of the result, `Reread` and
`Recheck` the reads between them, `job[k].snap` the record the actor still
carries. `Worker` is the automation (`queue`: what `dueProlificActions`
returned), `Returner` the automatic return after the disconnect sweep, `Clerks`
requests of researchers. `payments` is Prolific's side: how often it paid. A
call may fail, or succeed with its answer lost; the writes of the guard, of the
uncertain mark and of the paid mark may fail (a failed write of another result
leaves the same state as a failed call).

### ProlificOutcomes, ProlificOutcomes_proofs, MCProlificOutcomes
Compose the two, add the hand-over of claimed submissions (`ReturnClaimed`) and
`Restart`, which loses everything in flight and may come back with the
automation switched, and state the properties; theorems and proofs; constant
values for TLC.

### CheckpointMerge, SessionRuntime, ChatService, Discussion, MCDiscussion
The record of one discussion. A snapshot is a record with the fields a
checkpoint carries (`checkpoint-merge.ts`, `runtime-checkpoint.ts`): `Merged` is
what the Session Manager stores when one arrives (messages, events and marks
united; verdicts, ranking and rule state only from a revision that is not older,
`Accepts`). `SessionRuntime` is the bookkeeping of `session-runtime.ts` and the
evaluation of a window (`SomeoneDominates`, `InsideInterventionWindow`).

`ChatService` is `SessionsService` of the Chat Service for one room, one action
per stretch of code between two awaits:

| Code | Actions |
| --- | --- |
| `onModuleInit`, `recoverSessions` | `Boot`, `Recover`, `RecoverFails` |
| `startSession` | `StartSession`, `Join`, `ReadHistory`, `Install` (replays the history and the buffered events), `StartFails` |
| `handleEvent`, classification | `Deliver` (buffer, record or drop), `Classified` |
| window timers | `WindowElapsed` (claim a boundary), `EvaluateQuiet`, `Post`, `LogNudge`, `EvaluationFails` |
| checkpoints | `ScheduleCheckpoint`, `FlushCheckpoint`, `SaveOver`, `CallFails` |
| `endSession` | `EndSession`, `Finalize`, `FinalizeOver` |
| `onModuleDestroy`, crash | `Stop`, `StopFlush`, `Exit` |

`Discussion` adds the room and its participants, the publication, the
per-session chain of writes (`Store`, `Complete`) and a network in which a
request whose answer was given up may arrive at any later time or never
(`calls`, `Abandoned`). Windows are the unit of time (`clock`, `Duration`);
what happens within one may happen in any order.

### ResearchRecord
The promise: the record grows, holds only what was said, and a closed session
stays as it ended. `Discussion` implements it (`RecordKept`).

### WritingWorkspace, MCWritingWorkspace
The Etherpad mode of one group. The operations of `EtherpadService` run one at a
time on its promise chain, so each is one action; the browser, the editor
(`policy.cjs`), the supervisor (`supervisor.cjs`), the clock and the session run
between them.

| Code | Actions |
| --- | --- |
| `setEnabled`, `prepare`, `attach`, `modeFor` | `SetEnabled`, `Prepare`, `Attach`, `Rejoin`, `TakeSeat` |
| `pad` | `OpenPad`; `OpenPadCrashes` between the record and its index entry |
| `finish`, `capture`, `/gdm/close` | `Finish`, `FinishFails` (closed, but the answer or the write is lost), `Closed`, `Settled`, `Snapshot` |
| `reconcile` | `Reconcile`: `Swept` pads, then `StartEditor`, `StopEditor` or `KeepEditor`; `ReconcileFails` |
| supervisor | `Booted`, `ChildExits`, `ChildCrashes` |
| editor and browser | `Type`, `Accept`, `Persist`, `Forget` |
| admissions and session | `Leave`, `Expire`, `Publish`, `AbortGroup`, `CompleteGroup`, `CompleteStudy`, `DeadlinePasses` |

A pad holds one edit (`ink`: typed, accepted but not yet persisted, saved) and
its record the text that was captured. The state "error" of a pad record is the
same as "open" to every operation; a participant gets at most one stray record.
An admission of somebody with a seat only expires once the discussion is over,
as `ADMISSION_AFTER_DISCUSSION_MS` has it. Failing calls, crashes and coming back
with an expired admission share the budget `MaxTrouble`.

### StudyVisit, MCStudyVisit
One participant's way through the browser application, in several tabs that act
for the same submission or the same individual link (a generic link makes every
tab a participant of its own), and what the Session Manager stores of them.
`page`, `entry` and `shown` are React state and die with the page; `progress` is
`sessionStorage` and dies with the tab. A request and its answer are one step
unless the answer is lost (`JoinUnanswered`, `FinishUnanswered`), and what a page
does next is a step of its own, so a refresh may fall between any two requests.

| Code | Actions |
| --- | --- |
| boot, `enterStudy`, `restoreProlificSeat`, `restoreFromProgress` | `Open`, `Reload`, `Close`, `Enter`, `Arrive`, `Resume`, `StartFails` |
| survey, `WaitingRoom` | `CompleteSurvey`, `Join`, `PostEntry`, `Poll`, `WaitFails`, `Retry` |
| chat, `ExitSurvey`, `completeParticipant` | `TimeUp`, `SubmitExit`, `Finish`, `FinishUnanswered` |
| heartbeat, `endParticipation` | `Heartbeat`, `Withdraw` |
| `prolific-verification.ts` | `Verify`, `Valid`, `CacheExpires`, `ReturnSubmission` |
| lobby, discussion, sweeps | `GroupMoves`, `EndMember`, `LoopFails`, `TimeOut` |

An abort and the outcomes of its members are separate steps. `owed` says that the
loop of `terminateSessionParticipants` still has this participant to end: it is set
by the abort and cleared by `EndMember` or by `LoopFails` (an earlier member or
lobby throws, or the process stops; nobody repeats the loop). `TakeSeat` may seat
the participant in a lobby the timer has just aborted, before or after the loop
read the roster, so with `owed` set or not.

A removed participant's page goes on polling a session that may get its room
without it, and a direct participant who takes a new seat in one tab leaves the
other one polling the aborted session ("orphan"); both are in the model. The
deployment has an API token, so submissions are verified; "forming" stands for
waiting and provisioning, which the session modules tell apart.

### SharedRanking, MCSharedRanking
What each browser of a group shows of the ranking while all of them edit it.
`room` is the sequence of ranking events in the homeserver's order, which is also
the order the Chat Service records (`Discussion` starts from there); `seen[m]` is
how far a browser has come in it. An edit is in `waiting` while its promise is
pending and in `travelling` while its request may reach the room.

| Code | Actions |
| --- | --- |
| `move`, `onDrop`, `insertBeforeAnchor`, `broadcast` | `Edit` (`Moved`, `Swapped`, `InsertBeforeAnchor`) |
| the promise of `sendEvent` | `Sent`, `Reject` (`RolledBack`) |
| `onTimeline` | `Sync` (`Received`) |
| `startMatrixClient`, seed of the effect | `Reload` |
| `onTimeUp`, withdrawal | `Leave` |
| homeserver | `Arrive`, `Lose` |

Three things are assumed of the Matrix client, which is external: it shows an own
edit as a local echo at once and does not announce it again when the homeserver
has ordered it (unless the page was refreshed in between); custom events of a page
do not wait for each other; a request whose promise was rejected may have been
accepted, or may still be. `gaveUp`, `alone` and `agreed` are history variables
that only the properties read.

### Discussion_proofs, DiscussionLives_proofs, WritingWorkspace_proofs, StudyVisit_proofs, SharedRanking_proofs
Theorems and proofs, section 5.

## 4. Runs

| Run | Instance | Shows |
| --- | --- | --- |
| `Seats_join` | two tabs of a Prolific participant and one direct participant; 2 sessions, 2 rounds, the first session's deadline may pass | `TypeOK`, `OneSeat`, `SeatsInOpenRound`, `RoundStartsClean` |
| `Seats_refine` | one Prolific participant who may withdraw and two direct ones, one arm with a goal of one, 2 sessions, the process may restart at any point | `GroupWithinSize`, `LiveWithinGoal`, `SeatsAreAtomic` |
| `Seats_live` | two Prolific participants, one may fall silent; one session, the arm may be switched | `ChainServesEveryone`, `OverdueGroupsClose`, `SilenceEnds` under `FairSpec` |
| `Outcomes_settle` | one submission, a completing tab, one researcher, the automation, automatic returns, restarts | `TypeOK`, `PaidAtMostOnce`, `SettledNotPayable`, `TimeoutPaysByStage`, `StageNeverRegresses` |
| `Record_replay` | two ranking edits in one window, two troubles (crashes, restarts, failing, lost or late calls) | `TypeOK`, `ProcessedRecorded`, `NoHole`, `FinalRanking`, `RecordKept` |
| `Record_bot` | one message, two windows, nudges, one trouble | `NothingForgotten`, `LetGoSaved`, `OnePerBoundary`, `LoggedNudgesPosted`, `ManagedEnds` under `FairSpec` |
| `Workspace` | one writing participant with an entry, a group and an exit pad, edits in two of them, one trouble | `TypeOK`, `RecordMatchesPad`, `StopSparesText`, `EntryFirst`, `EveryPadCaptured`, `Drains`, `LockEnds` under `FairSpec` |
| `Visit` | a direct or Prolific participant with two tabs, two troubles | `TypeOK`, `EntryKept`, `DoneIsCompleted`, `EndedIsShown`, `LobbyIsResolved` under `FairSpec` |
| `Ranking_edits` | two members, three items, three edits, one rejected request or refresh | `TypeOK`, `LastWriteWins`, `TurnsAgree` |
| `Abort_running` | two requests, one withdrawal | see section 6 |
| `Pay_twice` | one submission with two researchers | see section 6 |
| `Ranking_stale` | two ranking edits, one trouble | see section 6 |

**What they show.** The inductive invariants of section 5 were checked on these
instances before they were proved; no run repeats them. `PaidAtMostOnce` holds although a restart may fall between the
payment and its mark, an answer may be lost and the automatic return or a late
failure may overwrite the status: only the status `bonus_prepared` is payable, and
after the guard was stored nothing writes that status again, because a batch is
prepared at most once. It needs two conditions the code does not enforce itself: one
researcher at a time, and researchers who act only while the automation is off
(`ManualOnly`, the "recommended manual process while
`PROLIFIC_PAYMENT_AUTOMATION=false`" of `docs/prolific-integration.md:589`).
`TimeoutPaysByStage` holds although the compensation is decided from the listed
stage, because the claim repeats the cutoff.

`SeatsAreAtomic` speaks of seats and statuses: that a member of an aborted group has
no outcome is no violation of it (section 6). In `Seats_live` a provisioning attempt may
fail at any point, which leaves the row a crash leaves; the crash itself is in
`Seats_refine`, without liveness.

`NoHole` holds although events arrive before the start, during a recovery and
again after it: the room's history and the buffer are replayed against the marks
of the restored snapshot, and a snapshot never marks what it does not hold
(`ProcessedRecorded`). It excepts the events that arrive while a finalize is under
way, which the code drops. `OnePerBoundary` holds over several lives because the
first window of a new life begins after its start; `FinalRanking` is restricted to
one life because across lives it is false (`Ranking_stale`).

`RecordMatchesPad` says that a pad can be closed and captured again after any
lost answer with the same text, because the editor first refuses further writes
and then waits for those it accepted. `StopSparesText` holds although the
reconciliation decides from records it read before its request to the editor,
because everything that could open a pad waits on the same chain. `Drains` is the
"drain" of `docs/etherpad.md`: no stray record, aborted group or expired admission
keeps the editor alive for ever.

`DoneIsCompleted` covers the retry of a completion whose answer was lost and the
process that stops between `completedAt` and the outcome. `EntryKept` and
`EndedIsShown` each have one exception, which is a divergence described in
section 6: the refresh that loses the survey, and the submission that is no longer
active. `LobbyIsResolved` covers the window in which a lobby is aborted and its
members have no outcome yet: a page leaves it if its participant needs no outcome
(a direct one), has one, or is still owed one by a loop that does not fail. Without
this condition (`Answerable`) it is false, with no trouble at all: a member who is
seated after the roster was read polls for ever (section 6).

`LastWriteWins` is as much of the component's "last-write-wins" as holds however
edits overlap: a page whose sends went well shows the last order of the room,
unless that order was its own. `TurnsAgree` says when nothing is to be excepted:
if the last edit was made when nothing was under way, everybody agrees in the end.
It covers the rollback, which must restore what the group still shows, and it
makes a disagreement end with the next edit that overlaps no other.

**Bounds.** Session runs use groups of two, the smallest size
`normalizeCondition` admits: with two seats a group is empty, joinable or full,
which is all the code tells apart. `MaxSessions` limits rows ever created (two are
needed for somebody to hold two seats or for the goal to be exceeded), `MaxRounds`
rounds ever opened, `Requests` the requests in flight, `Expiring` which sessions'
deadline may pass. When rows run out, a joiner is refused as if no arm recruited,
so no request gets stuck. Rows of different submissions share nothing, so one
submission shows every interleaving of its writers; the milestones "entry" and
"waiting" are enough for each value of the compensation kind to be reached from
"arrived"; `AttemptLimit` is the code's five; `MaxPayments` is 2, one more than
allowed. `Messages` and `Moves` are what is ever said: two edits can be reordered,
one message can be lost, doubled, classified twice or fall in either of two
windows, and two windows give a first one, one that nudges and one after a
restart. `MaxTrouble` is a budget for everything that goes wrong together: two in
`Record_replay` (a crash and a late call, two crashes), one where liveness is
checked on larger state. Whatever needs no trouble (a refresh, a withdrawal, a
returned submission, a switched-off workspace) is unlimited in `Visit` and
`Workspace`. In `Ranking_edits` two edits overlap or follow each other and a third one heals
what they left; three items are the fewest with an upward and a downward drop that
differ from a swap. A second writer would share only the group pad, whose record does not
know who writes.

**Fairness.** Node's event loop runs every continuation that can run (weak
fairness of each actor), `setInterval` fires the timers for ever, and
`matchmakingChain` is a first-in first-out promise chain, so whoever queues is
served (strong fairness of entering it for requests and for the timer's sweep).
In `Discussion` the processes run, timers fire, and the network answers a request
that is still waited for; in `WritingWorkspace` the reconciliation timer fires, a
child that was started comes up unless it crashes and one that is told to stop
exits (the supervisor kills it), and deadlines pass; in `StudyVisit` a tab's
heartbeat and poll timers fire, and the loop over the members of an aborted lobby
goes on until it has reached the participant or fails (`LoopFails`); who is not
on its list has nothing to hope for from it.
No fairness is assumed for participants, the researcher, provisioning,
withdrawals, failures or restarts. The database and the homeserver answer in the
end: calls with no answer at all would hold the chain, and are outside the model.
`Seats_live` switches restarts off: a process that crashes for ever serves nobody.
Several runs say `CHECK_DEADLOCK FALSE`: a discussion that was closed, a visit in
which every tab may stay closed, and a ranking nobody shows any more really stop.
`SharedRanking` has safety properties only and states no fairness.

## 5. Proofs

`SessionManager_proofs` proves, for every value of the constants that satisfies
the named assumptions (any number of participants, arms, sizes, requests,
sessions and rounds):

- `Invariance`: `Spec => []IInv`;
- `TypeCorrect`, `SizeRespected`, `OneSeatEach`: `TypeOK`, `GroupWithinSize` and
  `OneSeat`, as consequences;
- `NoResurrection`: `EndedStaysEnded` (which the refinement implies, so no run repeats
  it);
- `Refinement`: `Spec => SeatsAreAtomic`.

`GroupWithinSize` alone is not inductive: `AddSeat` writes a seat that was chosen
two statements earlier. The strengthening says why that is safe. `ChainHeld`:
whoever is between entering and leaving the chain owns it. `SeatStillFree`: a
session a request has chosen still has a free seat and its participant still has
no other claim, although sweeps of the timer may abort it, provisioning may move
it on and others may leave it. `OneClaim` states one seat per person in the form
the next step needs (with statuses that are over as the only exception, because
"completed" may be written over "aborted"). `UnusedUntouched` and `SeenExists`
keep what actors remember inside the table; `SeatsFinite` is there because
cardinalities of infinite sets say nothing.

Most actions leave seats alone or only remove people; the proof calls such a
step *settling* and shows once that it disturbs none of the seat conditions
(`SettleSeats`, `ActorStep`, `BackgroundStep`), so each action needs only its own
program counter. `ChooseSeat` and `AddSeat` are the two real cases. The
refinement first shows that every step has one of five shapes (`StepShape`), then
maps each shape to a step of `GroupFormation` or a stutter.

`SessionRounds_proofs` adds `RoundInvariance` (`RoundInv`) and from it
`GoalRespected`, `NoSeatAcrossRounds` and `NoLobbyLeftBehind` (`LiveWithinGoal`,
`SeatsInOpenRound`, `RoundStartsClean`). The two action properties look back at a
decision made earlier: a seat is written after the session was chosen, the round
switches after its lobbies were listed. `ChosenInRound` says that the round has not
changed since (whoever switches it needs the chain), `LobbiesClosed` that every
lobby still waiting is on the researcher's list, since nobody else may open one.
For the goal, `CreateForming` follows the count `Claimed` in the same hold of the
chain, and every other step only takes sessions out of the live ones.

`ProlificOutcomes_proofs` proves, for any number of submissions, tabs and
attempts:

- `TypeCorrect`, `TimeoutByStage`, `StagesAdvance`: `TypeOK`,
  `TimeoutPaysByStage` and `StageNeverRegresses`, whoever acts when. They rest on
  `AnyInv`: the list a sweep still carries is true of every submission it will
  really claim (`ScanCurrent`), because a heartbeat that changes the stage also
  makes the submission fresh;
- `Invariance`, `PaidOnce`, `SettledStays`: `IInv`, `PaidAtMostOnce` and
  `SettledNotPayable`, assuming `ManualOnly` and at most one element of `Clerks`
  (`SoleClerk`); `Pay_twice` shows that this is needed. `PaidAtMostOnce` alone is
  not inductive: a payer acts on a record it read before its calls. The
  strengthening says that what it read is still so: the batch the worker's list
  does not show is still missing (`QueueCurrent`), whoever prepares a batch does it
  for a row without one (`PreparedOnce`), whoever is about to pay pays first and
  behind the guard (`FirstPayment`), and money that moved left a row that is
  prepared but not payable (`PaidBehindGuard`); `OneSettler` keeps two of them
  from working at once. As for the seats, most steps leave batches alone and make
  nothing payable (`RowsSettle`), so one lemma (`JobStep`) covers every step of a
  payer but two, storing the batch and the payment itself.

`Discussion_proofs` and `DiscussionLives_proofs` prove, for any group, messages,
ranking edits, duration and number of troubles, all safety properties of
`Discussion`. The invariant is built in layers, each proved with the help of the ones
before it, and `Invariance` puts them together (`IInv`):

| Layer | Says | Theorems |
| --- | --- | --- |
| `RecInv` | `Grid` (the queue holds boundaries that were claimed, and a nudge on its way is the first one's), `Honest` (every copy of the record, wherever it is, holds only what was said, marks only what it holds and logs only nudges that are in the room), `KnownStatus` | `CopiesGenuine`; `NothingMarkedUnheld`, `NudgesPosted` (`ProcessedRecorded`, `LoggedNudgesPosted`); `RecordRefined` (`RecordKept`, the refinement of `ResearchRecord`) |
| `Typed` | what `TypeOK` asks beyond it | `AlwaysTyped`, `DiscussionTypes` (`TypeOK`) |
| `WindowsApart` | a boundary is claimed only while no copy, nothing in the room and nothing in the queue is of it or of a later one | `BoundariesApart`, `OnceAtMost` (`OnePerBoundary`) |
| `Life` | `Lifecycle` (the phases of a session in one process), `RequestsAwaited` (a request somebody waits for carries the runtime's state, unless something was noticed since), `NothingForgotten`, `LetGoSaved` | `LifeKept`, `WorkRemembered`, `SavedBeforeLetGo` |
| `PrefixesKept` | every copy, the buffer and the history read for a start hold the room from its beginning on | `PrefixesAlways`, `RecordHasNoHole` (`NoHole`) |
| `OrdersKept` | what an order holds was processed; in the first life of the Chat Service, of any two copies sent the one with the lower revision is part of the other, and each order ends with the last edit its copy holds (`FirstLife`) | `OrdersAlways`, `LastRankingReported` (`FinalRanking`) |

None of the properties is inductive alone, and each for its own reason. A snapshot
taken in one life is stored in another, so the invariant speaks of all copies at
once (`Copies`); lemmas show what recording, judging, evaluating, taking a snapshot
and merging do to one copy (`MergedGenuine`, `MergedWithin`, `HeldMerged`,
`OrderedMerge`, ...), and a few lemmas which copies a step makes (`CopiesMoved`,
`CopiesSent`, `CopiesStored`, ...), so each layer is proved per kind of step.
`LetGoSaved` rests on the answer of the finalize request: nobody changes the runtime
while it is awaited, and it is answered after its snapshot was stored.
`NothingForgotten` needs the same of a write in flight, but only as long as the dirty
mark is down. `NoHole` needs that what a new life replays begins where the room
begins. `FinalRanking` is the deepest: the ranking that `Latest` leaves is the last
one because the merge of two comparable copies ends with the last edit of the larger
(`OrderedMerge`), and copies are comparable only in one life.

What a merge does to the ranking history is what `Selected`, a recursive function,
returns. The library's induction theorems cannot be used, but its existence and its
step equation, and what it keeps and in which order, are proved from the least index
at which a claim about it would fail (`SelectedExists`, `SelectedFacts`); there is
none, because the natural numbers are well-founded.

The constants are as free as the code leaves them: `EventsAssumption`
(`CheckpointMerge`) says that a nudge of the bot is no participant's event, which is
Matrix's event ids; the other assumptions bound nothing but their kinds.

`WritingWorkspace_proofs` proves `WorkspaceTypes`, `CapturedTextIsFinal`,
`NothingLostByStop` and `SeatNeedsEntry` (`TypeOK`, `RecordMatchesPad`,
`StopSparesText`, `EntryFirst`) for any participants, edits and troubles.
`RecordMatchesPad` is not inductive by itself, because an open pad may hold a
revision that is still being persisted: `Frozen` adds that the policy of a captured
pad admits no further write.

`StudyVisit_proofs` proves `VisitTypes`, `CompletionBehindLastPage` and
`NoJoinLosesEntry` (`TypeOK`, `DoneIsCompleted`, `EntryKept`) for any number of
tabs and troubles. The strengthening relates what a tab remembers to what is
stored: `SeatOrEnd` (a tab that had a seat has it still, in a group that started
if it saw the discussion, or the participation has ended), `ExitOfStarted` (nothing
removes the exit survey), `CompletedIsLast`, `EntrySomewhere` (an entry survey that
is not stored is in a tab before the discussion, and a tab that polls has sent its
own).

`SharedRanking_proofs` proves `TypeCorrect`, `LastWins` and `TurnsEndInAgreement`
(`TypeOK`, `LastWriteWins`, `TurnsAgree`) for any group, list and number of edits
and troubles. Types are the first real step: a swap and a drop keep every item in
one place (`WithoutKeeps`, `PlaceWithout`, `InsertRanks`). `LastWriteWins` needs
to know where the order of a page comes from at every moment, not only when it is
up to date: from an own edit under way, or from an event of the room after which it
received only its own (`Source`). For `TurnsAgree`, `AloneInv` says
that an edit made when nothing was under way is the only request for as long as
nobody edits again, that its author still shows it, and that a rollback leads back
to what the group shows; `AgreedInv` that every other page shows the last order or
is going to (`Settling`).

**Only model-checked** are the liveness properties (`ChainServesEveryone`,
`OverdueGroupsClose`, `SilenceEnds`, `ManagedEnds`, `EveryPadCaptured`, `Drains`,
`LockEnds`, `EndedIsShown`, `LobbyIsResolved`): liveness under fairness rests on
ENABLED, which the proof system does not handle. Every safety property, action
property and refinement of a passing run is stated by a theorem. The three runs of
section 6 show what is false.

## 6. Where the code and its documentation disagree

With a run:

- **A running discussion can be aborted** (`Abort_running`). `leaveSession` acts
  on the status read before the outcome was stored; a group published in between
  is aborted, against "once the discussion is running, a disconnect or voluntary
  withdrawal ends only that participant's participation".
- **Two requests pay twice** (`Pay_twice`). The guard `payment_in_progress` is
  stored before the call, as documented, but not as a compare-and-set: two
  `pay-bonus` requests (or one and the automation) that both read
  `bonus_prepared` both call the endpoint whose repetition "pays twice".
- **A ranking can be reported that the group had changed** (`Ranking_stale`). The
  recovery hands out the stored revision at once, while a checkpoint of the crashed
  process may still be under way; the new life counts on from the same revision, so
  the two use the same numbers for different snapshots. The late checkpoint carries at
  most the stored revision, a tie is accepted (`SM/store/checkpoint-merge.ts:45`), and
  arriving last, even after the final snapshot, it replaces the newer ranking. Two
  checkpoints of old lives under way, which takes a second trouble and is outside
  this run, can carry a higher revision; then it is the new life's snapshots that are
  dropped as stale.

Read in the code, with the models or beside them:

- *A short group can start.* `claimSessionProvisioning` is documented to "atomically
  claim a full waiting group" (`SM/store/store.service.ts:698`) but looks at the
  status alone; a withdrawal between `ensureProvisioned`'s count and the claim leaves
  a provisioning group that is one short. A retry then finds it not full, and it ends
  as a technical failure at the deadline; if the attempt goes on, it starts.
  `Provisioning` behaves so (`ClaimGroup`).
- *Two browsers keep different rankings.* The ranking is "synced in real time to the
  others" (`src/packages/shared/src/models.ts:193`) with "last-write-wins"
  (`FP/components/SharedRanking.tsx:26`). If p and q edit at the same time and the
  room orders p's edit first and q's last, p shows q's order; q received p's order
  after applying its own, its own is not announced again, and q shows p's order until
  somebody edits. The recorded ranking is the room's.
- *A rollback is not always to what the group shows.* If the answer of a send is lost,
  everybody has an order its author undoes (against "the group never saw this move",
  `SharedRanking.tsx:106`); of two rejected sends the second returns to the first
  one's order when it is rejected last; an order that another member set to the very
  same value is undone as well, because the comparison is by value.
- *A returned submission enters the study.* `resumeProlific` verifies with
  `allowEnded` and caches the result for a minute; `recordProlificArrival` and
  `openSession`, which must not accept ended submissions
  (`docs/prolific-integration.md`, "Server validation"; the comment at
  `FP/App.tsx:128`), find it in the cache. `StudyVisit` behaves so
  (`Verify`, `Valid`).
- *A page is not told that it ended.* The heartbeat reports progress, strictly
  verified, before it reads the outcome (`FP/App.tsx:75`): once the submission was
  returned, which is what the exit page asks for, an open tab never leaves its
  page. `EndedIsShown` excepts it. `terminateParticipation` is strict as well, so
  such a participant cannot withdraw either.
- *An entry survey is lost by a refresh* between taking the seat and storing the
  survey (`FP/components/WaitingRoom.tsx:89`), although "re-running after an error
  or refresh is safe" (`:39`); a direct participant whose lobby was aborted loses it
  the same way, and of two tabs the later one overwrites it.
- *A stored outcome can be replaced.* "Exactly one terminal outcome" and "any
  outcome freezes it" (`docs/prolific-integration.md:36`, `:471`), but terminations
  and completions read first and update by key (`SM/store/participation.store.ts:240`,
  `:349`): a withdrawal that read before a completion was stored turns the completed
  submission into a withdrawal, and the other way round a completion turns a queued
  return or bonus into `not_required`. `Participation` models both halves, so the
  payment properties hold in spite of it.
- *An ended submission can be seated.* `openSession` checks the outcome before it
  queues for the chain (`SM/sessions/sessions.service.ts:168`) and not again inside,
  although "the same submission cannot join another group after receiving a terminal
  outcome" (`docs/prolific-integration.md:494`). `Matchmaking` models it.
- A withdrawal whose status read still said "waiting" gives its seat up silently if
  the group was claimed meanwhile, so the departed member stays in the roster of the
  starting group (`docs/prolific-integration.md:484` says the group is aborted).
- *A member of an aborted lobby can wait for ever.* The members get the outcome that
  `docs/architecture.md:84` promises from one loop, which reads the roster once after the
  abort, stops at the first member it cannot end and is repeated by nobody, since no
  later sweep selects an aborted lobby (`SM/sessions/sessions.service.ts:585`, `:678`).
  A Prolific participant seated after that read, or left by a loop that failed or
  whose process stopped, is in an aborted group without an outcome, and its
  waiting room polls and sends heartbeats until the browser stops
  ("retry briefly", `FP/components/WaitingRoom.tsx:147`). `Matchmaking` and
  `StudyVisit` behave so.
- "completed" may be written over "aborted" and the other way round.
- A Chat Service that crashes after it accepted a start and before the publication
  leaves a visible room nobody records, until its next restart; it keeps its runtime
  of a session that was aborted before it could be published. A retried provisioning
  publishes a later start than the Chat Service runs by
  (`SM/sessions/room-provisioning.ts:176`).
- Events that arrive while a finalize is under way are dropped even if it fails and
  the discussion goes on (`docs/bot-rulebook.md:74`); a window whose evaluation
  throws leaves no record, against the "exactly one evaluation record" of
  `CS/rules/bot-rules.ts:119`; a crash between posting and logging leaves a nudge
  nobody logged, and classifications in flight are lost.
- After a crash in `pad`, `surveyPadId` may pick the stray record of the pad; a restored tab does not know that it is in a writing group, so its
  withdrawal does not leave the workspace; rejoining renews an expired admission.
- The automation retries a `failed` row whose batch was prepared, finds it not
  payable and gives up after five attempts, so it is never paid without a researcher
  paying by hand in Prolific; an automatic return that fails late overwrites a later
  status with `failed`.

## 7. Not modelled

The components listed with status `not_modelled` in `PROJECT.json`. More than half
of the repository's lines are user interface, formatting (reports, exports, row
mappers, wording of the bot), request validation, load tests and configuration,
which keep no state that another actor could find wrong; modelling them would be
transliteration. Of the modelled components:

- sessions: matching of task modes (ranking or Etherpad lobbies) in `findForming`,
  changes of an arm's size or goal while it recruits (sessions keep their snapshot; a
  lowered goal is not retroactive), failures of single database statements inside
  the chain (the operation then rejects and the chain goes on), the in-memory
  backend used without a database, and the Matrix calls of provisioning, which only
  fail or succeed;
- payments: amounts and audit events;
- discussions: several rooms in one process (they share nothing), moderation and
  reactions, message weights (all are equal) and wording, the baseline arm and the
  warm-up gate, snapshots without a revision, membership rechecks before a nudge, a
  limited first sync; `finalizeSession` is one step after its write of the record
  here, and two in `Provisioning`;
- workspace: identities and signed access, the length and revision limits of a pad,
  the dashboard's view, removal from the roster on withdrawal, ranking sessions;
- shared ranking: a page that mounts before its Matrix client knows the room, which is
  then neither seeded nor subscribed and stays so
  (`FP/components/SharedRanking.tsx:55`; in the model it only looks like a page that
  never takes `Sync`, so `LastWriteWins` and `TurnsAgree`, which speak of pages that
  received the room's events, say nothing of it), the exit survey's and the
  dashboard's use of the order, gaps in the
  timeline of a browser that was offline for more events than one sync returns, the
  text about another member's move;
- visits: debriefing feedback, the restored Matrix client, what the surveys say, the
  dev login by access token, a deployment without an API token (then no
  submission is refused), and the time between the two statements of a withdrawal (`Matchmaking`
  has it).
