----------------------------- MODULE ChatService -----------------------------
(***************************************************************************)
(* SessionsService of the Chat Service, for the room of one session: the   *)
(* start and the recovery of the session, the events tailed from the       *)
(* homeserver, classifications and window evaluations under way, debounced *)
(* checkpoints, the finalize request, a graceful shutdown and a crash.     *)
(* JavaScript runs a handler to its next await without interruption: an    *)
(* action is such a stretch.                                               *)
(***************************************************************************)
EXTENDS SessionRuntime

CONSTANTS
    MaxTrouble  \* bound: exits of the Chat Service and failed calls, together

ASSUME TroubleAssumption == MaxTrouble \in Nat

VARIABLES
    \* the world around the Chat Service
    room,        \* the room's timeline on the homeserver
    sentIn,      \* [Messages -> Nat]: end of the window a message is sent in
    clock,       \* boundaries elapsed since the grid started
    status,      \* SessionRecord.status
    stored,      \* the session's research record, as a snapshot
    ask,         \* the Session Manager's start request
    calls,       \* checkpoint and finalize requests the network holds
    \* the process: lifecycle and start of the session
    svc, recovery, start, live, retired, pending,
    joined,      \* this life's bot is in the room
    cursor,      \* events of the room this life's sync has delivered
    \* the process: the running session
    rt,          \* the SessionRuntime
    classifying, \* ruleRequests: messages the classifier is working on
    claimed,     \* lastWindowBoundaryMs
    queue,       \* windowRequests: claimed boundaries not yet evaluated
    posting,     \* the nudge of the first of them was handed to Matrix
    tick,        \* windowTimers: the boundary waited for, 0 for none
    dirty, timer, saving,   \* checkpointDirty, -Timers, -Requests
    finalizing,  \* finalizingRooms: and how far endSession got
    ending,      \* sessionEndTimers
    \* bounds and history
    crashes, faults,
    dropped      \* events that arrived while a finalize was under way

worldVars == <<room, sentIn, clock, status, stored, ask, calls>>
startVars == <<svc, recovery, start, live, retired, pending, joined, cursor>>
runVars == <<rt, classifying, claimed, queue, posting, tick>>
saveVars == <<dirty, timer, saving, finalizing, ending>>
faultVars == <<crashes, faults, dropped>>

NotStarting == [stage |-> "none", fresh |-> TRUE, note |-> Empty, history |-> {}]

\* What a process knows when it starts, and nothing else survives.
ProcessInit ==
    /\ recovery = "none"        \* recoveryTimer and recoveryRequest
    /\ start = NotStarting      \* startRequests: doStartSession at its await
    /\ live = FALSE             \* runtimes has the room
    /\ retired = FALSE          \* retiredRooms
    /\ pending = {}             \* pendingEvents
    /\ joined = FALSE
    /\ cursor = 0
    /\ rt = Empty
    /\ classifying = {}
    /\ claimed = 0
    /\ queue = {}
    /\ posting = FALSE
    /\ tick = 0
    /\ dirty = FALSE /\ timer = FALSE /\ saving = FALSE
    /\ finalizing = "no"
    /\ ending = "none"

\* A process that ends forgets all of it.
Forget ==
    /\ recovery' = "none" /\ start' = NotStarting
    /\ live' = FALSE /\ retired' = FALSE /\ pending' = {}
    /\ joined' = FALSE /\ cursor' = 0
    /\ rt' = Empty /\ classifying' = {} /\ claimed' = 0
    /\ queue' = {} /\ posting' = FALSE /\ tick' = 0
    /\ dirty' = FALSE /\ timer' = FALSE /\ saving' = FALSE
    /\ finalizing' = "no" /\ ending' = "none"

ChatInit ==
    /\ svc = "up"
    /\ ProcessInit
    /\ crashes = 0 /\ faults = 0 /\ dropped = {}

Trouble == crashes + faults < MaxTrouble

Fault == Trouble /\ faults' = faults + 1

\* Nobody waits for the answer any more.  The request may be lost on its way,
\* that is, never be stored, or arrive at any later time.
Abandoned(c) == [c EXCEPT !.waiting = FALSE]

\* Seeded bug: a change during a write is not remembered.
ScheduleUnlessSaving ==
    IF svc \in {"booting", "up"} /\ finalizing = "no" /\ ~ saving
    THEN dirty' = TRUE /\ timer' = TRUE
    ELSE UNCHANGED <<dirty, timer>>

\* scheduleCheckpoint.  One debounce timer, and never two writes in flight.
ScheduleCheckpoint ==
    IF svc \in {"booting", "up"} /\ finalizing = "no"
    THEN dirty' = TRUE /\ timer' = (timer \/ ~ saving)
    ELSE UNCHANGED <<dirty, timer>>

\* Seeded bug: a window is skipped.
NextBoundarySkipping(previous) ==
    IF clock > previous THEN clock + 2 ELSE previous + 2

\* scheduleWindowTick
NextBoundary(previous) ==
    IF clock > previous THEN clock + 1 ELSE previous + 1

----------------------------------------------------------------------------
(* Starting and recovering the session *)

\* onModuleInit: HTTP and the sync are up after the first recovery pass only.
Boot ==
    /\ svc = "down"
    /\ svc' = "booting"
    /\ UNCHANGED <<worldVars, recovery, start, live, retired, pending, joined,
                   cursor, runVars, saveVars, faultVars>>

RecoveryDue ==
    \/ svc = "booting" /\ recovery = "none"
    \/ svc = "up" /\ recovery = "retry"

\* doRecoverSessions: POST /sessions/recover returns the running sessions
\* with what is stored of them (recoverRunningSessions).
Recover ==
    /\ RecoveryDue
    /\ start.stage = "none"
    /\ IF status = "running" /\ ~ live
       THEN /\ recovery' = "starting"
            /\ start' = [stage |-> "joining", fresh |-> FALSE, note |-> stored,
                         history |-> {}]
            /\ UNCHANGED svc
       ELSE /\ recovery' = "none"
            /\ svc' = "up"
            /\ UNCHANGED start
    /\ UNCHANGED <<worldVars, live, retired, pending, joined, cursor, runVars,
                   saveVars, faultVars>>

\* The request failed: scheduleRecovery.
RecoverFails ==
    /\ RecoveryDue
    /\ Fault
    /\ recovery' = "retry"
    /\ svc' = "up"
    /\ UNCHANGED <<worldVars, start, live, retired, pending, joined, cursor,
                   runVars, saveVars, crashes, dropped>>

\* POST /internal/sessions/start, deduplicated by runtime and by request.
StartSession ==
    /\ status = "provisioning"
    /\ ask = "idle"
    /\ svc = "up"
    /\ ask' = IF live THEN "accepted" ELSE "asked"
    /\ start' = IF live \/ start.stage # "none" THEN start
                ELSE [NotStarting EXCEPT !.stage = "joining"]
    /\ UNCHANGED <<room, sentIn, clock, status, stored, calls, svc, recovery,
                   live, retired, pending, joined, cursor, runVars, saveVars, faultVars>>

\* doStartSession, first await: the bot joins the room.
Join ==
    /\ start.stage = "joining"
    /\ joined' = TRUE
    /\ start' = [start EXCEPT !.stage = IF start.fresh THEN "install" ELSE "reading"]
    /\ UNCHANGED <<worldVars, svc, recovery, live, retired, pending, cursor,
                   runVars, saveVars, faultVars>>

\* Second await, for a session with a checkpoint: roomHistory.
ReadHistory ==
    /\ start.stage = "reading"
    /\ start' = [start EXCEPT !.stage = "install", !.history = Items(room)]
    /\ UNCHANGED <<worldVars, svc, recovery, live, retired, pending, joined,
                   cursor, runVars, saveVars, faultVars>>

\* The join or the history read fails, or the service is shutting down.  What
\* was buffered stays; a recovery tries again later.
StartFails ==
    /\ start.stage # "none"
    /\ IF svc = "stopping" THEN UNCHANGED faults ELSE Fault
    /\ start' = NotStarting
    /\ ask' = IF ask = "asked" THEN "idle" ELSE ask
    /\ recovery' = IF recovery = "starting" /\ svc # "stopping" THEN "retry" ELSE recovery
    /\ svc' = IF svc = "booting" THEN "up" ELSE svc
    /\ UNCHANGED <<room, sentIn, clock, status, stored, calls, live, retired,
                   pending, joined, cursor, runVars, saveVars, crashes, dropped>>

\* Seeded bug: the buffer is emptied before it is replayed.
ReplayHistory == start.history

\* What the new runtime missed, each event once: the room's history, then the
\* events buffered since.
Replay == start.history \cup pending

\* The runtime is installed and what it missed handled (handleEvent).
Install ==
    LET new == Replay \ start.note.processed
    IN  /\ start.stage = "install"
        /\ svc \in {"booting", "up"}
        /\ live' = TRUE
        /\ retired' = FALSE
        /\ pending' = {}
        /\ rt' = Recorded(start.note, Replay, room)
        /\ claimed' = LastBoundary(start.note)
        /\ classifying' = Messages \cap new
        /\ queue' = {} /\ posting' = FALSE
        /\ tick' = NextBoundary(0)
        /\ IF new \subseteq Messages THEN UNCHANGED <<dirty, timer>>
                                     ELSE dirty' = TRUE /\ timer' = TRUE
        /\ ending' = "armed"
        /\ start' = NotStarting
        /\ ask' = IF ask = "asked" THEN "accepted" ELSE ask
        /\ recovery' = IF recovery = "starting" THEN "none" ELSE recovery
        /\ svc' = "up"
        /\ UNCHANGED <<room, sentIn, clock, status, stored, calls, joined, cursor,
                       saving, finalizing, faultVars>>

Starting ==
    Boot \/ Recover \/ RecoverFails \/ StartSession \/ Join \/ ReadHistory
    \/ StartFails \/ Install

----------------------------------------------------------------------------
(* The running session: events, classifications, windows *)

\* The sync loop hands over the next event of the room (handleEvent).
Deliver ==
    /\ svc = "up" /\ joined
    /\ cursor < Len(room)
    /\ cursor' = cursor + 1
    /\ LET e == room[cursor + 1] IN
       CASE ~ live ->                       \* bufferPendingEvent
              /\ pending' = IF retired THEN pending ELSE pending \cup {e}
              /\ UNCHANGED <<rt, classifying, dirty, timer, dropped>>
         [] live /\ finalizing # "no" ->    \* returns at once
              /\ dropped' = dropped \cup ({e} \ rt.processed)
              /\ UNCHANGED <<pending, rt, classifying, dirty, timer>>
         [] live /\ finalizing = "no" ->
              /\ rt' = Recorded(rt, {e}, room)
              /\ IF e \in rt.processed THEN UNCHANGED <<classifying, dirty, timer>>
                 ELSE IF e \in Messages  \* runRules; scheduled when it is done
                 THEN classifying' = classifying \cup {e} /\ UNCHANGED <<dirty, timer>>
                 ELSE UNCHANGED classifying /\ ScheduleCheckpoint
              /\ UNCHANGED <<pending, dropped>>
    /\ UNCHANGED <<worldVars, svc, recovery, start, live, retired, joined,
                   claimed, queue, posting, tick, saving, finalizing, ending,
                   crashes, faults>>

\* The classifier answered, or the request came to nothing.
Classified(m) ==
    /\ m \in classifying
    /\ classifying' = classifying \ {m}
    /\ rt' \in {Judged(rt, m, v) : v \in Verdicts} \cup {Unclassified(rt, m)}
    /\ ScheduleCheckpoint
    /\ UNCHANGED <<worldVars, startVars, claimed, queue, posting, tick, saving,
                   finalizing, ending, faultVars>>

\* Seeded bug: the timer that fires a little early is not sent back to wait.
WindowElapsedEarly ==
    /\ tick # 0 /\ svc = "up"
    /\ clock + 1 >= tick /\ tick <= Duration
    /\ claimed' = IF tick > claimed THEN tick ELSE claimed
    /\ queue' = IF tick > claimed THEN queue \cup {tick} ELSE queue
    /\ tick' = NextBoundary(tick)
    /\ UNCHANGED <<worldVars, startVars, rt, classifying, posting, saveVars, faultVars>>

\* onWindowBoundary: the boundary is claimed, its evaluation queued behind
\* the others, and the next timer set.
WindowElapsed ==
    /\ tick # 0 /\ svc = "up"
    /\ clock >= tick
    /\ claimed' = IF tick > claimed THEN tick ELSE claimed
    /\ queue' = IF tick > claimed THEN queue \cup {tick} ELSE queue
    /\ tick' = NextBoundary(tick)
    /\ UNCHANGED <<worldVars, startVars, rt, classifying, posting, saveVars, faultVars>>

NextDue == CHOOSE k \in queue : \A j \in queue : k <= j

NudgeDue(k) == InsideInterventionWindow(k) /\ SomeoneDominates(rt, sentIn, k)

EvaluationDone ==
    /\ queue' = queue \ {NextDue}
    /\ posting' = FALSE
    /\ ScheduleCheckpoint

\* onWindowElapsed without a nudge: "wrap-up" or "no-target".
EvaluateQuiet ==
    /\ queue # {} /\ ~ posting
    /\ ~ NudgeDue(NextDue)
    /\ rt' = Evaluated(rt, [end |-> NextDue, life |-> crashes, nudged |-> FALSE])
    /\ EvaluationDone
    /\ UNCHANGED <<worldVars, startVars, classifying, claimed, tick, saving,
                   finalizing, ending, faultVars>>

\* The nudge reaches the room ...
Post ==
    /\ queue # {} /\ ~ posting
    /\ NudgeDue(NextDue)
    /\ posting' = TRUE
    /\ room' = Append(room, NextDue)
    /\ UNCHANGED <<sentIn, clock, status, stored, ask, calls, startVars, rt,
                   classifying, claimed, queue, tick, saveVars, faultVars>>

\* Seeded bug: the nudge is logged whether or not it could be posted.
LogBeforePost ==
    /\ queue # {} /\ NudgeDue(NextDue)
    /\ rt' = Evaluated(rt, [end |-> NextDue, life |-> crashes, nudged |-> TRUE])
    /\ EvaluationDone
    /\ UNCHANGED <<worldVars, startVars, classifying, claimed, tick, saving,
                   finalizing, ending, faultVars>>

\* ... and is logged when Matrix has answered.
LogNudge ==
    /\ posting
    /\ rt' = Evaluated(rt, [end |-> NextDue, life |-> crashes, nudged |-> TRUE])
    /\ EvaluationDone
    /\ UNCHANGED <<worldVars, startVars, classifying, claimed, tick, saving,
                   finalizing, ending, faultVars>>

\* A membership read or the post throws: no record is left of the boundary.
EvaluationFails ==
    /\ queue # {}
    /\ posting \/ InsideInterventionWindow(NextDue)
    /\ Fault
    /\ EvaluationDone
    /\ UNCHANGED <<worldVars, startVars, rt, classifying, claimed, tick, saving,
                   finalizing, ending, crashes, dropped>>

----------------------------------------------------------------------------
(* Checkpoints and the end of the session *)

Send(kind, snapshot) ==
    calls' = calls \cup {[kind |-> kind, snap |-> snapshot, waiting |-> TRUE]}

\* flushCheckpoint, persistCheckpoint: at most one write in flight.
FlushCheckpoint ==
    /\ timer /\ svc = "up"
    /\ timer' = FALSE
    /\ IF finalizing = "no" /\ dirty
       THEN /\ dirty' = FALSE
            /\ saving' = TRUE
            /\ rt' = Snapshot(rt)
            /\ Send("save", Snapshot(rt))
       ELSE UNCHANGED <<dirty, saving, rt, calls>>
    /\ UNCHANGED <<room, sentIn, clock, status, stored, ask, startVars,
                   classifying, claimed, queue, posting, tick, finalizing,
                   ending, faultVars>>

\* The write is over; what changed meanwhile is written next.
SaveOver(failed) ==
    /\ saving' = FALSE
    /\ dirty' = (dirty \/ (failed /\ finalizing = "no"))
    /\ timer' = (timer \/ (dirty' /\ svc = "up" /\ finalizing = "no"))
    /\ UNCHANGED <<finalizing, ending, live, retired, pending>>

\* The discussion's timer, or the retry timer of a failed finalize
\* (endSession up to its first await).
EndSession ==
    /\ svc = "up"
    /\ ending = "armed" => clock = Duration
    /\ ending # "none"
    /\ ending' = "none"
    /\ finalizing' = "draining"
    /\ tick' = 0
    /\ UNCHANGED <<worldVars, startVars, rt, classifying, claimed, queue,
                   posting, dirty, timer, saving, faultVars>>

\* Seeded bug: classifications under way are not awaited.
FinalizeAtOnce ==
    /\ finalizing = "draining"
    /\ queue = {} /\ ~ saving
    /\ timer' = FALSE
    /\ finalizing' = "sent"
    /\ rt' = Snapshot(rt)
    /\ Send("final", Snapshot(rt))
    /\ UNCHANGED <<room, sentIn, clock, status, stored, ask, startVars,
                   classifying, claimed, queue, posting, tick, dirty, saving,
                   ending, faultVars>>

\* Evaluations, classifications and the write in flight are awaited first.
Finalize ==
    /\ finalizing = "draining"
    /\ queue = {} /\ classifying = {} /\ ~ saving
    /\ timer' = FALSE
    /\ finalizing' = "sent"
    /\ rt' = Snapshot(rt)
    /\ Send("final", Snapshot(rt))
    /\ UNCHANGED <<room, sentIn, clock, status, stored, ask, startVars,
                   classifying, claimed, queue, posting, tick, dirty, saving,
                   ending, faultVars>>

\* Seeded bug: a failed finalize is not tried again.
FinalizeOnce(failed) ==
    /\ finalizing' = "no"
    /\ IF failed THEN UNCHANGED <<ending, live, retired, pending, dirty>>
       ELSE /\ live' = FALSE /\ retired' = TRUE /\ pending' = {} /\ dirty' = FALSE
            /\ UNCHANGED ending
    /\ UNCHANGED <<timer, saving>>

\* The session is let go, or kept and the request repeated later.
FinalizeOver(failed) ==
    /\ finalizing' = "no"
    /\ IF failed THEN ending' = "retry" /\ UNCHANGED <<live, retired, pending, dirty>>
       ELSE /\ live' = FALSE /\ retired' = TRUE /\ pending' = {} /\ dirty' = FALSE
            /\ UNCHANGED ending
    /\ UNCHANGED <<timer, saving>>

Answered(c, failed) == IF c.kind = "save" THEN SaveOver(failed) ELSE FinalizeOver(failed)

\* A request times out or is refused.
CallFails(c) ==
    /\ c \in calls /\ c.waiting
    /\ Fault
    /\ Answered(c, TRUE)
    /\ calls' = (calls \ {c}) \cup {Abandoned(c)}
    /\ UNCHANGED <<room, sentIn, clock, status, stored, ask, svc, recovery,
                   start, joined, cursor, runVars, crashes, dropped>>

----------------------------------------------------------------------------
(* Leaving *)

\* beforeApplicationShutdown: timers are cleared and work under way awaited ...
Stop ==
    /\ svc = "up" /\ Trouble
    /\ crashes' = crashes + 1
    /\ svc' = "stopping"
    /\ recovery' = IF recovery = "retry" THEN "none" ELSE recovery
    /\ timer' = FALSE /\ tick' = 0 /\ ending' = "none"
    /\ UNCHANGED <<worldVars, start, live, retired, pending, joined, cursor, rt,
                   classifying, claimed, queue, posting, dirty, saving,
                   finalizing, faults, dropped>>

\* ... and a last checkpoint is written.
StopFlush ==
    /\ svc = "stopping"
    /\ queue = {} /\ classifying = {} /\ ~ saving
    /\ svc' = "flushed"
    /\ IF live
       THEN saving' = TRUE /\ rt' = Snapshot(rt) /\ Send("save", Snapshot(rt))
       ELSE UNCHANGED <<saving, rt, calls>>
    /\ UNCHANGED <<room, sentIn, clock, status, stored, ask, recovery, start,
                   live, retired, pending, joined, cursor, classifying, claimed,
                   queue, posting, tick, dirty, timer, finalizing, ending, faultVars>>

\* The process ends, in order or by a crash; its requests may still arrive.
Exit ==
    /\ \/ svc = "flushed" /\ ~ saving /\ UNCHANGED crashes
       \/ svc # "down" /\ Trouble /\ crashes' = crashes + 1
    /\ svc' = "down"
    /\ Forget
    /\ ask' = IF ask = "asked" THEN "idle" ELSE ask
    /\ calls' = {Abandoned(c) : c \in calls}
    /\ UNCHANGED <<room, sentIn, clock, status, stored, faults, dropped>>

Running ==
    \/ Deliver \/ WindowElapsed \/ EvaluateQuiet \/ Post \/ LogNudge
    \/ EvaluationFails \/ FlushCheckpoint \/ EndSession \/ Finalize
    \/ Stop \/ StopFlush \/ Exit
    \/ \E m \in Messages : Classified(m)
    \/ \E c \in calls : CallFails(c)
=============================================================================
