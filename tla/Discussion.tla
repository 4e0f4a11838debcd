----------------------------- MODULE Discussion -----------------------------
(***************************************************************************)
(* One discussion from the start request to its final record: the group in *)
(* the room, the homeserver, the Chat Service and the Session Manager that *)
(* publishes the room and stores what the Chat Service sends.              *)
(***************************************************************************)
EXTENDS ChatService

VARIABLE ranking    \* the session's latest shared ranking, None before one

CONSTANT None

vars == <<worldVars, startVars, runVars, saveVars, faultVars, ranking>>

Init ==
    /\ room = <<>>
    /\ sentIn = [m \in Messages |-> 0]
    /\ clock = 0
    /\ status = "provisioning"
    /\ stored = Empty
    /\ ask = "idle"
    /\ calls = {}
    /\ ranking = None
    /\ ChatInit

\* A participant's client sends an event; the room is visible once published.
Say(e) ==
    /\ status = "running"
    /\ e \in (Messages \cup Moves) \ Items(room)
    /\ room' = Append(room, e)
    /\ sentIn' = IF e \in Messages THEN [sentIn EXCEPT ![e] = clock + 1] ELSE sentIn
    /\ UNCHANGED <<clock, status, stored, ask, calls, startVars, runVars,
                   saveVars, faultVars, ranking>>

\* A window is minutes long: a timer that is due fires within it.
WindowPasses ==
    /\ clock < Duration
    /\ status = "running" \/ (live /\ status # "provisioning")
    /\ ~ (svc = "up" /\ tick # 0 /\ clock >= tick)
    /\ clock' = clock + 1
    /\ UNCHANGED <<room, sentIn, status, stored, ask, calls, startVars, runVars,
                   saveVars, faultVars, ranking>>

\* finishSessionProvisioning, once the Chat Service has accepted.
Publish ==
    /\ ask = "accepted"
    /\ ask' = "idle"
    /\ status' = IF status = "provisioning" THEN "running" ELSE status
    /\ UNCHANGED <<room, sentIn, clock, stored, calls, startVars, runVars,
                   saveVars, faultVars, ranking>>

\* The attempt fails on the Session Manager's side: the answer to the start
\* request is lost, or the publishing write is.
StartAnswerLost ==
    /\ ask # "idle"
    /\ Fault
    /\ ask' = "idle"
    /\ UNCHANGED <<room, sentIn, clock, status, stored, calls, startVars,
                   runVars, saveVars, crashes, dropped, ranking>>

\* The group falls apart before its room is published, or a withdrawal that
\* saw it unpublished aborts it afterwards (leaveSession).
Abort ==
    /\ status \in {"provisioning", "running"}
    /\ Fault
    /\ status' = "aborted"
    /\ UNCHANGED <<room, sentIn, clock, stored, ask, calls, startVars, runVars,
                   saveVars, crashes, dropped, ranking>>

\* completeSession: an operator closes the session early.
CompleteSession ==
    /\ status \in {"provisioning", "running"}
    /\ Fault
    /\ status' = "completed"
    /\ UNCHANGED <<room, sentIn, clock, stored, ask, calls, startVars, runVars,
                   saveVars, crashes, dropped, ranking>>

\* queueRuntimeWrite: writes of one session follow one another.
Idle == \A c \in calls : c.kind # "close"

\* checkpointSession, or the first statement of finalizeSession.
Store(c) ==
    /\ c \in calls /\ Idle
    /\ stored' = Merged(stored, c.snap)
    /\ ranking' = Latest(ranking, stored, c.snap)
    /\ IF c.kind = "final"
       THEN /\ calls' = (calls \ {c}) \cup {[c EXCEPT !.kind = "close"]}
            /\ UNCHANGED <<live, retired, pending, saveVars>>
       ELSE /\ calls' = calls \ {c}
            /\ IF c.waiting THEN Answered(c, FALSE)
                            ELSE UNCHANGED <<live, retired, pending, saveVars>>
    /\ UNCHANGED <<room, sentIn, clock, status, ask, svc, recovery, start,
                   joined, cursor, runVars, faultVars>>

\* Seeded bug: finalize does not look at the status.
CompleteAnyway(c) ==
    /\ c \in calls /\ c.kind = "close"
    /\ status' = "completed"
    /\ calls' = calls \ {c}
    /\ IF c.waiting THEN Answered(c, FALSE)
                    ELSE UNCHANGED <<live, retired, pending, saveVars>>
    /\ UNCHANGED <<room, sentIn, clock, stored, ask, svc, recovery, start,
                   joined, cursor, runVars, faultVars, ranking>>

\* The rest of finalizeSession: an aborted session stays aborted.  (The read
\* and the write are two statements; Provisioning models that race.)
Complete(c) ==
    /\ c \in calls /\ c.kind = "close"
    /\ status' = IF status = "aborted" THEN status ELSE "completed"
    /\ calls' = calls \ {c}
    /\ IF c.waiting THEN Answered(c, FALSE)
                    ELSE UNCHANGED <<live, retired, pending, saveVars>>
    /\ UNCHANGED <<room, sentIn, clock, stored, ask, svc, recovery, start,
                   joined, cursor, runVars, faultVars, ranking>>

Next ==
    \/ (Starting \/ Running) /\ UNCHANGED ranking
    \/ \E e \in Messages \cup Moves : Say(e)
    \/ WindowPasses \/ Publish \/ StartAnswerLost \/ Abort \/ CompleteSession
    \/ \E c \in calls : Store(c) \/ Complete(c)

Spec == Init /\ [][Next]_vars

\* Timers fire, the processes run, and the network answers; nobody has to
\* speak, to abort, to fail or to crash.
FairSpec ==
    /\ Spec
    /\ WF_vars((Boot \/ Recover \/ StartSession \/ Join \/ ReadHistory \/ Install)
                   /\ UNCHANGED ranking)
    /\ WF_vars(Deliver /\ UNCHANGED ranking)
    /\ WF_vars(\E m \in Messages : Classified(m) /\ UNCHANGED ranking)
    /\ WF_vars(WindowElapsed /\ UNCHANGED ranking)
    /\ WF_vars((EvaluateQuiet \/ Post \/ LogNudge) /\ UNCHANGED ranking)
    /\ WF_vars(FlushCheckpoint /\ UNCHANGED ranking)
    /\ WF_vars(EndSession /\ UNCHANGED ranking)
    /\ WF_vars(Finalize /\ UNCHANGED ranking)
    /\ WF_vars((StopFlush \/ (svc = "flushed" /\ Exit)) /\ UNCHANGED ranking)
    /\ WF_vars(WindowPasses)
    /\ WF_vars(\E c \in calls : (Store(c) /\ c.waiting) \/ Complete(c))

----------------------------------------------------------------------------
(***************************************************************************)
(* Safety                                                                  *)
(***************************************************************************)

Snapshots ==
    [revision : Nat, log : SUBSET Events, order : Seq(Moves),
     verdict : [Messages -> Verdicts \cup {"none"}], failed : SUBSET Messages,
     windows : SUBSET Windows, processed : SUBSET Events]

Calls == [kind : {"save", "final", "close"}, snap : Snapshots, waiting : BOOLEAN]

TypeOK ==
    /\ room \in Seq(Events)
    /\ sentIn \in [Messages -> Nat]
    /\ clock \in 0 .. Duration
    /\ status \in {"provisioning", "running", "completed", "aborted"}
    /\ stored \in Snapshots /\ rt \in Snapshots /\ start.note \in Snapshots
    /\ ask \in {"idle", "asked", "accepted"}
    /\ calls \subseteq Calls
    /\ svc \in {"down", "booting", "up", "stopping", "flushed"}
    /\ recovery \in {"none", "starting", "retry"}
    /\ start.stage \in {"none", "joining", "reading", "install"}
    /\ start.history \subseteq Items(room) /\ pending \subseteq Items(room)
    /\ cursor \in 0 .. Len(room)
    /\ {live, retired, joined, posting, dirty, timer, saving} \subseteq BOOLEAN
    /\ classifying \subseteq Messages /\ queue \subseteq Boundaries
    /\ claimed \in 0 .. Duration /\ tick \in 0 .. Duration + 1
    /\ finalizing \in {"no", "draining", "sent"}
    /\ ending \in {"none", "armed", "retry"}
    /\ ranking \in Moves \cup {None}
    /\ crashes \in Nat /\ faults \in Nat /\ crashes + faults <= MaxTrouble
    /\ dropped \subseteq Items(room)

\* Every copy of the record: the stored one, the runtime's, the one a
\* recovery restores, and those on their way.
Copies == {stored, rt, start.note} \cup {c.snap : c \in calls}

\* No copy marks an event as processed without holding it: replay after a
\* restart skips processed events, so such an event would be lost for ever.
ProcessedRecorded == \A s \in Copies : s.processed \subseteq s.log

\* The record has no holes: if it holds an event, it holds every earlier event
\* of the room, but for those that arrived while a finalize was under way -
\* through crashes, replays, buffered events and late or repeated writes.
NoHole ==
    \A i, j \in DOMAIN room :
        i < j /\ room[j] \in stored.log => room[i] \in stored.log \cup dropped

Judgements(s) == {m \in Messages : s.verdict[m] # "none"} \cup s.failed

\* What s holds of the discussion, t holds as well.
Within(s, t) ==
    /\ s.log \subseteq t.log
    /\ s.windows \subseteq t.windows
    /\ Judgements(s) \subseteq Judgements(t)

Saved == Within(rt, stored)

\* A live runtime with something unsaved always has a write ahead of it: work
\* whose end schedules one, a debounce timer, a write in flight that will look
\* at the dirty mark, or the finalize request.
NothingForgotten ==
    live /\ svc = "up" /\ ~ Saved =>
        \/ timer /\ dirty
        \/ saving \/ classifying # {} \/ queue # {}
        \/ finalizing # "no" \/ ending = "retry"

\* Once the Chat Service lets go of a session, everything its runtime recorded
\* is in the stored record: messages, window evaluations, classifications.
LetGoSaved == retired /\ ~ live => Saved

\* A boundary is evaluated once and nudges once at most, over all lives of the
\* Chat Service and whatever writes of an earlier life arrive late.
OnePerBoundary ==
    /\ \A i, j \in DOMAIN room : i # j => room[i] # room[j]
    /\ \A v, w \in stored.windows : v.end = w.end => v = w

\* Whatever the record calls a nudge has been posted to the room.
LoggedNudgesPosted ==
    \A s \in Copies : \A w \in s.windows : w.nudged => w.end \in Items(room)

\* The ranking a completed session reports is the group's last one in the
\* record, unless an edit arrived while a finalize was under way.
RankingIsLast ==
    status = "completed" /\ dropped = {} =>
        \A i \in DOMAIN room :
            room[i] \in Moves \cap stored.log =>
                \E j \in DOMAIN room : j >= i /\ room[j] = ranking

\* Within one life of the Chat Service it is, whatever writes arrive late.
FinalRanking == crashes = 0 => RankingIsLast

(***************************************************************************)
(* The inductive invariant behind these properties.                        *)
(***************************************************************************)

\* A boundary is claimed only while nothing in any copy of the record, in the
\* room or in the queue is of it or of a later one.
Logged == UNION {s.windows : s \in Copies}
Used == {w.end : w \in Logged} \cup (Boundaries \cap Items(room)) \cup queue

WindowsApart ==
    /\ \A v, w \in Logged : v.end = w.end => v = w
    /\ \A w \in Logged : w.end \notin queue
    /\ \A k \in queue : k \in Items(room) => posting /\ \A j \in queue : k <= j
    /\ \A k \in Used : k <= clock /\ (tick # 0 => k < tick)
    /\ \A i, j \in DOMAIN room : i # j => room[i] # room[j]

\* Nothing more can happen to the runtime.
AtRest == classifying = {} /\ queue = {} /\ ~ timer /\ (saving => svc = "flushed")

\* The phases of a session's life in one process.
Lifecycle ==
    /\ start.stage # "none" => ~ live /\ Within(start.note, stored)
    /\ live => svc \in {"up", "stopping", "flushed"}
    /\ ~ live => AtRest /\ tick = 0
    /\ retired => /\ ~ live /\ start.stage = "none"
                  /\ status \in {"completed", "aborted"}
    /\ ending # "none" => live /\ finalizing = "no"
    /\ finalizing # "no" => live /\ tick = 0
    /\ finalizing = "sent" => AtRest
    /\ timer => svc = "up" /\ ~ saving

\* Nothing reaches the runtime that its next write would not carry.
NothingUnnoticed ==
    /\ svc = "up" /\ finalizing = "no" /\ ending # "retry"
    /\ ~ dirty /\ classifying = {} /\ queue = {}

\* Somebody waits for one write and one finalize request at most, and what it
\* carries is the runtime's state.
RequestsAwaited ==
    \A c \in calls : c.waiting =>
        /\ \A d \in calls :
              d.waiting /\ (c.kind = "save" <=> d.kind = "save") => c = d
        /\ IF c.kind = "save"
           THEN saving /\ (NothingUnnoticed => Within(rt, c.snap))
           ELSE finalizing = "sent" /\ Within(rt, c.snap)
        /\ c.kind = "close" => Within(c.snap, stored)

\* Copies and buffers hold the room from its beginning on.
Delivered == {room[i] : i \in 1 .. cursor}

HoleFree(events) ==
    \A i, j \in DOMAIN room :
        i < j /\ room[j] \in events => room[i] \in events \cup dropped

PrefixesKept ==
    /\ \A s \in Copies : HoleFree(s.log)
    /\ HoleFree(start.history)
    /\ live => Delivered \subseteq rt.log \cup dropped
    /\ ~ live /\ ~ retired => pending = Delivered

\* The order of a copy has the group's edits it holds, and ends with the last.
LastIn(s, r) ==
    \A i \in DOMAIN room :
        room[i] \in Moves \cap s.log => \E j \in DOMAIN room : j >= i /\ room[j] = r

Ordered(s) ==
    /\ Moves \cap s.log \subseteq Items(s.order)
    /\ s.order # <<>> => LastIn(s, s.order[Len(s.order)])

\* In its first life the Chat Service starts from nothing, so that of any two
\* writes the one with the lower revision is part of the other.
Sent == {stored} \cup {c.snap : c \in calls}

FirstLife ==
    /\ svc = "up" /\ recovery = "none"
    /\ start.fresh /\ start.stage # "reading"
    /\ start.note = Empty /\ start.history = {}
    /\ ~ live /\ ~ retired =>
          rt = Empty /\ stored = Empty /\ calls = {} /\ dropped = {}
    /\ dropped \subseteq Delivered /\ rt.log \subseteq Delivered \ dropped
    /\ \A s \in Sent :
        /\ s.revision <= rt.revision /\ s.log \subseteq rt.log
        /\ \A t \in Sent : s.revision <= t.revision => s.log \subseteq t.log
    /\ \A s \in Sent \cup {rt} : Ordered(s)
    /\ LastIn(stored, ranking)

OrdersKept ==
    /\ \A s \in Copies : Items(s.order) \subseteq s.processed
    /\ crashes = 0 => FirstLife

IInv ==
    /\ TypeOK /\ ProcessedRecorded /\ LoggedNudgesPosted
    /\ WindowsApart
    /\ Lifecycle /\ RequestsAwaited /\ NothingForgotten /\ LetGoSaved
    /\ PrefixesKept
    /\ OrdersKept

\* Its record is one that only grows, holds only what was said and is closed
\* for good, although checkpoint and finalize requests are lost, repeated,
\* reordered and taken from different lives of the Chat Service.
Record == INSTANCE ResearchRecord
    WITH said <- Items(room),
         kept <- stored.log,
         closed <- IF status \in {"completed", "aborted"} THEN status ELSE "no"

RecordKept == Record!Spec

\* A session that runs and is managed ends, although the Chat Service may
\* crash, restart, fail to recover and fail to report.
ManagedEnds == status = "running" /\ live ~> status \in {"completed", "aborted"}
=============================================================================
