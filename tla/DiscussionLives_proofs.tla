----------------------- MODULE DiscussionLives_proofs -----------------------
(***************************************************************************)
(* Proofs about what the record of a Discussion keeps, for any messages,   *)
(* ranking edits, participants, classifications, length and amount of      *)
(* trouble.  Three layers, each on the ones before:                        *)
(*                                                                         *)
(*  - Life: what the runtime recorded is stored, or on its way, or has a   *)
(*    write ahead of it (Within is the order of the copies);               *)
(*  - PrefixesKept: every copy holds the room from its beginning on;       *)
(*  - OrdersKept: what a copy's ranking history holds, and in the first    *)
(*    life of the Chat Service how it ends.                                *)
(***************************************************************************)
EXTENDS Discussion_proofs

----------------------------------------------------------------------------
(***************************************************************************)
(* Within                                                                  *)
(***************************************************************************)
Ended == status \in {"completed", "aborted"}

LEMMA WithinItself ==
    ASSUME NEW s
    PROVE  Within(s, s)
  BY DEF Within

LEMMA WithinBoth ==
    ASSUME NEW s, NEW t, NEW u, Within(s, t), Within(t, u)
    PROVE  Within(s, u)
  BY DEF Within

LEMMA EmptyWithin ==
    ASSUME NEW s
    PROVE  Within(Empty, s)
  BY DEF Within, Empty, Judgements, Unjudged

LEMMA SnapshotWithin ==
    ASSUME NEW s \in Snapshots, NEW t
    PROVE  /\ Within(s, Snapshot(s))
           /\ Within(s, t) => Within(Snapshot(s), t)
<1>1. /\ Snapshot(s).log = s.log /\ Snapshot(s).windows = s.windows
      /\ Snapshot(s).verdict = s.verdict /\ Snapshot(s).failed = s.failed
  BY DEF Snapshot, Snapshots
<1>2. Judgements(Snapshot(s)) = Judgements(s)
  BY <1>1 DEF Judgements
<1> QED
  BY <1>1, <1>2 DEF Within

\* The merge forgets nothing of either snapshot, whichever is newer.
LEMMA MergedWithin ==
    ASSUME NEW s \in Snapshots, NEW t \in Snapshots
    PROVE  Within(s, Merged(s, t)) /\ Within(t, Merged(s, t))
<1>1. /\ Merged(s, t).log = s.log \cup t.log
      /\ Merged(s, t).windows = s.windows \cup t.windows
      /\ Merged(s, t).failed = s.failed \cup t.failed
      /\ Merged(s, t).verdict = Replaced(s.verdict, t.verdict, Accepts(t, s))
  BY DEF Merged
<1>2. \A m \in Messages : s.verdict[m] # "none" \/ t.verdict[m] # "none"
        => Merged(s, t).verdict[m] # "none"
  BY <1>1 DEF Replaced
<1>3. Judgements(s) \cup Judgements(t) \subseteq Judgements(Merged(s, t))
  BY <1>1, <1>2 DEF Judgements
<1> QED
  BY <1>1, <1>3 DEF Within

\* An event that was processed before changes nothing of what is held.
LEMMA RecordedWithin ==
    ASSUME NEW s, NEW t, NEW events, NEW timeline, events \subseteq s.processed, Within(s, t)
    PROVE  Within(Recorded(s, events, timeline), t)
<1>1. /\ Recorded(s, events, timeline).log = s.log
      /\ Recorded(s, events, timeline).windows = s.windows
      /\ Recorded(s, events, timeline).verdict = s.verdict
      /\ Recorded(s, events, timeline).failed = s.failed
  BY DEF Recorded
<1>2. Judgements(Recorded(s, events, timeline)) = Judgements(s)
  BY <1>1 DEF Judgements
<1> QED
  BY <1>1, <1>2 DEF Within

----------------------------------------------------------------------------
(***************************************************************************)
(* Nothing is let go unsaved                                               *)
(***************************************************************************)

Life == Lifecycle /\ RequestsAwaited /\ NothingForgotten /\ LetGoSaved

runtimeVars == <<stored, rt, calls, live, retired, classifying, queue, tick, saveVars>>

LEMMA LifeUnchanged ==
    ASSUME Life, UNCHANGED <<runtimeVars, svc, start>>, Ended => Ended'
    PROVE  Life'
<1>1. /\ UNCHANGED <<stored, rt, calls, live, retired, classifying, queue, tick, svc, start>>
      /\ UNCHANGED <<dirty, timer, saving, finalizing, ending>>
  BY DEF runtimeVars, saveVars
<1>2. UNCHANGED <<Saved, AtRest, NothingUnnoticed, Within(start.note, stored)>>
  BY <1>1 DEF Saved, AtRest, NothingUnnoticed
<1>3. Lifecycle'
  BY <1>1, <1>2 DEF Life, Lifecycle, Ended
<1>4. RequestsAwaited'
  BY <1>1, <1>2 DEF Life, RequestsAwaited
<1>5. NothingForgotten' /\ LetGoSaved'
  BY <1>1, <1>2 DEF Life, NothingForgotten, LetGoSaved
<1> QED
  BY <1>3, <1>4, <1>5 DEF Life

\* The steps around the Chat Service, and within it those before a start.
LEMMA LifeElsewhere ==
    ASSUME Life,
           \/ Post \/ WindowPasses \/ Publish \/ StartAnswerLost \/ Abort \/ CompleteSession
           \/ \E e \in Messages \cup Moves : Say(e)
    PROVE  Life'
<1>1. UNCHANGED <<runtimeVars, svc, start>>
  BY DEF Post, WindowPasses, Publish, StartAnswerLost, Abort, CompleteSession, Say,
     startVars, runVars, runtimeVars
<1>2. Ended => Ended'
  BY DEF Post, WindowPasses, Publish, StartAnswerLost, Abort, CompleteSession, Say, Ended
<1> QED
  BY <1>1, <1>2, LifeUnchanged

LEMMA LifeStarting ==
    ASSUME Typed, Life, UNCHANGED <<runtimeVars, status>>,
           start'.stage # "none" => ~ live /\ ~ retired /\ Within(start'.note, stored),
           svc' # svc => ~ live /\ svc # "flushed"
    PROVE  Life'
<1>1. /\ UNCHANGED <<stored, rt, calls, live, retired, classifying, queue, tick, status>>
      /\ UNCHANGED <<dirty, timer, saving, finalizing, ending>>
  BY DEF runtimeVars, saveVars
<1>2. svc' = svc \/ ~ saving
  BY DEF Life, Lifecycle, AtRest
<1>3. Lifecycle'
  BY <1>1, <1>2 DEF Life, Lifecycle, AtRest
<1>4. RequestsAwaited'
  BY <1>1, <1>2 DEF Life, RequestsAwaited, NothingUnnoticed
<1>5. NothingForgotten' /\ LetGoSaved'
  BY <1>1 DEF Life, NothingForgotten, LetGoSaved, Saved
<1> QED
  BY <1>3, <1>4, <1>5 DEF Life

LEMMA LifeBeforeStart ==
    ASSUME RecInv, Typed, Life,
           Boot \/ Recover \/ RecoverFails \/ StartSession \/ Join \/ ReadHistory \/ StartFails
    PROVE  Life'
<1>1. UNCHANGED <<runtimeVars, status>>
  BY DEF Boot, Recover, RecoverFails, StartSession, Join, ReadHistory, StartFails, worldVars,
     runVars, runtimeVars
<1>2. start'.stage # "none" => ~ live /\ ~ retired /\ Within(start'.note, stored)
  <2>1. CASE start' = start
    BY <2>1 DEF Life, Lifecycle
  <2>2. CASE Recover /\ start' # start
    BY <2>2, WithinItself DEF Recover, Life, Lifecycle
  <2>3. CASE StartSession /\ start' # start
    BY <2>3, EmptyWithin DEF StartSession, NotStarting, Life, Lifecycle
  <2>4. CASE Join \/ ReadHistory
    BY <2>4 DEF Join, ReadHistory, RecInv, Honest, Life, Lifecycle
  <2>5. CASE StartFails
    BY <2>5 DEF StartFails, NotStarting
  <2> QED
    BY <2>1, <2>2, <2>3, <2>4, <2>5 DEF Boot, RecoverFails
<1>3. svc' # svc => ~ live /\ svc # "flushed"
  BY DEF Boot, Recover, RecoverFails, StartSession, Join, ReadHistory, StartFails, RecoveryDue,
     Life, Lifecycle
<1> QED
  BY <1>1, <1>2, <1>3, LifeStarting

\* Work under way that ends, whatever it records, schedules a write.
LEMMA LifeWorkDone ==
    ASSUME Typed, Life, queue # {} \/ classifying # {}, ScheduleCheckpoint,
           queue' \subseteq queue, classifying' \subseteq classifying,
           UNCHANGED <<stored, calls, status, startVars, tick, saving, finalizing, ending>>
    PROVE  Life'
<1>1. /\ UNCHANGED <<stored, calls, status, svc, start, live, retired, tick>>
      /\ UNCHANGED <<saving, finalizing, ending>>
  BY DEF startVars
<1>2. live /\ finalizing # "sent"
  BY DEF Life, Lifecycle, AtRest
<1>3. \/ svc = "up" /\ finalizing = "no" /\ dirty' /\ (timer' <=> timer \/ ~ saving)
      \/ (svc # "up" \/ finalizing # "no") /\ UNCHANGED <<dirty, timer>>
  BY <1>2 DEF ScheduleCheckpoint, Life, Lifecycle, Typed, Flags
<1>4. Lifecycle'
  BY <1>1, <1>2, <1>3 DEF Life, Lifecycle, AtRest
<1>5. RequestsAwaited'
  <2>1. ~ NothingUnnoticed'
    BY <1>1, <1>3 DEF NothingUnnoticed
  <2> QED
    BY <1>1, <1>2, <2>1 DEF Life, RequestsAwaited
<1>6. NothingForgotten' /\ LetGoSaved'
  BY <1>1, <1>2, <1>3 DEF NothingForgotten, LetGoSaved
<1> QED
  BY <1>4, <1>5, <1>6 DEF Life

LEMMA LifeWorking ==
    ASSUME RecInv, Typed, Life,
           \/ EvaluateQuiet \/ LogNudge \/ EvaluationFails
           \/ \E m \in Messages : Classified(m)
    PROVE  Life'
<1>1. queue # {} \/ classifying # {}
  BY DEF EvaluateQuiet, LogNudge, EvaluationFails, Classified, RecInv, Grid
<1>2. ScheduleCheckpoint /\ queue' \subseteq queue /\ classifying' \subseteq classifying
  BY DEF EvaluateQuiet, LogNudge, EvaluationFails, Classified, EvaluationDone
<1>3. UNCHANGED <<stored, calls, status, startVars, tick, saving, finalizing, ending>>
  BY DEF EvaluateQuiet, LogNudge, EvaluationFails, Classified, worldVars
<1> QED
  BY <1>1, <1>2, <1>3, LifeWorkDone

LEMMA LifeInstall ==
    ASSUME RecInv, Typed, Life, Install
    PROVE  Life'
<1>1. /\ UNCHANGED <<stored, calls, status, saving, finalizing>>
      /\ live' /\ ~ retired' /\ svc' = "up" /\ queue' = {} /\ ending' = "armed"
      /\ start' = NotStarting
  BY DEF Install
<1>2. ~ live /\ ~ saving /\ finalizing = "no" /\ ~ timer /\ Within(start.note, stored)
  BY DEF Install, Life, Lifecycle, AtRest
<1>3. Lifecycle'
  BY <1>1, <1>2 DEF Lifecycle, NotStarting, AtRest
<1>4. RequestsAwaited'
  <2>1. \A c \in calls : ~ c.waiting
    BY <1>2 DEF Life, RequestsAwaited
  <2> QED
    BY <1>1, <2>1 DEF RequestsAwaited
<1>5. NothingForgotten'
  <2> DEFINE new == Replay \ start.note.processed
  <2>1. CASE new = {}
    <3>1. Replay \subseteq start.note.processed
      BY <2>1
    <3>2. Within(Recorded(start.note, Replay, room), stored)
      BY <1>2, <3>1, RecordedWithin
    <3> QED
      BY <1>1, <3>2 DEF Install, NothingForgotten, Saved
  <2>2. CASE new # {} /\ new \subseteq Messages
    BY <2>2 DEF Install, NothingForgotten
  <2>3. CASE ~ (new \subseteq Messages)
    BY <2>3 DEF Install, NothingForgotten
  <2> QED
    BY <2>1, <2>2, <2>3
<1>6. LetGoSaved'
  BY <1>1 DEF LetGoSaved
<1> QED
  BY <1>3, <1>4, <1>5, <1>6 DEF Life

LEMMA LifeDeliver ==
    ASSUME RecInv, Typed, Life, Deliver
    PROVE  Life'
<1> DEFINE e == room[cursor + 1]
<1>1. /\ UNCHANGED <<stored, calls, status, svc, start, live, retired, queue, tick>>
      /\ UNCHANGED <<saving, finalizing, ending>> /\ svc = "up"
  BY DEF Deliver, worldVars
<1>2. CASE ~ live \/ finalizing # "no"
  <2>1. UNCHANGED <<rt, classifying, dirty, timer>>
    BY <1>2 DEF Deliver
  <2> QED
    BY <1>1, <2>1, LifeUnchanged DEF runtimeVars, saveVars, Ended
<1>3. CASE live /\ finalizing = "no" /\ e \in rt.processed
  <2>1. rt' = Recorded(rt, {e}, room) /\ UNCHANGED <<classifying, dirty, timer>>
    BY <1>3 DEF Deliver
  <2>2. \A t : Within(rt, t) => Within(rt', t)
    BY <1>3, <2>1, RecordedWithin
  <2>3. Lifecycle'
    BY <1>1, <2>1 DEF Life, Lifecycle, AtRest
  <2>4. RequestsAwaited'
    BY <1>1, <2>1, <2>2 DEF Life, RequestsAwaited, NothingUnnoticed
  <2>5. NothingForgotten' /\ LetGoSaved'
    BY <1>1, <2>1, <2>2 DEF Life, NothingForgotten, LetGoSaved, Saved
  <2> QED
    BY <2>3, <2>4, <2>5 DEF Life
<1>4. CASE live /\ finalizing = "no" /\ e \notin rt.processed
  <2>1. \/ classifying' # {} /\ UNCHANGED <<dirty, timer>>
        \/ classifying' = classifying /\ dirty' /\ (timer' <=> timer \/ ~ saving)
    BY <1>1, <1>4 DEF Deliver, ScheduleCheckpoint, Typed, Flags
  <2>2. Lifecycle'
    BY <1>1, <1>4, <2>1 DEF Life, Lifecycle
  <2>3. RequestsAwaited'
    <3>1. ~ NothingUnnoticed'
      BY <2>1 DEF NothingUnnoticed
    <3> QED
      BY <1>1, <1>4, <3>1 DEF Life, RequestsAwaited
  <2>4. NothingForgotten' /\ LetGoSaved'
    BY <1>1, <1>4, <2>1 DEF NothingForgotten, LetGoSaved
  <2> QED
    BY <2>2, <2>3, <2>4 DEF Life
<1> QED
  BY <1>2, <1>3, <1>4

LEMMA LifeWindowElapsed ==
    ASSUME RecInv, Typed, Life, WindowElapsed
    PROVE  Life'
<1>1. /\ UNCHANGED <<stored, calls, status, svc, start, live, retired, rt, classifying>>
      /\ UNCHANGED <<dirty, timer, saving, finalizing, ending>>
      /\ queue \subseteq queue'
  BY DEF WindowElapsed, worldVars, startVars, saveVars
<1>2. live /\ finalizing = "no"
  BY DEF WindowElapsed, Life, Lifecycle
<1>3. Lifecycle'
  BY <1>1, <1>2 DEF Life, Lifecycle
<1>4. RequestsAwaited'
  <2>1. NothingUnnoticed' => NothingUnnoticed
    BY <1>1 DEF NothingUnnoticed
  <2> QED
    BY <1>1, <2>1 DEF Life, RequestsAwaited
<1>5. NothingForgotten' /\ LetGoSaved'
  BY <1>1, <1>2 DEF Life, NothingForgotten, LetGoSaved, Saved
<1> QED
  BY <1>3, <1>4, <1>5 DEF Life

LEMMA LifeEnding ==
    ASSUME RecInv, Typed, Life, EndSession \/ Stop
    PROVE  Life'
<1>1. /\ UNCHANGED <<stored, calls, status, start, live, retired, rt, classifying, queue>>
      /\ UNCHANGED <<dirty, saving>> /\ tick' = 0 /\ ending' = "none" /\ svc = "up"
      /\ \/ svc' = svc /\ timer' = timer /\ finalizing' = "draining" /\ ending # "none"
         \/ svc' = "stopping" /\ ~ timer' /\ finalizing' = finalizing
  BY DEF EndSession, Stop, worldVars, startVars
<1>2. Lifecycle'
  BY <1>1 DEF Life, Lifecycle, AtRest
<1>3. RequestsAwaited'
  <2>1. ~ NothingUnnoticed'
    BY <1>1 DEF NothingUnnoticed
  <2>2. finalizing = "sent" => finalizing' = "sent"
    BY <1>1 DEF Life, Lifecycle
  <2> QED
    BY <1>1, <2>1, <2>2 DEF Life, RequestsAwaited
<1>4. NothingForgotten' /\ LetGoSaved'
  BY <1>1 DEF Life, NothingForgotten, LetGoSaved, Saved
<1> QED
  BY <1>2, <1>3, <1>4 DEF Life

\* Nobody waits for a write that is not under way.
LEMMA NobodyWaits ==
    ASSUME Life
    PROVE  /\ ~ saving => \A c \in calls : c.waiting => c.kind # "save"
           /\ finalizing # "sent" => \A c \in calls : c.waiting => c.kind = "save"
  BY DEF Life, RequestsAwaited

\* The request sent carries the runtime's state.
LEMMA LifeSent ==
    ASSUME Typed, Life, NEW kind \in {"save", "final"}, Send(kind, Snapshot(rt)),
           rt' = Snapshot(rt), UNCHANGED <<stored, live, retired, start, status, tick>>,
           IF kind = "save" THEN ~ saving /\ saving' /\ finalizing' = finalizing
                            ELSE finalizing # "sent" /\ finalizing' = "sent" /\ saving' = saving
    PROVE  RequestsAwaited' /\ LetGoSaved'
<1> DEFINE new == [kind |-> kind, snap |-> Snapshot(rt), waiting |-> TRUE]
<1>1. calls' = calls \cup {new} /\ new.kind = kind /\ new.snap = Snapshot(rt)
  BY DEF Send
<1>2. rt \in Snapshots
  BY DEF Typed, CopiesTyped
<1>3. \A c \in calls : Within(rt, c.snap) => Within(rt', c.snap)
  BY <1>2, SnapshotWithin
<1>4. Within(rt', Snapshot(rt))
  BY WithinItself
<1>5. \A c \in calls : c.waiting => (c.kind = "save") # (kind = "save")
  BY NobodyWaits
<1>6. saving => saving'
  BY Zenon
<1>7. \A c, d \in calls' :
         c.waiting /\ d.waiting /\ (c.kind = "save" <=> d.kind = "save") => c = d
  <2> HIDE DEF new
  <2> QED
    BY <1>1, <1>5 DEF Life, RequestsAwaited
<1>8. ASSUME NEW c \in calls', c.waiting
      PROVE  /\ IF c.kind = "save"
                THEN saving' /\ (NothingUnnoticed' => Within(rt', c.snap))
                ELSE finalizing' = "sent" /\ Within(rt', c.snap)
             /\ c.kind = "close" => Within(c.snap, stored')
  <2>1. CASE c = new
    BY <1>1, <1>4, <2>1
  <2>2. CASE c # new
    <3>1. c \in calls
      BY <1>1, <2>2
    <3>2. CASE c.kind = "save"
      <4>1. kind = "final" /\ saving /\ finalizing' = "sent"
        BY <1>5, <1>8, <3>1, <3>2 DEF Life, RequestsAwaited
      <4> QED
        BY <3>2, <4>1 DEF NothingUnnoticed
    <3>3. CASE c.kind # "save"
      BY <1>3, <1>5, <1>8, <3>1, <3>3 DEF Life, RequestsAwaited
    <3> QED
      BY <3>2, <3>3
  <2> QED
    BY <2>1, <2>2
<1>9. RequestsAwaited'
  BY <1>7, <1>8 DEF RequestsAwaited
<1>10. LetGoSaved'
  BY <1>2, SnapshotWithin DEF Life, LetGoSaved, Saved
<1> QED
  BY <1>9, <1>10

LEMMA LifeFlushCheckpoint ==
    ASSUME RecInv, Typed, Life, FlushCheckpoint
    PROVE  Life'
<1>1. /\ UNCHANGED <<stored, status, svc, start, live, retired, classifying, queue, tick>>
      /\ UNCHANGED <<finalizing, ending>> /\ ~ timer' /\ svc = "up"
  BY DEF FlushCheckpoint, startVars
<1>2. live /\ ~ saving
  BY DEF FlushCheckpoint, Life, Lifecycle, AtRest
<1>3. CASE finalizing = "no" /\ dirty
  <2>1. /\ ~ dirty' /\ saving' /\ rt' = Snapshot(rt) /\ Send("save", Snapshot(rt))
    BY <1>3 DEF FlushCheckpoint
  <2>2. RequestsAwaited' /\ LetGoSaved'
    BY <1>1, <1>2, <2>1, LifeSent
  <2>3. Lifecycle'
    BY <1>1, <1>2, <1>3, <2>1 DEF Life, Lifecycle
  <2>4. NothingForgotten'
    BY <2>1 DEF NothingForgotten
  <2> QED
    BY <2>2, <2>3, <2>4 DEF Life
<1>4. CASE ~ (finalizing = "no" /\ dirty)
  <2>1. UNCHANGED <<dirty, saving, rt, calls>>
    BY <1>4 DEF FlushCheckpoint
  <2>2. Lifecycle'
    BY <1>1, <1>2, <2>1 DEF Life, Lifecycle, AtRest
  <2>3. RequestsAwaited'
    BY <1>1, <2>1 DEF Life, RequestsAwaited, NothingUnnoticed
  <2>4. NothingForgotten' /\ LetGoSaved'
    BY <1>1, <1>4, <2>1 DEF Life, NothingForgotten, LetGoSaved, Saved
  <2> QED
    BY <2>2, <2>3, <2>4 DEF Life
<1> QED
  BY <1>3, <1>4

LEMMA LifeFinalize ==
    ASSUME RecInv, Typed, Life, Finalize
    PROVE  Life'
<1>1. /\ UNCHANGED <<stored, status, svc, start, live, retired, classifying, queue, tick>>
      /\ UNCHANGED <<dirty, saving, ending>> /\ ~ timer' /\ ~ saving
      /\ queue = {} /\ classifying = {}
      /\ finalizing = "draining" /\ finalizing' = "sent"
      /\ rt' = Snapshot(rt) /\ Send("final", Snapshot(rt))
  BY DEF Finalize, startVars
<1>2. RequestsAwaited' /\ LetGoSaved'
  BY <1>1, LifeSent
<1>3. Lifecycle'
  BY <1>1 DEF Life, Lifecycle, AtRest
<1>4. NothingForgotten'
  BY <1>1 DEF NothingForgotten
<1> QED
  BY <1>2, <1>3, <1>4 DEF Life

LEMMA LifeStopFlush ==
    ASSUME RecInv, Typed, Life, StopFlush
    PROVE  Life'
<1>1. /\ UNCHANGED <<stored, status, start, live, retired, classifying, queue, tick>>
      /\ UNCHANGED <<dirty, timer, finalizing, ending>> /\ svc = "stopping" /\ svc' = "flushed"
      /\ queue = {} /\ classifying = {} /\ ~ saving
  BY DEF StopFlush
<1>2. ~ timer
  BY <1>1 DEF Life, Lifecycle
<1>3. CASE live
  <2>1. saving' /\ rt' = Snapshot(rt) /\ Send("save", Snapshot(rt))
    BY <1>3 DEF StopFlush
  <2>2. RequestsAwaited' /\ LetGoSaved'
    BY <1>1, <2>1, LifeSent
  <2>3. Lifecycle'
    BY <1>1, <1>2, <1>3, <2>1 DEF Life, Lifecycle, AtRest
  <2>4. NothingForgotten'
    BY <1>1 DEF NothingForgotten
  <2> QED
    BY <2>2, <2>3, <2>4 DEF Life
<1>4. CASE ~ live
  <2>1. UNCHANGED <<saving, rt, calls>>
    BY <1>4 DEF StopFlush
  <2>2. Lifecycle'
    BY <1>1, <1>2, <1>4, <2>1 DEF Life, Lifecycle, AtRest
  <2>3. RequestsAwaited'
    BY <1>1, <2>1 DEF Life, RequestsAwaited, NothingUnnoticed
  <2>4. NothingForgotten' /\ LetGoSaved'
    BY <1>1, <2>1 DEF Life, NothingForgotten, LetGoSaved, Saved
  <2> QED
    BY <2>2, <2>3, <2>4 DEF Life
<1> QED
  BY <1>3, <1>4

LEMMA LifeExit ==
    ASSUME RecInv, Typed, Life, Exit
    PROVE  Life'
<1>1. /\ start' = NotStarting /\ ~ live' /\ ~ retired' /\ classifying' = {} /\ queue' = {}
      /\ tick' = 0 /\ ~ timer' /\ ~ saving' /\ finalizing' = "no" /\ ending' = "none"
  BY DEF Exit, Forget
<1>2. \A c \in calls' : ~ c.waiting
  BY DEF Exit, Abandoned, RecInv, Honest, IsRequest
<1>3. Lifecycle'
  BY <1>1 DEF Lifecycle, AtRest, NotStarting
<1> QED
  BY <1>1, <1>2, <1>3 DEF Life, RequestsAwaited, NothingForgotten, LetGoSaved

\* The write somebody waited for is over.
LEMMA LifeSaveOver ==
    ASSUME Typed, Life, NEW c \in calls, c.waiting, c.kind = "save", NEW failed \in BOOLEAN,
           SaveOver(failed), UNCHANGED <<status, svc, start, tick, rt, classifying, queue>>,
           \A d \in calls' : d.waiting => d \in calls \ {c},
           stored' = stored \/ \A s : Within(s, stored) \/ Within(s, c.snap) => Within(s, stored'),
           failed \/ Within(c.snap, stored')
    PROVE  Life'
<1>1. UNCHANGED <<finalizing, ending, live, retired>> /\ ~ saving'
  BY DEF SaveOver
<1>2. saving /\ (NothingUnnoticed => Within(rt, c.snap))
  BY DEF Life, RequestsAwaited
<1>3. /\ timer' <=> timer \/ (dirty' /\ svc = "up" /\ finalizing = "no")
      /\ dirty' <=> dirty \/ (failed /\ finalizing = "no")
  BY DEF SaveOver, Typed, Flags
<1>4. \A s : Within(s, stored) => Within(s, stored')
  OBVIOUS
<1>5. Lifecycle'
  BY <1>1, <1>2, <1>3, <1>4 DEF Life, Lifecycle, AtRest
<1>6. RequestsAwaited'
  <2>1. \A d \in calls' : d.waiting => d.kind # "save" /\ d \in calls
    BY DEF Life, RequestsAwaited
  <2> QED
    BY <1>1, <1>4, <2>1 DEF Life, RequestsAwaited
<1>7. NothingForgotten'
  <2> SUFFICES ASSUME live, svc = "up", ~ Saved', finalizing = "no", ending # "retry",
                      classifying = {}, queue = {}
               PROVE  timer' /\ dirty'
    BY <1>1 DEF NothingForgotten
  <2>1. CASE failed
    BY <1>3, <2>1
  <2>2. CASE ~ failed
    <3>1. ~ Within(rt, c.snap)
      BY <2>2, WithinBoth DEF Saved
    <3>2. dirty
      BY <1>2, <3>1 DEF NothingUnnoticed
    <3> QED
      BY <1>3, <3>2
  <2> QED
    BY <2>1, <2>2
<1>8. LetGoSaved'
  BY <1>1, <1>4 DEF Life, LetGoSaved, Saved
<1> QED
  BY <1>5, <1>6, <1>7, <1>8 DEF Life

LEMMA LifeCallFails ==
    ASSUME RecInv, Typed, Life, NEW c \in calls, CallFails(c)
    PROVE  Life'
<1>1. /\ UNCHANGED <<stored, status, svc, start, tick, rt, classifying, queue>>
      /\ c.waiting /\ Answered(c, TRUE)
      /\ \A d \in calls' : d.waiting => d \in calls \ {c}
  <2>1. ~ Abandoned(c).waiting
    BY DEF Abandoned, RecInv, Honest, IsRequest
  <2> QED
    BY <2>1 DEF CallFails, runVars
<1>2. CASE c.kind = "save"
  <2>1. SaveOver(TRUE)
    BY <1>1, <1>2 DEF Answered
  <2> QED
    BY <1>1, <1>2, <2>1, LifeSaveOver
<1>3. CASE c.kind # "save"
  <2>1. /\ finalizing' = "no" /\ ending' = "retry"
        /\ UNCHANGED <<live, retired, dirty, timer, saving>>
    BY <1>1, <1>3 DEF Answered, FinalizeOver
  <2>2. finalizing = "sent"
    BY <1>1, <1>3 DEF Life, RequestsAwaited
  <2>3. Lifecycle'
    BY <1>1, <2>1, <2>2 DEF Life, Lifecycle, AtRest
  <2>4. RequestsAwaited'
    <3>1. \A d \in calls' : d.waiting => d.kind = "save" /\ d \in calls
      BY <1>1, <1>3 DEF Life, RequestsAwaited
    <3>2. ~ NothingUnnoticed'
      BY <2>1 DEF NothingUnnoticed
    <3> QED
      BY <1>1, <2>1, <3>1, <3>2 DEF Life, RequestsAwaited
  <2>5. NothingForgotten' /\ LetGoSaved'
    BY <1>1, <2>1 DEF Life, NothingForgotten, LetGoSaved, Saved
  <2> QED
    BY <2>3, <2>4, <2>5 DEF Life
<1> QED
  BY <1>2, <1>3

LEMMA LifeStore ==
    ASSUME RecInv, Typed, Life, NEW c \in calls, Store(c)
    PROVE  Life'
<1>1. /\ UNCHANGED <<status, svc, start, tick, rt, classifying, queue>>
      /\ stored' = Merged(stored, c.snap)
  BY DEF Store, runVars
<1>2. stored \in Snapshots /\ c.snap \in Snapshots /\ c \in Calls
  BY DEF Typed, CopiesTyped, Calls
<1>3. Within(stored, stored') /\ Within(c.snap, stored')
  BY <1>1, <1>2, MergedWithin
<1>4. \A s : Within(s, stored) \/ Within(s, c.snap) => Within(s, stored')
  BY <1>3, WithinBoth
<1>5. c.kind # "close"
  BY DEF Store, Idle
<1>6. CASE c.kind # "final" /\ c.waiting
  <2>1. c.kind = "save" /\ calls' = calls \ {c} /\ SaveOver(FALSE)
    BY <1>2, <1>5, <1>6 DEF Store, Answered, Calls
  <2> QED
    BY <1>1, <1>3, <1>4, <1>6, <2>1, LifeSaveOver
<1>7. CASE c.kind = "final" \/ ~ c.waiting
  <2> DEFINE d == [c EXCEPT !.kind = "close"]
  <2>1. /\ UNCHANGED <<live, retired, dirty, timer, saving, finalizing, ending>>
        /\ calls' \subseteq (calls \ {c}) \cup {d}
        /\ d \in calls' => c.kind = "final" \/ d \in calls
    BY <1>7 DEF Store, saveVars
  <2>2. d.kind = "close" /\ d.snap = c.snap /\ d.waiting = c.waiting
    BY <1>2 DEF Calls
  <2>3. Lifecycle'
    BY <1>1, <1>4, <2>1 DEF Life, Lifecycle, AtRest
  <2>4. ASSUME NEW a \in calls', NEW b \in calls', a.waiting, b.waiting,
               a.kind = "save" <=> b.kind = "save"
        PROVE  a = b
    <3> HIDE DEF d
    <3>1. CASE a # d /\ b # d
      BY <2>1, <2>4, <3>1 DEF Life, RequestsAwaited
    <3>2. d \in calls' /\ c.kind = "final" => \A e \in calls \ {c} : e.waiting /\ c.waiting => e.kind = "save"
      BY DEF Life, RequestsAwaited
    <3>3. d \notin calls
      BY <2>2 DEF Store, Idle
    <3> QED
      BY <2>1, <2>2, <2>4, <3>1, <3>2, <3>3
  <2>5. ASSUME NEW a \in calls', a.waiting
        PROVE  /\ IF a.kind = "save"
                  THEN saving' /\ (NothingUnnoticed' => Within(rt', a.snap))
                  ELSE finalizing' = "sent" /\ Within(rt', a.snap)
               /\ a.kind = "close" => Within(a.snap, stored')
    <3>1. UNCHANGED NothingUnnoticed
      BY <1>1, <2>1 DEF NothingUnnoticed
    <3>2. CASE a \in calls
      BY <1>1, <1>4, <2>1, <2>5, <3>1, <3>2 DEF Life, RequestsAwaited
    <3>3. CASE a = d /\ c.kind = "final"
      BY <1>1, <1>3, <2>1, <2>2, <2>5, <3>3 DEF Life, RequestsAwaited
    <3> QED
      BY <2>1, <3>2, <3>3
  <2>6. RequestsAwaited'
    BY <2>4, <2>5 DEF RequestsAwaited
  <2>7. NothingForgotten' /\ LetGoSaved'
    BY <1>1, <1>4, <2>1 DEF Life, NothingForgotten, LetGoSaved, Saved
  <2> QED
    BY <2>3, <2>6, <2>7 DEF Life
<1> QED
  BY <1>6, <1>7

LEMMA LifeComplete ==
    ASSUME RecInv, Typed, Life, NEW c \in calls, Complete(c)
    PROVE  Life'
<1>1. /\ UNCHANGED <<stored, svc, start, tick, rt, classifying, queue>>
      /\ calls' = calls \ {c} /\ c.kind = "close" /\ Ended'
  BY DEF Complete, Ended, runVars
<1>2. CASE c.waiting
  <2>1. /\ finalizing' = "no" /\ ~ live' /\ retired'
        /\ UNCHANGED <<ending, timer, saving>>
    BY <1>1, <1>2 DEF Complete, Answered, FinalizeOver
  <2>2. finalizing = "sent" /\ Within(rt, c.snap) /\ Within(c.snap, stored)
    BY <1>1, <1>2 DEF Life, RequestsAwaited
  <2>3. Lifecycle'
    BY <1>1, <2>1, <2>2 DEF Life, Lifecycle, AtRest, Ended
  <2>4. RequestsAwaited'
    <3>1. \A d \in calls' : d.waiting => d.kind = "save" /\ d \in calls
      BY <1>1, <1>2 DEF Life, RequestsAwaited
    <3>2. saving => ~ NothingUnnoticed'
      BY <1>1, <2>2 DEF Life, Lifecycle, AtRest, NothingUnnoticed
    <3> QED
      BY <1>1, <2>1, <3>1, <3>2 DEF Life, RequestsAwaited
  <2>5. Saved'
    BY <1>1, <2>2, WithinBoth DEF Saved
  <2>6. NothingForgotten' /\ LetGoSaved'
    BY <2>1, <2>5 DEF NothingForgotten, LetGoSaved
  <2> QED
    BY <2>3, <2>4, <2>6 DEF Life
<1>3. CASE ~ c.waiting
  <2>1. UNCHANGED <<live, retired, dirty, timer, saving, finalizing, ending>>
    BY <1>3 DEF Complete, saveVars
  <2>2. Lifecycle'
    BY <1>1, <2>1 DEF Life, Lifecycle, AtRest, Ended
  <2>3. RequestsAwaited'
    BY <1>1, <2>1 DEF Life, RequestsAwaited, NothingUnnoticed
  <2>4. NothingForgotten' /\ LetGoSaved'
    BY <1>1, <2>1 DEF Life, NothingForgotten, LetGoSaved, Saved
  <2> QED
    BY <2>2, <2>3, <2>4 DEF Life
<1> QED
  BY <1>2, <1>3

LEMMA NextLife ==
    ASSUME RecInv, Typed, Life, Next
    PROVE  Life'
<1>1. CASE Starting
  BY <1>1, LifeBeforeStart, LifeInstall DEF Starting
<1>2. CASE Running
  BY <1>2, LifeDeliver, LifeWindowElapsed, LifeWorking, LifeElsewhere, LifeFlushCheckpoint,
     LifeEnding, LifeFinalize, LifeStopFlush, LifeExit, LifeCallFails DEF Running
<1> QED
  BY <1>1, <1>2, LifeElsewhere, LifeStore, LifeComplete DEF Next

LEMMA InitLife ==
    ASSUME Init
    PROVE  Life
  BY DEF Init, ChatInit, ProcessInit, NotStarting, Life, Lifecycle, AtRest, RequestsAwaited,
     NothingForgotten, LetGoSaved

LEMMA StutterLife ==
    ASSUME Life, UNCHANGED vars
    PROVE  Life'
<1>1. UNCHANGED <<runtimeVars, svc, start>> /\ (Ended => Ended')
  BY DEF vars, worldVars, startVars, runVars, runtimeVars, Ended
<1> QED
  BY <1>1, LifeUnchanged

\* The phases of a discussion's life in one process: who may write, who waits
\* for an answer, and what the answer will be about.
THEOREM LifeKept == Spec => []Life
<1>1. Init => Life
  BY InitLife
<1>2. RecInv /\ Typed /\ Life /\ [Next]_vars => Life'
  BY NextLife, StutterLife
<1> QED
  BY <1>1, <1>2, CopiesGenuine, AlwaysTyped, PTL DEF Spec

\* A live runtime with something unsaved always has a write ahead of it: work
\* that schedules one, the debounce timer, a write in flight that will look at
\* the dirty mark, or the finalize request (scheduleCheckpoint, flushCheckpoint).
THEOREM WorkRemembered == Spec => []NothingForgotten
<1>1. Life => NothingForgotten
  BY DEF Life
<1> QED
  BY <1>1, LifeKept, PTL

\* When the Chat Service lets go of a session (endSession), everything its
\* runtime recorded is in the stored record, although earlier writes may fail,
\* arrive late or be repeated.
THEOREM SavedBeforeLetGo == Spec => []LetGoSaved
<1>1. Life => LetGoSaved
  BY DEF Life
<1> QED
  BY <1>1, LifeKept, PTL

----------------------------------------------------------------------------
(***************************************************************************)
(* The record has no holes                                                 *)
(***************************************************************************)

\* HoleFree, of any room and any dropped events.
Free(r, gone, events) ==
    \A i, j \in DOMAIN r : i < j /\ r[j] \in events => r[i] \in events \cup gone

LEMMA FreeUnion ==
    ASSUME NEW r, NEW gone, NEW e, NEW f, Free(r, gone, e), Free(r, gone, f)
    PROVE  Free(r, gone, e \cup f)
  BY DEF Free

LEMMA FreeGrows ==
    ASSUME NEW r, NEW gone, NEW more, gone \subseteq more, NEW e, Free(r, gone, e)
    PROVE  Free(r, more, e)
  BY DEF Free

LEMMA FreeAppend ==
    ASSUME NEW r \in Seq(Events), NEW gone, NEW e, NEW x \in Events, x \notin e, Free(r, gone, e)
    PROVE  Free(Append(r, x), gone, e)
<1>1. /\ DOMAIN Append(r, x) = DOMAIN r \cup {Len(r) + 1}
      /\ \A i \in DOMAIN r : Append(r, x)[i] = r[i] /\ i < Len(r) + 1
      /\ Append(r, x)[Len(r) + 1] = x
  OBVIOUS
<1> QED
  BY <1>1 DEF Free

\* What was delivered is a beginning of the room.
LEMMA DeliveredFree ==
    ASSUME RecInv, Typed, WindowsApart
    PROVE  /\ Free(room, dropped, Delivered)
           /\ \A i \in DOMAIN room : room[i] \in Delivered <=> i <= cursor
<1>1. cursor \in 0 .. Len(room) /\ DOMAIN room = 1 .. Len(room)
  BY DEF RecInv, Honest, Typed, Bounded
<1>2. \A i, j \in DOMAIN room : room[i] = room[j] => i = j
  BY DEF WindowsApart
<1>3. \A i \in DOMAIN room : room[i] \in Delivered <=> i <= cursor
  BY <1>1, <1>2 DEF Delivered
<1> QED
  BY <1>1, <1>3 DEF Free

LEMMA PrefixesRead ==
    ASSUME PrefixesKept
    PROVE  /\ \A s \in Copies : Free(room, dropped, s.log)
           /\ Free(room, dropped, start.history)
           /\ live => Delivered \subseteq rt.log \cup dropped
           /\ ~ live /\ ~ retired => pending = Delivered
  BY DEF PrefixesKept, HoleFree, Free

\* A step that delivers nothing and starts no runtime.
LEMMA PrefixesUnmoved ==
    ASSUME PrefixesKept, UNCHANGED <<room, dropped, cursor>>,
           \/ UNCHANGED <<live, retired, pending>> /\ rt.log \subseteq rt'.log
           \/ retired' /\ ~ live',
           \A s \in Copies' : s.log = {} \/ \E t, u \in Copies : s.log = t.log \cup u.log,
           start'.history \in {start.history, {}, Items(room)}
    PROVE  PrefixesKept'
<1>1. \A s \in Copies' : Free(room, dropped, s.log)
  <2>1. \A t, u \in Copies : Free(room, dropped, t.log \cup u.log)
    BY PrefixesRead, FreeUnion
  <2>2. Free(room, dropped, {})
    BY DEF Free
  <2>3. ASSUME NEW s \in Copies', NEW e, s.log = e, Free(room, dropped, e)
        PROVE  Free(room, dropped, s.log)
    BY <2>3
  <2> QED
    BY <2>1, <2>2, <2>3, Zenon
<1>2. Free(room, dropped, start'.history)
  <2>1. Free(room, dropped, Items(room)) /\ Free(room, dropped, {})
    BY DEF Free, Items
  <2> QED
    BY <2>1, PrefixesRead
<1>3. UNCHANGED Delivered
  BY DEF Delivered
<1> QED
  BY <1>1, <1>2, <1>3 DEF PrefixesKept, HoleFree, Free

\* More is said: nothing holds it yet.
LEMMA PrefixesSpoken ==
    ASSUME RecInv, Typed, PrefixesKept, NEW e \in Events, e \notin Items(room),
           room' = Append(room, e), UNCHANGED <<stored, rt, calls, startVars, dropped>>
    PROVE  PrefixesKept'
<1>1. room \in Seq(Events) /\ cursor \in 0 .. Len(room)
  BY DEF RecInv, Honest, Typed, Bounded
<1>2. UNCHANGED <<Copies, start, live, retired, pending, cursor>>
  BY DEF startVars, Copies
<1>3. \A s \in Copies : e \notin s.log
  BY DEF RecInv, Honest, Genuine, Copies
<1>4. \A s \in Copies : Free(room', dropped, s.log)
  BY <1>1, <1>3, PrefixesRead, FreeAppend
<1>5. Free(room', dropped, start.history)
  <2>1. e \notin start.history
    BY DEF RecInv, Honest
  <2> QED
    BY <1>1, <2>1, PrefixesRead, FreeAppend
<1>6. UNCHANGED Delivered
  <2>1. \A i \in 1 .. cursor : room'[i] = room[i]
    BY <1>1
  <2> QED
    BY <1>2, <2>1 DEF Delivered
<1> QED
  BY <1>2, <1>4, <1>5, <1>6 DEF PrefixesKept, HoleFree, Free

LEMMA PrefixesSaid ==
    ASSUME RecInv, Typed, WindowsApart, PrefixesKept,
           Post \/ \E e \in Messages \cup Moves : Say(e)
    PROVE  PrefixesKept'
<1>1. CASE Post
  <2>1. NextDue \in queue
    BY <1>1, NextDueFirst DEF Post, RecInv, Grid
  <2>2. NextDue \notin Items(room) /\ NextDue \in Events
    BY <1>1, <2>1, WindowTypes DEF Post, WindowsApart, Events
  <2> QED
    BY <1>1, <2>2, PrefixesSpoken DEF Post, faultVars
<1>2. ASSUME NEW e \in Messages \cup Moves, Say(e)
      PROVE  PrefixesKept'
  <2>1. e \notin Items(room) /\ e \in Events
    BY <1>2 DEF Say, Events
  <2> QED
    BY <1>2, <2>1, PrefixesSpoken DEF Say, runVars, faultVars
<1> QED
  BY <1>1, <1>2

LEMMA PrefixesMoved ==
    ASSUME RecInv, Typed, PrefixesKept,
           \/ Boot \/ Recover \/ RecoverFails \/ StartSession \/ Join \/ ReadHistory
           \/ StartFails \/ WindowElapsed \/ EvaluationFails \/ EndSession \/ Stop
           \/ WindowPasses \/ Publish \/ StartAnswerLost \/ Abort \/ CompleteSession
           \/ \E c \in calls : CallFails(c) \/ Complete(c)
    PROVE  PrefixesKept'
<1>1. \A s \in Copies' : s.log = {} \/ \E t, u \in Copies : s.log = t.log \cup u.log
  <2>1. \A s \in Copies' : s = Empty \/ s \in Copies
    BY CopiesMoved DEF Moving
  <2>2. Empty.log = {}
    BY DEF Empty
  <2> QED
    BY <2>1, <2>2
<1>2. UNCHANGED <<room, dropped, cursor, rt>>
  BY DEF Boot, Recover, RecoverFails, StartSession, Join, ReadHistory, StartFails, WindowElapsed,
     EvaluationFails, EndSession, Stop, WindowPasses, Publish, StartAnswerLost, Abort,
     CompleteSession, CallFails, Complete, worldVars, startVars, runVars, faultVars
<1>3. UNCHANGED <<live, retired, pending>> \/ (retired' /\ ~ live')
  BY DEF Boot, Recover, RecoverFails, StartSession, Join, ReadHistory, StartFails, WindowElapsed,
     EvaluationFails, EndSession, Stop, WindowPasses, Publish, StartAnswerLost, Abort,
     CompleteSession, CallFails, Complete, Answered, SaveOver, FinalizeOver, startVars, saveVars
<1>4. start'.history \in {start.history, {}, Items(room)}
  <2>1. CASE start' = start
    BY <2>1
  <2>2. CASE Recover \/ StartSession \/ StartFails
    <3>1. start' = start \/ start'.history = {}
      BY <2>2 DEF Recover, StartSession, StartFails, NotStarting
    <3> QED
      BY <2>1, <3>1
  <2>3. CASE Join \/ ReadHistory
    BY <2>3 DEF Join, ReadHistory, RecInv, Honest
  <2> QED
    BY <2>1, <2>2, <2>3 DEF Boot, RecoverFails, WindowElapsed,
     EvaluationFails, EndSession, Stop, WindowPasses, Publish, StartAnswerLost, Abort,
     CompleteSession, CallFails, Complete, startVars
<1> QED
  BY <1>1, <1>2, <1>3, <1>4, PrefixesUnmoved

\* The operators that leave the log of a copy as it is.
LEMMA SameLog ==
    ASSUME NEW s \in Snapshots
    PROVE  /\ Snapshot(s).log = s.log
           /\ \A m, v : Judged(s, m, v).log = s.log
           /\ \A m : Unclassified(s, m).log = s.log
           /\ \A w : Evaluated(s, w).log = s.log
  BY DEF Snapshot, Judged, Unclassified, Evaluated, Snapshots

LEMMA PrefixesCarried ==
    ASSUME RecInv, Typed, PrefixesKept,
           \/ StopFlush \/ FlushCheckpoint \/ Finalize \/ EvaluateQuiet \/ LogNudge
           \/ (\E m \in Messages : Classified(m)) \/ (\E c \in calls : Store(c))
    PROVE  PrefixesKept'
<1>1. rt \in Snapshots /\ rt \in Copies /\ stored \in Copies /\ \A c \in calls : c.snap \in Copies
  BY SnapsAreCopies DEF Typed, CopiesTyped
<1>2. \A s \in Copies' : s \in Copies \/ s.log = rt.log
                         \/ \E c \in calls : s.log = stored.log \cup c.snap.log
  <2>1. CASE StopFlush \/ FlushCheckpoint \/ Finalize
    BY <1>1, <2>1, CopiesSent, SameLog
  <2>2. CASE EvaluateQuiet \/ LogNudge
    <3>1. PICK n \in BOOLEAN : Copies' \subseteq Copies \cup {Evaluated(rt, DueWindow(n))}
      BY <2>2, CopiesEvaluated
    <3>2. Evaluated(rt, DueWindow(n)).log = rt.log
      BY <1>1, SameLog
    <3> QED
      BY <3>1, <3>2
  <2>3. ASSUME NEW m \in Messages, Classified(m)
        PROVE  \A s \in Copies' : s \in Copies \/ s.log = rt.log
    BY <1>1, <2>3, CopiesJudged, SameLog
  <2>4. ASSUME NEW c \in calls, Store(c)
        PROVE  \A s \in Copies' : s \in Copies \/ s.log = stored.log \cup c.snap.log
    <3>1. Merged(stored, c.snap).log = stored.log \cup c.snap.log
      BY DEF Merged
    <3> QED
      BY <2>4, <3>1, CopiesStored
  <2> QED
    BY <2>1, <2>2, <2>3, <2>4
<1>3. \A s \in Copies' : s.log = {} \/ \E t, u \in Copies : s.log = t.log \cup u.log
  <2> SUFFICES ASSUME NEW s \in Copies'
               PROVE  \E t, u \in Copies : s.log = t.log \cup u.log
    OBVIOUS
  <2>1. s.log = s.log \cup s.log /\ rt.log = rt.log \cup rt.log
    OBVIOUS
  <2> QED
    BY <1>1, <1>2, <2>1
<1>4. UNCHANGED <<room, dropped, cursor, start>>
  BY DEF StopFlush, FlushCheckpoint, Finalize, EvaluateQuiet, LogNudge, Classified, Store,
     worldVars, startVars, faultVars
<1>5. UNCHANGED <<live, retired, pending>>
  <2>1. CASE StopFlush \/ FlushCheckpoint \/ Finalize \/ EvaluateQuiet \/ LogNudge
             \/ (\E m \in Messages : Classified(m))
    BY <2>1 DEF StopFlush, FlushCheckpoint, Finalize, EvaluateQuiet, LogNudge, Classified, startVars
  <2>2. ASSUME NEW c \in calls, Store(c)
        PROVE  UNCHANGED <<live, retired, pending>>
    <3>1. c.kind \in {"save", "final"}
      BY <2>2 DEF Store, Idle, Typed, CopiesTyped, Calls
    <3> QED
      BY <2>2, <3>1 DEF Store, Answered, SaveOver
  <2> QED
    BY <2>1, <2>2
<1>6. rt'.log = rt.log
  <2>1. CASE StopFlush \/ FlushCheckpoint \/ Finalize
    BY <1>1, <2>1, SameLog DEF StopFlush, FlushCheckpoint, Finalize
  <2>2. CASE EvaluateQuiet \/ LogNudge
    BY <1>1, <2>2, SameLog DEF EvaluateQuiet, LogNudge
  <2>3. CASE \E m \in Messages : Classified(m)
    BY <1>1, <2>3, SameLog DEF Classified
  <2>4. CASE \E c \in calls : Store(c)
    BY <2>4 DEF Store, runVars
  <2> QED
    BY <2>1, <2>2, <2>3, <2>4
<1> QED
  BY <1>3, <1>4, <1>5, <1>6, PrefixesUnmoved

\* A process that ends has delivered nothing of the next one's room.
LEMMA PrefixesExit ==
    ASSUME RecInv, Typed, PrefixesKept, Exit
    PROVE  PrefixesKept'
<1>1. UNCHANGED <<room, dropped>> /\ ~ live' /\ pending' = {} /\ cursor' = 0 /\ start' = NotStarting
  BY DEF Exit, Forget
<1>2. \A s \in Copies' : s \in Copies \/ s.log = {}
  <2>1. Empty.log = {}
    BY DEF Empty
  <2> QED
    BY <2>1, CopiesMoved DEF Moving
<1>3. \A s \in Copies' : Free(room, dropped, s.log)
  BY <1>2, PrefixesRead DEF Free
<1>4. Free(room, dropped, start'.history)
  BY <1>1 DEF Free, NotStarting
<1>5. Delivered' = {}
  BY <1>1 DEF Delivered
<1> QED
  BY <1>1, <1>3, <1>4, <1>5 DEF PrefixesKept, HoleFree, Free

\* What the new runtime holds: the restored copy, the history, the buffer.
LEMMA RecordedLog ==
    ASSUME NEW s, NEW said, Genuine(s, said), NEW events, NEW timeline
    PROVE  Recorded(s, events, timeline).log = s.log \cup events
  BY DEF Genuine, Recorded

LEMMA PrefixesInstall ==
    ASSUME RecInv, Typed, WindowsApart, Lifecycle, PrefixesKept, Install
    PROVE  PrefixesKept'
<1>1. /\ UNCHANGED <<room, dropped, cursor>> /\ live' /\ start' = NotStarting
      /\ rt' = Recorded(start.note, Replay, room)
  BY DEF Install, faultVars
<1>2. ~ live /\ ~ retired
  BY DEF Install, Lifecycle
<1>3. pending = Delivered /\ Free(room, dropped, pending)
  BY <1>2, PrefixesRead, DeliveredFree
<1>4. rt'.log = start.note.log \cup (start.history \cup pending)
  BY <1>1, RecordedLog DEF Replay, RecInv, Honest
<1>5. Free(room, dropped, rt'.log)
  <2>1. Free(room, dropped, start.note.log) /\ Free(room, dropped, start.history)
    BY PrefixesRead, SnapsAreCopies
  <2>2. Free(room, dropped, start.history \cup pending)
    BY <1>3, <2>1, FreeUnion
  <2>3. Free(room, dropped, start.note.log \cup (start.history \cup pending))
    BY <2>1, <2>2, FreeUnion
  <2> QED
    BY <1>4, <2>3, Zenon
<1>6. \A s \in Copies' : s \in Copies \/ s.log = {} \/ s.log = rt'.log
  <2>1. Empty.log = {}
    BY DEF Empty
  <2> QED
    BY <1>1, <2>1, CopiesInstalled
<1>7. \A s \in Copies' : Free(room, dropped, s.log)
  <2>1. Free(room, dropped, {})
    BY DEF Free
  <2> QED
    BY <1>5, <1>6, <2>1, PrefixesRead
<1>8. Free(room, dropped, start'.history)
  BY <1>1 DEF Free, NotStarting
<1>9. Delivered' \subseteq rt'.log
  BY <1>1, <1>3, <1>4 DEF Delivered
<1> QED
  BY <1>1, <1>7, <1>8, <1>9 DEF PrefixesKept, HoleFree, Free

LEMMA PrefixesDeliver ==
    ASSUME RecInv, Typed, WindowsApart, PrefixesKept, Deliver
    PROVE  PrefixesKept'
<1> DEFINE e == room[cursor + 1]
<1>1. /\ UNCHANGED <<room, start, live, retired>> /\ cursor' = cursor + 1
      /\ cursor \in Nat /\ cursor < Len(room) /\ room \in Seq(Events)
  BY DEF Deliver, worldVars, RecInv, Honest
<1>2. Delivered' = Delivered \cup {e}
  BY <1>1 DEF Delivered
<1>3. dropped \subseteq dropped'
  BY DEF Deliver
<1>4. Free(room, dropped', start.history) /\ \A s \in Copies : Free(room, dropped', s.log)
  BY <1>3, PrefixesRead, FreeGrows
<1>5. CASE ~ live
  <2>1. UNCHANGED <<rt, dropped>> /\ pending' = IF retired THEN pending ELSE pending \cup {e}
    BY <1>5 DEF Deliver
  <2>2. Copies' = Copies
    BY <2>1 DEF Deliver, worldVars, Copies
  <2>3. ~ retired => pending' = Delivered'
    BY <1>2, <1>5, <2>1, PrefixesRead
  <2> QED
    BY <1>1, <1>4, <1>5, <2>2, <2>3 DEF PrefixesKept, HoleFree, Free
<1>6. CASE live /\ finalizing # "no"
  <2>1. rt' = rt /\ dropped' = dropped \cup ({e} \ rt.processed)
    BY <1>6 DEF Deliver
  <2>2. Copies' = Copies
    BY <2>1 DEF Deliver, worldVars, Copies
  <2>3. rt.processed \subseteq rt.log
    BY DEF RecInv, Honest, Genuine
  <2>4. Delivered' \subseteq rt'.log \cup dropped'
    BY <1>2, <1>6, <2>1, <2>3, PrefixesRead
  <2> QED
    BY <1>1, <1>4, <1>6, <2>2, <2>4 DEF PrefixesKept, HoleFree, Free
<1>7. CASE live /\ finalizing = "no"
  <2>1. rt' = Recorded(rt, {e}, room) /\ dropped' = dropped
    BY <1>7 DEF Deliver
  <2>2. rt'.log = rt.log \cup {e}
    BY <2>1, RecordedLog DEF RecInv, Honest
  <2>3. Delivered' \subseteq rt'.log \cup dropped'
    BY <1>2, <1>3, <1>7, <2>2, PrefixesRead
  <2>4. Free(room, dropped, rt.log \cup {e})
    <3>1. Free(room, dropped, rt.log) /\ Delivered \subseteq rt.log \cup dropped
      BY <1>7, PrefixesRead, SnapsAreCopies
    <3>2. ASSUME NEW i \in DOMAIN room, NEW j \in DOMAIN room, i < j, room[j] = e
          PROVE  room[i] \in rt.log \cup dropped
      <4>1. j = cursor + 1
        BY <1>1, <3>2 DEF WindowsApart
      <4>2. room[i] \in Delivered
        BY <1>1, <3>2, <4>1 DEF Delivered
      <4> QED
        BY <3>1, <4>2
    <3> QED
      BY <3>1, <3>2 DEF Free
  <2>5. \A s \in Copies' : s \in Copies \/ s = rt'
    BY <2>1, CopiesDelivered
  <2>6. \A s \in Copies' : Free(room, dropped', s.log)
    BY <1>4, <2>1, <2>2, <2>4, <2>5
  <2> QED
    BY <1>1, <1>4, <1>7, <2>3, <2>6 DEF PrefixesKept, HoleFree, Free
<1> QED
  BY <1>5, <1>6, <1>7

LEMMA NextPrefixes ==
    ASSUME RecInv, Typed, WindowsApart, Lifecycle, PrefixesKept, Next
    PROVE  PrefixesKept'
  BY PrefixesSaid, PrefixesMoved, PrefixesCarried, PrefixesExit, PrefixesInstall, PrefixesDeliver
     DEF Next, Starting, Running

LEMMA InitPrefixes ==
    ASSUME Init
    PROVE  PrefixesKept
<1>1. room = <<>> /\ pending = {} /\ cursor = 0 /\ ~ live
  BY DEF Init, ChatInit, ProcessInit
<1>2. Delivered = {}
  BY <1>1 DEF Delivered
<1> QED
  BY <1>1, <1>2 DEF PrefixesKept, HoleFree

LEMMA StutterPrefixes ==
    ASSUME PrefixesKept, UNCHANGED vars
    PROVE  PrefixesKept'
<1>1. UNCHANGED <<room, dropped, cursor, live, retired, pending, start, stored, rt, calls>>
  BY DEF vars, worldVars, startVars, runVars, faultVars
<1>2. UNCHANGED <<Copies, Delivered>>
  BY <1>1 DEF Copies, Delivered
<1> QED
  BY <1>1, <1>2 DEF PrefixesKept, HoleFree

\* Every copy of the record, and what is buffered or read for a start, holds the
\* room from its beginning on, but for what arrived during a finalize.
THEOREM PrefixesAlways == Spec => []PrefixesKept
<1>1. Init => PrefixesKept
  BY InitPrefixes
<1>2. RecInv /\ Typed /\ WindowsApart /\ Life /\ PrefixesKept /\ [Next]_vars => PrefixesKept'
  BY NextPrefixes, StutterPrefixes DEF Life
<1> QED
  BY <1>1, <1>2, CopiesGenuine, AlwaysTyped, BoundariesApart, LifeKept, PTL DEF Spec

\* The stored record has no holes, through any number of crashes, replays of the
\* history, buffered events and late or repeated writes.
THEOREM RecordHasNoHole == Spec => []NoHole
<1>1. PrefixesKept => NoHole
  BY SnapsAreCopies DEF PrefixesKept, HoleFree, NoHole
<1> QED
  BY <1>1, PrefixesAlways, PTL

----------------------------------------------------------------------------
(***************************************************************************)
(* The orders of the copies, and the final ranking                         *)
(***************************************************************************)

LEMMA ItemsOfJoined ==
    ASSUME NEW S, NEW s \in Seq(S), NEW t \in Seq(S)
    PROVE  /\ Items(s \o t) = Items(s) \cup Items(t)
           /\ t = <<>> => s \o t = s
           /\ t # <<>> => s \o t # <<>> /\ (s \o t)[Len(s \o t)] = t[Len(t)]
<1>1. /\ DOMAIN s = 1 .. Len(s) /\ DOMAIN t = 1 .. Len(t) /\ Len(s) \in Nat /\ Len(t) \in Nat
      /\ DOMAIN (s \o t) = 1 .. Len(s) + Len(t) /\ Len(s \o t) = Len(s) + Len(t)
      /\ \A i \in 1 .. Len(s) : (s \o t)[i] = s[i]
      /\ \A i \in 1 .. Len(t) : (s \o t)[Len(s) + i] = t[i]
  OBVIOUS
<1>2. Items(s) \cup Items(t) \subseteq Items(s \o t)
  <2>1. \A i \in 1 .. Len(t) : Len(s) + i \in DOMAIN (s \o t)
    BY <1>1
  <2>2. \A i \in 1 .. Len(s) : i \in DOMAIN (s \o t)
    BY <1>1
  <2> QED
    BY <1>1, <2>1, <2>2 DEF Items
<1>3. Items(s \o t) \subseteq Items(s) \cup Items(t)
  <2> SUFFICES ASSUME NEW i \in DOMAIN (s \o t)
               PROVE  (s \o t)[i] \in Items(s) \cup Items(t)
    BY DEF Items
  <2>1. CASE i <= Len(s)
    BY <1>1, <2>1 DEF Items
  <2>2. CASE i > Len(s)
    <3>1. i - Len(s) \in 1 .. Len(t) /\ Len(s) + (i - Len(s)) = i
      BY <1>1, <2>2
    <3>2. (s \o t)[i] = t[i - Len(s)]
      BY <1>1, <3>1
    <3> QED
      BY <1>1, <3>1, <3>2 DEF Items
  <2> QED
    BY <1>1, <2>1, <2>2
<1>4. t = <<>> => s \o t = s
  OBVIOUS
<1>5. t # <<>> => s \o t # <<>> /\ (s \o t)[Len(s \o t)] = t[Len(t)]
  BY <1>1
<1> QED
  BY <1>2, <1>3, <1>4, <1>5

LEMMA NoItems ==
    ASSUME NEW S, NEW s \in Seq(S)
    PROVE  (Items(s) = {}) <=> (s = <<>>)
<1>1. s # <<>> => s[1] \in Items(s)
  BY DEF Items
<1> QED
  BY <1>1 DEF Items

LEMMA LastIsItem ==
    ASSUME NEW S, NEW s \in Seq(S), s # <<>>
    PROVE  Len(s) \in DOMAIN s /\ s[Len(s)] \in Items(s) /\ s[Len(s)] \in S
  BY DEF Items

\* A ranking history grows by the states it does not have, and ends with the
\* latest of them if the last of the incoming ones is among them.
LEMMA AppendedFacts ==
    ASSUME NEW s \in Seq(Moves), NEW t \in Seq(Moves)
    PROVE  /\ Items(Appended(s, t)) = Items(s) \cup Items(t)
           /\ Items(t) \subseteq Items(s) => Appended(s, t) = s
           /\ t # <<>> /\ t[Len(t)] \notin Items(s) =>
                 /\ Appended(s, t) # <<>>
                 /\ Appended(s, t)[Len(Appended(s, t))] = t[Len(t)]
<1> DEFINE p == Selected(t, Moves \ Items(s))
<1>1. /\ p \in Seq(Moves \cap (Moves \ Items(s)))
      /\ Items(p) = Items(t) \cap (Moves \ Items(s))
      /\ \A i \in DOMAIN t : t[i] \in Moves \ Items(s) =>
            p # <<>> /\ \E j \in DOMAIN t : j >= i /\ t[j] = p[Len(p)]
  BY SelectedFacts
<1>2. Appended(s, t) = s \o p
  BY DEF Appended
<1> HIDE DEF p
<1>3. p \in Seq(Moves)
  BY <1>1
<1>4. Items(t) \subseteq Moves
  BY DEF Items
<1>5. Items(Appended(s, t)) = Items(s) \cup Items(t)
  BY <1>1, <1>2, <1>3, <1>4, ItemsOfJoined
<1>6. Items(t) \subseteq Items(s) => Appended(s, t) = s
  BY <1>1, <1>2, <1>3, NoItems, ItemsOfJoined
<1>7. ASSUME t # <<>>, t[Len(t)] \notin Items(s)
      PROVE  /\ Appended(s, t) # <<>>
             /\ Appended(s, t)[Len(Appended(s, t))] = t[Len(t)]
  <2>1. Len(t) \in DOMAIN t /\ t[Len(t)] \in Moves
    BY <1>7, LastIsItem
  <2>2. p # <<>> /\ \E j \in DOMAIN t : j >= Len(t) /\ t[j] = p[Len(p)]
    BY <1>1, <1>7, <2>1
  <2>3. p[Len(p)] = t[Len(t)]
    BY <2>2
  <2> QED
    BY <1>2, <1>3, <2>2, <2>3, ItemsOfJoined
<1> QED
  BY <1>5, <1>6, <1>7

\* What recording events does to a copy, moves being the new states.
RecordedWith(s, events, timeline, moves) ==
    /\ moves = Selected(timeline, Moves \cap (events \ s.processed))
    /\ Items(moves) = Items(timeline) \cap Moves \cap (events \ s.processed)
    /\ Recorded(s, events, timeline).order = Appended(s.order, moves)
    /\ Recorded(s, events, timeline).processed = s.processed \cup events
    /\ Recorded(s, events, timeline).revision = s.revision

LEMMA RecordedOrder ==
    ASSUME NEW s \in Snapshots, NEW events \in SUBSET Events, NEW timeline \in Seq(Events)
    PROVE  \E moves \in Seq(Moves) : RecordedWith(s, events, timeline, moves)
<1> DEFINE moves == Selected(timeline, Moves \cap (events \ s.processed))
<1>1. /\ moves \in Seq(Events \cap (Moves \cap (events \ s.processed)))
      /\ Items(moves) = Items(timeline) \cap (Moves \cap (events \ s.processed))
  BY SelectedFacts
<1>2. /\ Recorded(s, events, timeline).processed = s.processed \cup events
      /\ Recorded(s, events, timeline).order = Appended(s.order, moves)
      /\ Recorded(s, events, timeline).revision = s.revision
  BY DEF Recorded
<1>3. /\ moves \in Seq(Moves)
      /\ Items(moves) = Items(timeline) \cap Moves \cap (events \ s.processed)
  <2> HIDE DEF moves
  <2> QED
    BY <1>1
<1>4. moves = Selected(timeline, Moves \cap (events \ s.processed))
  OBVIOUS
<1> HIDE DEF moves
<1>5. RecordedWith(s, events, timeline, moves)
  BY <1>2, <1>3, <1>4 DEF RecordedWith
<1> QED
  BY <1>3, <1>5

----------------------------------------------------------------------------
(* What an order holds was processed *)

Held(s) == Items(s.order) \subseteq s.processed

OrdersHeld == \A s \in Copies : Held(s)

LEMMA HeldKept ==
    /\ Held(Empty)
    /\ \A s \in Snapshots : Held(s) =>
          /\ Held(Snapshot(s))
          /\ \A m, v : Held(Judged(s, m, v))
          /\ \A m : Held(Unclassified(s, m))
          /\ \A w : Held(Evaluated(s, w))
<1>1. Held(Empty)
  BY DEF Held, Empty, Items
<1>2. ASSUME NEW s \in Snapshots, Held(s)
      PROVE  /\ Held(Snapshot(s))
             /\ \A m, v : Held(Judged(s, m, v))
             /\ \A m : Held(Unclassified(s, m))
             /\ \A w : Held(Evaluated(s, w))
  BY <1>2 DEF Held, Snapshot, Judged, Unclassified, Evaluated, Snapshots
<1> QED
  BY <1>1, <1>2

LEMMA HeldMerged ==
    ASSUME NEW s \in Snapshots, NEW t \in Snapshots, Held(s), Held(t)
    PROVE  Held(Merged(s, t))
<1>1. /\ Merged(s, t).order = Appended(s.order, t.order)
      /\ Merged(s, t).processed = s.processed \cup t.processed
  BY DEF Merged
<1>2. s.order \in Seq(Moves) /\ t.order \in Seq(Moves)
  BY DEF Snapshots
<1> QED
  BY <1>1, <1>2, AppendedFacts DEF Held

LEMMA HeldRecorded ==
    ASSUME NEW s \in Snapshots, Held(s), NEW events \in SUBSET Events, NEW timeline \in Seq(Events)
    PROVE  Held(Recorded(s, events, timeline))
<1>1. PICK moves \in Seq(Moves) : RecordedWith(s, events, timeline, moves)
  BY RecordedOrder
<1>2. /\ Items(moves) \subseteq events
      /\ Recorded(s, events, timeline).order = Appended(s.order, moves)
      /\ Recorded(s, events, timeline).processed = s.processed \cup events
  BY <1>1 DEF RecordedWith
<1>3. s.order \in Seq(Moves)
  BY DEF Snapshots
<1>4. Items(Appended(s.order, moves)) = Items(s.order) \cup Items(moves)
  BY <1>3, AppendedFacts
<1> QED
  BY <1>2, <1>4 DEF Held

LEMMA NextHeld ==
    ASSUME RecInv, Typed, OrdersHeld, Next
    PROVE  OrdersHeld'
<1>1. /\ rt \in Snapshots /\ stored \in Snapshots /\ start.note \in Snapshots
      /\ \A c \in calls : c.snap \in Snapshots
      /\ Held(rt) /\ Held(stored) /\ Held(start.note) /\ \A c \in calls : Held(c.snap)
  BY SnapsAreCopies DEF Typed, CopiesTyped, Calls, OrdersHeld
<1>2. CASE Moving
  BY <1>2, CopiesMoved, HeldKept DEF OrdersHeld
<1>3. CASE StopFlush \/ FlushCheckpoint \/ Finalize
  BY <1>1, <1>3, CopiesSent, HeldKept DEF OrdersHeld
<1>4. CASE EvaluateQuiet \/ LogNudge
  <2>1. PICK n \in BOOLEAN : Copies' \subseteq Copies \cup {Evaluated(rt, DueWindow(n))}
    BY <1>4, CopiesEvaluated
  <2> QED
    BY <1>1, <2>1, HeldKept DEF OrdersHeld
<1>5. ASSUME NEW m \in Messages, Classified(m)
      PROVE  OrdersHeld'
  BY <1>1, <1>5, CopiesJudged, HeldKept DEF OrdersHeld
<1>6. ASSUME NEW c \in calls, Store(c)
      PROVE  OrdersHeld'
  BY <1>1, <1>6, CopiesStored, HeldMerged DEF OrdersHeld
<1>7. CASE Install
  <2>1. room \in Seq(Events) /\ Replay \in SUBSET Events
    BY DEF Replay, RecInv, Honest, Items
  <2>2. Held(Recorded(start.note, Replay, room))
    BY <1>1, <2>1, HeldRecorded
  <2> QED
    BY <1>7, <2>2, CopiesInstalled, HeldKept DEF OrdersHeld
<1>8. CASE Deliver
  <2>1. room \in Seq(Events) /\ {room[cursor + 1]} \in SUBSET Events
    BY <1>8 DEF Deliver, RecInv, Honest
  <2>2. Held(Recorded(rt, {room[cursor + 1]}, room))
    BY <1>1, <2>1, HeldRecorded
  <2> QED
    BY <1>8, <2>2, CopiesDelivered DEF OrdersHeld
<1> QED
  BY <1>2, <1>3, <1>4, <1>5, <1>6, <1>7, <1>8 DEF Moving, Next, Starting, Running

LEMMA StutterHeld ==
    ASSUME OrdersHeld, UNCHANGED vars
    PROVE  OrdersHeld'
<1>1. Copies' = Copies
  BY DEF vars, worldVars, startVars, runVars, Copies
<1> QED
  BY <1>1 DEF OrdersHeld

LEMMA InitHeld ==
    ASSUME Init
    PROVE  OrdersHeld
  BY HeldKept DEF Init, ChatInit, ProcessInit, NotStarting, Copies, OrdersHeld

----------------------------------------------------------------------------
(* The first life of the Chat Service *)

\* LastIn and Ordered, of any room.
LastOf(r, events, x) ==
    \A i \in DOMAIN r : r[i] \in Moves \cap events => \E j \in DOMAIN r : j >= i /\ r[j] = x

OrderedIn(r, s) ==
    /\ Moves \cap s.log \subseteq Items(s.order)
    /\ s.order # <<>> => LastOf(r, s.log, s.order[Len(s.order)])

\* The parts of FirstLife.
Calm ==
    /\ svc = "up" /\ recovery = "none"
    /\ start.fresh /\ start.stage # "reading"
    /\ start.note = Empty /\ start.history = {}

Untouched ==
    ~ live /\ ~ retired => rt = Empty /\ stored = Empty /\ calls = {} /\ dropped = {}

Heard == dropped \subseteq Delivered /\ rt.log \subseteq Delivered \ dropped

Chained ==
    \A s \in Sent :
        /\ s.revision <= rt.revision /\ s.log \subseteq rt.log
        /\ \A t \in Sent : s.revision <= t.revision => s.log \subseteq t.log

LEMMA FirstLifeParts ==
    /\ FirstLife <=> /\ Calm /\ Untouched /\ Heard /\ Chained
                     /\ \A s \in Sent \cup {rt} : OrderedIn(room, s)
                     /\ LastOf(room, stored.log, ranking)
    /\ FirstLife' <=> /\ Calm' /\ Untouched' /\ Heard' /\ Chained'
                      /\ \A s \in Sent' \cup {rt'} : OrderedIn(room', s)
                      /\ LastOf(room', stored'.log, ranking')
<1>1. FirstLife <=> /\ Calm /\ Untouched /\ Heard /\ Chained
                    /\ \A s \in Sent \cup {rt} : Ordered(s)
                    /\ LastIn(stored, ranking)
  BY DEF FirstLife, Calm, Untouched, Heard, Chained
<1>2. FirstLife' <=> /\ Calm' /\ Untouched' /\ Heard' /\ Chained'
                     /\ \A s \in Sent' \cup {rt'} : Ordered(s)'
                     /\ LastIn(stored, ranking)'
  BY DEF FirstLife, Calm, Untouched, Heard, Chained
<1>3. /\ \A s : Ordered(s) <=> OrderedIn(room, s)
      /\ LastIn(stored, ranking) <=> LastOf(room, stored.log, ranking)
  BY DEF Ordered, OrderedIn, LastIn, LastOf
<1>4. /\ \A s : Ordered(s)' <=> OrderedIn(room', s)
      /\ LastIn(stored, ranking)' <=> LastOf(room', stored'.log, ranking')
  BY DEF Ordered, OrderedIn, LastIn, LastOf
<1> QED
  BY <1>1, <1>2, <1>3, <1>4

\* A step that leaves the record, the room and what the runtime holds.
LEMMA FirstStill ==
    ASSUME FirstLife, Calm', UNCHANGED <<room, stored, ranking, dropped, cursor>>,
           rt'.log = rt.log, rt'.order = rt.order, rt'.revision = rt.revision,
           \A c \in calls' : \E d \in calls : c.snap = d.snap,
           retired' \/ (UNCHANGED <<live, retired>> /\ (live \/ rt' = rt))
    PROVE  FirstLife'
<1>1. Sent' \subseteq Sent /\ Delivered' = Delivered
  BY DEF Sent, Delivered
<1>2. Untouched' /\ Heard' /\ Chained'
  BY <1>1, FirstLifeParts DEF Untouched, Heard, Chained
<1>3. \A s \in Sent' \cup {rt'} : OrderedIn(room', s)
  BY <1>1, FirstLifeParts DEF OrderedIn
<1> QED
  BY <1>2, <1>3, FirstLifeParts

LEMMA FirstMoved ==
    ASSUME RecInv, Typed, Life, FirstLife, ranking' = ranking,
           \/ Boot \/ Recover \/ RecoverFails \/ StartSession \/ Join \/ ReadHistory
           \/ StartFails \/ WindowElapsed \/ EvaluationFails \/ EndSession
           \/ WindowPasses \/ Publish \/ StartAnswerLost \/ Abort \/ CompleteSession
           \/ \E c \in calls : CallFails(c) \/ Complete(c)
    PROVE  FirstLife'
<1>1. Calm
  BY FirstLifeParts
<1>2. ~ Boot /\ ~ Recover /\ ~ RecoverFails /\ ~ ReadHistory
  BY <1>1 DEF Calm, Boot, Recover, RecoverFails, ReadHistory, RecoveryDue
<1>3. UNCHANGED <<room, stored, rt, dropped, cursor>>
  BY <1>2 DEF StartSession, Join, StartFails, WindowElapsed, EvaluationFails, EndSession,
     WindowPasses, Publish, StartAnswerLost, Abort, CompleteSession, CallFails, Complete,
     worldVars, startVars, runVars, faultVars
<1>4. UNCHANGED <<live, retired>> \/ retired'
  BY <1>2 DEF StartSession, Join, StartFails, WindowElapsed, EvaluationFails, EndSession,
     WindowPasses, Publish, StartAnswerLost, Abort, CompleteSession, CallFails, Complete,
     Answered, SaveOver, FinalizeOver, startVars, saveVars
<1>5. \A c \in calls' : \E d \in calls : c.snap = d.snap
  <2>1. CASE \E c \in calls : CallFails(c) \/ Complete(c)
    BY <2>1, RequestAbandoned DEF CallFails, Complete, RecInv, Honest
  <2>2. CASE calls' = calls
    BY <2>2
  <2> QED
    BY <1>2, <2>1, <2>2 DEF StartSession, Join, StartFails, WindowElapsed, EvaluationFails,
       EndSession, WindowPasses, Publish, StartAnswerLost, Abort, CompleteSession, worldVars
<1>6. Calm'
  <2>1. CASE StartSession
    <3>1. svc' = svc /\ recovery' = recovery
      BY <2>1 DEF StartSession
    <3>2. start' = start \/ start' = [NotStarting EXCEPT !.stage = "joining"]
      BY <2>1 DEF StartSession
    <3> QED
      BY <1>1, <3>1, <3>2 DEF Calm, NotStarting
  <2>2. CASE Join
    BY <1>1, <2>2 DEF Join, Calm, RecInv, Honest
  <2>3. CASE StartFails
    BY <1>1, <2>3 DEF StartFails, Calm, NotStarting
  <2>4. CASE UNCHANGED <<svc, recovery, start>>
    BY <1>1, <2>4 DEF Calm
  <2> QED
    BY <1>2, <2>1, <2>2, <2>3, <2>4 DEF WindowElapsed, EvaluationFails, EndSession, WindowPasses,
       Publish, StartAnswerLost, Abort, CompleteSession, CallFails, Complete, startVars
<1> QED
  BY <1>3, <1>4, <1>5, <1>6, FirstStill

LEMMA FirstWorking ==
    ASSUME RecInv, Typed, Life, FirstLife, ranking' = ranking,
           EvaluateQuiet \/ LogNudge \/ \E m \in Messages : Classified(m)
    PROVE  FirstLife'
<1>1. UNCHANGED <<room, stored, calls, dropped, cursor, svc, recovery, start, live, retired>>
  BY DEF EvaluateQuiet, LogNudge, Classified, worldVars, startVars, faultVars
<1>2. live
  <2>1. queue # {} \/ classifying # {}
    BY DEF EvaluateQuiet, LogNudge, Classified, RecInv, Grid
  <2> QED
    BY <2>1 DEF Life, Lifecycle, AtRest
<1>3. rt'.log = rt.log /\ rt'.order = rt.order /\ rt'.revision = rt.revision
  <2>1. rt \in Snapshots
    BY DEF Typed, CopiesTyped
  <2>2. \A w : LET s == Evaluated(rt, w)
               IN  s.log = rt.log /\ s.order = rt.order /\ s.revision = rt.revision
    BY <2>1 DEF Evaluated, Snapshots
  <2>3. \A m, v : LET s == Judged(rt, m, v)
                  IN  s.log = rt.log /\ s.order = rt.order /\ s.revision = rt.revision
    BY <2>1 DEF Judged, Snapshots
  <2>4. \A m : LET s == Unclassified(rt, m)
               IN  s.log = rt.log /\ s.order = rt.order /\ s.revision = rt.revision
    BY <2>1 DEF Unclassified, Snapshots
  <2> QED
    BY <2>2, <2>3, <2>4 DEF EvaluateQuiet, LogNudge, Classified
<1>4. Calm'
  BY <1>1, FirstLifeParts DEF Calm
<1> QED
  BY <1>1, <1>2, <1>3, <1>4, FirstStill

LEMMA FirstSent ==
    ASSUME RecInv, Typed, FirstLife, ranking' = ranking, StopFlush \/ FlushCheckpoint \/ Finalize,
           Lifecycle
    PROVE  FirstLife'
<1>1. /\ UNCHANGED <<room, stored, dropped, cursor, svc, recovery, start, live, retired>>
      /\ live
      /\ \/ UNCHANGED <<rt, calls>>
         \/ /\ rt' = Snapshot(rt)
            /\ \A c \in calls' : c \in calls \/ c.snap = Snapshot(rt)
  <2>1. ~ StopFlush
    BY FirstLifeParts DEF StopFlush, Calm
  <2> QED
    BY <2>1 DEF FlushCheckpoint, Finalize, Send, Lifecycle, AtRest, startVars, faultVars
<1>2. Calm'
  BY <1>1, FirstLifeParts DEF Calm
<1>3. CASE UNCHANGED <<rt, calls>>
  BY <1>1, <1>2, <1>3, FirstStill
<1>4. CASE /\ rt' = Snapshot(rt)
           /\ \A c \in calls' : c \in calls \/ c.snap = Snapshot(rt)
  <2>1. rt'.log = rt.log /\ rt'.order = rt.order /\ rt'.revision = rt.revision + 1
        /\ rt.revision \in Nat
    BY <1>4 DEF Snapshot, Typed, CopiesTyped, Snapshots
  <2>2. \A s \in Sent' : s \in Sent \/ s = rt'
    BY <1>1, <1>4 DEF Sent
  <2>3. \A s \in Sent : s.revision \in Nat
    BY DEF Sent, Typed, CopiesTyped, Calls, Snapshots
  <2>4. Chained'
    BY <2>1, <2>2, <2>3, FirstLifeParts DEF Chained
  <2>5. Untouched' /\ Heard'
    BY <1>1, <2>1, FirstLifeParts DEF Untouched, Heard, Delivered
  <2>6. \A s \in Sent' \cup {rt'} : OrderedIn(room', s)
    BY <1>1, <2>1, <2>2, FirstLifeParts DEF OrderedIn
  <2> QED
    BY <1>1, <1>2, <2>4, <2>5, <2>6, FirstLifeParts
<1> QED
  BY <1>1, <1>3, <1>4

LEMMA LastOfAppend ==
    ASSUME NEW r \in Seq(Events), NEW e \in Events, NEW events, e \notin events, NEW x,
           LastOf(r, events, x)
    PROVE  LastOf(Append(r, e), events, x)
<1>1. /\ DOMAIN Append(r, e) = DOMAIN r \cup {Len(r) + 1}
      /\ \A i \in DOMAIN r : Append(r, e)[i] = r[i]
      /\ Append(r, e)[Len(r) + 1] = e
  OBVIOUS
<1> QED
  BY <1>1 DEF LastOf

\* Somebody speaks, or a nudge is posted: nothing recorded is of it yet.
LEMMA FirstSpoken ==
    ASSUME RecInv, Typed, FirstLife, NEW e \in Events, e \notin Items(room),
           room' = Append(room, e), ranking' = ranking,
           UNCHANGED <<stored, rt, calls, startVars, dropped>>
    PROVE  FirstLife'
<1>1. room \in Seq(Events) /\ cursor \in 0 .. Len(room)
  BY DEF RecInv, Honest, Typed, Bounded
<1>2. UNCHANGED <<stored, rt, calls, dropped, svc, recovery, start, live, retired, cursor>>
  BY DEF startVars
<1>3. Delivered' = Delivered
  <2>1. \A i \in 1 .. cursor : room'[i] = room[i]
    BY <1>1
  <2> QED
    BY <1>2, <2>1 DEF Delivered
<1>4. Sent' = Sent
  BY <1>2 DEF Sent
<1>5. Calm' /\ Untouched' /\ Heard' /\ Chained'
  BY <1>2, <1>3, <1>4, FirstLifeParts DEF Calm, Untouched, Heard, Chained
<1>6. \A s \in Sent \cup {rt} : e \notin s.log
  BY DEF Sent, RecInv, Honest, Genuine
<1>7. \A s \in Sent \cup {rt} : OrderedIn(room', s)
  <2>1. \A s \in Sent \cup {rt} : OrderedIn(room, s)
    BY FirstLifeParts
  <2> QED
    BY <1>1, <1>6, <2>1, LastOfAppend DEF OrderedIn
<1>8. LastOf(room', stored.log, ranking)
  <2>1. LastOf(room, stored.log, ranking) /\ stored \in Sent
    BY FirstLifeParts DEF Sent
  <2> QED
    BY <1>1, <1>6, <2>1, LastOfAppend
<1> QED
  BY <1>2, <1>4, <1>5, <1>7, <1>8, FirstLifeParts

LEMMA FirstSaid ==
    ASSUME RecInv, Typed, WindowsApart, FirstLife, ranking' = ranking,
           Post \/ \E e \in Messages \cup Moves : Say(e)
    PROVE  FirstLife'
<1>1. CASE Post
  <2>1. NextDue \in queue
    BY <1>1, NextDueFirst DEF Post, RecInv, Grid
  <2>2. NextDue \notin Items(room) /\ NextDue \in Events
    BY <1>1, <2>1, WindowTypes DEF Post, WindowsApart, Events
  <2> QED
    BY <1>1, <2>2, FirstSpoken DEF Post, faultVars
<1>2. ASSUME NEW e \in Messages \cup Moves, Say(e)
      PROVE  FirstLife'
  <2>1. e \notin Items(room) /\ e \in Events
    BY <1>2 DEF Say, Events
  <2> QED
    BY <1>2, <2>1, FirstSpoken DEF Say, runVars, faultVars
<1> QED
  BY <1>1, <1>2

\* The runtime of the first start: what was buffered, in the room's order.
LEMMA FirstInstall ==
    ASSUME RecInv, Typed, WindowsApart, Lifecycle, PrefixesKept, FirstLife,
           ranking' = ranking, Install
    PROVE  FirstLife'
<1>1. /\ UNCHANGED <<room, stored, calls, dropped, cursor>> /\ live' /\ start' = NotStarting
      /\ rt' = Recorded(start.note, Replay, room) /\ svc' = "up"
      /\ recovery' = IF recovery = "starting" THEN "none" ELSE recovery
  BY DEF Install, faultVars
<1>2. ~ live /\ ~ retired
  BY DEF Install, Lifecycle
<1>3. stored = Empty /\ calls = {} /\ dropped = {} /\ start.note = Empty /\ Replay = Delivered
  BY <1>2, PrefixesRead, FirstLifeParts DEF Untouched, Calm, Replay
<1>4. Calm'
  BY <1>1, FirstLifeParts DEF Calm, NotStarting
<1>5. room \in Seq(Events) /\ Delivered \subseteq Items(room) /\ Delivered \in SUBSET Events
  <2>1. room \in Seq(Events) /\ cursor \in 0 .. Len(room)
    BY DEF RecInv, Honest, Typed, Bounded
  <2> QED
    BY <2>1 DEF Delivered, Items
<1>6. /\ Empty \in Snapshots /\ Empty.processed = {} /\ Empty.log = {} /\ Empty.revision = 0
      /\ Empty.order \in Seq(Moves) /\ Items(Empty.order) = {} /\ Empty.order = <<>>
  BY EmptyTyped DEF Empty, Items
<1>7. PICK moves \in Seq(Moves) : RecordedWith(Empty, Delivered, room, moves)
  BY <1>5, <1>6, RecordedOrder
<1>8. /\ moves = Selected(room, Moves \cap Delivered)
      /\ Items(moves) = Moves \cap Delivered
      /\ rt'.order = Appended(Empty.order, moves) /\ rt'.revision = 0
  BY <1>1, <1>3, <1>5, <1>6, <1>7 DEF RecordedWith
<1>9. rt'.log = Delivered
  <2>1. rt'.log = start.note.log \cup Replay
    BY <1>1, RecordedLog DEF RecInv, Honest
  <2> QED
    BY <1>3, <1>6, <2>1
<1>10. Items(rt'.order) = Moves \cap Delivered /\ rt'.order \in Seq(Moves)
       /\ (rt'.order # <<>> => moves # <<>> /\ rt'.order[Len(rt'.order)] = moves[Len(moves)])
  <2>0. Items(Appended(Empty.order, moves)) = Items(Empty.order) \cup Items(moves)
    BY <1>6, AppendedFacts
  <2>1. Items(Appended(Empty.order, moves)) = Items(moves)
        /\ Appended(Empty.order, moves) \in Seq(Moves)
    BY <1>6, <2>0, AppendedTyped
  <2>2. rt'.order # <<>> => moves # <<>>
    BY <1>8, <2>1, NoItems
  <2>3. moves # <<>> =>
          Appended(Empty.order, moves)[Len(Appended(Empty.order, moves))] = moves[Len(moves)]
    BY <1>6, AppendedFacts
  <2> QED
    BY <1>8, <2>1, <2>2, <2>3
<1>11. OrderedIn(room, rt')
  <2> DEFINE X == Moves \cap Delivered
  <2>1. \A i \in DOMAIN room : room[i] \in X =>
           \E j \in DOMAIN room : j >= i /\ room[j] = moves[Len(moves)]
    <3>1. moves = Selected(room, X) /\ room \in Seq(Events)
      BY <1>5, <1>8
    <3> HIDE DEF X
    <3> QED
      BY <3>1, SelectedFacts
  <2> QED
    BY <1>9, <1>10, <2>1 DEF OrderedIn, LastOf
<1>12. Sent' = {Empty}
  BY <1>1, <1>3 DEF Sent
<1>13. Chained'
  BY <1>6, <1>8, <1>12 DEF Chained
<1>14. Untouched' /\ Heard'
  BY <1>1, <1>3, <1>9 DEF Untouched, Heard, Delivered
<1>15. OrderedIn(room, Empty) /\ LastOf(room, Empty.log, ranking)
  BY <1>6 DEF OrderedIn, LastOf
<1> QED
  BY <1>1, <1>3, <1>4, <1>11, <1>12, <1>13, <1>14, <1>15, FirstLifeParts

LEMMA FirstDeliver ==
    ASSUME RecInv, Typed, WindowsApart, PrefixesKept, OrdersHeld, FirstLife,
           ranking' = ranking, Deliver
    PROVE  FirstLife'
<1> DEFINE e == room[cursor + 1]
<1>1. /\ UNCHANGED <<room, stored, calls, svc, recovery, start, live, retired>>
      /\ cursor' = cursor + 1
      /\ cursor \in Nat /\ cursor < Len(room) /\ room \in Seq(Events)
  BY DEF Deliver, worldVars, RecInv, Honest
<1>2. Delivered' = Delivered \cup {e} /\ e \notin Delivered
  <2>1. Delivered' = Delivered \cup {e}
    BY <1>1 DEF Delivered
  <2>2. cursor + 1 \in DOMAIN room /\ ~ (cursor + 1 <= cursor)
    BY <1>1
  <2> QED
    BY <2>1, <2>2, DeliveredFree
<1>3. Calm' /\ Sent' = Sent
  BY <1>1, FirstLifeParts DEF Calm, Sent
<1>4. \A s \in Sent : OrderedIn(room, s) /\ LastOf(room, stored.log, ranking)
  BY FirstLifeParts
<1>5. CASE ~ live \/ finalizing # "no"
  <2>1. rt' = rt /\ (dropped' = dropped \/ (live /\ dropped' \subseteq dropped \cup {e}))
        /\ dropped \subseteq dropped'
    BY <1>5 DEF Deliver
  <2>2. Untouched'
    BY <1>1, <2>1, FirstLifeParts DEF Untouched
  <2>3. Heard'
    BY <1>2, <2>1, FirstLifeParts DEF Heard
  <2>4. Chained'
    BY <1>3, <2>1, FirstLifeParts DEF Chained
  <2> QED
    BY <1>1, <1>3, <2>1, <2>2, <2>3, <2>4, FirstLifeParts
<1>6. CASE live /\ finalizing = "no"
  <2>1. rt' = Recorded(rt, {e}, room) /\ dropped' = dropped
    BY <1>6 DEF Deliver
  <2>2. rt \in Snapshots /\ rt.order \in Seq(Moves) /\ {e} \in SUBSET Events
        /\ e \in Items(room) /\ Items(rt.order) \subseteq rt.processed /\ rt.processed \subseteq rt.log
    BY <1>1, NextIsItem, SnapsAreCopies
       DEF Typed, CopiesTyped, Snapshots, OrdersHeld, Held, RecInv, Honest, Genuine
  <2>3. rt'.log = rt.log \cup {e}
    BY <2>1, RecordedLog DEF RecInv, Honest
  <2>4. e \notin rt.processed /\ rt.log \subseteq Delivered
    BY <1>2, <2>2, FirstLifeParts DEF Heard
  <2>5. PICK moves \in Seq(Moves) : RecordedWith(rt, {e}, room, moves)
    BY <1>1, <2>2, RecordedOrder
  <2>6. /\ Items(moves) = {e} \cap Moves
        /\ rt'.order = Appended(rt.order, moves) /\ rt'.revision = rt.revision
    BY <2>1, <2>2, <2>4, <2>5 DEF RecordedWith
  <2>7. Items(rt'.order) = Items(rt.order) \cup ({e} \cap Moves)
    BY <2>2, <2>6, AppendedFacts
  <2>8. OrderedIn(room, rt')
    <3>1. OrderedIn(room, rt)
      BY FirstLifeParts
    <3>2. CASE e \in Moves
      <4>1. moves # <<>>
        BY <2>6, <3>2, NoItems
      <4>2. moves[Len(moves)] = e
        BY <2>6, <4>1, LastIsItem
      <4>3. rt'.order[Len(rt'.order)] = e
        BY <2>2, <2>4, <2>6, <4>1, <4>2, AppendedFacts
      <4>4. \A i \in DOMAIN room : room[i] \in rt.log \cup {e} => i <= cursor + 1
        BY <1>1, <2>4, DeliveredFree DEF WindowsApart
      <4>5. LastOf(room, rt'.log, e)
        BY <1>1, <2>3, <4>4 DEF LastOf
      <4>6. Moves \cap rt'.log \subseteq Items(rt'.order)
        BY <2>3, <2>7, <3>1 DEF OrderedIn
      <4> QED
        BY <4>3, <4>5, <4>6 DEF OrderedIn
    <3>3. CASE e \notin Moves
      <4>1. rt'.order = rt.order
        BY <2>2, <2>6, <3>3, AppendedFacts
      <4> QED
        BY <2>3, <3>1, <3>3, <4>1 DEF OrderedIn, LastOf
    <3> QED
      BY <3>2, <3>3
  <2>9. Chained'
    BY <1>3, <2>3, <2>6, FirstLifeParts DEF Chained
  <2>10. Heard' /\ Untouched'
    BY <1>1, <1>2, <1>6, <2>1, <2>3, FirstLifeParts DEF Heard, Untouched
  <2> QED
    BY <1>1, <1>3, <1>4, <2>8, <2>9, <2>10, FirstLifeParts
<1> QED
  BY <1>5, <1>6

\* Of two copies of which one holds the other's events, the merge has all the
\* edits of both in its order, and ends with the last of them.
LEMMA OrderedMerge ==
    ASSUME NEW r \in Seq(Events), NEW lost, NEW s \in Snapshots, NEW t \in Snapshots,
           OrderedIn(r, s), OrderedIn(r, t), Held(s), Held(t),
           s.processed \subseteq s.log, t.processed \subseteq t.log,
           t.log \subseteq Items(r), t.log \cap lost = {}, Free(r, lost, s.log),
           s.revision <= t.revision => s.log \subseteq t.log,
           t.revision <= s.revision => t.log \subseteq s.log
    PROVE  OrderedIn(r, Merged(s, t))
<1> DEFINE last == t.order[Len(t.order)]
<1>1. /\ Merged(s, t).order = Appended(s.order, t.order)
      /\ Merged(s, t).log = s.log \cup t.log
      /\ s.order \in Seq(Moves) /\ t.order \in Seq(Moves)
      /\ s.revision \in Nat /\ t.revision \in Nat
  BY DEF Merged, Snapshots
<1>2. Items(Merged(s, t).order) = Items(s.order) \cup Items(t.order)
  BY <1>1, AppendedFacts
<1>3. Moves \cap Merged(s, t).log \subseteq Items(Merged(s, t).order)
  BY <1>1, <1>2 DEF OrderedIn
<1>4. Items(t.order) \subseteq Moves /\ Items(s.order) \subseteq s.log /\ Items(t.order) \subseteq t.log
  <2>1. Items(t.order) \subseteq Moves
    BY <1>1 DEF Items
  <2> QED
    BY <2>1 DEF Held
<1>5. CASE t.log \subseteq s.log
  <2>1. Items(t.order) \subseteq Items(s.order)
    BY <1>4, <1>5 DEF OrderedIn
  <2>2. Merged(s, t).order = s.order /\ Merged(s, t).log = s.log
    BY <1>1, <1>5, <2>1, AppendedFacts
  <2> QED
    BY <2>2 DEF OrderedIn
<1>6. CASE s.log \subseteq t.log
  <2>1. Merged(s, t).log = t.log
    BY <1>1, <1>6
  <2>2. CASE t.order = <<>>
    <3>1. Items(t.order) = {}
      BY <1>1, <2>2, NoItems
    <3>2. Moves \cap t.log = {}
      BY <3>1 DEF OrderedIn
    <3> QED
      BY <1>3, <2>1, <3>2 DEF OrderedIn, LastOf
  <2>3. CASE t.order # <<>> /\ last \notin Items(s.order)
    <3>1. Merged(s, t).order[Len(Merged(s, t).order)] = last
      BY <1>1, <2>3, AppendedFacts
    <3> QED
      BY <1>3, <2>1, <2>3, <3>1 DEF OrderedIn
  <2>4. CASE t.order # <<>> /\ last \in Items(s.order)
    <3>1. last \in s.log \cap Moves /\ LastOf(r, t.log, last)
      BY <1>1, <1>4, <2>4, LastIsItem DEF OrderedIn
    <3>2. t.log \cap Moves \subseteq s.log
      <4> SUFFICES ASSUME NEW x \in t.log \cap Moves
                   PROVE  x \in s.log
        OBVIOUS
      <4>1. PICK i \in DOMAIN r : r[i] = x
        BY DEF Items
      <4>2. PICK j \in DOMAIN r : j >= i /\ r[j] = last
        BY <3>1, <4>1 DEF LastOf
      <4>3. i = j \/ i < j
        BY <4>2
      <4> QED
        BY <3>1, <4>1, <4>2, <4>3 DEF Free
    <3>3. Items(t.order) \subseteq Items(s.order)
      BY <1>4, <3>2 DEF OrderedIn
    <3>4. Merged(s, t).order = s.order
      BY <1>1, <3>3, AppendedFacts
    <3>5. \A i \in DOMAIN r : r[i] \in Moves \cap t.log => r[i] \in Moves \cap s.log
      BY <3>2
    <3> QED
      BY <1>3, <2>1, <3>4, <3>5 DEF OrderedIn, LastOf
  <2> QED
    BY <2>2, <2>3, <2>4
<1>7. t.log \subseteq s.log \/ s.log \subseteq t.log
  BY <1>1
<1> QED
  BY <1>5, <1>6, <1>7

\* Then the ranking a merge leaves is the last one of the merged record.
LEMMA LatestMerge ==
    ASSUME NEW r \in Seq(Events), NEW s \in Snapshots, NEW t \in Snapshots, NEW latest,
           OrderedIn(r, t), LastOf(r, s.log, latest),
           s.revision <= t.revision => s.log \subseteq t.log,
           t.revision <= s.revision => t.log \subseteq s.log
    PROVE  LastOf(r, Merged(s, t).log, Latest(latest, s, t))
<1>1. /\ Merged(s, t).log = s.log \cup t.log
      /\ t.order \in Seq(Moves) /\ s.revision \in Nat /\ t.revision \in Nat
      /\ Accepts(t, s) <=> t.revision >= s.revision
  BY DEF Merged, Snapshots, Accepts
<1>2. CASE ~ Accepts(t, s)
  <2>1. Merged(s, t).log = s.log /\ Latest(latest, s, t) = latest
    BY <1>1, <1>2 DEF Latest
  <2> QED
    BY <2>1
<1>3. CASE Accepts(t, s) /\ t.order # <<>>
  <2>1. Merged(s, t).log = t.log /\ Latest(latest, s, t) = t.order[Len(t.order)]
    BY <1>1, <1>3 DEF Latest
  <2> QED
    BY <1>3, <2>1 DEF OrderedIn
<1>4. CASE Accepts(t, s) /\ t.order = <<>>
  <2>1. Merged(s, t).log = t.log
    BY <1>1, <1>4
  <2>2. Moves \cap t.log = {}
    BY <1>1, <1>4, NoItems DEF OrderedIn
  <2> QED
    BY <2>1, <2>2 DEF LastOf
<1> QED
  BY <1>2, <1>3, <1>4

LEMMA FirstStore ==
    ASSUME RecInv, Typed, PrefixesKept, OrdersHeld, FirstLife, NEW c \in calls, Store(c)
    PROVE  FirstLife'
<1> DEFINE t == c.snap
<1>1. /\ UNCHANGED <<room, rt, dropped, cursor, svc, recovery, start>>
      /\ stored' = Merged(stored, t) /\ ranking' = Latest(ranking, stored, t)
  BY DEF Store, runVars, faultVars
<1>2. /\ \A d \in calls' : \E e \in calls : d.snap = e.snap
      /\ UNCHANGED <<live, retired>>
  <2>1. [c EXCEPT !.kind = "close"].snap = c.snap
    BY DEF RecInv, Honest, IsRequest
  <2>2. c.kind \in {"save", "final"}
    BY DEF Store, Idle, Typed, CopiesTyped, Calls
  <2>3. UNCHANGED <<live, retired>>
    BY <2>2, Zenon DEF Store, Answered, SaveOver, saveVars
  <2>4. \A d \in calls' : d \in calls \/ d.snap = c.snap
    BY <2>1 DEF Store
  <2> QED
    BY <2>3, <2>4
<1>3. /\ room \in Seq(Events) /\ stored \in Snapshots /\ t \in Snapshots
      /\ stored \in Sent /\ t \in Sent
      /\ Held(stored) /\ Held(t) /\ OrderedIn(room, stored) /\ OrderedIn(room, t)
  BY SnapsAreCopies, FirstLifeParts
     DEF RecInv, Honest, Typed, CopiesTyped, Calls, Sent, OrdersHeld
<1>4. /\ stored.processed \subseteq stored.log /\ t.processed \subseteq t.log
      /\ t.log \subseteq Items(room)
  BY DEF RecInv, Honest, Genuine
<1>5. Free(room, dropped, stored.log) /\ t.log \cap dropped = {}
  BY <1>3, SnapsAreCopies, PrefixesRead, FirstLifeParts DEF Chained, Heard
<1>6. /\ stored.revision <= t.revision => stored.log \subseteq t.log
      /\ t.revision <= stored.revision => t.log \subseteq stored.log
  BY <1>3, FirstLifeParts DEF Chained
<1> HIDE DEF t
<1>7. OrderedIn(room, stored') /\ LastOf(room, stored'.log, ranking')
  <2>1. OrderedIn(room, Merged(stored, t))
    BY <1>3, <1>4, <1>5, <1>6, OrderedMerge
  <2>2. LastOf(room, Merged(stored, t).log, Latest(ranking, stored, t))
    BY <1>3, <1>6, FirstLifeParts, LatestMerge
  <2> QED
    BY <1>1, <2>1, <2>2
<1>8. \E u \in Sent : stored'.revision = u.revision /\ stored'.log = u.log
  <2>1. stored.revision \in Nat /\ t.revision \in Nat
    BY <1>3 DEF Snapshots
  <2> QED
    BY <1>1, <1>3, <1>6, <2>1 DEF Merged, Accepts
<1>9. \A d \in Sent' : d = stored' \/ d \in Sent
  BY <1>2 DEF Sent
<1>10. Chained'
  <2>1. \A d \in Sent' : \E u \in Sent : d.revision = u.revision /\ d.log = u.log
    BY <1>8, <1>9
  <2> QED
    BY <1>1, <2>1, FirstLifeParts DEF Chained
<1>11. \A s \in Sent' \cup {rt'} : OrderedIn(room', s)
  BY <1>1, <1>7, <1>9, FirstLifeParts
<1>12. Calm' /\ Untouched' /\ Heard'
  BY <1>1, <1>2, FirstLifeParts DEF Calm, Untouched, Heard, Delivered
<1> QED
  BY <1>1, <1>7, <1>10, <1>11, <1>12, FirstLifeParts

LEMMA NextFirst ==
    ASSUME RecInv, Typed, WindowsApart, Life, PrefixesKept, OrdersHeld,
           crashes = 0 => FirstLife, Next, crashes' = 0
    PROVE  FirstLife'
<1>1. ~ Stop /\ ~ Exit /\ FirstLife
  <2>1. crashes \in Nat
    BY DEF Typed, Bounded
  <2>2. ~ Stop
    BY <2>1 DEF Stop
  <2>3. CASE Exit
    <3>1. svc = "flushed" /\ crashes = 0
      BY <2>1, <2>3 DEF Exit
    <3> QED
      BY <3>1, FirstLifeParts DEF Calm
  <2>4. CASE ~ Exit
    <3>1. UNCHANGED crashes
      <4>1. CASE Starting
        BY <4>1 DEF Starting, Boot, Recover, RecoverFails, StartSession, Join, ReadHistory,
           StartFails, Install, Fault, faultVars
      <4>2. CASE Running
        BY <2>2, <2>4, <4>2 DEF Running, Deliver, WindowElapsed, EvaluateQuiet, Post, LogNudge,
           EvaluationFails, FlushCheckpoint, EndSession, Finalize, StopFlush, Classified,
           CallFails, Fault, faultVars
      <4>3. CASE ~ Starting /\ ~ Running
        BY <4>3 DEF Next, Say, WindowPasses, Publish, StartAnswerLost, Abort, CompleteSession,
           Store, Complete, Fault, faultVars
      <4> QED
        BY <4>1, <4>2, <4>3
    <3> QED
      BY <2>2, <2>4, <3>1
  <2> QED
    BY <2>3, <2>4
<1>2. ASSUME NEW c \in calls, Store(c)
      PROVE  FirstLife'
  BY <1>1, <1>2, FirstStore
<1>3. CASE \A c \in calls : ~ Store(c)
  <2>1. ranking' = ranking
    BY <1>3 DEF Next, Say, WindowPasses, Publish, StartAnswerLost, Abort, CompleteSession, Complete
  <2>2. Lifecycle
    BY DEF Life
  <2>3. CASE Install \/ Deliver
    BY <1>1, <2>1, <2>2, <2>3, FirstInstall, FirstDeliver
  <2>4. CASE Post \/ \E e \in Messages \cup Moves : Say(e)
    BY <1>1, <2>1, <2>4, FirstSaid
  <2>5. CASE StopFlush \/ FlushCheckpoint \/ Finalize
    BY <1>1, <2>1, <2>2, <2>5, FirstSent
  <2>6. CASE EvaluateQuiet \/ LogNudge \/ \E m \in Messages : Classified(m)
    BY <1>1, <2>1, <2>6, FirstWorking
  <2>7. CASE \/ Boot \/ Recover \/ RecoverFails \/ StartSession \/ Join \/ ReadHistory
             \/ StartFails \/ WindowElapsed \/ EvaluationFails \/ EndSession
             \/ WindowPasses \/ Publish \/ StartAnswerLost \/ Abort \/ CompleteSession
             \/ \E c \in calls : CallFails(c) \/ Complete(c)
    BY <1>1, <2>1, <2>7, FirstMoved
  <2> QED
    BY <1>1, <1>3, <2>3, <2>4, <2>5, <2>6, <2>7 DEF Next, Starting, Running
<1> QED
  BY <1>2, <1>3

LEMMA InitFirst ==
    ASSUME Init
    PROVE  FirstLife
<1>1. room = <<>> /\ stored = Empty /\ calls = {} /\ rt = Empty /\ dropped = {}
      /\ svc = "up" /\ recovery = "none" /\ start = NotStarting
  BY DEF Init, ChatInit, ProcessInit
<1>2. Calm /\ Untouched
  BY <1>1 DEF Calm, Untouched, NotStarting
<1>3. Empty.log = {} /\ Empty.revision <= Empty.revision
  BY DEF Empty
<1>4. Heard
  BY <1>1, <1>3 DEF Heard
<1>5. Sent = {Empty}
  BY <1>1 DEF Sent
<1>6. Chained
  BY <1>1, <1>3, <1>5 DEF Chained
<1>7. OrderedIn(room, Empty) /\ LastOf(room, Empty.log, ranking)
  BY <1>3 DEF OrderedIn, LastOf
<1> QED
  BY <1>1, <1>2, <1>4, <1>5, <1>6, <1>7, FirstLifeParts

LEMMA StutterFirst ==
    ASSUME crashes = 0 => FirstLife, UNCHANGED vars
    PROVE  crashes' = 0 => FirstLife'
<1>1. UNCHANGED <<room, stored, calls, rt, dropped, svc, recovery, start, live, retired,
                  cursor, ranking, crashes>>
  BY DEF vars, worldVars, startVars, runVars, faultVars
<1>2. Sent' = Sent /\ Delivered' = Delivered
  BY <1>1 DEF Sent, Delivered
<1> QED
  BY <1>1, <1>2, FirstLifeParts DEF Calm, Untouched, Heard, Chained

----------------------------------------------------------------------------

\* What an order holds was processed; and in the first life of the Chat Service
\* every copy's order has all the edits it holds and ends with the last.
THEOREM OrdersAlways == Spec => []OrdersKept
<1>1. OrdersKept <=> OrdersHeld /\ (crashes = 0 => FirstLife)
  BY DEF OrdersKept, OrdersHeld, Held
<1>2. Init => OrdersHeld /\ (crashes = 0 => FirstLife)
  BY InitHeld, InitFirst
<1>3. /\ RecInv /\ Typed /\ WindowsApart /\ Life /\ PrefixesKept
      /\ OrdersHeld /\ (crashes = 0 => FirstLife) /\ [Next]_vars
      => (OrdersHeld /\ (crashes = 0 => FirstLife))'
  BY NextHeld, StutterHeld, NextFirst, StutterFirst
<1> QED
  BY <1>1, <1>2, <1>3, CopiesGenuine, AlwaysTyped, BoundariesApart, LifeKept, PrefixesAlways,
     PTL DEF Spec

\* While the Chat Service has not crashed, a completed session reports the
\* group's last ranking in the record (Latest follows the revision), although
\* snapshots arrive late, repeated or out of order.
THEOREM LastRankingReported == Spec => []FinalRanking
<1>1. OrdersKept => FinalRanking
  BY DEF OrdersKept, FirstLife, LastIn, FinalRanking, RankingIsLast
<1> QED
  BY <1>1, OrdersAlways, PTL

\* The inductive invariant of Discussion holds in every reachable state.
THEOREM Invariance == Spec => []IInv
<1>1. Life => Lifecycle /\ RequestsAwaited /\ NothingForgotten /\ LetGoSaved
  BY DEF Life
<1> QED
  BY <1>1, DiscussionTypes, NothingMarkedUnheld, NudgesPosted, BoundariesApart, LifeKept,
     PrefixesAlways, OrdersAlways, PTL DEF IInv
=============================================================================
