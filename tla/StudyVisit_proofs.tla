-------------------------- MODULE StudyVisit_proofs --------------------------
(***************************************************************************)
(* StudyVisit for any number of tabs and of troubles: its types, that the  *)
(* completion page is only shown once the completion is stored, and that   *)
(* no join loses an entry survey.                                          *)
(***************************************************************************)
EXTENDS StudyVisit, TLAPS

Late == {"chat", "exit", "finish", "done"}

Started == {"running", "completed"}

\* Only a Prolific participant has an arrival record and an outcome, or is to have one.
ProlificOnly ==
    /\ arrived \/ owed \/ outcome # "none" => recruited = "prolific"
    /\ \A t \in Tabs : page[t] = "arrive" => recruited = "prolific"

\* A refreshed tab has a stage to return to.
Restorable == \A t \in Tabs : page[t] = "resume" => progress[t] # "none"

\* A tab that had a seat still has it, or its participation has ended.
SeatOrEnd ==
    /\ \A t \in Tabs :
        \/ page[t] \in {"post", "poll", "restore"} \cup Late
        \/ progress[t] # "none"
        => seat \/ outcome # "none"
    /\ \A t \in Tabs :
        seat /\ (page[t] \in Late \/ progress[t] \in {"chat", "exit", "done"}) => group \in Started

\* A participant with an exit survey stays in a group that has started.
ExitOfStarted == "exit" \in surveys => group \in Started

\* completedAt needs the exit survey, and the last page the completion.
CompletedIsLast ==
    /\ completed => "exit" \in surveys
    /\ \A t \in Tabs : page[t] = "done" \/ progress[t] = "done" =>
        completed /\ (recruited = "prolific" => outcome = "completed")

\* Where the entry survey is while it is not stored.
EntrySomewhere ==
    /\ \A t \in Tabs :
        page[t] \in {"closed", "start", "arrive", "resume", "restore", "survey"} => ~entry[t]
    /\ \A t \in Tabs : seat /\ page[t] = "poll" /\ entry[t] => "entry" \in surveys
    /\ seat /\ "entry" \notin surveys => dropped \/ \E u \in Tabs : entry[u] /\ page[u] \notin Late

IInv ==
    /\ TypeOK
    /\ ProlificOnly
    /\ Restorable
    /\ SeatOrEnd
    /\ ExitOfStarted
    /\ CompletedIsLast
    /\ EntrySomewhere

-----------------------------------------------------------------------------

\* A fault costs one of the troubles that are left.
LEMMA FaultBounded ==
    ASSUME TypeOK, Fault
    PROVE  trouble' \in 0 .. MaxTrouble
  BY TroubleAssumption DEF TypeOK, Fault

\* The seat a join leaves behind is in a session and well typed, resumed or new.
LEMMA TakeSeatTypes ==
    ASSUME TypeOK, NEW t \in Tabs, NEW next, TakeSeat(t, next)
    PROVE  SeatTypes' /\ dropped' \in BOOLEAN /\ UNCHANGED <<over, outcomeVars>>
<1>1. CASE Resumable
  BY <1>1 DEF TypeOK, SeatTypes, TakeSeat, Resumable
<1>2. CASE ~Resumable
  BY <1>2, Zenon DEF TypeOK, SeatTypes, TakeSeat
<1>. QED
  BY <1>1, <1>2

\* The end of a participation takes the record together with its session, or neither.
LEMMA EndedTypes ==
    ASSUME SeatTypes, NEW o, Ended(o)
    PROVE  SeatTypes'
<1>1. CASE group = "forming" /\ seat' = FALSE /\ group' = "none" /\ surveys' = {}
  BY <1>1 DEF SeatTypes, Ended
<1>2. CASE group = "forming" /\ group' = "aborted" /\ UNCHANGED <<seat, surveys>>
  BY <1>2 DEF SeatTypes, Ended
<1>3. CASE UNCHANGED <<seat, group, surveys>>
  BY <1>3 DEF SeatTypes, Ended
<1>. QED
  BY <1>1, <1>2, <1>3 DEF Ended

\* What a tab must know of the server when it shows another page, with or
\* without a new stage, while the server keeps what it has stored.
LEMMA TabMoves ==
    ASSUME IInv, NEW t \in Tabs, NEW p, NEW s,
           page' = [page EXCEPT ![t] = p],
           progress' = [progress EXCEPT ![t] = s],
           UNCHANGED <<recruited, entry, serverVars>>,
           p = "arrive" => recruited = "prolific",
           p = "resume" => s # "none",
           p \in {"post", "poll", "restore"} \cup Late \/ s # "none" => seat \/ outcome # "none",
           seat /\ (p \in Late \/ s \in {"chat", "exit", "done"}) => group \in Started,
           p = "done" \/ s = "done" =>
              completed /\ (recruited = "prolific" => outcome = "completed"),
           p \in {"closed", "start", "arrive", "resume", "restore", "survey"} => ~entry[t],
           p = "poll" /\ seat /\ entry[t] => "entry" \in surveys,
           p \in Late => page[t] \in Late \/ ~entry[t] \/ ~seat \/ "entry" \in surveys
    PROVE  /\ ProlificOnly' /\ Restorable' /\ SeatOrEnd'
           /\ ExitOfStarted' /\ CompletedIsLast' /\ EntrySomewhere'
<1>1. /\ \A u \in Tabs : page'[u] = IF u = t THEN p ELSE page[u]
      /\ \A u \in Tabs : progress'[u] = IF u = t THEN s ELSE progress[u]
  BY DEF IInv, TypeOK, TabTypes
<1>2. UNCHANGED <<recruited, entry, seat, group, owed, surveys, dropped, completed, outcome, arrived>>
  BY DEF serverVars, seatVars, outcomeVars
<1>3. ProlificOnly'
  BY <1>1, <1>2 DEF IInv, ProlificOnly
<1>4. Restorable'
  BY <1>1 DEF IInv, Restorable
<1>5. SeatOrEnd'
  BY <1>1, <1>2 DEF IInv, SeatOrEnd
<1>6. ExitOfStarted' /\ CompletedIsLast'
  BY <1>1, <1>2 DEF IInv, ExitOfStarted, CompletedIsLast
<1>7. EntrySomewhere'
  <2>1. /\ \A u \in Tabs : page'[u] \in {"closed", "start", "arrive", "resume", "restore", "survey"}
                             => ~entry'[u]
        /\ \A u \in Tabs : seat' /\ page'[u] = "poll" /\ entry'[u] => "entry" \in surveys'
    BY <1>1, <1>2 DEF IInv, EntrySomewhere
  <2>2. ASSUME seat, "entry" \notin surveys, ~dropped
        PROVE  \E u \in Tabs : entry[u] /\ page'[u] \notin Late
    <3>1. PICK u \in Tabs : entry[u] /\ page[u] \notin Late
      BY <2>2 DEF IInv, EntrySomewhere
    <3> QED
      BY <3>1, <2>2, <1>1
  <2> QED
    BY <2>1, <2>2, <1>2 DEF EntrySomewhere
<1> QED
  BY <1>3, <1>4, <1>5, <1>6, <1>7

\* A new tab starts without a stage and without a survey.
LEMMA OpenKeeps ==
    ASSUME IInv, NEW t \in Tabs, Open(t)
    PROVE  IInv'
<1>1. TabTypes'
  BY DEF IInv, TypeOK, TabTypes, Open, Goto
<1>2. SeatTypes'
  BY DEF IInv, TypeOK, SeatTypes, Open, seatVars, serverVars
<1>3. TypeOK'
  BY <1>1, <1>2 DEF IInv, TypeOK, Open, seatVars, outcomeVars, checkVars,
        serverVars
<1>4. ProlificOnly'
  BY DEF IInv, TabTypes, TypeOK, ProlificOnly, Open, Goto, seatVars,
        outcomeVars, serverVars
<1>5. Restorable'
  BY DEF IInv, TabTypes, TypeOK, Restorable, Open, Goto
<1>6. SeatOrEnd'
  BY DEF IInv, TabTypes, TypeOK, SeatOrEnd, Late, Started, Open, Goto,
        seatVars, outcomeVars, serverVars
<1>7. ExitOfStarted'
  BY DEF IInv, ExitOfStarted, Started, Open, seatVars, serverVars
<1>8. CompletedIsLast'
  BY DEF IInv, TabTypes, TypeOK, CompletedIsLast, Open, Goto, seatVars,
        outcomeVars, serverVars
<1>9. EntrySomewhere'
  BY DEF IInv, TabTypes, TypeOK, EntrySomewhere, Late, Open, Goto, seatVars,
        serverVars
<1>. QED
  BY <1>1, <1>2, <1>3, <1>4, <1>5, <1>6, <1>7, <1>8, <1>9 DEF IInv

\* A refresh returns to the saved stage; a survey it loses is noted.
LEMMA ReloadKeeps ==
    ASSUME IInv, NEW t \in Tabs, Reload(t)
    PROVE  IInv'
<1>1. TabTypes'
  BY DEF IInv, TypeOK, TabTypes, Reload, Goto, Unload
<1>2. SeatTypes'
  BY DEF IInv, TypeOK, SeatTypes, Reload, Goto, Unload, outcomeVars, checkVars
<1>3. TypeOK'
  BY <1>1, <1>2 DEF IInv, TypeOK, Reload, Unload, outcomeVars, checkVars
<1>4. ProlificOnly'
  BY DEF IInv, TabTypes, TypeOK, ProlificOnly, Reload, Goto, Unload,
        outcomeVars
<1>5. Restorable'
  BY DEF IInv, TabTypes, TypeOK, Restorable, Reload, Goto, Unload
<1>6. SeatOrEnd'
  BY DEF IInv, TabTypes, TypeOK, SeatOrEnd, Late, Started, Reload, Goto,
        Unload, outcomeVars
<1>7. ExitOfStarted'
  BY DEF IInv, TabTypes, TypeOK, ExitOfStarted, Started, Reload, Goto, Unload,
        outcomeVars, checkVars
<1>8. CompletedIsLast'
  BY DEF IInv, TabTypes, TypeOK, CompletedIsLast, Reload, Goto, Unload,
        outcomeVars
<1>9. EntrySomewhere'
  BY DEF IInv, TabTypes, TypeOK, EntrySomewhere, Late, Reload, Goto, Unload
<1>. QED
  BY <1>1, <1>2, <1>3, <1>4, <1>5, <1>6, <1>7, <1>8, <1>9 DEF IInv

\* A closed tab has nothing left; a survey it loses is noted.
LEMMA CloseKeeps ==
    ASSUME IInv, NEW t \in Tabs, Close(t)
    PROVE  IInv'
<1>1. TabTypes'
  BY DEF IInv, TypeOK, TabTypes, Close, Goto, Save, Unload
<1>2. SeatTypes'
  BY DEF IInv, TypeOK, SeatTypes, Close, Goto, Save, Unload, outcomeVars,
        checkVars
<1>3. TypeOK'
  BY <1>1, <1>2 DEF IInv, TypeOK, Close, Unload, outcomeVars, checkVars
<1>4. ProlificOnly'
  BY DEF IInv, TabTypes, TypeOK, ProlificOnly, Close, Goto, Save, Unload,
        outcomeVars
<1>5. Restorable'
  BY DEF IInv, TabTypes, TypeOK, Restorable, Close, Goto, Save, Unload
<1>6. SeatOrEnd'
  BY DEF IInv, TabTypes, TypeOK, SeatOrEnd, Late, Started, Close, Goto, Save,
        Unload, outcomeVars
<1>7. ExitOfStarted'
  BY DEF IInv, TabTypes, TypeOK, ExitOfStarted, Started, Close, Goto, Save,
        Unload, outcomeVars, checkVars
<1>8. CompletedIsLast'
  BY DEF IInv, TabTypes, TypeOK, CompletedIsLast, Close, Goto, Save, Unload,
        outcomeVars
<1>9. EntrySomewhere'
  BY DEF IInv, TabTypes, TypeOK, EntrySomewhere, Late, Close, Goto, Save,
        Unload
<1>. QED
  BY <1>1, <1>2, <1>3, <1>4, <1>5, <1>6, <1>7, <1>8, <1>9 DEF IInv

\* The server only sends a returning participant to a page his group has reached.
LEMMA EnterKeeps ==
    ASSUME IInv, NEW t \in Tabs, Enter(t)
    PROVE  IInv'
<1> DEFINE Onto(p, stage) ==
              page' = [page EXCEPT ![t] = p] /\ progress' = [progress EXCEPT ![t] = stage]
<1>0. /\ page[t] = "start" /\ UNCHANGED <<recruited, entry, serverVars, trouble>>
      /\ \/ Onto("survey", progress[t]) /\ UNCHANGED shown
         \/ /\ recruited = "prolific" /\ Ends(outcome) /\ Onto("ended", progress[t])
            /\ shown' = [shown EXCEPT ![t] = outcome]
         \/ recruited = "prolific" /\ Onto("arrive", progress[t]) /\ UNCHANGED shown
         \/ /\ Resumable /\ UNCHANGED shown
            /\ \/ Onto("restore", progress[t])
               \/ "exit" \notin surveys /\ group = "completed" /\ Onto("exit", "exit")
               \/ "exit" \notin surveys /\ group = "running" /\ Onto("chat", "chat")
               \/ "exit" \notin surveys /\ group = "forming" /\ Onto("join", "waiting")
  <2>1. page' = [page EXCEPT ![t] = page'[t]] /\ progress = [progress EXCEPT ![t] = progress[t]]
    BY DEF Enter, IInv, TypeOK, TabTypes, Goto, ShowOutcome, RestoreSeat
  <2> QED
    BY <2>1, Zenon DEF Enter, Goto, Save, ShowOutcome, RestoreSeat
<1>1. TabTypes'
  <2>1. page[t] = "start" /\ progress[t] \in {"none", "waiting", "chat", "exit", "done"}
    BY <1>0 DEF IInv, TypeOK, TabTypes
  <2>2. entry' \in [Tabs -> BOOLEAN] /\ shown' \in [Tabs -> Outcomes \cup {"none"}]
    BY <1>0 DEF IInv, TypeOK, TabTypes
  <2>3. ASSUME NEW p \in Beating \cup {"closed", "start", "arrive", "resume", "restore", "failed", "done", "ended"},
               NEW stage \in {"none", "waiting", "chat", "exit", "done"}, Onto(p, stage)
        PROVE  TabTypes'
    BY <2>2, <2>3 DEF IInv, TypeOK, TabTypes
  <2> HIDE DEF Onto
  <2> QED
    BY <2>1, <2>3, <1>0 DEF Beating, Waiting
<1>2. SeatTypes'
  BY DEF IInv, TypeOK, SeatTypes, Enter, seatVars, serverVars
<1>3. TypeOK'
  BY <1>1, <1>2 DEF IInv, TypeOK, Outcomes, Enter, Valid, Verify, RestoreSeat,
        seatVars, outcomeVars, checkVars, serverVars
<1>4. /\ ProlificOnly' /\ Restorable' /\ SeatOrEnd'
      /\ ExitOfStarted' /\ CompletedIsLast' /\ EntrySomewhere'
  <2>0. /\ page[t] = "start" /\ ~entry[t]
        /\ progress[t] # "none" => seat \/ outcome # "none"
        /\ seat /\ progress[t] \in {"chat", "exit", "done"} => group \in Started
        /\ progress[t] = "done" =>
             completed /\ (recruited = "prolific" => outcome = "completed")
    BY <1>0 DEF IInv, SeatOrEnd, CompletedIsLast, EntrySomewhere
  <2>1. CASE Onto("survey", progress[t]) \/ Onto("ended", progress[t])
    BY <1>0, <2>0, <2>1, TabMoves DEF Late
  <2>2. CASE recruited = "prolific" /\ Onto("arrive", progress[t])
    BY <1>0, <2>0, <2>2, TabMoves DEF Late
  <2>3. CASE Resumable /\ Onto("restore", progress[t])
    BY <1>0, <2>0, <2>3, TabMoves DEF Late, Resumable
  <2>4. CASE Resumable /\ group = "completed" /\ Onto("exit", "exit")
    BY <1>0, <2>0, <2>4, TabMoves DEF Late, Resumable, Started
  <2>5. CASE Resumable /\ group = "running" /\ Onto("chat", "chat")
    BY <1>0, <2>0, <2>5, TabMoves DEF Late, Resumable, Started
  <2>6. CASE Resumable /\ group = "forming" /\ Onto("join", "waiting")
    BY <1>0, <2>0, <2>6, TabMoves DEF Late, Resumable
  <2> HIDE DEF Onto
  <2> QED
    BY <1>0, <2>1, <2>2, <2>3, <2>4, <2>5, <2>6
<1>. QED
  BY <1>3, <1>4 DEF IInv

\* The arrival record belongs to a Prolific participant.
LEMMA ArriveKeeps ==
    ASSUME IInv, NEW t \in Tabs, Arrive(t)
    PROVE  IInv'
<1>1. TabTypes'
  BY DEF IInv, TypeOK, TabTypes, Waiting, Polling, Beating, Arrive, Goto
<1>2. SeatTypes'
  BY DEF IInv, TypeOK, SeatTypes, Arrive, seatVars
<1>3. TypeOK'
  BY <1>1, <1>2 DEF IInv, TypeOK, Outcomes, Arrive, Valid, Verify, seatVars,
        checkVars
<1>4. ProlificOnly'
  BY DEF IInv, TabTypes, TypeOK, ProlificOnly, Arrive, Goto, seatVars
<1>5. Restorable'
  BY DEF IInv, TabTypes, TypeOK, Restorable, Arrive, Goto
<1>6. SeatOrEnd'
  BY DEF IInv, TabTypes, TypeOK, SeatOrEnd, Late, Started, Arrive, Goto,
        seatVars
<1>7. ExitOfStarted'
  BY DEF IInv, ExitOfStarted, Started, Arrive, seatVars
<1>8. CompletedIsLast'
  BY DEF IInv, TabTypes, TypeOK, CompletedIsLast, Arrive, Goto, seatVars
<1>9. EntrySomewhere'
  BY DEF IInv, TabTypes, TypeOK, EntrySomewhere, Late, Arrive, Goto, seatVars
<1>. QED
  BY <1>1, <1>2, <1>3, <1>4, <1>5, <1>6, <1>7, <1>8, <1>9 DEF IInv

\* A refreshed tab that shows the last page had saved it after the completion.
LEMMA ResumeKeeps ==
    ASSUME IInv, NEW t \in Tabs, Resume(t)
    PROVE  IInv'
<1>1. TabTypes'
  BY DEF IInv, TypeOK, TabTypes, Restorable, Waiting, Polling, Beating, Resume,
        Goto, ShowOutcome
<1>2. SeatTypes'
  BY DEF IInv, TypeOK, SeatTypes, Resume, seatVars, serverVars
<1>3. TypeOK'
  BY <1>1, <1>2 DEF IInv, TypeOK, Outcomes, Resume, Valid, Verify, seatVars,
        outcomeVars, serverVars
<1>4. ProlificOnly'
  BY DEF IInv, TabTypes, TypeOK, ProlificOnly, Resume, Goto, ShowOutcome,
        seatVars, outcomeVars, serverVars
<1>5. Restorable'
  BY DEF IInv, TabTypes, TypeOK, Restorable, Resume, Goto, ShowOutcome
<1>6. SeatOrEnd'
  BY DEF IInv, TabTypes, TypeOK, SeatOrEnd, Late, Started, Resume, Goto,
        ShowOutcome, seatVars, outcomeVars, serverVars
<1>7. ExitOfStarted'
  BY DEF IInv, ExitOfStarted, Started, Resume, seatVars, serverVars
<1>8. CompletedIsLast'
  BY DEF IInv, TabTypes, TypeOK, CompletedIsLast, Resume, Goto, ShowOutcome,
        seatVars, outcomeVars, serverVars
<1>9. EntrySomewhere'
  BY DEF IInv, TabTypes, TypeOK, EntrySomewhere, Late, Resume, Goto,
        ShowOutcome, seatVars, serverVars
<1>. QED
  BY <1>1, <1>2, <1>3, <1>4, <1>5, <1>6, <1>7, <1>8, <1>9 DEF IInv

\* A failing start shows an error and changes no stage.
LEMMA StartFailsKeeps ==
    ASSUME IInv, NEW t \in Tabs, StartFails(t)
    PROVE  IInv'
<1>1. TabTypes'
  BY DEF IInv, TypeOK, TabTypes, StartFails, Goto
<1>2. SeatTypes'
  BY DEF IInv, TypeOK, SeatTypes, StartFails, seatVars
<1>3. TypeOK'
  BY <1>1, <1>2, FaultBounded DEF IInv, TypeOK, StartFails, seatVars, checkVars
<1>4. ProlificOnly'
  BY DEF IInv, TabTypes, TypeOK, ProlificOnly, StartFails, Goto, seatVars
<1>5. Restorable'
  BY DEF IInv, TabTypes, TypeOK, Restorable, StartFails, Goto
<1>6. SeatOrEnd'
  BY DEF IInv, TabTypes, TypeOK, SeatOrEnd, Late, Started, StartFails, Goto,
        seatVars
<1>7. ExitOfStarted'
  BY DEF IInv, ExitOfStarted, Started, StartFails, seatVars
<1>8. CompletedIsLast'
  BY DEF IInv, TabTypes, TypeOK, CompletedIsLast, StartFails, Goto, seatVars
<1>9. EntrySomewhere'
  BY DEF IInv, TabTypes, TypeOK, EntrySomewhere, Late, StartFails, Goto,
        seatVars
<1>. QED
  BY <1>1, <1>2, <1>3, <1>4, <1>5, <1>6, <1>7, <1>8, <1>9 DEF IInv

\* The survey is in memory from now on.
LEMMA CompleteSurveyKeeps ==
    ASSUME IInv, NEW t \in Tabs, CompleteSurvey(t)
    PROVE  IInv'
<1>1. TabTypes'
  BY DEF IInv, TypeOK, TabTypes, Waiting, Polling, Beating, CompleteSurvey,
        Goto
<1>2. SeatTypes'
  BY DEF IInv, TypeOK, SeatTypes, CompleteSurvey, seatVars, serverVars
<1>3. TypeOK'
  BY <1>1, <1>2 DEF IInv, TypeOK, CompleteSurvey, seatVars, outcomeVars,
        checkVars, serverVars
<1>4. ProlificOnly'
  BY DEF IInv, TabTypes, TypeOK, ProlificOnly, CompleteSurvey, Goto, seatVars,
        outcomeVars, serverVars
<1>5. Restorable'
  BY DEF IInv, TabTypes, TypeOK, Restorable, CompleteSurvey, Goto
<1>6. SeatOrEnd'
  BY DEF IInv, TabTypes, TypeOK, SeatOrEnd, Late, Started, CompleteSurvey,
        Goto, seatVars, outcomeVars, serverVars
<1>7. ExitOfStarted'
  BY DEF IInv, ExitOfStarted, Started, CompleteSurvey, seatVars, serverVars
<1>8. CompletedIsLast'
  BY DEF IInv, TabTypes, TypeOK, CompletedIsLast, CompleteSurvey, Goto,
        seatVars, outcomeVars, serverVars
<1>9. EntrySomewhere'
  BY DEF IInv, TabTypes, TypeOK, EntrySomewhere, Late, CompleteSurvey, Goto,
        seatVars, serverVars
<1>. QED
  BY <1>1, <1>2, <1>3, <1>4, <1>5, <1>6, <1>7, <1>8, <1>9 DEF IInv

\* A join that makes a new seat without the survey of the old one still has it in memory,
\* or notes that it is lost.
LEMMA JoinKeeps ==
    ASSUME IInv, NEW t \in Tabs, Join(t)
    PROVE  IInv'
<1>1. TabTypes'
  BY DEF IInv, TypeOK, TabTypes, Waiting, Polling, Beating, Join, Goto, Save,
        TakeSeat
<1>2. SeatTypes'
  <2>1. CASE TakeSeat(t, "post")
    BY <2>1, TakeSeatTypes DEF IInv, TypeOK
  <2>2. CASE UNCHANGED serverVars
    BY <2>2 DEF IInv, TypeOK, SeatTypes, serverVars, seatVars
  <2>. QED
    BY <2>1, <2>2 DEF Join
<1>3. TypeOK'
  BY <1>1, <1>2, TakeSeatTypes DEF IInv, TypeOK, Outcomes, Join, Valid, Verify,
        seatVars, outcomeVars, checkVars, serverVars
<1>4. ProlificOnly'
  BY DEF IInv, TabTypes, SeatTypes, TypeOK, Outcomes, ProlificOnly, Waiting,
        Polling, Beating, Ends, Join, Goto, Save, Valid, Verify, Resumable,
        Admitted, TakeSeat, seatVars, outcomeVars, serverVars
<1>5. Restorable'
  BY DEF IInv, TabTypes, TypeOK, Restorable, Join, Goto, Save, Valid, Verify,
        TakeSeat
<1>6. SeatOrEnd'
  BY DEF IInv, TabTypes, SeatTypes, TypeOK, ProlificOnly, Restorable,
        SeatOrEnd, Late, Started, Ends, Join, Goto, Save, Valid, Verify,
        Resumable, Admitted, TakeSeat, seatVars, outcomeVars, serverVars
<1>7. ExitOfStarted'
  BY DEF IInv, SeatTypes, ProlificOnly, SeatOrEnd, ExitOfStarted,
        CompletedIsLast, EntrySomewhere, Late, Started, Ends, Join, TakeSeat,
        seatVars, serverVars
<1>8. CompletedIsLast'
  BY DEF IInv, TabTypes, SeatTypes, TypeOK, Restorable, ExitOfStarted,
        CompletedIsLast, Started, Ends, Join, Goto, Save, Valid, Verify,
        Resumable, Admitted, TakeSeat, seatVars, outcomeVars, serverVars
<1>9. EntrySomewhere'
  <2>. entry' = entry
    BY DEF Join
  <2>1. CASE Goto(t, "stuck") /\ UNCHANGED serverVars
    BY <2>1 DEF IInv, TypeOK, EntrySomewhere, Late, Goto, serverVars, seatVars
  <2>2. CASE TakeSeat(t, "post")
    <3>2. page'[t] = "post" /\ seat'
      BY <2>2 DEF TakeSeat
    <3>3. \A u \in Tabs : page'[u] \in {page[u], "post", "orphan"}
      BY <2>2 DEF TakeSeat
    <3>4. CASE Resumable
      <4>1. UNCHANGED <<seat, surveys, dropped>> /\ \A u \in Tabs : u # t => page'[u] = page[u]
        BY <2>2, <3>4 DEF TakeSeat, Resumable
      <4>. QED
        BY <3>2, <3>3, <4>1 DEF IInv, EntrySomewhere, Late
    <3>5. CASE ~Resumable
      <4>1. surveys' = {} /\ dropped' = (dropped \/ ~entry[t])
        BY <2>2, <3>5 DEF TakeSeat
      <4>2. \A u \in Tabs : page'[u] # "poll"
        BY <2>2, <3>5 DEF TakeSeat
      <4>3. dropped' \/ entry[t]
        BY <4>1 DEF IInv, TypeOK
      <4>. QED
        BY <3>2, <3>3, <4>2, <4>3 DEF IInv, EntrySomewhere, Late
    <3>. QED
      BY <3>4, <3>5
  <2>. QED
    BY <2>1, <2>2 DEF Join
<1>. QED
  BY <1>1, <1>2, <1>3, <1>4, <1>5, <1>6, <1>7, <1>8, <1>9 DEF IInv

\* The same seat, of which the tab does not know.
LEMMA JoinUnansweredKeeps ==
    ASSUME IInv, NEW t \in Tabs, JoinUnanswered(t)
    PROVE  IInv'
<1>1. TabTypes'
  BY DEF IInv, TypeOK, TabTypes, Waiting, Polling, Beating, JoinUnanswered,
        TakeSeat
<1>2. SeatTypes'
  BY TakeSeatTypes DEF IInv, TypeOK, SeatTypes, JoinUnanswered
<1>3. TypeOK'
  BY <1>1, <1>2, TakeSeatTypes, FaultBounded DEF IInv, TypeOK, Outcomes,
        JoinUnanswered, Valid, Verify, outcomeVars
<1>4. ProlificOnly'
  BY DEF IInv, TabTypes, SeatTypes, TypeOK, Outcomes, ProlificOnly, Ends,
        JoinUnanswered, TakeSeat, outcomeVars
<1>5. Restorable'
  BY DEF IInv, TabTypes, TypeOK, Restorable, JoinUnanswered, TakeSeat
<1>6. SeatOrEnd'
  BY DEF IInv, TabTypes, SeatTypes, TypeOK, ProlificOnly, Restorable,
        SeatOrEnd, Late, Started, Ends, JoinUnanswered, Resumable, Admitted,
        TakeSeat
<1>7. ExitOfStarted'
  BY DEF IInv, SeatTypes, ProlificOnly, SeatOrEnd, ExitOfStarted,
        CompletedIsLast, EntrySomewhere, Late, Started, Ends, JoinUnanswered,
        TakeSeat
<1>8. CompletedIsLast'
  BY DEF IInv, TabTypes, SeatTypes, TypeOK, Restorable, ExitOfStarted,
        CompletedIsLast, Started, Ends, JoinUnanswered, Resumable, Admitted,
        TakeSeat, outcomeVars
<1>9. EntrySomewhere'
  BY DEF IInv, TabTypes, SeatTypes, TypeOK, Restorable, EntrySomewhere, Late,
        Started, Ends, JoinUnanswered, Resumable, Admitted, TakeSeat
<1>. QED
  BY <1>1, <1>2, <1>3, <1>4, <1>5, <1>6, <1>7, <1>8, <1>9 DEF IInv

\* The survey leaves the memory of the tab for the record, and only then the tab polls.
LEMMA PostEntryKeeps ==
    ASSUME IInv, NEW t \in Tabs, PostEntry(t)
    PROVE  IInv'
<1>1. TabTypes'
  BY DEF IInv, TypeOK, TabTypes, Waiting, Polling, Beating, PostEntry, Goto
<1>2. SeatTypes'
  BY DEF IInv, TypeOK, SeatTypes, PostEntry
<1>3. TypeOK'
  BY <1>1, <1>2 DEF IInv, TypeOK, PostEntry, outcomeVars, checkVars
<1>4. ProlificOnly'
  BY DEF IInv, TabTypes, TypeOK, ProlificOnly, PostEntry, Goto, outcomeVars
<1>5. Restorable'
  BY DEF IInv, TabTypes, TypeOK, Restorable, PostEntry, Goto
<1>6. SeatOrEnd'
  BY DEF IInv, TabTypes, TypeOK, SeatOrEnd, Late, Started, PostEntry, Goto,
        outcomeVars
<1>7. ExitOfStarted'
  BY DEF IInv, ExitOfStarted, Started, PostEntry
<1>8. CompletedIsLast'
  BY DEF IInv, TabTypes, TypeOK, CompletedIsLast, PostEntry, Goto, outcomeVars
<1>9. EntrySomewhere'
  BY DEF IInv, TabTypes, TypeOK, EntrySomewhere, Late, PostEntry, Goto
<1>. QED
  BY <1>1, <1>2, <1>3, <1>4, <1>5, <1>6, <1>7, <1>8, <1>9 DEF IInv

\* A failing request leaves the survey in memory.
LEMMA WaitFailsKeeps ==
    ASSUME IInv, NEW t \in Tabs, WaitFails(t)
    PROVE  IInv'
<1>1. TabTypes'
  BY DEF IInv, TypeOK, TabTypes, Waiting, Polling, Beating, WaitFails, Goto
<1>2. SeatTypes'
  BY DEF IInv, TypeOK, SeatTypes, WaitFails, seatVars, serverVars
<1>3. TypeOK'
  BY <1>1, <1>2, FaultBounded DEF IInv, TypeOK, WaitFails, seatVars,
        outcomeVars, checkVars, serverVars
<1>4. ProlificOnly'
  BY DEF IInv, TabTypes, TypeOK, ProlificOnly, WaitFails, Goto, seatVars,
        outcomeVars, serverVars
<1>5. Restorable'
  BY DEF IInv, TabTypes, TypeOK, Restorable, WaitFails, Goto
<1>6. SeatOrEnd'
  BY DEF IInv, TabTypes, TypeOK, SeatOrEnd, Late, Started, WaitFails, Goto,
        seatVars, outcomeVars, serverVars
<1>7. ExitOfStarted'
  BY DEF IInv, ExitOfStarted, Started, WaitFails, seatVars, serverVars
<1>8. CompletedIsLast'
  BY DEF IInv, TabTypes, TypeOK, CompletedIsLast, WaitFails, Goto, seatVars,
        outcomeVars, serverVars
<1>9. EntrySomewhere'
  BY DEF IInv, TabTypes, TypeOK, EntrySomewhere, Late, WaitFails, Goto,
        seatVars, serverVars
<1>. QED
  BY <1>1, <1>2, <1>3, <1>4, <1>5, <1>6, <1>7, <1>8, <1>9 DEF IInv

\* Another try keeps what is in memory.
LEMMA RetryKeeps ==
    ASSUME IInv, NEW t \in Tabs, Retry(t)
    PROVE  IInv'
<1>1. TabTypes'
  BY DEF IInv, TypeOK, TabTypes, Waiting, Polling, Beating, Retry, Goto
<1>2. SeatTypes'
  BY DEF IInv, TypeOK, SeatTypes, Retry, seatVars, serverVars
<1>3. TypeOK'
  BY <1>1, <1>2 DEF IInv, TypeOK, Retry, seatVars, outcomeVars, checkVars,
        serverVars
<1>4. ProlificOnly'
  BY DEF IInv, TabTypes, TypeOK, ProlificOnly, Retry, Goto, seatVars,
        outcomeVars, serverVars
<1>5. Restorable'
  BY DEF IInv, TabTypes, TypeOK, Restorable, Retry, Goto
<1>6. SeatOrEnd'
  BY DEF IInv, TabTypes, TypeOK, SeatOrEnd, Late, Started, Retry, Goto,
        seatVars, outcomeVars, serverVars
<1>7. ExitOfStarted'
  BY DEF IInv, ExitOfStarted, Started, Retry, seatVars, serverVars
<1>8. CompletedIsLast'
  BY DEF IInv, TabTypes, TypeOK, CompletedIsLast, Retry, Goto, seatVars,
        outcomeVars, serverVars
<1>9. EntrySomewhere'
  BY DEF IInv, TabTypes, TypeOK, EntrySomewhere, Late, Retry, Goto, seatVars,
        serverVars
<1>. QED
  BY <1>1, <1>2, <1>3, <1>4, <1>5, <1>6, <1>7, <1>8, <1>9 DEF IInv

\* The discussion opens for a tab that has passed PostEntry, in a group that has started.
LEMMA PollKeeps ==
    ASSUME IInv, NEW t \in Tabs, Poll(t)
    PROVE  IInv'
<1>1. TabTypes'
  BY DEF IInv, TypeOK, TabTypes, Waiting, Polling, Beating, Poll, Goto, Save,
        ShowOutcome, ReadOutcome
<1>2. SeatTypes'
  BY DEF IInv, TypeOK, SeatTypes, Poll, seatVars, serverVars
<1>3. TypeOK'
  BY <1>1, <1>2 DEF IInv, TypeOK, Outcomes, Poll, Valid, Verify, ReadOutcome,
        seatVars, outcomeVars, checkVars, serverVars
<1>4. /\ ProlificOnly' /\ Restorable' /\ SeatOrEnd'
      /\ ExitOfStarted' /\ CompletedIsLast' /\ EntrySomewhere'
  <2> DEFINE Onto(p, stage) ==
              page' = [page EXCEPT ![t] = p] /\ progress' = [progress EXCEPT ![t] = stage]
  <2>1. /\ UNCHANGED <<recruited, entry, serverVars>>
        /\ \/ /\ page[t] = "poll" /\ Onto("chat", "chat")
              /\ group \in {"running", "completed"} \/ ~seat
           \/ Onto("ended", progress[t])
           \/ Onto("stuck", progress[t])
    <3>1. progress = [progress EXCEPT ![t] = progress[t]]
      BY DEF IInv, TypeOK, TabTypes
    <3> QED
      BY <3>1, Zenon DEF Poll, Goto, Save, ShowOutcome, ReadOutcome
  <2>2. /\ progress[t] # "none" => seat \/ outcome # "none"
        /\ seat /\ progress[t] \in {"chat", "exit", "done"} => group \in Started
        /\ progress[t] = "done" =>
             completed /\ (recruited = "prolific" => outcome = "completed")
    BY DEF IInv, SeatOrEnd, CompletedIsLast
  <2>3. CASE Onto("ended", progress[t]) \/ Onto("stuck", progress[t])
    BY <2>1, <2>2, <2>3, TabMoves DEF Late
  <2>4. CASE /\ page[t] = "poll" /\ Onto("chat", "chat")
             /\ group \in {"running", "completed"} \/ ~seat
    <3>1. seat \/ outcome # "none"
      BY <2>4 DEF IInv, SeatOrEnd
    <3>2. seat /\ entry[t] => "entry" \in surveys
      BY <2>4 DEF IInv, EntrySomewhere
    <3> QED
      BY <2>1, <2>4, <3>1, <3>2, TabMoves DEF Late, Started
  <2> HIDE DEF Onto
  <2> QED
    BY <2>1, <2>3, <2>4
<1>. QED
  BY <1>3, <1>4 DEF IInv

\* The exit survey follows the discussion, in a group that has started.
LEMMA TimeUpKeeps ==
    ASSUME IInv, NEW t \in Tabs, TimeUp(t)
    PROVE  IInv'
<1>1. TabTypes'
  BY DEF IInv, TypeOK, TabTypes, Waiting, Polling, Beating, TimeUp, Goto, Save
<1>2. SeatTypes'
  BY DEF IInv, TypeOK, SeatTypes, TimeUp, seatVars, serverVars
<1>3. TypeOK'
  BY <1>1, <1>2 DEF IInv, TypeOK, TimeUp, seatVars, outcomeVars, checkVars,
        serverVars
<1>4. ProlificOnly'
  BY DEF IInv, TabTypes, TypeOK, ProlificOnly, TimeUp, Goto, Save, seatVars,
        outcomeVars, serverVars
<1>5. Restorable'
  BY DEF IInv, TabTypes, TypeOK, Restorable, TimeUp, Goto, Save
<1>6. SeatOrEnd'
  BY DEF IInv, TabTypes, TypeOK, SeatOrEnd, Late, Started, TimeUp, Goto, Save,
        seatVars, outcomeVars, serverVars
<1>7. ExitOfStarted'
  BY DEF IInv, ExitOfStarted, Started, TimeUp, seatVars, serverVars
<1>8. CompletedIsLast'
  BY DEF IInv, TabTypes, TypeOK, CompletedIsLast, TimeUp, Goto, Save, seatVars,
        outcomeVars, serverVars
<1>9. EntrySomewhere'
  BY DEF IInv, TabTypes, TypeOK, EntrySomewhere, Late, TimeUp, Goto, Save,
        seatVars, serverVars
<1>. QED
  BY <1>1, <1>2, <1>3, <1>4, <1>5, <1>6, <1>7, <1>8, <1>9 DEF IInv

\* The exit survey is stored for a seat in a group that has started.
LEMMA SubmitExitKeeps ==
    ASSUME IInv, NEW t \in Tabs, SubmitExit(t)
    PROVE  IInv'
<1>1. TabTypes'
  BY DEF IInv, TypeOK, TabTypes, Waiting, Polling, Beating, SubmitExit, Goto
<1>2. SeatTypes'
  BY DEF IInv, TypeOK, SeatTypes, SubmitExit
<1>3. TypeOK'
  BY <1>1, <1>2 DEF IInv, TypeOK, SubmitExit, outcomeVars, checkVars
<1>4. ProlificOnly'
  BY DEF IInv, TabTypes, TypeOK, ProlificOnly, SubmitExit, Goto, outcomeVars
<1>5. Restorable'
  BY DEF IInv, TabTypes, TypeOK, Restorable, SubmitExit, Goto
<1>6. SeatOrEnd'
  BY DEF IInv, TabTypes, TypeOK, SeatOrEnd, Late, Started, SubmitExit, Goto
<1>7. ExitOfStarted'
  BY DEF IInv, SeatTypes, ProlificOnly, SeatOrEnd, ExitOfStarted,
        CompletedIsLast, EntrySomewhere, Late, Started, Ends, SubmitExit
<1>8. CompletedIsLast'
  BY DEF IInv, TabTypes, TypeOK, CompletedIsLast, SubmitExit, Goto, outcomeVars
<1>9. EntrySomewhere'
  BY DEF IInv, TabTypes, TypeOK, EntrySomewhere, Late, SubmitExit, Goto
<1>. QED
  BY <1>1, <1>2, <1>3, <1>4, <1>5, <1>6, <1>7, <1>8, <1>9 DEF IInv

\* The last page is saved in the step that learns of the completion.
LEMMA FinishKeeps ==
    ASSUME IInv, NEW t \in Tabs, Finish(t)
    PROVE  IInv'
<1>1. TabTypes'
  BY DEF IInv, TypeOK, TabTypes, Waiting, Polling, Beating, Finish, Goto, Save,
        Unfinished
<1>2. SeatTypes'
  BY DEF IInv, TypeOK, SeatTypes, Finish, seatVars
<1>3. TypeOK'
  BY <1>1, <1>2 DEF IInv, TypeOK, Outcomes, Finish, Complete, Unfinished,
        seatVars, outcomeVars, checkVars
<1>4. ProlificOnly'
  BY DEF IInv, TabTypes, SeatTypes, TypeOK, Outcomes, ProlificOnly, Ends,
        Finish, Goto, Save, Completable, Complete, Unfinished, seatVars
<1>5. Restorable'
  BY DEF IInv, TabTypes, TypeOK, Restorable, Finish, Goto, Save, Completable,
        Complete, Unfinished
<1>6. SeatOrEnd'
  BY DEF IInv, TabTypes, SeatTypes, TypeOK, Outcomes, ProlificOnly, SeatOrEnd,
        ExitOfStarted, CompletedIsLast, EntrySomewhere, Late, Started, Ends,
        Finish, Goto, Save, Completable, Complete, Unfinished, seatVars,
        outcomeVars, checkVars
<1>7. ExitOfStarted'
  BY DEF IInv, ExitOfStarted, Started, Finish, seatVars
<1>8. CompletedIsLast'
  BY DEF IInv, TabTypes, SeatTypes, TypeOK, ExitOfStarted, CompletedIsLast,
        Started, Ends, Finish, Goto, Save, Completable, Complete, Unfinished,
        seatVars, outcomeVars
<1>9. EntrySomewhere'
  BY DEF IInv, TabTypes, SeatTypes, TypeOK, EntrySomewhere, Late, Started,
        Ends, Finish, Goto, Save, Completable, Complete, Unfinished, seatVars
<1>. QED
  BY <1>1, <1>2, <1>3, <1>4, <1>5, <1>6, <1>7, <1>8, <1>9 DEF IInv

\* An unanswered completion does not show the last page.
LEMMA FinishUnansweredKeeps ==
    ASSUME IInv, NEW t \in Tabs, FinishUnanswered(t)
    PROVE  IInv'
<1>1. TabTypes'
  BY DEF IInv, TypeOK, TabTypes, Waiting, Polling, Beating, FinishUnanswered,
        Goto, Unfinished
<1>2. SeatTypes'
  BY DEF IInv, TypeOK, SeatTypes, FinishUnanswered, seatVars
<1>3. TypeOK'
  BY <1>1, <1>2, FaultBounded DEF IInv, TypeOK, Outcomes, FinishUnanswered,
        Complete, Unfinished, seatVars, outcomeVars, checkVars
<1>4. ProlificOnly'
  BY DEF IInv, TabTypes, SeatTypes, TypeOK, Outcomes, ProlificOnly, Ends,
        FinishUnanswered, Goto, Completable, Complete, Unfinished, seatVars,
        outcomeVars
<1>5. Restorable'
  BY DEF IInv, TabTypes, TypeOK, Restorable, FinishUnanswered, Goto,
        Completable, Complete, Unfinished
<1>6. SeatOrEnd'
  BY DEF IInv, TabTypes, SeatTypes, TypeOK, ProlificOnly, SeatOrEnd, Late,
        Started, Ends, FinishUnanswered, Goto, Completable, Complete,
        Unfinished, seatVars, outcomeVars
<1>7. ExitOfStarted'
  BY DEF IInv, ExitOfStarted, Started, FinishUnanswered, seatVars
<1>8. CompletedIsLast'
  BY DEF IInv, TabTypes, SeatTypes, TypeOK, ExitOfStarted, CompletedIsLast,
        Started, Ends, FinishUnanswered, Goto, Completable, Complete,
        Unfinished, seatVars, outcomeVars
<1>9. EntrySomewhere'
  BY DEF IInv, TabTypes, SeatTypes, TypeOK, EntrySomewhere, Late, Started,
        Ends, FinishUnanswered, Goto, Completable, Complete, Unfinished,
        seatVars
<1>. QED
  BY <1>1, <1>2, <1>3, <1>4, <1>5, <1>6, <1>7, <1>8, <1>9 DEF IInv

\* The heartbeat only ever shows an outcome.
LEMMA HeartbeatKeeps ==
    ASSUME IInv, NEW t \in Tabs, Heartbeat(t)
    PROVE  IInv'
<1>1. TabTypes'
  BY DEF IInv, TypeOK, TabTypes, Heartbeat, Goto, ShowOutcome
<1>2. SeatTypes'
  BY DEF IInv, TypeOK, SeatTypes, Heartbeat, seatVars, serverVars
<1>3. TypeOK'
  BY <1>1, <1>2 DEF IInv, TypeOK, Outcomes, Heartbeat, Valid, Verify, seatVars,
        outcomeVars, serverVars
<1>4. ProlificOnly'
  BY DEF IInv, ProlificOnly, Heartbeat, Goto, ShowOutcome, seatVars,
        outcomeVars, serverVars
<1>5. Restorable'
  BY DEF IInv, TabTypes, TypeOK, Restorable, Heartbeat, Goto, ShowOutcome
<1>6. SeatOrEnd'
  BY DEF IInv, TabTypes, TypeOK, SeatOrEnd, Late, Started, Heartbeat, Goto,
        ShowOutcome, seatVars, outcomeVars, serverVars
<1>7. ExitOfStarted'
  BY DEF IInv, ExitOfStarted, Started, Heartbeat, seatVars, serverVars
<1>8. CompletedIsLast'
  BY DEF IInv, TabTypes, TypeOK, CompletedIsLast, Heartbeat, Goto, ShowOutcome,
        seatVars, outcomeVars, serverVars
<1>9. EntrySomewhere'
  BY DEF IInv, TabTypes, TypeOK, EntrySomewhere, Late, Heartbeat, Goto,
        ShowOutcome, seatVars, serverVars
<1>. QED
  BY <1>1, <1>2, <1>3, <1>4, <1>5, <1>6, <1>7, <1>8, <1>9 DEF IInv

\* A participation that ends before the completion leaves no page behind that needs a seat.
LEMMA WithdrawKeeps ==
    ASSUME IInv, NEW t \in Tabs, Withdraw(t)
    PROVE  IInv'
<1>1. TabTypes'
  BY DEF IInv, TypeOK, TabTypes, Outcomes, Waiting, Polling, Beating, Ends,
        Withdraw, Goto, Save, ShowOutcome, Valid, Verify, Ended, seatVars,
        outcomeVars, checkVars, serverVars
<1>2. SeatTypes'
  <2>1. CASE Ended("withdrawn")
    BY <2>1, EndedTypes DEF IInv, TypeOK
  <2>2. CASE UNCHANGED serverVars
    BY <2>2 DEF IInv, TypeOK, SeatTypes, serverVars, seatVars
  <2>. QED
    BY <2>1, <2>2 DEF Withdraw
<1>3. TypeOK'
  BY <1>1, <1>2 DEF IInv, TypeOK, Outcomes, Withdraw, Valid, Verify, Ended,
        seatVars, outcomeVars, checkVars, serverVars
<1>4. ProlificOnly'
  BY DEF IInv, TabTypes, SeatTypes, TypeOK, Outcomes, ProlificOnly, Waiting,
        Polling, Beating, Ends, Withdraw, Goto, Save, ShowOutcome, Valid,
        Verify, Ended, seatVars, outcomeVars, serverVars
<1>5. Restorable'
  BY DEF IInv, TabTypes, TypeOK, Restorable, Withdraw, Goto, Save, ShowOutcome
<1>6. SeatOrEnd'
  BY DEF IInv, TabTypes, SeatTypes, TypeOK, ProlificOnly, Restorable,
        SeatOrEnd, Late, Started, Ends, Withdraw, Goto, Save, ShowOutcome,
        Valid, Verify, Ended, seatVars, outcomeVars, serverVars
<1>7. ExitOfStarted'
  BY DEF IInv, SeatTypes, ProlificOnly, SeatOrEnd, ExitOfStarted,
        CompletedIsLast, EntrySomewhere, Late, Started, Ends, Withdraw, Ended,
        seatVars, serverVars
<1>8. CompletedIsLast'
  BY DEF IInv, TabTypes, SeatTypes, TypeOK, Restorable, ExitOfStarted,
        CompletedIsLast, Started, Ends, Withdraw, Goto, Save, ShowOutcome,
        Valid, Verify, Ended, seatVars, outcomeVars, serverVars
<1>9. EntrySomewhere'
  BY DEF IInv, TabTypes, SeatTypes, TypeOK, Restorable, EntrySomewhere, Late,
        Started, Waiting, Polling, Beating, Ends, Withdraw, Goto, Save,
        ShowOutcome, Valid, Verify, Ended, seatVars, serverVars
<1>. QED
  BY <1>1, <1>2, <1>3, <1>4, <1>5, <1>6, <1>7, <1>8, <1>9 DEF IInv

\* A group that has started stays a started one.
LEMMA GroupMovesKeeps ==
    ASSUME IInv, GroupMoves
    PROVE  IInv'
<1>1. TabTypes'
  BY DEF IInv, TypeOK, TabTypes, GroupMoves, tabVars
<1>2. SeatTypes'
  BY DEF IInv, TypeOK, SeatTypes, GroupMoves, GroupStep
<1>3. TypeOK'
  BY <1>1, <1>2 DEF IInv, TypeOK, Outcomes, GroupMoves, GroupStep, tabVars,
        outcomeVars, checkVars
<1>4. ProlificOnly'
  BY DEF IInv, TypeOK, SeatTypes, ProlificOnly, GroupMoves, GroupStep, tabVars, outcomeVars
<1>5. Restorable'
  BY DEF IInv, Restorable, GroupMoves, tabVars
<1>6. SeatOrEnd'
  BY DEF IInv, SeatTypes, ProlificOnly, SeatOrEnd, Late, Started, Ends,
        GroupMoves, GroupStep, tabVars, outcomeVars
<1>7. ExitOfStarted'
  BY DEF IInv, SeatTypes, ProlificOnly, SeatOrEnd, ExitOfStarted,
        CompletedIsLast, EntrySomewhere, Late, Started, Ends, GroupMoves,
        GroupStep
<1>8. CompletedIsLast'
  BY DEF IInv, CompletedIsLast, GroupMoves, tabVars, outcomeVars
<1>9. EntrySomewhere'
  BY DEF IInv, EntrySomewhere, Late, GroupMoves, tabVars
<1>. QED
  BY <1>1, <1>2, <1>3, <1>4, <1>5, <1>6, <1>7, <1>8, <1>9 DEF IInv

\* An aborted group has no member who is past the waiting room.
LEMMA EndMemberKeeps ==
    ASSUME IInv, EndMember
    PROVE  IInv'
<1>1. TabTypes'
  BY DEF IInv, TypeOK, TabTypes, EndMember, tabVars
<1>2. SeatTypes'
  BY DEF IInv, TypeOK, SeatTypes, EndMember
<1>3. TypeOK'
  BY <1>1, <1>2 DEF IInv, TypeOK, Outcomes, EndMember, tabVars,
        checkVars
<1>4. ProlificOnly'
  BY DEF IInv, ProlificOnly, EndMember, tabVars
<1>5. Restorable'
  BY DEF IInv, Restorable, EndMember, tabVars
<1>6. SeatOrEnd'
  BY DEF IInv, SeatOrEnd, Late, Started, EndMember, tabVars
<1>7. ExitOfStarted'
  BY DEF IInv, ExitOfStarted, Started, EndMember
<1>8. CompletedIsLast'
  BY DEF IInv, CompletedIsLast, EndMember, tabVars
<1>9. EntrySomewhere'
  BY DEF IInv, EntrySomewhere, Late, EndMember, tabVars
<1>. QED
  BY <1>1, <1>2, <1>3, <1>4, <1>5, <1>6, <1>7, <1>8, <1>9 DEF IInv

\* A loop that fails leaves the participant as he is.
LEMMA LoopFailsKeeps ==
    ASSUME IInv, LoopFails
    PROVE  IInv'
<1>1. TabTypes'
  BY DEF IInv, TypeOK, TabTypes, LoopFails, tabVars
<1>2. SeatTypes'
  BY DEF IInv, TypeOK, SeatTypes, LoopFails
<1>3. TypeOK'
  BY <1>1, <1>2, FaultBounded DEF IInv, TypeOK, Outcomes, LoopFails, tabVars, outcomeVars,
        checkVars
<1>4. ProlificOnly'
  BY DEF IInv, ProlificOnly, LoopFails, tabVars, outcomeVars
<1>5. Restorable'
  BY DEF IInv, Restorable, LoopFails, tabVars
<1>6. SeatOrEnd'
  BY DEF IInv, SeatOrEnd, Late, Started, LoopFails, tabVars, outcomeVars
<1>7. ExitOfStarted'
  BY DEF IInv, ExitOfStarted, Started, LoopFails
<1>8. CompletedIsLast'
  BY DEF IInv, CompletedIsLast, LoopFails, tabVars, outcomeVars
<1>9. EntrySomewhere'
  BY DEF IInv, EntrySomewhere, Late, LoopFails, tabVars
<1>. QED
  BY <1>1, <1>2, <1>3, <1>4, <1>5, <1>6, <1>7, <1>8, <1>9 DEF IInv

\* A timeout ends what has not been completed.
LEMMA TimeOutKeeps ==
    ASSUME IInv, TimeOut
    PROVE  IInv'
<1>1. TabTypes'
  BY DEF IInv, TypeOK, TabTypes, TimeOut, tabVars
<1>2. SeatTypes'
  BY EndedTypes DEF IInv, TypeOK, SeatTypes, TimeOut
<1>3. TypeOK'
  BY <1>1, <1>2, FaultBounded DEF IInv, TypeOK, Outcomes, TimeOut, Ended,
        tabVars, checkVars
<1>4. ProlificOnly'
  BY DEF IInv, ProlificOnly, TimeOut, tabVars
<1>5. Restorable'
  BY DEF IInv, Restorable, TimeOut, tabVars
<1>6. SeatOrEnd'
  BY DEF IInv, SeatTypes, ProlificOnly, SeatOrEnd, Late, Started, Ends,
        TimeOut, Ended, tabVars
<1>7. ExitOfStarted'
  BY DEF IInv, SeatTypes, ProlificOnly, SeatOrEnd, ExitOfStarted,
        CompletedIsLast, EntrySomewhere, Late, Started, Ends, TimeOut, Ended
<1>8. CompletedIsLast'
  BY DEF IInv, SeatTypes, ExitOfStarted, CompletedIsLast, Started, Ends,
        TimeOut, Ended, tabVars
<1>9. EntrySomewhere'
  BY DEF IInv, SeatTypes, EntrySomewhere, Late, Started, Ends, TimeOut, Ended,
        tabVars
<1>. QED
  BY <1>1, <1>2, <1>3, <1>4, <1>5, <1>6, <1>7, <1>8, <1>9 DEF IInv

\* What happens on Prolific changes nothing that is stored.
LEMMA ReturnSubmissionKeeps ==
    ASSUME IInv, ReturnSubmission
    PROVE  IInv'
<1>1. TabTypes'
  BY DEF IInv, TypeOK, TabTypes, ReturnSubmission, tabVars
<1>2. SeatTypes'
  BY DEF IInv, TypeOK, SeatTypes, ReturnSubmission, seatVars, serverVars
<1>3. TypeOK'
  BY <1>1, <1>2 DEF IInv, TypeOK, ReturnSubmission, tabVars, seatVars,
        outcomeVars, serverVars
<1>4. ProlificOnly'
  BY DEF IInv, ProlificOnly, ReturnSubmission, tabVars, seatVars, outcomeVars,
        serverVars
<1>5. Restorable'
  BY DEF IInv, Restorable, ReturnSubmission, tabVars
<1>6. SeatOrEnd'
  BY DEF IInv, SeatOrEnd, Late, Started, ReturnSubmission, tabVars, seatVars,
        outcomeVars, serverVars
<1>7. ExitOfStarted'
  BY DEF IInv, ExitOfStarted, Started, ReturnSubmission, seatVars, serverVars
<1>8. CompletedIsLast'
  BY DEF IInv, CompletedIsLast, ReturnSubmission, tabVars, seatVars,
        outcomeVars, serverVars
<1>9. EntrySomewhere'
  BY DEF IInv, EntrySomewhere, Late, ReturnSubmission, tabVars, seatVars,
        serverVars
<1>. QED
  BY <1>1, <1>2, <1>3, <1>4, <1>5, <1>6, <1>7, <1>8, <1>9 DEF IInv

\* The cache is no part of the invariant.
LEMMA CacheExpiresKeeps ==
    ASSUME IInv, CacheExpires
    PROVE  IInv'
<1>1. TabTypes'
  BY DEF IInv, TypeOK, TabTypes, CacheExpires, tabVars
<1>2. SeatTypes'
  BY DEF IInv, TypeOK, SeatTypes, CacheExpires, seatVars, serverVars
<1>3. TypeOK'
  BY <1>1, <1>2 DEF IInv, TypeOK, CacheExpires, tabVars, seatVars, outcomeVars,
        serverVars
<1>4. ProlificOnly'
  BY DEF IInv, ProlificOnly, CacheExpires, tabVars, seatVars, outcomeVars,
        serverVars
<1>5. Restorable'
  BY DEF IInv, Restorable, CacheExpires, tabVars
<1>6. SeatOrEnd'
  BY DEF IInv, SeatOrEnd, Late, Started, CacheExpires, tabVars, seatVars,
        outcomeVars, serverVars
<1>7. ExitOfStarted'
  BY DEF IInv, ExitOfStarted, Started, CacheExpires, seatVars, serverVars
<1>8. CompletedIsLast'
  BY DEF IInv, CompletedIsLast, CacheExpires, tabVars, seatVars, outcomeVars,
        serverVars
<1>9. EntrySomewhere'
  BY DEF IInv, EntrySomewhere, Late, CacheExpires, tabVars, seatVars,
        serverVars
<1>. QED
  BY <1>1, <1>2, <1>3, <1>4, <1>5, <1>6, <1>7, <1>8, <1>9 DEF IInv

-----------------------------------------------------------------------------

\* Nobody has a tab, a seat or an outcome at first.
LEMMA InitHolds == Init => IInv
<1> SUFFICES ASSUME Init
             PROVE  IInv
  OBVIOUS
<1>1. TabTypes
  BY DEF Init, TabTypes
<1>2. TypeOK
  <2>1. SeatTypes
    BY DEF Init, SeatTypes
  <2>2. trouble \in 0 .. MaxTrouble
    BY TroubleAssumption DEF Init
  <2>. QED
    BY <1>1, <2>1, <2>2 DEF Init, TypeOK
<1>3. ProlificOnly /\ Restorable /\ ExitOfStarted /\ CompletedIsLast /\ EntrySomewhere
  BY DEF Init, ProlificOnly, Restorable, ExitOfStarted, CompletedIsLast, EntrySomewhere
<1>4. SeatOrEnd
  BY DEF Init, SeatOrEnd, Late
<1>. QED
  BY <1>2, <1>3, <1>4 DEF IInv

\* Every step of a tab and of its surroundings keeps the invariant.
LEMMA StepKeeps ==
    ASSUME IInv, [Next]_vars
    PROVE  IInv'
<1>1. CASE UNCHANGED vars
  BY <1>1 DEF vars, tabVars, seatVars, outcomeVars, checkVars, serverVars, IInv, TypeOK, TabTypes,
     SeatTypes, ProlificOnly, Restorable, SeatOrEnd, Late, Started, ExitOfStarted,
     CompletedIsLast, EntrySomewhere
<1>2. ASSUME NEW t \in Tabs, Tab(t)
      PROVE  IInv'
  BY <1>2, OpenKeeps, ReloadKeeps, CloseKeeps, EnterKeeps, ArriveKeeps, ResumeKeeps,
     StartFailsKeeps, CompleteSurveyKeeps, JoinKeeps, JoinUnansweredKeeps, PostEntryKeeps,
     WaitFailsKeeps, RetryKeeps, PollKeeps, TimeUpKeeps, SubmitExitKeeps, FinishKeeps,
     FinishUnansweredKeeps, HeartbeatKeeps, WithdrawKeeps DEF Tab
<1>3. CASE Surroundings
  BY <1>3, GroupMovesKeeps, EndMemberKeeps, LoopFailsKeeps, TimeOutKeeps,
     ReturnSubmissionKeeps, CacheExpiresKeeps
     DEF Surroundings
<1>. QED
  BY <1>1, <1>2, <1>3 DEF Next

\* The invariant holds in every state of a visit.
LEMMA InvHolds == Spec => []IInv
  BY InitHolds, StepKeeps, PTL DEF Spec

\* The entry survey of a seat is stored, noted as lost, or in the memory of a tab that
\* is not in the discussion yet, whatever the other tabs show (EntrySomewhere).
LEMMA InvKeepsEntry == IInv => EntryKept
  BY DEF IInv, EntrySomewhere, EntryKept, Late

\* The last page needs the completion (CompletedIsLast), the completion the exit survey.
LEMMA InvCompletes == IInv => DoneIsCompleted
  BY DEF IInv, CompletedIsLast, DoneIsCompleted

\* The tabs, the seat and the outcome have their types: whatever the tabs do, a
\* participant record is in a session and only it holds surveys (TakeSeat, Ended).
THEOREM VisitTypes == Spec => []TypeOK
<1>1. IInv => TypeOK
  BY DEF IInv
<1>. QED
  BY <1>1, InvHolds, PTL

\* The debriefing is only shown once the completion is stored, for any number of
\* tabs, refreshes and lost answers (submit, restoreProlificSeat).
THEOREM CompletionBehindLastPage == Spec => []DoneIsCompleted
  BY InvCompletes, InvHolds, PTL

\* No failing, repeated or concurrent join loses an entry survey, for any number
\* of tabs (run, onReady).
THEOREM NoJoinLosesEntry == Spec => []EntryKept
  BY InvKeepsEntry, InvHolds, PTL
=============================================================================
