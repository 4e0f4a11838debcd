------------------------------ MODULE StudyVisit ------------------------------
(***************************************************************************)
(* The journey of one participant through the browser application: the     *)
(* page each tab shows, what survives a refresh (sessionStorage) or a      *)
(* closed tab (nothing), and what the Session Manager has stored of the    *)
(* participant, whose tabs all act for the same submission or token.       *)
(*                                                                         *)
(* A request and its answer are one step, unless the answer is lost; what  *)
(* a page does after an answer is a further step, so the participant may   *)
(* refresh, close or leave in between.  A failing request, a lost answer   *)
(* and thirty seconds without a network cost one of MaxTrouble.            *)
(***************************************************************************)
EXTENDS Naturals

CONSTANTS
    Tabs,
    MaxTrouble    \* failing requests in a behaviour

ASSUME TroubleAssumption == MaxTrouble \in Nat

VARIABLES
    recruited,    \* recruitmentSource
    page,         \* what a tab shows; "closed" without one
    progress,     \* gdm-study-progress of the tab
    entry,        \* the entry survey is in the tab's memory
    shown,        \* the outcome on the exit page
    seat,         \* the participant record exists
    group,        \* status of its session
    owed,         \* the loop over an aborted lobby has the participant still to end
    over,         \* the discussion time has passed
    surveys,      \* stored surveys
    completed,    \* completedAt
    outcome,      \* ProlificArrivalRecord.outcome
    arrived,      \* that record exists
    submission,   \* the submission on Prolific
    verified,     \* it is in the verification cache
    dropped,      \* history: an entry survey that was needed got lost in a tab
    trouble

tabVars == <<page, progress, entry, shown>>
seatVars == <<seat, group, owed, surveys, dropped>>
outcomeVars == <<completed, outcome, arrived>>
checkVars == <<submission, verified>>
serverVars == <<seatVars, over, outcomeVars>>
vars == <<recruited, tabVars, serverVars, checkVars, trouble>>

Polling == {"poll", "orphan"}

\* The waiting room; an "orphan" polls an aborted session its participant has
\* left for another.
Waiting == {"join", "post", "stuck"} \cup Polling

\* Pages on which the heartbeat runs; "refused" shows an error over them.
Beating == {"survey", "chat", "exit", "finish", "refused"} \cup Waiting

\* Outcomes other than "completed" end the visit.
Ends(o) == o \notin {"none", "completed"}

Init ==
    /\ recruited \in {"direct", "prolific"}
    /\ page = [t \in Tabs |-> "closed"]
    /\ progress = [t \in Tabs |-> "none"]
    /\ entry = [t \in Tabs |-> FALSE]
    /\ shown = [t \in Tabs |-> "none"]
    /\ seat = FALSE
    /\ group = "none"
    /\ owed = FALSE
    /\ over = FALSE
    /\ surveys = {}
    /\ completed = FALSE
    /\ outcome = "none"
    /\ arrived = FALSE
    /\ submission = "active"
    /\ verified = FALSE
    /\ dropped = FALSE
    /\ trouble = 0

Fault ==
    /\ trouble < MaxTrouble
    /\ trouble' = trouble + 1

Goto(t, p) == page' = [page EXCEPT ![t] = p]

Save(t, stage) == progress' = [progress EXCEPT ![t] = stage]

ShowOutcome(t, o) == Goto(t, "ended") /\ shown' = [shown EXCEPT ![t] = o]

-----------------------------------------------------------------------------
(* Verification of the submission *)

\* A direct participant is not verified; an ended submission passes with
\* allowEnded, or while it is in the cache, whoever put it there.
Valid(allowEnded) ==
    recruited = "direct" \/ verified \/ allowEnded \/ submission = "active"

\* verify, which fills the cache.
Verify(allowEnded) ==
    /\ Valid(allowEnded)
    /\ verified' = (recruited = "prolific")
    /\ UNCHANGED submission

-----------------------------------------------------------------------------
(* Opening, refreshing and closing a tab *)

Open(t) ==
    /\ page[t] = "closed"
    /\ Goto(t, "start")
    /\ UNCHANGED <<recruited, progress, entry, shown, serverVars, checkVars, trouble>>

\* The page and what is in its memory are gone; an entry survey that was not
\* stored goes with it.
Unload(t) ==
    /\ entry' = [entry EXCEPT ![t] = FALSE]
    /\ dropped' = (dropped \/ (entry[t] /\ "entry" \notin surveys))
    /\ shown' = [shown EXCEPT ![t] = "none"]
    /\ UNCHANGED <<recruited, seat, group, owed, over, surveys, outcomeVars, checkVars, trouble>>

Reload(t) ==
    /\ page[t] # "closed"
    /\ Unload(t)
    /\ Goto(t, IF progress[t] = "none" THEN "start" ELSE "resume")
    /\ UNCHANGED progress

Close(t) ==
    /\ page[t] # "closed"
    /\ Unload(t)
    /\ Goto(t, "closed")
    /\ Save(t, "none")

Resumable == seat /\ group # "aborted"

\* restoreProlificSeat and resumeProlific: the server decides where a Prolific
\* participant continues.
RestoreSeat(t) ==
    \/ /\ completed \/ "exit" \in surveys
       /\ Goto(t, "restore")
       /\ UNCHANGED progress
    \/ /\ ~completed /\ "exit" \notin surveys
       /\ \/ group = "completed" /\ Goto(t, "exit") /\ Save(t, "exit")
          \/ group = "running" /\ Goto(t, "chat") /\ Save(t, "chat")
          \/ group = "forming" /\ Goto(t, "join") /\ Save(t, "waiting")

\* enterStudy, up to the arrival of a new visit.
Enter(t) ==
    /\ page[t] = "start"
    /\ \/ /\ recruited = "direct"
          /\ Goto(t, "survey")
          /\ UNCHANGED <<progress, shown, checkVars>>
       \/ /\ recruited = "prolific"
          /\ Verify(TRUE)
          /\ \/ Ends(outcome) /\ ShowOutcome(t, outcome) /\ UNCHANGED progress
             \/ ~Ends(outcome) /\ Resumable /\ RestoreSeat(t) /\ UNCHANGED shown
             \/ ~Ends(outcome) /\ ~Resumable /\ Goto(t, "arrive") /\ UNCHANGED <<progress, shown>>
    /\ UNCHANGED <<recruited, entry, serverVars, trouble>>

\* recordProlificArrival and the first milestone, for active submissions.
Arrive(t) ==
    /\ page[t] = "arrive"
    /\ \/ Verify(FALSE) /\ arrived' = TRUE /\ Goto(t, "survey")
       \/ ~Valid(FALSE) /\ Goto(t, "failed") /\ UNCHANGED <<arrived, checkVars>>
    /\ UNCHANGED <<recruited, progress, entry, shown, seatVars, over, completed, outcome, trouble>>

\* restoreFromProgress, after a refresh of the tab.
Resume(t) ==
    /\ page[t] = "resume"
    /\ Verify(TRUE)
    /\ \/ Ends(outcome) /\ ShowOutcome(t, outcome)
       \/ /\ ~Ends(outcome)
          /\ Goto(t, IF progress[t] = "waiting" THEN "join" ELSE progress[t])
          /\ UNCHANGED shown
    /\ UNCHANGED <<recruited, progress, entry, serverVars, trouble>>

\* A request of one of these fails; "Try again" refreshes.
StartFails(t) ==
    /\ page[t] \in {"start", "arrive", "resume", "restore"}
    /\ Fault
    /\ Goto(t, "failed")
    /\ arrived' \in {arrived, arrived \/ page[t] = "arrive"}
    /\ UNCHANGED <<recruited, progress, entry, shown, seatVars, over, completed, outcome, checkVars>>

-----------------------------------------------------------------------------
(* The entry survey and the waiting room *)

CompleteSurvey(t) ==
    /\ page[t] = "survey"
    /\ entry' = [entry EXCEPT ![t] = TRUE]
    /\ Goto(t, "join")
    /\ UNCHANGED <<recruited, progress, shown, serverVars, checkVars, trouble>>

\* A submission that ended, or whose lobby was aborted, is refused.
Admitted == recruited = "direct" \/ (outcome = "none" /\ (seat => group # "aborted"))

\* A tracking token does not find its seat in an aborted group: the direct
\* participant becomes a new one, without surveys.  The timer may abort the
\* lobby after it was chosen; whether its loop still ends the participant
\* depends on when it reads the roster.
TakeSeat(t, next) ==
    /\ seat' = TRUE
    /\ page' = [u \in Tabs |->
                 IF u = t THEN next
                 ELSE IF ~Resumable /\ page[u] \in {"post", "poll"} THEN "orphan" ELSE page[u]]
    /\ IF Resumable
       THEN UNCHANGED <<group, owed, surveys, dropped>>
       ELSE /\ group' \in {"forming", "aborted"}
            /\ owed' \in BOOLEAN
            /\ owed' => recruited = "prolific" /\ group' = "aborted"
            /\ surveys' = {} /\ dropped' = (dropped \/ ~entry[t])
    /\ UNCHANGED <<over, outcomeVars>>

\* openSession of the waiting room; the progress is saved before the survey.
Join(t) ==
    /\ page[t] = "join"
    /\ \/ Verify(FALSE) /\ Admitted /\ TakeSeat(t, "post") /\ Save(t, "waiting")
       \/ /\ ~Valid(FALSE) \/ ~Admitted
          /\ Goto(t, "stuck")
          /\ UNCHANGED <<progress, serverVars, checkVars>>
    /\ UNCHANGED <<recruited, entry, shown, trouble>>

\* The answer of openSession is lost.
JoinUnanswered(t) ==
    /\ page[t] = "join"
    /\ Fault
    /\ Verify(FALSE) /\ Admitted /\ TakeSeat(t, "stuck")
    /\ UNCHANGED <<recruited, progress, entry, shown>>

\* Seeded bug: the survey is sent in the background.
PostEntryAside(t) ==
    /\ page[t] = "post"
    /\ Goto(t, "poll")
    /\ surveys' \in {surveys, IF entry[t] /\ seat THEN surveys \cup {"entry"} ELSE surveys}
    /\ UNCHANGED <<recruited, progress, entry, shown, seat, group, owed, dropped, over, outcomeVars,
                   checkVars, trouble>>

\* submitSurvey of the entry survey, if it is still in memory.
PostEntry(t) ==
    /\ page[t] = "post"
    /\ IF entry[t] /\ ~seat
       THEN Goto(t, "stuck") /\ UNCHANGED surveys
       ELSE Goto(t, "poll") /\ surveys' = IF entry[t] THEN surveys \cup {"entry"} ELSE surveys
    /\ UNCHANGED <<recruited, progress, entry, shown, seat, group, owed, dropped, over, outcomeVars,
                   checkVars, trouble>>

\* A request of the waiting room fails or the Matrix client does not start.
WaitFails(t) ==
    /\ page[t] \in {"join", "post"}
    /\ Fault
    /\ Goto(t, "stuck")
    /\ UNCHANGED <<recruited, progress, entry, shown, serverVars, checkVars>>

\* "Try again" of the waiting room.
Retry(t) ==
    /\ page[t] = "stuck"
    /\ Goto(t, "join")
    /\ UNCHANGED <<recruited, progress, entry, shown, serverVars, checkVars, trouble>>

\* Seeded bug: the outcome is read with strict verification.
ReadOutcomeStrictly(t) == Verify(FALSE) /\ ShowOutcome(t, outcome)

\* getParticipationOutcome, for a page that has ended
ReadOutcome(t) == Verify(TRUE) /\ ShowOutcome(t, outcome)

\* poll: the room is ready, or the lobby was aborted.  A session that has lost
\* the participant may still get its room.
Poll(t) ==
    /\ page[t] \in Polling
    /\ \/ /\ page[t] = "poll"
          /\ group \in {"running", "completed"} \/ ~seat
          /\ Goto(t, "chat") /\ Save(t, "chat")
          /\ UNCHANGED <<shown, checkVars>>
       \/ /\ recruited = "prolific" /\ outcome # "none"
          /\ group = "aborted" \/ ~seat
          /\ ReadOutcome(t)
          /\ UNCHANGED progress
       \/ /\ recruited = "direct"
          /\ page[t] = "orphan" \/ group = "aborted"
          /\ Goto(t, "stuck")
          /\ UNCHANGED <<progress, shown, checkVars>>
    /\ UNCHANGED <<recruited, entry, serverVars, trouble>>

-----------------------------------------------------------------------------
(* The discussion, the exit survey and the end *)

\* onTimeUp
TimeUp(t) ==
    /\ page[t] = "chat"
    /\ over \/ ~seat
    /\ Goto(t, "exit") /\ Save(t, "exit")
    /\ UNCHANGED <<recruited, entry, shown, serverVars, checkVars, trouble>>

\* submit of the exit survey, its first request.
SubmitExit(t) ==
    /\ page[t] = "exit"
    /\ seat
    /\ surveys' = surveys \cup {"exit"}
    /\ Goto(t, "finish")
    /\ UNCHANGED <<recruited, progress, entry, shown, seat, group, owed, dropped, over, outcomeVars,
                   checkVars, trouble>>

\* completeParticipant needs the exit survey and an open or completed outcome.
Completable == seat /\ "exit" \in surveys /\ ~Ends(outcome)

Complete ==
    /\ Completable
    /\ completed' = TRUE
    /\ outcome' = IF recruited = "prolific" THEN "completed" ELSE outcome
    /\ UNCHANGED arrived

\* Seeded bug: the last page is saved before the completion is confirmed.
FinishEagerly(t) ==
    /\ page[t] = "finish"
    /\ Complete \/ UNCHANGED outcomeVars
    /\ Goto(t, "done") /\ Save(t, "done")
    /\ UNCHANGED <<recruited, entry, shown, seatVars, over, checkVars, trouble>>

\* A completion that fails leaves the survey page open, or the visit unrestored.
Unfinished(t) == Goto(t, IF page[t] = "finish" THEN "exit" ELSE "failed")

\* The second request of submit, or of restoreProlificSeat.
Finish(t) ==
    /\ page[t] \in {"finish", "restore"}
    /\ \/ Complete /\ Goto(t, "done") /\ Save(t, "done")
       \/ Ends(outcome) /\ Unfinished(t) /\ UNCHANGED <<progress, outcomeVars>>
    /\ UNCHANGED <<recruited, entry, shown, seatVars, over, checkVars, trouble>>

\* The completion fails, its answer is lost, or the server stops after the
\* participant record and before the outcome.
FinishUnanswered(t) ==
    /\ page[t] \in {"finish", "restore"}
    /\ Fault
    /\ \/ Complete
       \/ Completable /\ completed' = TRUE /\ UNCHANGED <<outcome, arrived>>
       \/ UNCHANGED outcomeVars
    /\ Unfinished(t)
    /\ UNCHANGED <<recruited, progress, entry, shown, seatVars, over, checkVars>>

\* Seeded bug: the heartbeat only runs until the discussion is over.
HeartbeatUntilExit(t) ==
    /\ recruited = "prolific"
    /\ page[t] \in Beating \ {"exit", "finish"}
    /\ Verify(FALSE)
    /\ IF Ends(outcome) THEN ShowOutcome(t, outcome) ELSE UNCHANGED <<page, shown>>
    /\ UNCHANGED <<recruited, progress, entry, serverVars, trouble>>

\* The heartbeat: the progress is reported first, with strict verification, and
\* then the outcome is read.
Heartbeat(t) ==
    /\ recruited = "prolific"
    /\ page[t] \in Beating
    /\ Verify(FALSE)
    /\ IF Ends(outcome) THEN ShowOutcome(t, outcome) ELSE UNCHANGED <<page, shown>>
    /\ UNCHANGED <<recruited, progress, entry, serverVars, trouble>>

\* Seeded bug: the record of the participant stays behind.
EndedSeated(o) ==
    /\ outcome' = o
    /\ group' = IF group = "forming" THEN "none" ELSE group
    /\ UNCHANGED <<seat, owed, surveys, dropped, over, completed, arrived>>

\* A lobby loses the participant with his surveys; a full group that has not
\* started yet is aborted; a running discussion goes on without him.
Ended(o) ==
    /\ outcome' = o
    /\ \/ group = "forming" /\ seat' = FALSE /\ group' = "none" /\ surveys' = {}
       \/ group = "forming" /\ group' = "aborted" /\ UNCHANGED <<seat, surveys>>
       \/ group # "forming" /\ UNCHANGED <<seat, group, surveys>>
    /\ UNCHANGED <<owed, dropped, over, completed, arrived>>

\* Withdrawing, declining or being ineligible: endParticipation.
Withdraw(t) ==
    /\ page[t] \in Beating
    /\ \/ /\ recruited = "direct"
          /\ ShowOutcome(t, "withdrawn")
          /\ Save(t, "none")
          /\ UNCHANGED <<serverVars, checkVars>>
       \/ /\ recruited = "prolific"
          /\ Verify(FALSE)
          /\ IF outcome = "none" THEN Ended("withdrawn") ELSE UNCHANGED serverVars
          /\ ShowOutcome(t, outcome')
          /\ UNCHANGED progress
       \/ /\ ~Valid(FALSE)
          /\ Goto(t, IF page[t] = "chat" THEN "chat" ELSE "refused")
          /\ UNCHANGED <<progress, shown, serverVars, checkVars>>
    /\ UNCHANGED <<recruited, entry, trouble>>

-----------------------------------------------------------------------------
(* The other participants, the server's timers and Prolific *)

GroupStep ==
    \/ seat /\ group = "forming" /\ group' = "running" /\ UNCHANGED <<over, owed>>
    \/ seat /\ group = "forming" /\ group' = "aborted" /\ owed' = (recruited = "prolific")
       /\ UNCHANGED over
    \/ group = "running" /\ group' = "completed" /\ UNCHANGED <<over, owed>>
    \/ group \in {"running", "completed"} /\ ~over /\ over' = TRUE /\ UNCHANGED <<group, owed>>

\* The room is published or the lobby closes; the Chat Service or an operator
\* completes the discussion; its time passes.
GroupMoves ==
    /\ GroupStep
    /\ UNCHANGED <<recruited, tabVars, seat, surveys, dropped, outcomeVars, checkVars, trouble>>

\* terminateSessionParticipants, for this member.
EndMember ==
    /\ owed
    /\ owed' = FALSE
    /\ outcome' = IF outcome = "none" THEN "group_aborted" ELSE outcome
    /\ UNCHANGED <<recruited, tabVars, seat, group, surveys, dropped, over, completed, arrived,
                   checkVars, trouble>>

\* The loop throws at an earlier member or lobby, or the process dies; nobody
\* repeats it.
LoopFails ==
    /\ owed
    /\ Fault
    /\ owed' = FALSE
    /\ UNCHANGED <<recruited, tabVars, seat, group, surveys, dropped, over, outcomeVars, checkVars>>

\* Thirty seconds without an accepted heartbeat of any tab.
TimeOut ==
    /\ arrived /\ outcome = "none"
    /\ IF (\E t \in Tabs : page[t] \in Beating) /\ Valid(FALSE) THEN Fault ELSE UNCHANGED trouble
    /\ Ended("timeout")
    /\ UNCHANGED <<recruited, tabVars, checkVars>>

\* The participant returns the submission, or Prolific closes it.
ReturnSubmission ==
    /\ recruited = "prolific"
    /\ submission = "active"
    /\ submission' = "returned"
    /\ UNCHANGED <<recruited, tabVars, serverVars, verified, trouble>>

CacheExpires ==
    /\ verified
    /\ verified' = FALSE
    /\ UNCHANGED <<recruited, tabVars, serverVars, submission, trouble>>

-----------------------------------------------------------------------------

Tab(t) ==
    \/ Open(t) \/ Reload(t) \/ Close(t)
    \/ Enter(t) \/ Arrive(t) \/ Resume(t) \/ StartFails(t)
    \/ CompleteSurvey(t)
    \/ Join(t) \/ JoinUnanswered(t) \/ PostEntry(t) \/ WaitFails(t) \/ Retry(t) \/ Poll(t)
    \/ TimeUp(t) \/ SubmitExit(t) \/ Finish(t) \/ FinishUnanswered(t)
    \/ Heartbeat(t) \/ Withdraw(t)

Surroundings ==
    \/ GroupMoves
    \/ EndMember
    \/ LoopFails
    \/ TimeOut
    \/ ReturnSubmission
    \/ CacheExpires

Next == (\E t \in Tabs : Tab(t)) \/ Surroundings

Spec == Init /\ [][Next]_vars

\* The timers of the tabs, and the loop that ends the members of an aborted
\* lobby, which goes on while it does not fail.  Whatever the participant
\* decides is not fair.
FairSpec ==
    /\ Spec
    /\ \A t \in Tabs : WF_vars(Heartbeat(t)) /\ WF_vars(Poll(t))
    /\ WF_vars(EndMember)

-----------------------------------------------------------------------------

Outcomes == {"completed", "withdrawn", "timeout", "group_aborted"}

TabTypes ==
    /\ page \in [Tabs -> Beating \cup {"closed", "start", "arrive", "resume", "restore",
                                       "failed", "done", "ended"}]
    /\ progress \in [Tabs -> {"none", "waiting", "chat", "exit", "done"}]
    /\ entry \in [Tabs -> BOOLEAN]
    /\ shown \in [Tabs -> Outcomes \cup {"none"}]

\* A participant record belongs to a session and holds the surveys.
SeatTypes ==
    /\ seat \in BOOLEAN
    /\ group \in {"none", "forming", "running", "completed", "aborted"}
    /\ surveys \subseteq {"entry", "exit"}
    /\ seat <=> group # "none"
    /\ owed \in BOOLEAN
    /\ owed => group = "aborted"
    /\ surveys # {} => seat

\* Types of what the tabs and the Session Manager keep.
TypeOK ==
    /\ TabTypes
    /\ SeatTypes
    /\ recruited \in {"direct", "prolific"}
    /\ over \in BOOLEAN
    /\ completed \in BOOLEAN
    /\ outcome \in Outcomes \cup {"none"}
    /\ arrived \in BOOLEAN
    /\ submission \in {"active", "returned"}
    /\ verified \in BOOLEAN
    /\ dropped \in BOOLEAN
    /\ trouble \in 0 .. MaxTrouble

\* A participant who reaches the discussion has an entry survey on record, or in a tab
\* that has not come that far, unless a refresh or a closed tab lost it: no
\* failing, repeated or concurrent join does (run, onReady).
EntryKept ==
    LET Late == {"chat", "exit", "finish", "done"} IN
    (seat /\ \E t \in Tabs : page[t] \in Late) =>
        "entry" \in surveys \/ dropped \/ \E u \in Tabs : entry[u] /\ page[u] \notin Late

\* The debriefing with its completion link is only shown, after whatever
\* refresh or lost answer, to a participant whose completion is stored
\* (submit, restoreProlificSeat, restoreFromProgress).
DoneIsCompleted ==
    \A t \in Tabs : page[t] = "done" =>
        /\ completed
        /\ "exit" \in surveys
        /\ recruited = "prolific" => outcome = "completed"

\* A page that stays open learns that the participation has ended, as long as
\* the submission is active (heartbeat, getParticipationOutcome).
EndedIsShown ==
    \A t \in Tabs :
        (Ends(outcome) /\ page[t] \in Beating) ~> (page[t] \notin Beating \/ submission = "returned")

\* A page can end its wait in an aborted lobby: a direct participant needs
\* nothing for it, a Prolific one an outcome, which must be there or be coming.
Answerable == recruited = "direct" \/ outcome # "none" \/ owed

\* A participant with such an answer does not wait for ever in the room of an
\* aborted lobby, unless the loop that was going to end him fails (poll,
\* terminateSessionParticipants).
LobbyIsResolved ==
    \A t \in Tabs :
        (Answerable /\ (page[t] = "orphan" \/ (page[t] = "poll" /\ group = "aborted")))
            ~> (page[t] \notin Polling \/ ~Answerable)
=============================================================================
