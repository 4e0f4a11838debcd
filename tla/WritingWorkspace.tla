-------------------------- MODULE WritingWorkspace --------------------------
(***************************************************************************)
(* Etherpad mode of one group: the EtherpadService of the Session Manager  *)
(* with its control record, admissions and pad records, the supervisor     *)
(* that starts and stops the editor, and the editor's write policy.        *)
(*                                                                         *)
(* The operations of EtherpadService run one at a time on its serial       *)
(* chain, so each of them is one action; the editor, the browsers, the     *)
(* clock and the session run between them.  A call to the editor or the    *)
(* supervisor that fails, and a crash, cost one of MaxTrouble.             *)
(***************************************************************************)
EXTENDS Naturals

CONSTANTS
    Participants,
    Shared,       \* stands for the owner of the group pad
    Edited,       \* the pads somebody writes in
    MaxTrouble    \* crashes, failing calls and late returns in a behaviour

ASSUME SharedAssumption == Shared \notin Participants

ASSUME TroubleAssumption == MaxTrouble \in Nat

Group == <<Shared, "group">>

\* A participant has an entry pad and an exit pad.  A stray is the record of a
\* pad whose index entry was never stored.
Private == Participants \X {"entry", "exit", "stray"}

Docs == Private \cup {Group}

VARIABLES
    enabled,      \* control: the researcher's switch
    state,        \* control: what the dashboard shows
    admission,    \* admission: records, by participant
    pad,          \* pad: records; the state "error" is "open" here
    text,         \* the text the record holds
    child,        \* the supervisor's child process
    policy,       \* gdm: policies of the editor, closed or not
    ink,          \* the edit made in a pad
    late,         \* pads whose deadline has passed
    session,      \* status of the group
    roster,       \* its participants
    completed,    \* those with completedAt
    trouble

serviceVars == <<enabled, state, admission, pad, text>>
editorVars == <<child, policy, ink>>
groupVars == <<session, roster, completed>>
vars == <<serviceVars, editorVars, late, groupVars, trouble>>

ASSUME EditedAssumption == Edited \subseteq Docs \ (Participants \X {"stray"})

Init ==
    /\ enabled = FALSE
    /\ state = "stopped"
    /\ admission = [p \in Participants |->
                      [mode |-> "none", seated |-> FALSE, term |-> "valid"]]
    /\ pad = [d \in Docs |-> "none"]
    /\ text = [d \in Docs |-> "null"]
    /\ child = "none"
    /\ policy = [d \in Docs |-> "none"]
    /\ ink = [d \in Docs |-> "none"]
    /\ late = {}
    /\ session = "waiting"
    /\ roster = {}
    /\ completed = {}
    /\ trouble = 0

Fault ==
    /\ trouble < MaxTrouble
    /\ trouble' = trouble + 1

-----------------------------------------------------------------------------
(* Admissions *)

\* Seeded bug: an admission is valid until its participant is done.
ActiveUntilDone(adm) ==
    {p \in Participants : adm[p].mode = "etherpad" /\ adm[p].term # "done"}

\* activeAdmissions
Active(adm) ==
    {p \in Participants : adm[p].mode = "etherpad" /\ adm[p].term = "valid"}

\* An admission that is done stays so.
Renewed(p) == IF admission[p].term = "done" THEN "done" ELSE "valid"

\* setEnabled
SetEnabled(on) ==
    /\ state \notin {"starting", "stopping"}
    /\ enabled' = on
    /\ state' = IF on THEN "starting" ELSE "draining"
    /\ UNCHANGED <<admission, pad, text, editorVars, late, groupVars, trouble>>

\* prepare: the mode of a participant is fixed at the entry.
Prepare(p) ==
    /\ admission[p].mode = "none"
    /\ enabled => state = "ready"
    /\ admission' = [admission EXCEPT ![p].mode = IF enabled THEN "etherpad" ELSE "ranking"]
    /\ UNCHANGED <<enabled, state, pad, text, editorVars, late, groupVars, trouble>>

\* Seeded bug: a group takes participants of either mode.
TakeSeatAnyMode(p) ==
    /\ p \notin roster
    /\ admission[p].mode = "ranking" \/ pad[<<p, "entry">>] = "captured"
    /\ session = "waiting"
    /\ roster' = roster \cup {p}
    /\ UNCHANGED <<serviceVars, editorVars, late, session, completed, trouble>>

\* Seeded bug: the entry pad need not be captured.
TakeSeatUnwritten(p) ==
    /\ p \in Active(admission) \ roster
    /\ session = "waiting"
    /\ roster' = roster \cup {p}
    /\ UNCHANGED <<serviceVars, editorVars, late, session, completed, trouble>>

\* reserveSeat in a writing group, which modeFor admits.
TakeSeat(p) ==
    /\ p \in Active(admission) \ roster
    /\ pad[<<p, "entry">>] = "captured"
    /\ session = "waiting"
    /\ roster' = roster \cup {p}
    /\ UNCHANGED <<serviceVars, editorVars, late, session, completed, trouble>>

\* attach, for the request that took the seat.
Attach(p) ==
    /\ p \in roster
    /\ ~admission[p].seated
    /\ admission' = [admission EXCEPT ![p].seated = TRUE, ![p].term = Renewed(p)]
    /\ UNCHANGED <<enabled, state, pad, text, editorVars, late, groupVars, trouble>>

\* attach, for a later request that found the seat: an admission that had
\* expired is valid again.
Rejoin(p) ==
    /\ p \in roster
    /\ admission[p].seated
    /\ admission[p].term = "expired"
    /\ Fault
    /\ admission' = [admission EXCEPT ![p].term = Renewed(p)]
    /\ UNCHANGED <<enabled, state, pad, text, editorVars, late, groupVars>>

\* leave
Leave(p) ==
    /\ admission[p].mode = "etherpad"
    /\ admission[p].term # "done"
    /\ admission' = [admission EXCEPT ![p].term = "done"]
    /\ UNCHANGED <<enabled, state, pad, text, editorVars, late, groupVars, trouble>>

\* expiresAt passes.  A seat adds twenty minutes to the discussion and a lobby
\* closes after fewer (waitingTimeoutMinutes), so the discussion is over.
Expire(p) ==
    /\ p \in Active(admission)
    /\ admission[p].seated => session = "aborted" \/ Group \in late
    /\ admission' = [admission EXCEPT ![p].term = "expired"]
    /\ UNCHANGED <<enabled, state, pad, text, editorVars, late, groupVars, trouble>>

-----------------------------------------------------------------------------
(* Pads *)

\* The supervisor's /start.
Spawned == IF child = "none" THEN "booting" ELSE child

\* The editor's /create, which keeps a policy it already has.
Created(D) == [d \in Docs |-> IF d \in D /\ policy[d] = "none" THEN "open" ELSE policy[d]]

Closed(D) == [d \in Docs |-> IF d \in D THEN "closed" ELSE policy[d]]

\* Seeded bug: the snapshot does not wait for the writes under way.
SettledLater(D) == ink

\* The editor's /close freezes the pad and then awaits the writes it accepted.
Settled(D) == [d \in Docs |-> IF d \in D /\ ink[d] = "pending" THEN "saved" ELSE ink[d]]

Snapshot(edit) == IF edit = "saved" THEN "written" ELSE "blank"

\* capture of the pads D, of which the answers for S are stored.
Capture(docs, D, S) ==
    /\ policy' = Closed(D)
    /\ ink' = Settled(D)
    /\ pad' = [d \in Docs |-> IF d \in S THEN "captured" ELSE docs[d]]
    /\ text' = [d \in Docs |-> IF d \in S THEN Snapshot(ink'[d]) ELSE text[d]]

\* The discussion has ended, by the clock or by its status.
DiscussionEnded == session = "completed" \/ (session = "running" /\ Group \in late)

Allowed(p, d) ==
    \/ d = <<p, "entry">>
    \/ /\ admission[p].seated
       /\ p \in roster
       /\ \/ d = Group /\ session \in {"running", "completed"}
          \/ d = <<p, "exit">> /\ DiscussionEnded

\* pad: the record is stored before the editor is called, so a retry after an
\* editor that was not ready finds it.
OpenPad(p, d) ==
    /\ admission[p].mode = "etherpad"
    /\ Allowed(p, d)
    /\ pad[d] # "captured"
    /\ pad[d] = "none" => p \in Active(admission) /\ ~(d[2] = "entry" /\ admission[p].seated)
    /\ LET docs == [pad EXCEPT ![d] = "open"] IN
       \/ /\ child = "up"
          /\ d \notin late
          /\ policy' = Created({d})
          /\ pad' = docs
          /\ UNCHANGED <<text, child, ink>>
       \/ /\ child = "up"
          /\ d \in late
          /\ Capture(docs, {d}, {d})
          /\ UNCHANGED child
       \/ /\ child # "up"
          /\ child' = Spawned
          /\ pad' = docs
          /\ UNCHANGED <<text, policy, ink>>
    /\ UNCHANGED <<enabled, state, admission, late, groupVars, trouble>>

\* The process dies in pad between storing the record and its index entry: the
\* retry makes another record.
OpenPadCrashes(p, phase) ==
    /\ admission[p].mode = "etherpad"
    /\ Allowed(p, <<p, phase>>)
    /\ pad[<<p, phase>>] = "none"
    /\ pad[<<p, "stray">>] = "none"
    /\ p \in Active(admission)
    /\ ~(phase = "entry" /\ admission[p].seated)
    /\ Fault
    /\ pad' = [pad EXCEPT ![<<p, "stray">>] = "open"]
    /\ UNCHANGED <<enabled, state, admission, text, editorVars, late, groupVars>>

MayFinish(p, d) ==
    \/ d \in {<<p, "entry">>, <<p, "exit">>}
    \/ d = Group /\ p \in roster /\ Group \in late

\* Before the deadline the browser first waits until the editor has
\* acknowledged its edits (flushEditor).
Closable(d) ==
    /\ pad[d] = "open"
    /\ child = "up"
    /\ policy[d] # "none"
    /\ d \in late \/ ink[d] \notin {"typed", "pending"}

\* finish, by the button or by the countdown.
Finish(p, d) ==
    /\ MayFinish(p, d)
    /\ pad[d] # "none"
    /\ \/ Closable(d) /\ Capture(pad, {d}, {d})
       \/ pad[d] = "captured" /\ UNCHANGED <<policy, ink, pad, text>>
    /\ admission' = IF d[2] = "exit" THEN [admission EXCEPT ![p].term = "done"] ELSE admission
    /\ UNCHANGED <<enabled, state, child, late, groupVars, trouble>>

\* The editor closes a pad and the answer, or the record, is lost.
FinishFails(p, d) ==
    /\ MayFinish(p, d)
    /\ Closable(d)
    /\ Fault
    /\ Capture(pad, {d}, {})
    /\ UNCHANGED <<enabled, state, admission, child, late, groupVars>>

-----------------------------------------------------------------------------
(* Reconciliation *)

\* Aborted and completed participants no longer keep the editor alive.
Swept ==
    [p \in Participants |->
        IF p \in Active(admission) /\ admission[p].seated
             /\ (session = "aborted" \/ p \in completed)
        THEN [admission[p] EXCEPT !.term = "done"]
        ELSE admission[p]]

Writers == Active(Swept)

\* The group pad exists even if nobody opens the editor.
Recorded ==
    IF /\ session \in {"running", "completed"}
       /\ \E p \in Writers : admission[p].seated
       /\ pad[Group] = "none"
    THEN [pad EXCEPT ![Group] = "open"]
    ELSE pad

Uncaptured == {d \in Docs : Recorded[d] = "open"}

Abandoned(d) == d # Group /\ d[1] \notin Writers

Orphaned(d) == session = "aborted" /\ (d = Group \/ admission[d[1]].seated)

\* Seeded bug: nobody is left to write for.
DueOfWriters == {d \in Uncaptured : d \in late /\ ~Abandoned(d)}

Due == {d \in Uncaptured : d \in late \/ Abandoned(d) \/ Orphaned(d)}

Needed == enabled \/ Writers # {} \/ Uncaptured # {}

\* Seeded bug: the pads are taken as captured once they were closed.
IdleOnceDue == ~enabled /\ Writers = {}

Idle == ~enabled /\ Writers = {} /\ Uncaptured \ Due = {}

\* A start that has been pending since an earlier call may be older than
\* ETHERPAD_START_TIMEOUT_MS.
StartEditor ==
    /\ child' = Spawned
    /\ \/ state' = "starting"
       \/ state' = "error" /\ state \in {"starting", "error"}
    /\ pad' = Recorded
    /\ UNCHANGED <<text, policy, ink>>

\* Seeded bug: the answer of the supervisor is not read.
StopEditorBlind ==
    /\ child' = IF child = "none" THEN "none" ELSE "stopping"
    /\ state' = "stopping"

\* The supervisor's /stop sends SIGTERM and answers whether the child runs.
StopEditor ==
    /\ child' = IF child = "none" THEN "none" ELSE "stopping"
    /\ state' = IF child = "none" THEN "stopped" ELSE "stopping"

KeepEditor ==
    /\ child' = child
    /\ state' = IF enabled THEN "ready" ELSE "draining"

\* reconcile, every five seconds
Reconcile ==
    /\ admission' = Swept
    /\ \/ Needed /\ child # "up" /\ StartEditor
       \/ /\ Needed => child = "up"
          /\ Capture(Recorded, Due, Due)
          /\ IF Idle THEN StopEditor ELSE KeepEditor
    /\ UNCHANGED <<enabled, late, groupVars, trouble>>

\* A call of reconcile fails: some due pads are captured, one more may be
\* closed without its text, and a start or a stop may have taken effect.
ReconcileFails ==
    /\ Fault
    /\ admission' = Swept
    /\ state' = "error"
    /\ \E S \in SUBSET Due, C \in {{}} \cup {{d} : d \in Due} :
         /\ child # "up" => S \cup C = {}
         /\ Capture(Recorded, S \cup C, S)
         /\ \/ child' = child
            \/ child' = Spawned /\ Needed
            \/ child = "up" /\ Idle /\ S = Due /\ child' = "stopping"
    /\ UNCHANGED <<enabled, late, groupVars>>

-----------------------------------------------------------------------------
(* The editor and the browsers *)

\* The health check of the child answers.
Booted ==
    /\ child = "booting"
    /\ child' = "up"
    /\ UNCHANGED <<serviceVars, policy, ink, late, groupVars, trouble>>

\* The child ends; an edit that was not persisted is still in the browser.
Ends ==
    /\ child' = "none"
    /\ ink' = [d \in Docs |-> IF ink[d] = "pending" THEN "typed" ELSE ink[d]]
    /\ UNCHANGED <<serviceVars, policy, late, groupVars>>

\* By SIGTERM, or by SIGKILL after twenty seconds.
ChildExits ==
    /\ child = "stopping"
    /\ Ends
    /\ UNCHANGED trouble

ChildCrashes ==
    /\ child \in {"booting", "up"}
    /\ Fault
    /\ Ends

\* A participant edits a pad in the browser.
Type(d) ==
    /\ d \in Edited
    /\ policy[d] = "open"
    /\ ink[d] = "none"
    /\ ink' = [ink EXCEPT ![d] = "typed"]
    /\ UNCHANGED <<serviceVars, child, policy, late, groupVars, trouble>>

Writable(d) == policy[d] = "open" /\ d \notin late

\* assertWrite lets the edit in; its revision is being persisted.
Accept(d) ==
    /\ ink[d] = "typed"
    /\ child = "up"
    /\ Writable(d)
    /\ ink' = [ink EXCEPT ![d] = "pending"]
    /\ UNCHANGED <<serviceVars, child, policy, late, groupVars, trouble>>

Persist(d) ==
    /\ ink[d] = "pending"
    /\ ink' = [ink EXCEPT ![d] = "saved"]
    /\ UNCHANGED <<serviceVars, child, policy, late, groupVars, trouble>>

\* The edit is refused, its browser is closed, or its write rolls back.
Forget(d) ==
    /\ \/ ink[d] = "typed" /\ UNCHANGED trouble
       \/ ink[d] = "pending" /\ Fault
    /\ ink' = [ink EXCEPT ![d] = "none"]
    /\ UNCHANGED <<serviceVars, child, policy, late, groupVars>>

-----------------------------------------------------------------------------
(* The group and the clock *)

\* The room of the group is published.
Publish ==
    /\ session = "waiting"
    /\ roster # {}
    /\ session' = "running"
    /\ UNCHANGED <<serviceVars, editorVars, late, roster, completed, trouble>>

\* The lobby closes or the group falls apart.
AbortGroup ==
    /\ session \in {"waiting", "running"}
    /\ session' = "aborted"
    /\ UNCHANGED <<serviceVars, editorVars, late, roster, completed, trouble>>

\* The Chat Service finalizes the discussion or an operator closes it.
CompleteGroup ==
    /\ session = "running"
    /\ session' = "completed"
    /\ UNCHANGED <<serviceVars, editorVars, late, roster, completed, trouble>>

\* completeParticipant, after the exit survey (surveyPadId).
CompleteStudy(p) ==
    /\ p \in roster \ completed
    /\ pad[<<p, "exit">>] = "captured"
    /\ completed' = completed \cup {p}
    /\ UNCHANGED <<serviceVars, editorVars, late, session, roster, trouble>>

\* The deadline of the group pad is the end of the discussion.
DeadlinePasses(d) ==
    /\ d \notin late
    /\ IF d = Group THEN session # "waiting" ELSE pad[d] # "none"
    /\ late' = late \cup {d}
    /\ UNCHANGED <<serviceVars, editorVars, groupVars, trouble>>

-----------------------------------------------------------------------------

Service ==
    \/ \E on \in BOOLEAN : SetEnabled(on)
    \/ \E p \in Participants :
          \/ Prepare(p)
          \/ TakeSeat(p)
          \/ Attach(p)
          \/ Rejoin(p)
          \/ Leave(p)
          \/ Expire(p)
          \/ \E d \in {<<p, "entry">>, Group, <<p, "exit">>} : OpenPad(p, d)
          \/ \E phase \in {"entry", "exit"} : OpenPadCrashes(p, phase)
          \/ \E d \in {<<p, "entry">>, Group, <<p, "exit">>} : Finish(p, d) \/ FinishFails(p, d)
    \/ Reconcile
    \/ ReconcileFails

Editor ==
    \/ Booted
    \/ ChildExits
    \/ ChildCrashes
    \/ \E d \in Docs : Type(d) \/ Accept(d) \/ Persist(d) \/ Forget(d)

Environment ==
    \/ Publish
    \/ AbortGroup
    \/ CompleteGroup
    \/ \E p \in Participants : CompleteStudy(p)
    \/ \E d \in Docs : DeadlinePasses(d)

Next == Service \/ Editor \/ Environment

Spec == Init /\ [][Next]_vars

\* What the clock does; each of these happens finitely often.
Clock ==
    \/ session = "waiting" /\ (Publish \/ AbortGroup)
    \/ \E d \in Docs : DeadlinePasses(d)
    \/ \E p \in Participants : Expire(p)

\* The timer of onModuleInit, the supervisor's SIGKILL and the clock, which also
\* starts or closes a lobby.  An editor that was started comes up unless it
\* crashes.  What participants and the researcher do is not fair.
FairSpec ==
    /\ Spec
    /\ WF_vars(Reconcile)
    /\ WF_vars(Booted)
    /\ WF_vars(ChildExits)
    /\ WF_vars(Clock)

-----------------------------------------------------------------------------

\* Types; a pad record that was never stored has neither text nor edits, and a
\* seat implies a mode.
TypeOK ==
    /\ enabled \in BOOLEAN
    /\ state \in {"stopped", "starting", "ready", "draining", "stopping", "error"}
    /\ admission \in [Participants -> [mode : {"none", "ranking", "etherpad"},
                                      seated : BOOLEAN, term : {"valid", "expired", "done"}]]
    /\ pad \in [Docs -> {"none", "open", "captured"}]
    /\ text \in [Docs -> {"null", "blank", "written"}]
    /\ child \in {"none", "booting", "up", "stopping"}
    /\ policy \in [Docs -> {"none", "open", "closed"}]
    /\ ink \in [Docs -> {"none", "typed", "pending", "saved"}]
    /\ late \subseteq Docs
    /\ session \in {"waiting", "running", "aborted", "completed"}
    /\ roster \subseteq Participants
    /\ completed \subseteq roster
    /\ trouble \in 0 .. MaxTrouble
    /\ \A d \in Docs : pad[d] = "none" => policy[d] = "none" /\ ink[d] = "none"
    /\ \A p \in roster : admission[p].mode = "etherpad"

\* The text of a captured pad is what the editor accepted from its writers: no
\* accepted edit is missing and none is accepted afterwards, whoever captured
\* the pad and however often (capture, /gdm/close, assertWrite).
RecordMatchesPad ==
    \A d \in Docs : pad[d] = "captured" =>
        /\ ink[d] # "pending"
        /\ text[d] = IF ink[d] = "saved" THEN "written" ELSE "blank"

\* The editor is only stopped once every pad it has opened for writing is in
\* the research database (reconcile, /stop).
StopSparesText ==
    child = "stopping" => \A d \in Docs : policy[d] # "none" => pad[d] = "captured"

\* Whoever has a seat in a writing group has an entry response on record
\* (modeFor), so surveyPadId finds it.
EntryFirst == \A p \in roster : pad[<<p, "entry">>] = "captured"

\* A pad that was opened is captured, also when its writer is gone, its record
\* is a stray, the editor crashed or the workspace was switched off (reconcile).
EveryPadCaptured == (\E d \in Docs : pad[d] = "open") ~> \A d \in Docs : pad[d] # "open"

\* Once the workspace is switched off the editor stops, unless it is switched on
\* again: no admission and no pad keeps it draining (docs/etherpad.md).
Drains == ~enabled ~> enabled \/ (state = "stopped" /\ child = "none")

\* The settings are locked only while the editor starts or stops, and that ends
\* (busy, WorkspaceMutationGuard).
LockEnds == state \in {"starting", "stopping"} ~> state \notin {"starting", "stopping"}
=============================================================================
