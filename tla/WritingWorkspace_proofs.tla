----------------------- MODULE WritingWorkspace_proofs -----------------------
(***************************************************************************)
(* Proofs about WritingWorkspace, for any participants, any pads written   *)
(* in and any amount of trouble.                                           *)
(*                                                                         *)
(* A captured pad is closed in the editor (Frozen), which is what makes    *)
(* RecordMatchesPad inductive: an edit is accepted by an open pad only.    *)
(***************************************************************************)
EXTENDS WritingWorkspace, TLAPS

Frozen == \A d \in Docs : pad[d] = "captured" => policy[d] = "closed"

AdmissionsTyped ==
    admission \in [Participants -> [mode : {"none", "ranking", "etherpad"},
                                   seated : BOOLEAN, term : {"valid", "expired", "done"}]]

IInv == TypeOK /\ Frozen /\ RecordMatchesPad /\ StopSparesText /\ EntryFirst

-----------------------------------------------------------------------------
(***************************************************************************)
(* Operators                                                               *)
(***************************************************************************)

\* attach changes two fields of an admission.
LEMMA SeatTyped ==
    ASSUME NEW r \in [mode : {"none", "ranking", "etherpad"},
                      seated : BOOLEAN, term : {"valid", "expired", "done"}],
           NEW t \in {"valid", "expired", "done"}
    PROVE  [[r EXCEPT !.seated = TRUE] EXCEPT !.term = t]
              \in [mode : {"none", "ranking", "etherpad"},
                   seated : BOOLEAN, term : {"valid", "expired", "done"}]
  OBVIOUS

\* The pads a participant's requests name.
LEMMA OwnDocs ==
    ASSUME NEW p \in Participants
    PROVE  /\ \A phase \in {"entry", "exit", "stray"} : <<p, phase>> \in Docs
           /\ Group \in Docs
  BY DEF Docs, Private

\* reconcile leaves every pad as it is, except that it may create the group's.
LEMMA RecordedPads ==
    ASSUME pad \in [Docs -> {"none", "open", "captured"}]
    PROVE  /\ Recorded \in [Docs -> {"none", "open", "captured"}]
           /\ \A d \in Docs : Recorded[d] = pad[d] \/ (pad[d] = "none" /\ Recorded[d] = "open")
  BY DEF Recorded, Docs

\* The sweep changes no mode and no seat.
LEMMA SweptAdmissions ==
    ASSUME TypeOK
    PROVE  /\ Swept \in [Participants -> [mode : {"none", "ranking", "etherpad"},
                                          seated : BOOLEAN, term : {"valid", "expired", "done"}]]
           /\ \A p \in Participants : Swept[p].mode = admission[p].mode
  BY DEF Swept, TypeOK

\* capture keeps the types, and what holds of the pads' records.
LEMMA CaptureKeeps ==
    ASSUME IInv,
           NEW docs \in [Docs -> {"none", "open", "captured"}],
           \A d \in Docs : docs[d] = pad[d] \/ (pad[d] # "captured" /\ docs[d] = "open"),
           NEW D \in SUBSET Docs, NEW S \in SUBSET D,
           \A d \in D : docs[d] = "open",
           Capture(docs, D, S)
    PROVE  /\ pad' \in [Docs -> {"none", "open", "captured"}]
           /\ text' \in [Docs -> {"null", "blank", "written"}]
           /\ policy' \in [Docs -> {"none", "open", "closed"}]
           /\ ink' \in [Docs -> {"none", "typed", "pending", "saved"}]
           /\ \A d \in Docs : pad'[d] = "none" => policy'[d] = "none" /\ ink'[d] = "none"
           /\ \A d \in Docs : pad[d] = "captured" => pad'[d] = "captured"
           /\ Frozen'
           /\ RecordMatchesPad'
<1>1. /\ pad' = [d \in Docs |-> IF d \in S THEN "captured" ELSE docs[d]]
      /\ policy' = [d \in Docs |-> IF d \in D THEN "closed" ELSE policy[d]]
      /\ ink' = [d \in Docs |-> IF d \in D /\ ink[d] = "pending" THEN "saved" ELSE ink[d]]
      /\ text' = [d \in Docs |-> IF d \in S THEN IF ink'[d] = "saved" THEN "written" ELSE "blank"
                                  ELSE text[d]]
  BY DEF Capture, Closed, Settled, Snapshot
<1>2. /\ pad' \in [Docs -> {"none", "open", "captured"}]
      /\ policy' \in [Docs -> {"none", "open", "closed"}]
      /\ ink' \in [Docs -> {"none", "typed", "pending", "saved"}]
  BY <1>1 DEF IInv, TypeOK
<1>3. text' \in [Docs -> {"null", "blank", "written"}]
  <2>1. \A d \in Docs : text'[d] \in {"null", "blank", "written"}
    BY <1>1 DEF IInv, TypeOK
  <2> QED
    BY <1>1, <2>1
<1>4. ASSUME NEW d \in Docs, pad'[d] = "none"
      PROVE  policy'[d] = "none" /\ ink'[d] = "none"
  BY <1>1, <1>4 DEF IInv, TypeOK
<1>5. ASSUME NEW d \in Docs, pad[d] = "captured"
      PROVE  pad'[d] = "captured"
  BY <1>1, <1>5
<1>6. ASSUME NEW d \in Docs, pad'[d] = "captured"
      PROVE  /\ policy'[d] = "closed"
             /\ ink'[d] # "pending"
             /\ text'[d] = IF ink'[d] = "saved" THEN "written" ELSE "blank"
  <2>1. CASE d \in S
    BY <1>1, <1>2, <2>1
  <2>2. CASE d \notin S
    <3>1. pad[d] = "captured"
      BY <1>1, <1>6, <2>2
    <3>2. policy[d] = "closed" /\ ink[d] # "pending"
      BY <3>1 DEF IInv, Frozen, RecordMatchesPad
    <3>3. ink'[d] = ink[d] /\ text'[d] = text[d]
      BY <1>1, <2>2, <3>2
    <3> QED
      BY <1>1, <3>1, <3>2, <3>3 DEF IInv, RecordMatchesPad
  <2> QED
    BY <2>1, <2>2
<1> QED
  BY <1>2, <1>3, <1>4, <1>5, <1>6 DEF Frozen, RecordMatchesPad

-----------------------------------------------------------------------------
(***************************************************************************)
(* The invariant                                                           *)
(***************************************************************************)

LEMMA InitHolds == Init => IInv
<1> SUFFICES ASSUME Init PROVE IInv
  OBVIOUS
<1>1. TypeOK
  <2>1. AdmissionsTyped
    BY DEF Init, AdmissionsTyped
  <2>2. 0 \in 0 .. MaxTrouble
    BY TroubleAssumption DEF TroubleAssumption
  <2>3. /\ pad \in [Docs -> {"none", "open", "captured"}]
        /\ text \in [Docs -> {"null", "blank", "written"}]
        /\ policy \in [Docs -> {"none", "open", "closed"}]
        /\ ink \in [Docs -> {"none", "typed", "pending", "saved"}]
    BY DEF Init
  <2> QED
    BY <2>1, <2>2, <2>3 DEF Init, TypeOK, AdmissionsTyped
<1>2. Frozen /\ RecordMatchesPad /\ StopSparesText /\ EntryFirst
  BY DEF Init, Frozen, RecordMatchesPad, StopSparesText, EntryFirst
<1> QED
  BY <1>1, <1>2 DEF IInv

\* The trouble stays within its bound.
LEMMA FaultCounts ==
    ASSUME trouble \in 0 .. MaxTrouble, Fault
    PROVE  trouble' \in 0 .. MaxTrouble
  BY TroubleAssumption DEF TroubleAssumption, Fault

USE DEF serviceVars, editorVars, groupVars

\* Requests that touch no pad.
LEMMA AdmissionsKeep ==
    ASSUME IInv,
           \/ \E on \in BOOLEAN : SetEnabled(on)
           \/ \E p \in Participants : \/ Prepare(p) \/ TakeSeat(p) \/ Attach(p)
                                      \/ Rejoin(p) \/ Leave(p) \/ Expire(p)
    PROVE  IInv'
<1> USE DEF IInv
<1>1. UNCHANGED <<pad, text, policy, ink, child, late, session, completed>>
  BY DEF SetEnabled, Prepare, TakeSeat, Attach, Rejoin, Leave, Expire
<1>2. Frozen' /\ RecordMatchesPad' /\ StopSparesText'
  BY <1>1 DEF Frozen, RecordMatchesPad, StopSparesText
<1>3. /\ enabled' \in BOOLEAN
      /\ state' \in {"stopped", "starting", "ready", "draining", "stopping", "error"}
  BY DEF SetEnabled, Prepare, TakeSeat, Attach, Rejoin, Leave, Expire, TypeOK
<1>8. trouble' \in 0 .. MaxTrouble
  <2>1. trouble' = trouble \/ Fault
    BY DEF SetEnabled, Prepare, TakeSeat, Attach, Rejoin, Leave, Expire
  <2> QED
    BY <2>1, FaultCounts DEF TypeOK
<1>4. AdmissionsTyped'
  <2>1. CASE admission' = admission
    BY <2>1 DEF TypeOK, AdmissionsTyped
  <2>2. ASSUME NEW p \in Participants, Prepare(p)
        PROVE  AdmissionsTyped'
    BY <2>2 DEF Prepare, TypeOK, AdmissionsTyped
  <2>3. ASSUME NEW p \in Participants, Attach(p)
        PROVE  AdmissionsTyped'
    <3>1. Renewed(p) \in {"valid", "expired", "done"}
      BY DEF Renewed
    <3>2. /\ admission' = [q \in Participants |-> admission'[q]]
          /\ \A q \in Participants : q # p => admission'[q] = admission[q]
          /\ admission'[p] = [[admission[p] EXCEPT !.seated = TRUE] EXCEPT !.term = Renewed(p)]
      BY <2>3 DEF Attach, TypeOK
    <3> DEFINE Typed == [mode : {"none", "ranking", "etherpad"},
                         seated : BOOLEAN, term : {"valid", "expired", "done"}]
    <3>3. \A q \in Participants : admission[q] \in Typed
      BY DEF TypeOK
    <3>4. admission'[p] \in Typed
      BY <3>1, <3>2, <3>3, SeatTyped
    <3>5. \A q \in Participants : admission'[q] \in Typed
      <4> HIDE DEF Typed, IInv
      <4> QED
        BY <3>2, <3>3, <3>4
    <3> QED
      BY <3>2, <3>5 DEF AdmissionsTyped
  <2>4. ASSUME NEW p \in Participants, Rejoin(p) \/ Leave(p) \/ Expire(p)
        PROVE  AdmissionsTyped'
    BY <2>4 DEF Rejoin, Leave, Expire, Renewed, TypeOK, AdmissionsTyped
  <2> HIDE DEF IInv
  <2> QED
    BY <2>1, <2>2, <2>3, <2>4 DEF SetEnabled, TakeSeat
<1>9. \A p \in Participants : admission[p].mode = "etherpad" => admission'[p].mode = "etherpad"
  <2>1. CASE admission' = admission
    BY <2>1
  <2>2. ASSUME NEW p \in Participants, Prepare(p)
        PROVE  \A q \in Participants : admission[q].mode = "etherpad" => admission'[q].mode = "etherpad"
    BY <2>2 DEF Prepare, TypeOK
  <2>3. ASSUME NEW p \in Participants, Attach(p)
        PROVE  \A q \in Participants : admission[q].mode = "etherpad" => admission'[q].mode = "etherpad"
    BY <2>3 DEF Attach, TypeOK
  <2>4. ASSUME NEW p \in Participants, Rejoin(p) \/ Leave(p) \/ Expire(p)
        PROVE  \A q \in Participants : admission[q].mode = "etherpad" => admission'[q].mode = "etherpad"
    BY <2>4 DEF Rejoin, Leave, Expire, TypeOK
  <2> QED
    BY <2>1, <2>2, <2>3, <2>4 DEF SetEnabled, TakeSeat
<1>5. /\ roster' \subseteq Participants
      /\ roster \subseteq roster'
      /\ \A p \in roster' : p \in roster \/ (admission[p].mode = "etherpad" /\ pad[<<p, "entry">>] = "captured")
  BY DEF SetEnabled, Prepare, TakeSeat, Attach, Rejoin, Leave, Expire, TypeOK, Active
<1>6. TypeOK'
  BY <1>1, <1>3, <1>4, <1>5, <1>8, <1>9 DEF TypeOK, AdmissionsTyped
<1>7. EntryFirst'
  BY <1>1, <1>5 DEF EntryFirst
<1> QED
  BY <1>2, <1>6, <1>7

\* pad
LEMMA OpenKeeps ==
    ASSUME IInv, NEW p \in Participants, NEW d \in Docs, OpenPad(p, d)
    PROVE  IInv'
<1> USE DEF IInv
<1> DEFINE docs == [pad EXCEPT ![d] = "open"]
<1>1. /\ docs \in [Docs -> {"none", "open", "captured"}]
      /\ pad[d] # "captured"
      /\ docs[d] = "open"
      /\ \A e \in Docs : e # d => docs[e] = pad[e]
  BY DEF OpenPad, TypeOK
<1>2. /\ UNCHANGED <<enabled, state, admission, late, session, roster, completed, trouble>>
      /\ \A e \in Docs : docs[e] = pad[e] \/ (pad[e] # "captured" /\ docs[e] = "open")
  BY <1>1 DEF OpenPad
<1>6. \A e \in {d} : docs[e] = "open"
  BY <1>1
<1> HIDE DEF docs
<1>3. CASE child = "up" /\ d \notin late
  <2>1. /\ pad' = docs
        /\ UNCHANGED <<text, child, ink>>
        /\ policy' = [e \in Docs |-> IF e \in {d} /\ policy[e] = "none" THEN "open" ELSE policy[e]]
    BY <1>3 DEF OpenPad, Created, docs
  <2>2. TypeOK'
    BY <1>1, <1>2, <2>1 DEF TypeOK
  <2>3. Frozen' /\ RecordMatchesPad'
    BY <1>1, <2>1 DEF TypeOK, Frozen, RecordMatchesPad
  <2>4. StopSparesText'
    BY <1>3, <2>1 DEF StopSparesText
  <2>5. EntryFirst'
    BY <1>1, <1>2, <2>1, OwnDocs DEF TypeOK, EntryFirst
  <2> QED
    BY <2>2, <2>3, <2>4, <2>5
<1>4. CASE child = "up" /\ d \in late
  <2>1. Capture(docs, {d}, {d}) /\ child' = child
    BY <1>4 DEF OpenPad, docs
  <2>2. /\ pad' \in [Docs -> {"none", "open", "captured"}]
        /\ text' \in [Docs -> {"null", "blank", "written"}]
        /\ policy' \in [Docs -> {"none", "open", "closed"}]
        /\ ink' \in [Docs -> {"none", "typed", "pending", "saved"}]
        /\ \A e \in Docs : pad'[e] = "none" => policy'[e] = "none" /\ ink'[e] = "none"
        /\ \A e \in Docs : pad[e] = "captured" => pad'[e] = "captured"
        /\ Frozen'
        /\ RecordMatchesPad'
    BY <1>1, <1>2, <1>6, <2>1, CaptureKeeps
  <2>3. TypeOK'
    BY <1>2, <2>1, <2>2 DEF TypeOK
  <2>4. StopSparesText' /\ EntryFirst'
    BY <1>2, <1>4, <2>1, <2>2, OwnDocs DEF TypeOK, StopSparesText, EntryFirst
  <2> QED
    BY <2>2, <2>3, <2>4
<1>5. CASE child # "up"
  <2>1. /\ pad' = docs
        /\ UNCHANGED <<text, policy, ink>>
        /\ child' = IF child = "none" THEN "booting" ELSE child
    BY <1>5 DEF OpenPad, Spawned, docs
  <2>2. TypeOK'
    BY <1>1, <1>2, <2>1 DEF TypeOK
  <2>3. Frozen' /\ RecordMatchesPad'
    BY <1>1, <2>1 DEF Frozen, RecordMatchesPad
  <2>4. StopSparesText'
    BY <1>1, <2>1 DEF StopSparesText
  <2>5. EntryFirst'
    BY <1>1, <1>2, <2>1, OwnDocs DEF TypeOK, EntryFirst
  <2> QED
    BY <2>2, <2>3, <2>4, <2>5
<1> QED
  BY <1>3, <1>4, <1>5

LEMMA OpenCrashKeeps ==
    ASSUME IInv, NEW p \in Participants, NEW phase, OpenPadCrashes(p, phase)
    PROVE  IInv'
<1> USE DEF IInv
<1> DEFINE d == <<p, "stray">>
<1>1. d \in Docs /\ pad[d] = "none" /\ pad' = [pad EXCEPT ![d] = "open"]
  BY OwnDocs DEF OpenPadCrashes
<1>2. UNCHANGED <<enabled, state, admission, text, child, policy, ink, late, session, roster, completed>>
  BY DEF OpenPadCrashes
<1>3. trouble' \in 0 .. MaxTrouble
  BY FaultCounts DEF OpenPadCrashes, TypeOK
<1>4. TypeOK'
  BY <1>1, <1>2, <1>3 DEF TypeOK
<1>5. Frozen' /\ RecordMatchesPad'
  BY <1>1, <1>2 DEF Frozen, RecordMatchesPad
<1>6. StopSparesText'
  BY <1>1, <1>2 DEF TypeOK, StopSparesText
<1>7. EntryFirst'
  BY <1>1, <1>2, OwnDocs DEF TypeOK, EntryFirst
<1> QED
  BY <1>4, <1>5, <1>6, <1>7

\* One pad is closed, and its text stored or lost.
LEMMA CloseOneKeeps ==
    ASSUME IInv, NEW d \in Docs, pad[d] = "open", NEW S \in SUBSET {d}, Capture(pad, {d}, S)
    PROVE  /\ pad' \in [Docs -> {"none", "open", "captured"}]
           /\ text' \in [Docs -> {"null", "blank", "written"}]
           /\ policy' \in [Docs -> {"none", "open", "closed"}]
           /\ ink' \in [Docs -> {"none", "typed", "pending", "saved"}]
           /\ \A e \in Docs : pad'[e] = "none" => policy'[e] = "none" /\ ink'[e] = "none"
           /\ \A e \in Docs : pad[e] = "captured" => pad'[e] = "captured"
           /\ Frozen'
           /\ RecordMatchesPad'
<1>1. pad \in [Docs -> {"none", "open", "captured"}]
  BY DEF IInv, TypeOK
<1>2. {d} \in SUBSET Docs /\ \A e \in {d} : pad[e] = "open"
  OBVIOUS
<1>3. \A e \in Docs : pad[e] = pad[e] \/ (pad[e] # "captured" /\ pad[e] = "open")
  OBVIOUS
<1> QED
  BY <1>1, <1>2, <1>3, CaptureKeeps

\* finish
LEMMA FinishKeeps ==
    ASSUME IInv, NEW p \in Participants, NEW d \in Docs, Finish(p, d)
    PROVE  IInv'
<1> USE DEF IInv
<1>1. UNCHANGED <<enabled, state, child, late, session, roster, completed, trouble>>
  BY DEF Finish
<1>2. AdmissionsTyped' /\ \A q \in Participants : admission'[q].mode = admission[q].mode
  BY DEF Finish, TypeOK, AdmissionsTyped
<1>3. CASE Closable(d) /\ Capture(pad, {d}, {d})
  <2>1. /\ pad \in [Docs -> {"none", "open", "captured"}]
        /\ \A e \in {d} : pad[e] = "open"
        /\ child = "up"
    BY <1>3 DEF Closable, TypeOK
  <2>2. /\ pad' \in [Docs -> {"none", "open", "captured"}]
        /\ text' \in [Docs -> {"null", "blank", "written"}]
        /\ policy' \in [Docs -> {"none", "open", "closed"}]
        /\ ink' \in [Docs -> {"none", "typed", "pending", "saved"}]
        /\ \A e \in Docs : pad'[e] = "none" => policy'[e] = "none" /\ ink'[e] = "none"
        /\ \A e \in Docs : pad[e] = "captured" => pad'[e] = "captured"
        /\ Frozen'
        /\ RecordMatchesPad'
    BY <1>3, <2>1, CloseOneKeeps
  <2>3. TypeOK'
    BY <1>1, <1>2, <2>1, <2>2 DEF TypeOK, AdmissionsTyped
  <2>4. StopSparesText' /\ EntryFirst'
    BY <1>1, <2>1, <2>2, OwnDocs DEF TypeOK, StopSparesText, EntryFirst
  <2> QED
    BY <2>2, <2>3, <2>4
<1>4. CASE UNCHANGED <<policy, ink, pad, text>>
  <2>1. TypeOK'
    BY <1>1, <1>2, <1>4 DEF TypeOK, AdmissionsTyped
  <2>2. Frozen' /\ RecordMatchesPad' /\ StopSparesText' /\ EntryFirst'
    BY <1>1, <1>4 DEF Frozen, RecordMatchesPad, StopSparesText, EntryFirst
  <2> QED
    BY <2>1, <2>2
<1> QED
  BY <1>3, <1>4 DEF Finish

LEMMA FinishFailsKeeps ==
    ASSUME IInv, NEW p \in Participants, NEW d \in Docs, FinishFails(p, d)
    PROVE  IInv'
<1> USE DEF IInv
<1>1. /\ UNCHANGED <<enabled, state, admission, child, late, session, roster, completed>>
      /\ Capture(pad, {d}, {})
  BY DEF FinishFails
<1>2. trouble' \in 0 .. MaxTrouble
  BY FaultCounts DEF FinishFails, TypeOK
<1>3. /\ pad \in [Docs -> {"none", "open", "captured"}]
      /\ \A e \in {d} : pad[e] = "open"
      /\ child = "up"
  BY DEF FinishFails, Closable, TypeOK
<1>4. /\ pad' \in [Docs -> {"none", "open", "captured"}]
      /\ text' \in [Docs -> {"null", "blank", "written"}]
      /\ policy' \in [Docs -> {"none", "open", "closed"}]
      /\ ink' \in [Docs -> {"none", "typed", "pending", "saved"}]
      /\ \A e \in Docs : pad'[e] = "none" => policy'[e] = "none" /\ ink'[e] = "none"
      /\ \A e \in Docs : pad[e] = "captured" => pad'[e] = "captured"
      /\ Frozen'
      /\ RecordMatchesPad'
  BY <1>1, <1>3, CloseOneKeeps
<1>5. TypeOK'
  BY <1>1, <1>2, <1>4 DEF TypeOK
<1>6. StopSparesText' /\ EntryFirst'
  BY <1>1, <1>3, <1>4, OwnDocs DEF TypeOK, StopSparesText, EntryFirst
<1> QED
  BY <1>4, <1>5, <1>6

\* The editor is stopped when no pad is left open.
LEMMA StoppedAtRest ==
    ASSUME IInv, Idle, Capture(Recorded, Due, Due)
    PROVE  \A d \in Docs : pad'[d] # "open"
<1> SUFFICES ASSUME NEW d \in Docs
             PROVE  pad'[d] # "open"
  OBVIOUS
<1>1. pad'[d] = IF d \in Due THEN "captured" ELSE Recorded[d]
  BY DEF Capture
<1>2. CASE d \in Due
  BY <1>1, <1>2
<1>3. CASE d \notin Due
  <2>1. d \notin Uncaptured
    BY <1>3 DEF Idle
  <2> QED
    BY <1>1, <1>3, <2>1 DEF Uncaptured
<1> QED
  BY <1>2, <1>3

\* What every capture of reconcile leaves behind.
LEMMA ReconciledPads ==
    ASSUME IInv, NEW D \in SUBSET Due, NEW S \in SUBSET D, Capture(Recorded, D, S)
    PROVE  /\ pad' \in [Docs -> {"none", "open", "captured"}]
           /\ text' \in [Docs -> {"null", "blank", "written"}]
           /\ policy' \in [Docs -> {"none", "open", "closed"}]
           /\ ink' \in [Docs -> {"none", "typed", "pending", "saved"}]
           /\ \A e \in Docs : pad'[e] = "none" => policy'[e] = "none" /\ ink'[e] = "none"
           /\ \A e \in Docs : pad[e] = "captured" => pad'[e] = "captured"
           /\ Frozen'
           /\ RecordMatchesPad'
<1>1. /\ Recorded \in [Docs -> {"none", "open", "captured"}]
      /\ \A d \in Docs : Recorded[d] = pad[d] \/ (pad[d] # "captured" /\ Recorded[d] = "open")
  BY RecordedPads DEF IInv, TypeOK
<1>2. D \in SUBSET Docs /\ \A d \in D : Recorded[d] = "open"
  BY DEF Due, Uncaptured
<1> QED
  BY <1>1, <1>2, CaptureKeeps

\* reconcile
LEMMA ReconcileKeeps ==
    ASSUME IInv, Reconcile
    PROVE  IInv'
<1> USE DEF IInv
<1>1. UNCHANGED <<enabled, late, session, roster, completed, trouble>>
  BY DEF Reconcile
<1>2. AdmissionsTyped' /\ \A q \in Participants : admission'[q].mode = admission[q].mode
  BY SweptAdmissions DEF Reconcile, AdmissionsTyped
<1>3. /\ state' \in {"stopped", "starting", "ready", "draining", "stopping", "error"}
      /\ child' \in {"none", "booting", "up", "stopping"}
  BY DEF Reconcile, StartEditor, Spawned, StopEditor, KeepEditor, TypeOK
<1>4. CASE StartEditor /\ child # "up"
  <2>1. /\ pad' = Recorded
        /\ UNCHANGED <<text, policy, ink>>
        /\ child' = "stopping" => child = "stopping"
    BY <1>4 DEF StartEditor, Spawned
  <2>2. /\ pad' \in [Docs -> {"none", "open", "captured"}]
        /\ \A d \in Docs : pad'[d] = pad[d] \/ (pad[d] = "none" /\ pad'[d] = "open")
    BY <2>1, RecordedPads DEF TypeOK
  <2>3. TypeOK'
    BY <1>1, <1>2, <1>3, <2>1, <2>2 DEF TypeOK, AdmissionsTyped
  <2>4. Frozen' /\ RecordMatchesPad'
    BY <2>1, <2>2 DEF Frozen, RecordMatchesPad
  <2>5. StopSparesText'
    BY <2>1, <2>2 DEF StopSparesText
  <2>6. EntryFirst'
    BY <1>1, <2>2, OwnDocs DEF TypeOK, EntryFirst
  <2> QED
    BY <2>3, <2>4, <2>5, <2>6
<1>5. CASE /\ Needed => child = "up"
           /\ Capture(Recorded, Due, Due)
           /\ IF Idle THEN StopEditor ELSE KeepEditor
  <2>1. /\ pad' \in [Docs -> {"none", "open", "captured"}]
        /\ text' \in [Docs -> {"null", "blank", "written"}]
        /\ policy' \in [Docs -> {"none", "open", "closed"}]
        /\ ink' \in [Docs -> {"none", "typed", "pending", "saved"}]
        /\ \A e \in Docs : pad'[e] = "none" => policy'[e] = "none" /\ ink'[e] = "none"
        /\ \A e \in Docs : pad[e] = "captured" => pad'[e] = "captured"
        /\ Frozen'
        /\ RecordMatchesPad'
    BY <1>5, ReconciledPads
  <2>2. TypeOK'
    BY <1>1, <1>2, <1>3, <2>1 DEF TypeOK, AdmissionsTyped
  <2>3. EntryFirst'
    BY <1>1, <2>1, OwnDocs DEF TypeOK, EntryFirst
  <2>4. CASE Idle
    <3>1. \A d \in Docs : pad'[d] # "open"
      BY <1>5, <2>4, StoppedAtRest
    <3> QED
      BY <2>1, <2>2, <2>3, <3>1 DEF StopSparesText
  <2>5. CASE ~Idle
    <3>1. Needed
      BY <2>5 DEF Idle, Needed
    <3>2. child' # "stopping"
      BY <1>5, <2>5, <3>1 DEF KeepEditor
    <3> QED
      BY <2>1, <2>2, <2>3, <3>2 DEF StopSparesText
  <2> QED
    BY <2>4, <2>5
<1> QED
  BY <1>4, <1>5 DEF Reconcile

LEMMA ReconcileFailsKeeps ==
    ASSUME IInv, ReconcileFails
    PROVE  IInv'
<1> USE DEF IInv
<1>1. UNCHANGED <<enabled, late, session, roster, completed>> /\ state' = "error"
  BY DEF ReconcileFails
<1>2. AdmissionsTyped' /\ \A q \in Participants : admission'[q].mode = admission[q].mode
  BY SweptAdmissions DEF ReconcileFails, AdmissionsTyped
<1>3. trouble' \in 0 .. MaxTrouble
  BY FaultCounts DEF ReconcileFails, TypeOK
<1>4. PICK S \in SUBSET Due, C \in {{}} \cup {{d} : d \in Due} :
         /\ child # "up" => S \cup C = {}
         /\ Capture(Recorded, S \cup C, S)
         /\ \/ child' = child
            \/ child' = Spawned /\ Needed
            \/ child = "up" /\ Idle /\ S = Due /\ child' = "stopping"
  BY DEF ReconcileFails
<1>5. S \cup C \in SUBSET Due /\ S \in SUBSET (S \cup C)
  OBVIOUS
<1>6. /\ pad' \in [Docs -> {"none", "open", "captured"}]
      /\ text' \in [Docs -> {"null", "blank", "written"}]
      /\ policy' \in [Docs -> {"none", "open", "closed"}]
      /\ ink' \in [Docs -> {"none", "typed", "pending", "saved"}]
      /\ \A e \in Docs : pad'[e] = "none" => policy'[e] = "none" /\ ink'[e] = "none"
      /\ \A e \in Docs : pad[e] = "captured" => pad'[e] = "captured"
      /\ Frozen'
      /\ RecordMatchesPad'
  BY <1>4, <1>5, ReconciledPads
<1>7. child' \in {"none", "booting", "up", "stopping"}
  BY <1>4 DEF Spawned, TypeOK
<1>8. TypeOK'
  BY <1>1, <1>2, <1>3, <1>6, <1>7 DEF TypeOK, AdmissionsTyped
<1>9. EntryFirst'
  BY <1>1, <1>6, OwnDocs DEF TypeOK, EntryFirst
<1>10. StopSparesText'
  <2>1. CASE child' # "stopping"
    BY <2>1 DEF StopSparesText
  <2>2. CASE child' = "stopping" /\ child = "stopping"
    <3>1. policy' = policy
      BY <1>4, <2>2 DEF Capture, Closed, TypeOK
    <3> QED
      BY <1>6, <2>2, <3>1 DEF StopSparesText
  <2>3. CASE child' = "stopping" /\ child # "stopping"
    <3>1. Idle /\ S = Due
      BY <1>4, <2>3 DEF Spawned
    <3>2. S \cup C = Due
      BY <1>5, <3>1
    <3>3. \A d \in Docs : pad'[d] # "open"
      BY <1>4, <3>1, <3>2, StoppedAtRest
    <3> QED
      BY <1>6, <3>3 DEF StopSparesText
  <2> QED
    BY <2>1, <2>2, <2>3
<1> QED
  BY <1>6, <1>8, <1>9, <1>10

\* The supervisor, the writers, the clock and the group.
LEMMA WorldKeeps ==
    ASSUME IInv, Editor \/ Environment
    PROVE  IInv'
<1> USE DEF IInv
<1>1. UNCHANGED <<enabled, state, admission, pad, text>>
  BY DEF Editor, Environment, Booted, ChildExits, ChildCrashes, Ends, Type, Accept, Persist,
         Forget, Publish, AbortGroup, CompleteGroup, CompleteStudy, DeadlinePasses
<1>2. policy' = policy
  BY DEF Editor, Environment, Booted, ChildExits, ChildCrashes, Ends, Type, Accept, Persist,
         Forget, Publish, AbortGroup, CompleteGroup, CompleteStudy, DeadlinePasses
<1>4. /\ roster' = roster
      /\ completed' \subseteq roster
      /\ session' \in {"waiting", "running", "aborted", "completed"}
      /\ late' \subseteq Docs
  <2>1. CASE Editor
    BY <2>1 DEF TypeOK, Editor, Booted, ChildExits, ChildCrashes, Ends, Type, Accept, Persist, Forget
  <2>2. CASE Environment
    BY <2>2 DEF TypeOK, Environment, Publish, AbortGroup, CompleteGroup, CompleteStudy, DeadlinePasses
  <2> QED
    BY <2>1, <2>2
<1>5. trouble' \in 0 .. MaxTrouble
  <2>1. trouble' = trouble \/ Fault
    BY DEF Editor, Environment, Booted, ChildExits, ChildCrashes, Ends, Type, Accept, Persist,
           Forget, Publish, AbortGroup, CompleteGroup, CompleteStudy, DeadlinePasses
  <2> QED
    BY <2>1, FaultCounts DEF TypeOK
<1>6. /\ child' \in {"none", "booting", "up", "stopping"}
      /\ child' = "stopping" => child = "stopping"
  BY DEF TypeOK, Editor, Environment, Booted, ChildExits, ChildCrashes, Ends, Type, Accept, Persist,
         Forget, Publish, AbortGroup, CompleteGroup, CompleteStudy, DeadlinePasses
<1>7. /\ ink' \in [Docs -> {"none", "typed", "pending", "saved"}]
      /\ \A d \in Docs : \/ ink'[d] = ink[d]
                         \/ ink[d] = "none" /\ policy[d] = "open"
                         \/ ink[d] = "typed" /\ ink'[d] = "pending" /\ policy[d] = "open"
                         \/ ink[d] = "typed" /\ ink'[d] = "none"
                         \/ ink[d] = "pending"
  <2>1. CASE ink' = ink
    BY <2>1 DEF TypeOK
  <2>2. CASE Ends
    BY <2>2 DEF TypeOK, Ends
  <2>3. ASSUME NEW d \in Docs, Type(d) \/ Accept(d) \/ Persist(d) \/ Forget(d)
        PROVE  <1>7
    BY <2>3 DEF TypeOK, Type, Accept, Writable, Persist, Forget
  <2> QED
    BY <2>1, <2>2, <2>3 DEF Editor, Environment, Booted, ChildExits, ChildCrashes,
       Publish, AbortGroup, CompleteGroup, CompleteStudy, DeadlinePasses
<1>8. TypeOK'
  BY <1>1, <1>2, <1>4, <1>5, <1>6, <1>7 DEF TypeOK
<1>9. Frozen' /\ StopSparesText' /\ EntryFirst'
  BY <1>1, <1>2, <1>4, <1>6 DEF Frozen, StopSparesText, EntryFirst
<1>10. RecordMatchesPad'
  BY <1>1, <1>7 DEF Frozen, RecordMatchesPad
<1> QED
  BY <1>8, <1>9, <1>10

LEMMA StepKeeps ==
    ASSUME IInv, [Next]_vars
    PROVE  IInv'
<1>1. CASE UNCHANGED vars
  BY <1>1 DEF vars, IInv, TypeOK, Frozen, RecordMatchesPad, StopSparesText, EntryFirst
<1>2. CASE Service
  <2>1. ASSUME NEW p \in Participants, NEW d \in {<<p, "entry">>, Group, <<p, "exit">>},
               OpenPad(p, d) \/ Finish(p, d) \/ FinishFails(p, d)
        PROVE  IInv'
    <3>1. d \in Docs
      BY OwnDocs
    <3> QED
      BY <2>1, <3>1, OpenKeeps, FinishKeeps, FinishFailsKeeps
  <2>2. ASSUME NEW p \in Participants, NEW phase \in {"entry", "exit"}, OpenPadCrashes(p, phase)
        PROVE  IInv'
    BY <2>2, OpenCrashKeeps
  <2> QED
    BY <1>2, <2>1, <2>2, AdmissionsKeep, ReconcileKeeps, ReconcileFailsKeeps DEF Service
<1>3. CASE Editor \/ Environment
  BY <1>3, WorldKeeps
<1> QED
  BY <1>1, <1>2, <1>3 DEF Next

LEMMA InvHolds == Spec => []IInv
  BY InitHolds, StepKeeps, PTL DEF Spec

\* The record, the editor and the group have their types, a pad that was never
\* stored is unknown to the editor, and a writing group seats writers only
\* (EtherpadService).
THEOREM WorkspaceTypes == Spec => []TypeOK
  BY InvHolds, PTL DEF IInv

\* The stored text of a captured pad is what the editor accepted, for any number
\* of writers, retries and lost answers (capture, /gdm/close).
THEOREM CapturedTextIsFinal == Spec => []RecordMatchesPad
  BY InvHolds, PTL DEF IInv

\* The editor is stopped only once every pad it opened is on record (reconcile,
\* /stop).
THEOREM NothingLostByStop == Spec => []StopSparesText
  BY InvHolds, PTL DEF IInv

\* Nobody is seated in a writing group without an entry response (modeFor).
THEOREM SeatNeedsEntry == Spec => []EntryFirst
  BY InvHolds, PTL DEF IInv
=============================================================================
