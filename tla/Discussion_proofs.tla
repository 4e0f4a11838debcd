-------------------------- MODULE Discussion_proofs --------------------------
(***************************************************************************)
(* Proofs about Discussion, for any messages, ranking edits, participants, *)
(* classifications, length of the discussion and amount of trouble.        *)
(*                                                                         *)
(* A copy of the record is genuine: it holds only what was said, marks     *)
(* only what it holds, and claims only nudges that were posted.  The room  *)
(* only grows and every operation on copies returns a genuine one, so that *)
(* all copies stay genuine in whatever order they are stored.              *)
(*                                                                         *)
(* On that rest, in this order: the types; and one evaluation and one      *)
(* nudge per boundary, which needs all copies and the room at once, as a   *)
(* boundary evaluated in one life must not be claimed in the next.         *)
(* DiscussionLives_proofs goes on with what the record keeps.              *)
(***************************************************************************)
EXTENDS Discussion, TLAPS, WellFoundedInduction

Genuine(s, said) ==
    /\ s = [revision |-> s.revision, log |-> s.log, order |-> s.order,
            verdict |-> s.verdict, failed |-> s.failed, windows |-> s.windows,
            processed |-> s.processed]
    /\ s.log \subseteq said
    /\ s.processed \subseteq s.log
    /\ \A w \in s.windows : /\ w.end \in Boundaries
                            /\ w.nudged => w.end \in said

IsRequest(c) == c = [kind |-> c.kind, snap |-> c.snap, waiting |-> c.waiting]

\* The window grid, and the nudge on its way.
Grid ==
    /\ clock \in 0 .. Duration
    /\ tick \in Nat /\ claimed \in Nat
    /\ queue \subseteq 1 .. Duration
    /\ \A k \in queue : k <= claimed
    /\ posting => \E k \in queue : k \in Items(room) /\ \A j \in queue : k <= j

\* What was said is what the copies and the buffers can hold.
Honest ==
    /\ room \in Seq(Events)
    /\ cursor \in Nat
    /\ Genuine(stored, Items(room)) /\ Genuine(rt, Items(room))
    /\ start = [stage |-> start.stage, fresh |-> start.fresh,
                note |-> start.note, history |-> start.history]
    /\ Genuine(start.note, Items(room))
    /\ start.history \subseteq Items(room)
    /\ pending \subseteq Items(room)
    /\ \A c \in calls : IsRequest(c) /\ Genuine(c.snap, Items(room))

KnownStatus == status \in {"provisioning", "running", "completed", "aborted"}

RecInv == Grid /\ Honest /\ KnownStatus

----------------------------------------------------------------------------
(***************************************************************************)
(* Operators                                                               *)
(***************************************************************************)

\* The room grows by one event.
LEMMA ItemsOfAppend ==
    ASSUME NEW S, NEW s \in Seq(S), NEW e \in S
    PROVE  /\ Append(s, e) \in Seq(S)
           /\ Items(Append(s, e)) = Items(s) \cup {e}
           /\ Append(s, e) # <<>> /\ Append(s, e)[Len(Append(s, e))] = e
<1>1. /\ Append(s, e) \in Seq(S)
      /\ DOMAIN Append(s, e) = (DOMAIN s) \cup {Len(s) + 1}
      /\ Append(s, e)[Len(s) + 1] = e
      /\ \A i \in DOMAIN s : Append(s, e)[i] = s[i]
      /\ Len(Append(s, e)) = Len(s) + 1
  OBVIOUS
<1> QED
  BY <1>1 DEF Items

\* The event delivered next is one of the room's.
LEMMA NextIsItem ==
    ASSUME NEW S, NEW s \in Seq(S), NEW k \in Nat, k < Len(s)
    PROVE  s[k + 1] \in Items(s)
  BY DEF Items

\* Some boundary of a queue that is not empty is the first.
LEMMA Earliest ==
    ASSUME NEW T, T \subseteq Nat, T # {}
    PROVE  \E k \in T : \A j \in T : k <= j
<1>1. \E k \in T : \A j \in T : <<j, k>> \notin OpToRel(<, Nat)
  BY NatLessThanWellFounded, WFMin
<1>2. PICK k \in T : \A j \in T : <<j, k>> \notin OpToRel(<, Nat)
  BY <1>1
<1>3. \A j \in T : ~ (j < k)
  BY <1>2 DEF OpToRel
<1> QED
  BY <1>3

\* What Selected computes, index by index; it has no shorter input for which
\* a claim about it fails, and so none.
Selects(f, s, X, n) ==
    f = [i \in 0 .. n |->
            IF i = 0 THEN <<>>
            ELSE IF s[i] \in X THEN Append(f[i - 1], s[i]) ELSE f[i - 1]]

LEMMA SelectedExists ==
    ASSUME NEW s, NEW X, NEW n \in Nat
    PROVE  \E f : Selects(f, s, X, n)
<1> DEFINE Bad == {k \in Nat : ~ \E f : Selects(f, s, X, k)}
<1>1. SUFFICES ASSUME Bad # {} PROVE FALSE
  OBVIOUS
<1>2. PICK m \in Bad : \A k \in Bad : m <= k
  <2>1. Bad \subseteq Nat
    OBVIOUS
  <2> HIDE DEF Bad
  <2> QED BY <1>1, <2>1, Earliest
<1>3. CASE m = 0
  <2>1. Selects([i \in 0 .. 0 |-> <<>>], s, X, 0)
    BY DEF Selects
  <2> QED BY <1>3, <2>1
<1>4. CASE m # 0
  <2>1. m - 1 \in Nat /\ m - 1 \notin Bad
    BY <1>2, <1>4
  <2>2. PICK f : Selects(f, s, X, m - 1)
    BY <2>1
  <2> DEFINE g == [i \in 0 .. m |->
                     IF i < m THEN f[i]
                     ELSE IF s[m] \in X THEN Append(f[m - 1], s[m]) ELSE f[m - 1]]
  <2>3. \A i \in 0 .. m - 1 :
          f[i] = IF i = 0 THEN <<>>
                 ELSE IF s[i] \in X THEN Append(f[i - 1], s[i]) ELSE f[i - 1]
    BY <2>2 DEF Selects
  <2>4. \A i \in 0 .. m :
          g[i] = IF i = 0 THEN <<>>
                 ELSE IF s[i] \in X THEN Append(g[i - 1], s[i]) ELSE g[i - 1]
    <3> SUFFICES ASSUME NEW i \in 0 .. m
                 PROVE g[i] = IF i = 0 THEN <<>>
                 ELSE IF s[i] \in X THEN Append(g[i - 1], s[i]) ELSE g[i - 1]
      OBVIOUS
    <3>1. CASE i < m
      BY <2>3, <3>1
    <3>2. CASE i = m
      BY <3>2, <1>4
    <3> QED BY <3>1, <3>2
  <2>5. Selects(g, s, X, m)
    BY <2>4 DEF Selects
  <2> QED BY <1>2, <2>5
<1> QED BY <1>3, <1>4

LEMMA SelectedSteps ==
    ASSUME NEW S, NEW s \in Seq(S), NEW X
    PROVE  \E f : Selects(f, s, X, Len(s)) /\ Selected(s, X) = f[Len(s)]
<1> DEFINE F == CHOOSE f : Selects(f, s, X, Len(s))
<1>1. \E f : Selects(f, s, X, Len(s))
  <2>1. Len(s) \in Nat
    OBVIOUS
  <2> QED BY <2>1, SelectedExists
<1>2. Selects(F, s, X, Len(s))
  BY <1>1, Zenon
<1>3. Selected(s, X) = F[Len(s)]
  BY Zenon DEF Selected, Selects
<1> QED BY <1>2, <1>3

\* The selected elements are those of the sequence that are in the set, and
\* after any of them comes the last one selected.
LEMMA SelectedFacts ==
    ASSUME NEW S, NEW s \in Seq(S), NEW X
    PROVE  /\ Selected(s, X) \in Seq(S \cap X)
           /\ Items(Selected(s, X)) = Items(s) \cap X
           /\ \A i \in DOMAIN s : s[i] \in X =>
                /\ Selected(s, X) # <<>>
                /\ \E j \in DOMAIN s : j >= i /\ s[j] = Selected(s, X)[Len(Selected(s, X))]
<1>1. PICK f : Selects(f, s, X, Len(s)) /\ Selected(s, X) = f[Len(s)]
  BY SelectedSteps
<1> DEFINE Right(n) ==
      /\ f[n] \in Seq(S \cap X)
      /\ Items(f[n]) = {s[i] : i \in 1 .. n} \cap X
      /\ \A i \in 1 .. n : s[i] \in X =>
            f[n] # <<>> /\ \E j \in i .. n : s[j] = f[n][Len(f[n])]
      Wrong == {n \in 0 .. Len(s) : ~ Right(n)}
<1>2. /\ f[0] = <<>>
      /\ \A i \in 1 .. Len(s) :
            /\ s[i] \in X => f[i] = Append(f[i - 1], s[i])
            /\ s[i] \notin X => f[i] = f[i - 1]
  <2>1. 0 \in 0 .. Len(s) /\ \A i \in 1 .. Len(s) : i \in 0 .. Len(s) /\ i # 0
    OBVIOUS
  <2> QED BY <1>1, <2>1, Zenon DEF Selects
<1>3. Right(0)
  <2>1. Items(<<>>) = {}
    BY DEF Items
  <2>2. <<>> \in Seq(S \cap X) /\ 1 .. 0 = {}
    OBVIOUS
  <2> QED BY <1>2, <2>1, <2>2
<1>4. ASSUME NEW n \in 1 .. Len(s), Right(n - 1) PROVE Right(n)
  <2>1. CASE s[n] \notin X
    <3>1. f[n] = f[n - 1]
      BY <1>2, <2>1
    <3>2. {s[i] : i \in 1 .. n} = {s[i] : i \in 1 .. n - 1} \cup {s[n]}
      OBVIOUS
    <3>3. ASSUME NEW i \in 1 .. n, s[i] \in X
          PROVE  f[n] # <<>> /\ \E j \in i .. n : s[j] = f[n][Len(f[n])]
      <4>1. i \in 1 .. n - 1
        BY <2>1, <3>3
      <4> QED BY <1>4, <3>1, <3>3, <4>1
    <3> QED BY <1>4, <2>1, <3>1, <3>2, <3>3
  <2>2. CASE s[n] \in X
    <3>1. f[n] = Append(f[n - 1], s[n])
      BY <1>2, <2>2
    <3>2. s[n] \in S \cap X
      BY <2>2
    <3>3. f[n - 1] \in Seq(S \cap X)
      BY <1>4
    <3>4. f[n] \in Seq(S \cap X) /\ Items(f[n]) = Items(f[n - 1]) \cup {s[n]}
          /\ f[n] # <<>> /\ f[n][Len(f[n])] = s[n]
      <4> DEFINE t == f[n - 1]
                 e == s[n]
      <4>1. t \in Seq(S \cap X) /\ e \in S \cap X /\ f[n] = Append(t, e)
        BY <3>1, <3>2, <3>3
      <4> HIDE DEF t, e, Right, Wrong
      <4>2. f[n] \in Seq(S \cap X) /\ Items(f[n]) = Items(t) \cup {e}
            /\ f[n] # <<>> /\ f[n][Len(f[n])] = e
        BY <4>1, ItemsOfAppend
      <4> QED BY <4>2 DEF t, e
    <3>5. {s[i] : i \in 1 .. n} = {s[i] : i \in 1 .. n - 1} \cup {s[n]}
      OBVIOUS
    <3>6. Items(f[n]) = {s[i] : i \in 1 .. n} \cap X
      BY <1>4, <2>2, <3>4, <3>5
    <3>7. ASSUME NEW i \in 1 .. n, s[i] \in X
          PROVE  f[n] # <<>> /\ \E j \in i .. n : s[j] = f[n][Len(f[n])]
      BY <3>4
    <3> QED BY <3>4, <3>6, <3>7
  <2> QED BY <2>1, <2>2
<1>5. Wrong = {}
  <2> SUFFICES ASSUME Wrong # {} PROVE FALSE
    OBVIOUS
  <2>1. PICK n \in Wrong : \A k \in Wrong : n <= k
    <3>1. Wrong \subseteq Nat
      OBVIOUS
    <3> HIDE DEF Wrong
    <3> QED BY <3>1, Earliest
  <2> HIDE DEF Right
  <2>2. n \in 0 .. Len(s) /\ ~ Right(n)
    OBVIOUS
  <2>3. n \in 1 .. Len(s)
    BY <1>3, <2>2
  <2>4. n - 1 \in 0 .. Len(s) /\ ~ (n <= n - 1)
    BY <2>3
  <2>5. Right(n - 1)
    BY <2>1, <2>4
  <2> QED BY <1>4, <2>2, <2>3, <2>5
<1>6. Right(Len(s))
  <2> HIDE DEF Right
  <2>1. Len(s) \in 0 .. Len(s)
    OBVIOUS
  <2> QED BY <1>5, <2>1
<1>7. Items(s) = {s[i] : i \in 1 .. Len(s)}
  BY DEF Items
<1>8. \A i \in DOMAIN s : s[i] \in X =>
        f[Len(s)] # <<>> /\ \E j \in DOMAIN s : j >= i /\ s[j] = f[Len(s)][Len(f[Len(s)])]
  BY <1>6
<1> QED BY <1>1, <1>6, <1>7, <1>8

\* Some boundary with a record is the last.
LEMMA LatestBoundary ==
    ASSUME NEW T, T \subseteq 1 .. Duration, T # {}
    PROVE  \E k \in T : \A j \in T : j <= k
<1>1. {Duration - j : j \in T} \subseteq Nat /\ {Duration - j : j \in T} # {}
  <2>1. \A j \in T : Duration - j \in Nat
    BY DurationAssumption DEF DurationAssumption
  <2> QED
    BY <2>1
<1>2. PICK m \in {Duration - j : j \in T} :
          \A i \in {Duration - j : j \in T} : m <= i
  BY <1>1, Earliest
<1>3. PICK k \in T : m = Duration - k
  BY <1>2
<1>4. \A j \in T : Duration - k <= Duration - j
  BY <1>2, <1>3
<1> QED
  BY <1>4, DurationAssumption DEF DurationAssumption

LEMMA NextDueFirst ==
    ASSUME queue \subseteq 1 .. Duration, queue # {}
    PROVE  /\ NextDue \in queue
           /\ \A k \in queue : NextDue <= k
<1>1. queue \subseteq Nat
  OBVIOUS
<1>2. \E k \in queue : \A j \in queue : k <= j
  BY <1>1, Earliest
<1> QED
  BY <1>2 DEF NextDue

LEMMA LastBoundaryIsNat ==
    ASSUME NEW s, NEW said, Genuine(s, said)
    PROVE  LastBoundary(s) \in Nat
<1>1. CASE s.windows = {}
  BY <1>1 DEF LastBoundary
<1>2. CASE s.windows # {}
  <2> DEFINE Ends == {w.end : w \in s.windows}
  <2>1. Ends \subseteq 1 .. Duration /\ Ends # {}
    BY <1>2 DEF Genuine, Boundaries
  <2>2. \E k \in Ends : \A j \in Ends : j <= k
    BY <2>1, LatestBoundary
  <2>3. \E k \in Ends : \A w \in s.windows : w.end <= k
    BY <2>2
  <2>4. LastBoundary(s) \in Ends
    BY <1>2, <2>3 DEF LastBoundary
  <2> QED
    BY <2>1, <2>4
<1> QED
  BY <1>1, <1>2

\* More may be said: a genuine copy stays genuine.
LEMMA GenuineGrows ==
    ASSUME NEW s, NEW said, NEW more, said \subseteq more, Genuine(s, said)
    PROVE  Genuine(s, more)
  BY DEF Genuine

LEMMA EmptyGenuine ==
    ASSUME NEW said
    PROVE  Genuine(Empty, said)
  BY DEF Genuine, Empty

\* What the merge returns is genuine, whichever of the two is newer.
LEMMA MergedGenuine ==
    ASSUME NEW s, NEW t, NEW said, Genuine(s, said), Genuine(t, said)
    PROVE  /\ Genuine(Merged(s, t), said)
           /\ Merged(s, t).log = s.log \cup t.log
  BY DEF Genuine, Merged

LEMMA RecordedGenuine ==
    ASSUME NEW s, NEW said, NEW events, NEW timeline,
           Genuine(s, said), events \subseteq said
    PROVE  Genuine(Recorded(s, events, timeline), said)
  BY DEF Genuine, Recorded

LEMMA JudgedGenuine ==
    ASSUME NEW s, NEW said, NEW m, NEW v, Genuine(s, said)
    PROVE  Genuine(Judged(s, m, v), said) /\ Genuine(Unclassified(s, m), said)
  BY DEF Genuine, Judged, Unclassified

LEMMA EvaluatedGenuine ==
    ASSUME NEW s, NEW said, NEW w, w.end \in Boundaries,
           w.nudged => w.end \in said, Genuine(s, said)
    PROVE  Genuine(Evaluated(s, w), said)
  BY DEF Genuine, Evaluated

LEMMA SnapshotGenuine ==
    ASSUME NEW s, NEW said, Genuine(s, said)
    PROVE  Genuine(Snapshot(s), said)
  BY DEF Genuine, Snapshot

LEMMA RequestAbandoned ==
    ASSUME NEW c, IsRequest(c)
    PROVE  IsRequest(Abandoned(c)) /\ Abandoned(c).snap = c.snap
<1>1. \A b : LET d == [c EXCEPT !.waiting = b]
             IN  IsRequest(d) /\ d.snap = c.snap
  BY DEF IsRequest
<1> QED
  BY <1>1 DEF Abandoned

----------------------------------------------------------------------------
(***************************************************************************)
(* Steps                                                                   *)
(***************************************************************************)

LEMMA BootKept ==
    ASSUME RecInv, Boot
    PROVE  RecInv'
<1>1. Grid'
  BY DEF Boot, RecInv, Grid, worldVars, runVars
<1>2. Honest'
  BY DEF Boot, RecInv, Honest, worldVars, runVars
<1>3. KnownStatus'
  BY DEF Boot, RecInv, KnownStatus, worldVars
<1> QED
  BY <1>1, <1>2, <1>3 DEF RecInv

LEMMA RecoverKept ==
    ASSUME RecInv, Recover
    PROVE  RecInv'
<1>1. Grid'
  BY DEF Recover, RecInv, Grid, worldVars, runVars
<1>2. Honest'
  BY DEF Recover, RecInv, Honest, worldVars, runVars
<1>3. KnownStatus'
  BY DEF Recover, RecInv, KnownStatus, worldVars
<1> QED
  BY <1>1, <1>2, <1>3 DEF RecInv

LEMMA RecoverFailsKept ==
    ASSUME RecInv, RecoverFails
    PROVE  RecInv'
<1>1. Grid'
  BY DEF RecoverFails, RecInv, Grid, worldVars, runVars
<1>2. Honest'
  BY DEF RecoverFails, RecInv, Honest, worldVars, runVars
<1>3. KnownStatus'
  BY DEF RecoverFails, RecInv, KnownStatus, worldVars
<1> QED
  BY <1>1, <1>2, <1>3 DEF RecInv

LEMMA StartSessionKept ==
    ASSUME RecInv, StartSession
    PROVE  RecInv'
<1>1. Grid'
  BY DEF StartSession, RecInv, Grid, runVars
<1>2. Honest'
  BY EmptyGenuine DEF StartSession, NotStarting, RecInv, Honest, runVars
<1>3. KnownStatus'
  BY DEF StartSession, RecInv, KnownStatus
<1> QED
  BY <1>1, <1>2, <1>3 DEF RecInv

LEMMA JoinKept ==
    ASSUME RecInv, Join
    PROVE  RecInv'
<1>1. Grid'
  BY DEF Join, RecInv, Grid, worldVars, runVars
<1>2. Honest'
  BY DEF Join, RecInv, Honest, worldVars, runVars
<1>3. KnownStatus'
  BY DEF Join, RecInv, KnownStatus, worldVars
<1> QED
  BY <1>1, <1>2, <1>3 DEF RecInv

LEMMA ReadHistoryKept ==
    ASSUME RecInv, ReadHistory
    PROVE  RecInv'
<1>1. Grid'
  BY DEF ReadHistory, RecInv, Grid, worldVars, runVars
<1>2. Honest'
  BY DEF ReadHistory, RecInv, Honest, worldVars, runVars
<1>3. KnownStatus'
  BY DEF ReadHistory, RecInv, KnownStatus, worldVars
<1> QED
  BY <1>1, <1>2, <1>3 DEF RecInv

LEMMA StartFailsKept ==
    ASSUME RecInv, StartFails
    PROVE  RecInv'
<1>1. Grid'
  BY DEF StartFails, RecInv, Grid, runVars
<1>2. Honest'
  BY EmptyGenuine DEF StartFails, NotStarting, RecInv, Honest, runVars
<1>3. KnownStatus'
  BY DEF StartFails, RecInv, KnownStatus
<1> QED
  BY <1>1, <1>2, <1>3 DEF RecInv

LEMMA WindowElapsedKept ==
    ASSUME RecInv, WindowElapsed
    PROVE  RecInv'
<1>1. Grid'
  <2>1. tick \in 1 .. Duration /\ clock \in Nat
    BY DurationAssumption DEF WindowElapsed, RecInv, Grid, DurationAssumption
  <2>2. tick' \in Nat
    BY <2>1 DEF WindowElapsed, NextBoundary
  <2>3. CASE tick > claimed
    BY <2>1, <2>2, <2>3 DEF WindowElapsed, RecInv, Grid, worldVars
  <2>4. CASE ~ (tick > claimed)
    BY <2>2, <2>4 DEF WindowElapsed, RecInv, Grid, worldVars
  <2> QED
    BY <2>3, <2>4
<1>2. Honest'
  BY DEF WindowElapsed, RecInv, Honest, worldVars, startVars
<1>3. KnownStatus'
  BY DEF WindowElapsed, RecInv, KnownStatus, worldVars
<1> QED
  BY <1>1, <1>2, <1>3 DEF RecInv

LEMMA EndSessionKept ==
    ASSUME RecInv, EndSession
    PROVE  RecInv'
<1>1. Grid'
  BY DEF EndSession, RecInv, Grid, worldVars
<1>2. Honest'
  BY DEF EndSession, RecInv, Honest, worldVars, startVars
<1>3. KnownStatus'
  BY DEF EndSession, RecInv, KnownStatus, worldVars
<1> QED
  BY <1>1, <1>2, <1>3 DEF RecInv

LEMMA StopKept ==
    ASSUME RecInv, Stop
    PROVE  RecInv'
<1>1. Grid'
  BY DEF Stop, RecInv, Grid, worldVars
<1>2. Honest'
  BY DEF Stop, RecInv, Honest, worldVars
<1>3. KnownStatus'
  BY DEF Stop, RecInv, KnownStatus, worldVars
<1> QED
  BY <1>1, <1>2, <1>3 DEF RecInv

LEMMA ExitKept ==
    ASSUME RecInv, Exit
    PROVE  RecInv'
<1>1. Grid'
  BY DEF Exit, RecInv, Grid, Forget
<1>2. Honest'
  BY EmptyGenuine, RequestAbandoned DEF Exit, NotStarting, RecInv, Honest, Forget
<1>3. KnownStatus'
  BY DEF Exit, RecInv, KnownStatus
<1> QED
  BY <1>1, <1>2, <1>3 DEF RecInv

LEMMA StopFlushKept ==
    ASSUME RecInv, StopFlush
    PROVE  RecInv'
<1>1. Grid'
  BY DEF StopFlush, RecInv, Grid
<1>2. Honest'
  BY SnapshotGenuine DEF StopFlush, Send, IsRequest, RecInv, Honest
<1>3. KnownStatus'
  BY DEF StopFlush, RecInv, KnownStatus
<1> QED
  BY <1>1, <1>2, <1>3 DEF RecInv

LEMMA FlushCheckpointKept ==
    ASSUME RecInv, FlushCheckpoint
    PROVE  RecInv'
<1>1. Grid'
  BY DEF FlushCheckpoint, RecInv, Grid
<1>2. Honest'
  BY SnapshotGenuine DEF FlushCheckpoint, Send, IsRequest, RecInv, Honest,
     startVars
<1>3. KnownStatus'
  BY DEF FlushCheckpoint, RecInv, KnownStatus
<1> QED
  BY <1>1, <1>2, <1>3 DEF RecInv

LEMMA FinalizeKept ==
    ASSUME RecInv, Finalize
    PROVE  RecInv'
<1>1. Grid'
  BY DEF Finalize, RecInv, Grid
<1>2. Honest'
  BY SnapshotGenuine DEF Finalize, Send, IsRequest, RecInv, Honest, startVars
<1>3. KnownStatus'
  BY DEF Finalize, RecInv, KnownStatus
<1> QED
  BY <1>1, <1>2, <1>3 DEF RecInv

LEMMA InstallKept ==
    ASSUME RecInv, Install
    PROVE  RecInv'
<1>1. Grid'
  <2>1. LastBoundary(start.note) \in Nat
    BY LastBoundaryIsNat DEF RecInv, Honest
  <2> QED
    BY <2>1 DEF Install, NextBoundary, RecInv, Grid
<1>2. Honest'
  BY RecordedGenuine, EmptyGenuine DEF Install, Replay, NotStarting, RecInv, Honest
<1>3. KnownStatus'
  BY DEF Install, RecInv, KnownStatus
<1> QED
  BY <1>1, <1>2, <1>3 DEF RecInv

LEMMA DeliverKept ==
    ASSUME RecInv, Deliver
    PROVE  RecInv'
<1>1. Grid'
  BY DEF Deliver, RecInv, Grid, worldVars
<1>2. Honest'
  <2> DEFINE e == room[cursor + 1]
  <2>1. {e} \subseteq Items(room) /\ cursor' \in Nat
    BY NextIsItem DEF Deliver, RecInv, Honest
  <2>2. Genuine(Recorded(rt, {e}, room), Items(room))
    BY <2>1, RecordedGenuine DEF RecInv, Honest
  <2>3. /\ rt' \in {rt, Recorded(rt, {e}, room)}
        /\ pending' \in {pending, pending \cup {e}}
    BY DEF Deliver
  <2>4. Genuine(rt', Items(room)) /\ pending' \subseteq Items(room)
    BY <2>1, <2>2, <2>3 DEF RecInv, Honest
  <2> QED
    BY <2>1, <2>4 DEF Deliver, RecInv, Honest, worldVars
<1>3. KnownStatus'
  BY DEF Deliver, RecInv, KnownStatus, worldVars
<1> QED
  BY <1>1, <1>2, <1>3 DEF RecInv

LEMMA ClassifiedKept ==
    ASSUME RecInv, NEW m \in Messages, Classified(m)
    PROVE  RecInv'
<1>1. Grid'
  BY DEF Classified, RecInv, Grid, worldVars
<1>2. Honest'
  BY JudgedGenuine DEF Classified, RecInv, Honest, worldVars, startVars
<1>3. KnownStatus'
  BY DEF Classified, RecInv, KnownStatus, worldVars
<1> QED
  BY <1>1, <1>2, <1>3 DEF RecInv

LEMMA EvaluateQuietKept ==
    ASSUME RecInv, EvaluateQuiet
    PROVE  RecInv'
<1>1. Grid'
  BY NextDueFirst DEF EvaluateQuiet, EvaluationDone, RecInv, Grid, worldVars
<1>2. Honest'
  <2> DEFINE w == [end |-> NextDue, life |-> crashes, nudged |-> FALSE]
  <2>1. w.end \in Boundaries /\ ~ w.nudged
    BY NextDueFirst DEF EvaluateQuiet, RecInv, Grid, Boundaries
  <2>2. Genuine(Evaluated(rt, w), Items(room))
    BY <2>1, EvaluatedGenuine DEF RecInv, Honest
  <2> QED
    BY <2>2 DEF EvaluateQuiet, RecInv, Honest, worldVars, startVars
<1>3. KnownStatus'
  BY DEF EvaluateQuiet, RecInv, KnownStatus, worldVars
<1> QED
  BY <1>1, <1>2, <1>3 DEF RecInv

LEMMA PostKept ==
    ASSUME RecInv, Post
    PROVE  RecInv'
<1>0. /\ room' \in Seq(Events)
      /\ Items(room') = Items(room) \cup {NextDue}
  <2>1. NextDue \in Events
    BY NextDueFirst DEF Post, RecInv, Grid, Events, Boundaries
  <2> QED
    BY <2>1, ItemsOfAppend DEF Post, RecInv, Honest
<1>1. Grid'
  BY <1>0, NextDueFirst DEF Post, RecInv, Grid
<1>2. Honest'
  <2>1. \A s : Genuine(s, Items(room)) => Genuine(s, Items(room'))
    BY <1>0, GenuineGrows
  <2> QED
    BY <1>0, <2>1 DEF Post, RecInv, Honest, startVars, runVars
<1>3. KnownStatus'
  BY DEF Post, RecInv, KnownStatus
<1> QED
  BY <1>1, <1>2, <1>3 DEF RecInv

LEMMA LogNudgeKept ==
    ASSUME RecInv, LogNudge
    PROVE  RecInv'
<1>1. Grid'
  BY NextDueFirst DEF LogNudge, EvaluationDone, RecInv, Grid, worldVars
<1>2. Honest'
  <2> DEFINE w == [end |-> NextDue, life |-> crashes, nudged |-> TRUE]
  <2>1. PICK k \in queue : k \in Items(room) /\ \A j \in queue : k <= j
    BY DEF LogNudge, RecInv, Grid
  <2>2. NextDue = k
    <3>1. queue \subseteq 1 .. Duration /\ queue # {}
      BY <2>1 DEF RecInv, Grid
    <3>2. NextDue \in queue /\ NextDue <= k
      BY <3>1, NextDueFirst
    <3> QED
      BY <2>1, <3>1, <3>2
  <2>3. w.end \in Boundaries /\ w.end \in Items(room)
    BY <2>1, <2>2 DEF RecInv, Grid, Boundaries
  <2>4. Genuine(Evaluated(rt, w), Items(room))
    BY <2>3, EvaluatedGenuine DEF RecInv, Honest
  <2> QED
    BY <2>4 DEF LogNudge, RecInv, Honest, worldVars, startVars
<1>3. KnownStatus'
  BY DEF LogNudge, RecInv, KnownStatus, worldVars
<1> QED
  BY <1>1, <1>2, <1>3 DEF RecInv

LEMMA EvaluationFailsKept ==
    ASSUME RecInv, EvaluationFails
    PROVE  RecInv'
<1>1. Grid'
  BY NextDueFirst DEF EvaluationFails, EvaluationDone, RecInv, Grid, worldVars
<1>2. Honest'
  BY DEF EvaluationFails, RecInv, Honest, worldVars, startVars
<1>3. KnownStatus'
  BY DEF EvaluationFails, RecInv, KnownStatus, worldVars
<1> QED
  BY <1>1, <1>2, <1>3 DEF RecInv

LEMMA CallFailsKept ==
    ASSUME RecInv, NEW c \in calls, CallFails(c)
    PROVE  RecInv'
<1>1. Grid'
  BY DEF CallFails, RecInv, Grid, runVars
<1>2. Honest'
  BY RequestAbandoned DEF CallFails, Answered, SaveOver, FinalizeOver, RecInv, Honest, runVars
<1>3. KnownStatus'
  BY DEF CallFails, RecInv, KnownStatus
<1> QED
  BY <1>1, <1>2, <1>3 DEF RecInv

LEMMA SayKept ==
    ASSUME RecInv, NEW e \in Messages \cup Moves, Say(e)
    PROVE  RecInv'
<1>0. /\ room' \in Seq(Events)
      /\ Items(room') = Items(room) \cup {e}
  <2>1. e \in Events
    BY DEF Events
  <2> QED
    BY <2>1, ItemsOfAppend DEF Say, RecInv, Honest
<1>1. Grid'
  BY <1>0 DEF Say, RecInv, Grid, runVars
<1>2. Honest'
  <2>1. \A s : Genuine(s, Items(room)) => Genuine(s, Items(room'))
    BY <1>0, GenuineGrows
  <2> QED
    BY <1>0, <2>1 DEF Say, RecInv, Honest, startVars, runVars
<1>3. KnownStatus'
  BY DEF Say, RecInv, KnownStatus
<1> QED
  BY <1>1, <1>2, <1>3 DEF RecInv

LEMMA WindowPassesKept ==
    ASSUME RecInv, WindowPasses
    PROVE  RecInv'
<1>1. Grid'
  BY DurationAssumption DEF WindowPasses, RecInv, Grid, DurationAssumption, runVars
<1>2. Honest'
  BY DEF WindowPasses, RecInv, Honest, startVars, runVars
<1>3. KnownStatus'
  BY DEF WindowPasses, RecInv, KnownStatus
<1> QED
  BY <1>1, <1>2, <1>3 DEF RecInv

LEMMA PublishKept ==
    ASSUME RecInv, Publish
    PROVE  RecInv'
<1>1. Grid'
  BY DEF Publish, RecInv, Grid, runVars
<1>2. Honest'
  BY DEF Publish, RecInv, Honest, startVars, runVars
<1>3. KnownStatus'
  BY DEF Publish, RecInv, KnownStatus
<1> QED
  BY <1>1, <1>2, <1>3 DEF RecInv

LEMMA StartAnswerLostKept ==
    ASSUME RecInv, StartAnswerLost
    PROVE  RecInv'
<1>1. Grid'
  BY DEF StartAnswerLost, RecInv, Grid, runVars
<1>2. Honest'
  BY DEF StartAnswerLost, RecInv, Honest, startVars, runVars
<1>3. KnownStatus'
  BY DEF StartAnswerLost, RecInv, KnownStatus
<1> QED
  BY <1>1, <1>2, <1>3 DEF RecInv

LEMMA AbortKept ==
    ASSUME RecInv, Abort \/ CompleteSession
    PROVE  RecInv'
<1>1. status' \in {"aborted", "completed"} /\ UNCHANGED <<room, stored, calls, clock>>
  BY DEF Abort, CompleteSession
<1>2. UNCHANGED <<startVars, runVars>>
  BY DEF Abort, CompleteSession
<1>3. Grid'
  BY <1>1, <1>2 DEF RecInv, Grid, runVars
<1>4. Honest'
  BY <1>1, <1>2 DEF RecInv, Honest, startVars, runVars
<1>5. KnownStatus'
  BY <1>1 DEF RecInv, KnownStatus
<1> QED
  BY <1>3, <1>4, <1>5 DEF RecInv

LEMMA StoreKept ==
    ASSUME RecInv, NEW c \in calls, Store(c)
    PROVE  RecInv'
<1>1. Grid'
  BY DEF Store, RecInv, Grid, runVars
<1>2. Honest'
  <2>1. Genuine(Merged(stored, c.snap), Items(room))
    BY MergedGenuine DEF RecInv, Honest
  <2>2. IsRequest([c EXCEPT !.kind = "close"]) /\ [c EXCEPT !.kind = "close"].snap = c.snap
    BY DEF RecInv, Honest, IsRequest
  <2>3. /\ calls' \subseteq calls \cup {[c EXCEPT !.kind = "close"]}
        /\ pending' \subseteq pending
    BY DEF Store, Answered, SaveOver, FinalizeOver, saveVars
  <2>4. \A d \in calls' : IsRequest(d) /\ Genuine(d.snap, Items(room))
    BY <2>2, <2>3 DEF RecInv, Honest
  <2> QED
    BY <2>1, <2>3, <2>4 DEF Store, RecInv, Honest, runVars
<1>3. KnownStatus'
  BY DEF Store, RecInv, KnownStatus
<1> QED
  BY <1>1, <1>2, <1>3 DEF RecInv

LEMMA CompleteKept ==
    ASSUME RecInv, NEW c \in calls, Complete(c)
    PROVE  RecInv'
<1>1. Grid'
  BY DEF Complete, RecInv, Grid, runVars
<1>2. Honest'
  BY DEF Complete, Answered, SaveOver, FinalizeOver, RecInv, Honest, runVars
<1>3. KnownStatus'
  BY DEF Complete, RecInv, KnownStatus
<1> QED
  BY <1>1, <1>2, <1>3 DEF RecInv

LEMMA StutterKept ==
    ASSUME RecInv, UNCHANGED vars
    PROVE  RecInv'
  BY DEF vars, worldVars, startVars, runVars, saveVars, faultVars, RecInv, Grid, Honest,
     KnownStatus

LEMMA NextKept ==
    ASSUME RecInv, Next
    PROVE  RecInv'
<1>1. CASE Starting
  BY <1>1, BootKept, RecoverKept, RecoverFailsKept, StartSessionKept, JoinKept,
     ReadHistoryKept, StartFailsKept, InstallKept DEF Starting
<1>2. CASE Running
  BY <1>2, DeliverKept, WindowElapsedKept, EvaluateQuietKept, PostKept, LogNudgeKept,
     EvaluationFailsKept, FlushCheckpointKept, EndSessionKept, FinalizeKept, StopKept,
     StopFlushKept, ExitKept,
     ClassifiedKept, CallFailsKept DEF Running
<1>3. CASE \E e \in Messages \cup Moves : Say(e)
  BY <1>3, SayKept
<1>4. CASE \E c \in calls : Store(c) \/ Complete(c)
  BY <1>4, StoreKept, CompleteKept
<1> QED
  BY <1>1, <1>2, <1>3, <1>4, WindowPassesKept, PublishKept, StartAnswerLostKept,
     AbortKept DEF Next

LEMMA InitKept ==
    ASSUME Init
    PROVE  RecInv
<1>1. Items(room) = {}
  BY DEF Init, Items
<1>2. Grid /\ KnownStatus
  BY DurationAssumption DEF Init, ChatInit, ProcessInit, Grid, KnownStatus,
     DurationAssumption
<1>3. Honest
  BY <1>1, EmptyGenuine DEF Init, ChatInit, ProcessInit, NotStarting, Honest
<1> QED
  BY <1>2, <1>3 DEF RecInv

----------------------------------------------------------------------------
(***************************************************************************)
(* Theorems                                                                *)
(***************************************************************************)

\* Every copy of the record stays genuine in every reachable state.
THEOREM CopiesGenuine == Spec => []RecInv
<1>1. Init => RecInv
  BY InitKept
<1>2. RecInv /\ [Next]_vars => RecInv'
  BY NextKept, StutterKept
<1> QED
  BY <1>1, <1>2, PTL DEF Spec

\* No copy of the record marks an event as processed without holding it, so
\* that the replay of the room's history after a restart skips nothing that is
\* missing (hasProcessed, restore and the merge of processedEventIds).
THEOREM NothingMarkedUnheld == Spec => []ProcessedRecorded
<1>1. RecInv => ProcessedRecorded
  BY DEF RecInv, Honest, Genuine, ProcessedRecorded, Copies
<1> QED
  BY <1>1, CopiesGenuine, PTL

\* Whatever a copy of the record calls a nudge has been posted to the room
\* (onWindowElapsed posts before it logs, over any number of windows).
THEOREM NudgesPosted == Spec => []LoggedNudgesPosted
<1>1. RecInv => LoggedNudgesPosted
  BY DEF RecInv, Honest, Genuine, LoggedNudgesPosted, Copies
<1> QED
  BY <1>1, CopiesGenuine, PTL

----------------------------------------------------------------------------
(* The refinement of ResearchRecord *)

\* The steps that neither add to the room nor store nor end anything.
Silent == room' = room /\ stored' = stored /\ (status' = status \/ Publish)

LEMMA StartingSilent ==
    ASSUME Starting
    PROVE  Silent
  BY DEF Starting, Silent, worldVars, Boot, Recover, RecoverFails, StartSession, Join,
     ReadHistory, StartFails, Install

LEMMA RunningSilent ==
    ASSUME Running
    PROVE  Silent \/ Post
  BY DEF Running, Silent, worldVars, Deliver, WindowElapsed, EvaluateQuiet, LogNudge,
     EvaluationFails, FlushCheckpoint, EndSession, Finalize, Stop, StopFlush, Exit,
     Classified, CallFails

\* A silent step is a stuttering step of the abstract record.
LEMMA SilentStutters ==
    ASSUME KnownStatus, Silent
    PROVE  UNCHANGED Record!recordVars
  BY DEF Silent, KnownStatus, Publish, Record!recordVars

\* A message, an edit or a nudge is said.
LEMMA SpeakingSays ==
    ASSUME RecInv, Post \/ \E e \in Messages \cup Moves : Say(e)
    PROVE  Record!Say
<1>1. PICK e \in Events : room' = Append(room, e)
  <2>1. CASE Post
    <3>1. NextDue \in Events
      BY <2>1, NextDueFirst DEF Post, RecInv, Grid, Events, Boundaries
    <3> QED
      BY <2>1, <3>1 DEF Post
  <2>2. CASE \E e \in Messages \cup Moves : Say(e)
    BY <2>2 DEF Say, Events
  <2> QED
    BY <2>1, <2>2
<1>2. Items(room') = Items(room) \cup {e}
  BY <1>1, ItemsOfAppend DEF RecInv, Honest
<1>3. stored' = stored /\ status' = status
  BY DEF Post, Say
<1> QED
  BY <1>1, <1>2, <1>3 DEF Record!Say

\* A stored snapshot adds to the record, and nothing that was not said.
LEMMA StoreKeeps ==
    ASSUME RecInv, NEW c \in calls, Store(c)
    PROVE  Record!Keep
<1>1. stored'.log = stored.log \cup c.snap.log
  BY MergedGenuine DEF Store, RecInv, Honest
<1>2. stored.log \cup c.snap.log \subseteq Items(room)
  BY DEF RecInv, Honest, Genuine
<1>3. room' = room /\ status' = status
  BY DEF Store
<1> QED
  BY <1>1, <1>2, <1>3 DEF Record!Keep

\* An end closes the record, once.
LEMMA EndingCloses ==
    ASSUME RecInv, Abort \/ CompleteSession \/ \E c \in calls : Complete(c)
    PROVE  Record!Close \/ UNCHANGED Record!recordVars
<1>1. room' = room /\ stored' = stored
  BY DEF Abort, CompleteSession, Complete
<1>2. \/ status' = status
      \/ status \in {"provisioning", "running"} /\ status' \in {"completed", "aborted"}
  BY DEF Abort, CompleteSession, Complete, RecInv, KnownStatus
<1> QED
  BY <1>1, <1>2 DEF Record!Close, Record!recordVars

LEMMA EveryStepMaps ==
    ASSUME RecInv, [Next]_vars
    PROVE  [Record!Next]_(Record!recordVars)
<1>1. CASE Post \/ \E e \in Messages \cup Moves : Say(e)
  BY <1>1, SpeakingSays DEF Record!Next
<1>2. CASE \E c \in calls : Store(c)
  BY <1>2, StoreKeeps DEF Record!Next
<1>3. CASE Abort \/ CompleteSession \/ \E c \in calls : Complete(c)
  BY <1>3, EndingCloses DEF Record!Next
<1>4. CASE Silent
  BY <1>4, SilentStutters DEF RecInv
<1>5. WindowPasses \/ Publish \/ StartAnswerLost \/ UNCHANGED vars => Silent
  BY DEF WindowPasses, Publish, StartAnswerLost, vars, worldVars, Silent
<1> QED
  BY <1>1, <1>2, <1>3, <1>4, <1>5, StartingSilent, RunningSilent DEF Next

\* The record of a discussion only grows, holds only what was said and stays
\* as it ended, for any number of lost, repeated, reordered and stale writes
\* from any number of lives of the Chat Service.
THEOREM RecordRefined == Spec => RecordKept
<1>1. Init => Record!Init
  BY DEF Init, Items, Empty, Record!Init
<1>2. RecInv /\ [Next]_vars => [Record!Next]_(Record!recordVars)
  BY EveryStepMaps
<1> QED
  BY <1>1, <1>2, CopiesGenuine, PTL DEF Spec, RecordKept, Record!Spec

----------------------------------------------------------------------------
(***************************************************************************)
(* Types                                                                   *)
(***************************************************************************)

\* What TypeOK asks beyond RecInv.
WorldTyped ==
    /\ sentIn \in [Messages -> Nat]
    /\ ask \in {"idle", "asked", "accepted"}
    /\ dropped \subseteq Items(room)

Bounded ==
    /\ crashes \in Nat /\ faults \in Nat /\ crashes + faults <= MaxTrouble
    /\ cursor \in 0 .. Len(room)

RankingTyped == ranking \in Moves \cup {None}

Flags ==
    /\ live \in BOOLEAN /\ retired \in BOOLEAN /\ joined \in BOOLEAN
    /\ posting \in BOOLEAN /\ dirty \in BOOLEAN /\ timer \in BOOLEAN
    /\ saving \in BOOLEAN

CopiesTyped ==
    /\ stored \in Snapshots /\ rt \in Snapshots /\ start.note \in Snapshots
    /\ calls \subseteq Calls

ProcessTyped ==
    /\ svc \in {"down", "booting", "up", "stopping", "flushed"}
    /\ recovery \in {"none", "starting", "retry"}
    /\ start.stage \in {"none", "joining", "reading", "install"}
    /\ classifying \subseteq Messages
    /\ claimed \in 0 .. Duration /\ tick \in 0 .. Duration + 1
    /\ finalizing \in {"no", "draining", "sent"}
    /\ ending \in {"none", "armed", "retry"}

Typed == WorldTyped /\ Bounded /\ CopiesTyped /\ Flags /\ ProcessTyped
         /\ RankingTyped

LEMMA TypedIsTypeOK ==
    ASSUME RecInv, Typed
    PROVE  TypeOK
  BY DEF RecInv, Grid, Honest, KnownStatus, Typed, WorldTyped, Bounded, CopiesTyped,
     Flags, ProcessTyped,
         RankingTyped, TypeOK, Boundaries

LEMMA EmptyTyped == Empty \in Snapshots
  BY DEF Empty, Snapshots, Unjudged

LEMMA AppendedTyped ==
    ASSUME NEW s \in Seq(Moves), NEW t \in Seq(Moves)
    PROVE  Appended(s, t) \in Seq(Moves)
<1>1. Selected(t, Moves \ Items(s)) \in Seq(Moves)
  <2>1. Selected(t, Moves \ Items(s)) \in Seq(Moves \cap (Moves \ Items(s)))
    BY SelectedFacts
  <2> QED BY <2>1
<1> QED BY <1>1 DEF Appended

LEMMA MergedTyped ==
    ASSUME NEW s \in Snapshots, NEW t \in Snapshots
    PROVE  Merged(s, t) \in Snapshots
<1>1. Appended(s.order, t.order) \in Seq(Moves)
  BY AppendedTyped DEF Snapshots
<1>2. \A b \in BOOLEAN : Replaced(s.verdict, t.verdict, b) \in [Messages -> Verdicts \cup {"none"}]
  BY DEF Snapshots, Replaced
<1>3. Accepts(t, s) \in BOOLEAN
  BY DEF Accepts, Snapshots
<1>4. Replaced(s.verdict, t.verdict, Accepts(t, s)) \in [Messages -> Verdicts \cup {"none"}]
  BY <1>2, <1>3
<1>5. (IF Accepts(t, s) THEN t.revision ELSE s.revision) \in Nat
  BY DEF Snapshots
<1> QED BY <1>1, <1>4, <1>5 DEF Merged, Snapshots

LEMMA RecordedTyped ==
    ASSUME NEW s \in Snapshots, NEW events \in SUBSET Events, NEW timeline \in Seq(Events)
    PROVE  Recorded(s, events, timeline) \in Snapshots
<1> DEFINE new == events \ s.processed
           moves == Selected(timeline, Moves \cap new)
<1>1. moves \in Seq(Moves)
  <2>1. moves \in Seq(Events \cap (Moves \cap new))
    BY SelectedFacts
  <2> HIDE DEF moves
  <2> QED BY <2>1
<1> HIDE DEF moves
<1>2. Appended(s.order, moves) \in Seq(Moves)
  BY <1>1, AppendedTyped DEF Snapshots
<1> QED BY <1>2 DEF Recorded, Snapshots, moves

LEMMA JudgedTyped ==
    ASSUME NEW s \in Snapshots, NEW m \in Messages, NEW v \in Verdicts
    PROVE  Judged(s, m, v) \in Snapshots
  BY DEF Snapshots, Judged

LEMMA UnclassifiedTyped ==
    ASSUME NEW s \in Snapshots, NEW m \in Messages
    PROVE  Unclassified(s, m) \in Snapshots
  BY DEF Snapshots, Unclassified

LEMMA EvaluatedTyped ==
    ASSUME NEW s \in Snapshots, NEW w \in Windows
    PROVE  Evaluated(s, w) \in Snapshots
  BY DEF Snapshots, Evaluated

LEMMA SnapshotTyped ==
    ASSUME NEW s \in Snapshots
    PROVE  Snapshot(s) \in Snapshots
  BY DEF Snapshots, Snapshot

LEMMA CallTyped ==
    /\ \A c \in Calls : Abandoned(c) \in Calls /\ [c EXCEPT !.kind = "close"] \in Calls
    /\ \A s \in Snapshots : [kind |-> "save", snap |-> s, waiting |-> TRUE] \in Calls
    /\ \A s \in Snapshots : [kind |-> "final", snap |-> s, waiting |-> TRUE] \in Calls
  BY DEF Calls, Abandoned

LEMMA LatestTyped ==
    ASSUME NEW r \in Moves \cup {None}, NEW s \in Snapshots, NEW t \in Snapshots
    PROVE  Latest(r, s, t) \in Moves \cup {None}
  BY DEF Latest, Snapshots

LEMMA LastBoundaryTyped ==
    ASSUME NEW s, NEW said, Genuine(s, said)
    PROVE  LastBoundary(s) \in 0 .. Duration
<1>1. CASE s.windows = {}
  BY <1>1, DurationAssumption DEF LastBoundary
<1>2. CASE s.windows # {}
  <2> DEFINE Ends == {w.end : w \in s.windows}
  <2>1. Ends \subseteq 1 .. Duration /\ Ends # {}
    BY <1>2 DEF Genuine, Boundaries
  <2>2. \E k \in Ends : \A j \in Ends : j <= k
    BY <2>1, LatestBoundary
  <2>3. \E k \in Ends : \A w \in s.windows : w.end <= k
    BY <2>2
  <2>4. LastBoundary(s) \in Ends
    BY <1>2, <2>3 DEF LastBoundary
  <2> QED
    BY <2>1, <2>4
<1> QED
  BY <1>1, <1>2

LEMMA BootTyped ==
    ASSUME RecInv, RecInv', Typed, Boot, UNCHANGED ranking
    PROVE  Typed'
<1>1. WorldTyped'
  BY DEF Boot, Typed, WorldTyped, worldVars, faultVars
<1>2. Bounded'
  BY DEF Boot, Typed, Bounded, worldVars, faultVars
<1>3. CopiesTyped'
  BY DEF Boot, Typed, CopiesTyped, worldVars, runVars
<1>4. Flags'
  BY DEF Boot, Typed, Flags, runVars, saveVars
<1>5. ProcessTyped'
  BY DEF Boot, Typed, ProcessTyped, runVars, saveVars
<1>6. RankingTyped'
  BY DEF Typed, RankingTyped
<1> QED
  BY <1>1, <1>2, <1>3, <1>4, <1>5, <1>6 DEF Typed

LEMMA RecoverTyped ==
    ASSUME RecInv, RecInv', Typed, Recover, UNCHANGED ranking
    PROVE  Typed'
<1>1. WorldTyped'
  BY DEF Recover, Typed, WorldTyped, worldVars, faultVars
<1>2. Bounded'
  BY DEF Recover, Typed, Bounded, worldVars, faultVars
<1>3. CopiesTyped'
  BY DEF Recover, Typed, CopiesTyped, worldVars, runVars
<1>4. Flags'
  BY DEF Recover, Typed, Flags, runVars, saveVars
<1>5. ProcessTyped'
  BY DEF Recover, Typed, ProcessTyped, runVars, saveVars
<1>6. RankingTyped'
  BY DEF Typed, RankingTyped
<1> QED
  BY <1>1, <1>2, <1>3, <1>4, <1>5, <1>6 DEF Typed

LEMMA RecoverFailsTyped ==
    ASSUME RecInv, RecInv', Typed, RecoverFails, UNCHANGED ranking
    PROVE  Typed'
<1>1. WorldTyped'
  BY DEF RecoverFails, Typed, WorldTyped, worldVars
<1>2. Bounded'
  BY TroubleAssumption DEF RecoverFails, Fault, Trouble, Typed, Bounded, worldVars
<1>3. CopiesTyped'
  BY DEF RecoverFails, Typed, CopiesTyped, worldVars, runVars
<1>4. Flags'
  BY DEF RecoverFails, Typed, Flags, runVars, saveVars
<1>5. ProcessTyped'
  BY DEF RecoverFails, Typed, ProcessTyped, runVars, saveVars
<1>6. RankingTyped'
  BY DEF Typed, RankingTyped
<1> QED
  BY <1>1, <1>2, <1>3, <1>4, <1>5, <1>6 DEF Typed

LEMMA StartSessionTyped ==
    ASSUME RecInv, RecInv', Typed, StartSession, UNCHANGED ranking
    PROVE  Typed'
<1>1. WorldTyped'
  BY DEF StartSession, Typed, WorldTyped, faultVars
<1>2. Bounded'
  BY DEF StartSession, Typed, Bounded, faultVars
<1>3. CopiesTyped'
  BY EmptyTyped DEF StartSession, NotStarting, Typed, CopiesTyped, runVars
<1>4. Flags'
  BY DEF StartSession, Typed, Flags, runVars, saveVars
<1>5. ProcessTyped'
  BY DEF StartSession, NotStarting, Typed, ProcessTyped, runVars, saveVars
<1>6. RankingTyped'
  BY DEF Typed, RankingTyped
<1> QED
  BY <1>1, <1>2, <1>3, <1>4, <1>5, <1>6 DEF Typed

LEMMA JoinTyped ==
    ASSUME RecInv, RecInv', Typed, Join, UNCHANGED ranking
    PROVE  Typed'
<1>1. WorldTyped'
  BY DEF Join, Typed, WorldTyped, worldVars, faultVars
<1>2. Bounded'
  BY DEF Join, Typed, Bounded, worldVars, faultVars
<1>3. CopiesTyped'
  BY DEF Join, Typed, CopiesTyped, worldVars, runVars
<1>4. Flags'
  BY DEF Join, Typed, Flags, runVars, saveVars
<1>5. ProcessTyped'
  BY DEF Join, Typed, ProcessTyped, runVars, saveVars
<1>6. RankingTyped'
  BY DEF Typed, RankingTyped
<1> QED
  BY <1>1, <1>2, <1>3, <1>4, <1>5, <1>6 DEF Typed

LEMMA ReadHistoryTyped ==
    ASSUME RecInv, RecInv', Typed, ReadHistory, UNCHANGED ranking
    PROVE  Typed'
<1>1. WorldTyped'
  BY DEF ReadHistory, Typed, WorldTyped, worldVars, faultVars
<1>2. Bounded'
  BY DEF ReadHistory, Typed, Bounded, worldVars, faultVars
<1>3. CopiesTyped'
  BY DEF ReadHistory, Typed, CopiesTyped, worldVars, runVars
<1>4. Flags'
  BY DEF ReadHistory, Typed, Flags, runVars, saveVars
<1>5. ProcessTyped'
  BY DEF ReadHistory, Typed, ProcessTyped, runVars, saveVars
<1>6. RankingTyped'
  BY DEF Typed, RankingTyped
<1> QED
  BY <1>1, <1>2, <1>3, <1>4, <1>5, <1>6 DEF Typed

LEMMA StartFailsTyped ==
    ASSUME RecInv, RecInv', Typed, StartFails, UNCHANGED ranking
    PROVE  Typed'
<1>1. WorldTyped'
  BY DEF StartFails, Typed, WorldTyped
<1>2. Bounded'
  BY TroubleAssumption DEF StartFails, Fault, Trouble, Typed, Bounded
<1>3. CopiesTyped'
  BY EmptyTyped DEF StartFails, NotStarting, Typed, CopiesTyped, runVars
<1>4. Flags'
  BY DEF StartFails, Typed, Flags, runVars, saveVars
<1>5. ProcessTyped'
  BY DEF StartFails, NotStarting, Typed, ProcessTyped, runVars, saveVars
<1>6. RankingTyped'
  BY DEF Typed, RankingTyped
<1> QED
  BY <1>1, <1>2, <1>3, <1>4, <1>5, <1>6 DEF Typed

LEMMA WindowElapsedTyped ==
    ASSUME RecInv, RecInv', Typed, WindowElapsed, UNCHANGED ranking
    PROVE  Typed'
<1>1. WorldTyped'
  BY DEF WindowElapsed, Typed, WorldTyped, worldVars, faultVars
<1>2. Bounded'
  BY DEF WindowElapsed, Typed, Bounded, worldVars, startVars, faultVars
<1>3. CopiesTyped'
  BY DEF WindowElapsed, Typed, CopiesTyped, worldVars, startVars
<1>4. Flags'
  BY DEF WindowElapsed, Typed, Flags, startVars, saveVars
<1>5. ProcessTyped'
  <2>1. tick \in 1 .. Duration /\ clock \in 0 .. Duration
    BY DurationAssumption DEF WindowElapsed, RecInv, Grid, Typed, ProcessTyped,
       DurationAssumption
  <2>2. tick' \in 0 .. Duration + 1 /\ claimed' \in 0 .. Duration
    BY <2>1, DurationAssumption DEF WindowElapsed, NextBoundary, Typed, ProcessTyped,
       DurationAssumption
  <2> QED
    BY <2>2 DEF WindowElapsed, Typed, ProcessTyped, startVars, saveVars
<1>6. RankingTyped'
  BY DEF Typed, RankingTyped
<1> QED
  BY <1>1, <1>2, <1>3, <1>4, <1>5, <1>6 DEF Typed

LEMMA EndSessionTyped ==
    ASSUME RecInv, RecInv', Typed, EndSession, UNCHANGED ranking
    PROVE  Typed'
<1>1. WorldTyped'
  BY DEF EndSession, Typed, WorldTyped, worldVars, faultVars
<1>2. Bounded'
  BY DEF EndSession, Typed, Bounded, worldVars, startVars, faultVars
<1>3. CopiesTyped'
  BY DEF EndSession, Typed, CopiesTyped, worldVars, startVars
<1>4. Flags'
  BY DEF EndSession, Typed, Flags, startVars
<1>5. ProcessTyped'
  BY DurationAssumption DEF EndSession, Typed, ProcessTyped,
     startVars
<1>6. RankingTyped'
  BY DEF Typed, RankingTyped
<1> QED
  BY <1>1, <1>2, <1>3, <1>4, <1>5, <1>6 DEF Typed

LEMMA StopTyped ==
    ASSUME RecInv, RecInv', Typed, Stop, UNCHANGED ranking
    PROVE  Typed'
<1>1. WorldTyped'
  BY DEF Stop, Typed, WorldTyped, worldVars
<1>2. Bounded'
  BY TroubleAssumption DEF Stop, Trouble, Typed, Bounded, worldVars
<1>3. CopiesTyped'
  BY DEF Stop, Typed, CopiesTyped, worldVars
<1>4. Flags'
  BY DEF Stop, Typed, Flags
<1>5. ProcessTyped'
  BY DurationAssumption DEF Stop, Typed, ProcessTyped
<1>6. RankingTyped'
  BY DEF Typed, RankingTyped
<1> QED
  BY <1>1, <1>2, <1>3, <1>4, <1>5, <1>6 DEF Typed

LEMMA ExitTyped ==
    ASSUME RecInv, RecInv', Typed, Exit, UNCHANGED ranking
    PROVE  Typed'
<1>1. WorldTyped'
  BY DEF Exit, Typed, WorldTyped
<1>2. Bounded'
  BY TroubleAssumption DEF Exit, Forget, Trouble, Typed, Bounded
<1>3. CopiesTyped'
  BY EmptyTyped, CallTyped DEF Exit, NotStarting, Forget, Typed, CopiesTyped
<1>4. Flags'
  BY DEF Exit, Forget, Typed, Flags
<1>5. ProcessTyped'
  BY DurationAssumption DEF Exit, NotStarting, Forget, Typed,
     ProcessTyped
<1>6. RankingTyped'
  BY DEF Typed, RankingTyped
<1> QED
  BY <1>1, <1>2, <1>3, <1>4, <1>5, <1>6 DEF Typed

LEMMA StopFlushTyped ==
    ASSUME RecInv, RecInv', Typed, StopFlush, UNCHANGED ranking
    PROVE  Typed'
<1>1. WorldTyped'
  BY DEF StopFlush, Typed, WorldTyped, faultVars
<1>2. Bounded'
  BY DEF StopFlush, Typed, Bounded, faultVars
<1>3. CopiesTyped'
  BY SnapshotTyped, CallTyped DEF StopFlush, Send, Typed, CopiesTyped
<1>4. Flags'
  BY DEF StopFlush, Typed, Flags
<1>5. ProcessTyped'
  BY DEF StopFlush, Typed, ProcessTyped
<1>6. RankingTyped'
  BY DEF Typed, RankingTyped
<1> QED
  BY <1>1, <1>2, <1>3, <1>4, <1>5, <1>6 DEF Typed

LEMMA FlushCheckpointTyped ==
    ASSUME RecInv, RecInv', Typed, FlushCheckpoint, UNCHANGED ranking
    PROVE  Typed'
<1>1. WorldTyped'
  BY DEF FlushCheckpoint, Typed, WorldTyped, faultVars
<1>2. Bounded'
  BY DEF FlushCheckpoint, Typed, Bounded, startVars, faultVars
<1>3. CopiesTyped'
  BY SnapshotTyped, CallTyped DEF FlushCheckpoint, Send, Typed, CopiesTyped, startVars
<1>4. Flags'
  BY DEF FlushCheckpoint, Typed, Flags, startVars
<1>5. ProcessTyped'
  BY DEF FlushCheckpoint, Typed, ProcessTyped, startVars
<1>6. RankingTyped'
  BY DEF Typed, RankingTyped
<1> QED
  BY <1>1, <1>2, <1>3, <1>4, <1>5, <1>6 DEF Typed

LEMMA FinalizeTyped ==
    ASSUME RecInv, RecInv', Typed, Finalize, UNCHANGED ranking
    PROVE  Typed'
<1>1. WorldTyped'
  BY DEF Finalize, Typed, WorldTyped, faultVars
<1>2. Bounded'
  BY DEF Finalize, Typed, Bounded, startVars, faultVars
<1>3. CopiesTyped'
  BY SnapshotTyped, CallTyped DEF Finalize, Send, Typed, CopiesTyped, startVars
<1>4. Flags'
  BY DEF Finalize, Typed, Flags, startVars
<1>5. ProcessTyped'
  BY DEF Finalize, Typed, ProcessTyped, startVars
<1>6. RankingTyped'
  BY DEF Typed, RankingTyped
<1> QED
  BY <1>1, <1>2, <1>3, <1>4, <1>5, <1>6 DEF Typed

LEMMA InstallTyped ==
    ASSUME RecInv, RecInv', Typed, Install, UNCHANGED ranking
    PROVE  Typed'
<1>1. WorldTyped'
  BY DEF Install, Typed, WorldTyped, faultVars
<1>2. Bounded'
  BY DEF Install, Typed, Bounded, faultVars
<1>3. CopiesTyped'
  <2>1. room \in Seq(Events) /\ Replay \subseteq Events
    BY DEF Replay, RecInv, Honest, Items
  <2>2. Recorded(start.note, Replay, room) \in Snapshots
    BY <2>1, RecordedTyped DEF Typed, CopiesTyped
  <2> QED
    BY <2>2, EmptyTyped DEF Install, NotStarting, Typed, CopiesTyped
<1>4. Flags'
  BY DEF Install, Typed, Flags
<1>5. ProcessTyped'
  <2>1. LastBoundary(start.note) \in 0 .. Duration
    BY LastBoundaryTyped DEF RecInv, Honest
  <2>2. NextBoundary(0) \in 0 .. Duration + 1
    BY DurationAssumption DEF NextBoundary, RecInv, Grid
  <2> QED
    BY <2>1, <2>2 DEF Install, NotStarting, Typed, ProcessTyped
<1>6. RankingTyped'
  BY DEF Typed, RankingTyped
<1> QED
  BY <1>1, <1>2, <1>3, <1>4, <1>5, <1>6 DEF Typed

LEMMA DeliverTyped ==
    ASSUME RecInv, RecInv', Typed, Deliver, UNCHANGED ranking
    PROVE  Typed'
<1>1. WorldTyped'
  <2>1. {room[cursor + 1]} \subseteq Items(room)
    BY NextIsItem DEF Deliver, RecInv, Honest
  <2> QED
    BY <2>1 DEF Deliver, Typed, WorldTyped, worldVars
<1>2. Bounded'
  BY DEF Deliver, Typed, Bounded, worldVars
<1>3. CopiesTyped'
  <2>1. room \in Seq(Events) /\ room[cursor + 1] \in Events
    BY DEF Deliver, RecInv, Honest
  <2>2. Recorded(rt, {room[cursor + 1]}, room) \in Snapshots
    BY <2>1, RecordedTyped DEF Typed, CopiesTyped
  <2>3. rt' \in {rt, Recorded(rt, {room[cursor + 1]}, room)}
    BY DEF Deliver
  <2> QED
    BY <2>2, <2>3 DEF Deliver, Typed, CopiesTyped, worldVars
<1>4. Flags'
  BY DEF Deliver, ScheduleCheckpoint, Typed, Flags
<1>5. ProcessTyped'
  BY DEF Deliver, Typed, ProcessTyped
<1>6. RankingTyped'
  BY DEF Typed, RankingTyped
<1> QED
  BY <1>1, <1>2, <1>3, <1>4, <1>5, <1>6 DEF Typed

LEMMA EvaluateQuietTyped ==
    ASSUME RecInv, RecInv', Typed, EvaluateQuiet, UNCHANGED ranking
    PROVE  Typed'
<1>1. WorldTyped'
  BY DEF EvaluateQuiet, Typed, WorldTyped, worldVars, faultVars
<1>2. Bounded'
  BY DEF EvaluateQuiet, Typed, Bounded, worldVars, startVars, faultVars
<1>3. CopiesTyped'
  <2> DEFINE w == [end |-> NextDue, life |-> crashes, nudged |-> FALSE]
  <2>1. queue # {} /\ queue \subseteq Boundaries
    BY DEF EvaluateQuiet, RecInv, Grid, Boundaries
  <2>2. w \in Windows
    BY <2>1, NextDueFirst DEF Typed, Bounded, Windows, Boundaries
  <2>3. Evaluated(rt, w) \in Snapshots
    BY <2>2, EvaluatedTyped DEF Typed, CopiesTyped
  <2> QED
    BY <2>3 DEF EvaluateQuiet, Typed, CopiesTyped, worldVars, startVars
<1>4. Flags'
  BY DEF EvaluateQuiet, EvaluationDone, ScheduleCheckpoint, Typed, Flags, startVars
<1>5. ProcessTyped'
  BY DEF EvaluateQuiet, Typed, ProcessTyped, startVars
<1>6. RankingTyped'
  BY DEF Typed, RankingTyped
<1> QED
  BY <1>1, <1>2, <1>3, <1>4, <1>5, <1>6 DEF Typed

LEMMA PostTyped ==
    ASSUME RecInv, RecInv', Typed, Post, UNCHANGED ranking
    PROVE  Typed'
<1>1. WorldTyped'
  <2>1. Items(room') = Items(room) \cup {NextDue}
    <3>1. NextDue \in Events
      BY NextDueFirst DEF Post, RecInv, Grid, Events, Boundaries
    <3> QED
      BY <3>1, ItemsOfAppend DEF Post, RecInv, Honest
  <2> QED
    BY <2>1 DEF Post, Typed, WorldTyped, faultVars
<1>2. Bounded'
  BY DEF Post, Typed, Bounded, startVars, faultVars
<1>3. CopiesTyped'
  BY DEF Post, Typed, CopiesTyped, startVars
<1>4. Flags'
  BY DEF Post, Typed, Flags, startVars, saveVars
<1>5. ProcessTyped'
  BY DEF Post, Typed, ProcessTyped, startVars, saveVars
<1>6. RankingTyped'
  BY DEF Typed, RankingTyped
<1> QED
  BY <1>1, <1>2, <1>3, <1>4, <1>5, <1>6 DEF Typed

LEMMA LogNudgeTyped ==
    ASSUME RecInv, RecInv', Typed, LogNudge, UNCHANGED ranking
    PROVE  Typed'
<1>1. WorldTyped'
  BY DEF LogNudge, Typed, WorldTyped, worldVars, faultVars
<1>2. Bounded'
  BY DEF LogNudge, Typed, Bounded, worldVars, startVars, faultVars
<1>3. CopiesTyped'
  <2> DEFINE w == [end |-> NextDue, life |-> crashes, nudged |-> TRUE]
  <2>1. queue # {} /\ queue \subseteq Boundaries
    BY DEF LogNudge, RecInv, Grid, Boundaries
  <2>2. w \in Windows
    BY <2>1, NextDueFirst DEF Typed, Bounded, Windows, Boundaries
  <2>3. Evaluated(rt, w) \in Snapshots
    BY <2>2, EvaluatedTyped DEF Typed, CopiesTyped
  <2> QED
    BY <2>3 DEF LogNudge, Typed, CopiesTyped, worldVars, startVars
<1>4. Flags'
  BY DEF LogNudge, EvaluationDone, ScheduleCheckpoint, Typed, Flags, startVars
<1>5. ProcessTyped'
  BY DEF LogNudge, Typed, ProcessTyped, startVars
<1>6. RankingTyped'
  BY DEF Typed, RankingTyped
<1> QED
  BY <1>1, <1>2, <1>3, <1>4, <1>5, <1>6 DEF Typed

LEMMA EvaluationFailsTyped ==
    ASSUME RecInv, RecInv', Typed, EvaluationFails, UNCHANGED ranking
    PROVE  Typed'
<1>1. WorldTyped'
  BY DEF EvaluationFails, Typed, WorldTyped, worldVars
<1>2. Bounded'
  BY TroubleAssumption DEF EvaluationFails, Fault, Trouble, Typed, Bounded, worldVars,
     startVars
<1>3. CopiesTyped'
  BY DEF EvaluationFails, Typed, CopiesTyped, worldVars, startVars
<1>4. Flags'
  BY DEF EvaluationFails, EvaluationDone, ScheduleCheckpoint, Typed, Flags, startVars
<1>5. ProcessTyped'
  BY DEF EvaluationFails, Typed, ProcessTyped, startVars
<1>6. RankingTyped'
  BY DEF Typed, RankingTyped
<1> QED
  BY <1>1, <1>2, <1>3, <1>4, <1>5, <1>6 DEF Typed

LEMMA WindowPassesTyped ==
    ASSUME RecInv, RecInv', Typed, WindowPasses
    PROVE  Typed'
<1>1. WorldTyped'
  BY DEF WindowPasses, Typed, WorldTyped, faultVars
<1>2. Bounded'
  BY DEF WindowPasses, Typed, Bounded, startVars, faultVars
<1>3. CopiesTyped'
  BY DEF WindowPasses, Typed, CopiesTyped, startVars, runVars
<1>4. Flags'
  BY DEF WindowPasses, Typed, Flags, startVars, runVars, saveVars
<1>5. ProcessTyped'
  BY DEF WindowPasses, Typed, ProcessTyped, startVars, runVars, saveVars
<1>6. RankingTyped'
  BY DEF WindowPasses, Typed, RankingTyped
<1> QED
  BY <1>1, <1>2, <1>3, <1>4, <1>5, <1>6 DEF Typed

LEMMA PublishTyped ==
    ASSUME RecInv, RecInv', Typed, Publish
    PROVE  Typed'
<1>1. WorldTyped'
  BY DEF Publish, Typed, WorldTyped, faultVars
<1>2. Bounded'
  BY DEF Publish, Typed, Bounded, startVars, faultVars
<1>3. CopiesTyped'
  BY DEF Publish, Typed, CopiesTyped, startVars, runVars
<1>4. Flags'
  BY DEF Publish, Typed, Flags, startVars, runVars, saveVars
<1>5. ProcessTyped'
  BY DEF Publish, Typed, ProcessTyped, startVars, runVars, saveVars
<1>6. RankingTyped'
  BY DEF Publish, Typed, RankingTyped
<1> QED
  BY <1>1, <1>2, <1>3, <1>4, <1>5, <1>6 DEF Typed

LEMMA StartAnswerLostTyped ==
    ASSUME RecInv, RecInv', Typed, StartAnswerLost
    PROVE  Typed'
<1>1. WorldTyped'
  BY DEF StartAnswerLost, Typed, WorldTyped
<1>2. Bounded'
  BY TroubleAssumption DEF StartAnswerLost, Fault, Trouble, Typed, Bounded, startVars
<1>3. CopiesTyped'
  BY DEF StartAnswerLost, Typed, CopiesTyped, startVars, runVars
<1>4. Flags'
  BY DEF StartAnswerLost, Typed, Flags, startVars, runVars, saveVars
<1>5. ProcessTyped'
  BY DEF StartAnswerLost, Typed, ProcessTyped, startVars, runVars, saveVars
<1>6. RankingTyped'
  BY DEF StartAnswerLost, Typed, RankingTyped
<1> QED
  BY <1>1, <1>2, <1>3, <1>4, <1>5, <1>6 DEF Typed

LEMMA AbortTyped ==
    ASSUME RecInv, RecInv', Typed, Abort
    PROVE  Typed'
<1>1. WorldTyped'
  BY DEF Abort, Typed, WorldTyped
<1>2. Bounded'
  BY TroubleAssumption DEF Abort, Fault, Trouble, Typed, Bounded, startVars
<1>3. CopiesTyped'
  BY DEF Abort, Typed, CopiesTyped, startVars, runVars
<1>4. Flags'
  BY DEF Abort, Typed, Flags, startVars, runVars, saveVars
<1>5. ProcessTyped'
  BY DEF Abort, Typed, ProcessTyped, startVars, runVars, saveVars
<1>6. RankingTyped'
  BY DEF Abort, Typed, RankingTyped
<1> QED
  BY <1>1, <1>2, <1>3, <1>4, <1>5, <1>6 DEF Typed

LEMMA CompleteSessionTyped ==
    ASSUME RecInv, RecInv', Typed, CompleteSession
    PROVE  Typed'
<1>1. WorldTyped'
  BY DEF CompleteSession, Typed, WorldTyped
<1>2. Bounded'
  BY TroubleAssumption DEF CompleteSession, Fault, Trouble, Typed, Bounded, startVars
<1>3. CopiesTyped'
  BY DEF CompleteSession, Typed, CopiesTyped, startVars, runVars
<1>4. Flags'
  BY DEF CompleteSession, Typed, Flags, startVars, runVars, saveVars
<1>5. ProcessTyped'
  BY DEF CompleteSession, Typed, ProcessTyped, startVars, runVars, saveVars
<1>6. RankingTyped'
  BY DEF CompleteSession, Typed, RankingTyped
<1> QED
  BY <1>1, <1>2, <1>3, <1>4, <1>5, <1>6 DEF Typed

LEMMA ClassifiedTyped ==
    ASSUME RecInv, RecInv', Typed, NEW m \in Messages, Classified(m), UNCHANGED ranking
    PROVE  Typed'
<1>1. WorldTyped'
  BY DEF Classified, Typed, WorldTyped, worldVars, faultVars
<1>2. Bounded'
  BY DEF Classified, Typed, Bounded, worldVars, startVars, faultVars
<1>3. CopiesTyped'
  BY JudgedTyped, UnclassifiedTyped DEF Classified, Typed, CopiesTyped, worldVars,
     startVars
<1>4. Flags'
  BY DEF Classified, ScheduleCheckpoint, Typed, Flags, startVars
<1>5. ProcessTyped'
  BY DEF Classified, Typed, ProcessTyped, startVars
<1>6. RankingTyped'
  BY DEF Typed, RankingTyped
<1> QED
  BY <1>1, <1>2, <1>3, <1>4, <1>5, <1>6 DEF Typed

LEMMA CallFailsTyped ==
    ASSUME RecInv, RecInv', Typed, NEW c \in calls, CallFails(c), UNCHANGED ranking
    PROVE  Typed'
<1>1. WorldTyped'
  BY DEF CallFails, Typed, WorldTyped
<1>2. Bounded'
  BY TroubleAssumption DEF CallFails, Fault, Trouble, Typed, Bounded
<1>3. CopiesTyped'
  BY CallTyped DEF CallFails, Typed, CopiesTyped, runVars
<1>4. Flags'
  BY DEF CallFails, Answered, SaveOver, FinalizeOver, Typed, Flags, runVars
<1>5. ProcessTyped'
  BY DEF CallFails, Answered, SaveOver, FinalizeOver, Typed, ProcessTyped, runVars
<1>6. RankingTyped'
  BY DEF Typed, RankingTyped
<1> QED
  BY <1>1, <1>2, <1>3, <1>4, <1>5, <1>6 DEF Typed

LEMMA SayTyped ==
    ASSUME RecInv, RecInv', Typed, NEW e \in Messages \cup Moves, Say(e)
    PROVE  Typed'
<1>1. WorldTyped'
  <2>1. Items(room') = Items(room) \cup {e}
    <3>1. e \in Events
      BY DEF Events
    <3> QED
      BY <3>1, ItemsOfAppend DEF Say, RecInv, Honest
  <2>2. clock + 1 \in Nat
    BY DurationAssumption DEF RecInv, Grid
  <2>3. sentIn' \in [Messages -> Nat]
    BY <2>2 DEF Say, Typed, WorldTyped
  <2> QED
    BY <2>1, <2>3 DEF Say, Typed, WorldTyped, faultVars
<1>2. Bounded'
  BY DEF Say, Typed, Bounded, startVars, faultVars
<1>3. CopiesTyped'
  BY DEF Say, Typed, CopiesTyped, startVars, runVars
<1>4. Flags'
  BY DEF Say, Typed, Flags, startVars, runVars, saveVars
<1>5. ProcessTyped'
  BY DEF Say, Typed, ProcessTyped, startVars, runVars, saveVars
<1>6. RankingTyped'
  BY DEF Say, Typed, RankingTyped
<1> QED
  BY <1>1, <1>2, <1>3, <1>4, <1>5, <1>6 DEF Typed

LEMMA StoreTyped ==
    ASSUME RecInv, RecInv', Typed, NEW c \in calls, Store(c)
    PROVE  Typed'
<1>1. WorldTyped'
  BY DEF Store, Typed, WorldTyped, faultVars
<1>2. Bounded'
  BY DEF Store, Typed, Bounded, faultVars
<1>3. CopiesTyped'
  <2>1. c \in Calls /\ c.snap \in Snapshots
    BY DEF Typed, CopiesTyped, Calls
  <2>2. Merged(stored, c.snap) \in Snapshots /\ [c EXCEPT !.kind = "close"] \in Calls
    BY <2>1, MergedTyped, CallTyped DEF Typed, CopiesTyped
  <2> QED
    BY <2>2 DEF Store, Typed, CopiesTyped, runVars
<1>4. Flags'
  BY DEF Store, Answered, SaveOver, FinalizeOver, Typed, Flags, runVars, saveVars
<1>5. ProcessTyped'
  BY DEF Store, Answered, SaveOver, FinalizeOver, Typed, ProcessTyped, runVars,
     saveVars
<1>6. RankingTyped'
  <2>1. c.snap \in Snapshots
    BY DEF Typed, CopiesTyped, Calls
  <2> QED
    BY <2>1, LatestTyped DEF Store, Typed, CopiesTyped, RankingTyped
<1> QED
  BY <1>1, <1>2, <1>3, <1>4, <1>5, <1>6 DEF Typed

LEMMA CompleteTyped ==
    ASSUME RecInv, RecInv', Typed, NEW c \in calls, Complete(c)
    PROVE  Typed'
<1>1. WorldTyped'
  BY DEF Complete, Typed, WorldTyped, faultVars
<1>2. Bounded'
  BY DEF Complete, Typed, Bounded, faultVars
<1>3. CopiesTyped'
  BY DEF Complete, Typed, CopiesTyped, runVars
<1>4. Flags'
  BY DEF Complete, Answered, SaveOver, FinalizeOver, Typed, Flags, runVars, saveVars
<1>5. ProcessTyped'
  BY DEF Complete, Answered, SaveOver, FinalizeOver, Typed, ProcessTyped, runVars,
     saveVars
<1>6. RankingTyped'
  BY DEF Complete, Typed, RankingTyped
<1> QED
  BY <1>1, <1>2, <1>3, <1>4, <1>5, <1>6 DEF Typed

LEMMA InitTyped ==
    ASSUME Init
    PROVE  Typed
<1>1. WorldTyped /\ RankingTyped
  BY DEF Init, ChatInit, WorldTyped, RankingTyped
<1>2. Bounded
  BY TroubleAssumption DEF Init, ChatInit, ProcessInit, Bounded
<1>3. CopiesTyped
  BY EmptyTyped DEF Init, ChatInit, ProcessInit, NotStarting, CopiesTyped
<1>4. Flags
  BY DEF Init, ChatInit, ProcessInit, Flags
<1>5. ProcessTyped
  BY DurationAssumption DEF Init, ChatInit, ProcessInit, NotStarting, ProcessTyped,
     DurationAssumption
<1> QED
  BY <1>1, <1>2, <1>3, <1>4, <1>5 DEF Typed

LEMMA StutterTyped ==
    ASSUME Typed, UNCHANGED vars
    PROVE  Typed'
  BY DEF vars, worldVars, startVars, runVars, saveVars, faultVars, Typed, WorldTyped,
     Bounded,
         CopiesTyped, Flags, ProcessTyped, RankingTyped

LEMMA NextTyped ==
    ASSUME RecInv, RecInv', Typed, Next
    PROVE  Typed'
<1>1. CASE Starting /\ UNCHANGED ranking
  BY <1>1, BootTyped, RecoverTyped, RecoverFailsTyped, StartSessionTyped, JoinTyped,
     ReadHistoryTyped, StartFailsTyped, InstallTyped DEF Starting
<1>2. CASE Running /\ UNCHANGED ranking
  BY <1>2, DeliverTyped, WindowElapsedTyped, EvaluateQuietTyped, PostTyped,
     LogNudgeTyped,
     EvaluationFailsTyped, FlushCheckpointTyped, EndSessionTyped, FinalizeTyped, StopTyped,
     StopFlushTyped, ExitTyped, ClassifiedTyped, CallFailsTyped DEF Running
<1>3. CASE \E e \in Messages \cup Moves : Say(e)
  BY <1>3, SayTyped
<1>4. CASE \E c \in calls : Store(c) \/ Complete(c)
  BY <1>4, StoreTyped, CompleteTyped
<1> QED
  BY <1>1, <1>2, <1>3, <1>4, WindowPassesTyped, PublishTyped, StartAnswerLostTyped,
     AbortTyped, CompleteSessionTyped DEF Next

\* The types of all copies, in whatever order they are merged, and of what the
\* process and the network hold.
THEOREM AlwaysTyped == Spec => []Typed
<1>1. Init => Typed
  BY InitTyped
<1>2. RecInv /\ RecInv' /\ Typed /\ [Next]_vars => Typed'
  BY NextTyped, StutterTyped
<1> QED
  BY <1>1, <1>2, CopiesGenuine, PTL DEF Spec

\* Every variable keeps its type; in particular no copy of the record, whatever
\* was merged into it, holds an event, a verdict or a window of another kind,
\* and what a finalize dropped was said.
THEOREM DiscussionTypes == Spec => []TypeOK
<1>1. RecInv /\ Typed => TypeOK
  BY TypedIsTypeOK
<1> QED
  BY <1>1, CopiesGenuine, AlwaysTyped, PTL

----------------------------------------------------------------------------
(***************************************************************************)
(* Copies                                                                  *)
(***************************************************************************)

LEMMA SnapsAreCopies ==
    /\ stored \in Copies /\ rt \in Copies /\ start.note \in Copies
    /\ \A c \in calls : c.snap \in Copies
  BY DEF Copies

\* The steps that move copies about, and give up some.
Moving ==
    \/ Boot \/ Recover \/ RecoverFails \/ StartSession \/ Join \/ ReadHistory
    \/ StartFails \/ WindowElapsed \/ Post \/ EvaluationFails \/ EndSession \/ Stop \/ Exit
    \/ WindowPasses \/ Publish \/ StartAnswerLost \/ Abort \/ CompleteSession
    \/ \E e \in Messages \cup Moves : Say(e)
    \/ \E c \in calls : CallFails(c) \/ Complete(c)

LEMMA CopiesMoved ==
    ASSUME RecInv, Moving
    PROVE  Copies' \subseteq Copies \cup {Empty}
<1>1. UNCHANGED <<stored, rt, start, calls>> => Copies' \subseteq Copies \cup {Empty}
  BY Zenon DEF Copies
<1>2. CASE Boot \/ RecoverFails \/ WindowElapsed \/ Post \/ EvaluationFails \/ EndSession \/ Stop
  BY <1>1, <1>2 DEF Boot, RecoverFails, WindowElapsed, Post, EvaluationFails,
     EndSession, Stop,
        worldVars, startVars, runVars
<1>3. CASE \/ WindowPasses \/ Publish \/ StartAnswerLost \/ Abort \/ CompleteSession
           \/ \E e \in Messages \cup Moves : Say(e)
  BY <1>1, <1>3 DEF WindowPasses, Publish, StartAnswerLost, Abort, CompleteSession, Say,
        startVars, runVars
<1>4. CASE Recover \/ StartSession \/ Join \/ ReadHistory \/ StartFails
  <2>1. UNCHANGED <<stored, rt, calls>>
    BY <1>4 DEF Recover, StartSession, Join, ReadHistory, StartFails, worldVars, runVars
  <2>2. start'.note \in {stored, start.note, Empty}
    <3>1. start' = start => start'.note = start.note
      OBVIOUS
    <3>2. CASE Recover
      BY <3>1, <3>2 DEF Recover
    <3>3. CASE StartSession
      BY <3>1, <3>3 DEF StartSession, NotStarting
    <3>4. CASE Join \/ ReadHistory
      BY <3>4 DEF Join, ReadHistory, RecInv, Honest
    <3>5. CASE StartFails
      BY <3>5 DEF StartFails, NotStarting
    <3> QED
      BY <1>4, <3>2, <3>3, <3>4, <3>5
  <2> QED
    BY <2>1, <2>2, Zenon DEF Copies
<1>5. CASE Exit
  <2>1. \A c \in calls' : c.snap \in Copies
    BY <1>5, SnapsAreCopies, RequestAbandoned DEF Exit, RecInv, Honest
  <2>2. stored' = stored /\ rt' = Empty /\ start'.note = Empty
    BY <1>5 DEF Exit, Forget, NotStarting
  <2> QED
    BY <2>1, <2>2, Zenon DEF Copies
<1>6. CASE \E c \in calls : CallFails(c) \/ Complete(c)
  <2>1. UNCHANGED <<stored, rt, start>>
    BY <1>6 DEF CallFails, Complete, runVars
  <2>2. \A c \in calls : Abandoned(c).snap = c.snap
    BY RequestAbandoned DEF RecInv, Honest
  <2>3. \A c \in calls' : c.snap \in Copies
    BY <1>6, <2>2, SnapsAreCopies DEF CallFails, Complete
  <2> QED
    BY <2>1, <2>3, Zenon DEF Copies
<1> QED
  BY <1>2, <1>3, <1>4, <1>5, <1>6 DEF Moving

LEMMA CopiesSent ==
    ASSUME RecInv, StopFlush \/ FlushCheckpoint \/ Finalize
    PROVE  Copies' \subseteq Copies \cup {Snapshot(rt)}
<1>1. stored' = stored /\ start' = start /\ rt' \in {rt, Snapshot(rt)}
  BY DEF StopFlush, FlushCheckpoint, Finalize, startVars
<1>2. \A c \in calls' : c \in calls \/ c.snap = Snapshot(rt)
  BY DEF StopFlush, FlushCheckpoint, Finalize, Send
<1> QED
  BY <1>1, <1>2 DEF Copies

LEMMA CopiesInstalled ==
    ASSUME RecInv, Install
    PROVE  Copies' \subseteq Copies \cup {Empty, Recorded(start.note, Replay, room)}
<1>1. /\ stored' = stored /\ calls' = calls
      /\ rt' = Recorded(start.note, Replay, room) /\ start'.note = Empty
  BY DEF Install, NotStarting
<1> QED
  BY <1>1, Zenon DEF Copies

LEMMA CopiesDelivered ==
    ASSUME RecInv, Deliver
    PROVE  Copies' \subseteq Copies \cup {Recorded(rt, {room[cursor + 1]}, room)}
<1>1. /\ stored' = stored /\ calls' = calls /\ start' = start
      /\ rt' \in {rt, Recorded(rt, {room[cursor + 1]}, room)}
  BY DEF Deliver, worldVars
<1> QED
  BY <1>1, Zenon DEF Copies

LEMMA CopiesJudged ==
    ASSUME RecInv, NEW m \in Messages, Classified(m)
    PROVE  Copies' \subseteq Copies \cup {Judged(rt, m, v) : v \in Verdicts} \cup {Unclassified(rt, m)}
<1>1. /\ stored' = stored /\ calls' = calls /\ start' = start
      /\ rt' \in {Judged(rt, m, v) : v \in Verdicts} \cup {Unclassified(rt, m)}
  BY DEF Classified, worldVars, startVars
<1> DEFINE new == {Judged(rt, m, v) : v \in Verdicts} \cup {Unclassified(rt, m)}
<1>2. rt' \in new
  BY <1>1
<1>3. Copies' \subseteq Copies \cup new
  <2> HIDE DEF new
  <2> QED
    BY <1>1, <1>2, Zenon DEF Copies
<1> QED
  BY <1>3

\* The evaluation of the first boundary of the queue, and what it leaves.
DueWindow(nudged) == [end |-> NextDue, life |-> crashes, nudged |-> nudged]

LEMMA CopiesEvaluated ==
    ASSUME RecInv, NEW nudged,
           \/ EvaluateQuiet /\ nudged = FALSE
           \/ LogNudge /\ nudged = TRUE
    PROVE  Copies' \subseteq Copies \cup {Evaluated(rt, DueWindow(nudged))}
<1>1. /\ stored' = stored /\ calls' = calls /\ start' = start
      /\ rt' = Evaluated(rt, DueWindow(nudged))
  BY DEF EvaluateQuiet, LogNudge, worldVars, startVars, DueWindow
<1> QED
  BY <1>1, Zenon DEF Copies

LEMMA CopiesStored ==
    ASSUME RecInv, NEW c \in calls, Store(c)
    PROVE  Copies' \subseteq Copies \cup {Merged(stored, c.snap)}
<1>1. stored' = Merged(stored, c.snap) /\ rt' = rt /\ start' = start
  BY DEF Store, runVars
<1>2. \A d \in calls' : d \in calls \/ d.snap = c.snap
  <2>1. [c EXCEPT !.kind = "close"].snap = c.snap
    BY DEF RecInv, Honest, IsRequest
  <2> QED
    BY <2>1 DEF Store
<1> QED
  BY <1>1, <1>2, Zenon DEF Copies

----------------------------------------------------------------------------
(***************************************************************************)
(* One evaluation and one nudge per boundary                               *)
(***************************************************************************)

LEMMA MovingLogs ==
    ASSUME RecInv, Moving
    PROVE  Logged' \subseteq Logged
<1>1. Empty.windows = {}
  BY DEF Empty
<1> QED
  BY <1>1, CopiesMoved DEF Logged

LEMMA CarryingLogs ==
    ASSUME RecInv, Typed,
           \/ StopFlush \/ FlushCheckpoint \/ Finalize \/ Install \/ Deliver
           \/ (\E m \in Messages : Classified(m)) \/ (\E c \in calls : Store(c))
    PROVE  Logged' \subseteq Logged
<1>1. rt.windows \subseteq Logged /\ start.note.windows \subseteq Logged /\ stored.windows \subseteq Logged
      /\ \A c \in calls : c.snap.windows \subseteq Logged
  BY SnapsAreCopies DEF Logged
<1>2. CASE StopFlush \/ FlushCheckpoint \/ Finalize
  <2>1. Snapshot(rt).windows = rt.windows
    BY DEF Snapshot, Typed, CopiesTyped, Snapshots
  <2> QED
    BY <1>1, <1>2, <2>1, CopiesSent DEF Logged
<1>3. CASE Install
  <2>1. Empty.windows = {} /\ Recorded(start.note, Replay, room).windows = start.note.windows
    BY DEF Empty, Recorded
  <2> QED
    BY <1>1, <1>3, <2>1, CopiesInstalled DEF Logged
<1>4. CASE Deliver
  <2>1. Recorded(rt, {room[cursor + 1]}, room).windows = rt.windows
    BY DEF Recorded
  <2> QED
    BY <1>1, <1>4, <2>1, CopiesDelivered DEF Logged
<1>5. ASSUME NEW m \in Messages, Classified(m)
      PROVE  Logged' \subseteq Logged
  <2>1. /\ Unclassified(rt, m).windows = rt.windows
        /\ \A v \in Verdicts : Judged(rt, m, v).windows = rt.windows
    BY DEF Judged, Unclassified, Typed, CopiesTyped, Snapshots
  <2>2. \A s \in Copies' : s \in Copies \/ s.windows = rt.windows
    BY <1>5, <2>1, CopiesJudged
  <2> QED
    BY <1>1, <2>2 DEF Logged
<1>6. ASSUME NEW c \in calls, Store(c)
      PROVE  Logged' \subseteq Logged
  <2>1. Merged(stored, c.snap).windows = stored.windows \cup c.snap.windows
    BY DEF Merged
  <2> QED
    BY <1>1, <1>6, <2>1, CopiesStored DEF Logged
<1> QED
  BY <1>2, <1>3, <1>4, <1>5, <1>6

LEMMA EvaluatingLogs ==
    ASSUME RecInv, Typed, NEW nudged \in BOOLEAN,
           \/ EvaluateQuiet /\ nudged = FALSE
           \/ LogNudge /\ nudged = TRUE
    PROVE  Logged' \subseteq Logged \cup {DueWindow(nudged)}
<1>1. Evaluated(rt, DueWindow(nudged)).windows = rt.windows \cup {DueWindow(nudged)}
  BY DEF Evaluated, Typed, CopiesTyped, Snapshots
<1>2. rt.windows \subseteq Logged
  BY SnapsAreCopies DEF Logged
<1> QED
  BY <1>1, <1>2, CopiesEvaluated DEF Logged

\* Types of what the invariant is about.
LEMMA WindowTypes ==
    ASSUME RecInv
    PROVE  /\ \A w \in Logged : w.end \in Boundaries
           /\ Used \subseteq Boundaries /\ queue \subseteq Boundaries
           /\ clock \in Nat /\ tick \in Nat /\ room \in Seq(Events)
<1>1. \A s \in Copies : Genuine(s, Items(room))
  BY DEF RecInv, Honest, Copies
<1>2. \A w \in Logged : w.end \in Boundaries
  BY <1>1 DEF Logged, Genuine
<1>3. queue \subseteq Boundaries
  BY DEF RecInv, Grid, Boundaries
<1>4. clock \in Nat /\ tick \in Nat /\ room \in Seq(Events)
  BY DurationAssumption DEF RecInv, Grid, Honest, DurationAssumption
<1> QED
  BY <1>2, <1>3, <1>4 DEF Used

\* A step that claims, posts, evaluates and logs nothing.
LEMMA WindowsKept ==
    ASSUME RecInv, WindowsApart, Logged' \subseteq Logged, room' = room, queue' = queue,
           clock' \in {clock, clock + 1}, posting' = posting, tick' \in {tick, 0}
    PROVE  WindowsApart'
<1>1. Used' \subseteq Used /\ Items(room') = Items(room)
  BY DEF Used, Items, Boundaries
<1>2. /\ \A v, w \in Logged' : v.end = w.end => v = w
      /\ \A w \in Logged' : w.end \notin queue'
  BY DEF WindowsApart
<1>3. \A k \in queue' : k \in Items(room') => posting' /\ \A j \in queue' : k <= j
  BY DEF WindowsApart
<1>4. \A k \in Used' : k <= clock' /\ (tick' # 0 => k < tick')
  BY <1>1, WindowTypes DEF WindowsApart, Boundaries
<1>5. \A i, j \in DOMAIN room' : i # j => room'[i] # room'[j]
  BY DEF WindowsApart
<1> QED
  BY <1>2, <1>3, <1>4, <1>5 DEF WindowsApart

\* A step that forgets the queue, and claims from the next boundary on.
LEMMA WindowsForgotten ==
    ASSUME RecInv, WindowsApart, Logged' \subseteq Logged, room' = room, queue' = {},
           clock' = clock, tick' \in {0, NextBoundary(0)}
    PROVE  WindowsApart'
<1>1. Used' \subseteq Used /\ Items(room') = Items(room)
  BY DEF Used, Items, Boundaries
<1>2. \A v, w \in Logged' : v.end = w.end => v = w
  BY DEF WindowsApart
<1>3. \A k \in Used' : k <= clock' /\ (tick' # 0 => k < tick')
  <2>1. \A k \in Used' : k <= clock /\ k \in Nat /\ k # 0
    BY <1>1, WindowTypes DEF WindowsApart, Boundaries
  <2>2. \A k \in Used' : tick' # 0 => k < tick'
    BY <2>1, WindowTypes DEF NextBoundary
  <2> QED
    BY <2>1, <2>2
<1>4. \A i, j \in DOMAIN room' : i # j => room'[i] # room'[j]
  BY DEF WindowsApart
<1> QED
  BY <1>2, <1>3, <1>4 DEF WindowsApart

\* The boundary claimed is later than any used before.
LEMMA WindowElapsedApart ==
    ASSUME RecInv, Typed, WindowsApart, WindowElapsed
    PROVE  WindowsApart'
<1>1. Logged' \subseteq Logged
  BY MovingLogs DEF Moving
<1>2. /\ tick \in Boundaries /\ tick <= clock /\ \A k \in Used : k < tick
      /\ queue' \in {queue, queue \cup {tick}}
      /\ UNCHANGED <<room, clock, posting>>
      /\ tick' = NextBoundary(tick)
  BY WindowTypes, DurationAssumption DEF WindowElapsed, WindowsApart, Boundaries,
     RecInv, Grid,
     DurationAssumption, worldVars
<1>3. tick \notin Used
  BY <1>2, WindowTypes
<1>4. Used' \subseteq Used \cup {tick}
  BY <1>1, <1>2 DEF Used, Items, Boundaries
<1>5. \A v, w \in Logged' : v.end = w.end => v = w
  BY <1>1 DEF WindowsApart
<1>6. \A w \in Logged' : w.end \notin queue'
  BY <1>1, <1>2, <1>3 DEF WindowsApart, Used
<1>7. \A k \in queue' : k \in Items(room') => posting' /\ \A j \in queue' : k <= j
  <2> SUFFICES ASSUME NEW k \in queue', k \in Items(room)
               PROVE  posting /\ \A j \in queue' : k <= j
    BY <1>2 DEF Items
  <2>1. k \in queue
    BY <1>2, <1>3 DEF Used
  <2>2. k < tick
    BY <1>2, <2>1 DEF Used
  <2> QED
    BY <1>2, <2>1, <2>2, WindowTypes DEF WindowsApart, Boundaries
<1>8. \A k \in Used' : k <= clock' /\ (tick' # 0 => k < tick')
  BY <1>2, <1>4, WindowTypes DEF NextBoundary, WindowsApart, Boundaries
<1>9. \A i, j \in DOMAIN room' : i # j => room'[i] # room'[j]
  BY <1>2 DEF WindowsApart
<1> QED
  BY <1>5, <1>6, <1>7, <1>8, <1>9 DEF WindowsApart

\* The room stays without repetitions when something new is said.
LEMMA RoomApart ==
    ASSUME NEW e \in Events, e \notin Items(room), room \in Seq(Events),
           room' = Append(room, e),
           \A i, j \in DOMAIN room : i # j => room[i] # room[j]
    PROVE  /\ \A i, j \in DOMAIN room' : i # j => room'[i] # room'[j]
           /\ Items(room') = Items(room) \cup {e}
<1>1. /\ DOMAIN room' = DOMAIN room \cup {Len(room) + 1}
      /\ \A i \in DOMAIN room : room'[i] = room[i] /\ room'[i] # e
      /\ room'[Len(room) + 1] = e
  BY DEF Items
<1> QED
  BY <1>1, ItemsOfAppend

LEMMA PostApart ==
    ASSUME RecInv, WindowsApart, Post
    PROVE  WindowsApart'
<1>1. Logged' \subseteq Logged
  BY MovingLogs DEF Moving
<1>2. NextDue \in queue /\ \A j \in queue : NextDue <= j
  BY NextDueFirst DEF Post, RecInv, Grid
<1>3. NextDue \notin Items(room) /\ NextDue \in Events
  BY <1>2, WindowTypes DEF Post, WindowsApart, Events
<1>4. /\ UNCHANGED <<clock, queue, tick>> /\ posting' = TRUE
      /\ room' = Append(room, NextDue)
  BY DEF Post, runVars
<1>5. /\ \A i, j \in DOMAIN room' : i # j => room'[i] # room'[j]
      /\ Items(room') = Items(room) \cup {NextDue}
  BY <1>3, <1>4, WindowTypes, RoomApart DEF WindowsApart
<1>6. Used' \subseteq Used
  BY <1>1, <1>2, <1>4, <1>5 DEF Used, Boundaries
<1>7. \A k \in queue' : k \in Items(room') => posting' /\ \A j \in queue' : k <= j
  BY <1>2, <1>4, <1>5 DEF Post, WindowsApart
<1> QED
  BY <1>1, <1>4, <1>5, <1>6, <1>7 DEF WindowsApart

LEMMA SayApart ==
    ASSUME RecInv, WindowsApart, NEW e \in Messages \cup Moves, Say(e)
    PROVE  WindowsApart'
<1>1. Logged' \subseteq Logged
  BY MovingLogs DEF Moving
<1>2. e \notin Boundaries /\ e \notin Items(room) /\ e \in Events
  BY EventsAssumption DEF Say, Events, EventsAssumption
<1>3. UNCHANGED <<clock, queue, tick, posting>> /\ room' = Append(room, e)
  BY DEF Say, runVars
<1>4. /\ \A i, j \in DOMAIN room' : i # j => room'[i] # room'[j]
      /\ Items(room') = Items(room) \cup {e}
  BY <1>2, <1>3, WindowTypes, RoomApart DEF WindowsApart
<1>5. Used' \subseteq Used
  BY <1>1, <1>2, <1>3, <1>4 DEF Used, Boundaries
<1>6. \A k \in queue' : k \in Items(room') => posting' /\ \A j \in queue' : k <= j
  BY <1>2, <1>3, <1>4, WindowTypes DEF WindowsApart
<1> QED
  BY <1>1, <1>3, <1>4, <1>5, <1>6 DEF WindowsApart

\* An evaluation that is over leaves the first boundary of the queue, which
\* alone may have been posted, and logs no other.
LEMMA EvaluatedApart ==
    ASSUME RecInv, WindowsApart, queue # {},
           Logged' \subseteq Logged \cup {DueWindow(TRUE)} \/ Logged' \subseteq Logged \cup {DueWindow(FALSE)},
           EvaluationDone, UNCHANGED <<room, clock, tick>>
    PROVE  WindowsApart'
<1>1. NextDue \in queue /\ \A j \in queue : NextDue <= j
  BY NextDueFirst DEF RecInv, Grid
<1>2. queue' = queue \ {NextDue}
  BY DEF EvaluationDone
<1>3. DueWindow(TRUE).end = NextDue /\ DueWindow(FALSE).end = NextDue
  BY DEF DueWindow
<1>4. \A w \in Logged' : w \in Logged \/ w.end = NextDue
  BY <1>3
<1>5. Used' \subseteq Used
  BY <1>1, <1>2, <1>4 DEF Used, Items, Boundaries
<1>6. \A v, w \in Logged' : v.end = w.end => v = w
  <2>1. \A w \in Logged : w.end # NextDue
    BY <1>1 DEF WindowsApart
  <2>2. PICK d : d.end = NextDue /\ Logged' \subseteq Logged \cup {d}
    BY <1>3
  <2> QED
    BY <2>1, <2>2 DEF WindowsApart
<1>7. \A w \in Logged' : w.end \notin queue'
  BY <1>1, <1>2, <1>4 DEF WindowsApart
<1>8. \A k \in queue' : k \notin Items(room')
  <2>1. \A k \in queue : k \in Items(room) => k = NextDue
    BY <1>1, WindowTypes DEF WindowsApart, Boundaries
  <2> QED
    BY <1>2, <2>1 DEF Items
<1>9. UNCHANGED <<Items(room), clock, tick>>
  BY DEF Items
<1> QED
  BY <1>5, <1>6, <1>7, <1>8, <1>9 DEF WindowsApart

LEMMA NextApart ==
    ASSUME RecInv, Typed, WindowsApart, Next
    PROVE  WindowsApart'
<1>1. CASE \/ Boot \/ Recover \/ RecoverFails \/ StartSession \/ Join \/ ReadHistory
           \/ StartFails \/ EndSession \/ Stop \/ WindowPasses \/ Publish
           \/ StartAnswerLost \/ Abort \/ CompleteSession
           \/ \E c \in calls : CallFails(c) \/ Complete(c)
  <2>1. Logged' \subseteq Logged
    BY <1>1, MovingLogs DEF Moving
  <2>2. UNCHANGED <<room, queue, posting>>
    BY <1>1 DEF Boot, Recover, RecoverFails, StartSession, Join, ReadHistory, StartFails,
       EndSession, Stop, WindowPasses, Publish, StartAnswerLost, Abort, CompleteSession,
       CallFails, Complete, worldVars, runVars
  <2>3. tick' \in {tick, 0}
    BY <1>1 DEF Boot, Recover, RecoverFails, StartSession, Join, ReadHistory, StartFails,
       EndSession, Stop, WindowPasses, Publish, StartAnswerLost, Abort, CompleteSession,
       CallFails, Complete, runVars
  <2>4. clock' \in {clock, clock + 1}
    BY <1>1 DEF Boot, Recover, RecoverFails, StartSession, Join, ReadHistory, StartFails,
       EndSession, Stop, WindowPasses, Publish, StartAnswerLost, Abort, CompleteSession,
       CallFails, Complete, worldVars
  <2> QED
    BY <2>1, <2>2, <2>3, <2>4, WindowsKept
<1>2. CASE \/ StopFlush \/ FlushCheckpoint \/ Finalize \/ Deliver
           \/ (\E m \in Messages : Classified(m)) \/ (\E c \in calls : Store(c))
  <2>1. Logged' \subseteq Logged
    BY <1>2, CarryingLogs
  <2>2. UNCHANGED <<room, queue, posting, tick, clock>>
    BY <1>2 DEF StopFlush, FlushCheckpoint, Finalize, Deliver, Classified, Store,
       worldVars, runVars
  <2> QED
    BY <2>1, <2>2, WindowsKept
<1>3. CASE Install \/ Exit
  <2>1. Logged' \subseteq Logged
    BY <1>3, CarryingLogs, MovingLogs DEF Moving
  <2>2. UNCHANGED <<room, clock>> /\ queue' = {} /\ tick' \in {0, NextBoundary(0)}
    BY <1>3 DEF Install, Exit, Forget
  <2> QED
    BY <2>1, <2>2, WindowsForgotten
<1>4. CASE EvaluateQuiet \/ LogNudge \/ EvaluationFails
  <2>1. \/ Logged' \subseteq Logged \cup {DueWindow(TRUE)}
        \/ Logged' \subseteq Logged \cup {DueWindow(FALSE)}
    BY <1>4, EvaluatingLogs, MovingLogs DEF Moving
  <2>2. queue # {} /\ EvaluationDone /\ UNCHANGED <<room, clock, tick>>
    BY <1>4 DEF EvaluateQuiet, LogNudge, EvaluationFails, RecInv, Grid, worldVars
  <2> QED
    BY <2>1, <2>2, EvaluatedApart
<1> QED
  BY <1>1, <1>2, <1>3, <1>4, WindowElapsedApart, PostApart, SayApart DEF Next, Starting,
     Running

LEMMA InitApart ==
    ASSUME Init
    PROVE  WindowsApart
<1>1. Logged = {} /\ queue = {} /\ room = <<>> /\ tick = 0
  BY DEF Init, ChatInit, ProcessInit, NotStarting, Empty, Logged, Copies
<1>2. Used = {}
  BY <1>1 DEF Used, Items
<1> QED
  BY <1>1, <1>2 DEF WindowsApart

LEMMA StutterApart ==
    ASSUME WindowsApart, UNCHANGED vars
    PROVE  WindowsApart'
<1>1. UNCHANGED <<room, stored, rt, start, calls, queue, posting, clock, tick>>
  BY DEF vars, worldVars, startVars, runVars
<1>2. UNCHANGED <<Copies, Items(room)>>
  BY <1>1 DEF Copies, Items
<1>3. UNCHANGED Logged
  BY <1>2 DEF Logged
<1>4. UNCHANGED Used
  BY <1>1, <1>2, <1>3 DEF Used, Boundaries
<1> QED
  BY <1>1, <1>2, <1>3, <1>4 DEF WindowsApart

\* A boundary is claimed (onWindowElapsed) only while no copy of the record,
\* nothing in the room and nothing in the queue is of it or of a later one.
THEOREM BoundariesApart == Spec => []WindowsApart
<1>1. Init => WindowsApart
  BY InitApart
<1>2. RecInv /\ Typed /\ WindowsApart /\ [Next]_vars => WindowsApart'
  BY NextApart, StutterApart
<1> QED
  BY <1>1, <1>2, CopiesGenuine, AlwaysTyped, PTL DEF Spec

\* A boundary is evaluated once and nudges once at most, over any number of
\* lives of the Chat Service (restore resumes after the last recorded boundary)
\* and of writes of earlier lives that arrive late.
THEOREM OnceAtMost == Spec => []OnePerBoundary
<1>1. WindowsApart => OnePerBoundary
  BY SnapsAreCopies DEF WindowsApart, OnePerBoundary, Logged
<1> QED
  BY <1>1, BoundariesApart, PTL
=============================================================================
