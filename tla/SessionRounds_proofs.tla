------------------------ MODULE SessionRounds_proofs ------------------------
(***************************************************************************)
(* Proofs about the goals of the arms and the study rounds, for any number *)
(* of participants, requests, sessions, arms and rounds.                   *)
(*                                                                         *)
(* Two steps matter: a request chooses a session, creating one if it must, *)
(* and a request writes its seat.  Every other step is Quiet.              *)
(***************************************************************************)
EXTENDS SessionManager_proofs

\* Sessions only leave the live states and the lobby, and nobody sits down.
Fading ==
    /\ UNCHANGED rowVars
    /\ \A s \in Sessions :
        /\ status'[s] \in Live => status[s] \in Live
        /\ status'[s] = "waiting" => status[s] = "waiting"
        /\ members'[s] \subseteq members[s]

\* The researcher's part in a step.
AdminKeeps ==
    \/ pc'[Admin] \notin {"sweep", "newRound"}
    \/ pc'[Admin] = pc[Admin] /\ rows'[Admin] = rows[Admin]
    \/ AbortRow(Admin) \/ SweepDone(Admin) \/ StartRound

Quiet ==
    /\ Fading
    /\ \A r \in Requests : pc'[r] = "add" => pc[r] = "add" /\ seen'[r] = seen[r]
    /\ round' = round \/ pc[Admin] = "newRound"
    /\ AdminKeeps

----------------------------------------------------------------------------
(***************************************************************************)
(* Steps                                                                   *)
(***************************************************************************)

\* An actor in a sweep only aborts lobbies.
LEMMA SweepingQuiet ==
    ASSUME IInv, NEW x \in Actors, Sweeping(x)
    PROVE  Quiet
<1>1. Fading /\ round' = round
  BY DEF Sweeping, AbortRow, SetStatus, ReadRoster, TerminateMember, SweepDone, Fading,
         Live, storeVars, tableVars, rowVars, seatVars, studyVars, IInv, TypeOK,
         StoreTypeOK, MatchmakingTypeOK
<1>2. \A r \in Requests : pc'[r] = "add" => pc[r] = "add" /\ seen'[r] = seen[r]
  BY MatchmakingAssumption
     DEF Sweeping, AbortRow, ReadRoster, TerminateMember, SweepDone, Goto, AfterSweep,
         IInv, TypeOK, MatchmakingTypeOK, Actors
<1>3. CASE x # Admin
  <2>1. pc'[Admin] = pc[Admin] /\ rows'[Admin] = rows[Admin]
    BY <1>3 DEF Sweeping, AbortRow, ReadRoster, TerminateMember, SweepDone, Goto, IInv,
                TypeOK, MatchmakingTypeOK, Actors
  <2> QED BY <1>1, <1>2, <2>1 DEF Quiet, AdminKeeps
<1>4. CASE x = Admin
  <2>1. AdminKeeps
    BY <1>4 DEF Sweeping, ReadRoster, TerminateMember, AdminKeeps
  <2> QED BY <1>1, <1>2, <2>1 DEF Quiet
<1> QED BY <1>3, <1>4

\* Neither does a departure seat anybody or open a lobby.
LEMMA LeavingQuiet ==
    ASSUME IInv, NEW x \in Leavers \cup {Timer}, Leaving(x)
    PROVE  Quiet
<1>1. x \in Actors /\ x # Admin /\ x \notin Requests
  BY MatchmakingAssumption DEF Actors
<1>2. Fading /\ round' = round
  BY DEF Leaving, LeaveStarted, LeaveLobby, RemoveSeat, RemoveParticipant,
         LeaveProvisioning, SetStatus, Fading, Live, storeVars, tableVars, rowVars,
         seatVars, studyVars, IInv, TypeOK, StoreTypeOK
<1>3. \A y \in Actors \ {x} : pc'[y] = pc[y] /\ seen'[y] = seen[y] /\ rows'[y] = rows[y]
  BY DEF Leaving, LeaveStarted, LeaveLobby, RemoveSeat, LeaveProvisioning, Departed, Goto,
         IInv, TypeOK, MatchmakingTypeOK
<1> QED BY <1>1, <1>2, <1>3 DEF Quiet, AdminKeeps, Actors

LEMMA RequestQuiet ==
    ASSUME IInv, NEW r \in Requests, Request(r)
    PROVE  Quiet \/ ChooseSeat(r) \/ AddSeat(r)
<1>1. r \in Actors /\ r # Admin
  BY MatchmakingAssumption DEF Actors
<1>2. CASE Sweeping(r)
  BY <1>1, <1>2, SweepingQuiet
<1>3. CASE OpenSession(r) \/ ReserveSeat(r) \/ ReturnSeat(r) \/ GrantAccess(r)
  <2>1. Fading /\ round' = round
    BY <1>3 DEF OpenSession, ReserveSeat, ReturnSeat, GrantAccess, SetCreds, Fading,
                storeVars, tableVars, rowVars, seatVars, studyVars
  <2>2. /\ \A y \in Actors \ {r} :
              pc'[y] = pc[y] /\ seen'[y] = seen[y] /\ rows'[y] = rows[y]
        /\ pc'[r] # "add"
    BY <1>1, <1>3 DEF OpenSession, ReserveSeat, ReturnSeat, GrantAccess, Goto, IInv,
                      TypeOK, MatchmakingTypeOK
  <2> QED BY <1>1, <2>1, <2>2 DEF Quiet, AdminKeeps, Actors
<1> QED BY <1>2, <1>3 DEF Request

\* The steps of the timer, of a withdrawal and of the researcher that are not
\* part of a sweep or a departure, and what happens around the program.
LEMMA OthersQuiet ==
    ASSUME IInv,
           \/ \E p \in Leavers : Withdraw(p)
           \/ TimerTick \/ ListStale \/ ClaimVictim \/ StaleDone
           \/ StartRound \/ StartNewRound \/ Surroundings
    PROVE  Quiet
<1>1. Fading
  BY DEF Withdraw, TimerTick, ListStale, ClaimVictim, StaleDone, StartRound, StartNewRound,
         Surroundings, DeadlinePasses, FallSilent, Heartbeat, ToggleCondition, Fading,
         storeVars, tableVars, rowVars, seatVars
<1>2. round' = round \/ pc[Admin] = "newRound"
  BY DEF Withdraw, TimerTick, ListStale, ClaimVictim, StaleDone, StartRound, StartNewRound,
         Surroundings, DeadlinePasses, FallSilent, Heartbeat, ToggleCondition, storeVars,
         studyVars
<1>3. \A r \in Requests : pc'[r] = pc[r] /\ seen'[r] = seen[r]
  BY MatchmakingAssumption
     DEF Withdraw, TimerTick, ListStale, ClaimVictim, StaleDone, StartRound, StartNewRound,
         Surroundings, Goto, actorVars, IInv, TypeOK, MatchmakingTypeOK, Actors
<1>4. AdminKeeps
  <2>1. CASE StartRound
    BY <2>1 DEF AdminKeeps
  <2>2. CASE StartNewRound
    BY <2>2 DEF StartNewRound, Goto, AdminKeeps, IInv, TypeOK, MatchmakingTypeOK, Actors
  <2>3. CASE ~ StartRound /\ ~ StartNewRound
    <3>1. pc'[Admin] = pc[Admin] /\ rows'[Admin] = rows[Admin]
      BY <2>3, MatchmakingAssumption
         DEF Withdraw, TimerTick, ListStale, ClaimVictim, StaleDone, Surroundings, Goto,
             actorVars, IInv, TypeOK, MatchmakingTypeOK, Actors
    <3> QED BY <3>1 DEF AdminKeeps
  <2> QED BY <2>1, <2>2, <2>3
<1> QED BY <1>1, <1>2, <1>3, <1>4 DEF Quiet

\* Provisioning and completion create no session and seat nobody.
LEMMA ProvisioningQuiet ==
    ASSUME IInv, ProvisioningNext, UNCHANGED actorVars
    PROVE  Quiet
<1>1. PICK s \in Sessions : Provision(s) \/ Completion(s)
  BY DEF ProvisioningNext
<1>2. /\ \/ UNCHANGED tableVars
         \/ SetStatus(s, "provisioning") /\ status[s] = "waiting"
         \/ SetStatus(s, "running") /\ status[s] = "provisioning"
         \/ SetStatus(s, "completed")
      /\ round' = round
  BY <1>1 DEF Provision, Completion, ReadFullGroup, ClaimGroup, StartChat, Publish,
              FailProvisioning, FinalizeRead, CompleteRead, CompleteWrite, storeVars,
              studyVars
<1>3. Fading
  BY <1>2 DEF Fading, SetStatus, Live, tableVars, rowVars, seatVars, IInv, TypeOK,
              StoreTypeOK
<1> QED BY <1>2, <1>3 DEF Quiet, AdminKeeps, actorVars

LEMMA StepQuiet ==
    ASSUME IInv, [Next]_vars
    PROVE  Quiet \/ \E r \in Requests : ChooseSeat(r) \/ AddSeat(r)
<1>1. CASE MatchmakingNext
  <2>1. CASE \E r \in Requests : Request(r)
    BY <2>1, RequestQuiet
  <2>2. CASE \E p \in Leavers : Departure(p)
    BY <2>2, SweepingQuiet, LeavingQuiet, OthersQuiet DEF Departure, Actors
  <2>3. CASE LifecycleTimer
    BY <2>3, SweepingQuiet, LeavingQuiet, OthersQuiet DEF LifecycleTimer, Actors
  <2>4. CASE Researcher \/ Surroundings
    BY <2>4, SweepingQuiet, OthersQuiet DEF Researcher, Actors
  <2> QED BY <1>1, <2>1, <2>2, <2>3, <2>4 DEF MatchmakingNext
<1>2. CASE Restart
  <2>1. pc' = [x \in Actors |-> "idle"] /\ UNCHANGED storeVars
    BY <1>2 DEF Restart
  <2>2. \A x \in Actors : pc'[x] = "idle"
    BY <2>1
  <2>3. Fading /\ round' = round
    BY <2>1 DEF Fading, storeVars, tableVars, rowVars, seatVars, studyVars
  <2>4. Admin \in Actors /\ Requests \subseteq Actors
    BY DEF Actors
  <2>5. AdminKeeps
    BY <2>2, <2>4 DEF AdminKeeps
  <2>6. \A r \in Requests : pc'[r] # "add"
    BY <2>2, <2>4
  <2> QED BY <2>3, <2>5, <2>6 DEF Quiet
<1>3. CASE UNCHANGED vars
  <2>1. UNCHANGED <<rowVars, status, members, round, pc, seen, rows>>
    BY <1>3 DEF vars, actorVars, storeVars, tableVars, rowVars, seatVars, studyVars
  <2> QED BY <2>1 DEF Quiet, Fading, AdminKeeps
<1> QED BY <1>1, <1>2, <1>3, ProvisioningQuiet DEF Next

----------------------------------------------------------------------------
(***************************************************************************)
(* The session a request chooses                                           *)
(***************************************************************************)

\* Only a recruiting arm gets another session, and it gets a row of the open
\* round that did not exist before.
Opened(r) ==
    \E s \in Sessions, c \in Recruiting :
        /\ status[s] = "unused"
        /\ CreateForming(s, c)
        /\ seen'[r].session = s

LEMMA ChoiceMade ==
    ASSUME IInv, NEW r \in Requests, ChooseSeat(r)
    PROVE  /\ owner = r /\ round' = round
           /\ \A y \in Actors \ {r} :
                  pc'[y] = pc[y] /\ seen'[y] = seen[y] /\ rows'[y] = rows[y]
           /\ \/ /\ UNCHANGED tableVars
                 /\ pc'[r] = "add" => roundOf[seen'[r].session] = round
              \/ Opened(r)
<1>1. r \in Actors
  BY DEF Actors
<1>2. owner = r
  BY <1>1 DEF ChooseSeat, IInv, ChainHeld, InChain
<1>3. round' = round
  BY DEF ChooseSeat, studyVars
<1>4. \A y \in Actors \ {r} :
          pc'[y] = pc[y] /\ seen'[y] = seen[y] /\ rows'[y] = rows[y]
  BY DEF ChooseSeat, Choose, Goto, IInv, TypeOK, MatchmakingTypeOK
<1>5. PICK wanted \in {Conditions} \cup {{c} : c \in Conditions} :
        \/ /\ Forming(wanted) # {}
           /\ Choose(r, Oldest(Forming(wanted)))
           /\ UNCHANGED <<owner, tableVars>>
        \/ /\ Unused # {}
           /\ \E c \in Assignable(wanted) :
                CreateForming(Oldest(Unused), c) /\ Choose(r, Oldest(Unused))
        \/ Goto(r, "idle") /\ UNCHANGED <<seen, tableVars>>
  BY DEF ChooseSeat
<1>6. CASE Forming(wanted) # {} /\ Choose(r, Oldest(Forming(wanted))) /\ UNCHANGED tableVars
  <2> DEFINE s == Oldest(Forming(wanted))
  <2>1. s \in Forming(wanted)
    BY <1>6, FormingFound
  <2>2. roundOf[s] = round
    BY <2>1 DEF Forming
  <2> HIDE DEF s
  <2>3. seen'[r].session = s
    BY <1>1, <1>6 DEF Choose, s, IInv, TypeOK, MatchmakingTypeOK
  <2> QED BY <1>2, <1>3, <1>4, <1>6, <2>2, <2>3
<1>7. ASSUME Unused # {}, NEW c \in Assignable(wanted),
             CreateForming(Oldest(Unused), c), Choose(r, Oldest(Unused))
      PROVE  Opened(r)
  <2> DEFINE s == Oldest(Unused)
  <2>1. s \in Sessions /\ status[s] = "unused"
    BY <1>7, UnusedFound DEF Unused
  <2>2. c \in Recruiting
    BY DEF Assignable
  <2> HIDE DEF s
  <2>3. seen'[r].session = s
    BY <1>1, <1>7 DEF Choose, s, IInv, TypeOK, MatchmakingTypeOK
  <2>4. CreateForming(s, c)
    BY <1>7 DEF s
  <2> QED BY <2>1, <2>2, <2>3, <2>4 DEF Opened
<1>8. CASE Goto(r, "idle") /\ UNCHANGED <<seen, tableVars>>
  <2>1. pc'[r] = "idle"
    BY <1>1, <1>8 DEF Goto, IInv, TypeOK, MatchmakingTypeOK
  <2> QED BY <1>2, <1>3, <1>4, <1>8, <2>1
<1> QED BY <1>2, <1>3, <1>4, <1>5, <1>6, <1>7, <1>8

LEMMA SeatWritten ==
    ASSUME IInv, NEW r \in Requests, AddSeat(r)
    PROVE  /\ pc[r] = "add" /\ owner = r /\ pc'[r] # "add" /\ round' = round
           /\ \A y \in Actors \ {r} :
                  pc'[y] = pc[y] /\ seen'[y] = seen[y] /\ rows'[y] = rows[y]
           /\ UNCHANGED <<status, rowVars>>
           /\ \A s \in Sessions : members'[s] \subseteq members[s] \/ s = seen[r].session
BY DEF AddSeat, AddParticipant, Goto, IInv, TypeOK, StoreTypeOK, MatchmakingTypeOK,
       ChainHeld, InChain, studyVars, Actors

----------------------------------------------------------------------------
(***************************************************************************)
(* Goals                                                                   *)
(***************************************************************************)

LiveOf(c, k) ==
    {s \in Sessions : status[s] \in Live /\ condOf[s] = c /\ roundOf[s] = k}

\* A set of sessions is finite, and a part of it is no larger.
LEMMA SessionSets ==
    ASSUME NEW S \in SUBSET Sessions, NEW T \in SUBSET S
    PROVE  /\ IsFiniteSet(S) /\ IsFiniteSet(T)
           /\ Cardinality(S) \in Nat /\ Cardinality(T) \in Nat
           /\ Cardinality(T) <= Cardinality(S)
<1>1. IsFiniteSet(Sessions)
  BY FS_Interval, SessionStoreAssumption DEF Sessions
<1>2. IsFiniteSet(S)
  BY <1>1, FS_Subset
<1> QED BY <1>2, FS_Subset, FS_CardinalityType

\* Sessions that only fade exceed no goal.
LEMMA FadingWithinGoal ==
    ASSUME LiveWithinGoal, Fading
    PROVE  LiveWithinGoal'
<1> SUFFICES ASSUME NEW c \in Conditions, NEW k \in 1 .. MaxRounds
             PROVE  Cardinality(LiveOf(c, k)') <= Goal[c]
  BY DEF LiveWithinGoal, LiveOf
<1>1. LiveOf(c, k)' \subseteq LiveOf(c, k)
  BY DEF LiveOf, Fading, rowVars
<1>2. LiveOf(c, k) \subseteq Sessions
  BY DEF LiveOf
<1>3. Cardinality(LiveOf(c, k)) <= Goal[c]
  BY DEF LiveWithinGoal, LiveOf
<1>4. Goal[c] \in Nat
  BY SessionStoreAssumption
<1> QED BY <1>1, <1>2, <1>3, <1>4, SessionSets

\* createForming adds one session to an arm that is below its goal: the claims
\* it was counted by include every live session of the round.
LEMMA OpenedWithinGoal ==
    ASSUME IInv, LiveWithinGoal, NEW s \in Sessions, NEW d \in Recruiting,
           status[s] = "unused", CreateForming(s, d)
    PROVE  LiveWithinGoal'
<1> SUFFICES ASSUME NEW c \in Conditions, NEW k \in 1 .. MaxRounds
             PROVE  Cardinality(LiveOf(c, k)') <= Goal[c]
  BY DEF LiveWithinGoal, LiveOf
<1>1. /\ status' = [status EXCEPT ![s] = "waiting"]
      /\ condOf' = [condOf EXCEPT ![s] = d]
      /\ roundOf' = [roundOf EXCEPT ![s] = round]
  BY DEF CreateForming
<1>2. /\ status \in [Sessions -> Statuses]
      /\ condOf \in [Sessions -> Conditions]
      /\ roundOf \in [Sessions -> 0 .. MaxRounds]
  BY DEF IInv, TypeOK, StoreTypeOK
<1>3. Goal[c] \in Nat /\ LiveOf(c, k) \subseteq Sessions
      /\ Cardinality(LiveOf(c, k)) <= Goal[c]
  BY SessionStoreAssumption DEF LiveWithinGoal, LiveOf
<1>4. CASE c = d /\ k = round
  <2>1. LiveOf(c, k) \subseteq Claimed(c) /\ Claimed(c) \subseteq Sessions
    BY <1>4 DEF LiveOf, Claimed, Live
  <2>2. Cardinality(Claimed(c)) < Goal[c]
    BY <1>4 DEF Recruiting
  <2>3. Cardinality(LiveOf(c, k)) < Goal[c]
    BY <1>3, <2>1, <2>2, SessionSets
  <2>4. LiveOf(c, k)' \subseteq LiveOf(c, k) \cup {s}
    BY <1>1, <1>2 DEF LiveOf
  <2>5. IsFiniteSet(LiveOf(c, k)) /\ Cardinality(LiveOf(c, k)) \in Nat
    BY <1>3, SessionSets
  <2>6. Cardinality(LiveOf(c, k) \cup {s}) <= Cardinality(LiveOf(c, k)) + 1
    BY <2>5, FS_AddElement
  <2>7. Cardinality(LiveOf(c, k)') <= Cardinality(LiveOf(c, k) \cup {s})
        /\ Cardinality(LiveOf(c, k)') \in Nat /\ Cardinality(LiveOf(c, k) \cup {s}) \in Nat
    BY <1>3, <2>4, SessionSets
  <2> QED BY <1>3, <2>3, <2>5, <2>6, <2>7
<1>5. CASE ~ (c = d /\ k = round)
  <2>1. LiveOf(c, k)' \subseteq LiveOf(c, k)
    BY <1>1, <1>2, <1>5 DEF LiveOf
  <2> QED BY <1>3, <2>1, SessionSets
<1> QED BY <1>4, <1>5

----------------------------------------------------------------------------
(***************************************************************************)
(* The invariant                                                           *)
(***************************************************************************)

LEMMA QuietKeeps ==
    ASSUME RoundInv, Quiet
    PROVE  ChosenInRound' /\ LobbiesClosed' /\ LiveWithinGoal'
<1>1. LiveWithinGoal'
  BY FadingWithinGoal DEF RoundInv, Quiet
<1>2. ChosenInRound'
  <2> SUFFICES ASSUME NEW r \in Requests, pc'[r] = "add"
               PROVE  roundOf'[seen'[r].session] = round'
    BY DEF ChosenInRound
  <2>1. pc[r] = "add" /\ seen'[r] = seen[r] /\ roundOf' = roundOf
    BY DEF Quiet, Fading, rowVars
  <2>2. owner = r /\ r # Admin
    BY <2>1, MatchmakingAssumption DEF RoundInv, IInv, ChainHeld, InChain, Actors
  <2>3. round' = round
    BY <2>2 DEF Quiet, RoundInv, IInv, ChainHeld, InChain, Actors
  <2> QED BY <2>1, <2>3 DEF RoundInv, ChosenInRound
<1>3. LobbiesClosed'
  <2>1. Lobbies' \subseteq Lobbies
    BY DEF Lobbies, Quiet, Fading
  <2>2. CASE pc'[Admin] \notin {"sweep", "newRound"}
    BY <2>2 DEF LobbiesClosed
  <2>3. CASE pc'[Admin] = pc[Admin] /\ rows'[Admin] = rows[Admin]
    BY <2>1, <2>3 DEF RoundInv, LobbiesClosed
  <2>4. CASE AbortRow(Admin)
    <3>1. PICK s \in rows[Admin] :
            /\ rows' = [rows EXCEPT ![Admin] = @ \ {s}]
            /\ IF status[s] = "waiting" THEN SetStatus(s, "aborted") ELSE UNCHANGED tableVars
      BY <2>4 DEF AbortRow, StillAbortable
    <3>2. pc' = pc /\ pc[Admin] = "sweep"
      BY <2>4 DEF AbortRow
    <3>3. rows'[Admin] = rows[Admin] \ {s} /\ s \in Sessions
      BY <3>1 DEF RoundInv, IInv, TypeOK, MatchmakingTypeOK, Actors
    <3>4. status'[s] # "waiting"
      BY <3>1, <3>3 DEF SetStatus, tableVars, RoundInv, IInv, TypeOK, StoreTypeOK
    <3>5. s \notin Lobbies'
      BY <3>4 DEF Lobbies
    <3> QED BY <2>1, <3>2, <3>3, <3>5 DEF RoundInv, LobbiesClosed
  <2>5. CASE SweepDone(Admin)
    <3>1. pc[Admin] = "sweep" /\ rows[Admin] = {}
      BY <2>5 DEF SweepDone
    <3>2. Lobbies' = {}
      BY <2>1, <3>1 DEF RoundInv, LobbiesClosed
    <3> QED BY <3>2 DEF LobbiesClosed
  <2>6. CASE StartRound
    <3>1. rows'[Admin] = Lobbies /\ pc'[Admin] = "sweep"
      BY <2>6 DEF StartRound, Goto, RoundInv, IInv, TypeOK, MatchmakingTypeOK, Actors
    <3> QED BY <2>1, <3>1 DEF LobbiesClosed
  <2> QED BY <2>2, <2>3, <2>4, <2>5, <2>6 DEF Quiet, AdminKeeps
<1> QED BY <1>1, <1>2, <1>3

\* The actor that holds the chain is alone in it.
LEMMA OthersOutside ==
    ASSUME IInv, NEW r \in Requests, owner = r
    PROVE  /\ pc[Admin] \notin {"sweep", "newRound"}
           /\ \A y \in Requests \ {r} : pc[y] # "add"
BY MatchmakingAssumption DEF IInv, ChainHeld, InChain, Actors

LEMMA ChooseSeatKeeps ==
    ASSUME RoundInv, NEW r \in Requests, ChooseSeat(r)
    PROVE  ChosenInRound' /\ LobbiesClosed' /\ LiveWithinGoal'
<1>1. /\ owner = r /\ round' = round
      /\ \A y \in Actors \ {r} :
             pc'[y] = pc[y] /\ seen'[y] = seen[y] /\ rows'[y] = rows[y]
      /\ \/ UNCHANGED tableVars /\ (pc'[r] = "add" => roundOf[seen'[r].session] = round)
         \/ Opened(r)
  BY ChoiceMade DEF RoundInv
<1>2. /\ pc[Admin] \notin {"sweep", "newRound"}
      /\ \A y \in Requests \ {r} : pc[y] # "add"
  BY <1>1, OthersOutside DEF RoundInv
<1>3. LobbiesClosed'
  BY <1>1, <1>2, MatchmakingAssumption DEF LobbiesClosed, Actors
<1>4. pc'[r] = "add" => roundOf'[seen'[r].session] = round
  <2>1. ASSUME Opened(r) PROVE roundOf'[seen'[r].session] = round
    BY <2>1 DEF Opened, CreateForming, RoundInv, IInv, TypeOK, StoreTypeOK
  <2> QED BY <1>1, <2>1 DEF tableVars, rowVars
<1>5. ChosenInRound'
  BY <1>1, <1>2, <1>4 DEF ChosenInRound, Actors
<1>6. LiveWithinGoal'
  <2>1. CASE UNCHANGED tableVars
    BY <2>1 DEF RoundInv, LiveWithinGoal, tableVars, rowVars
  <2>2. CASE Opened(r)
    BY <2>2, OpenedWithinGoal DEF RoundInv, Opened
  <2> QED BY <1>1, <2>1, <2>2
<1> QED BY <1>3, <1>5, <1>6

LEMMA AddSeatKeeps ==
    ASSUME RoundInv, NEW r \in Requests, AddSeat(r)
    PROVE  ChosenInRound' /\ LobbiesClosed' /\ LiveWithinGoal'
<1>1. /\ owner = r /\ pc'[r] # "add" /\ round' = round
      /\ \A y \in Actors \ {r} :
             pc'[y] = pc[y] /\ seen'[y] = seen[y] /\ rows'[y] = rows[y]
      /\ UNCHANGED <<status, rowVars>>
  BY SeatWritten DEF RoundInv
<1>2. /\ pc[Admin] \notin {"sweep", "newRound"}
      /\ \A y \in Requests \ {r} : pc[y] # "add"
  BY <1>1, OthersOutside DEF RoundInv
<1>3. ChosenInRound' /\ LobbiesClosed'
  BY <1>1, <1>2, MatchmakingAssumption DEF ChosenInRound, LobbiesClosed, Actors
<1>4. LiveWithinGoal'
  BY <1>1 DEF RoundInv, LiveWithinGoal, rowVars
<1> QED BY <1>3, <1>4

LEMMA InitRound == Init => RoundInv
<1> SUFFICES ASSUME Init PROVE RoundInv
  OBVIOUS
<1>1. IInv
  BY InitHolds
<1>2. ChosenInRound /\ LobbiesClosed
  BY DEF Init, MatchmakingInit, ChosenInRound, LobbiesClosed, Actors
<1>3. LiveWithinGoal
  <2> SUFFICES ASSUME NEW c \in Conditions, NEW k \in 1 .. MaxRounds
               PROVE  Cardinality(LiveOf(c, k)) <= Goal[c]
    BY DEF LiveWithinGoal, LiveOf
  <2>1. LiveOf(c, k) = {}
    BY DEF LiveOf, Init, StoreInit, Live
  <2>2. Goal[c] \in Nat
    BY SessionStoreAssumption
  <2> QED BY <2>1, <2>2, FS_EmptySet
<1> QED BY <1>1, <1>2, <1>3 DEF RoundInv

LEMMA RoundStep == RoundInv /\ [Next]_vars => RoundInv'
<1> SUFFICES ASSUME RoundInv, [Next]_vars PROVE RoundInv'
  OBVIOUS
<1>1. IInv
  BY DEF RoundInv
<1>2. IInv'
  BY <1>1, NextStep
<1>3. Quiet \/ \E r \in Requests : ChooseSeat(r) \/ AddSeat(r)
  BY <1>1, StepQuiet
<1> QED BY <1>2, <1>3, QuietKeeps, ChooseSeatKeeps, AddSeatKeeps DEF RoundInv

----------------------------------------------------------------------------
(***************************************************************************)
(* The results                                                             *)
(***************************************************************************)

\* The round is the same from the choice of a session to the seat in it, and
\* no lobby opens between the abort of the old ones and the new round.
THEOREM RoundInvariance == Spec => []RoundInv
BY InitRound, RoundStep, PTL DEF Spec

\* Recruiting (countClaimed, then createForming) never exceeds an arm's goal in
\* a round, however many requests arrive at once.
THEOREM GoalRespected == Spec => []LiveWithinGoal
<1>1. RoundInv => LiveWithinGoal
  BY DEF RoundInv
<1> QED BY <1>1, RoundInvariance, PTL

\* addParticipant only ever seats somebody in a session of the open round.
THEOREM NoSeatAcrossRounds == Spec => SeatsInOpenRound
<1>1. RoundInv /\ [Next]_vars =>
        [\A s \in Sessions : members'[s] \subseteq members[s] \/ roundOf[s] = round]_vars
  <2> SUFFICES ASSUME RoundInv, [Next]_vars, NEW s \in Sessions
               PROVE  members'[s] \subseteq members[s] \/ roundOf[s] = round
    OBVIOUS
  <2>1. IInv
    BY DEF RoundInv
  <2>2. CASE Quiet
    BY <2>2 DEF Quiet, Fading
  <2>3. ASSUME NEW r \in Requests, ChooseSeat(r) PROVE members'[s] \subseteq members[s]
    BY <2>3 DEF ChooseSeat, CreateForming, tableVars, seatVars
  <2>4. ASSUME NEW r \in Requests, AddSeat(r)
        PROVE  members'[s] \subseteq members[s] \/ roundOf[s] = round
    BY <2>1, <2>4, SeatWritten DEF RoundInv, ChosenInRound
  <2> QED BY <2>1, <2>2, <2>3, <2>4, StepQuiet
<1> QED BY <1>1, RoundInvariance, PTL DEF Spec, SeatsInOpenRound

\* startStudyRound switches the round when the last lobby of the old one is
\* aborted, and no join has opened another one meanwhile.
THEOREM NoLobbyLeftBehind == Spec => RoundStartsClean
<1>1. RoundInv /\ [Next]_vars =>
        [round' # round => \A s \in Sessions : status[s] # "waiting"]_vars
  <2> SUFFICES ASSUME RoundInv, [Next]_vars, round' # round
               PROVE  \A s \in Sessions : status[s] # "waiting"
    OBVIOUS
  <2>1. IInv
    BY DEF RoundInv
  <2>2. pc[Admin] = "newRound"
    BY <2>1, StepQuiet, ChoiceMade, SeatWritten DEF Quiet
  <2> QED BY <2>2 DEF RoundInv, LobbiesClosed, Lobbies
<1> QED BY <1>1, RoundInvariance, PTL DEF Spec, RoundStartsClean
=============================================================================
