----------------------------- MODULE Matchmaking -----------------------------
(***************************************************************************)
(* Seat assignment in the Session Manager (SessionsService).               *)
(*                                                                         *)
(* Four kinds of actor work on the session table: an HTTP request that     *)
(* opens a session, a Prolific participant's withdrawal request, the       *)
(* five-second lifecycle timer, and the researcher who starts a round.     *)
(* matchmakingChain serialises one critical section of each (`owner` holds *)
(* it); the timer's sweep of expired lobbies and the credential work of a  *)
(* request run outside it.  Every step of an actor is one database         *)
(* statement, so everything between two awaits of the code can interleave. *)
(***************************************************************************)
EXTENDS SessionStore

CONSTANTS
    Requests,     \* open-session requests in flight at once (browser tabs)
    Of,           \* [Requests -> Participants]: whose request it is
    Leavers,      \* Prolific participants who may withdraw
    Droppers,     \* Prolific participants whose browser may fall silent
    Pausable,     \* arms the researcher may switch off and on
    Expiring,     \* sessions whose waiting deadline may pass
    Timer, Admin, \* the lifecycle timer and the researcher
    Nobody        \* the holder of a free matchmaking chain

Actors == Requests \cup Leavers \cup {Timer, Admin}

ASSUME MatchmakingAssumption ==
    /\ Of \in [Requests -> Participants]
    /\ Leavers \subseteq Prolific
    /\ Droppers \subseteq Prolific
    /\ Pausable \subseteq Conditions
    /\ Expiring \subseteq Sessions
    /\ Requests \cap Leavers = {}
    /\ Timer \notin Requests \cup Leavers
    /\ Admin \notin Requests \cup Leavers \cup {Timer}
    /\ Nobody \notin Actors \cup Participants

VARIABLES
    owner,    \* the actor inside the matchmaking chain
    pc,       \* [Actors -> Stages]
    seen,     \* [Actors -> the seat it read: whose, in which session, and the
              \* session's status AT THAT READ]
    rows,     \* [Actors -> lobbies its abort query selected, still to update]
    todo,     \* [Actors -> lobbies it aborted, roster not read yet]
    roster,   \* [Actors -> members of such a lobby still to be terminated]
    victims   \* submissions the timer's stale scan returned, still to claim

actorVars == <<owner, pc, seen, rows, todo, roster, victims>>

Stages ==
    {"idle",
     "open",     \* outcome checked, waiting for the chain
     "sweep",    \* aborting lobbies and terminating their members
     "lookup",   \* looking for a seat
     "add",      \* a session was chosen, the seat is not written yet
     "access",   \* seated, Matrix credentials not stored yet
     "leave",    \* outcome written, the seat not released yet
     "remove",   \* the removal saw a waiting lobby, delete not executed yet
     "stale",    \* timer: expired lobbies done, waiting for the chain
     "victims",  \* timer: claiming silent submissions
     "newRound"} \* admin: lobbies aborted, round not switched yet

NoSeat == [who |-> Nobody, session |-> NoSession, status |-> "unused"]
SeatReads ==
    [who : Participants \cup {Nobody}, session : Sessions \cup {NoSession},
     status : Statuses]

MatchmakingTypeOK ==
    /\ owner \in Actors \cup {Nobody}
    /\ pc \in [Actors -> Stages]
    /\ seen \in [Actors -> SeatReads]
    /\ rows \in [Actors -> SUBSET Sessions]
    /\ todo \in [Actors -> SUBSET Sessions]
    /\ roster \in [Actors -> SUBSET Prolific]
    /\ victims \subseteq Prolific

MatchmakingInit ==
    /\ owner = Nobody
    /\ pc = [a \in Actors |-> "idle"]
    /\ seen = [a \in Actors |-> NoSeat]
    /\ rows = [a \in Actors |-> {}]
    /\ todo = [a \in Actors |-> {}]
    /\ roster = [a \in Actors |-> {}]
    /\ victims = {}

----------------------------------------------------------------------------
(***************************************************************************)
(* Control flow shared by the actors                                       *)
(***************************************************************************)

\* Seeded bug: operations do not wait for one another.
EnterUnserialised(a) == owner' = a

\* The chain runs one operation at a time.
Enter(a) == owner = Nobody /\ owner' = a
Leave == owner' = Nobody

Goto(a, stage) == pc' = [pc EXCEPT ![a] = stage]

SeatIn(s, p) == [who |-> p, session |-> s, status |-> status[s]]

\* What a lookup of a Prolific submission's one seat returns.
Seat(p) == IF SeatsOf(p) = {} THEN NoSeat ELSE SeatIn(Oldest(SeatsOf(p)), p)

\* What follows once the aborted lobbies are dealt with.
AfterSweep(a) ==
    CASE a \in Requests -> "lookup"
      [] a \in Leavers  -> "idle"
      [] a = Admin      -> "newRound"
      [] a = Timer      -> IF owner = Timer THEN "victims" ELSE "stale"

\* A departed participant's seat is dealt with: a withdrawal is over, the
\* timer goes on to its next victim inside the chain.
Departed(a) ==
    /\ Goto(a, IF a = Timer THEN "victims" ELSE "idle")
    /\ owner' = IF a = Timer THEN owner ELSE Nobody
    /\ seen' = [seen EXCEPT ![a] = NoSeat]

(***************************************************************************)
(* Aborting lobbies: abortLobbies selects rows, updates each one if it     *)
(* still qualifies, and only then terminateSessionParticipants reads each  *)
(* roster and ends its Prolific members one by one.                        *)
(***************************************************************************)

\* Seeded bug: the deadline only closes lobbies, not hanging provisionings.
StillAbortableLobby(a, s) == status[s] = "waiting" /\ (a = Admin \/ overdue[s])

StillAbortable(a, s) ==
    IF a = Admin THEN status[s] = "waiting"
                 ELSE status[s] \in Unstarted /\ overdue[s]

AbortRow(a) ==
    /\ pc[a] = "sweep"
    /\ \E s \in rows[a] :
        /\ rows' = [rows EXCEPT ![a] = @ \ {s}]
        /\ IF StillAbortable(a, s)
           THEN /\ SetStatus(s, "aborted")
                /\ todo' = [todo EXCEPT ![a] = @ \cup {s}]
           ELSE UNCHANGED <<tableVars, todo>>
    /\ UNCHANGED <<owner, pc, seen, roster, victims, studyVars, outcomeVars>>

\* Seeded bug: direct participants are given a Prolific outcome as well.
ReadWholeRoster(a) ==
    /\ pc[a] = "sweep"
    /\ rows[a] = {} /\ roster[a] = {}
    /\ \E s \in todo[a] :
        /\ todo' = [todo EXCEPT ![a] = @ \ {s}]
        /\ roster' = [roster EXCEPT ![a] = members[s]]
    /\ UNCHANGED <<owner, pc, seen, rows, victims, storeVars>>

ReadRoster(a) ==
    /\ pc[a] = "sweep"
    /\ rows[a] = {} /\ roster[a] = {}
    /\ \E s \in todo[a] :
        /\ todo' = [todo EXCEPT ![a] = @ \ {s}]
        /\ roster' = [roster EXCEPT ![a] = members[s] \cap Prolific]
    /\ UNCHANGED <<owner, pc, seen, rows, victims, storeVars>>

TerminateMember(a) ==
    /\ pc[a] = "sweep"
    /\ \E p \in roster[a] :
        /\ roster' = [roster EXCEPT ![a] = @ \ {p}]
        /\ ended' = ended \cup {p}
    /\ UNCHANGED <<owner, pc, seen, rows, todo, victims, tableVars, studyVars, silent>>

SweepDone(a) ==
    /\ pc[a] = "sweep"
    /\ rows[a] = {} /\ todo[a] = {} /\ roster[a] = {}
    /\ Goto(a, AfterSweep(a))
    /\ owner' = IF a \in Leavers THEN Nobody ELSE owner
    /\ seen' = [seen EXCEPT ![a] = NoSeat]
    /\ UNCHANGED <<rows, todo, roster, victims, storeVars>>

----------------------------------------------------------------------------
(***************************************************************************)
(* Opening a session                                                       *)
(***************************************************************************)

\* The outcome check and the "waiting" heartbeat, before the chain.
OpenSession(r) ==
    /\ pc[r] = "idle"
    /\ Of[r] \notin ended
    /\ silent' = silent \ {Of[r]}
    /\ Goto(r, "open")
    /\ UNCHANGED <<owner, seen, rows, todo, roster, victims, tableVars, studyVars, ended>>

\* reserveSeat enters the chain and sweeps the expired lobbies first.
ReserveSeat(r) ==
    /\ pc[r] = "open"
    /\ Enter(r)
    /\ rows' = [rows EXCEPT ![r] = Expired]
    /\ Goto(r, "sweep")
    /\ UNCHANGED <<seen, todo, roster, victims, storeVars>>

\* A participant who already holds a seat gets it back; a Prolific one whose
\* session was aborted is refused.  A direct one can have several seats, after
\* "completed" was written over an aborted session; the newest seat is taken,
\* whose session may be any of them.
ReturnSeat(r) ==
    /\ pc[r] = "lookup"
    /\ Leave
    /\ \E s \in SeatsOf(Of[r]) :
        IF status[s] = "aborted"
        THEN Goto(r, "idle") /\ UNCHANGED seen
        ELSE Goto(r, "access") /\ seen' = [seen EXCEPT ![r] = SeatIn(s, Of[r])]
    /\ UNCHANGED <<rows, todo, roster, victims, storeVars>>

\* Without an explicit condition any recruiting arm with the fewest claimed
\* sessions is taken; an explicit one must itself be recruiting.
Assignable(wanted) ==
    LET open == Recruiting \cap wanted
        claims(c) == Cardinality(Claimed(c))
    IN IF wanted = Conditions
       THEN {c \in open : \A d \in open : claims(c) <= claims(d)}
       ELSE open

Choose(r, s) ==
    /\ seen' = [seen EXCEPT ![r] = [who |-> Of[r], session |-> s, status |-> "waiting"]]
    /\ Goto(r, "add")

ChooseSeat(r) ==
    /\ pc[r] = "lookup"
    /\ SeatsOf(Of[r]) = {}
    /\ \E wanted \in {Conditions} \cup {{c} : c \in Conditions} :
        \/ /\ Forming(wanted) # {}
           /\ Choose(r, Oldest(Forming(wanted)))
           /\ UNCHANGED <<owner, tableVars>>
        \/ /\ Forming(wanted) = {}
           /\ Unused # {}
           /\ \E c \in Assignable(wanted) :
                CreateForming(Oldest(Unused), c) /\ Choose(r, Oldest(Unused))
           /\ UNCHANGED owner
        \/ /\ Forming(wanted) = {}   \* 409, or the bound on rows is reached
           /\ Assignable(wanted) = {} \/ Unused = {}
           /\ Goto(r, "idle") /\ Leave
           /\ UNCHANGED <<seen, tableVars>>
    /\ UNCHANGED <<rows, todo, roster, victims, studyVars, outcomeVars>>

AddSeat(r) ==
    /\ pc[r] = "add"
    /\ AddParticipant(seen[r].session, Of[r])
    /\ Goto(r, "access")
    /\ Leave
    /\ UNCHANGED <<seen, rows, todo, roster, victims, studyVars, outcomeVars>>

\* ensureParticipantAccess stores the credentials, or the registration fails
\* and a later request tries again.
GrantAccess(r) ==
    /\ pc[r] = "access"
    /\ SetCreds(seen[r].session, Of[r]) \/ UNCHANGED tableVars
    /\ seen' = [seen EXCEPT ![r] = NoSeat]
    /\ Goto(r, "idle")
    /\ UNCHANGED <<owner, rows, todo, roster, victims, studyVars, outcomeVars>>

----------------------------------------------------------------------------
(***************************************************************************)
(* Giving up a seat                                                        *)
(***************************************************************************)

\* terminateParticipation enters the chain, reads the seat and its status and
\* writes the outcome; only then does it release the seat it read.
Withdraw(p) ==
    /\ pc[p] = "idle"
    /\ Enter(p)
    /\ seen' = [seen EXCEPT ![p] = Seat(p)]
    /\ ended' = ended \cup {p}
    /\ Goto(p, "leave")
    /\ UNCHANGED <<rows, todo, roster, victims, tableVars, studyVars, silent>>

\* The timer: runLifecycleSweep starts with the expired lobbies, outside the
\* chain.
TimerTick ==
    /\ pc[Timer] = "idle"
    /\ rows' = [rows EXCEPT ![Timer] = Expired]
    /\ Goto(Timer, "sweep")
    /\ UNCHANGED <<owner, seen, todo, roster, victims, storeVars>>

\* Seeded bug: only seated participants can be found stale.
ListStaleSeated ==
    /\ pc[Timer] = "stale"
    /\ Enter(Timer)
    /\ victims' = {p \in silent \ ended : SeatsOf(p) # {}}
    /\ Goto(Timer, "victims")
    /\ UNCHANGED <<seen, rows, todo, roster, storeVars>>

\* sweepDisconnectedParticipants enters the chain and lists the stale ones.
ListStale ==
    /\ pc[Timer] = "stale"
    /\ Enter(Timer)
    /\ victims' = silent \ ended
    /\ Goto(Timer, "victims")
    /\ UNCHANGED <<seen, rows, todo, roster, storeVars>>

\* terminateStaleProlificParticipation rechecks the heartbeat; a submission
\* that came back or ended meanwhile is skipped.
ClaimVictim ==
    /\ pc[Timer] = "victims"
    /\ \E p \in victims :
        /\ victims' = victims \ {p}
        /\ IF p \in silent \ ended
           THEN /\ ended' = ended \cup {p}
                /\ seen' = [seen EXCEPT ![Timer] = Seat(p)]
                /\ Goto(Timer, "leave")
           ELSE UNCHANGED <<ended, seen, pc>>
    /\ UNCHANGED <<owner, rows, todo, roster, tableVars, studyVars, silent>>

\* Seeded bug: the timer looks for the next victims without leaving the chain.
StaleRescan ==
    /\ pc[Timer] = "victims"
    /\ victims = {}
    /\ victims' = silent \ ended
    /\ UNCHANGED <<owner, pc, seen, rows, todo, roster, storeVars>>

StaleDone ==
    /\ pc[Timer] = "victims"
    /\ victims = {}
    /\ Leave
    /\ Goto(Timer, "idle")
    /\ UNCHANGED <<seen, rows, todo, roster, victims, storeVars>>

\* leaveSession branches on the status read BEFORE the outcome was written.
\* A started or ended session keeps its roster; only room access is revoked.
LeaveStarted(a) ==
    /\ pc[a] = "leave"
    /\ seen[a].status \notin Unstarted
    /\ Departed(a)
    /\ UNCHANGED <<rows, todo, roster, victims, storeVars>>

\* removeParticipantFromWaitingSession first rereads the status and gives up
\* silently if the lobby is no longer waiting.
LeaveLobby(a) ==
    /\ pc[a] = "leave"
    /\ seen[a].status = "waiting"
    /\ IF status[seen[a].session] = "waiting"
       THEN Goto(a, "remove") /\ UNCHANGED <<owner, seen>>
       ELSE Departed(a)
    /\ UNCHANGED <<rows, todo, roster, victims, storeVars>>

RemoveSeat(a) ==
    /\ pc[a] = "remove"
    /\ RemoveParticipant(seen[a].session, seen[a].who)
    /\ Departed(a)
    /\ UNCHANGED <<rows, todo, roster, victims, studyVars, outcomeVars>>

\* Updates the lifecycle unconditionally and terminates the whole group.
LeaveProvisioning(a) ==
    /\ pc[a] = "leave"
    /\ seen[a].status = "provisioning"
    /\ SetStatus(seen[a].session, "aborted")
    /\ todo' = [todo EXCEPT ![a] = {seen[a].session}]
    /\ Goto(a, "sweep")
    /\ UNCHANGED <<owner, seen, rows, roster, victims, studyVars, outcomeVars>>

----------------------------------------------------------------------------
(***************************************************************************)
(* Study rounds                                                            *)
(***************************************************************************)

\* Seeded bug: a round starts without waiting for the matchmaking chain.
StartRoundUnserialised ==
    /\ pc[Admin] = "idle"
    /\ round < MaxRounds
    /\ rows' = [rows EXCEPT ![Admin] = Lobbies]
    /\ Goto(Admin, "sweep")
    /\ UNCHANGED <<owner, seen, todo, roster, victims, storeVars>>

StartRound ==
    /\ pc[Admin] = "idle"
    /\ round < MaxRounds
    /\ Enter(Admin)
    /\ rows' = [rows EXCEPT ![Admin] = Lobbies]
    /\ Goto(Admin, "sweep")
    /\ UNCHANGED <<seen, todo, roster, victims, storeVars>>

StartNewRound ==
    /\ pc[Admin] = "newRound"
    /\ round' = round + 1
    /\ Leave
    /\ Goto(Admin, "idle")
    /\ UNCHANGED <<seen, rows, todo, roster, victims, tableVars, active, outcomeVars>>

----------------------------------------------------------------------------
Sweeping(a) == AbortRow(a) \/ ReadRoster(a) \/ TerminateMember(a) \/ SweepDone(a)

Leaving(a) ==
    LeaveStarted(a) \/ LeaveLobby(a) \/ RemoveSeat(a) \/ LeaveProvisioning(a)

Request(r) ==
    \/ OpenSession(r) \/ ReserveSeat(r) \/ Sweeping(r)
    \/ ReturnSeat(r) \/ ChooseSeat(r) \/ AddSeat(r) \/ GrantAccess(r)

Departure(p) == Withdraw(p) \/ Leaving(p) \/ Sweeping(p)

LifecycleTimer ==
    \/ TimerTick \/ Sweeping(Timer) \/ ListStale \/ ClaimVictim \/ StaleDone
    \/ Leaving(Timer)

Researcher == StartRound \/ Sweeping(Admin) \/ StartNewRound

\* The browsers, the clock and the researcher's switch.  The cutoff of a stale
\* scan is fixed when the sweep starts: a victim that came back meanwhile is
\* not silent for this sweep again.
Surroundings ==
    /\ \/ \E s \in Expiring : DeadlinePasses(s)
       \/ \E p \in Droppers : p \notin victims /\ FallSilent(p)
       \/ \E p \in Droppers : Heartbeat(p)
       \/ \E c \in Pausable : ToggleCondition(c)
    /\ UNCHANGED actorVars

MatchmakingNext ==
    \/ \E r \in Requests : Request(r)
    \/ \E p \in Leavers : Departure(p)
    \/ LifecycleTimer
    \/ Researcher
    \/ Surroundings
=============================================================================
