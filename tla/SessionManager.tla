--------------------------- MODULE SessionManager ---------------------------
(***************************************************************************)
(* The session lifecycle of the Session Manager: seat assignment and room  *)
(* provisioning over one session table, and restarts of the process.       *)
(***************************************************************************)
EXTENDS Matchmaking, Provisioning

CONSTANT MayRestart     \* BOOLEAN: whether the process may crash and restart

ASSUME RestartAssumption == MayRestart \in BOOLEAN

vars == <<storeVars, actorVars, provisionVars>>

TypeOK == StoreTypeOK /\ MatchmakingTypeOK /\ ProvisioningTypeOK

Init == StoreInit /\ MatchmakingInit /\ ProvisioningInit

\* A restart keeps the database and loses every promise in flight: requests,
\* the matchmaking chain, provisioning attempts, unfinished completions.  The
\* Chat Service lives in another process and keeps its runtimes.
Restart ==
    /\ MayRestart
    /\ owner' = Nobody
    /\ pc' = [a \in Actors |-> "idle"]
    /\ seen' = [a \in Actors |-> NoSeat]
    /\ rows' = [a \in Actors |-> {}]
    /\ todo' = [a \in Actors |-> {}]
    /\ roster' = [a \in Actors |-> {}]
    /\ victims' = {}
    /\ stage' = [s \in Sessions |-> "idle"]
    /\ completing' = [s \in Sessions |-> FALSE]
    /\ UNCHANGED <<chat, storeVars>>

Next ==
    \/ MatchmakingNext /\ UNCHANGED provisionVars
    \/ ProvisioningNext /\ UNCHANGED actorVars
    \/ Restart

Spec == Init /\ [][Next]_vars

----------------------------------------------------------------------------
(***************************************************************************)
(* Safety                                                                  *)
(***************************************************************************)

Live == {"waiting", "provisioning", "running"}

\* A group never holds more participants than its condition asks for: the
\* free seat found in one statement is still free when the seat is written
\* in another (findForming, then addParticipant), whoever else is joining,
\* leaving or expiring lobbies meanwhile.
GroupWithinSize ==
    \A s \in Sessions : Cardinality(members[s]) <= GroupSize[condOf[s]]

\* Concurrent tabs of one person never claim two seats: nobody sits in two
\* live sessions, and a Prolific submission sits in one session for ever,
\* the rule behind the unique index on the participant table.
OneSeat ==
    \A p \in Participants :
        /\ Cardinality({s \in Sessions : p \in members[s] /\ status[s] \in Live}) <= 1
        /\ p \in Prolific => Cardinality({s \in Sessions : p \in members[s]}) <= 1

\* Recruiting stops at the goal: the live sessions of an arm in one round
\* never exceed it, although each joiner only counts rows and then creates one.
LiveWithinGoal ==
    \A c \in Conditions, r \in 1 .. MaxRounds :
        Cardinality({s \in Sessions : /\ status[s] \in Live
                                      /\ condOf[s] = c
                                      /\ roundOf[s] = r}) <= Goal[c]

\* A session that ended never becomes live again, whatever provisioning
\* attempt is still running ("without resurrecting an aborted session").
EndedStaysEnded ==
    [][\A s \in Sessions :
        status[s] \in {"completed", "aborted"} => status'[s] \notin Live]_vars

\* A seat is only ever written into a lobby of the round that is open at that
\* moment, so no group mixes participants across rounds (doStartRound).
SeatsInOpenRound ==
    [][\A s \in Sessions : members'[s] \subseteq members[s] \/ roundOf[s] = round]_vars

\* A round starts only when no lobby of an earlier round is still waiting for
\* participants.
RoundStartsClean ==
    [][round' # round => \A s \in Sessions : status[s] # "waiting"]_vars

(***************************************************************************)
(* The inductive invariant behind GroupWithinSize, OneSeat and the         *)
(* refinement: what the chain, and what an actor has read, still guarantee *)
(* when the actor writes.                                                  *)
(***************************************************************************)

SeatsFinite == \A s \in Sessions : IsFiniteSet(members[s])

\* Nothing refers to a session before it is created.
UnusedUntouched ==
    \A s \in Sessions :
        status[s] = "unused" =>
            members[s] = {} /\ stage[s] = "idle" /\ ~ chat[s] /\ ~ completing[s]

\* A seat somebody read is a seat in a session that exists.
SeenExists ==
    \A x \in Actors :
        seen[x].status # "unused" =>
            seen[x].session \in Sessions /\ status[seen[x].session] # "unused"

InChain(x) ==
    \/ x \in Requests /\ pc[x] \in {"sweep", "lookup", "add"}
    \/ x \in Leavers /\ pc[x] \in {"leave", "remove", "sweep"}
    \/ x = Timer /\ pc[x] \in {"victims", "leave", "remove"}
    \/ x = Admin /\ pc[x] \in {"sweep", "newRound"}

ChainHeld == \A x \in Actors : InChain(x) => owner = x

Over == {"completed", "aborted"}

\* The seat a request chose is still free, and its participant still has no
\* other claim, when the request comes to write it.
SeatStillFree ==
    \A r \in Requests :
        pc[r] = "add" =>
            /\ seen[r].status = "waiting"
            /\ Cardinality(members[seen[r].session]) < GroupSize[condOf[seen[r].session]]
            /\ \A s \in Sessions :
                Of[r] \in members[s] => Of[r] \notin Prolific /\ status[s] \in Over

RemovalSawLobby ==
    \A x \in Actors : pc[x] = "remove" => seen[x].status = "waiting"

\* The bound on rounds is checked before the lobbies of the old one are aborted.
RoundLeft == pc[Admin] \in {"sweep", "newRound"} => round < MaxRounds

OneClaim ==
    \A p \in Participants, s, t \in Sessions :
        p \in members[s] /\ p \in members[t] /\ s # t =>
            p \notin Prolific /\ (status[s] \in Over \/ status[t] \in Over)

\* The conjunction: it holds initially, every step keeps it, and it implies the
\* invariants above.
IInv ==
    /\ TypeOK
    /\ SeatsFinite
    /\ UnusedUntouched
    /\ SeenExists
    /\ ChainHeld
    /\ SeatStillFree
    /\ RemovalSawLobby
    /\ RoundLeft
    /\ GroupWithinSize
    /\ OneClaim

(***************************************************************************)
(* What it needs besides for the three properties about goals and rounds:  *)
(* the round does not change under a request that has chosen a session,    *)
(* nor does a lobby open under a researcher who closes them.               *)
(***************************************************************************)

ChosenInRound ==
    \A r \in Requests : pc[r] = "add" => roundOf[seen[r].session] = round

LobbiesClosed ==
    /\ pc[Admin] = "sweep" => Lobbies \subseteq rows[Admin]
    /\ pc[Admin] = "newRound" => Lobbies = {}

RoundInv == IInv /\ ChosenInRound /\ LobbiesClosed /\ LiveWithinGoal

(***************************************************************************)
(* The refinement                                                          *)
(***************************************************************************)

PhaseOf(st) ==
    CASE st = "unused" -> "none"
      [] st \in Live   -> "live"
      [] OTHER         -> "over"

Formation ==
    INSTANCE GroupFormation WITH
        People   <- Participants,
        OnceOnly <- Prolific,
        Groups   <- Sessions,
        Sizes    <- {GroupSize[c] : c \in Conditions},
        phase    <- [s \in Sessions |-> PhaseOf(status[s])],
        size     <- [s \in Sessions |-> GroupSize[condOf[s]]],
        seats    <- members

\* Seat assignment behaves as if each join, departure and abort happened at
\* one instant: the locks, sweeps and restarts of the code stay invisible.
SeatsAreAtomic == Formation!Spec

----------------------------------------------------------------------------
(***************************************************************************)
(* Liveness                                                                *)
(***************************************************************************)

(***************************************************************************)
(* The event loop runs every continuation that can run (weak fairness of   *)
(* each actor), setInterval fires the timer again and again, and the       *)
(* promise chain is first-in first-out, so an operation that queued up is  *)
(* served although others pass the chain before it (strong fairness of the *)
(* three ways to enter it that somebody is already waiting on).  Browsers, *)
(* deadlines and the researcher owe nothing.                               *)
(***************************************************************************)
Fairness ==
    /\ \A r \in Requests :
        /\ SF_actorVars(ReserveSeat(r))
        /\ WF_actorVars(Sweeping(r) \/ ReturnSeat(r) \/ ChooseSeat(r)
                        \/ AddSeat(r) \/ GrantAccess(r))
    /\ \A p \in Leavers : WF_actorVars(Leaving(p) \/ Sweeping(p))
    /\ SF_actorVars(ListStale)
    /\ WF_actorVars(TimerTick \/ Sweeping(Timer) \/ ClaimVictim
                    \/ StaleDone \/ Leaving(Timer))
    /\ WF_actorVars(Sweeping(Admin) \/ StartNewRound)

FairSpec == Spec /\ Fairness

\* Every request that asked for a seat is answered: no operation keeps the
\* matchmaking chain, neither one that is refused nor one that aborts a group.
ChainServesEveryone ==
    \A r \in Requests : pc[r] = "open" ~> pc[r] = "idle"

\* A group that is still unstarted at its deadline does not linger: it starts
\* or it is aborted, also when it hangs in provisioning.
OverdueGroupsClose ==
    \A s \in Sessions :
        (status[s] \in Unstarted /\ overdue[s]) ~> status[s] \notin Unstarted

\* A browser that stays silent is terminalized by the timer, whether or not
\* its participant ever held a seat.
SilenceEnds ==
    \A p \in Droppers : p \in silent ~> (p \notin silent \/ p \in ended)

----------------------------------------------------------------------------
(***************************************************************************)
(* Statements of the repository that the code does not keep                *)
(***************************************************************************)

\* "Once the discussion is running, a disconnect or voluntary withdrawal ends
\* only that participant's participation": leaveSession aborts on the status
\* it read before the group was published.
RunningNeverAborted ==
    [][\A s \in Sessions : status[s] = "running" => status'[s] # "aborted"]_vars
=============================================================================
