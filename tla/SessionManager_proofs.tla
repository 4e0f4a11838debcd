------------------------ MODULE SessionManager_proofs ------------------------
(***************************************************************************)
(* Proofs about SessionManager, for any number of participants, requests,  *)
(* sessions, arms and rounds.                                              *)
(*                                                                         *)
(* All but two of the steps only let sessions advance and seats be given   *)
(* up (Settle) while one actor moves (Alone).  ActorStep does the work for *)
(* those once; the two steps that create a session or take a seat are      *)
(* proved by themselves.                                                   *)
(***************************************************************************)
EXTENDS SessionManager, TLAPS, FiniteSetTheorems

\* No session is created or becomes live again, nobody sits down.
Settle ==
    /\ condOf' = condOf
    /\ \A s \in Sessions :
        /\ members'[s] \subseteq members[s]
        /\ status'[s] = "unused" <=> status[s] = "unused"
        /\ status[s] \in Over => status'[s] \in Over

\* Actor x moves and every other one stands still; x may take the free chain
\* and may give up its own.
Alone(x) ==
    /\ \A y \in Actors \ {x} : pc'[y] = pc[y] /\ seen'[y] = seen[y]
    /\ owner' = owner \/ (owner \in {x, Nobody} /\ owner' \in {x, Nobody})
    /\ round' = round \/ x = Admin

\* The invariant's demands on actor x, for every stage but "add".
Sound(x) ==
    /\ InChain(x) => owner = x
    /\ pc[x] # "add"
    /\ pc[x] = "remove" => seen[x].status = "waiting"
    /\ seen[x].status # "unused" =>
        seen[x].session \in Sessions /\ status[seen[x].session] # "unused"
    /\ x = Admin /\ pc[x] \in {"sweep", "newRound"} => round < MaxRounds

----------------------------------------------------------------------------
(***************************************************************************)
(* Operators                                                               *)
(***************************************************************************)

\* The smallest session number of a non-empty set exists.
LEMMA OldestFirst ==
    ASSUME NEW S \in SUBSET Sessions, S # {}
    PROVE  Oldest(S) \in S /\ \A t \in S : Oldest(S) <= t
<1> DEFINE Less == {ss \in Nat \X Nat : ss[1] < ss[2]}
<1>1. S \subseteq Nat
  BY SessionStoreAssumption DEF Sessions
<1>2. Less = OpToRel(<, Nat)
  BY Zenon DEF OpToRel
<1>3. IsWellFoundedOn(Less, Nat)
  BY <1>2, NatLessThanWellFounded
<1>4. PICK s \in S : \A t \in S : <<t, s>> \notin Less
  BY <1>1, <1>3, WFMin
<1>5. \A t \in S : s <= t
  <2> SUFFICES ASSUME NEW t \in S, ~ (s <= t) PROVE FALSE
    OBVIOUS
  <2>1. <<t, s>> \in Nat \X Nat /\ <<t, s>>[1] < <<t, s>>[2]
    BY <1>1
  <2>2. <<t, s>> \in Less
    BY <2>1, Zenon
  <2> QED BY <1>4, <2>2
<1> QED BY <1>5 DEF Oldest

\* A seat lookup returns a seat in a session that exists, with its status.
LEMMA SeatFound ==
    ASSUME TypeOK, UnusedUntouched, NEW p \in Participants
    PROVE  /\ Seat(p) \in SeatReads
           /\ SeatsOf(p) = {} => Seat(p) = NoSeat
           /\ Seat(p).status # "unused" =>
                Seat(p).session \in Sessions /\ status[Seat(p).session] # "unused"
<1>1. CASE SeatsOf(p) = {}
  <2>1. Seat(p) = NoSeat
    BY <1>1 DEF Seat
  <2> QED BY <2>1 DEF NoSeat, SeatReads, Statuses
<1>2. CASE SeatsOf(p) # {}
  <2> DEFINE s == Oldest(SeatsOf(p))
  <2>1. SeatsOf(p) \in SUBSET Sessions
    BY DEF SeatsOf
  <2>2. s \in SeatsOf(p)
    BY <1>2, <2>1, OldestFirst
  <2>3. s \in Sessions /\ p \in members[s]
    BY <2>2 DEF SeatsOf
  <2>4. status[s] \in Statuses /\ status[s] # "unused"
    BY <2>3 DEF TypeOK, StoreTypeOK, UnusedUntouched
  <2>5. Seat(p) = [who |-> p, session |-> s, status |-> status[s]]
    BY <1>2 DEF Seat, SeatIn
  <2> HIDE DEF s
  <2> QED BY <1>2, <2>3, <2>4, <2>5 DEF SeatReads
<1> QED BY <1>1, <1>2

----------------------------------------------------------------------------
(***************************************************************************)
(* Steps that only settle                                                  *)
(***************************************************************************)

\* What such a step leaves of the conditions on seats.
LEMMA SettleSeats ==
    ASSUME IInv, TypeOK', Settle,
           \A r \in Requests : pc'[r] = "add" => pc[r] = "add" /\ seen'[r] = seen[r]
    PROVE  SeatsFinite' /\ GroupWithinSize' /\ OneClaim' /\ SeatStillFree'
<1>1. ASSUME NEW s \in Sessions
      PROVE  /\ IsFiniteSet(members'[s])
             /\ Cardinality(members'[s]) \in Nat
             /\ Cardinality(members[s]) \in Nat
             /\ GroupSize[condOf[s]] \in Nat
             /\ Cardinality(members'[s]) <= Cardinality(members[s])
  <2>1. IsFiniteSet(members[s])
    BY DEF IInv, SeatsFinite
  <2>2. members'[s] \in SUBSET members[s]
    BY DEF Settle
  <2>3. GroupSize[condOf[s]] \in Nat
    BY SessionStoreAssumption DEF IInv, TypeOK, StoreTypeOK
  <2> QED BY <2>1, <2>2, <2>3, FS_Subset, FS_CardinalityType
<1>2. SeatsFinite' /\ OneClaim'
  BY <1>1 DEF IInv, Settle, SeatsFinite, OneClaim
<1>3. GroupWithinSize'
  <2> SUFFICES ASSUME NEW s \in Sessions
               PROVE  Cardinality(members'[s]) <= GroupSize[condOf'[s]]
    BY DEF GroupWithinSize
  <2>1. Cardinality(members[s]) <= GroupSize[condOf[s]]
    BY DEF IInv, GroupWithinSize
  <2> QED BY <1>1, <2>1 DEF Settle
<1>4. SeatStillFree'
  <2> SUFFICES ASSUME NEW r \in Requests, pc'[r] = "add"
               PROVE  /\ seen'[r].status = "waiting"
                      /\ Cardinality(members'[seen'[r].session])
                            < GroupSize[condOf'[seen'[r].session]]
                      /\ \A s \in Sessions : Of[r] \in members'[s] =>
                            Of[r] \notin Prolific /\ status'[s] \in Over
    BY DEF SeatStillFree
  <2> DEFINE s == seen[r].session
  <2>1. pc[r] = "add" /\ seen'[r] = seen[r]
    OBVIOUS
  <2>2. /\ seen[r].status = "waiting"
        /\ Cardinality(members[s]) < GroupSize[condOf[s]]
        /\ \A t \in Sessions : Of[r] \in members[t] =>
              Of[r] \notin Prolific /\ status[t] \in Over
    BY <2>1 DEF IInv, SeatStillFree
  <2>3. s \in Sessions
    BY <2>2 DEF IInv, SeenExists, Actors
  <2>4. Cardinality(members'[s]) < GroupSize[condOf[s]]
    BY <1>1, <2>2, <2>3
  <2> QED BY <2>1, <2>2, <2>4 DEF Settle
<1> QED BY <1>2, <1>3, <1>4

\* One actor's settling step keeps the invariant if that actor's own part does.
LEMMA ActorStep ==
    ASSUME IInv, TypeOK', Settle, UNCHANGED provisionVars,
           NEW x \in Actors, Alone(x), Sound(x)'
    PROVE  IInv'
<1>1. SeatsFinite' /\ GroupWithinSize' /\ OneClaim' /\ SeatStillFree'
  BY SettleSeats DEF Alone, Sound, Actors
<1>2. UnusedUntouched' /\ SeenExists' /\ RemovalSawLobby' /\ RoundLeft'
  BY DEF IInv, UnusedUntouched, SeenExists, RemovalSawLobby, RoundLeft, Settle, Alone,
         Sound, Actors, provisionVars
<1>3. ChainHeld'
  <2> SUFFICES ASSUME NEW y \in Actors, InChain(y)' PROVE owner' = y
    BY DEF ChainHeld
  <2>1. CASE y = x
    BY <2>1 DEF Sound
  <2>2. CASE y # x
    <3>1. InChain(y)
      BY <2>2 DEF Alone, InChain
    <3>2. owner = y
      BY <3>1 DEF IInv, ChainHeld
    <3> QED BY <2>2, <3>2, MatchmakingAssumption DEF Alone
  <2> QED BY <2>1, <2>2
<1> QED BY <1>1, <1>2, <1>3 DEF IInv

\* So does a settling step in which no actor moves.
LEMMA BackgroundStep ==
    ASSUME IInv, TypeOK', Settle, UnusedUntouched', UNCHANGED <<owner, pc, seen, round>>
    PROVE  IInv'
<1>1. SeatsFinite' /\ GroupWithinSize' /\ OneClaim' /\ SeatStillFree'
  BY SettleSeats
<1>2. SeenExists' /\ RemovalSawLobby' /\ RoundLeft' /\ ChainHeld'
  BY DEF IInv, SeenExists, RemovalSawLobby, RoundLeft, ChainHeld, InChain, Settle
<1> QED BY <1>1, <1>2 DEF IInv

----------------------------------------------------------------------------
(***************************************************************************)
(* The sessions a request chooses from                                     *)
(***************************************************************************)

\* The row createForming inserts is one that does not exist yet.
LEMMA UnusedFound ==
    ASSUME Unused # {}
    PROVE  Oldest(Unused) \in Unused /\ Oldest(Unused) \in Sessions
<1>1. Unused \in SUBSET Sessions
  BY DEF Unused
<1> QED BY <1>1, OldestFirst

\* The lobby findForming returns is waiting and has a free seat.
LEMMA FormingFound ==
    ASSUME NEW W, Forming(W) # {}
    PROVE  Oldest(Forming(W)) \in Forming(W) /\ Oldest(Forming(W)) \in Sessions
<1>1. Forming(W) \in SUBSET Sessions
  BY DEF Forming
<1> QED BY <1>1, OldestFirst


(***************************************************************************)
(* The steps of Matchmaking, one lemma each                                *)
(***************************************************************************)

\* Aborting one selected row releases no claim and grants none.
LEMMA AbortRowStep ==
    ASSUME IInv, UNCHANGED provisionVars,
           NEW x \in Actors, AbortRow(x)
    PROVE  IInv'
<1>1. TypeOK'
  <2>1. PICK t \in rows[x] :
            /\ rows' = [rows EXCEPT ![x] = @ \ {t}]
            /\ \/ SetStatus(t, "aborted") /\ todo' = [todo EXCEPT ![x] = @ \cup {t}]
               \/ UNCHANGED <<tableVars, todo>>
    BY DEF AbortRow
  <2>2. t \in Sessions
    BY DEF IInv, TypeOK, MatchmakingTypeOK
  <2> QED BY <2>1, <2>2 DEF AbortRow, SetStatus, IInv, TypeOK, StoreTypeOK, MatchmakingTypeOK, ProvisioningTypeOK,
        provisionVars, storeVars, tableVars, rowVars, seatVars, studyVars,
        outcomeVars, Actors, Stages, Statuses
<1>2. Settle /\ Alone(x)
  BY MatchmakingAssumption DEF AbortRow, SetStatus, StillAbortable, Unstarted, Settle, Alone, IInv, TypeOK, StoreTypeOK, MatchmakingTypeOK, ProvisioningTypeOK,
        provisionVars, storeVars, tableVars, rowVars, seatVars, studyVars,
        outcomeVars, Actors, Stages, Statuses, SeatReads, NoSeat,
        ChainHeld, InChain, SeenExists, RoundLeft, Over
<1>3. Sound(x)'
  BY MatchmakingAssumption DEF AbortRow, SetStatus, StillAbortable, Unstarted, Sound, InChain, IInv, TypeOK, StoreTypeOK, MatchmakingTypeOK, ProvisioningTypeOK,
        provisionVars, storeVars, tableVars, rowVars, seatVars, studyVars,
        outcomeVars, Actors, Stages, Statuses, SeatReads, NoSeat,
        ChainHeld, InChain, SeenExists, RoundLeft, Over
<1> QED BY <1>1, <1>2, <1>3, ActorStep DEF Actors

\* Reading the roster of an aborted lobby only fills the actor's own list.
LEMMA ReadRosterStep ==
    ASSUME IInv, UNCHANGED provisionVars,
           NEW x \in Actors, ReadRoster(x)
    PROVE  IInv'
<1>1. TypeOK'
  BY SessionStoreAssumption, MatchmakingAssumption
     DEF ReadRoster, IInv, TypeOK, StoreTypeOK, MatchmakingTypeOK, ProvisioningTypeOK,
        provisionVars, storeVars, tableVars, rowVars, seatVars, studyVars,
        outcomeVars, Actors, Stages, Statuses, SeatReads, NoSeat,
        ChainHeld, InChain, SeenExists, RoundLeft, Over
<1>2. Settle /\ Alone(x)
  BY MatchmakingAssumption DEF ReadRoster, Settle, Alone, IInv, TypeOK, StoreTypeOK, MatchmakingTypeOK, ProvisioningTypeOK,
        provisionVars, storeVars, tableVars, rowVars, seatVars, studyVars,
        outcomeVars, Actors, Stages, Statuses, SeatReads, NoSeat,
        ChainHeld, InChain, SeenExists, RoundLeft, Over
<1>3. Sound(x)'
  BY MatchmakingAssumption DEF ReadRoster, Sound, InChain, IInv, TypeOK, StoreTypeOK, MatchmakingTypeOK, ProvisioningTypeOK,
        provisionVars, storeVars, tableVars, rowVars, seatVars, studyVars,
        outcomeVars, Actors, Stages, Statuses, SeatReads, NoSeat,
        ChainHeld, InChain, SeenExists, RoundLeft, Over
<1> QED BY <1>1, <1>2, <1>3, ActorStep DEF Actors

\* A terminal outcome touches no seat.
LEMMA TerminateMemberStep ==
    ASSUME IInv, UNCHANGED provisionVars,
           NEW x \in Actors, TerminateMember(x)
    PROVE  IInv'
<1>1. TypeOK'
  BY SessionStoreAssumption, MatchmakingAssumption
     DEF TerminateMember, IInv, TypeOK, StoreTypeOK, MatchmakingTypeOK, ProvisioningTypeOK,
        provisionVars, storeVars, tableVars, rowVars, seatVars, studyVars,
        outcomeVars, Actors, Stages, Statuses, SeatReads, NoSeat,
        ChainHeld, InChain, SeenExists, RoundLeft, Over
<1>2. Settle /\ Alone(x)
  BY MatchmakingAssumption DEF TerminateMember, Settle, Alone, IInv, TypeOK, StoreTypeOK, MatchmakingTypeOK, ProvisioningTypeOK,
        provisionVars, storeVars, tableVars, rowVars, seatVars, studyVars,
        outcomeVars, Actors, Stages, Statuses, SeatReads, NoSeat,
        ChainHeld, InChain, SeenExists, RoundLeft, Over
<1>3. Sound(x)'
  BY MatchmakingAssumption DEF TerminateMember, Sound, InChain, IInv, TypeOK, StoreTypeOK, MatchmakingTypeOK, ProvisioningTypeOK,
        provisionVars, storeVars, tableVars, rowVars, seatVars, studyVars,
        outcomeVars, Actors, Stages, Statuses, SeatReads, NoSeat,
        ChainHeld, InChain, SeenExists, RoundLeft, Over
<1> QED BY <1>1, <1>2, <1>3, ActorStep DEF Actors

\* The end of a sweep hands the chain on or keeps it, by the kind of actor.
LEMMA SweepDoneStep ==
    ASSUME IInv, UNCHANGED provisionVars,
           NEW x \in Actors, SweepDone(x)
    PROVE  IInv'
<1>1. TypeOK'
  BY SessionStoreAssumption, MatchmakingAssumption
     DEF SweepDone, AfterSweep, Goto, IInv, TypeOK, StoreTypeOK, MatchmakingTypeOK, ProvisioningTypeOK,
        provisionVars, storeVars, tableVars, rowVars, seatVars, studyVars,
        outcomeVars, Actors, Stages, Statuses, SeatReads, NoSeat,
        ChainHeld, InChain, SeenExists, RoundLeft, Over
<1>2. Settle /\ Alone(x)
  BY MatchmakingAssumption DEF SweepDone, AfterSweep, Goto, Settle, Alone, IInv, TypeOK, StoreTypeOK, MatchmakingTypeOK, ProvisioningTypeOK,
        provisionVars, storeVars, tableVars, rowVars, seatVars, studyVars,
        outcomeVars, Actors, Stages, Statuses, SeatReads, NoSeat,
        ChainHeld, InChain, SeenExists, RoundLeft, Over
<1>3. Sound(x)'
  BY MatchmakingAssumption DEF SweepDone, AfterSweep, Goto, Sound, InChain, IInv, TypeOK, StoreTypeOK, MatchmakingTypeOK, ProvisioningTypeOK,
        provisionVars, storeVars, tableVars, rowVars, seatVars, studyVars,
        outcomeVars, Actors, Stages, Statuses, SeatReads, NoSeat,
        ChainHeld, InChain, SeenExists, RoundLeft, Over
<1> QED BY <1>1, <1>2, <1>3, ActorStep DEF Actors

\* A request queues up without touching the chain.
LEMMA OpenSessionStep ==
    ASSUME IInv, UNCHANGED provisionVars,
           NEW r \in Requests, OpenSession(r)
    PROVE  IInv'
<1>1. TypeOK'
  BY SessionStoreAssumption, MatchmakingAssumption
     DEF OpenSession, Goto, IInv, TypeOK, StoreTypeOK, MatchmakingTypeOK, ProvisioningTypeOK,
        provisionVars, storeVars, tableVars, rowVars, seatVars, studyVars,
        outcomeVars, Actors, Stages, Statuses, SeatReads, NoSeat,
        ChainHeld, InChain, SeenExists, RoundLeft, Over
<1>2. Settle /\ Alone(r)
  BY MatchmakingAssumption DEF OpenSession, Goto, Settle, Alone, IInv, TypeOK, StoreTypeOK, MatchmakingTypeOK, ProvisioningTypeOK,
        provisionVars, storeVars, tableVars, rowVars, seatVars, studyVars,
        outcomeVars, Actors, Stages, Statuses, SeatReads, NoSeat,
        ChainHeld, InChain, SeenExists, RoundLeft, Over
<1>3. Sound(r)'
  BY MatchmakingAssumption DEF OpenSession, Goto, Sound, InChain, IInv, TypeOK, StoreTypeOK, MatchmakingTypeOK, ProvisioningTypeOK,
        provisionVars, storeVars, tableVars, rowVars, seatVars, studyVars,
        outcomeVars, Actors, Stages, Statuses, SeatReads, NoSeat,
        ChainHeld, InChain, SeenExists, RoundLeft, Over
<1> QED BY <1>1, <1>2, <1>3, ActorStep DEF Actors

\* A request enters the free chain and takes the list of expired groups.
LEMMA ReserveSeatStep ==
    ASSUME IInv, UNCHANGED provisionVars,
           NEW r \in Requests, ReserveSeat(r)
    PROVE  IInv'
<1>1. TypeOK'
  BY SessionStoreAssumption, MatchmakingAssumption
     DEF ReserveSeat, Enter, Goto, Expired, IInv, TypeOK, StoreTypeOK, MatchmakingTypeOK, ProvisioningTypeOK,
        provisionVars, storeVars, tableVars, rowVars, seatVars, studyVars,
        outcomeVars, Actors, Stages, Statuses, SeatReads, NoSeat,
        ChainHeld, InChain, SeenExists, RoundLeft, Over
<1>2. Settle /\ Alone(r)
  BY MatchmakingAssumption DEF ReserveSeat, Enter, Goto, Expired, Settle, Alone, IInv, TypeOK, StoreTypeOK, MatchmakingTypeOK, ProvisioningTypeOK,
        provisionVars, storeVars, tableVars, rowVars, seatVars, studyVars,
        outcomeVars, Actors, Stages, Statuses, SeatReads, NoSeat,
        ChainHeld, InChain, SeenExists, RoundLeft, Over
<1>3. Sound(r)'
  BY MatchmakingAssumption DEF ReserveSeat, Enter, Goto, Expired, Sound, InChain, IInv, TypeOK, StoreTypeOK, MatchmakingTypeOK, ProvisioningTypeOK,
        provisionVars, storeVars, tableVars, rowVars, seatVars, studyVars,
        outcomeVars, Actors, Stages, Statuses, SeatReads, NoSeat,
        ChainHeld, InChain, SeenExists, RoundLeft, Over
<1> QED BY <1>1, <1>2, <1>3, ActorStep DEF Actors

\* A participant who has a seat gets it back and leaves the chain.
LEMMA ReturnSeatStep ==
    ASSUME IInv, UNCHANGED provisionVars,
           NEW r \in Requests, ReturnSeat(r)
    PROVE  IInv'
<1>0. PICK s \in SeatsOf(Of[r]) :
        \/ pc' = [pc EXCEPT ![r] = "idle"] /\ UNCHANGED seen
        \/ /\ pc' = [pc EXCEPT ![r] = "access"]
           /\ seen' = [seen EXCEPT ![r] = SeatIn(s, Of[r])]
  BY DEF ReturnSeat, Goto
<1>a. /\ s \in Sessions /\ status[s] \in Statuses /\ status[s] # "unused"
      /\ SeatIn(s, Of[r]) \in SeatReads
      /\ SeatIn(s, Of[r]).session = s
  <2>1. s \in Sessions /\ Of[r] \in members[s] /\ Of[r] \in Participants
    BY MatchmakingAssumption DEF SeatsOf
  <2>2. status[s] \in Statuses /\ status[s] # "unused"
    BY <2>1 DEF IInv, TypeOK, StoreTypeOK, UnusedUntouched
  <2> QED BY <2>1, <2>2 DEF SeatIn, SeatReads
<1>1. TypeOK'
  BY <1>0, <1>a
     DEF ReturnSeat, Leave, IInv, TypeOK, StoreTypeOK, MatchmakingTypeOK, ProvisioningTypeOK,
        provisionVars, storeVars, tableVars, rowVars, seatVars, studyVars,
        outcomeVars, Actors, Stages, Statuses
<1>2. Settle /\ Alone(r)
  BY <1>0, <1>a DEF ReturnSeat, Leave, Goto, Settle, Alone, IInv, TypeOK, StoreTypeOK, MatchmakingTypeOK, ProvisioningTypeOK,
        provisionVars, storeVars, tableVars, rowVars, seatVars, studyVars,
        outcomeVars, Actors, Stages, Statuses, SeatReads, NoSeat,
        ChainHeld, InChain, SeenExists, RoundLeft, Over
<1>3. Sound(r)'
  BY <1>0, <1>a DEF ReturnSeat, Leave, Goto, Sound, InChain, IInv, TypeOK, StoreTypeOK, MatchmakingTypeOK, ProvisioningTypeOK,
        provisionVars, storeVars, tableVars, rowVars, seatVars, studyVars,
        outcomeVars, Actors, Stages, Statuses, SeatReads, NoSeat,
        ChainHeld, InChain, SeenExists, RoundLeft, Over
<1> QED BY <1>1, <1>2, <1>3, ActorStep DEF Actors

\* Storing credentials changes no seat.
LEMMA GrantAccessStep ==
    ASSUME IInv, UNCHANGED provisionVars,
           NEW r \in Requests, GrantAccess(r)
    PROVE  IInv'
<1>1. TypeOK'
  <2>1. StoreTypeOK'
    BY DEF GrantAccess, SetCreds, IInv, TypeOK, StoreTypeOK, tableVars, rowVars, seatVars,
           studyVars, outcomeVars
  <2>2. MatchmakingTypeOK'
    BY MatchmakingAssumption
       DEF GrantAccess, Goto, IInv, TypeOK, MatchmakingTypeOK, Actors, Stages, SeatReads, NoSeat, Statuses
  <2>3. ProvisioningTypeOK'
    BY DEF IInv, TypeOK, ProvisioningTypeOK, provisionVars
  <2> QED
    BY <2>1, <2>2, <2>3 DEF TypeOK
<1>2. Settle /\ Alone(r)
  BY MatchmakingAssumption DEF GrantAccess, SetCreds, Goto, Settle, Alone, IInv, TypeOK, StoreTypeOK, MatchmakingTypeOK, ProvisioningTypeOK,
        provisionVars, storeVars, tableVars, rowVars, seatVars, studyVars,
        outcomeVars, Actors, Stages, Statuses, SeatReads, NoSeat,
        ChainHeld, InChain, SeenExists, RoundLeft, Over
<1>3. Sound(r)'
  BY MatchmakingAssumption DEF GrantAccess, SetCreds, Goto, Sound, InChain, IInv, TypeOK, StoreTypeOK, MatchmakingTypeOK, ProvisioningTypeOK,
        provisionVars, storeVars, tableVars, rowVars, seatVars, studyVars,
        outcomeVars, Actors, Stages, Statuses, SeatReads, NoSeat,
        ChainHeld, InChain, SeenExists, RoundLeft, Over
<1> QED BY <1>1, <1>2, <1>3, ActorStep DEF Actors

\* A withdrawal enters the free chain and reads an existing seat.
LEMMA WithdrawStep ==
    ASSUME IInv, UNCHANGED provisionVars,
           NEW p \in Leavers, Withdraw(p)
    PROVE  IInv'
<1>1. TypeOK'
  BY SeatFound, SessionStoreAssumption, MatchmakingAssumption
     DEF Withdraw, Enter, Goto, IInv, TypeOK, StoreTypeOK, MatchmakingTypeOK, ProvisioningTypeOK,
        provisionVars, storeVars, tableVars, rowVars, seatVars, studyVars,
        outcomeVars, Actors, Stages, Statuses, SeatReads, NoSeat,
        ChainHeld, InChain, SeenExists, RoundLeft, Over
<1>2. Settle /\ Alone(p)
  BY SeatFound, MatchmakingAssumption DEF Withdraw, Enter, Goto, Settle, Alone, IInv, TypeOK, StoreTypeOK, MatchmakingTypeOK, ProvisioningTypeOK,
        provisionVars, storeVars, tableVars, rowVars, seatVars, studyVars,
        outcomeVars, Actors, Stages, Statuses, SeatReads, NoSeat,
        ChainHeld, InChain, SeenExists, RoundLeft, Over
<1>3. Sound(p)'
  BY SeatFound, SessionStoreAssumption, MatchmakingAssumption DEF Withdraw, Enter, Goto, Sound, InChain, IInv, TypeOK, StoreTypeOK, MatchmakingTypeOK, ProvisioningTypeOK,
        provisionVars, storeVars, tableVars, rowVars, seatVars, studyVars,
        outcomeVars, Actors, Stages, Statuses, SeatReads, NoSeat,
        ChainHeld, InChain, SeenExists, RoundLeft, Over
<1> QED BY <1>1, <1>2, <1>3, ActorStep DEF Actors

\* The timer takes its list of expired groups outside the chain.
LEMMA TimerTickStep ==
    ASSUME IInv, UNCHANGED provisionVars, TimerTick
    PROVE  IInv'
<1>1. TypeOK'
  BY SessionStoreAssumption, MatchmakingAssumption
     DEF TimerTick, Goto, Expired, IInv, TypeOK, StoreTypeOK, MatchmakingTypeOK, ProvisioningTypeOK,
        provisionVars, storeVars, tableVars, rowVars, seatVars, studyVars,
        outcomeVars, Actors, Stages, Statuses, SeatReads, NoSeat,
        ChainHeld, InChain, SeenExists, RoundLeft, Over
<1>2. Settle /\ Alone(Timer)
  BY MatchmakingAssumption DEF TimerTick, Goto, Expired, Settle, Alone, IInv, TypeOK, StoreTypeOK, MatchmakingTypeOK, ProvisioningTypeOK,
        provisionVars, storeVars, tableVars, rowVars, seatVars, studyVars,
        outcomeVars, Actors, Stages, Statuses, SeatReads, NoSeat,
        ChainHeld, InChain, SeenExists, RoundLeft, Over
<1>3. Sound(Timer)'
  BY MatchmakingAssumption DEF TimerTick, Goto, Expired, Sound, InChain, IInv, TypeOK, StoreTypeOK, MatchmakingTypeOK, ProvisioningTypeOK,
        provisionVars, storeVars, tableVars, rowVars, seatVars, studyVars,
        outcomeVars, Actors, Stages, Statuses, SeatReads, NoSeat,
        ChainHeld, InChain, SeenExists, RoundLeft, Over
<1> QED BY <1>1, <1>2, <1>3, ActorStep DEF Actors

\* The timer enters the free chain for its stale scan.
LEMMA ListStaleStep ==
    ASSUME IInv, UNCHANGED provisionVars, ListStale
    PROVE  IInv'
<1>1. TypeOK'
  BY SessionStoreAssumption, MatchmakingAssumption
     DEF ListStale, Enter, Goto, IInv, TypeOK, StoreTypeOK, MatchmakingTypeOK, ProvisioningTypeOK,
        provisionVars, storeVars, tableVars, rowVars, seatVars, studyVars,
        outcomeVars, Actors, Stages, Statuses, SeatReads, NoSeat,
        ChainHeld, InChain, SeenExists, RoundLeft, Over
<1>2. Settle /\ Alone(Timer)
  BY MatchmakingAssumption DEF ListStale, Enter, Goto, Settle, Alone, IInv, TypeOK, StoreTypeOK, MatchmakingTypeOK, ProvisioningTypeOK,
        provisionVars, storeVars, tableVars, rowVars, seatVars, studyVars,
        outcomeVars, Actors, Stages, Statuses, SeatReads, NoSeat,
        ChainHeld, InChain, SeenExists, RoundLeft, Over
<1>3. Sound(Timer)'
  BY MatchmakingAssumption DEF ListStale, Enter, Goto, Sound, InChain, IInv, TypeOK, StoreTypeOK, MatchmakingTypeOK, ProvisioningTypeOK,
        provisionVars, storeVars, tableVars, rowVars, seatVars, studyVars,
        outcomeVars, Actors, Stages, Statuses, SeatReads, NoSeat,
        ChainHeld, InChain, SeenExists, RoundLeft, Over
<1> QED BY <1>1, <1>2, <1>3, ActorStep DEF Actors

\* The timer claims one silent submission and reads an existing seat.
LEMMA ClaimVictimStep ==
    ASSUME IInv, UNCHANGED provisionVars, ClaimVictim
    PROVE  IInv'
<1>1. TypeOK'
  BY SeatFound, SessionStoreAssumption, MatchmakingAssumption
     DEF ClaimVictim, Goto, IInv, TypeOK, StoreTypeOK, MatchmakingTypeOK, ProvisioningTypeOK,
        provisionVars, storeVars, tableVars, rowVars, seatVars, studyVars,
        outcomeVars, Actors, Stages, Statuses, SeatReads, NoSeat,
        ChainHeld, InChain, SeenExists, RoundLeft, Over
<1>2. Settle /\ Alone(Timer)
  BY SeatFound, MatchmakingAssumption DEF ClaimVictim, Goto, Settle, Alone, IInv, TypeOK, StoreTypeOK, MatchmakingTypeOK, ProvisioningTypeOK,
        provisionVars, storeVars, tableVars, rowVars, seatVars, studyVars,
        outcomeVars, Actors, Stages, Statuses, SeatReads, NoSeat,
        ChainHeld, InChain, SeenExists, RoundLeft, Over
<1>3. Sound(Timer)'
  BY SeatFound, SessionStoreAssumption, MatchmakingAssumption DEF ClaimVictim, Goto, Sound, InChain, IInv, TypeOK, StoreTypeOK, MatchmakingTypeOK, ProvisioningTypeOK,
        provisionVars, storeVars, tableVars, rowVars, seatVars, studyVars,
        outcomeVars, Actors, Stages, Statuses, SeatReads, NoSeat,
        ChainHeld, InChain, SeenExists, RoundLeft, Over
<1> QED BY <1>1, <1>2, <1>3, ActorStep DEF Actors

\* The timer leaves the chain when no victim is left.
LEMMA StaleDoneStep ==
    ASSUME IInv, UNCHANGED provisionVars, StaleDone
    PROVE  IInv'
<1>1. TypeOK'
  BY SessionStoreAssumption, MatchmakingAssumption
     DEF StaleDone, Leave, Goto, IInv, TypeOK, StoreTypeOK, MatchmakingTypeOK, ProvisioningTypeOK,
        provisionVars, storeVars, tableVars, rowVars, seatVars, studyVars,
        outcomeVars, Actors, Stages, Statuses, SeatReads, NoSeat,
        ChainHeld, InChain, SeenExists, RoundLeft, Over
<1>2. Settle /\ Alone(Timer)
  BY MatchmakingAssumption DEF StaleDone, Leave, Goto, Settle, Alone, IInv, TypeOK, StoreTypeOK, MatchmakingTypeOK, ProvisioningTypeOK,
        provisionVars, storeVars, tableVars, rowVars, seatVars, studyVars,
        outcomeVars, Actors, Stages, Statuses, SeatReads, NoSeat,
        ChainHeld, InChain, SeenExists, RoundLeft, Over
<1>3. Sound(Timer)'
  BY MatchmakingAssumption DEF StaleDone, Leave, Goto, Sound, InChain, IInv, TypeOK, StoreTypeOK, MatchmakingTypeOK, ProvisioningTypeOK,
        provisionVars, storeVars, tableVars, rowVars, seatVars, studyVars,
        outcomeVars, Actors, Stages, Statuses, SeatReads, NoSeat,
        ChainHeld, InChain, SeenExists, RoundLeft, Over
<1> QED BY <1>1, <1>2, <1>3, ActorStep DEF Actors

\* Leaving a started session keeps the roster.
LEMMA LeaveStartedStep ==
    ASSUME IInv, UNCHANGED provisionVars,
           NEW x \in Leavers \cup {Timer}, LeaveStarted(x)
    PROVE  IInv'
<1>1. TypeOK'
  BY SessionStoreAssumption, MatchmakingAssumption
     DEF LeaveStarted, Departed, Goto, IInv, TypeOK, StoreTypeOK, MatchmakingTypeOK, ProvisioningTypeOK,
        provisionVars, storeVars, tableVars, rowVars, seatVars, studyVars,
        outcomeVars, Actors, Stages, Statuses, SeatReads, NoSeat,
        ChainHeld, InChain, SeenExists, RoundLeft, Over
<1>2. Settle /\ Alone(x)
  BY MatchmakingAssumption DEF LeaveStarted, Departed, Goto, Settle, Alone, IInv, TypeOK, StoreTypeOK, MatchmakingTypeOK, ProvisioningTypeOK,
        provisionVars, storeVars, tableVars, rowVars, seatVars, studyVars,
        outcomeVars, Actors, Stages, Statuses, SeatReads, NoSeat,
        ChainHeld, InChain, SeenExists, RoundLeft, Over
<1>3. Sound(x)'
  BY MatchmakingAssumption DEF LeaveStarted, Departed, Goto, Sound, InChain, IInv, TypeOK, StoreTypeOK, MatchmakingTypeOK, ProvisioningTypeOK,
        provisionVars, storeVars, tableVars, rowVars, seatVars, studyVars,
        outcomeVars, Actors, Stages, Statuses, SeatReads, NoSeat,
        ChainHeld, InChain, SeenExists, RoundLeft, Over
<1> QED BY <1>1, <1>2, <1>3, ActorStep DEF Actors

\* A removal goes on only if the lobby is still waiting.
LEMMA LeaveLobbyStep ==
    ASSUME IInv, UNCHANGED provisionVars,
           NEW x \in Leavers \cup {Timer}, LeaveLobby(x)
    PROVE  IInv'
<1>1. TypeOK'
  BY SessionStoreAssumption, MatchmakingAssumption
     DEF LeaveLobby, Departed, Goto, Unstarted, IInv, TypeOK, StoreTypeOK, MatchmakingTypeOK, ProvisioningTypeOK,
        provisionVars, storeVars, tableVars, rowVars, seatVars, studyVars,
        outcomeVars, Actors, Stages, Statuses, SeatReads, NoSeat,
        ChainHeld, InChain, SeenExists, RoundLeft, Over
<1>2. Settle /\ Alone(x)
  BY MatchmakingAssumption DEF LeaveLobby, Departed, Goto, Unstarted, Settle, Alone, IInv, TypeOK, StoreTypeOK, MatchmakingTypeOK, ProvisioningTypeOK,
        provisionVars, storeVars, tableVars, rowVars, seatVars, studyVars,
        outcomeVars, Actors, Stages, Statuses, SeatReads, NoSeat,
        ChainHeld, InChain, SeenExists, RoundLeft, Over
<1>3. Sound(x)'
  BY MatchmakingAssumption DEF LeaveLobby, Departed, Goto, Unstarted, Sound, InChain, IInv, TypeOK, StoreTypeOK, MatchmakingTypeOK, ProvisioningTypeOK,
        provisionVars, storeVars, tableVars, rowVars, seatVars, studyVars,
        outcomeVars, Actors, Stages, Statuses, SeatReads, NoSeat,
        ChainHeld, InChain, SeenExists, RoundLeft, Over
<1> QED BY <1>1, <1>2, <1>3, ActorStep DEF Actors

\* A removal frees a seat; it may abort the lobby it empties.
LEMMA RemoveSeatStep ==
    ASSUME IInv, UNCHANGED provisionVars,
           NEW x \in Leavers \cup {Timer}, RemoveSeat(x)
    PROVE  IInv'
<1>1. TypeOK'
  BY SessionStoreAssumption, MatchmakingAssumption
     DEF RemoveSeat, RemoveParticipant, Departed, Goto, RemovalSawLobby, IInv, TypeOK, StoreTypeOK, MatchmakingTypeOK, ProvisioningTypeOK,
        provisionVars, storeVars, tableVars, rowVars, seatVars, studyVars,
        outcomeVars, Actors, Stages, Statuses, SeatReads, NoSeat,
        ChainHeld, InChain, SeenExists, RoundLeft, Over
<1>2. Settle /\ Alone(x)
  BY MatchmakingAssumption DEF RemoveSeat, RemoveParticipant, Departed, Goto, RemovalSawLobby, Settle, Alone, IInv, TypeOK, StoreTypeOK, MatchmakingTypeOK, ProvisioningTypeOK,
        provisionVars, storeVars, tableVars, rowVars, seatVars, studyVars,
        outcomeVars, Actors, Stages, Statuses, SeatReads, NoSeat,
        ChainHeld, InChain, SeenExists, RoundLeft, Over
<1>3. Sound(x)'
  BY MatchmakingAssumption DEF RemoveSeat, RemoveParticipant, Departed, Goto, RemovalSawLobby, Sound, InChain, IInv, TypeOK, StoreTypeOK, MatchmakingTypeOK, ProvisioningTypeOK,
        provisionVars, storeVars, tableVars, rowVars, seatVars, studyVars,
        outcomeVars, Actors, Stages, Statuses, SeatReads, NoSeat,
        ChainHeld, InChain, SeenExists, RoundLeft, Over
<1> QED BY <1>1, <1>2, <1>3, ActorStep DEF Actors

\* Leaving a group in provisioning aborts it, whatever it is by now.
LEMMA LeaveProvisioningStep ==
    ASSUME IInv, UNCHANGED provisionVars,
           NEW x \in Leavers \cup {Timer}, LeaveProvisioning(x)
    PROVE  IInv'
<1>1. TypeOK'
  BY SessionStoreAssumption, MatchmakingAssumption
     DEF LeaveProvisioning, SetStatus, Goto, Unstarted, IInv, TypeOK, StoreTypeOK, MatchmakingTypeOK, ProvisioningTypeOK,
        provisionVars, storeVars, tableVars, rowVars, seatVars, studyVars,
        outcomeVars, Actors, Stages, Statuses, SeatReads, NoSeat,
        ChainHeld, InChain, SeenExists, RoundLeft, Over
<1>2. Settle /\ Alone(x)
  BY MatchmakingAssumption DEF LeaveProvisioning, SetStatus, Goto, Unstarted, Settle, Alone, IInv, TypeOK, StoreTypeOK, MatchmakingTypeOK, ProvisioningTypeOK,
        provisionVars, storeVars, tableVars, rowVars, seatVars, studyVars,
        outcomeVars, Actors, Stages, Statuses, SeatReads, NoSeat,
        ChainHeld, InChain, SeenExists, RoundLeft, Over
<1>3. Sound(x)'
  BY MatchmakingAssumption DEF LeaveProvisioning, SetStatus, Goto, Unstarted, Sound, InChain, IInv, TypeOK, StoreTypeOK, MatchmakingTypeOK, ProvisioningTypeOK,
        provisionVars, storeVars, tableVars, rowVars, seatVars, studyVars,
        outcomeVars, Actors, Stages, Statuses, SeatReads, NoSeat,
        ChainHeld, InChain, SeenExists, RoundLeft, Over
<1> QED BY <1>1, <1>2, <1>3, ActorStep DEF Actors

\* A round start enters the free chain while a round is left to open.
LEMMA StartRoundStep ==
    ASSUME IInv, UNCHANGED provisionVars, StartRound
    PROVE  IInv'
<1>1. TypeOK'
  BY SessionStoreAssumption, MatchmakingAssumption
     DEF StartRound, Enter, Goto, Lobbies, IInv, TypeOK, StoreTypeOK, MatchmakingTypeOK, ProvisioningTypeOK,
        provisionVars, storeVars, tableVars, rowVars, seatVars, studyVars,
        outcomeVars, Actors, Stages, Statuses, SeatReads, NoSeat,
        ChainHeld, InChain, SeenExists, RoundLeft, Over
<1>2. Settle /\ Alone(Admin)
  BY MatchmakingAssumption DEF StartRound, Enter, Goto, Lobbies, Settle, Alone, IInv, TypeOK, StoreTypeOK, MatchmakingTypeOK, ProvisioningTypeOK,
        provisionVars, storeVars, tableVars, rowVars, seatVars, studyVars,
        outcomeVars, Actors, Stages, Statuses, SeatReads, NoSeat,
        ChainHeld, InChain, SeenExists, RoundLeft, Over
<1>3. Sound(Admin)'
  BY MatchmakingAssumption DEF StartRound, Enter, Goto, Lobbies, Sound, InChain, IInv, TypeOK, StoreTypeOK, MatchmakingTypeOK, ProvisioningTypeOK,
        provisionVars, storeVars, tableVars, rowVars, seatVars, studyVars,
        outcomeVars, Actors, Stages, Statuses, SeatReads, NoSeat,
        ChainHeld, InChain, SeenExists, RoundLeft, Over
<1> QED BY <1>1, <1>2, <1>3, ActorStep DEF Actors

\* The round moves on by one, still within the bound.
LEMMA StartNewRoundStep ==
    ASSUME IInv, UNCHANGED provisionVars, StartNewRound
    PROVE  IInv'
<1>1. TypeOK'
  BY SessionStoreAssumption, MatchmakingAssumption
     DEF StartNewRound, Leave, Goto, IInv, TypeOK, StoreTypeOK, MatchmakingTypeOK, ProvisioningTypeOK,
        provisionVars, storeVars, tableVars, rowVars, seatVars, studyVars,
        outcomeVars, Actors, Stages, Statuses, SeatReads, NoSeat,
        ChainHeld, InChain, SeenExists, RoundLeft, Over
<1>2. Settle /\ Alone(Admin)
  BY MatchmakingAssumption DEF StartNewRound, Leave, Goto, Settle, Alone, IInv, TypeOK, StoreTypeOK, MatchmakingTypeOK, ProvisioningTypeOK,
        provisionVars, storeVars, tableVars, rowVars, seatVars, studyVars,
        outcomeVars, Actors, Stages, Statuses, SeatReads, NoSeat,
        ChainHeld, InChain, SeenExists, RoundLeft, Over
<1>3. Sound(Admin)'
  BY MatchmakingAssumption DEF StartNewRound, Leave, Goto, Sound, InChain, IInv, TypeOK, StoreTypeOK, MatchmakingTypeOK, ProvisioningTypeOK,
        provisionVars, storeVars, tableVars, rowVars, seatVars, studyVars,
        outcomeVars, Actors, Stages, Statuses, SeatReads, NoSeat,
        ChainHeld, InChain, SeenExists, RoundLeft, Over
<1> QED BY <1>1, <1>2, <1>3, ActorStep DEF Actors

(***************************************************************************)
(* Taking a seat: choosing it, creating a session for it, writing it       *)
(***************************************************************************)

\* While one request is inside the chain no other one has chosen a seat.
LEMMA NobodyElseChose ==
    ASSUME IInv, NEW r \in Requests, InChain(r)
    PROVE  owner = r /\ \A q \in Requests : pc[q] = "add" => q = r
BY DEF IInv, ChainHeld, InChain, Actors

\* A chosen session with a free seat establishes SeatStillFree for its request.
LEMMA SeatChosen ==
    ASSUME IInv, TypeOK', NEW r \in Requests, NEW s \in Sessions,
           pc[r] = "lookup", SeatsOf(Of[r]) = {}, Choose(r, s),
           UNCHANGED <<owner, members, round, provisionVars>>,
           status[s] \in {"unused", "waiting"}, status'[s] = "waiting",
           Cardinality(members[s]) < GroupSize[condOf'[s]],
           \A t \in Sessions \ {s} : status'[t] = status[t] /\ condOf'[t] = condOf[t]
    PROVE  IInv'
<1>1. owner = r /\ \A q \in Requests : pc[q] = "add" => q = r
  BY NobodyElseChose DEF InChain
<1>2. /\ \A x \in Actors \ {r} : pc'[x] = pc[x] /\ seen'[x] = seen[x]
      /\ pc'[r] = "add"
      /\ seen'[r] = [who |-> Of[r], session |-> s, status |-> "waiting"]
  BY DEF IInv, TypeOK, MatchmakingTypeOK, Choose, Goto, Actors
<1>3. SeatsFinite' /\ UnusedUntouched' /\ OneClaim' /\ RoundLeft'
  <2>1. SeatsFinite' /\ UnusedUntouched'
    BY DEF IInv, SeatsFinite, UnusedUntouched, provisionVars
  <2>2. OneClaim'
    BY DEF IInv, OneClaim, Over
  <2>3. RoundLeft'
    BY <1>2, MatchmakingAssumption DEF IInv, RoundLeft, Actors
  <2> QED BY <2>1, <2>2, <2>3
<1>4. GroupWithinSize'
  <2>1. Cardinality(members[s]) \in Nat /\ GroupSize[condOf'[s]] \in Nat
    BY FS_CardinalityType, SessionStoreAssumption
       DEF IInv, SeatsFinite, TypeOK, StoreTypeOK
  <2> QED BY <2>1 DEF IInv, GroupWithinSize
<1>5. SeenExists' /\ RemovalSawLobby'
  BY <1>2 DEF IInv, SeenExists, RemovalSawLobby
<1>6. ChainHeld'
  BY <1>1, <1>2 DEF IInv, ChainHeld, InChain, Actors
<1>7. SeatStillFree'
  <2>1. \A t \in Sessions :
          Of[r] \in members[t] => Of[r] \notin Prolific /\ status[t] = "aborted"
    BY DEF SeatsOf
  <2>2. \A t \in Sessions :
          Of[r] \in members'[t] => Of[r] \notin Prolific /\ status'[t] \in Over
    BY <2>1 DEF Over
  <2>3. \A q \in Requests : pc'[q] = "add" => q = r
    BY <1>1, <1>2 DEF Actors
  <2> QED BY <1>2, <2>2, <2>3 DEF SeatStillFree
<1> QED BY <1>3, <1>4, <1>5, <1>6, <1>7 DEF IInv

\* All three ways a seat search ends keep the invariant.
LEMMA ChooseSeatStep ==
    ASSUME IInv, UNCHANGED provisionVars, NEW r \in Requests, ChooseSeat(r)
    PROVE  IInv'
<1>1. PICK wanted \in {Conditions} \cup {{c} : c \in Conditions} :
        \/ /\ Forming(wanted) # {}
           /\ Choose(r, Oldest(Forming(wanted)))
           /\ UNCHANGED <<owner, tableVars>>
        \/ /\ Unused # {}
           /\ \E c \in Assignable(wanted) :
                CreateForming(Oldest(Unused), c) /\ Choose(r, Oldest(Unused))
           /\ UNCHANGED owner
        \/ Goto(r, "idle") /\ Leave /\ UNCHANGED <<seen, tableVars>>
  BY DEF ChooseSeat
<1>2. /\ pc[r] = "lookup" /\ SeatsOf(Of[r]) = {}
      /\ UNCHANGED <<rows, todo, roster, victims, studyVars, outcomeVars>>
  BY DEF ChooseSeat
<1>3. ASSUME NEW s \in Sessions, Choose(r, s),
             UNCHANGED owner, UNCHANGED tableVars \/ \E c \in Conditions : CreateForming(s, c)
      PROVE  TypeOK'
  <2>1. StoreTypeOK'
    <3>1. CASE UNCHANGED tableVars
      BY <1>2, <3>1
         DEF IInv, TypeOK, StoreTypeOK, tableVars, rowVars, seatVars, studyVars, outcomeVars
    <3>2. CASE \E c \in Conditions : CreateForming(s, c)
      BY <1>2, <3>2, SessionStoreAssumption
         DEF CreateForming, IInv, TypeOK, StoreTypeOK, seatVars, studyVars, outcomeVars,
             Statuses
    <3> QED BY <1>3, <3>1, <3>2
  <2>2. MatchmakingTypeOK'
    BY <1>2, <1>3, MatchmakingAssumption
       DEF Choose, Goto, IInv, TypeOK, MatchmakingTypeOK, Actors, Stages, SeatReads, Statuses
  <2>3. ProvisioningTypeOK'
    BY DEF IInv, TypeOK, ProvisioningTypeOK, provisionVars
  <2> QED BY <2>1, <2>2, <2>3 DEF TypeOK
<1>4. CASE /\ Forming(wanted) # {}
           /\ Choose(r, Oldest(Forming(wanted)))
           /\ UNCHANGED <<owner, tableVars>>
  <2> DEFINE s == Oldest(Forming(wanted))
  <2>1. s \in Forming(wanted) /\ s \in Sessions
    BY <1>4, FormingFound
  <2>2. status[s] = "waiting" /\ Cardinality(members[s]) < GroupSize[condOf[s]]
    BY <2>1 DEF Forming
  <2>3. Choose(r, s)
    BY <1>4
  <2> HIDE DEF s
  <2>4. TypeOK'
    BY <1>3, <1>4, <2>1, <2>3
  <2> QED BY <1>2, <1>4, <2>1, <2>2, <2>3, <2>4, SeatChosen
          DEF tableVars, rowVars, seatVars, studyVars
<1>5. CASE /\ Unused # {}
           /\ \E c \in Assignable(wanted) :
                CreateForming(Oldest(Unused), c) /\ Choose(r, Oldest(Unused))
           /\ UNCHANGED owner
  <2> DEFINE s == Oldest(Unused)
  <2>1. s \in Unused /\ s \in Sessions
    BY <1>5, UnusedFound
  <2>2. PICK c \in Conditions : CreateForming(s, c) /\ Choose(r, s)
    BY <1>5 DEF Assignable, Recruiting
  <2> HIDE DEF s
  <2>3. TypeOK'
    BY <1>3, <1>5, <2>1, <2>2
  <2>4. /\ status[s] = "unused" /\ status'[s] = "waiting"
        /\ condOf'[s] = c /\ members' = members
        /\ \A t \in Sessions \ {s} : status'[t] = status[t] /\ condOf'[t] = condOf[t]
    BY <2>1, <2>2 DEF Unused, CreateForming, seatVars, IInv, TypeOK, StoreTypeOK
  <2>5. Cardinality(members[s]) < GroupSize[condOf'[s]]
    <3>1. members[s] = {}
      BY <2>1, <2>4 DEF IInv, UnusedUntouched
    <3>2. Cardinality(members[s]) = 0
      BY <3>1, FS_EmptySet
    <3>3. GroupSize[c] \in Nat \ {0}
      BY SessionStoreAssumption
    <3> QED BY <2>4, <3>2, <3>3
  <2> QED BY <1>2, <1>5, <2>1, <2>2, <2>3, <2>4, <2>5, SeatChosen DEF studyVars
<1>6. CASE Goto(r, "idle") /\ Leave /\ UNCHANGED <<seen, tableVars>>
  <2>1. owner = r
    BY <1>2, NobodyElseChose DEF InChain
  <2>2. TypeOK'
    BY <1>2, <1>6
       DEF Goto, Leave, IInv, TypeOK, StoreTypeOK, MatchmakingTypeOK,
           ProvisioningTypeOK, provisionVars, tableVars, rowVars, seatVars, studyVars,
           outcomeVars, Stages
  <2>3. Settle /\ Alone(r)
    BY <1>2, <1>6, <2>1
       DEF Settle, Alone, Goto, Leave, tableVars, rowVars, seatVars, studyVars, Actors
  <2>4. Sound(r)'
    BY <1>2, <1>6, MatchmakingAssumption
       DEF Sound, InChain, Goto, IInv, TypeOK, MatchmakingTypeOK, SeenExists,
           tableVars, Actors
  <2> QED BY <2>2, <2>3, <2>4, ActorStep DEF Actors
<1> QED BY <1>1, <1>4, <1>5, <1>6

\* Writing the chosen seat keeps size and uniqueness: this is where
\* SeatStillFree is used.
LEMMA AddSeatStep ==
    ASSUME IInv, UNCHANGED provisionVars, NEW r \in Requests, AddSeat(r)
    PROVE  IInv'
<1> DEFINE s == seen[r].session
           p == Of[r]
<1>1. owner = r /\ \A q \in Requests : pc[q] = "add" => q = r
  BY NobodyElseChose DEF InChain, AddSeat
<1>2. /\ s \in Sessions /\ p \in Participants /\ status[s] # "unused"
      /\ Cardinality(members[s]) < GroupSize[condOf[s]]
      /\ \A t \in Sessions : p \in members[t] => p \notin Prolific /\ status[t] \in Over
  BY MatchmakingAssumption DEF AddSeat, IInv, SeatStillFree, SeenExists, Actors
<1>3. /\ members' = [members EXCEPT ![s] = @ \cup {p}]
      /\ pc' = [pc EXCEPT ![r] = "access"]
      /\ owner' = Nobody
      /\ UNCHANGED <<status, condOf, roundOf, creds, overdue, round, active, ended,
                     silent, seen, rows, todo, roster, victims>>
  BY DEF AddSeat, AddParticipant, Goto, Leave, rowVars, studyVars, outcomeVars
<1> HIDE DEF s, p
<1>4. /\ members'[s] = members[s] \cup {p}
      /\ \A t \in Sessions \ {s} : members'[t] = members[t]
      /\ pc'[r] = "access"
      /\ \A x \in Actors \ {r} : pc'[x] = pc[x]
  BY <1>2, <1>3 DEF IInv, TypeOK, StoreTypeOK, MatchmakingTypeOK, Actors
<1>5. TypeOK'
  BY <1>2, <1>3
     DEF IInv, TypeOK, StoreTypeOK, MatchmakingTypeOK, ProvisioningTypeOK,
         provisionVars, Stages
<1>6. /\ IsFiniteSet(members'[s])
      /\ Cardinality(members'[s]) <= GroupSize[condOf[s]]
  <2>1. IsFiniteSet(members[s])
    BY <1>2 DEF IInv, SeatsFinite
  <2>2. GroupSize[condOf[s]] \in Nat
    BY <1>2, SessionStoreAssumption DEF IInv, TypeOK, StoreTypeOK
  <2>3. /\ IsFiniteSet(members'[s])
        /\ \/ Cardinality(members'[s]) = Cardinality(members[s])
           \/ Cardinality(members'[s]) = Cardinality(members[s]) + 1
    BY <1>4, <2>1, FS_AddElement
  <2>4. Cardinality(members[s]) \in Nat
    BY <2>1, FS_CardinalityType
  <2> QED BY <1>2, <2>2, <2>3, <2>4
<1>7. SeatsFinite' /\ GroupWithinSize'
  BY <1>3, <1>4, <1>6 DEF IInv, SeatsFinite, GroupWithinSize
<1>8. UnusedUntouched' /\ SeenExists' /\ OneClaim'
  BY <1>2, <1>3, <1>4
     DEF IInv, UnusedUntouched, SeenExists, OneClaim, provisionVars
<1>9. ChainHeld' /\ RemovalSawLobby' /\ RoundLeft' /\ SeatStillFree'
  <2>1. ChainHeld'
    BY <1>1, <1>3, <1>4, MatchmakingAssumption DEF IInv, ChainHeld, InChain, Actors
  <2>2. RemovalSawLobby' /\ RoundLeft'
    BY <1>3, <1>4, MatchmakingAssumption DEF IInv, RemovalSawLobby, RoundLeft, Actors
  <2>3. SeatStillFree'
    BY <1>1, <1>4 DEF SeatStillFree, Actors
  <2> QED BY <2>1, <2>2, <2>3
<1> QED BY <1>5, <1>7, <1>8, <1>9 DEF IInv

(***************************************************************************)
(* The surroundings, and the whole of Matchmaking                          *)
(***************************************************************************)

\* Deadlines, heartbeats and the recruiting switch change no seat.
LEMMA SurroundingsStep ==
    ASSUME IInv, UNCHANGED provisionVars, Surroundings
    PROVE  IInv'
<1>1. TypeOK'
  <2>1. StoreTypeOK'
    BY SessionStoreAssumption, MatchmakingAssumption
       DEF Surroundings, DeadlinePasses, FallSilent, Heartbeat, ToggleCondition, IInv,
           TypeOK, StoreTypeOK, rowVars, seatVars, tableVars, studyVars, outcomeVars
  <2> QED BY <2>1
          DEF Surroundings, IInv, TypeOK, MatchmakingTypeOK, ProvisioningTypeOK,
              actorVars, provisionVars
<1>2. UNCHANGED <<status, condOf, members, round>>
  BY DEF Surroundings, DeadlinePasses, FallSilent, Heartbeat, ToggleCondition,
         rowVars, seatVars, tableVars, studyVars
<1>3. Settle /\ UnusedUntouched' /\ UNCHANGED <<owner, pc, seen, round>>
  BY <1>2 DEF Settle, IInv, UnusedUntouched, provisionVars, Surroundings, actorVars
<1> QED BY <1>1, <1>3, BackgroundStep

\* Every step of seat assignment keeps the invariant.
LEMMA MatchmakingStep ==
    ASSUME IInv, MatchmakingNext, UNCHANGED provisionVars
    PROVE  IInv'
<1>1. ASSUME NEW x \in Actors, Sweeping(x) PROVE IInv'
  BY <1>1, AbortRowStep, ReadRosterStep, TerminateMemberStep, SweepDoneStep DEF Sweeping
<1>2. ASSUME NEW x \in Leavers \cup {Timer}, Leaving(x) PROVE IInv'
  BY <1>2, LeaveStartedStep, LeaveLobbyStep, RemoveSeatStep, LeaveProvisioningStep
     DEF Leaving
<1>3. ASSUME NEW r \in Requests, Request(r) PROVE IInv'
  BY <1>1, <1>3, OpenSessionStep, ReserveSeatStep, ReturnSeatStep, ChooseSeatStep,
     AddSeatStep, GrantAccessStep DEF Request, Actors
<1>4. ASSUME NEW p \in Leavers, Departure(p) PROVE IInv'
  BY <1>1, <1>2, <1>4, WithdrawStep DEF Departure, Actors
<1>5. ASSUME LifecycleTimer PROVE IInv'
  BY <1>1, <1>2, <1>5, TimerTickStep, ListStaleStep, ClaimVictimStep, StaleDoneStep
     DEF LifecycleTimer, Actors
<1>6. ASSUME Researcher PROVE IInv'
  BY <1>1, <1>6, StartRoundStep, StartNewRoundStep DEF Researcher, Actors
<1>7. ASSUME Surroundings PROVE IInv'
  BY <1>7, SurroundingsStep
<1> QED BY <1>3, <1>4, <1>5, <1>6, <1>7 DEF MatchmakingNext

----------------------------------------------------------------------------
(***************************************************************************)
(* The steps of Provisioning, and a restart                                *)
(***************************************************************************)

\* A provisioning step leaves the actors alone and creates no session.
LEMMA ProvisioningStep ==
    ASSUME IInv, ProvisioningNext, UNCHANGED actorVars
    PROVE  IInv'
<1>1. PICK s \in Sessions : Provision(s) \/ Completion(s)
  BY DEF ProvisioningNext
<1>2. status[s] # "unused"
  BY <1>1 DEF Provision, Completion, ReadFullGroup, ClaimGroup, StartChat, Publish,
              FailProvisioning, FinalizeRead, CompleteRead, CompleteWrite, Step,
              Unstarted, IInv, UnusedUntouched
<1>3. /\ \A t \in Sessions \ {s} : /\ status'[t] = status[t]
                                   /\ stage'[t] = stage[t]
                                   /\ chat'[t] = chat[t]
                                   /\ completing'[t] = completing[t]
      /\ status'[s] # "unused"
      /\ status[s] \in Over => status'[s] \in Over
      /\ UNCHANGED <<condOf, members, round>>
  BY <1>1, <1>2
     DEF Provision, Completion, ReadFullGroup, ClaimGroup, StartChat, Publish,
         FailProvisioning, FinalizeRead, CompleteRead, CompleteWrite, Step, SetStatus,
         storeVars, tableVars, rowVars, seatVars, studyVars, outcomeVars, Over, IInv,
         TypeOK, StoreTypeOK, ProvisioningTypeOK
<1>4. TypeOK'
  <2>1. /\ UNCHANGED <<condOf, roundOf, members, creds, overdue, round, active, ended, silent>>
        /\ \/ status' = status
           \/ \E st \in Statuses : status' = [status EXCEPT ![s] = st]
    BY <1>1
       DEF Provision, Completion, ReadFullGroup, ClaimGroup, StartChat, Publish,
           FailProvisioning, FinalizeRead, CompleteRead, CompleteWrite, SetStatus,
           storeVars, tableVars, rowVars, seatVars, studyVars, outcomeVars, Statuses
  <2>2. StoreTypeOK'
    BY <2>1 DEF IInv, TypeOK, StoreTypeOK
  <2>3. /\ \/ stage' = stage
           \/ \E st \in ProvisionStages : stage' = [stage EXCEPT ![s] = st]
        /\ \/ chat' = chat
           \/ \E c \in BOOLEAN : chat' = [chat EXCEPT ![s] = c]
        /\ \/ completing' = completing
           \/ \E c \in BOOLEAN : completing' = [completing EXCEPT ![s] = c]
    BY <1>1
       DEF Provision, Completion, ReadFullGroup, ClaimGroup, StartChat, Publish,
           FailProvisioning, FinalizeRead, CompleteRead, CompleteWrite, Step,
           ProvisionStages
  <2>4. ProvisioningTypeOK'
    BY <2>3 DEF IInv, TypeOK, ProvisioningTypeOK
  <2>5. MatchmakingTypeOK'
    BY DEF IInv, TypeOK, MatchmakingTypeOK, actorVars
  <2> QED BY <2>2, <2>4, <2>5 DEF TypeOK
<1>5. Settle /\ UnusedUntouched'
  BY <1>2, <1>3 DEF Settle, IInv, UnusedUntouched
<1> QED BY <1>3, <1>4, <1>5, BackgroundStep DEF actorVars

\* A restart forgets every promise in flight, so nothing chosen survives it.
LEMMA RestartStep ==
    ASSUME IInv, Restart
    PROVE  IInv'
<1>1. TypeOK'
  BY DEF Restart, IInv, TypeOK, StoreTypeOK, MatchmakingTypeOK, ProvisioningTypeOK,
         storeVars, tableVars, rowVars, seatVars, studyVars, outcomeVars, NoSeat,
         SeatReads, Stages, Statuses, ProvisionStages
<1>2. UNCHANGED <<status, condOf, members, round>>
  BY DEF Restart, storeVars, tableVars, rowVars, seatVars, studyVars
<1>3. SeatsFinite' /\ GroupWithinSize' /\ OneClaim' /\ SeatStillFree'
  BY <1>1, <1>2, SettleSeats DEF Settle, Restart, Actors
<1>4. UnusedUntouched' /\ SeenExists' /\ ChainHeld' /\ RemovalSawLobby' /\ RoundLeft'
  BY <1>2 DEF Restart, IInv, UnusedUntouched, SeenExists, ChainHeld, InChain,
              RemovalSawLobby, RoundLeft, NoSeat, Actors
<1> QED BY <1>1, <1>3, <1>4 DEF IInv

\* Every step of the system keeps the invariant.
LEMMA NextStep == IInv /\ [Next]_vars => IInv'
<1> SUFFICES ASSUME IInv, [Next]_vars PROVE IInv'
  OBVIOUS
<1>1. CASE UNCHANGED vars
  BY <1>1 DEF vars, storeVars, tableVars, rowVars, seatVars, studyVars, outcomeVars,
         actorVars, provisionVars, IInv, TypeOK, StoreTypeOK, MatchmakingTypeOK,
         ProvisioningTypeOK, SeatsFinite, UnusedUntouched, SeenExists, ChainHeld, InChain,
         SeatStillFree, RemovalSawLobby, RoundLeft, GroupWithinSize, OneClaim
<1>2. CASE Next
  BY <1>2, MatchmakingStep, ProvisioningStep, RestartStep DEF Next
<1> QED BY <1>1, <1>2

\* The empty table satisfies the invariant.
LEMMA InitHolds == Init => IInv
<1> SUFFICES ASSUME Init PROVE IInv
  OBVIOUS
<1> USE DEF Init, StoreInit, MatchmakingInit, ProvisioningInit
<1>1. TypeOK
  BY SessionStoreAssumption, MatchmakingAssumption
     DEF TypeOK, StoreTypeOK, MatchmakingTypeOK, ProvisioningTypeOK, Statuses, Stages,
         ProvisionStages, NoSeat, SeatReads
<1>2. SeatsFinite /\ GroupWithinSize
  <2>1. GroupSize \in [Conditions -> Nat \ {0}]
    BY SessionStoreAssumption
  <2> QED BY <1>1, <2>1, FS_EmptySet DEF SeatsFinite, GroupWithinSize, TypeOK, StoreTypeOK
<1>3. /\ UnusedUntouched /\ SeenExists /\ ChainHeld /\ SeatStillFree
      /\ RemovalSawLobby /\ RoundLeft /\ OneClaim
  BY DEF UnusedUntouched, SeenExists, ChainHeld, InChain, SeatStillFree,
         RemovalSawLobby, RoundLeft, OneClaim, NoSeat, Actors
<1> QED BY <1>1, <1>2, <1>3 DEF IInv

----------------------------------------------------------------------------
(***************************************************************************)
(* What a step can do to the sessions and their seats                      *)
(***************************************************************************)

Created(s) ==
    /\ status[s] = "unused"
    /\ status' = [status EXCEPT ![s] = "waiting"]
    /\ \E c \in Conditions : condOf' = [condOf EXCEPT ![s] = c]
    /\ members' = members

Advanced(s) ==
    /\ status[s] # "unused"
    /\ \E st \in Statuses \ {"unused"} :
        /\ status[s] \in Over => st \in Over
        /\ status' = [status EXCEPT ![s] = st]
    /\ UNCHANGED <<condOf, members>>

Seated(s, p) ==
    /\ status[s] # "unused"
    /\ Cardinality(members[s]) < GroupSize[condOf[s]]
    /\ \A t \in Sessions : p \in members[t] => p \notin Prolific /\ status[t] \in Over
    /\ members' = [members EXCEPT ![s] = @ \cup {p}]
    /\ UNCHANGED <<status, condOf>>

Unseated(s, p) ==
    /\ status[s] # "unused"
    /\ members' = [members EXCEPT ![s] = @ \ {p}]
    /\ \/ status' = status
       \/ /\ members[s] = {p} /\ status[s] = "waiting"
          /\ status' = [status EXCEPT ![s] = "aborted"]
    /\ UNCHANGED condOf

Shape ==
    \/ UNCHANGED <<status, condOf, members>>
    \/ \E s \in Sessions : Created(s) \/ Advanced(s)
    \/ \E s \in Sessions, p \in Participants : Seated(s, p) \/ Unseated(s, p)

\* Every step of seat assignment has one of the shapes above.
LEMMA MatchmakingShape ==
    ASSUME IInv, MatchmakingNext
    PROVE  Shape
<1>1. ASSUME NEW x \in Actors, Sweeping(x) PROVE Shape
  <2>1. ASSUME NEW s \in rows[x], StillAbortable(x, s), SetStatus(s, "aborted")
        PROVE  Advanced(s) /\ s \in Sessions
    BY <2>1 DEF StillAbortable, Unstarted, SetStatus, Advanced, Over, Statuses, rowVars,
                seatVars, IInv, TypeOK, MatchmakingTypeOK
  <2> QED BY <1>1, <2>1
          DEF Sweeping, AbortRow, ReadRoster, TerminateMember, SweepDone, Shape,
              storeVars, tableVars, rowVars, seatVars
<1>2. ASSUME NEW x \in Leavers \cup {Timer}, Leaving(x) PROVE Shape
  <2> DEFINE s == seen[x].session
  <2>1. CASE LeaveStarted(x) \/ LeaveLobby(x)
    BY <2>1 DEF LeaveStarted, LeaveLobby, Shape, storeVars, tableVars, rowVars, seatVars
  <2>2. CASE RemoveSeat(x)
    <3>1. s \in Sessions /\ status[s] # "unused"
      BY <2>2 DEF RemoveSeat, IInv, RemovalSawLobby, SeenExists, Actors
    <3>2. CASE seen[x].who \in Participants
      BY <2>2, <3>1, <3>2 DEF RemoveSeat, RemoveParticipant, Shape, Unseated, rowVars
    <3>3. CASE seen[x].who \notin Participants
      <4>1. \A t \in Sessions : seen[x].who \notin members[t]
        BY <3>3 DEF IInv, TypeOK, StoreTypeOK
      <4>2. UNCHANGED <<status, condOf, members>>
        BY <2>2, <3>1, <4>1
           DEF RemoveSeat, RemoveParticipant, rowVars, IInv, TypeOK, StoreTypeOK
      <4> QED BY <4>2 DEF Shape
    <3> QED BY <3>2, <3>3
  <2>3. CASE LeaveProvisioning(x)
    <3>1. s \in Sessions /\ status[s] # "unused"
      BY <2>3 DEF LeaveProvisioning, IInv, SeenExists, Actors
    <3>2. Advanced(s)
      BY <2>3, <3>1 DEF LeaveProvisioning, SetStatus, Advanced, Over, Statuses, rowVars,
                        seatVars
    <3> QED BY <3>1, <3>2 DEF Shape
  <2> QED BY <1>2, <2>1, <2>2, <2>3 DEF Leaving
<1>3. ASSUME NEW r \in Requests, Request(r) PROVE Shape
  <2>1. CASE OpenSession(r) \/ ReserveSeat(r) \/ ReturnSeat(r) \/ GrantAccess(r)
    BY <2>1 DEF OpenSession, ReserveSeat, ReturnSeat, GrantAccess, SetCreds, Shape,
                storeVars, tableVars, rowVars, seatVars
  <2>2. CASE ChooseSeat(r)
    <3>1. \/ UNCHANGED tableVars
          \/ /\ Unused # {}
             /\ \E c \in Conditions : CreateForming(Oldest(Unused), c)
      BY <2>2 DEF ChooseSeat, Assignable, Recruiting
    <3>2. ASSUME Unused # {}, NEW c \in Conditions, CreateForming(Oldest(Unused), c)
          PROVE  Created(Oldest(Unused)) /\ Oldest(Unused) \in Sessions
      <4> DEFINE u == Oldest(Unused)
      <4>1. u \in Unused /\ u \in Sessions
        BY <3>2, UnusedFound
      <4> HIDE DEF u
      <4>2. CreateForming(u, c)
        BY <3>2 DEF u
      <4>3. Created(u)
        BY <4>1, <4>2 DEF CreateForming, Created, Unused, seatVars
      <4> QED BY <4>1, <4>3 DEF u
    <3> QED BY <3>1, <3>2 DEF Shape, tableVars, rowVars, seatVars
  <2>3. CASE AddSeat(r)
    <3>1. /\ seen[r].session \in Sessions
          /\ Seated(seen[r].session, Of[r])
      BY <2>3 DEF AddSeat, AddParticipant, Seated, rowVars, IInv, SeatStillFree,
                  SeenExists, Actors
    <3>2. Of[r] \in Participants
      BY MatchmakingAssumption
    <3> QED BY <3>1, <3>2 DEF Shape
  <2> QED BY <1>1, <1>3, <2>1, <2>2, <2>3 DEF Request, Actors
<1>4. ASSUME NEW p \in Leavers, Departure(p) PROVE Shape
  BY <1>1, <1>2, <1>4
     DEF Departure, Withdraw, Shape, Actors, tableVars, rowVars, seatVars
<1>5. ASSUME LifecycleTimer PROVE Shape
  BY <1>1, <1>2, <1>5
     DEF LifecycleTimer, TimerTick, ListStale, ClaimVictim, StaleDone, Shape, Actors,
         storeVars, tableVars, rowVars, seatVars
<1>6. ASSUME Researcher PROVE Shape
  BY <1>1, <1>6
     DEF Researcher, StartRound, StartNewRound, Shape, Actors, storeVars, tableVars,
         rowVars, seatVars
<1>7. ASSUME Surroundings PROVE Shape
  BY <1>7 DEF Surroundings, DeadlinePasses, FallSilent, Heartbeat, ToggleCondition, Shape,
              tableVars, rowVars, seatVars
<1> QED BY <1>3, <1>4, <1>5, <1>6, <1>7 DEF MatchmakingNext

\* Every provisioning step does.
LEMMA ProvisioningShape ==
    ASSUME IInv, ProvisioningNext
    PROVE  Shape
<1>1. PICK s \in Sessions : Provision(s) \/ Completion(s)
  BY DEF ProvisioningNext
<1>2. status[s] # "unused"
  BY <1>1 DEF Provision, Completion, ReadFullGroup, ClaimGroup, StartChat, Publish,
              FailProvisioning, FinalizeRead, CompleteRead, CompleteWrite, Step,
              Unstarted, IInv, UnusedUntouched
<1>3. \/ UNCHANGED tableVars
      \/ SetStatus(s, "provisioning") /\ status[s] = "waiting"
      \/ SetStatus(s, "running") /\ status[s] = "provisioning"
      \/ SetStatus(s, "completed")
  BY <1>1 DEF Provision, Completion, ReadFullGroup, ClaimGroup, StartChat, Publish,
              FailProvisioning, FinalizeRead, CompleteRead, CompleteWrite, storeVars
<1>4. UNCHANGED <<status, condOf, members>> \/ Advanced(s)
  BY <1>2, <1>3 DEF SetStatus, Advanced, Over, Statuses, tableVars, rowVars, seatVars
<1> QED BY <1>4 DEF Shape

\* So does every step of the system.
LEMMA StepShape == IInv /\ [Next]_vars => Shape
<1> SUFFICES ASSUME IInv, [Next]_vars PROVE Shape
  OBVIOUS
<1>1. CASE Restart \/ UNCHANGED vars
  BY <1>1 DEF Restart, Shape, vars, storeVars, tableVars, rowVars, seatVars
<1> QED BY <1>1, MatchmakingShape, ProvisioningShape DEF Next

----------------------------------------------------------------------------
(***************************************************************************)
(* The results                                                             *)
(***************************************************************************)

\* The inductive invariant holds of every behaviour: two free seats are never
\* promised to two requests at once, because the chain serialises them.
THEOREM Invariance == Spec => []IInv
BY InitHolds, NextStep, PTL DEF Spec

\* Every variable keeps its type, for any number of actors, sessions and rounds.
THEOREM TypeCorrect == Spec => []TypeOK
<1>1. IInv => TypeOK
  BY DEF IInv
<1> QED BY <1>1, Invariance, PTL

\* findForming followed by addParticipant never overfills a group.
THEOREM SizeRespected == Spec => []GroupWithinSize
<1>1. IInv => GroupWithinSize
  BY DEF IInv
<1> QED BY <1>1, Invariance, PTL

\* Nobody holds two seats, whatever tabs they open.
THEOREM OneSeatEach == Spec => []OneSeat
<1>1. ASSUME NEW X, \A x, y \in X : x = y
      PROVE  Cardinality(X) <= 1
  <2>1. CASE X = {}
    BY <2>1, FS_EmptySet
  <2>2. CASE X # {}
    <3>1. PICK x \in X : X = {x}
      BY <1>1, <2>2
    <3>2. Cardinality({x}) = 1
      BY FS_Singleton
    <3> QED BY <3>1, <3>2
  <2> QED BY <2>1, <2>2
<1>2. IInv => OneSeat
  <2> SUFFICES ASSUME IInv, NEW p \in Participants
               PROVE  /\ Cardinality({s \in Sessions : p \in members[s] /\ status[s] \in Live}) <= 1
                      /\ p \in Prolific => Cardinality({s \in Sessions : p \in members[s]}) <= 1
    BY DEF OneSeat
  <2>1. \A s, t \in {u \in Sessions : p \in members[u] /\ status[u] \in Live} : s = t
    BY DEF IInv, OneClaim, Live, Over
  <2>2. p \in Prolific => \A s, t \in {u \in Sessions : p \in members[u]} : s = t
    BY DEF IInv, OneClaim
  <2> QED BY <1>1, <2>1, <2>2
<1> QED BY <1>2, Invariance, PTL

\* No provisioning attempt revives a session that ended.
THEOREM NoResurrection == Spec => EndedStaysEnded
<1>1. IInv /\ [Next]_vars =>
        [\A s \in Sessions :
            status[s] \in {"completed", "aborted"} => status'[s] \notin Live]_vars
  <2> SUFFICES ASSUME IInv, [Next]_vars, NEW s \in Sessions,
                      status[s] \in {"completed", "aborted"}
               PROVE  status'[s] \notin Live
    OBVIOUS
  <2>1. Shape
    BY StepShape
  <2> QED BY <2>1 DEF Shape, Created, Advanced, Seated, Unseated, Live, Over, IInv,
                      TypeOK, StoreTypeOK
<1> QED BY <1>1, Invariance, PTL DEF Spec, EndedStaysEnded

\* The abstract phase of a status.
LEMMA PhaseValues ==
    /\ PhaseOf("unused") = "none"
    /\ \A st \in Live : PhaseOf(st) = "live"
    /\ \A st \in Over : PhaseOf(st) = "over"
    /\ \A st \in Statuses \ {"unused"} : st \in Live \/ st \in Over
BY DEF PhaseOf, Live, Over, Statuses

\* Every step forms a group, seats, unseats, ends a group or is invisible.
LEMMA FormationStep ==
    ASSUME IInv, Shape
    PROVE  [Formation!Next]_(Formation!formationVars)
<1> DEFINE ph == [s \in Sessions |-> PhaseOf(status[s])]
           sz == [s \in Sessions |-> GroupSize[condOf[s]]]
<1>1. /\ status \in [Sessions -> Statuses]
      /\ condOf \in [Sessions -> Conditions]
      /\ members \in [Sessions -> SUBSET Participants]
  BY DEF IInv, TypeOK, StoreTypeOK
<1>2. CASE UNCHANGED <<status, condOf, members>>
  BY <1>2 DEF Formation!formationVars
<1>3. ASSUME NEW s \in Sessions, Created(s) PROVE Formation!Form(s)
  <2>1. PICK c \in Conditions : condOf' = [condOf EXCEPT ![s] = c]
    BY <1>3 DEF Created
  <2>2. ph[s] = "none" /\ ph' = [ph EXCEPT ![s] = "live"]
    BY <1>1, <1>3, PhaseValues DEF Created, Live
  <2>3. sz' = [sz EXCEPT ![s] = GroupSize[c]]
    BY <1>1, <2>1
  <2>4. GroupSize[c] \in {GroupSize[d] : d \in Conditions}
    OBVIOUS
  <2> QED BY <1>3, <2>2, <2>3, <2>4 DEF Formation!Form, Created
<1>4. ASSUME NEW s \in Sessions, Advanced(s)
      PROVE  Formation!End(s) \/ UNCHANGED Formation!formationVars
  <2>1. PICK st \in Statuses \ {"unused"} :
            /\ status[s] \in Over => st \in Over
            /\ status' = [status EXCEPT ![s] = st]
    BY <1>4 DEF Advanced
  <2>2. status[s] \in Statuses \ {"unused"}
    BY <1>1, <1>4 DEF Advanced
  <2>3. sz' = sz /\ members' = members
    BY <1>4 DEF Advanced
  <2>4. CASE PhaseOf(st) = PhaseOf(status[s])
    <3>1. ph' = ph
      BY <1>1, <2>1, <2>4
    <3> QED BY <2>3, <3>1 DEF Formation!formationVars
  <2>5. CASE PhaseOf(st) # PhaseOf(status[s])
    <3>1. PhaseOf(status[s]) = "live" /\ PhaseOf(st) = "over"
      BY <2>1, <2>2, <2>5, PhaseValues
    <3>2. ph[s] = "live" /\ ph' = [ph EXCEPT ![s] = "over"]
      BY <1>1, <2>1, <3>1
    <3> QED BY <2>3, <3>2 DEF Formation!End
  <2> QED BY <2>4, <2>5
<1>5. ASSUME NEW s \in Sessions, NEW p \in Participants, Seated(s, p)
      PROVE  Formation!Sit(p, s)
  <2>1. ph[s] # "none"
    BY <1>1, <1>5, PhaseValues DEF Seated
  <2>2. \A t \in Sessions : p \in members[t] => p \notin Prolific /\ ph[t] = "over"
    BY <1>5, PhaseValues DEF Seated
  <2>3. ph' = ph /\ sz' = sz
    BY <1>5 DEF Seated
  <2>4. Formation!Cardinality(members[s]) < sz[s]
    <3>1. Formation!Cardinality(members[s]) = Cardinality(members[s])
      BY Zenon DEF Formation!Cardinality, Cardinality, Formation!IsFiniteSet, IsFiniteSet
    <3> QED BY <1>5, <3>1 DEF Seated
  <2>5. Formation!MaySit(p, s)
    BY <2>1, <2>2, <2>4 DEF Formation!MaySit
  <2> QED BY <1>5, <2>3, <2>5 DEF Seated, Formation!Sit
<1>6. ASSUME NEW s \in Sessions, NEW p \in Participants, Unseated(s, p)
      PROVE  Formation!StandUp(p, s) \/ UNCHANGED Formation!formationVars
  <2>1. sz' = sz
    BY <1>6 DEF Unseated
  <2>2. CASE p \in members[s]
    <3>1. ph' = ph \/ (members[s] = {p} /\ ph' = [ph EXCEPT ![s] = "over"])
      BY <1>1, <1>6, PhaseValues DEF Unseated, Over
    <3> QED BY <1>6, <2>1, <2>2, <3>1 DEF Unseated, Formation!StandUp
  <2>3. CASE p \notin members[s]
    <3>1. UNCHANGED <<status, condOf, members>>
      BY <1>1, <1>6, <2>3 DEF Unseated
    <3> QED BY <3>1 DEF Formation!formationVars
  <2> QED BY <2>2, <2>3
<1> QED BY <1>2, <1>3, <1>4, <1>5, <1>6 DEF Shape, Formation!Next

\* Seat assignment, with all its locks, sweeps and restarts, implements the
\* atomic specification of group formation.
THEOREM Refinement == Spec => SeatsAreAtomic
<1>1. Init => Formation!Init
  <2> SUFFICES ASSUME Init PROVE Formation!Init
    OBVIOUS
  <2>1. condOf \in [Sessions -> Conditions]
    BY InitHolds DEF IInv, TypeOK, StoreTypeOK
  <2>2. /\ status = [s \in Sessions |-> "unused"]
        /\ members = [s \in Sessions |-> {}]
    BY DEF Init, StoreInit
  <2> QED BY <2>1, <2>2, PhaseValues DEF Formation!Init
<1>2. IInv /\ [Next]_vars => [Formation!Next]_(Formation!formationVars)
  BY StepShape, FormationStep
<1> QED BY <1>1, <1>2, Invariance, PTL DEF Spec, SeatsAreAtomic, Formation!Spec
=============================================================================
