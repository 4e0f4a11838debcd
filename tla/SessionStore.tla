---------------------------- MODULE SessionStore ----------------------------
(***************************************************************************)
(* The session table of the Session Manager and the StoreService methods   *)
(* that change it.  Each operator below is one database statement or one   *)
(* statement group that commits together: what happens BETWEEN two of them *)
(* is up to the callers, modelled in Matchmaking and Provisioning.         *)
(*                                                                         *)
(* A session is a number, handed out in creation order, so that "the       *)
(* oldest forming session" is the smallest one.  A row keeps the condition *)
(* snapshot, the round stamped at creation, the seated participants, who   *)
(* of them has Matrix credentials, and whether the waiting deadline has    *)
(* passed.                                                                 *)
(***************************************************************************)
EXTENDS Integers, FiniteSets

CONSTANTS
    Participants,   \* everybody who may ask for a seat
    Prolific,       \* those who arrived through Prolific; the rest are direct
    Conditions,     \* the study arms
    GroupSize,      \* [Conditions -> seats of one group]
    Goal,           \* [Conditions -> sessions wanted per round]
    MaxSessions,    \* bound: session rows ever created
    MaxRounds       \* bound: study rounds ever opened

ASSUME SessionStoreAssumption ==
    /\ Prolific \subseteq Participants
    /\ Conditions # {}
    /\ GroupSize \in [Conditions -> Nat \ {0}]
    /\ Goal \in [Conditions -> Nat]
    /\ MaxSessions \in Nat
    /\ MaxRounds \in Nat \ {0}

VARIABLES
    status,     \* [Sessions -> lifecycle status]; "unused" before creation
    condOf,     \* [Sessions -> Conditions]: the condition snapshot
    roundOf,    \* [Sessions -> round stamped at creation]
    members,    \* [Sessions -> seated participants]
    creds,      \* [Sessions -> members with a stored Matrix identity]
    overdue,    \* [Sessions -> BOOLEAN]: waitingDeadlineAt has passed
    round,      \* the open study round
    active,     \* [Conditions -> BOOLEAN]: recruiting switch of the arm
    ended,      \* Prolific submissions with a terminal outcome
    silent      \* Prolific submissions whose last heartbeat is too old

rowVars == <<condOf, roundOf>>
seatVars == <<members, creds>>
tableVars == <<status, condOf, roundOf, members, creds, overdue>>
studyVars == <<round, active>>
outcomeVars == <<ended, silent>>
storeVars == <<tableVars, studyVars, outcomeVars>>

Sessions == 1 .. MaxSessions
NoSession == 0
Statuses ==
    {"unused", "waiting", "provisioning", "running", "completed", "aborted"}
Unstarted == {"waiting", "provisioning"}

StoreTypeOK ==
    /\ status \in [Sessions -> Statuses]
    /\ condOf \in [Sessions -> Conditions]
    /\ roundOf \in [Sessions -> 0 .. MaxRounds]
    /\ members \in [Sessions -> SUBSET Participants]
    /\ creds \in [Sessions -> SUBSET Participants]
    /\ overdue \in [Sessions -> BOOLEAN]
    /\ round \in 1 .. MaxRounds
    /\ active \in [Conditions -> BOOLEAN]
    /\ ended \subseteq Prolific
    /\ silent \subseteq Prolific

StoreInit ==
    /\ status = [s \in Sessions |-> "unused"]
    /\ condOf = [s \in Sessions |-> CHOOSE c \in Conditions : TRUE]
    /\ roundOf = [s \in Sessions |-> 0]
    /\ members = [s \in Sessions |-> {}]
    /\ creds = [s \in Sessions |-> {}]
    /\ overdue = [s \in Sessions |-> FALSE]
    /\ round = 1
    /\ active = [c \in Conditions |-> TRUE]
    /\ ended = {}
    /\ silent = {}

----------------------------------------------------------------------------
(***************************************************************************)
(* Queries                                                                 *)
(***************************************************************************)

Oldest(S) == CHOOSE s \in S : \A t \in S : s <= t

\* Seeded bug: only sessions that started count against the goal.
ClaimedStarted(c) ==
    {s \in Sessions : /\ status[s] \in {"running", "completed"}
                      /\ condOf[s] = c
                      /\ roundOf[s] = round}

\* Sessions that count against a condition's goal in the open round.
Claimed(c) ==
    {s \in Sessions : /\ status[s] \notin {"unused", "aborted"}
                      /\ condOf[s] = c
                      /\ roundOf[s] = round}

Recruiting == {c \in Conditions : active[c] /\ Cardinality(Claimed(c)) < Goal[c]}

\* findForming: waiting, of the open round, of an arm that still recruits
\* participants, with a free seat.  `wanted` holds the arms the caller accepts.
Forming(wanted) ==
    {s \in Sessions : /\ status[s] = "waiting"
                      /\ roundOf[s] = round
                      /\ condOf[s] \in wanted
                      /\ active[condOf[s]]
                      /\ Cardinality(members[s]) < GroupSize[condOf[s]]}

\* Seeded bug: a Prolific seat in an aborted session is forgotten as well.
SeatsOfOpen(p) == {s \in Sessions : p \in members[s] /\ status[s] # "aborted"}

\* findByProlificSession finds the one seat of a submission whatever became
\* of its session; findByTrackingToken skips aborted sessions.
SeatsOf(p) ==
    {s \in Sessions : /\ p \in members[s]
                      /\ p \in Prolific \/ status[s] # "aborted"}

Full(s) == Cardinality(members[s]) >= GroupSize[condOf[s]]

\* The rows abortExpiredWaitingSessions and abortWaitingSessions select.
Expired == {s \in Sessions : status[s] \in Unstarted /\ overdue[s]}
LobbiesOverdue == {s \in Sessions : status[s] = "waiting" /\ overdue[s]}  \* seeded bug
Lobbies == {s \in Sessions : status[s] = "waiting"}

Unused == {s \in Sessions : status[s] = "unused"}

----------------------------------------------------------------------------
(***************************************************************************)
(* Updates of the session table                                            *)
(***************************************************************************)

SetStatus(s, st) ==
    /\ status' = [status EXCEPT ![s] = st]
    /\ UNCHANGED <<rowVars, seatVars, overdue>>

CreateForming(s, c) ==
    /\ status' = [status EXCEPT ![s] = "waiting"]
    /\ condOf' = [condOf EXCEPT ![s] = c]
    /\ roundOf' = [roundOf EXCEPT ![s] = round]
    /\ UNCHANGED <<seatVars, overdue>>

\* addParticipant inserts the row whatever the session's status is by then.
AddParticipant(s, p) ==
    /\ members' = [members EXCEPT ![s] = @ \cup {p}]
    /\ UNCHANGED <<status, rowVars, creds, overdue>>

\* Seeded bug: one departure aborts a lobby in which others still wait.
RemoveParticipantAndLobby(s, p) ==
    /\ members' = [members EXCEPT ![s] = @ \ {p}]
    /\ creds' = [creds EXCEPT ![s] = @ \ {p}]
    /\ status' = IF status[s] = "waiting" THEN [status EXCEPT ![s] = "aborted"] ELSE status
    /\ UNCHANGED <<rowVars, overdue>>

\* Second half of removeParticipantFromWaitingSession: the delete, and the
\* abort of a lobby nobody is left in.
RemoveParticipant(s, p) ==
    /\ members' = [members EXCEPT ![s] = @ \ {p}]
    /\ creds' = [creds EXCEPT ![s] = @ \ {p}]
    /\ status' = IF p \in members[s] /\ members[s] = {p} /\ status[s] = "waiting"
                 THEN [status EXCEPT ![s] = "aborted"]
                 ELSE status
    /\ UNCHANGED <<rowVars, overdue>>

SetCreds(s, p) ==
    /\ p \in members[s]
    /\ creds' = [creds EXCEPT ![s] = @ \cup {p}]
    /\ UNCHANGED <<status, rowVars, members, overdue>>

(***************************************************************************)
(* Time, browsers and the researcher                                       *)
(***************************************************************************)

\* The waiting deadline of an unstarted group passes.
DeadlinePasses(s) ==
    /\ status[s] \in Unstarted
    /\ ~ overdue[s]
    /\ overdue' = [overdue EXCEPT ![s] = TRUE]
    /\ UNCHANGED <<status, rowVars, seatVars, studyVars, outcomeVars>>

\* The last heartbeat of a submission falls behind the reconnect grace.
FallSilent(p) ==
    /\ p \notin ended
    /\ p \notin silent
    /\ silent' = silent \cup {p}
    /\ UNCHANGED <<tableVars, studyVars, ended>>

\* A heartbeat (recordParticipationStage) of a live submission.
Heartbeat(p) ==
    /\ p \in silent
    /\ p \notin ended
    /\ silent' = silent \ {p}
    /\ UNCHANGED <<tableVars, studyVars, ended>>

\* The researcher switches an arm off or on (PUT /conditions/:id).
ToggleCondition(c) ==
    /\ active' = [active EXCEPT ![c] = ~ @]
    /\ UNCHANGED <<tableVars, round, outcomeVars>>
=============================================================================
