---------------------------- MODULE Provisioning ----------------------------
(***************************************************************************)
(* RoomProvisioner and the two ways a session completes.                   *)
(*                                                                         *)
(* Provisioning is single-flight per session (provisionChains) but takes   *)
(* no part in the matchmaking chain: it reads a full group, claims it,     *)
(* builds the Matrix room, makes the Chat Service accept the session and   *)
(* publishes it as running.  Any of these calls may fail; the waiting      *)
(* room's poll starts the whole attempt again.  Completion, reported by    *)
(* the Chat Service or requested over HTTP, reads the status and writes    *)
(* "completed" in a second statement.                                      *)
(***************************************************************************)
EXTENDS SessionStore

VARIABLES
    stage,      \* [Sessions -> ProvisionStages]: the running attempt
    chat,       \* [Sessions -> BOOLEAN]: the Chat Service manages the session
    completing  \* [Sessions -> BOOLEAN]: status read, "completed" not written

provisionVars == <<stage, chat, completing>>

ProvisionStages ==
    {"idle",
     "claim",    \* a full waiting group was read
     "start",    \* the group is claimed, the Chat Service not told yet
     "publish"}  \* the Chat Service accepted, "running" not written

ProvisioningTypeOK ==
    /\ stage \in [Sessions -> ProvisionStages]
    /\ chat \in [Sessions -> BOOLEAN]
    /\ completing \in [Sessions -> BOOLEAN]

ProvisioningInit ==
    /\ stage = [s \in Sessions |-> "idle"]
    /\ chat = [s \in Sessions |-> FALSE]
    /\ completing = [s \in Sessions |-> FALSE]

Step(s, from, to) ==
    /\ stage[s] = from
    /\ stage' = [stage EXCEPT ![s] = to]

\* ensureProvisioned: an unstarted, full group all of whose members have
\* credentials.  A group claimed by an earlier attempt skips the claim.
ReadFullGroup(s) ==
    /\ status[s] \in Unstarted
    /\ Full(s)
    /\ members[s] \subseteq creds[s]
    /\ Step(s, "idle", IF status[s] = "waiting" THEN "claim" ELSE "start")
    /\ UNCHANGED <<chat, completing, storeVars>>

\* claimSessionProvisioning: conditional on the status alone.
ClaimGroup(s) ==
    /\ \/ /\ status[s] = "waiting"
          /\ Step(s, "claim", "start")
          /\ SetStatus(s, "provisioning")
       \/ /\ status[s] # "waiting"
          /\ Step(s, "claim", IF status[s] = "provisioning" THEN "start" ELSE "idle")
          /\ UNCHANGED tableVars
    /\ UNCHANGED <<chat, completing, studyVars, outcomeVars>>

\* The room is built (a handle stored by an earlier attempt is reused) and
\* every member joined to it; POST /internal/sessions/start, idempotent by
\* room, is the one call of this part that another actor can see.
StartChat(s) ==
    /\ Step(s, "start", "publish")
    /\ chat' = [chat EXCEPT ![s] = TRUE]
    /\ UNCHANGED <<completing, storeVars>>

\* finishSessionProvisioning: only a session still provisioning starts.
Publish(s) ==
    /\ Step(s, "publish", "idle")
    /\ IF status[s] = "provisioning" THEN SetStatus(s, "running")
                                     ELSE UNCHANGED tableVars
    /\ UNCHANGED <<chat, completing, studyVars, outcomeVars>>

\* The homeserver, the Chat Service or the database fails the attempt.  A
\* start request whose answer was lost has reached the Chat Service.
FailProvisioning(s) ==
    /\ stage[s] # "idle"
    /\ stage' = [stage EXCEPT ![s] = "idle"]
    /\ UNCHANGED <<chat, completing, storeVars>>

\* finalizeSession reads the status: an aborted session stays aborted.
FinalizeRead(s) ==
    /\ chat[s]
    /\ ~ completing[s]
    /\ completing' = [completing EXCEPT ![s] = status[s] # "aborted"]
    /\ chat' = [chat EXCEPT ![s] = FALSE]
    /\ UNCHANGED <<stage, storeVars>>

\* completeSession (POST /sessions/:id/complete) reads the status.
CompleteRead(s) ==
    /\ status[s] \notin {"unused", "completed", "aborted"}
    /\ ~ completing[s]
    /\ completing' = [completing EXCEPT ![s] = TRUE]
    /\ UNCHANGED <<stage, chat, storeVars>>

\* Either then writes "completed" over whatever the status is by now.
CompleteWrite(s) ==
    /\ completing[s]
    /\ completing' = [completing EXCEPT ![s] = FALSE]
    /\ SetStatus(s, "completed")
    /\ UNCHANGED <<stage, chat, studyVars, outcomeVars>>

Provision(s) ==
    \/ ReadFullGroup(s) \/ ClaimGroup(s) \/ StartChat(s) \/ Publish(s)
    \/ FailProvisioning(s)

Completion(s) == FinalizeRead(s) \/ CompleteRead(s) \/ CompleteWrite(s)

ProvisioningNext == \E s \in Sessions : Provision(s) \/ Completion(s)
=============================================================================
