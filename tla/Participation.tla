---------------------------- MODULE Participation ----------------------------
(***************************************************************************)
(* How a Prolific participation ends.  Three kinds of writer close a       *)
(* submission: the matchmaking chain (withdrawals, group aborts and the    *)
(* disconnect sweep, one at a time), the timer's sweep of expired lobbies, *)
(* which runs outside the chain, and completion requests of browser tabs.  *)
(* Each reads the row in one statement and writes it in a later one.       *)
(***************************************************************************)
EXTENDS ParticipationStore

CONSTANTS
    Chain,      \* the operation inside matchmakingChain
    Expiry,     \* the timer's sweepExpiredWaitingRooms
    Tabs        \* completion requests in flight at once

Writers == Tabs \cup {Chain, Expiry}

ASSUME WritersAssumption == Chain \notin Tabs \cup {Expiry} /\ Expiry \notin Tabs

VARIABLES
    op,         \* [Writers -> the write each is about to make]
    scanned,    \* what the running disconnect sweep listed and has not claimed
    claimed     \* disconnected submissions whose return is still to be requested

writerVars == <<op, scanned, claimed>>

NoOp == [step |-> "idle"]
Ops == {NoOp} \cup
       [step : {"check", "write", "complete"}, sub : Submissions,
        outcome : Outcomes \ {"open", "connection_timeout"}, kind : Kinds]

WriterTypeOK ==
    /\ op \in [Writers -> Ops]
    /\ scanned \subseteq [sub : Submissions, kind : Kinds]
    /\ claimed \subseteq Submissions

WriterInit == op = [w \in Writers |-> NoOp] /\ scanned = {} /\ claimed = {}

At(w, step) == op[w].step = step
Begin(w, step, s, o, k) ==
    op' = [op EXCEPT ![w] = [step |-> step, sub |-> s, outcome |-> o, kind |-> k]]
Finish(w) == op' = [op EXCEPT ![w] = NoOp]

----------------------------------------------------------------------------
(***************************************************************************)
(* What an ending entitles to                                              *)
(***************************************************************************)

DisconnectKind(st) ==
    CASE st \in {"waiting", "chat", "exit"} -> "partial"
      [] st = "entry"                       -> "manual_review"
      [] OTHER                              -> "none"

SelfKind(o, st) ==
    IF o = "voluntary_withdrawal" /\ st \in {"entry", "waiting", "chat", "exit"}
    THEN "manual_review" ELSE "none"

----------------------------------------------------------------------------
(***************************************************************************)
(* Terminations                                                            *)
(***************************************************************************)

\* terminateParticipation reads the stage the kind depends on.  It waits for
\* the sweep: both run inside the chain.
SelfTerminate(s, o) ==
    /\ At(Chain, "idle") /\ scanned = {}
    /\ Begin(Chain, "check", s, o, SelfKind(o, stage[s]))
    /\ UNCHANGED <<scanned, claimed, storeVars>>

\* terminateSessionParticipants: a seated submission of an aborted group; the
\* disconnect sweep aborts groups as well.  The timer's sweep of lobbies only
\* aborts those whose deadline passed, and the timer does one thing at a time.
GroupTerminate(w, s, o) ==
    /\ At(w, "idle")
    /\ w = Expiry => /\ o \in {"unmatched", "technical_failure"}
                     /\ scanned = {} /\ claimed = {}
    /\ outcome[s] = "open"
    /\ Rank(stage[s]) >= Rank("waiting")
    /\ Begin(w, "check", s, o, "partial")
    /\ UNCHANGED <<scanned, claimed, storeVars>>

\* The transaction of terminateProlificParticipation reads the outcome and
\* then updates the row by its id, without a condition on the outcome.
CheckOutcome(w) ==
    /\ At(w, "check")
    /\ IF outcome[op[w].sub] = "open"
       THEN Begin(w, "write", op[w].sub, op[w].outcome, op[w].kind)
       ELSE Finish(w)
    /\ UNCHANGED <<scanned, claimed, storeVars>>

WriteOutcome(w) ==
    /\ At(w, "write")
    /\ Terminate(op[w].sub, op[w].outcome, op[w].kind)
    /\ Finish(w)
    /\ UNCHANGED <<scanned, claimed>>

\* The disconnect sweep: listStaleProlificArrivals reads the stages ...
Silent == {s \in Submissions : outcome[s] = "open" /\ stale[s]}

ScanStale ==
    /\ At(Chain, "idle") /\ At(Expiry, "idle") /\ Silent # {}
    /\ scanned = {} /\ claimed = {}
    /\ scanned' = {[sub |-> s, kind |-> DisconnectKind(stage[s])] : s \in Silent}
    /\ UNCHANGED <<op, claimed, storeVars>>

\* Seeded bug: the claim does not look at the heartbeat again.
ClaimListed ==
    /\ At(Chain, "idle")
    /\ \E v \in scanned :
        /\ scanned' = scanned \ {v}
        /\ IF outcome[v.sub] = "open"
           THEN /\ Terminate(v.sub, "connection_timeout", v.kind)
                /\ claimed' = claimed \cup {v.sub}
           ELSE UNCHANGED <<claimed, storeVars>>
    /\ UNCHANGED op

\* Seeded bug: what the scan listed is collected, not what was terminated.
ClaimArrival ==
    /\ At(Chain, "idle")
    /\ \E v \in scanned :
        /\ scanned' = scanned \ {v}
        /\ claimed' = claimed \cup {v}
        /\ IF v.sub \in Silent THEN Terminate(v.sub, "connection_timeout", v.kind)
           ELSE UNCHANGED storeVars
    /\ UNCHANGED op

\* ... and terminateStaleProlificParticipation claims each row that is still
\* open and still stale.
ClaimStale ==
    /\ At(Chain, "idle")
    /\ \E v \in scanned :
        /\ scanned' = scanned \ {v}
        /\ IF v.sub \in Silent
           THEN /\ Terminate(v.sub, "connection_timeout", v.kind)
                /\ claimed' = claimed \cup {v.sub}
           ELSE UNCHANGED <<claimed, storeVars>>
    /\ UNCHANGED op

----------------------------------------------------------------------------
(***************************************************************************)
(* Completion and heartbeats                                               *)
(***************************************************************************)

\* completeParticipant: refused after another outcome, nothing to do after a
\* completion.  Its participant has a seat.
ReadCompletion(t, s) ==
    /\ At(t, "idle")
    /\ outcome[s] = "open"
    /\ Rank(stage[s]) >= Rank("waiting")
    /\ Begin(t, "complete", s, "completed", "full")
    /\ UNCHANGED <<scanned, claimed, storeVars>>

WriteCompletion(t) ==
    /\ At(t, "complete")
    /\ Complete(op[t].sub)
    /\ Finish(t)
    /\ UNCHANGED <<scanned, claimed>>

Beat(s, m) == Heartbeat(s, m) /\ UNCHANGED writerVars

\* The cutoff of a sweep is fixed when it starts, so a submission it listed
\* does not fall behind that cutoff a second time.
FallSilent(s) ==
    /\ outcome[s] = "open" /\ ~ stale[s]
    /\ \A v \in scanned : v.sub # s
    /\ stale' = [stale EXCEPT ![s] = TRUE]
    /\ UNCHANGED <<stage, outcome, kind, action, writerVars>>

----------------------------------------------------------------------------
Closing(w) == CheckOutcome(w) \/ WriteOutcome(w)

ParticipationNext ==
    \/ \E s \in Submissions :
        \/ \E o \in SelfOutcomes : SelfTerminate(s, o)
        \/ \E w \in {Chain, Expiry}, o \in GroupOutcomes : GroupTerminate(w, s, o)
        \/ \E t \in Tabs : ReadCompletion(t, s)
        \/ \E m \in Milestones : Beat(s, m)
        \/ FallSilent(s)
    \/ \E w \in {Chain, Expiry} : Closing(w)
    \/ ScanStale \/ ClaimStale
    \/ \E t \in Tabs : WriteCompletion(t)
=============================================================================
