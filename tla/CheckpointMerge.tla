--------------------------- MODULE CheckpointMerge ---------------------------
(***************************************************************************)
(* The snapshots the Chat Service sends of one discussion, and the merge   *)
(* by which the Session Manager adds one to the research record            *)
(* (runtime-checkpoint.ts in the database, checkpoint-merge.ts in memory). *)
(* Collections only grow; mutable values follow the revision.              *)
(*                                                                         *)
(* A timeline event is a member of Messages, a member of Moves (an edit of *)
(* the shared ranking, which is recorded as a ranking state and as a       *)
(* behavioural event) or the boundary of the window whose nudge it is.     *)
(***************************************************************************)
EXTENDS Naturals, Sequences

CONSTANTS
    Messages,   \* the participants' messages
    Moves,      \* the participants' edits of the shared ranking
    Duration,   \* length of the discussion, in contribution windows
    Verdicts    \* classifications a message can get

ASSUME DurationAssumption == Duration \in Nat \ {0}

\* A message invites others to speak, or it counts as airtime, meaningful or
\* not.
ASSUME VerdictsAssumption == Verdicts \subseteq {"meaningful", "empty", "invites"}

Boundaries == 1 .. Duration

\* Matrix gives every event an identity of its own.
ASSUME EventsAssumption == Boundaries \cap (Messages \cup Moves) = {}

Events == Messages \cup Moves \cup Boundaries

Items(s) == {s[i] : i \in DOMAIN s}

Unjudged == [m \in Messages |-> "none"]

Windows == [end : Boundaries, life : Nat, nudged : BOOLEAN]

Empty ==
    [revision  |-> 0,         \* counts the snapshots taken
     log       |-> {},        \* messages and behavioural events
     order     |-> <<>>,      \* rankingHistory
     verdict   |-> Unjudged,  \* contributionClassifications
     failed    |-> {},        \* classificationFailures, by message
     windows   |-> {},        \* windowEvaluations and interventions, by id
     processed |-> {}]        \* processedEventIds

\* Seeded bug: a late snapshot is as good as a newer one.
AcceptsAny(incoming, stored) == TRUE

\* acceptsCheckpointState
Accepts(incoming, stored) == incoming.revision >= stored.revision

\* mergeCheckpointValues: an accepted snapshot replaces, a late one only adds.
Replaced(stored, incoming, accepts) ==
    [m \in Messages |->
        IF incoming[m] # "none" /\ (accepts \/ stored[m] = "none")
        THEN incoming[m] ELSE stored[m]]

\* The elements of a sequence that are in a set, in their order (filter).
Selected(s, wanted) ==
    LET upTo[i \in 0 .. Len(s)] ==
            IF i = 0 THEN <<>>
            ELSE IF s[i] \in wanted THEN Append(upTo[i - 1], s[i]) ELSE upTo[i - 1]
    IN  upTo[Len(s)]

\* appendUnique, appendRankingHistory
Appended(stored, incoming) ==
    stored \o Selected(incoming, Moves \ Items(stored))

\* Seeded bug: the messages of a late snapshot are dropped, its marks are not.
MergedMarks(stored, incoming) ==
    LET accepts == Accepts(incoming, stored) IN
    [revision  |-> IF accepts THEN incoming.revision ELSE stored.revision,
     log       |-> IF accepts THEN stored.log \cup incoming.log ELSE stored.log,
     order     |-> Appended(stored.order, incoming.order),
     verdict   |-> Replaced(stored.verdict, incoming.verdict, accepts),
     failed    |-> stored.failed \cup incoming.failed,
     windows   |-> stored.windows \cup incoming.windows,
     processed |-> stored.processed \cup incoming.processed]

\* mergeCheckpointIntoSession, persistRuntimeCheckpoint
Merged(stored, incoming) ==
    LET accepts == Accepts(incoming, stored) IN
    [revision  |-> IF accepts THEN incoming.revision ELSE stored.revision,
     log       |-> stored.log \cup incoming.log,
     order     |-> Appended(stored.order, incoming.order),
     verdict   |-> Replaced(stored.verdict, incoming.verdict, accepts),
     failed    |-> stored.failed \cup incoming.failed,
     windows   |-> stored.windows \cup incoming.windows,
     processed |-> stored.processed \cup incoming.processed]

\* session.ranking: the last state of the newest snapshot that has one.
Latest(ranking, stored, incoming) ==
    IF Accepts(incoming, stored) /\ incoming.order # <<>>
    THEN incoming.order[Len(incoming.order)] ELSE ranking
=============================================================================
