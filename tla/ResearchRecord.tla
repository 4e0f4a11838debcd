--------------------------- MODULE ResearchRecord ---------------------------
(***************************************************************************)
(* What the Chat Service and the Session Manager together promise about    *)
(* the record of one discussion, whoever crashes and whatever call is      *)
(* lost, repeated or late: it holds only what really happened in the room, *)
(* nothing ever leaves it, and an ended session stays as it ended.         *)
(***************************************************************************)
CONSTANT Events

VARIABLES
    said,   \* the events of the room
    kept,   \* the events in the stored record
    closed  \* "no", "completed" or "aborted"

recordVars == <<said, kept, closed>>

Init == said = {} /\ kept = {} /\ closed = "no"

\* The group discusses until the session is closed; the bot may post while
\* its Chat Service still runs.
Say == \E e \in Events : said' = said \cup {e} /\ UNCHANGED <<kept, closed>>

\* A snapshot arrives, with any part of what was said.
Keep == /\ kept \subseteq kept' /\ kept' \subseteq said
        /\ UNCHANGED <<said, closed>>

Close == /\ closed = "no"
         /\ closed' \in {"completed", "aborted"}
         /\ UNCHANGED <<said, kept>>

Next == Say \/ Keep \/ Close

Spec == Init /\ [][Next]_recordVars
=============================================================================
