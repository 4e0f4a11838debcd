---------------------------- MODULE SharedRanking ----------------------------
(***************************************************************************)
(* The ranking a group edits together (SharedRanking.tsx): every browser   *)
(* shows its own copy, applies an edit at once and sends it to the Matrix  *)
(* room, whose order of events is what the Chat Service records.           *)
(*                                                                         *)
(* The Matrix client is external.  It announces an event of the room to    *)
(* the component, except one that this page sent: the page has seen that   *)
(* one as its local echo.  Requests of a page do not wait for each other,  *)
(* and one whose promise was rejected may have reached the room, or still  *)
(* reach it.                                                               *)
(***************************************************************************)
EXTENDS Naturals, Sequences

CONSTANTS
    Members,
    Initial,      \* the order the session starts with
    MaxEdits,     \* edits in a behaviour
    MaxTrouble    \* rejected sends and refreshes in a behaviour

Size == Len(Initial)

Items == {Initial[i] : i \in DOMAIN Initial}

\* Every item has one place.
Rankings ==
    {o \in [1 .. Size -> Items] :
        \A i, j \in 1 .. Size : o[i] = o[j] => i = j}

ASSUME InitialAssumption == Initial \in Seq(Items) /\ Initial \in Rankings

ASSUME BoundAssumption == MaxEdits \in Nat /\ MaxTrouble \in Nat

\* An event of the room, with the page that knows its transaction.
Events == [by : Members, page : Nat, order : Rankings]

Edits ==
    [by : Members, page : Nat, order : Rankings, previous : Rankings,
     number : 1 .. MaxEdits]

VARIABLES
    room,         \* the ranking events, in the order of the homeserver
    here,         \* members whose browser shows the discussion
    page,         \* how often a member has loaded it
    order,        \* order and appliedOrder, by member
    seen,         \* how many events of the room the browser knows
    waiting,      \* edits whose promise is pending
    travelling,   \* edits whose request may still reach the room
    edits,
    trouble,
    gaveUp,       \* members whose page had a send rejected
    alone,        \* history: nobody edited while the last edit was unsettled
    agreed        \* history: the last edits took turns

browserVars == <<here, page, order, seen>>
netVars == <<waiting, travelling>>
boundVars == <<edits, trouble>>
historyVars == <<gaveUp, alone, agreed>>
vars == <<room, browserVars, netVars, boundVars, historyVars>>

Init ==
    /\ room = <<>>
    /\ here = Members
    /\ page = [m \in Members |-> 0]
    /\ order = [m \in Members |-> Initial]
    /\ seen = [m \in Members |-> 0]
    /\ waiting = {}
    /\ travelling = {}
    /\ edits = 0
    /\ trouble = 0
    /\ gaveUp = {}
    /\ alone = FALSE
    /\ agreed = TRUE

----------------------------------------------------------------------------
(* Orders. *)

Place(o, id) == CHOOSE i \in 1 .. Len(o) : o[i] = id

Without(o, id) ==
    [i \in 1 .. Len(o) - 1 |-> IF i < Place(o, id) THEN o[i] ELSE o[i + 1]]

With(o, id, at) ==
    [i \in 1 .. Len(o) + 1 |->
        IF i < at THEN o[i] ELSE IF i = at THEN id ELSE o[i - 1]]

\* Seeded bug: the index is used as it is, although the item that is moved
\* still counts in it.
InsertAtIndex(o, id, index) ==
    [i \in 1 .. Len(o) |-> IF i = index THEN id ELSE o[i]]

\* insertBeforeAnchor: before the item that is at index, or at the end.
InsertBeforeAnchor(o, id, index) ==
    LET rest == Without(o, id) IN
    With(rest, id, IF index > Len(o) THEN Len(o) ELSE Place(rest, o[index]))

\* move: with the item below.
Swapped(o, i) == [o EXCEPT ![i] = o[i + 1], ![i + 1] = o[i]]

\* What the buttons and a drop can make of an order.  An item that is dropped
\* before itself or before the one below stays where it is.
Moved(o) ==
    {Swapped(o, i) : i \in 1 .. Size - 1}
      \cup {InsertBeforeAnchor(o, o[drop[1]], drop[2]) :
               drop \in {d \in (1 .. Size) \X (1 .. Size + 1) :
                           d[2] \notin {d[1], d[1] + 1}}}

----------------------------------------------------------------------------
(* The room. *)

OrderAt(k) == IF k = 0 THEN Initial ELSE room[k].order

LastOrder == OrderAt(Len(room))

\* This page sent it, so its echo is not announced.
Mine(m, e) == e.by = m /\ e.page = page[m]

\* Nothing is under way.
Quiet ==
    /\ waiting = {}
    /\ travelling = {}
    /\ \A m \in here : seen[m] = Len(room)

----------------------------------------------------------------------------
(* The component. *)

\* broadcast: apply, then send.
Edit(m) ==
    /\ m \in here
    /\ edits < MaxEdits
    /\ \E next \in Moved(order[m]) :
         LET e == [by |-> m, page |-> page[m], order |-> next,
                   previous |-> order[m], number |-> edits + 1]
         IN /\ order' = [order EXCEPT ![m] = next]
            /\ waiting' = waiting \cup {e}
            /\ travelling' = travelling \cup {e}
    /\ edits' = edits + 1
    /\ alone' = Quiet
    /\ agreed' = (agreed /\ Quiet)
    /\ UNCHANGED <<room, here, page, seen, trouble, gaveUp>>

\* The homeserver accepts the event.
Arrive(e) ==
    /\ travelling' = travelling \ {e}
    /\ room' = Append(room, [by |-> e.by, page |-> e.page, order |-> e.order])
    /\ agreed' = /\ agreed \/ alone
                 /\ e \in waiting \/ e.by \notin here \/ ~Mine(e.by, e)
    /\ UNCHANGED <<browserVars, waiting, boundVars, gaveUp, alone>>

\* The request is lost on its way.
Lose(e) ==
    /\ e \notin waiting
    /\ travelling' = travelling \ {e}
    /\ UNCHANGED <<room, browserVars, waiting, boundVars, historyVars>>

\* The promise of sendEvent resolves.
Sent(e) ==
    /\ e \notin travelling
    /\ waiting' = waiting \ {e}
    /\ UNCHANGED <<room, browserVars, travelling, boundVars, historyVars>>

\* Seeded bug: compares identities, so nothing is ever rolled back.
NeverRolledBack(m, e) == order[m]

\* The catch of broadcast: undo, unless another order is shown by now.
RolledBack(m, e) == IF order[m] = e.order THEN e.previous ELSE order[m]

\* The promise rejects: refused, or no answer.
Reject(e) ==
    /\ trouble < MaxTrouble
    /\ trouble' = trouble + 1
    /\ waiting' = waiting \ {e}
    /\ order' = [order EXCEPT ![e.by] = RolledBack(e.by, e)]
    /\ gaveUp' = gaveUp \cup {e.by}
    /\ agreed' = (agreed /\ e \in travelling)
    /\ UNCHANGED <<room, here, page, seen, travelling, edits, alone>>

\* Seeded bug: an own edit under way keeps another's order from being shown.
OwnFirst(m, e) ==
    IF Mine(m, e) \/ (\E s \in waiting : s.by = m) THEN order[m] ELSE e.order

\* onTimeline
Received(m, e) == IF Mine(m, e) THEN order[m] ELSE e.order

\* The next event of the room reaches the browser.
Sync(m) ==
    /\ m \in here
    /\ seen[m] < Len(room)
    /\ seen' = [seen EXCEPT ![m] = @ + 1]
    /\ order' = [order EXCEPT ![m] = Received(m, room[seen[m] + 1])]
    /\ UNCHANGED <<room, here, page, netVars, boundVars, historyVars>>

\* A refresh: the timeline is read again, and the order of its last ranking
\* event is shown.
Reload(m) ==
    /\ m \in here
    /\ trouble < MaxTrouble
    /\ trouble' = trouble + 1
    /\ page' = [page EXCEPT ![m] = @ + 1]
    /\ order' = [order EXCEPT ![m] = LastOrder]
    /\ seen' = [seen EXCEPT ![m] = Len(room)]
    /\ waiting' = {e \in waiting : e.by # m}
    /\ gaveUp' = gaveUp \ {m}
    /\ UNCHANGED <<room, here, travelling, edits, alone, agreed>>

\* The time is up, or the participant withdraws: the client is stopped.
Leave(m) ==
    /\ m \in here
    /\ here' = here \ {m}
    /\ waiting' = {e \in waiting : e.by # m}
    /\ UNCHANGED <<room, page, order, seen, travelling, boundVars, historyVars>>

Next ==
    \/ \E m \in Members : Edit(m) \/ Sync(m) \/ Reload(m) \/ Leave(m)
    \/ \E e \in travelling : Arrive(e) \/ Lose(e)
    \/ \E e \in waiting : Sent(e) \/ Reject(e)

Spec == Init /\ [][Next]_vars

----------------------------------------------------------------------------
(* Properties. *)

\* Whatever is shown, sent or rolled back ranks every item once; the counters
\* stay within what happened.
TypeOK ==
    /\ room \in Seq(Events)
    /\ here \subseteq Members
    /\ page \in [Members -> Nat]
    /\ order \in [Members -> Rankings]
    /\ seen \in [Members -> Nat]
    /\ \A m \in Members : seen[m] <= Len(room)
    /\ waiting \subseteq Edits
    /\ travelling \subseteq Edits
    /\ edits \in 0 .. MaxEdits
    /\ trouble \in 0 .. MaxTrouble
    /\ gaveUp \subseteq Members
    /\ alone \in BOOLEAN
    /\ agreed \in BOOLEAN

\* A page none of whose sends was rejected, that knows the whole room and has
\* nothing of its own on the way shows the last order of the room, however
\* the edits of the group overlapped, unless that last edit was its own.
LastWriteWins ==
    \A m \in here \ gaveUp :
        (/\ seen[m] = Len(room)
         /\ \A e \in travelling : ~Mine(m, e)
         /\ room = <<>> \/ ~Mine(m, room[Len(room)]))
        => order[m] = LastOrder

\* If the last edits took turns, everybody shows the last order of the room
\* once nothing is under way: after rejected sends, which are rolled back to
\* what the group saw, and again after an earlier disagreement.
TurnsAgree ==
    agreed /\ Quiet => \A m \in here : order[m] = LastOrder
=============================================================================
