--------------------------- MODULE GroupFormation ---------------------------
(***************************************************************************)
(* What seat assignment promises, with every operation in one step: groups *)
(* form, people sit down in a group that has room, stand up again, and a   *)
(* group that is over stays over.  Nobody sits in two groups that are not  *)
(* over, and people who come once only (Prolific submissions) are never    *)
(* seated a second time.  Nothing is said about queues, deadlines, rooms   *)
(* or timers; SessionManager implements this specification.                *)
(***************************************************************************)
EXTENDS Integers, FiniteSets

CONSTANTS People, OnceOnly, Groups, Sizes

VARIABLES
    phase,   \* [Groups -> {"none", "live", "over"}]
    size,    \* [Groups -> Sizes], fixed when the group forms
    seats    \* [Groups -> SUBSET People]

formationVars == <<phase, size, seats>>

Init ==
    /\ phase = [g \in Groups |-> "none"]
    /\ size \in [Groups -> Sizes]
    /\ seats = [g \in Groups |-> {}]

Form(g) ==
    /\ phase[g] = "none"
    /\ phase' = [phase EXCEPT ![g] = "live"]
    /\ \E n \in Sizes : size' = [size EXCEPT ![g] = n]
    /\ UNCHANGED seats

MaySit(p, g) ==
    /\ phase[g] # "none"
    /\ Cardinality(seats[g]) < size[g]
    /\ \A h \in Groups : p \in seats[h] => p \notin OnceOnly /\ phase[h] = "over"

Sit(p, g) ==
    /\ MaySit(p, g)
    /\ seats' = [seats EXCEPT ![g] = @ \cup {p}]
    /\ UNCHANGED <<phase, size>>

\* The last one to leave a live group may end it.
StandUp(p, g) ==
    /\ p \in seats[g]
    /\ seats' = [seats EXCEPT ![g] = @ \ {p}]
    /\ \/ UNCHANGED phase
       \/ seats[g] = {p} /\ phase' = [phase EXCEPT ![g] = "over"]
    /\ UNCHANGED size

End(g) ==
    /\ phase[g] = "live"
    /\ phase' = [phase EXCEPT ![g] = "over"]
    /\ UNCHANGED <<size, seats>>

Next ==
    \E g \in Groups :
        \/ Form(g) \/ End(g)
        \/ \E p \in People : Sit(p, g) \/ StandUp(p, g)

Spec == Init /\ [][Next]_formationVars
=============================================================================
