------------------------- MODULE SharedRanking_proofs -------------------------
(* Proofs about SharedRanking. *)
EXTENDS SharedRanking, TLAPS

----------------------------------------------------------------------------
(* Orders: the buttons and a drop keep every item in one place. *)

LEMMA SizeNat == Size \in Nat
  BY InitialAssumption DEF Size

\* An order is a sequence of its items.
LEMMA RankingLength ==
    ASSUME NEW o \in Rankings
    PROVE  /\ o \in Seq(Items)
           /\ Len(o) = Size
           /\ o \in [1 .. Size -> Items]
           /\ \A i, j \in 1 .. Size : o[i] = o[j] => i = j
  BY SizeNat DEF Rankings

LEMMA SwappedRanks ==
    ASSUME NEW o \in Rankings, NEW i \in 1 .. Size - 1
    PROVE  Swapped(o, i) \in Rankings
  BY SizeNat, RankingLength DEF Swapped, Rankings

\* Taking one item out.
LEMMA WithoutKeeps ==
    ASSUME NEW o \in Rankings, NEW i \in 1 .. Size
    PROVE  Without(o, o[i]) = [k \in 1 .. Size - 1 |->
                                 IF k < i THEN o[k] ELSE o[k + 1]]
<1>1. Place(o, o[i]) = i
  BY SizeNat, RankingLength DEF Place
<1> QED
  BY <1>1, SizeNat, RankingLength DEF Without

\* The place of another item once one was taken out.
LEMMA PlaceWithout ==
    ASSUME NEW o \in Rankings, NEW i \in 1 .. Size, NEW k \in 1 .. Size, k # i
    PROVE  Place(Without(o, o[i]), o[k]) = IF k < i THEN k ELSE k - 1
<1> DEFINE rest == [n \in 1 .. Size - 1 |-> IF n < i THEN o[n] ELSE o[n + 1]]
           at == IF k < i THEN k ELSE k - 1
<1>1. at \in 1 .. Size - 1 /\ rest[at] = o[k]
  BY SizeNat
<1>2. \A n \in 1 .. Size - 1 : rest[n] = o[k] => n = at
  BY SizeNat, RankingLength
<1>3. Len(rest) = Size - 1
  BY SizeNat
<1>4. Place(rest, o[k]) = at
  <2> HIDE DEF rest, at
  <2> QED
    BY <1>1, <1>2, <1>3 DEF Place
<1> QED
  BY <1>4, WithoutKeeps

LEMMA InsertRanks ==
    ASSUME NEW o \in Rankings, NEW i \in 1 .. Size, NEW index \in 1 .. Size + 1,
           index # i
    PROVE  InsertBeforeAnchor(o, o[i], index) \in Rankings
<1> DEFINE rest == Without(o, o[i])
           at == IF index > Size THEN Size ELSE Place(rest, o[index])
           new == [k \in 1 .. Size |->
                     IF k < at THEN rest[k] ELSE IF k = at THEN o[i] ELSE rest[k - 1]]
<1>1. at \in 1 .. Size
  <2>1. CASE index > Size
    BY <2>1, SizeNat
  <2>2. CASE ~(index > Size)
    <3>1. index \in 1 .. Size
      BY <2>2, SizeNat
    <3> QED
      BY <3>1, <2>2, PlaceWithout, SizeNat
  <2> QED
    BY <2>1, <2>2
<1>2. rest = [k \in 1 .. Size - 1 |-> IF k < i THEN o[k] ELSE o[k + 1]]
  BY WithoutKeeps
<1>3. Len(rest) + 1 = Size
  BY <1>2, SizeNat
<1>4. InsertBeforeAnchor(o, o[i], index) = new
  BY <1>3, RankingLength DEF InsertBeforeAnchor, With
<1> HIDE DEF at
<1>5. new \in [1 .. Size -> Items]
  <2>1. \A k \in 1 .. Size - 1 : rest[k] \in Items
    BY <1>2, SizeNat, RankingLength
  <2>2. \A k \in 1 .. Size : /\ k < at => k \in 1 .. Size - 1
                             /\ k > at => k - 1 \in 1 .. Size - 1
    BY <1>1, SizeNat
  <2> HIDE DEF rest
  <2>3. ASSUME NEW k \in 1 .. Size
        PROVE  (IF k < at THEN rest[k] ELSE IF k = at THEN o[i] ELSE rest[k - 1]) \in Items
    BY <1>1, <2>1, <2>2, SizeNat, RankingLength
  <2> QED
    BY <2>3
<1>6. \A k \in 1 .. Size - 1 : rest[k] # o[i]
  BY <1>2, SizeNat, RankingLength
<1>7. ASSUME NEW k \in 1 .. Size - 1, NEW n \in 1 .. Size - 1, rest[k] = rest[n]
      PROVE  k = n
  <2>1. \A j \in 1 .. Size - 1 : \/ j < i /\ rest[j] = o[j]
                                 \/ i <= j /\ rest[j] = o[j + 1]
    BY <1>2, SizeNat
  <2> QED
    BY <2>1, <1>7, SizeNat, RankingLength
<1> HIDE DEF rest
<1>8. ASSUME NEW k \in 1 .. Size, NEW n \in 1 .. Size, new[k] = new[n]
      PROVE  k = n
  BY <1>8, <1>1, <1>6, <1>7, SizeNat
<1> QED
  BY <1>4, <1>5, <1>8 DEF Rankings

LEMMA MovedRanks ==
    ASSUME NEW o \in Rankings
    PROVE  Moved(o) \subseteq Rankings
  BY SwappedRanks, InsertRanks, SizeNat DEF Moved

----------------------------------------------------------------------------
(* Types. *)

\* A pending promise belongs to the page that is shown.
WaitingCurrent == \A e \in waiting : e.by \in here /\ Mine(e.by, e)

IndTypes == TypeOK /\ WaitingCurrent

LEMMA InitTypes == Init => IndTypes
<1> SUFFICES ASSUME Init PROVE IndTypes
  OBVIOUS
<1>1. room \in Seq(Events) /\ Len(room) = 0
  BY DEF Init
<1>2. order \in [Members -> Rankings]
  BY InitialAssumption DEF Init
<1>3. page \in [Members -> Nat] /\ seen \in [Members -> Nat]
  BY DEF Init
<1>4. \A m \in Members : seen[m] <= Len(room)
  <2>1. \A m \in Members : seen[m] = 0
    BY DEF Init
  <2>2. Len(room) = 0 /\ 0 <= 0
    BY <1>1
  <2> QED
    BY <2>1, <2>2
<1>5. edits \in 0 .. MaxEdits /\ trouble \in 0 .. MaxTrouble
  BY BoundAssumption DEF Init
<1>6. TypeOK
  BY <1>1, <1>2, <1>3, <1>4, <1>5 DEF Init, TypeOK
<1> QED
  BY <1>6 DEF Init, IndTypes, WaitingCurrent

LEMMA OrderAtRanks ==
    ASSUME TypeOK, NEW k \in 0 .. Len(room)
    PROVE  OrderAt(k) \in Rankings
<1>1. CASE k = 0
  BY <1>1, InitialAssumption DEF OrderAt
<1>2. CASE k # 0
  <2>1. room[k] \in Events
    BY <1>2 DEF TypeOK
  <2> QED
    BY <1>2, <2>1 DEF OrderAt, Events
<1> QED
  BY <1>1, <1>2

LEMMA EditTypes ==
    ASSUME IndTypes, NEW m \in Members, Edit(m)
    PROVE  IndTypes'
<1>1. PICK next \in Moved(order[m]) :
         /\ order' = [order EXCEPT ![m] = next]
         /\ waiting' = waiting \cup
              {[by |-> m, page |-> page[m], order |-> next,
                previous |-> order[m], number |-> edits + 1]}
         /\ travelling' = travelling \cup
              {[by |-> m, page |-> page[m], order |-> next,
                previous |-> order[m], number |-> edits + 1]}
  BY DEF Edit
<1>2. order[m] \in Rankings
  BY DEF IndTypes, TypeOK
<1>3. next \in Rankings
  BY <1>1, <1>2, MovedRanks
<1>4. [by |-> m, page |-> page[m], order |-> next,
       previous |-> order[m], number |-> edits + 1] \in Edits
  BY <1>2, <1>3, BoundAssumption DEF Edit, Edits, IndTypes, TypeOK
<1>5. TypeOK'
  BY <1>1, <1>3, <1>4, BoundAssumption DEF Edit, IndTypes, TypeOK, Quiet
<1>6. WaitingCurrent'
  BY <1>1 DEF Edit, IndTypes, WaitingCurrent, Mine
<1> QED
  BY <1>5, <1>6 DEF IndTypes

LEMMA ArriveTypes ==
    ASSUME IndTypes, NEW e \in travelling, Arrive(e)
    PROVE  IndTypes'
<1>1. [by |-> e.by, page |-> e.page, order |-> e.order] \in Events
  BY DEF IndTypes, TypeOK, Edits, Events
<1>2. room' \in Seq(Events) /\ Len(room') = Len(room) + 1
  BY <1>1 DEF Arrive, IndTypes, TypeOK
<1>3. TypeOK'
  BY <1>2 DEF Arrive, browserVars, boundVars, IndTypes, TypeOK
<1>4. WaitingCurrent'
  BY DEF Arrive, browserVars, IndTypes, WaitingCurrent, Mine
<1> QED
  BY <1>3, <1>4 DEF IndTypes

LEMMA RequestTypes ==
    ASSUME IndTypes, NEW e, Lose(e) \/ Sent(e)
    PROVE  IndTypes'
  BY DEF Lose, Sent, browserVars, boundVars, historyVars, IndTypes, TypeOK,
         WaitingCurrent, Mine

LEMMA RejectTypes ==
    ASSUME IndTypes, NEW e \in waiting, Reject(e)
    PROVE  IndTypes'
<1>1. e \in Edits
  BY DEF IndTypes, TypeOK
<1>2. RolledBack(e.by, e) \in Rankings /\ e.by \in Members
  BY <1>1 DEF RolledBack, Edits, IndTypes, TypeOK
<1>3. TypeOK'
  BY <1>2, BoundAssumption DEF Reject, IndTypes, TypeOK
<1>4. WaitingCurrent'
  BY DEF Reject, IndTypes, WaitingCurrent, Mine
<1> QED
  BY <1>3, <1>4 DEF IndTypes

LEMMA SyncTypes ==
    ASSUME IndTypes, NEW m \in Members, Sync(m)
    PROVE  IndTypes'
<1>1. room[seen[m] + 1] \in Events
  BY DEF Sync, IndTypes, TypeOK
<1>2. Received(m, room[seen[m] + 1]) \in Rankings
  BY <1>1 DEF Received, Events, IndTypes, TypeOK
<1>3. TypeOK'
  BY <1>2 DEF Sync, netVars, boundVars, historyVars, IndTypes, TypeOK
<1>4. WaitingCurrent'
  BY DEF Sync, netVars, IndTypes, WaitingCurrent, Mine
<1> QED
  BY <1>3, <1>4 DEF IndTypes

LEMMA PageTypes ==
    ASSUME IndTypes, NEW m \in Members, Reload(m) \/ Leave(m)
    PROVE  IndTypes'
<1>1. LastOrder \in Rankings
  BY OrderAtRanks DEF LastOrder, IndTypes, TypeOK
<1>2. CASE Reload(m)
  <2>1. TypeOK'
    BY <1>1, <1>2, BoundAssumption DEF Reload, IndTypes, TypeOK
  <2>2. WaitingCurrent'
    BY <1>2 DEF Reload, IndTypes, TypeOK, WaitingCurrent, Mine, Edits
  <2> QED
    BY <2>1, <2>2 DEF IndTypes
<1>3. CASE Leave(m)
  BY <1>3 DEF Leave, boundVars, historyVars, IndTypes, TypeOK, WaitingCurrent, Mine
<1> QED
  BY <1>2, <1>3

LEMMA StepTypes == IndTypes /\ [Next]_vars => IndTypes'
<1> SUFFICES ASSUME IndTypes, [Next]_vars PROVE IndTypes'
  OBVIOUS
<1>1. CASE UNCHANGED vars
  BY <1>1 DEF vars, browserVars, netVars, boundVars, historyVars, IndTypes, TypeOK,
              WaitingCurrent, Mine
<1>2. CASE Next
  BY <1>2, EditTypes, ArriveTypes, RequestTypes, RejectTypes, SyncTypes, PageTypes
     DEF Next
<1> QED
  BY <1>1, <1>2

LEMMA TypesHold == Spec => []IndTypes
  BY InitTypes, StepTypes, PTL DEF Spec

\* Every order that is shown, sent or restored ranks every item once.
THEOREM TypeCorrect == Spec => []TypeOK
<1>1. IndTypes => TypeOK
  BY DEF IndTypes
<1> QED
  BY <1>1, TypesHold, PTL

----------------------------------------------------------------------------
(* The last write wins: where the order a page shows comes from. *)

\* The page shows the order of one of its edits under way, or that of an event
\* (the start, for 0) after which it has received only its own.
Source(m) ==
    \/ \E e \in travelling : Mine(m, e) /\ order[m] = e.order
    \/ \E k \in 0 .. Len(room) :
          /\ order[m] = OrderAt(k)
          /\ \A i \in k + 1 .. seen[m] : Mine(m, room[i])

Sourced == \A m \in here \ gaveUp : Source(m)

\* No request comes from a page that was not loaded yet.
PageLoaded == \A e \in travelling : e.page <= page[e.by]

\* A page none of whose sends was rejected waits for those on their way.
OwnAwaited ==
    \A e \in travelling : e.by \in here \ gaveUp /\ Mine(e.by, e) => e \in waiting

IndWins == IndTypes /\ PageLoaded /\ OwnAwaited /\ Sourced

\* The room only grows.
LEMMA RoomGrows ==
    ASSUME IndTypes, NEW e \in travelling, Arrive(e)
    PROVE  /\ room \in Seq(Events) /\ Len(room) \in Nat
           /\ Len(room') = Len(room) + 1
           /\ \A i \in 1 .. Len(room) : room'[i] = room[i]
           /\ room'[Len(room) + 1] =
                [by |-> e.by, page |-> e.page, order |-> e.order]
           /\ \A k \in 0 .. Len(room) : OrderAt(k)' = OrderAt(k)
           /\ LastOrder' = e.order
<1> DEFINE new == [by |-> e.by, page |-> e.page, order |-> e.order]
<1>1. new \in Events
  BY DEF IndTypes, TypeOK, Edits, Events
<1>2. room \in Seq(Events) /\ room' = Append(room, new)
  BY DEF Arrive, IndTypes, TypeOK
<1>3. new.order = e.order
  OBVIOUS
<1> HIDE DEF new
<1>4. /\ Len(room) \in Nat
      /\ Len(room') = Len(room) + 1
      /\ \A i \in 1 .. Len(room) : room'[i] = room[i]
      /\ room'[Len(room) + 1] = new
  BY <1>1, <1>2
<1>5. \A k \in 0 .. Len(room) : OrderAt(k)' = OrderAt(k)
  BY <1>4 DEF OrderAt
<1>6. LastOrder' = e.order
  BY <1>3, <1>4 DEF OrderAt, LastOrder
<1> QED
  BY <1>2, <1>4, <1>5, <1>6 DEF new

LEMMA InitWins == Init => IndWins
<1> SUFFICES ASSUME Init PROVE IndWins
  OBVIOUS
<1>1. Len(room) = 0
  BY DEF Init
<1>2. ASSUME NEW m \in Members
      PROVE  Source(m)
  <2>1. order[m] = OrderAt(0) /\ seen[m] = 0
    BY DEF Init, OrderAt
  <2> QED
    BY <1>1, <2>1 DEF Source
<1>3. Sourced
  BY <1>2 DEF Init, Sourced
<1> QED
  BY <1>3, InitTypes DEF Init, IndWins, PageLoaded, OwnAwaited

LEMMA EditWins ==
    ASSUME IndWins, NEW m \in Members, Edit(m)
    PROVE  PageLoaded' /\ OwnAwaited' /\ Sourced'
<1>1. PICK next \in Moved(order[m]) :
         /\ order' = [order EXCEPT ![m] = next]
         /\ waiting' = waiting \cup
              {[by |-> m, page |-> page[m], order |-> next,
                previous |-> order[m], number |-> edits + 1]}
         /\ travelling' = travelling \cup
              {[by |-> m, page |-> page[m], order |-> next,
                previous |-> order[m], number |-> edits + 1]}
  BY DEF Edit
<1>e. PICK e : e = [by |-> m, page |-> page[m], order |-> next,
                    previous |-> order[m], number |-> edits + 1]
  OBVIOUS
<1>2. UNCHANGED <<room, here, page, seen, gaveUp>>
  BY DEF Edit
<1>3. /\ page \in [Members -> Nat] /\ order \in [Members -> Rankings]
      /\ here \subseteq Members
  BY DEF IndWins, IndTypes, TypeOK
<1>4. PageLoaded' /\ OwnAwaited'
  BY <1>1, <1>2, <1>3 DEF IndWins, PageLoaded, OwnAwaited, Mine
<1>5. ASSUME NEW n \in here \ gaveUp
      PROVE  Source(n)'
  <2>1. CASE n = m
    <3>1. e \in travelling' /\ Mine(m, e)' /\ order'[m] = e.order
      BY <1>1, <1>e, <1>2, <1>3 DEF Mine
    <3> QED
      BY <2>1, <3>1 DEF Source
  <2>2. CASE n # m
    <3>1. Source(n) /\ order'[n] = order[n]
      BY <1>1, <1>3, <2>2 DEF IndWins, Sourced
    <3> QED
      BY <1>1, <1>2, <3>1 DEF Source, Mine, OrderAt
  <2> QED
    BY <2>1, <2>2
<1> QED
  BY <1>2, <1>4, <1>5 DEF Sourced

LEMMA ArriveWins ==
    ASSUME IndWins, NEW e \in travelling, Arrive(e)
    PROVE  PageLoaded' /\ OwnAwaited' /\ Sourced'
<1>1. UNCHANGED <<here, page, order, seen, waiting, gaveUp>>
      /\ travelling' = travelling \ {e}
  BY DEF Arrive, browserVars
<1>2. PageLoaded' /\ OwnAwaited'
  BY <1>1 DEF IndWins, PageLoaded, OwnAwaited, Mine
<1>3. ASSUME NEW m \in here \ gaveUp
      PROVE  Source(m)'
  <2>1. /\ \A i \in 1 .. Len(room) : room'[i] = room[i]
        /\ Len(room) \in Nat /\ Len(room') = Len(room) + 1
        /\ \A k \in 0 .. Len(room) : OrderAt(k)' = OrderAt(k)
        /\ LastOrder' = e.order
    BY RoomGrows DEF IndWins
  <2>2. seen[m] \in Nat /\ seen[m] <= Len(room)
    BY DEF IndWins, IndTypes, TypeOK
  <2>3. CASE \E s \in travelling : Mine(m, s) /\ order[m] = s.order
    <3>1. PICK s \in travelling : Mine(m, s) /\ order[m] = s.order
      BY <2>3
    <3>2. CASE s = e
      <4>1. PICK k \in Nat : k = Len(room')
        BY <2>1
      <4>2. order'[m] = OrderAt(k)' /\ k + 1 .. seen'[m] = {}
        BY <1>1, <2>1, <2>2, <3>1, <3>2, <4>1 DEF LastOrder
      <4> QED
        BY <4>1, <4>2 DEF Source
    <3>3. CASE s # e
      BY <1>1, <3>1, <3>3 DEF Source, Mine
    <3> QED
      BY <3>2, <3>3
  <2>4. CASE \E k \in 0 .. Len(room) :
               /\ order[m] = OrderAt(k)
               /\ \A i \in k + 1 .. seen[m] : Mine(m, room[i])
    <3>1. PICK k \in 0 .. Len(room) :
            /\ order[m] = OrderAt(k)
            /\ \A i \in k + 1 .. seen[m] : Mine(m, room[i])
      BY <2>4
    <3>2. /\ k \in 0 .. Len(room')
          /\ order'[m] = OrderAt(k)'
          /\ \A i \in k + 1 .. seen'[m] : i \in 1 .. Len(room) /\ Mine(m, room[i])
      BY <1>1, <2>1, <2>2, <3>1
    <3>3. \A i \in k + 1 .. seen'[m] : Mine(m, room[i])'
      BY <1>1, <2>1, <3>2 DEF Mine
    <3> QED
      BY <3>2, <3>3 DEF Source
  <2> QED
    BY <2>3, <2>4 DEF IndWins, Sourced, Source
<1> QED
  BY <1>1, <1>2, <1>3 DEF Sourced

\* Losing or answering a request, and leaving.
LEMMA RequestWins ==
    ASSUME IndWins, NEW e, \/ Lose(e)
                           \/ Sent(e)
                           \/ \E m \in Members : Leave(m)
    PROVE  PageLoaded' /\ OwnAwaited' /\ Sourced'
<1>1. /\ UNCHANGED <<room, page, order, seen, gaveUp>>
      /\ here' \subseteq here
      /\ travelling' \subseteq travelling
  BY DEF Lose, Sent, Leave, browserVars, historyVars
<1>2. \A s \in travelling : s.by \in here' \ gaveUp /\ Mine(s.by, s)
                             => s \in travelling' /\ s \in waiting'
  <2>1. CASE Lose(e)
    BY <2>1 DEF Lose, browserVars, IndWins, OwnAwaited
  <2>2. CASE Sent(e)
    BY <2>2 DEF Sent, browserVars, IndWins, OwnAwaited
  <2>3. CASE \E m \in Members : Leave(m)
    BY <2>3 DEF Leave, IndWins, OwnAwaited
  <2> QED
    BY <2>1, <2>2, <2>3
<1>3. PageLoaded' /\ OwnAwaited'
  BY <1>1, <1>2 DEF IndWins, PageLoaded, OwnAwaited, Mine
<1>4. ASSUME NEW m \in here' \ gaveUp
      PROVE  Source(m)'
  <2>1. Source(m)
    BY <1>1 DEF IndWins, Sourced
  <2>2. \A s \in travelling : Mine(m, s) => s \in travelling'
    BY <1>2 DEF Mine
  <2> QED
    BY <1>1, <2>1, <2>2 DEF Source, Mine, OrderAt
<1> QED
  BY <1>1, <1>3, <1>4 DEF Sourced

LEMMA RejectWins ==
    ASSUME IndWins, NEW e \in waiting, Reject(e)
    PROVE  PageLoaded' /\ OwnAwaited' /\ Sourced'
<1>1. /\ UNCHANGED <<room, here, page, seen, travelling>>
      /\ order' = [order EXCEPT ![e.by] = RolledBack(e.by, e)]
      /\ waiting' = waiting \ {e} /\ gaveUp' = gaveUp \cup {e.by}
  BY DEF Reject
<1>2. PageLoaded' /\ OwnAwaited'
  BY <1>1 DEF IndWins, PageLoaded, OwnAwaited, Mine
<1>3. ASSUME NEW m \in here \ gaveUp'
      PROVE  Source(m)'
  <2>1. Source(m) /\ m # e.by
    BY <1>1 DEF IndWins, Sourced
  <2>2. order'[m] = order[m]
    BY <1>1, <2>1 DEF IndWins, IndTypes, TypeOK
  <2> QED
    BY <1>1, <2>1, <2>2 DEF Source, Mine, OrderAt
<1> QED
  BY <1>1, <1>2, <1>3 DEF Sourced

LEMMA SyncWins ==
    ASSUME IndWins, NEW m \in Members, Sync(m)
    PROVE  PageLoaded' /\ OwnAwaited' /\ Sourced'
<1>1. /\ UNCHANGED <<room, here, page, waiting, travelling, gaveUp>>
      /\ seen[m] < Len(room) /\ m \in here
      /\ seen' = [seen EXCEPT ![m] = @ + 1]
      /\ order' = [order EXCEPT ![m] = Received(m, room[seen[m] + 1])]
  BY DEF Sync, netVars, historyVars
<1>2. /\ seen \in [Members -> Nat] /\ order \in [Members -> Rankings]
      /\ here \subseteq Members
      /\ Len(room) \in Nat
  BY DEF IndWins, IndTypes, TypeOK
<1>3. PageLoaded' /\ OwnAwaited'
  BY <1>1 DEF IndWins, PageLoaded, OwnAwaited, Mine
<1>4. ASSUME NEW n \in here \ gaveUp
      PROVE  Source(n)'
  <2>1. Source(n)
    BY DEF IndWins, Sourced
  <2>2. CASE n # m
    <3>1. order'[n] = order[n] /\ seen'[n] = seen[n]
      BY <1>1, <1>2, <2>2
    <3> QED
      BY <1>1, <2>1, <3>1 DEF Source, Mine, OrderAt
  <2>3. CASE n = m /\ Mine(m, room[seen[m] + 1])
    <3>1. order'[m] = order[m] /\ seen'[m] = seen[m] + 1
      BY <1>1, <1>2, <2>3 DEF Received
    <3>2. CASE \E s \in travelling : Mine(m, s) /\ order[m] = s.order
      BY <1>1, <2>3, <3>1, <3>2 DEF Source, Mine
    <3>3. CASE \E k \in 0 .. Len(room) :
                 /\ order[m] = OrderAt(k)
                 /\ \A i \in k + 1 .. seen[m] : Mine(m, room[i])
      <4>1. PICK k \in 0 .. Len(room) :
              /\ order[m] = OrderAt(k)
              /\ \A i \in k + 1 .. seen[m] : Mine(m, room[i])
        BY <3>3
      <4>2. \A i \in k + 1 .. seen[m] + 1 : Mine(m, room[i])
        BY <1>2, <2>3, <4>1
      <4> QED
        BY <1>1, <2>3, <3>1, <4>1, <4>2 DEF Source, Mine, OrderAt
    <3> QED
      BY <2>1, <2>3, <3>2, <3>3 DEF Source
  <2>4. CASE n = m /\ ~Mine(m, room[seen[m] + 1])
    <3>1. PICK k \in Nat : k = seen[m] + 1
      BY <1>2
    <3>2. /\ k \in 0 .. Len(room)
          /\ order'[m] = OrderAt(k)
          /\ k + 1 .. seen'[m] = {}
      BY <1>1, <1>2, <2>4, <3>1 DEF Received, OrderAt
    <3> QED
      BY <1>1, <2>4, <3>2 DEF Source, OrderAt
  <2> QED
    BY <2>2, <2>3, <2>4
<1> QED
  BY <1>1, <1>3, <1>4 DEF Sourced

LEMMA ReloadWins ==
    ASSUME IndWins, NEW m \in Members, Reload(m)
    PROVE  PageLoaded' /\ OwnAwaited' /\ Sourced'
<1>1. /\ UNCHANGED <<room, here, travelling>>
      /\ page' = [page EXCEPT ![m] = @ + 1]
      /\ order' = [order EXCEPT ![m] = LastOrder]
      /\ seen' = [seen EXCEPT ![m] = Len(room)]
      /\ waiting' = {e \in waiting : e.by # m}
      /\ gaveUp' = gaveUp \ {m}
  BY DEF Reload
<1>2. /\ page \in [Members -> Nat] /\ order \in [Members -> Rankings]
      /\ seen \in [Members -> Nat] /\ here \subseteq Members
      /\ Len(room) \in Nat
      /\ \A e \in travelling : e.by \in Members /\ e.page \in Nat
  BY DEF IndWins, IndTypes, TypeOK, Edits
<1>3. PageLoaded'
  BY <1>1, <1>2 DEF IndWins, PageLoaded
<1>4. OwnAwaited'
  BY <1>1, <1>2 DEF IndWins, PageLoaded, OwnAwaited, Mine
<1>5. ASSUME NEW n \in here \ gaveUp'
      PROVE  Source(n)'
  <2>1. CASE n = m
    <3>1. PICK k \in Nat : k = Len(room)
      BY <1>2
    <3>2. /\ k \in 0 .. Len(room)
          /\ order'[m] = OrderAt(k)
          /\ k + 1 .. seen'[m] = {}
      BY <1>1, <1>2, <3>1 DEF LastOrder
    <3> QED
      BY <1>1, <2>1, <3>2 DEF Source, OrderAt
  <2>2. CASE n # m
    <3>1. Source(n)
      BY <1>1, <2>2 DEF IndWins, Sourced
    <3>2. order'[n] = order[n] /\ seen'[n] = seen[n] /\ page'[n] = page[n]
      BY <1>1, <1>2, <2>2
    <3> QED
      BY <1>1, <3>1, <3>2 DEF Source, Mine, OrderAt
  <2> QED
    BY <2>1, <2>2
<1> QED
  BY <1>1, <1>3, <1>4, <1>5 DEF Sourced

LEMMA StepWins == IndWins /\ [Next]_vars => IndWins'
<1> SUFFICES ASSUME IndWins, [Next]_vars PROVE IndWins'
  OBVIOUS
<1>1. IndTypes'
  BY StepTypes DEF IndWins
<1>2. CASE UNCHANGED vars
  BY <1>1, <1>2 DEF vars, browserVars, netVars, boundVars, historyVars, IndWins,
     PageLoaded, OwnAwaited, Sourced, Source, Mine, OrderAt
<1>3. CASE Next
  BY <1>1, <1>3, EditWins, ArriveWins, RequestWins, RejectWins, SyncWins, ReloadWins
     DEF Next, IndWins
<1> QED
  BY <1>2, <1>3

LEMMA SourceWins == IndWins => LastWriteWins
<1> SUFFICES ASSUME IndWins, NEW m \in here \ gaveUp,
                    seen[m] = Len(room),
                    \A e \in travelling : ~Mine(m, e),
                    room = <<>> \/ ~Mine(m, room[Len(room)])
             PROVE  order[m] = LastOrder
  BY DEF LastWriteWins
<1>1. PICK k \in 0 .. Len(room) :
        /\ order[m] = OrderAt(k)
        /\ \A i \in k + 1 .. seen[m] : Mine(m, room[i])
  BY DEF IndWins, Sourced, Source
<1>2. Len(room) \in Nat /\ (room = <<>> => Len(room) = 0)
  BY DEF IndWins, IndTypes, TypeOK
<1>3. k = Len(room)
  BY <1>1, <1>2
<1> QED
  BY <1>1, <1>3 DEF LastOrder

\* A page that had no send rejected and is up to date shows the last order of
\* the room unless it sent it, for any group, items and number of edits.
THEOREM LastWins == Spec => []LastWriteWins
<1>1. Spec => []IndWins
  BY InitWins, StepWins, PTL DEF Spec
<1> QED
  BY <1>1, SourceWins, PTL

----------------------------------------------------------------------------
(* Edits that take turns. *)

\* The page shows the last order, or is going to: then the last event of the
\* room, which it does not know yet, is somebody else's.
Settling(m) ==
    \/ /\ order[m] = LastOrder
       /\ \A i \in seen[m] + 1 .. Len(room) : Mine(m, room[i])
    \/ seen[m] < Len(room) /\ ~Mine(m, room[Len(room)])

\* Nobody edited since the edit under way was made, its author still shows it,
\* and what it would be rolled back to is what the group shows.
AloneInv ==
    alone => \A e \in travelling :
        /\ travelling = {e} /\ waiting \subseteq {e}
        /\ \A m \in here : seen[m] = Len(room)
        /\ e \in waiting => /\ order[e.by] = e.order
                            /\ agreed => e.previous = LastOrder

AgreedInv ==
    agreed => /\ travelling = {} \/ alone
              /\ \A m \in here :
                    (\A e \in travelling \cap waiting : e.by # m) => Settling(m)

IndTurns == IndTypes /\ AloneInv /\ AgreedInv

LEMMA InitTurns == Init => IndTurns
<1> SUFFICES ASSUME Init PROVE IndTurns
  OBVIOUS
<1>1. Len(room) = 0
  BY DEF Init
<1>2. ASSUME NEW m \in Members
      PROVE  Settling(m)
  <2>1. order[m] = LastOrder /\ seen[m] + 1 .. Len(room) = {}
    BY <1>1 DEF Init, LastOrder, OrderAt
  <2> QED
    BY <2>1 DEF Settling
<1> QED
  BY <1>2, InitTypes DEF Init, IndTurns, AloneInv, AgreedInv

LEMMA EditTurns ==
    ASSUME IndTurns, NEW m \in Members, Edit(m)
    PROVE  AloneInv' /\ AgreedInv'
<1>1. PICK next \in Moved(order[m]) :
         /\ order' = [order EXCEPT ![m] = next]
         /\ waiting' = waiting \cup
              {[by |-> m, page |-> page[m], order |-> next,
                previous |-> order[m], number |-> edits + 1]}
         /\ travelling' = travelling \cup
              {[by |-> m, page |-> page[m], order |-> next,
                previous |-> order[m], number |-> edits + 1]}
  BY DEF Edit
<1>2. PICK e : e = [by |-> m, page |-> page[m], order |-> next,
                    previous |-> order[m], number |-> edits + 1]
  OBVIOUS
<1>3. /\ UNCHANGED <<room, here, page, seen>> /\ m \in here
      /\ alone' = Quiet /\ agreed' = (agreed /\ Quiet)
  BY DEF Edit
<1>4. CASE ~Quiet
  BY <1>3, <1>4 DEF AloneInv, AgreedInv
<1>5. CASE Quiet
  <2>1. /\ travelling' = {e} /\ waiting' = {e}
        /\ e.by = m /\ e.order = next /\ e.previous = order[m]
        /\ \A n \in here : seen[n] = Len(room)
    BY <1>1, <1>2, <1>5 DEF Quiet
  <2>2. order'[m] = next /\ \A n \in here : n # m => order'[n] = order[n]
    BY <1>1 DEF IndTurns, IndTypes, TypeOK
  <2>3. LastOrder' = LastOrder
    BY <1>3 DEF LastOrder, OrderAt
  <2>4. ASSUME agreed
        PROVE  \A n \in here : Settling(n) /\ order[n] = LastOrder
    <3>1. \A n \in here : Settling(n)
      BY <2>4, <1>5 DEF IndTurns, AgreedInv, Quiet
    <3>2. \A n \in here : ~(seen[n] < Len(room))
      BY <2>1 DEF IndTurns, IndTypes, TypeOK
    <3> QED
      BY <3>1, <3>2 DEF Settling
  <2>5. AloneInv'
    BY <1>3, <2>1, <2>2, <2>3, <2>4 DEF AloneInv
  <2>6. ASSUME agreed, NEW n \in here, n # m
        PROVE  Settling(n)'
    BY <1>3, <2>2, <2>3, <2>4, <2>6 DEF Settling, Mine
  <2>7. AgreedInv'
    BY <1>3, <1>5, <2>1, <2>6 DEF AgreedInv
  <2> QED
    BY <2>5, <2>7
<1> QED
  BY <1>4, <1>5

LEMMA ArriveTurns ==
    ASSUME IndTurns, NEW e \in travelling, Arrive(e)
    PROVE  AloneInv' /\ AgreedInv'
<1>1. /\ UNCHANGED <<here, page, order, seen, waiting, alone>>
      /\ travelling' = travelling \ {e}
      /\ agreed' = /\ agreed \/ alone
                   /\ e \in waiting \/ e.by \notin here \/ ~Mine(e.by, e)
  BY DEF Arrive, browserVars
<1>2. /\ Len(room) \in Nat /\ Len(room') = Len(room) + 1
      /\ room'[Len(room')] = [by |-> e.by, page |-> e.page, order |-> e.order]
      /\ LastOrder' = e.order
  BY RoomGrows DEF IndTurns
<1>3. AloneInv'
  BY <1>1 DEF IndTurns, AloneInv
<1>4. ASSUME agreed'
      PROVE  AgreedInv'
  <2>1. alone
    BY <1>1, <1>4 DEF IndTurns, AgreedInv
  <2>2. /\ travelling = {e} /\ waiting \subseteq {e}
        /\ \A m \in here : seen[m] = Len(room)
        /\ e \in waiting => order[e.by] = e.order
    BY <2>1 DEF IndTurns, AloneInv
  <2>3. ASSUME NEW m \in here
        PROVE  Settling(m)'
    <3>1. CASE m = e.by /\ e \in waiting
      <4>1. /\ order'[m] = LastOrder'
            /\ \A i \in seen'[m] + 1 .. Len(room') : i = Len(room')
        BY <1>1, <1>2, <2>2, <3>1
      <4>2. Mine(m, room[Len(room)])'
        BY <1>1, <1>2, <3>1 DEF IndTurns, IndTypes, WaitingCurrent, Mine
      <4> QED
        BY <4>1, <4>2 DEF Settling
    <3>2. CASE ~(m = e.by /\ e \in waiting)
      <4>1. ~Mine(m, e)
        BY <1>1, <1>4, <3>2 DEF Mine
      <4>2. ~Mine(m, room[Len(room)])'
        BY <1>1, <1>2, <4>1 DEF Mine
      <4>3. seen'[m] < Len(room')
        BY <1>1, <1>2, <2>2
      <4> QED
        BY <4>2, <4>3 DEF Settling
    <3> QED
      BY <3>1, <3>2
  <2> QED
    BY <1>1, <2>1, <2>3 DEF AgreedInv
<1> QED
  BY <1>3, <1>4 DEF AgreedInv

LEMMA RequestTurns ==
    ASSUME IndTurns, NEW e, (e \in travelling /\ Lose(e)) \/ Sent(e)
    PROVE  AloneInv' /\ AgreedInv'
<1>1. /\ UNCHANGED <<room, here, page, order, seen, alone, agreed>>
      /\ travelling' \subseteq travelling /\ waiting' \subseteq waiting
      /\ travelling' \cap waiting' = travelling \cap waiting
  BY DEF Lose, Sent, browserVars, historyVars
<1>2. LastOrder' = LastOrder
  BY <1>1 DEF LastOrder, OrderAt
<1>3. AloneInv'
  BY <1>1, <1>2 DEF IndTurns, AloneInv
<1>4. \A m \in here : Settling(m)' <=> Settling(m)
  BY <1>1, <1>2 DEF Settling, Mine
<1>5. AgreedInv'
  BY <1>1, <1>4 DEF IndTurns, AgreedInv
<1> QED
  BY <1>3, <1>5

LEMMA RejectTurns ==
    ASSUME IndTurns, NEW e \in waiting, Reject(e)
    PROVE  AloneInv' /\ AgreedInv'
<1>1. /\ UNCHANGED <<room, here, page, seen, travelling, alone>>
      /\ order' = [order EXCEPT ![e.by] = RolledBack(e.by, e)]
      /\ waiting' = waiting \ {e}
      /\ agreed' = (agreed /\ e \in travelling)
  BY DEF Reject
<1>2. LastOrder' = LastOrder
  BY <1>1 DEF LastOrder, OrderAt
<1>3. AloneInv'
  <2>1. \A s \in travelling : alone => waiting' = {}
    BY <1>1 DEF IndTurns, AloneInv
  <2> QED
    BY <1>1, <2>1 DEF IndTurns, AloneInv
<1>4. ASSUME agreed'
      PROVE  AgreedInv'
  <2>1. agreed /\ alone /\ e \in travelling
    BY <1>1, <1>4 DEF IndTurns, AgreedInv
  <2>2. /\ travelling = {e}
        /\ \A m \in here : seen[m] = Len(room)
        /\ order[e.by] = e.order /\ e.previous = LastOrder
    BY <2>1 DEF IndTurns, AloneInv
  <2>3. Len(room) \in Nat /\ order \in [Members -> Rankings] /\ here \subseteq Members
    BY DEF IndTurns, IndTypes, TypeOK
  <2>4. ASSUME NEW m \in here
        PROVE  Settling(m)'
    <3>1. CASE m = e.by
      <4>1. order'[m] = LastOrder' /\ seen'[m] + 1 .. Len(room') = {}
        BY <1>1, <1>2, <2>2, <2>3, <3>1 DEF RolledBack
      <4> QED
        BY <4>1 DEF Settling
    <3>2. CASE m # e.by
      <4>1. Settling(m) /\ order'[m] = order[m]
        BY <1>1, <2>1, <2>2, <2>3, <3>2 DEF IndTurns, AgreedInv
      <4> QED
        BY <1>1, <1>2, <4>1 DEF Settling, Mine
    <3> QED
      BY <3>1, <3>2
  <2> QED
    BY <1>1, <2>1, <2>4 DEF AgreedInv
<1> QED
  BY <1>3, <1>4 DEF AgreedInv

LEMMA SyncTurns ==
    ASSUME IndTurns, NEW m \in Members, Sync(m)
    PROVE  AloneInv' /\ AgreedInv'
<1>1. /\ UNCHANGED <<room, here, page, waiting, travelling, alone, agreed>>
      /\ seen[m] < Len(room) /\ m \in here
      /\ seen' = [seen EXCEPT ![m] = @ + 1]
      /\ order' = [order EXCEPT ![m] = Received(m, room[seen[m] + 1])]
  BY DEF Sync, netVars, historyVars
<1>2. /\ seen \in [Members -> Nat] /\ order \in [Members -> Rankings]
      /\ here \subseteq Members /\ Len(room) \in Nat
      /\ LastOrder' = LastOrder
  BY <1>1 DEF IndTurns, IndTypes, TypeOK, LastOrder, OrderAt
<1>3. alone => travelling = {}
  BY <1>1, <1>2 DEF IndTurns, AloneInv
<1>4. AloneInv'
  BY <1>1, <1>3 DEF AloneInv
<1>5. ASSUME agreed'
      PROVE  AgreedInv'
  <2>1. travelling = {} /\ \A n \in here : Settling(n)
    BY <1>1, <1>3, <1>5 DEF IndTurns, AgreedInv
  <2>2. ASSUME NEW n \in here
        PROVE  Settling(n)'
    <3>1. CASE n # m
      <4>1. order'[n] = order[n] /\ seen'[n] = seen[n]
        BY <1>1, <1>2, <3>1
      <4> QED
        BY <1>1, <1>2, <2>1, <4>1 DEF Settling, Mine
    <3>2. CASE n = m /\ Mine(m, room[Len(room)])
      <4>1. /\ order[m] = LastOrder
            /\ \A i \in seen[m] + 1 .. Len(room) : Mine(m, room[i])
        BY <2>1, <3>2 DEF Settling
      <4>2. order'[m] = LastOrder /\ seen'[m] = seen[m] + 1
        BY <1>1, <1>2, <4>1 DEF Received
      <4> QED
        BY <1>1, <1>2, <3>2, <4>1, <4>2 DEF Settling, Mine
    <3>3. CASE n = m /\ ~Mine(m, room[Len(room)])
      <4>1. seen'[m] = seen[m] + 1
        BY <1>1, <1>2
      <4>2. CASE seen[m] + 1 < Len(room)
        BY <1>1, <3>3, <4>1, <4>2 DEF Settling, Mine
      <4>3. CASE seen[m] + 1 = Len(room)
        <5>1. order'[m] = LastOrder /\ seen'[m] + 1 .. Len(room) = {}
          BY <1>1, <1>2, <3>3, <4>1, <4>3 DEF Received, LastOrder, OrderAt
        <5> QED
          BY <1>1, <1>2, <3>3, <5>1 DEF Settling
      <4> QED
        BY <1>1, <1>2, <4>2, <4>3
    <3> QED
      BY <3>1, <3>2, <3>3
  <2> QED
    BY <1>1, <2>1, <2>2 DEF AgreedInv
<1> QED
  BY <1>4, <1>5 DEF AgreedInv

LEMMA ReloadTurns ==
    ASSUME IndTurns, NEW m \in Members, Reload(m)
    PROVE  AloneInv' /\ AgreedInv'
<1>1. /\ UNCHANGED <<room, here, travelling, alone, agreed>>
      /\ page' = [page EXCEPT ![m] = @ + 1]
      /\ order' = [order EXCEPT ![m] = LastOrder]
      /\ seen' = [seen EXCEPT ![m] = Len(room)]
      /\ waiting' = {e \in waiting : e.by # m}
  BY DEF Reload
<1>2. /\ seen \in [Members -> Nat] /\ order \in [Members -> Rankings]
      /\ page \in [Members -> Nat]
      /\ here \subseteq Members /\ Len(room) \in Nat
      /\ LastOrder' = LastOrder
  BY <1>1 DEF IndTurns, IndTypes, TypeOK, LastOrder, OrderAt
<1>3. /\ order'[m] = LastOrder /\ seen'[m] = Len(room)
      /\ \A n \in here : n # m => /\ order'[n] = order[n]
                                  /\ seen'[n] = seen[n] /\ page'[n] = page[n]
  BY <1>1, <1>2
<1>4. AloneInv'
  <2> SUFFICES ASSUME alone, NEW e \in travelling
               PROVE  /\ travelling = {e} /\ waiting' \subseteq {e}
                      /\ \A n \in here : seen'[n] = Len(room)
                      /\ e \in waiting' => /\ order'[e.by] = e.order
                                           /\ agreed => e.previous = LastOrder
    BY <1>1, <1>2 DEF AloneInv
  <2>1. /\ travelling = {e} /\ waiting \subseteq {e}
        /\ \A n \in here : seen[n] = Len(room)
        /\ e \in waiting => /\ order[e.by] = e.order
                            /\ agreed => e.previous = LastOrder
    BY DEF IndTurns, AloneInv
  <2>2. e \in waiting => e.by \in here
    BY DEF IndTurns, IndTypes, WaitingCurrent
  <2> QED
    BY <1>1, <1>3, <2>1, <2>2
<1>5. ASSUME agreed
      PROVE  AgreedInv'
  <2>1. ASSUME NEW n \in here, \A e \in travelling \cap waiting' : e.by # n
        PROVE  Settling(n)'
    <3>1. CASE n = m
      <4>1. seen'[m] + 1 .. Len(room) = {}
        BY <1>2, <1>3
      <4> QED
        BY <1>1, <1>2, <1>3, <3>1, <4>1 DEF Settling
    <3>2. CASE n # m
      <4>1. \A e \in travelling \cap waiting : e.by # n
        BY <1>1, <2>1, <3>2
      <4>2. Settling(n)
        BY <1>5, <4>1 DEF IndTurns, AgreedInv
      <4> QED
        BY <1>1, <1>2, <1>3, <3>2, <4>2 DEF Settling, Mine
    <3> QED
      BY <3>1, <3>2
  <2> QED
    BY <1>1, <1>5, <2>1 DEF IndTurns, AgreedInv
<1> QED
  BY <1>1, <1>4, <1>5 DEF AgreedInv

LEMMA LeaveTurns ==
    ASSUME IndTurns, NEW m \in Members, Leave(m)
    PROVE  AloneInv' /\ AgreedInv'
<1>1. /\ UNCHANGED <<room, page, order, seen, travelling, alone, agreed>>
      /\ here' = here \ {m} /\ waiting' = {e \in waiting : e.by # m}
  BY DEF Leave, historyVars
<1>2. LastOrder' = LastOrder
  BY <1>1 DEF LastOrder, OrderAt
<1>3. AloneInv'
  BY <1>1, <1>2 DEF IndTurns, AloneInv
<1>4. \A n \in here' :
        /\ Settling(n)' <=> Settling(n)
        /\ (\A e \in travelling \cap waiting' : e.by # n)
             => (\A e \in travelling \cap waiting : e.by # n)
  BY <1>1, <1>2 DEF Settling, Mine
<1>5. AgreedInv'
  BY <1>1, <1>4 DEF IndTurns, AgreedInv
<1> QED
  BY <1>3, <1>5

LEMMA StepTurns == IndTurns /\ [Next]_vars => IndTurns'
<1> SUFFICES ASSUME IndTurns, [Next]_vars PROVE IndTurns'
  OBVIOUS
<1>1. IndTypes'
  BY StepTypes DEF IndTurns
<1>2. CASE UNCHANGED vars
  <2>1. UNCHANGED <<room, here, page, order, seen, waiting, travelling, alone, agreed>>
    BY <1>2 DEF vars, browserVars, netVars, historyVars
  <2>2. LastOrder' = LastOrder
    BY <2>1 DEF LastOrder, OrderAt
  <2>3. \A m \in here : Settling(m)' <=> Settling(m)
    BY <2>1, <2>2 DEF Settling, Mine
  <2>4. AloneInv'
    BY <2>1, <2>2 DEF IndTurns, AloneInv
  <2>5. AgreedInv'
    BY <2>1, <2>3 DEF IndTurns, AgreedInv
  <2> QED
    BY <1>1, <2>4, <2>5 DEF IndTurns
<1>3. CASE Next
  BY <1>1, <1>3, EditTurns, ArriveTurns, RequestTurns, RejectTurns, SyncTurns,
     ReloadTurns, LeaveTurns DEF Next, IndTurns
<1> QED
  BY <1>2, <1>3

LEMMA SettledAgree == IndTurns => TurnsAgree
<1> SUFFICES ASSUME IndTurns, agreed, Quiet, NEW m \in here
             PROVE  order[m] = LastOrder
  BY DEF TurnsAgree
<1>1. Settling(m)
  BY DEF IndTurns, AgreedInv, Quiet
<1>2. seen[m] = Len(room) /\ Len(room) \in Nat
  BY DEF Quiet, IndTurns, IndTypes, TypeOK
<1> QED
  BY <1>1, <1>2 DEF Settling

\* Edits that take turns end in agreement, with any number of rejected sends
\* and refreshes between them.
THEOREM TurnsEndInAgreement == Spec => []TurnsAgree
<1>1. Spec => []IndTurns
  BY InitTurns, StepTurns, PTL DEF Spec
<1> QED
  BY <1>1, SettledAgree, PTL
=============================================================================
