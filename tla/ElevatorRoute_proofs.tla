------------------------- MODULE ElevatorRoute_proofs -------------------------
(***************************************************************************)
(* Theorems about the route of the lift and about who waits for it, for    *)
(* every building and every set of persons.                                *)
(***************************************************************************)
EXTENDS Elevator_proofs, Sums, WellFoundedInduction

\* The order that "sort" leaves in destQueue, for one direction.
Ordered(q, d) == \A i, j \in DOMAIN q : i < j => Earlier(q[i], q[j], d)

(***************************************************************************)
(* Of an ordered queue, the floors before f are a first part of it, as     *)
(* long as the number of them.                                             *)
(***************************************************************************)
LEMMA BeforeIsPrefix ==
    ASSUME NEW q \in Seq(Floor), NEW f \in Floor, NEW d, Ordered(q, d),
           NEW B, B = {i \in DOMAIN q : Earlier(q[i], f, d)}
    PROVE  Cardinality(B) \in 0 .. Len(q) /\ B = 1 .. Cardinality(B)
<1>1. DOMAIN q = 1 .. Len(q) /\ Len(q) \in Nat  BY LenProperties
<1>2. Floor \subseteq Int  BY BuildingAssumption DEF Floor
<1>3. \A i \in 1 .. Len(q) : q[i] \in Int  BY <1>2, ElementOfSeq
<1>4. ASSUME NEW i \in B, NEW j \in 1 .. i PROVE j \in B
  <2>1. i \in 1 .. Len(q) /\ j \in 1 .. Len(q)  BY <1>1
  <2>2. j = i \/ Earlier(q[j], q[i], d)  BY <2>1, <1>1 DEF Ordered
  <2>3. Earlier(q[i], f, d)  OBVIOUS
  <2>4. q[i] \in Int /\ q[j] \in Int /\ f \in Int  BY <1>2, <1>3, <2>1
  <2>5. Earlier(q[j], f, d)  BY <2>2, <2>3, <2>4 DEF Earlier
  <2> QED  BY <1>1, <2>1, <2>5
<1>5. CASE B = 1 .. Len(q)
  <2>1. Cardinality(1 .. Len(q)) = Len(q)  BY <1>1, FS_Interval
  <2>2. Cardinality(B) = Len(q)  BY <1>5, <2>1
  <2> QED  BY ONLY <1>1, <1>5, <2>2
<1>6. CASE B # 1 .. Len(q)
  <2> DEFINE Rest == (1 .. Len(q)) \ B
  <2>1. Rest # {} /\ Rest \subseteq Nat  BY <1>1, <1>6
  <2>2. PICK k \in Rest : \A j \in Rest : <<j, k>> \notin OpToRel(<, Nat)
    <3> HIDE DEF Rest
    <3> QED  BY <2>1, WFMin, NatLessThanWellFounded
  <2>3. \A j \in Rest : ~ j < k  BY <2>1, <2>2 DEF OpToRel
  <2>4. B = 1 .. (k - 1)
    <3>1. ASSUME NEW i \in B PROVE i \in 1 .. (k - 1)
      <4>1. i \in 1 .. Len(q) /\ k \in 1 .. Len(q) /\ k \notin B  BY <1>1
      <4>2. ~ k \in 1 .. i  BY <1>4, <4>1
      <4> QED  BY <4>1, <4>2
    <3>2. ASSUME NEW i \in 1 .. (k - 1) PROVE i \in B
      <4>1. i \in 1 .. Len(q) /\ i < k  BY <1>1
      <4> QED  BY <4>1, <2>3
    <3> QED  BY <3>1, <3>2
  <2>5. k - 1 \in 0 .. Len(q)  BY <1>1
  <2>6. Cardinality(1 .. (k - 1)) = k - 1
    <3>1. k - 1 \in Nat  BY <2>5
    <3> HIDE DEF Rest
    <3> QED  BY <3>1, FS_Interval
  <2> QED  BY <2>4, <2>5, <2>6
<1> QED  BY <1>5, <1>6

\* A floor that is put behind the n-th of a queue: the ones behind it move up.
Insert(q, f, n) == SubSeq(q, 1, n) \o <<f>> \o SubSeq(q, n + 1, Len(q))

LEMMA Inserted ==
    ASSUME NEW q \in Seq(Floor), NEW f \in Floor, NEW n \in 0 .. Len(q)
    PROVE  /\ Insert(q, f, n) \in Seq(Floor) /\ Len(Insert(q, f, n)) = Len(q) + 1
           /\ \A i \in 1 .. Len(q) + 1 :
                Insert(q, f, n)[i] =
                    IF i <= n THEN q[i] ELSE IF i = n + 1 THEN f ELSE q[i - 1]
<1> DEFINE a == SubSeq(q, 1, n)
           b == SubSeq(q, n + 1, Len(q))
           c == a \o <<f>>
           r == Insert(q, f, n)
<1>1. Len(q) \in Nat /\ \A i \in 1 .. Len(q) : q[i] \in Floor  BY LenProperties, ElementOfSeq
<1>2. a \in Seq(Floor) /\ Len(a) = n /\ \A i \in 1 .. n : a[i] = q[i]
  <2>1. \A i \in 1 .. n : q[i] \in Floor  BY <1>1
  <2> QED  BY <2>1, SubSeqProperties
<1>3. b \in Seq(Floor) /\ Len(b) = Len(q) - n /\ \A i \in 1 .. Len(q) - n : b[i] = q[n + i]
  <2>1. (\A i \in (n + 1) .. Len(q) : q[i] \in Floor) /\ n + 1 \in Int /\ Len(q) \in Int
    BY <1>1
  <2>2. \A i \in 1 .. Len(q) - (n + 1) + 1 : b[i] = q[n + 1 + i - 1]
    BY <2>1, SubSeqProperties
  <2>3. b \in Seq(Floor) /\ Len(b) = Len(q) - n  BY <1>1, <2>1, SubSeqProperties
  <2> HIDE DEF b
  <2>4. \A i \in 1 .. Len(q) - n : b[i] = q[n + i]
    <3> TAKE i \in 1 .. Len(q) - n
    <3>1. i \in 1 .. Len(q) - (n + 1) + 1 /\ n + 1 + i - 1 = n + i  BY <1>1
    <3> QED  BY <2>2, <3>1
  <2> QED  BY <2>3, <2>4
<1>4. r = c \o b  BY DEF Insert
<1> HIDE DEF a, b, r
<1>5. /\ c \in Seq(Floor) /\ Len(c) = n + 1
      /\ \A i \in 1 .. n + 1 : c[i] = IF i <= n THEN q[i] ELSE f
  BY <1>2
<1> HIDE DEF c
<1>6. r \in Seq(Floor) /\ Len(r) = Len(q) + 1
  <2>1. r \in Seq(Floor) /\ Len(r) = Len(c) + Len(b)  BY <1>3, <1>4, <1>5, ConcatProperties
  <2> QED  BY <1>1, <1>3, <1>5, <2>1
<1>7. \A i \in 1 .. Len(c) + Len(b) : r[i] = IF i <= Len(c) THEN c[i] ELSE b[i - Len(c)]
  BY <1>3, <1>4, <1>5, ConcatProperties
<1>8. ASSUME NEW i \in 1 .. Len(q) + 1
      PROVE  r[i] = IF i <= n THEN q[i] ELSE IF i = n + 1 THEN f ELSE q[i - 1]
  <2>1. i \in 1 .. Len(c) + Len(b) /\ Len(c) = n + 1  BY <1>1, <1>3, <1>5
  <2>2. CASE i <= n + 1
    <3>1. r[i] = c[i] /\ i \in 1 .. n + 1  BY <1>7, <2>1, <2>2
    <3> QED  BY <1>5, <3>1
  <2>3. CASE ~ i <= n + 1
    <3>1. r[i] = b[i - (n + 1)]  BY <1>7, <2>1, <2>3
    <3>2. i - (n + 1) \in 1 .. Len(q) - n /\ n + (i - (n + 1)) = i - 1  BY <1>1, <2>3
    <3> QED  BY <1>3, <2>3, <3>1, <3>2
  <2> QED  BY <2>2, <2>3
<1> QED  BY <1>6, <1>8 DEF r

\* The floors of the queue after "if(!isIn(destQueue,f)) push_back, sort".
LEMMA EnqueuedRange ==
    ASSUME NEW q \in Seq(Floor), NEW f \in Floor, NEW d
    PROVE  Range(Enqueued(q, f, d)) = Range(q) \cup {f}
<1> DEFINE n == Cardinality({i \in DOMAIN q : Earlier(q[i], f, d)})
           r == Insert(q, f, n)
<1>1. CASE f \in Range(q)  BY <1>1 DEF Enqueued
<1>2. CASE f \notin Range(q)
  <2>1. Enqueued(q, f, d) = r  BY <1>2 DEF Enqueued, Insert
  <2>2. DOMAIN q = 1 .. Len(q) /\ Len(q) \in Nat  BY LenProperties
  <2>3. n \in 0 .. Len(q)
    <3> DEFINE B == {i \in DOMAIN q : Earlier(q[i], f, d)}
    <3>1. B \in SUBSET (1 .. Len(q))  BY <2>2
    <3>2. IsFiniteSet(1 .. Len(q)) /\ Cardinality(1 .. Len(q)) = Len(q)
      BY <2>2, FS_Interval
    <3>3. IsFiniteSet(B) /\ Cardinality(B) <= Len(q)  BY <3>1, <3>2, FS_Subset
    <3> QED  BY <2>2, <3>3, FS_CardinalityType
  <2> HIDE DEF n
  <2>4. /\ r \in Seq(Floor) /\ Len(r) = Len(q) + 1
        /\ \A i \in 1 .. Len(q) + 1 :
             r[i] = IF i <= n THEN q[i] ELSE IF i = n + 1 THEN f ELSE q[i - 1]
    BY <2>3, Inserted
  <2> HIDE DEF r
  <2>5. DOMAIN r = 1 .. Len(q) + 1  BY <2>4, LenProperties
  <2>6. ASSUME NEW i \in 1 .. Len(q) + 1 PROVE r[i] \in Range(q) \cup {f}
    <3>1. CASE i <= n
      <4>1. r[i] = q[i] /\ i \in 1 .. Len(q)  BY <2>2, <2>3, <2>4, <3>1
      <4> QED  BY <2>2, <4>1 DEF Range
    <3>2. CASE i = n + 1  BY <2>3, <2>4, <3>2
    <3>3. CASE i > n + 1
      <4>1. r[i] = q[i - 1] /\ i - 1 \in 1 .. Len(q)  BY <2>2, <2>3, <2>4, <3>3
      <4> QED  BY <2>2, <4>1 DEF Range
    <3> QED  BY <2>3, <3>1, <3>2, <3>3
  <2>7. f \in Range(r)
    <3>1. n + 1 \in 1 .. Len(q) + 1 /\ r[n + 1] = f  BY <2>2, <2>3, <2>4
    <3> QED  BY <2>5, <3>1 DEF Range
  <2>8. ASSUME NEW i \in 1 .. Len(q) PROVE q[i] \in Range(r)
    <3>1. CASE i <= n
      <4>1. r[i] = q[i] /\ i \in 1 .. Len(q) + 1  BY <2>2, <2>4, <3>1
      <4> QED  BY <2>5, <4>1 DEF Range
    <3>2. CASE ~ i <= n
      <4> DEFINE k == i + 1
      <4>1. k \in 1 .. Len(q) + 1 /\ ~ k <= n /\ k # n + 1 /\ k - 1 = i
        BY <2>2, <2>3, <3>2
      <4> HIDE DEF k
      <4>2. r[k] = q[i]  BY <2>4, <4>1
      <4> QED  BY <2>5, <4>1, <4>2 DEF Range
    <3> QED  BY <3>1, <3>2
  <2>9. Range(r) \subseteq Range(q) \cup {f}  BY <2>5, <2>6 DEF Range
  <2>10. Range(q) \subseteq Range(r)
    <3>1. \A g \in Range(q) : \E i \in 1 .. Len(q) : g = q[i]  BY <2>2 DEF Range
    <3> QED  BY <2>8, <3>1
  <2> QED  BY <2>1, <2>7, <2>9, <2>10
<1> QED  BY <1>1, <1>2

\* "push_back, then sort" keeps the order of an ordered queue.
LEMMA EnqueuedOrdered ==
    ASSUME NEW q \in Seq(Floor), NEW f \in Floor, NEW d \in {"UP", "DOWN"}, Ordered(q, d)
    PROVE  Ordered(Enqueued(q, f, d), d)
<1> DEFINE B == {i \in DOMAIN q : Earlier(q[i], f, d)}
           n == Cardinality(B)
           r == Insert(q, f, n)
<1>1. CASE f \in Range(q)  BY <1>1 DEF Enqueued
<1>2. CASE f \notin Range(q)
  <2>1. n \in 0 .. Len(q) /\ B = 1 .. n  BY BeforeIsPrefix
  <2>2. DOMAIN q = 1 .. Len(q) /\ Len(q) \in Nat  BY LenProperties
  <2>3. Floor \subseteq Int  BY BuildingAssumption DEF Floor
  <2>4. \A i \in 1 .. Len(q) : q[i] \in Int /\ q[i] # f
    <3>1. \A i \in 1 .. Len(q) : q[i] \in Int  BY <2>3, ElementOfSeq
    <3>2. \A i \in 1 .. Len(q) : q[i] # f  BY <1>2, <2>2 DEF Range
    <3> QED  BY <3>1, <3>2
  <2>5. \A i \in 1 .. n : Earlier(q[i], f, d)  BY <2>1
  <2>6. \A i \in (n + 1) .. Len(q) : Earlier(f, q[i], d)
    <3> SUFFICES ASSUME NEW i \in (n + 1) .. Len(q) PROVE Earlier(f, q[i], d)
      OBVIOUS
    <3>1. i \in 1 .. Len(q) /\ i \notin 1 .. n  BY <2>1
    <3>2. ~ Earlier(q[i], f, d)  BY <2>1, <2>2, <3>1
    <3>3. f \in Int /\ q[i] \in Int /\ q[i] # f  BY <2>3, <2>4, <3>1
    <3> QED  BY <3>2, <3>3 DEF Earlier
  <2>7. \A i, j \in 1 .. Len(q) : i < j => Earlier(q[i], q[j], d)  BY <2>2 DEF Ordered
  <2>8. Enqueued(q, f, d) = r  BY <1>2 DEF Enqueued, Insert
  <2> HIDE DEF n
  <2>9. /\ r \in Seq(Floor) /\ Len(r) = Len(q) + 1
         /\ \A i \in 1 .. Len(q) + 1 :
              r[i] = IF i <= n THEN q[i] ELSE IF i = n + 1 THEN f ELSE q[i - 1]
    BY <2>1, Inserted
  <2> HIDE DEF r
  <2>10. ASSUME NEW i \in 1 .. Len(q) + 1, NEW j \in 1 .. Len(q) + 1, i < j
         PROVE  Earlier(r[i], r[j], d)
    <3>1. CASE j <= n
      <4>1. r[i] = q[i] /\ r[j] = q[j]  BY <2>1, <2>2, <2>9, <2>10, <3>1
      <4> QED  BY <2>1, <2>2, <2>7, <2>10, <3>1, <4>1
    <3>2. CASE i <= n /\ j = n + 1
      <4>1. r[i] = q[i] /\ r[j] = f  BY <2>1, <2>2, <2>9, <3>2
      <4>2. i \in 1 .. n  BY <3>2
      <4> QED  BY <2>5, <4>1, <4>2
    <3>3. CASE i <= n /\ j > n + 1
      <4>1. r[i] = q[i] /\ r[j] = q[j - 1] /\ i < j - 1  BY <2>1, <2>2, <2>9, <3>3
      <4> QED  BY <2>1, <2>2, <2>7, <3>3, <4>1
    <3>4. CASE i = n + 1
      <4>1. r[i] = f /\ r[j] = q[j - 1] /\ j - 1 \in (n + 1) .. Len(q)
        BY <2>1, <2>2, <2>9, <2>10, <3>4
      <4> QED  BY <2>6, <4>1
    <3>5. CASE i > n + 1
      <4>1. r[i] = q[i - 1] /\ r[j] = q[j - 1] /\ i - 1 < j - 1
        BY <2>1, <2>2, <2>9, <2>10, <3>5
      <4> QED  BY <2>1, <2>2, <2>7, <2>10, <3>5, <4>1
    <3> QED  BY <2>1, <2>2, <2>10, <3>1, <3>2, <3>3, <3>4, <3>5
  <2>11. DOMAIN r = 1 .. Len(q) + 1  BY <2>2, <2>9
  <2> QED  BY <2>8, <2>10, <2>11 DEF Ordered
<1> QED  BY <1>1, <1>2
-----------------------------------------------------------------------------
(* The queue is the itinerary *)

LEMMA OrderedTail ==
    ASSUME NEW q \in Seq(Floor), q # << >>, NEW d, Ordered(q, d)
    PROVE  Ordered(Tail(q), d)
<1>1. DOMAIN q = 1 .. Len(q) /\ Len(q) \in Nat  BY LenProperties
<1>2. /\ Tail(q) \in Seq(Floor) /\ Len(Tail(q)) = Len(q) - 1
      /\ \A i \in 1 .. Len(Tail(q)) : Tail(q)[i] = q[i + 1]
  BY HeadTailProperties
<1>3. DOMAIN Tail(q) = 1 .. Len(q) - 1  BY <1>2, LenProperties
<1>4. ASSUME NEW i \in 1 .. Len(q) - 1, NEW j \in 1 .. Len(q) - 1, i < j
      PROVE  Earlier(Tail(q)[i], Tail(q)[j], d)
  <2>1. Tail(q)[i] = q[i + 1] /\ Tail(q)[j] = q[j + 1]  BY <1>2
  <2>2. i + 1 \in DOMAIN q /\ j + 1 \in DOMAIN q /\ i + 1 < j + 1  BY <1>1, <1>4
  <2> QED  BY <2>1, <2>2 DEF Ordered
<1> QED  BY <1>3, <1>4 DEF Ordered

LEMMA EmptyIsOrdered == \A d : Ordered(<< >>, d)
BY DEF Ordered

\* QueueIsItinerary, with the order of the queue as one idea.
LEMMA Itinerary ==
    QueueIsItinerary <=>
        /\ moveState # "IDLE" => Ordered(destQueue, moveState)
        /\ moveState = "IDLE" => destQueue = << >> \/ AllCarried
BY DEF QueueIsItinerary, Ordered

\* As long as somebody is not out, not all are carried.
LEMMA NotAllCarried ==
    ASSUME TypeOK, CountersMatchPersons, NEW p \in Person, personState[p] # "OUT"
    PROVE  ~ AllCarried
<1>1. Delivered \subseteq Person /\ Delivered # Person  BY DEF Delivered
<1>2. Cardinality(Delivered) # Cardinality(Person)
  BY <1>1, FS_Subset, PersonAssumption
<1> QED  BY <1>2 DEF AllCarried, CountersMatchPersons

\* The steps that change the queue, the direction or the number carried.
Reroutes ==
    \/ \E p \in Person : MakeRequest(p) \/ Board(p) \/ GetOut(p)
    \/ \E f \in Floor : Arrive(f)

LEMMA ArrivesAtFloor ==
    ASSUME TypeOK, ArriveUp \/ ArriveDown
    PROVE  \E f \in Floor : Arrive(f)
<1>1. Range(destQueue) \subseteq Floor  BY DEF TypeOK, Range
<1>2. (\E f \in Range(destQueue) : currentFloor < f) => currentFloor + 1 \in Floor
  BY <1>1, BuildingAssumption DEF TypeOK, Floor
<1>3. (\E f \in Range(destQueue) : currentFloor > f) => currentFloor - 1 \in Floor
  BY <1>1, BuildingAssumption DEF TypeOK, Floor
<1>4. currentFloor \in Floor  BY DEF TypeOK
<1> QED  BY <1>2, <1>3, <1>4 DEF ArriveUp, ArriveDown

LEMMA OnlyReroutes ==
    ASSUME TypeOK, [Next]_vars, ~ Reroutes
    PROVE  UNCHANGED <<moveState, destQueue, totalCarried>>
<1> USE DEF carVars, routeVars
<1>1. CASE UNCHANGED vars  BY <1>1 DEF vars
<1>2. ASSUME NEW p \in Person,
             \/ PersonEnters(p) \/ WaitForDirection(p) \/ SpinInside(p)
             \/ PersonWakesSpuriously(p) \/ MissDirection(p) \/ MissCapacity(p)
      PROVE  UNCHANGED <<moveState, destQueue, totalCarried>>
  BY <1>2
  DEF PersonEnters, WaitForDirection, SpinInside, PersonWakesSpuriously,
      MissDirection, MissCapacity, vars
<1>3. ~ ArriveUp /\ ~ ArriveDown  BY ArrivesAtFloor DEF Reroutes
<1>4. CASE LiftEnters \/ LiftWakes \/ LiftStep
  BY <1>3, <1>4
  DEF LiftStep, LiftEnters, LiftWakes, Finish, BecomeIdle, IdleEnds, IdleServes,
      IdleWaits, IdleAgain, TravelUp, TravelDown, Travel, BackToLoop, DoorsClose
<1> QED  BY <1>1, <1>2, <1>4 DEF Next, PersonStep, GetIn, Reroutes, Terminated

LEMMA RequestKeepsItinerary ==
    ASSUME TypeOK, CountersMatchPersons, QueueIsItinerary, NEW p \in Person, MakeRequest(p)
    PROVE  QueueIsItinerary'
<1>1. personState[p] \in {"NOT_REQUESTED", "MISSED"}
  BY DEF MakeRequest, RequestAndBoard, RequestHere, RequestRemote, RecordRequest, WantsRequest
<1>2. ~ AllCarried  BY <1>1, NotAllCarried
<1>3. /\ moveState # "IDLE" => Ordered(destQueue, moveState)
      /\ moveState = "IDLE" => destQueue = << >>
  BY <1>2, Itinerary
<1>4. moveState' \in {"UP", "DOWN"}
  BY DEF MakeRequest, RequestAndBoard, RequestHere, RequestRemote, MovesTo, TypeOK
<1>5. Ordered(destQueue, moveState')
  <2>1. moveState # "IDLE" => moveState' = moveState
    BY DEF MakeRequest, RequestAndBoard, RequestHere, RequestRemote
  <2> QED  BY <1>3, <2>1, EmptyIsOrdered
<1>6. Ordered(destQueue', moveState')
  <2>1. CASE RequestAndBoard(p) \/ RequestHere(p)
    <3>1. destQueue' = destQueue  BY <2>1 DEF RequestAndBoard, RequestHere
    <3> QED  BY <1>5, <3>1
  <2>2. CASE RequestRemote(p)
    <3>1. destQueue' = Enqueued(destQueue, trip[p].init, moveState')
      BY <2>2 DEF RequestRemote
    <3>2. trip[p].init \in Floor /\ destQueue \in Seq(Floor)  BY PersonFacts DEF TypeOK
    <3> QED  BY <1>4, <1>5, <3>1, <3>2, EnqueuedOrdered
  <2> QED  BY <2>1, <2>2 DEF MakeRequest
<1> QED  BY <1>4, <1>6 DEF QueueIsItinerary, Ordered

LEMMA BoardKeepsItinerary ==
    ASSUME TypeOK, QueueIsItinerary, NEW p \in Person, Board(p)
    PROVE  QueueIsItinerary'
<1>1. /\ moveState = MovesTo(p) /\ moveState' = moveState
      /\ destQueue' = Enqueued(destQueue, trip[p].dest, moveState)
  BY DEF Board
<1>2. moveState \in {"UP", "DOWN"}  BY <1>1 DEF MovesTo
<1>3. Ordered(destQueue, moveState)  BY <1>2, Itinerary
<1>4. trip[p].dest \in Floor /\ destQueue \in Seq(Floor)  BY PersonFacts DEF TypeOK
<1>5. Ordered(destQueue', moveState')  BY <1>1, <1>2, <1>3, <1>4, EnqueuedOrdered
<1> QED  BY <1>1, <1>2, <1>5 DEF QueueIsItinerary, Ordered

LEMMA GetOutKeepsItinerary ==
    ASSUME TypeOK, CountersMatchPersons, QueueIsItinerary, NEW p \in Person, GetOut(p)
    PROVE  QueueIsItinerary'
<1>1. ~ AllCarried  BY NotAllCarried DEF GetOut
<1>2. /\ destQueue' = destQueue
      /\ moveState' = IF AllCarried' THEN "IDLE" ELSE moveState
  BY DEF GetOut, AllCarried
<1>3. moveState \in {"IDLE", "UP", "DOWN"}  BY DEF TypeOK
<1> QED  BY <1>1, <1>2, <1>3 DEF QueueIsItinerary

LEMMA ArriveKeepsItinerary ==
    ASSUME TypeOK, QueueIsItinerary, NEW f \in Floor, Arrive(f)
    PROVE  QueueIsItinerary'
<1>0. totalCarried' = totalCarried  BY DEF Arrive, carVars
<1>1. CASE UNCHANGED <<destQueue, moveState>>
  BY <1>0, <1>1 DEF QueueIsItinerary, AllCarried
<1>2. CASE /\ destQueue # << >> /\ destQueue' = Tail(destQueue)
           /\ moveState' = IF destQueue' = << >> THEN "IDLE" ELSE moveState
  <2>1. destQueue \in Seq(Floor)  BY DEF TypeOK
  <2>2. moveState # "IDLE" => Ordered(Tail(destQueue), moveState)
    BY <1>2, <2>1, Itinerary, OrderedTail
  <2>3. moveState' # "IDLE" => Ordered(destQueue', moveState')  BY <1>2, <2>2
  <2>4. moveState' = "IDLE" => destQueue' = << >> \/ AllCarried'
    BY <1>0, <1>2, Itinerary DEF AllCarried
  <2> QED  BY <2>3, <2>4 DEF QueueIsItinerary, Ordered
<1> QED  BY <1>1, <1>2 DEF Arrive

\* destQueue is the lift's itinerary: in the order of travel, without
\* duplicates, and empty when the lift is idle and not yet done (makeRequest,
\* getIn, getOut and moveElevator, which only looks at the head).
THEOREM ItineraryCorrect == Spec => []QueueIsItinerary
<1>1. Init => QueueIsItinerary  BY DEF Init, QueueIsItinerary
<1>2. TypeOK /\ CountersMatchPersons /\ QueueIsItinerary /\ [Next]_vars => QueueIsItinerary'
  <2> SUFFICES ASSUME TypeOK, CountersMatchPersons, QueueIsItinerary, [Next]_vars
               PROVE  QueueIsItinerary'
    OBVIOUS
  <2>1. CASE Reroutes
    BY <2>1, RequestKeepsItinerary, BoardKeepsItinerary, GetOutKeepsItinerary,
       ArriveKeepsItinerary DEF Reroutes
  <2>2. CASE ~ Reroutes
    <3>1. UNCHANGED <<moveState, destQueue, totalCarried>>  BY <2>2, OnlyReroutes
    <3> QED  BY <3>1 DEF QueueIsItinerary, AllCarried
  <2> QED  BY <2>1, <2>2
<1> QED  BY <1>1, <1>2, TypeCorrect, CountersCorrect, PTL DEF Spec
-----------------------------------------------------------------------------
(* The weight of the riders *)

Weights == [p \in Person |-> trip[p].weight]

\* The sum that WeightMatchesRiders takes, over any set of persons.
WeightSum(S) == MapThenSumSet(LAMBDA p : trip[p].weight, S)

LEMMA WeightSumIsSum ==
    ASSUME NEW S \in SUBSET Person
    PROVE  WeightSum(S) = SumOf(Weights, S)
BY ZenonT(60) DEF WeightSum, Weights, SumOf, MapThenSumSet, MapThenFoldSet

LEMMA WeightSumOfPersons ==
    ASSUME TypeOK, NEW S \in SUBSET Person, NEW p \in Person
    PROVE  /\ SumOf(Weights, S) \in Int
           /\ p \notin S => SumOf(Weights, S \cup {p}) = SumOf(Weights, S) + trip[p].weight
           /\ p \in S => SumOf(Weights, S) = SumOf(Weights, S \ {p}) + trip[p].weight
<1>1. \A q \in Person : Weights[q] = trip[q].weight /\ Weights[q] \in Int
  BY PersonFacts DEF Weights
<1>2. IsFiniteSet(S)  BY PersonSetsFinite
<1>3. \A q \in S : Weights[q] \in Int  BY <1>1
<1>4. p \notin S => SumOf(Weights, S \cup {p}) = SumOf(Weights, S) + Weights[p]
  BY <1>1, <1>2, <1>3, SumWith
<1>5. p \in S => SumOf(Weights, S) = SumOf(Weights, S \ {p}) + Weights[p]
  BY <1>2, <1>3, SumWithout
<1> QED  BY <1>1, <1>2, <1>3, <1>4, <1>5, SumType

\* WeightMatchesRiders, in the form the lemmas on sums are stated for.
WeightIsSum == carriedWeight = SumOf(Weights, Riders)

LEMMA WeightForms == WeightMatchesRiders <=> WeightIsSum
<1>1. Riders \in SUBSET Person  BY DEF Riders
<1>2. WeightMatchesRiders <=> carriedWeight = WeightSum(Riders)
  BY DEF WeightMatchesRiders, WeightSum
<1> QED  BY <1>1, <1>2, WeightSumIsSum DEF WeightIsSum

LEMMA WeightStep ==
    ASSUME TypeOK, CountersMatchPersons, WeightIsSum, [Next]_vars
    PROVE  WeightIsSum'
<1>1. carriedWeight \in Int /\ Riders \in SUBSET Person  BY DEF TypeOK, Riders
<1>2. ASSUME NEW p \in Person, Board(p) PROVE WeightIsSum'
  <2>1. Riders' = Riders \cup {p} /\ p \notin Riders  BY <1>2, BoardCounts
  <2>2. carriedWeight' = carriedWeight + trip[p].weight  BY <1>2 DEF Board, CountEntry
  <2>3. Weights' = Weights  BY <1>2 DEF Board, Weights
  <2>4. SumOf(Weights, Riders \cup {p}) = SumOf(Weights, Riders) + trip[p].weight
    BY <1>1, <2>1, WeightSumOfPersons
  <2>5. SumOf(Weights, Riders)' = SumOf(Weights, Riders \cup {p})
    BY <2>1, <2>3
  <2> QED  BY <2>2, <2>4, <2>5 DEF WeightIsSum
<1>3. ASSUME NEW p \in Person, GetOut(p) PROVE WeightIsSum'
  <2>1. Riders' = Riders \ {p} /\ p \in Riders  BY <1>3, GetOutCounts
  <2>2. carriedWeight' = carriedWeight - trip[p].weight  BY <1>3 DEF GetOut, CountExit
  <2>3. Weights' = Weights  BY <1>3 DEF GetOut, Weights
  <2>4. SumOf(Weights, Riders) = SumOf(Weights, Riders \ {p}) + trip[p].weight
    BY <1>1, <2>1, WeightSumOfPersons
  <2>5. SumOf(Weights, Riders)' = SumOf(Weights, Riders \ {p})
    BY <2>1, <2>3
  <2>6. SumOf(Weights, Riders \ {p}) \in Int /\ trip[p].weight \in Int
    <3>1. Riders \ {p} \in SUBSET Person  BY <1>1
    <3>2. trip[p].weight \in Int  BY PersonFacts
    <3> QED  BY <3>1, <3>2, WeightSumOfPersons
  <2> QED
    <3> DEFINE a == SumOf(Weights, Riders \ {p})
               b == trip[p].weight
    <3>1. a \in Int /\ b \in Int /\ carriedWeight' = (a + b) - b
      BY <2>2, <2>4, <2>6 DEF WeightIsSum
    <3>2. SumOf(Weights, Riders)' = a  BY <2>5
    <3> HIDE DEF a, b
    <3>3. carriedWeight' = a  BY <3>1
    <3> QED  BY <3>2, <3>3 DEF WeightIsSum
<1>4. CASE ~ \E p \in Person : Board(p) \/ GetOut(p)
  <2>1. UNCHANGED <<trip, carVars, Riders, Delivered>>  BY <1>4, OnlyBoardAndGetOut
  <2> QED  BY <2>1 DEF WeightIsSum, Weights, carVars
<1> QED  BY <1>2, <1>3, <1>4

LEMMA WeightSumCorrect == Spec => []WeightIsSum
<1>1. Init => WeightIsSum
  <2> SUFFICES ASSUME Init PROVE WeightIsSum  OBVIOUS
  <2>1. Riders = {} /\ carriedWeight = 0  BY DEF Init, Riders
  <2> QED  BY <2>1, SumOfEmpty DEF WeightIsSum
<1>2. TypeOK /\ CountersMatchPersons /\ WeightIsSum /\ [Next]_vars => WeightIsSum'
  BY WeightStep
<1> QED  BY <1>1, <1>2, TypeCorrect, CountersCorrect, PTL DEF Spec

\* carriedWeight is the sum of the weights of the persons in the car (getIn,
\* getOut), for every number of persons: the account never drifts.
THEOREM WeightCorrect == Spec => []WeightMatchesRiders
BY WeightForms, WeightSumCorrect, PTL

\* Whoever finds the car full finds somebody in it: a person alone fits.
LEMMA FullMeansRiders ==
    ASSUME TypeOK, CountersMatchPersons, WeightIsSum, NEW p \in Person, ~ Fits(p)
    PROVE  Riders # {}
<1> SUFFICES ASSUME Riders = {} PROVE FALSE  OBVIOUS
<1>1. carriedPeople = 0  BY FS_EmptySet DEF CountersMatchPersons
<1>2. carriedWeight = 0  BY SumOfEmpty DEF WeightIsSum
<1>3. trip[p].weight <= WeightCapacity /\ trip[p].weight \in Nat
  BY TripsAssumption, PersonFacts DEF TypeOK
<1> QED  BY <1>1, <1>2, <1>3, BuildingAssumption DEF Fits
-----------------------------------------------------------------------------
(* Who waits where *)

LEMMA PlacesDiffer ==
    /\ Condition \cap {New, Ready, Inside, Gone} = {}
    /\ New # Inside /\ Ready # Inside /\ Gone # Inside
BY DEF Condition, New, Ready, Inside, Gone, UpCond, DownCond, DirectionCond, MissSleep,
       TimedWait, HighWaiting, LowWaiting, Exiting

\* What a step does to the threads, whatever it does to the elevator.
ThreadStep(t) ==
    \/ Enter(t) \/ TimeOut(t, TimedWait) \/ SpuriousWakeup(t)
    \/ \E C \in SUBSET Condition :
          \/ Continue(t, C) \/ Leave(t, C)
          \/ \E c \in Condition : WaitOn(t, C, c)

LEMMA PersonThreadStep ==
    ASSUME TypeOK, NEW p \in Person,
           PersonEnters(p) \/ PersonStep(p) \/ PersonWakesSpuriously(p)
    PROVE  ThreadStep(p) \/ UNCHANGED <<owner, at>>
<1>1. /\ {DirectionOf(p), BoardingOf(p), Exiting(trip[p].dest), MissSleep} \subseteq Condition
      /\ LowsToWake(p) \in SUBSET Condition /\ {} \in SUBSET Condition
  BY PersonFacts, ConditionMembers DEF LowsToWake
<1>2. Freed \in SUBSET Condition  BY ConditionMembers DEF Freed, TypeOK
<1>3. CASE PersonEnters(p) \/ PersonWakesSpuriously(p)
  BY <1>3 DEF PersonEnters, PersonWakesSpuriously, ThreadStep
<1>4. CASE WaitForDirection(p)  BY <1>1, <1>4 DEF WaitForDirection, ThreadStep
<1>5. CASE MakeRequest(p)
  BY <1>1, <1>5 DEF MakeRequest, RequestAndBoard, RequestHere, RequestRemote, ThreadStep
<1>6. CASE GetIn(p)
  BY <1>1, <1>6 DEF GetIn, MissDirection, Board, MissCapacity, ThreadStep
<1>7. CASE GetOut(p)  BY <1>2, <1>7 DEF GetOut, ThreadStep
<1>8. CASE SpinInside(p)  BY <1>8 DEF SpinInside, vars
<1> QED  BY <1>3, <1>4, <1>5, <1>6, <1>7, <1>8 DEF PersonStep

LEMMA LiftThreadStep ==
    ASSUME TypeOK, LiftEnters \/ LiftWakes \/ LiftStep
    PROVE  ThreadStep(Lift)
<1>1. /\ {} \in SUBSET Condition /\ TimedWait \in Condition
      /\ {UpCond} \in SUBSET Condition /\ {DownCond} \in SUBSET Condition
      /\ {DirectionCond, UpCond, DownCond} \in SUBSET Condition
  BY ConditionMembers
<1>2. \A f \in Floor : CalledAt(f) \in SUBSET Condition  BY ConditionMembers DEF CalledAt
<1>3. currentFloor \in Floor  BY DEF TypeOK
<1>4. CASE LiftEnters \/ LiftWakes  BY <1>4 DEF LiftEnters, LiftWakes, ThreadStep
<1>5. CASE Finish \/ BecomeIdle \/ IdleEnds \/ IdleAgain \/ BackToLoop \/ DoorsClose
  BY <1>1, <1>5 DEF Finish, BecomeIdle, IdleEnds, IdleAgain, BackToLoop, DoorsClose, ThreadStep
<1>6. CASE IdleServes \/ IdleWaits \/ TravelUp \/ TravelDown
  BY <1>1, <1>2, <1>3, <1>6
  DEF IdleServes, IdleWaits, TravelUp, TravelDown, Travel, Sleep, ThreadStep
<1>7. CASE ArriveUp \/ ArriveDown
  <2>1. PICK f \in Floor : Arrive(f)  BY <1>7, ArrivesAtFloor
  <2> QED  BY <1>1, <1>2, <2>1 DEF Arrive, Sleep, ThreadStep
<1> QED  BY <1>4, <1>5, <1>6, <1>7 DEF LiftStep

\* The thread that owns the mutex is the one that is inside the monitor.
OwnerInside == \A t \in Thread : at[t] = Inside <=> owner = t

LEMMA OwnerStep ==
    ASSUME TypeOK, OwnerInside, NEW t \in Thread, ThreadStep(t)
    PROVE  /\ OwnerInside'
           /\ \A u \in Thread \ {t} : at'[u] = at[u] \/ at'[u] = Ready
           /\ at'[t] \in Condition => owner = t
<1>1. at \in [Thread -> Place] /\ Nobody \notin Thread /\ owner \in Thread \cup {Nobody}
  BY PersonAssumption DEF TypeOK, MonitorTypeOK, Thread
<1>2. CASE Enter(t) \/ TimeOut(t, TimedWait)
  BY <1>1, <1>2, PlacesDiffer DEF OwnerInside, Enter, TimeOut
<1>3. CASE SpuriousWakeup(t)
  BY <1>1, <1>3, PlacesDiffer DEF OwnerInside, SpuriousWakeup
<1>4. ASSUME NEW C \in SUBSET Condition
      PROVE  /\ Woken(C) \in [Thread -> Place]
             /\ \A u \in Thread : /\ Woken(C)[u] = at[u] \/ Woken(C)[u] = Ready
                                  /\ Woken(C)[u] = Inside <=> at[u] = Inside
  BY <1>1, PlacesDiffer DEF Woken, Place
<1>5. ASSUME NEW C \in SUBSET Condition, Continue(t, C)
      PROVE  OwnerInside' /\ (\A u \in Thread : at'[u] = at[u] \/ at'[u] = Ready) /\ owner = t
  BY <1>4, <1>5 DEF Continue, OwnerInside
<1>6. ASSUME NEW C \in SUBSET Condition, NEW c \in Condition \cup {Gone},
             owner = t, at' = [Woken(C) EXCEPT ![t] = c], owner' = Nobody
      PROVE  /\ OwnerInside'
             /\ \A u \in Thread \ {t} : at'[u] = at[u] \/ at'[u] = Ready
  <2>1. at'[t] = c /\ c # Inside /\ \A u \in Thread \ {t} : at'[u] = Woken(C)[u]
    BY <1>4, <1>6, PlacesDiffer
  <2> QED  BY <1>1, <1>4, <1>6, <2>1 DEF OwnerInside
<1> QED
  BY <1>2, <1>3, <1>5, <1>6, PlacesDiffer
  DEF ThreadStep, WaitOn, Leave, Enter, TimeOut, SpuriousWakeup

\* Where person p may wait, of WaitersAreInPlace.
InPlace(p) ==
    \/ personState[p] \in {"NOT_REQUESTED", "MISSED"} /\ at[p] = DirectionOf(p)
    \/ personState[p] = "MISSED" /\ at[p] = MissSleep /\ Riders # {}
    \/ personState[p] = "REQUESTED" /\ at[p] = BoardingOf(p)
    \/ personState[p] = "IN" /\ at[p] = Exiting(trip[p].dest)

LEMMA NextThreadStep ==
    ASSUME TypeOK, [Next]_vars
    PROVE  (\E t \in Thread : ThreadStep(t)) \/ UNCHANGED <<owner, at>>
<1>1. CASE UNCHANGED vars  BY <1>1 DEF vars
<1>2. ASSUME NEW p \in Person,
             PersonEnters(p) \/ PersonStep(p) \/ PersonWakesSpuriously(p)
      PROVE  (\E t \in Thread : ThreadStep(t)) \/ UNCHANGED <<owner, at>>
  BY <1>2, PersonThreadStep DEF Thread
<1>3. CASE LiftEnters \/ LiftWakes \/ LiftStep  BY <1>3, LiftThreadStep DEF Thread
<1> QED  BY <1>1, <1>2, <1>3 DEF Next, Terminated

LEMMA OwnerInsideStep ==
    ASSUME TypeOK, OwnerInside, [Next]_vars
    PROVE  OwnerInside'
<1>1. CASE UNCHANGED <<owner, at>>  BY <1>1 DEF OwnerInside
<1> QED  BY <1>1, NextThreadStep, OwnerStep

\* The thread that owns the mutex, and no other one, is inside the monitor
\* (monitor.h): what makes the wakeups of a step reach all who wait.
THEOREM OwnerCorrect == Spec => []OwnerInside
<1>1. Init => OwnerInside
  <2> SUFFICES ASSUME Init PROVE OwnerInside  OBVIOUS
  <2>1. owner = Nobody /\ \A t \in Thread : at[t] = New  BY DEF Init, MonitorInit
  <2> QED  BY <2>1, PlacesDiffer, PersonAssumption DEF OwnerInside, Thread
<1>2. TypeOK /\ OwnerInside /\ [Next]_vars => OwnerInside'  BY OwnerInsideStep
<1> QED  BY <1>1, <1>2, TypeCorrect, PTL DEF Spec

\* A step only changes the state of the person whose thread owns the mutex, and
\* whoever still waits after a step of another thread waits where it did.
LEMMA Bystanders ==
    ASSUME TypeOK, OwnerInside, [Next]_vars, NEW q \in Person, owner # q
    PROVE  /\ trip' = trip /\ personState'[q] = personState[q]
           /\ at'[q] \in Condition => at'[q] = at[q]
<1>1. trip' = trip /\ personState'[q] = personState[q]
  <2>1. CASE UNCHANGED <<trip, personState>>  BY <2>1
  <2>2. ASSUME NEW p \in Person, MakeRequest(p) \/ GetIn(p) \/ GetOut(p)
        PROVE  trip' = trip /\ personState'[q] = personState[q]
    <3>1. owner = p /\ trip' = trip
      BY <2>2
      DEF MakeRequest, RequestAndBoard, RequestHere, RequestRemote, RecordRequest,
          WantsRequest, GetIn, MissDirection, Board, MissCapacity, CloseRequest, GetOut
    <3>2. \E s : personState' = [personState EXCEPT ![p] = s]
      BY <2>2
      DEF MakeRequest, RequestAndBoard, RequestHere, RequestRemote, RecordRequest,
          GetIn, MissDirection, Board, MissCapacity, GetOut
    <3> QED  BY <3>1, <3>2 DEF TypeOK
  <2>3. ASSUME NEW p \in Person,
               \/ PersonEnters(p) \/ WaitForDirection(p) \/ SpinInside(p)
               \/ PersonWakesSpuriously(p)
        PROVE  UNCHANGED <<trip, personState>>
    BY <2>3 DEF PersonEnters, WaitForDirection, SpinInside, PersonWakesSpuriously, vars
  <2>4. CASE LiftEnters \/ LiftWakes \/ LiftStep
    <3>1. UNCHANGED <<trip, personState>>
      BY <2>4
      DEF LiftStep, LiftEnters, LiftWakes, Finish, BecomeIdle, IdleEnds, IdleServes,
          IdleWaits, IdleAgain, TravelUp, TravelDown, Travel, BackToLoop, DoorsClose,
          ArriveUp, ArriveDown, Arrive
    <3> QED  BY <3>1
  <2>5. CASE UNCHANGED vars  BY <2>1, <2>5 DEF vars
  <2> QED  BY <2>1, <2>2, <2>3, <2>4, <2>5 DEF Next, PersonStep, Terminated
<1>2. at'[q] \in Condition => at'[q] = at[q]
  <2>1. CASE UNCHANGED <<owner, at>>  BY <2>1
  <2>2. ASSUME NEW t \in Thread, ThreadStep(t) PROVE at'[q] \in Condition => at'[q] = at[q]
    <3>1. q \in Thread  BY DEF Thread
    <3>2. t = q => at'[q] \notin Condition  BY <2>2, OwnerStep
    <3>3. t # q => at'[q] = at[q] \/ at'[q] = Ready  BY <2>2, <3>1, OwnerStep
    <3> QED  BY <3>2, <3>3, PlacesDiffer
  <2> QED  BY <2>1, <2>2, NextThreadStep
<1> QED  BY <1>1, <1>2

\* The riders become fewer only when one gets out, and then nobody is left
\* waiting for that.
LEMMA RidersStay ==
    ASSUME TypeOK, OwnerInside, CountersMatchPersons, [Next]_vars, Riders # {},
           NEW q \in Person, owner # q, at'[q] = MissSleep
    PROVE  Riders' # {}
<1>1. ASSUME NEW p \in Person, Board(p) PROVE Riders' # {}  BY <1>1, BoardCounts
<1>2. ASSUME NEW p \in Person, GetOut(p) PROVE FALSE
  <2>1. owner = p /\ p # q /\ MissSleep \in Freed  BY <1>2 DEF GetOut, Freed
  <2>2. at'[q] = Woken(Freed)[q]
    <3>1. Woken(Freed) \in [Thread -> Place] /\ q \in Thread /\ p \in Thread
      BY WokenType DEF TypeOK, Thread
    <3> QED  BY <1>2, <2>1, <3>1 DEF GetOut, Leave
  <2>3. Woken(Freed)[q] # MissSleep
    <3>1. q \in Thread /\ Ready # MissSleep
      BY PlacesDiffer, ConditionMembers DEF Thread
    <3> QED  BY <2>1, <3>1 DEF Woken
  <2> QED  BY <2>2, <2>3
<1>3. CASE ~ \E p \in Person : Board(p) \/ GetOut(p)
  BY <1>3, OnlyBoardAndGetOut
<1> QED  BY <1>1, <1>2, <1>3

\* What a person does before it waits puts it in its place.
LEMMA OwnerTakesPlace ==
    ASSUME TypeOK, OwnerInside, CountersMatchPersons, WeightIsSum, [Next]_vars,
           NEW q \in Person, owner = q, at'[q] \in Condition
    PROVE  InPlace(q)'
<1>0. /\ q \in Thread /\ q # Nobody /\ q # Lift /\ at[q] = Inside
      /\ Inside \notin Condition /\ Gone \notin Condition
  BY PlacesDiffer, PersonAssumption DEF OwnerInside, Thread
<1>1. ASSUME NEW C, NEW c, WaitOn(q, C, c) PROVE at'[q] = c
  <2>1. Woken(C) \in [Thread -> Place]  BY WokenType DEF TypeOK
  <2> QED  BY <1>0, <1>1, <2>1 DEF WaitOn
<1>2. CASE WaitForDirection(q)
  <2>1. personState'[q] \in {"NOT_REQUESTED", "MISSED"} /\ trip' = trip
    BY <1>2 DEF WaitForDirection, WantsRequest
  <2>2. at'[q] = DirectionOf(q)  BY <1>1, <1>2 DEF WaitForDirection
  <2> QED  BY <2>1, <2>2 DEF InPlace, DirectionOf, MovesTo
<1>3. CASE RequestHere(q) \/ RequestRemote(q)
  <2>1. personState'[q] = "REQUESTED" /\ trip' = trip
    BY <1>3 DEF RequestHere, RequestRemote, RecordRequest, TypeOK
  <2>2. at'[q] = BoardingOf(q)  BY <1>1, <1>3 DEF RequestHere, RequestRemote
  <2> QED  BY <2>1, <2>2 DEF InPlace, BoardingOf
<1>4. CASE Board(q)
  <2>1. personState'[q] = "IN" /\ trip' = trip  BY <1>4 DEF Board, TypeOK
  <2>2. at'[q] = Exiting(trip[q].dest)  BY <1>1, <1>4 DEF Board
  <2> QED  BY <2>1, <2>2 DEF InPlace
<1>5. CASE MissCapacity(q)
  <2>1. personState'[q] = "MISSED" /\ personState[q] = "REQUESTED"
    BY <1>5 DEF MissCapacity, CloseRequest, TypeOK
  <2>2. at'[q] = MissSleep  BY <1>1, <1>5 DEF MissCapacity
  <2>3. Riders # {}  BY <1>5, FullMeansRiders DEF MissCapacity
  <2>4. Riders' = Riders
    BY <1>5, <2>1 DEF MissCapacity, Riders, TypeOK
  <2> QED  BY <2>1, <2>2, <2>3, <2>4 DEF InPlace
<1>6. ASSUME at'[q] = Inside PROVE FALSE  BY <1>0, <1>6
<1>7. ASSUME UNCHANGED <<owner, at>> PROVE FALSE  BY <1>0, <1>6, <1>7
<1>8. ASSUME NEW C \in SUBSET Condition, Continue(q, C) PROVE FALSE
  BY <1>0, <1>6, <1>8 DEF Continue, Woken
<1>9. CASE RequestAndBoard(q) \/ MissDirection(q)
  <2>1. LowsToWake(q) \in SUBSET Condition /\ {} \in SUBSET Condition
    BY ConditionMembers, PersonFacts DEF LowsToWake
  <2> QED  BY <1>8, <1>9, <2>1 DEF RequestAndBoard, MissDirection
<1>10. CASE GetOut(q)
  <2>1. Woken(Freed) \in [Thread -> Place]  BY WokenType DEF TypeOK
  <2>2. at'[q] = Gone  BY <1>0, <1>10, <2>1 DEF GetOut, Leave
  <2> QED  BY <1>0, <2>2
<1>11. CASE SpinInside(q) \/ UNCHANGED vars  BY <1>7, <1>11 DEF SpinInside, vars
<1>12. CASE PersonStep(q)
  BY <1>2, <1>3, <1>4, <1>5, <1>9, <1>10, <1>11, <1>12 DEF PersonStep, MakeRequest, GetIn
<1>13. ASSUME NEW p \in Person, PersonStep(p) PROVE p = q
  BY <1>13
  DEF PersonStep, WaitForDirection, MakeRequest, RequestAndBoard, RequestHere,
      RequestRemote, RecordRequest, WantsRequest, GetIn, MissDirection, Board,
      MissCapacity, CloseRequest, SpinInside, GetOut
<1>14. ASSUME NEW p \in Person, PersonEnters(p) \/ PersonWakesSpuriously(p) PROVE FALSE
  <2>1. at[p] \in Condition => p # q  BY <1>0
  <2> QED
    BY <1>0, <1>14, <2>1, <1>6
    DEF PersonEnters, Enter, PersonWakesSpuriously, SpuriousWakeup, TypeOK, MonitorTypeOK, Thread
<1>15. ASSUME LiftEnters \/ LiftWakes \/ LiftStep PROVE FALSE
  BY <1>0, <1>15
  DEF LiftEnters, LiftWakes, Enter, TimeOut, LiftStep, At, Finish, BecomeIdle, IdleEnds,
      IdleServes, IdleWaits, IdleAgain, TravelUp, TravelDown, Travel, BackToLoop,
      ArriveUp, ArriveDown, DoorsClose
<1> QED  BY <1>11, <1>12, <1>13, <1>14, <1>15, <1>7 DEF Next, Terminated

LEMMA WaitersStep ==
    ASSUME TypeOK, OwnerInside, CountersMatchPersons, WeightIsSum, WaitersAreInPlace,
           [Next]_vars
    PROVE  WaitersAreInPlace'
<1> SUFFICES ASSUME NEW q \in Person, at'[q] \in Condition PROVE InPlace(q)'
  BY DEF WaitersAreInPlace, InPlace
<1>1. CASE owner = q  BY <1>1, OwnerTakesPlace
<1>2. CASE owner # q
  <2>1. /\ trip' = trip /\ personState'[q] = personState[q]
        /\ at'[q] = at[q]
    BY <1>2, Bystanders
  <2>2. InPlace(q)  BY <2>1 DEF WaitersAreInPlace, InPlace
  <2>3. at[q] = MissSleep /\ Riders # {} => Riders' # {}  BY <1>2, <2>1, RidersStay
  <2> QED  BY <2>1, <2>2, <2>3 DEF InPlace, DirectionOf, MovesTo, BoardingOf
<1> QED  BY <1>1, <1>2

\* A person is only ever blocked on a condition that is broadcast for its state,
\* and one that found the car full is not alone, for any number of persons,
\* any weights and any capacities (tryRequest, makeRequest, getIn, getOut).
THEOREM WaitersCorrect == Spec => []WaitersAreInPlace
<1>1. Init => WaitersAreInPlace
  <2> SUFFICES ASSUME Init PROVE WaitersAreInPlace  OBVIOUS
  <2>1. \A p \in Person : at[p] = New  BY DEF Init, MonitorInit, Thread
  <2> QED  BY <2>1, PlacesDiffer DEF WaitersAreInPlace
<1>2. /\ TypeOK /\ OwnerInside /\ CountersMatchPersons /\ WeightIsSum /\ WaitersAreInPlace
      /\ [Next]_vars
      => WaitersAreInPlace'
  BY WaitersStep
<1> QED
  BY <1>1, <1>2, TypeCorrect, OwnerCorrect, CountersCorrect, WeightSumCorrect, PTL DEF Spec
-----------------------------------------------------------------------------
(* A building whose travel time is long enough: everybody that is called at   *)
(* a floor has run before the lift leaves it.  Neither the doors' time nor    *)
(* the idle time has to be long.                                              *)

LongTravel == "travel" \in LongTimers /\ ~ SpuriousWakeups

\* Person p has been woken and not waited again.
Called(p) == at[p] \in {Ready, Inside}

\* A thread starts without a request and ends outside the car.
PhasesInv ==
    \A p \in Person : /\ at[p] = New => personState[p] = "NOT_REQUESTED"
                      /\ at[p] = Gone => personState[p] = "OUT"

\* When the lift is about to move nobody that was called is left, and it moves
\* in the direction it has chosen.
LiftInv ==
    /\ at[Lift] = New => liftPc = "loop"
    /\ liftPc \in {"travelUp", "travelDown"} /\ owner = Lift
         => \A p \in Person : ~ Called(p)
    /\ AllCarried => moveState = "IDLE"
    /\ liftPc = "travelUp" => moveState = "UP" \/ AllCarried
    /\ liftPc = "travelDown" => moveState = "DOWN" \/ AllCarried

\* A requester that has been called is at its floor, where nobody wants to get
\* out and no high priority person waits if it is not one itself.
RequestersInv ==
    \A p \in Requesters : Called(p) =>
        /\ trip[p].init = currentFloor
        /\ ~ willExit[currentFloor]
        /\ trip[p].priority = "LOW" => HighQueued(queued, currentFloor) = {}

\* The riders that have been called are those at their destination.
RidersInv == \A p \in Riders : Called(p) <=> trip[p].dest = currentFloor

\* A high priority person at the lift's floor is called, or those who get out are.
HighsInv == \A p \in HighQueued(queued, currentFloor) : Called(p) \/ willExit[currentFloor]

\* The floors of the queue are ahead of the lift.
StrictlyAhead ==
    \A f \in Range(destQueue) : /\ moveState = "UP" => f > currentFloor
                                /\ moveState = "DOWN" => f < currentFloor

PeopleInv ==
    RequestersInv /\ RidersInv /\ HighsInv /\ StrictlyAhead /\ RidersWillStop /\ HighCallsKept

\* What has been proved without assumptions about the timers.
Base ==
    /\ TypeOK /\ CountersMatchPersons /\ RequestsMatchPersons
    /\ OwnerInside /\ QueueIsItinerary /\ WaitersAreInPlace

LEMMA ConditionsDiffer ==
    /\ \A f, g : /\ HighWaiting(f) = HighWaiting(g) => f = g
                 /\ LowWaiting(f) = LowWaiting(g) => f = g
                 /\ Exiting(f) = Exiting(g) => f = g
                 /\ HighWaiting(f) # LowWaiting(g)
                 /\ HighWaiting(f) # Exiting(g)
                 /\ LowWaiting(f) # Exiting(g)
    /\ \A f : \A c \in {UpCond, DownCond, DirectionCond, MissSleep, TimedWait} :
         HighWaiting(f) # c /\ LowWaiting(f) # c /\ Exiting(f) # c
BY DEF UpCond, DownCond, DirectionCond, MissSleep, TimedWait, HighWaiting, LowWaiting, Exiting

\* Who waits on which condition.
LEMMA Waiters ==
    ASSUME Base, PhasesInv, NEW p \in Person
    PROVE  /\ p \in Requesters => at[p] = BoardingOf(p) \/ Called(p)
           /\ p \in Riders => at[p] = Exiting(trip[p].dest) \/ Called(p)
           /\ \A f \in Floor :
                /\ at[p] = HighWaiting(f)
                     => p \in Requesters /\ trip[p].init = f /\ trip[p].priority = "HIGH"
                /\ at[p] = LowWaiting(f)
                     => p \in Requesters /\ trip[p].init = f /\ trip[p].priority = "LOW"
                /\ at[p] = Exiting(f) => p \in Riders /\ trip[p].dest = f
           /\ at[p] \in {UpCond, DownCond, DirectionCond, MissSleep}
                => p \notin Requesters /\ p \notin Riders
<1>1. at[p] \in {New, Ready, Inside, Gone} \/ at[p] \in Condition
  BY DEF Base, TypeOK, MonitorTypeOK, Place, Thread
<1>2. at[p] \in Condition => InPlace(p)  BY DEF Base, WaitersAreInPlace, InPlace
<1>3. p \in Requesters <=> personState[p] = "REQUESTED"  BY DEF Requesters
<1>4. p \in Riders <=> personState[p] = "IN"  BY DEF Riders
<1>5. trip[p].priority \in {"HIGH", "LOW"}  BY PersonFacts DEF Base, Trip
<1>6. p \in Requesters => at[p] = BoardingOf(p) \/ Called(p)
  BY <1>1, <1>2, <1>3 DEF InPlace, PhasesInv, Called
<1>7. p \in Riders => at[p] = Exiting(trip[p].dest) \/ Called(p)
  BY <1>1, <1>2, <1>4 DEF InPlace, PhasesInv, Called
<1>8. ASSUME NEW f \in Floor
      PROVE  /\ at[p] = HighWaiting(f)
                  => p \in Requesters /\ trip[p].init = f /\ trip[p].priority = "HIGH"
             /\ at[p] = LowWaiting(f)
                  => p \in Requesters /\ trip[p].init = f /\ trip[p].priority = "LOW"
             /\ at[p] = Exiting(f) => p \in Riders /\ trip[p].dest = f
  <2>1. at[p] \in {HighWaiting(f), LowWaiting(f), Exiting(f)} => InPlace(p)
    BY <1>2, ConditionMembers
  <2>2. /\ at[p] = HighWaiting(f) => personState[p] = "REQUESTED" /\ at[p] = BoardingOf(p)
        /\ at[p] = LowWaiting(f) => personState[p] = "REQUESTED" /\ at[p] = BoardingOf(p)
        /\ at[p] = Exiting(f) => personState[p] = "IN" /\ at[p] = Exiting(trip[p].dest)
    <3>1. DirectionOf(p) \in {UpCond, DownCond}  BY DEF DirectionOf
    <3>2. at[p] \in {HighWaiting(f), LowWaiting(f), Exiting(f)}
            => at[p] # DirectionOf(p) /\ at[p] # MissSleep
      BY <3>1, ConditionsDiffer
    <3>3. at[p] \in {HighWaiting(f), LowWaiting(f), Exiting(f)}
            => \/ personState[p] = "REQUESTED" /\ at[p] = BoardingOf(p)
               \/ personState[p] = "IN" /\ at[p] = Exiting(trip[p].dest)
      BY <2>1, <3>2 DEF InPlace
    <3>4. at[p] \in {HighWaiting(f), LowWaiting(f)} => at[p] # Exiting(trip[p].dest)
      BY ConditionsDiffer
    <3>5. at[p] = Exiting(f) => at[p] # BoardingOf(p)  BY ConditionsDiffer DEF BoardingOf
    <3> QED  BY <3>3, <3>4, <3>5
  <2> QED  BY <1>3, <1>4, <1>5, <2>2, ConditionsDiffer DEF BoardingOf
<1>9. at[p] \in {UpCond, DownCond, DirectionCond, MissSleep}
        => p \notin Requesters /\ p \notin Riders
  <2>1. at[p] \in {UpCond, DownCond, DirectionCond, MissSleep} => InPlace(p)
    BY <1>2, ConditionMembers
  <2>2. at[p] \in {UpCond, DownCond, DirectionCond, MissSleep}
          => at[p] # BoardingOf(p) /\ at[p] # Exiting(trip[p].dest)
    BY ConditionsDiffer DEF BoardingOf
  <2> QED  BY <1>3, <1>4, <2>1, <2>2 DEF InPlace
<1> QED  BY <1>6, <1>7, <1>8, <1>9

\* The flag of a floor is set as long as a rider wants to get out there.
LEMMA WillExitMeansRiders ==
    ASSUME Base, NEW f \in Floor
    PROVE  willExit[f] <=> \E p \in Riders : trip[p].dest = f
<1>1. exitArray[f] = Cardinality(RidersTo(f)) /\ (willExit[f] <=> exitArray[f] # 0)
  BY DEF Base, CountersMatchPersons, RidersTo
<1>2. RidersTo(f) \in SUBSET Person  BY DEF RidersTo, Riders
<1>3. Cardinality(RidersTo(f)) = 0 <=> RidersTo(f) = {}
  BY <1>2, PersonSetsFinite, FS_EmptySet
<1> QED  BY <1>1, <1>3 DEF RidersTo

\* What the monitor's operations do to the other persons and to the caller.
LEMMA MonitorEffect ==
    ASSUME Base, NEW t \in Thread, NEW C \in SUBSET Condition, NEW c,
           Continue(t, C) \/ WaitOn(t, C, c) \/ Leave(t, C)
    PROVE  /\ \A p \in Person \ {t} :
                /\ at'[p] = IF at[p] \in C THEN Ready ELSE at[p]
                /\ Called(p)' <=> Called(p) \/ at[p] \in C
           /\ Continue(t, C) => at'[t] = at[t]
           /\ WaitOn(t, C, c) => at'[t] = c
           /\ Leave(t, C) => at'[t] = Gone
<1>1. owner = t /\ at[t] = Inside /\ Inside \notin C /\ Ready \notin C
  BY PlacesDiffer DEF Continue, WaitOn, Leave, Base, OwnerInside
<1>2. Woken(C) \in [Thread -> Place] /\ Person \subseteq Thread
  BY WokenType DEF Base, TypeOK, Thread
<1>3. \A p \in Person : Woken(C)[p] = IF at[p] \in C THEN Ready ELSE at[p]
  BY <1>2 DEF Woken
<1>4. Woken(C)[t] = at[t]  BY <1>1 DEF Woken
<1>5. \A p \in Person \ {t} : at'[p] = Woken(C)[p]
  BY <1>2 DEF Continue, WaitOn, Leave
<1>6. \A p \in Person \ {t} : at'[p] = IF at[p] \in C THEN Ready ELSE at[p]
  BY <1>3, <1>5
<1>7. \A p \in Person \ {t} : Called(p)' <=> Called(p) \/ at[p] \in C
  BY <1>1, <1>6 DEF Called
<1> QED  BY <1>2, <1>4, <1>6, <1>7 DEF Continue, WaitOn, Leave

\* The operations of persons that call the monitor's, and with which conditions.
LEMMA CallsMonitor ==
    ASSUME Base, NEW p \in Person
    PROVE  /\ {} \in SUBSET Condition /\ LowsToWake(p) \in SUBSET Condition
           /\ Freed \in SUBSET Condition
           /\ {DirectionOf(p), BoardingOf(p), Exiting(trip[p].dest), MissSleep} \subseteq Condition
           /\ p \in Thread
<1>1. TypeOK /\ currentFloor \in Floor  BY DEF Base, TypeOK
<1>2. Freed \in SUBSET Condition  BY <1>1, ConditionMembers DEF Freed
<1>3. LowsToWake(p) \in SUBSET Condition  BY <1>1, PersonFacts, ConditionMembers DEF LowsToWake
<1> QED  BY <1>1, <1>2, <1>3, PersonFacts, ConditionMembers

\* The thread that owns the mutex is the only one to act.
LEMMA OwnerActs ==
    ASSUME Base, LongTravel, [Next]_vars
    PROVE  \/ \E p \in Person : owner = p /\ PersonStep(p)
           \/ owner = Lift /\ LiftStep
           \/ owner = Nobody /\ \/ \E p \in Person : PersonEnters(p)
                                \/ LiftEnters \/ LiftWakes
           \/ UNCHANGED vars
<1>1. ASSUME NEW p \in Person, PersonStep(p) PROVE owner = p
  BY <1>1
  DEF PersonStep, WaitForDirection, MakeRequest, RequestAndBoard, RequestHere,
      RequestRemote, RecordRequest, WantsRequest, GetIn, MissDirection, Board,
      MissCapacity, CloseRequest, SpinInside, GetOut
<1>2. ASSUME NEW p \in Person, PersonEnters(p) PROVE owner = Nobody
  BY <1>2 DEF PersonEnters, Enter
<1>3. ASSUME NEW p \in Person, PersonWakesSpuriously(p) PROVE FALSE
  BY <1>3 DEF PersonWakesSpuriously, LongTravel
<1>4. ASSUME LiftEnters \/ LiftWakes PROVE owner = Nobody
  BY <1>4 DEF LiftEnters, LiftWakes, Enter, TimeOut
<1>5. ASSUME LiftStep PROVE owner = Lift
  BY <1>5
  DEF LiftStep, At, Finish, BecomeIdle, IdleEnds, IdleServes, IdleWaits, IdleAgain,
      TravelUp, TravelDown, Travel, BackToLoop, ArriveUp, ArriveDown, DoorsClose
<1> QED  BY <1>1, <1>2, <1>3, <1>4, <1>5 DEF Next, Terminated

LEMMA PhasesStep ==
    ASSUME Base, LongTravel, PhasesInv, [Next]_vars
    PROVE  PhasesInv'
<1> SUFFICES ASSUME NEW p \in Person, at'[p] \in {New, Gone}
             PROVE  /\ at'[p] = New => personState'[p] = "NOT_REQUESTED"
                    /\ at'[p] = Gone => personState'[p] = "OUT"
  BY DEF PhasesInv
<1>0. p \in Thread /\ p # Nobody /\ p # Lift  BY PersonAssumption DEF Thread
<1>1. CASE owner # p
  <2>1. personState'[p] = personState[p]  BY <1>1, Bystanders DEF Base
  <2>2. ASSUME NEW t \in Thread, ThreadStep(t) PROVE at'[p] = at[p]
    <3>1. CASE t = p
      <4>1. Enter(p) \/ TimeOut(p, TimedWait) \/ SpuriousWakeup(p)
        BY <1>1, <2>2, <3>1 DEF ThreadStep, Continue, WaitOn, Leave
      <4>2. at'[p] \in {Inside, Ready}
        BY <1>0, <4>1 DEF Enter, TimeOut, SpuriousWakeup, Base, TypeOK, MonitorTypeOK
      <4> QED  BY <4>2 DEF New, Gone, Inside, Ready
    <3>2. CASE t # p
      <4>1. at'[p] = at[p] \/ at'[p] = Ready  BY <1>0, <2>2, <3>2, OwnerStep DEF Base
      <4> QED  BY <4>1 DEF New, Gone, Ready
    <3> QED  BY <3>1, <3>2
  <2>3. at'[p] = at[p]  BY <2>2, NextThreadStep DEF Base
  <2> QED  BY <2>1, <2>3 DEF PhasesInv
<1>2. CASE owner = p
  <2>1. at[p] = Inside  BY <1>0, <1>2 DEF Base, OwnerInside
  <2>2. PersonStep(p) \/ UNCHANGED vars  BY <1>0, <1>2, OwnerActs
  <2>3. CASE UNCHANGED vars \/ SpinInside(p)  BY <2>1, <2>3 DEF vars, SpinInside, New, Gone, Inside
  <2>4. CASE GetOut(p)
    <3>1. personState'[p] = "OUT"  BY <2>4 DEF GetOut, Base, TypeOK
    <3>2. at'[p] = Gone  BY <2>4, CallsMonitor, MonitorEffect DEF GetOut
    <3> QED  BY <3>1, <3>2 DEF New, Gone
  <2>5. CASE RequestAndBoard(p) \/ MissDirection(p)
    <3>1. at'[p] = at[p]
      BY <2>5, CallsMonitor, MonitorEffect DEF RequestAndBoard, MissDirection
    <3> QED  BY <2>1, <3>1 DEF New, Gone, Inside
  <2>6. CASE \/ WaitForDirection(p) \/ RequestHere(p) \/ RequestRemote(p) \/ Board(p)
             \/ MissCapacity(p)
    <3>1. at'[p] \in {DirectionOf(p), BoardingOf(p), Exiting(trip[p].dest), MissSleep}
      BY <2>6, CallsMonitor, MonitorEffect
      DEF WaitForDirection, RequestHere, RequestRemote, Board, MissCapacity
    <3> QED  BY <3>1, CallsMonitor, PlacesDiffer
  <2> QED
    BY <2>2, <2>3, <2>4, <2>5, <2>6 DEF PersonStep, MakeRequest, GetIn
<1> QED  BY <1>1, <1>2

LEMMA LiftWakesAlone ==
    ASSUME Base, LongTravel, LiftWakes, liftPc \in {"travelUp", "travelDown"}
    PROVE  \A p \in Person : ~ Called(p)'
<1>1. TimerOf(liftPc) = "travel"  BY DEF TimerOf
<1>2. \A p \in Person : at[p] # Ready  BY <1>1 DEF LiftWakes, LongTravel
<1>3. \A p \in Person : at[p] # Inside /\ at'[p] = at[p]
  BY PersonAssumption DEF Base, OwnerInside, LiftWakes, TimeOut, Thread, TypeOK, MonitorTypeOK
<1> QED  BY <1>2, <1>3 DEF Called

LEMMA LiftInvStep ==
    ASSUME Base, LongTravel, LiftInv, [Next]_vars
    PROVE  LiftInv'
<1>0. /\ TypeOK /\ Lift \in Thread /\ Lift # Nobody
      /\ \A p \in Person : p # Lift /\ p # Nobody /\ p \in Thread
  BY PersonAssumption DEF Base, Thread
<1>1. CASE UNCHANGED vars
  BY <1>1 DEF vars, carVars, routeVars, LiftInv, Called, AllCarried
<1>2. ASSUME NEW p \in Person, PersonEnters(p) PROVE LiftInv'
  <2>1. owner' = p /\ at'[Lift] = at[Lift]
    BY <1>0, <1>2 DEF PersonEnters, Enter, TypeOK, MonitorTypeOK
  <2> QED  BY <1>0, <1>2, <2>1 DEF PersonEnters, LiftInv, AllCarried, carVars, routeVars
<1>3. ASSUME NEW p \in Person, PersonStep(p), owner = p PROVE LiftInv'
  <2>1. owner' # Lift /\ at'[Lift] \in {at[Lift], Ready} /\ liftPc' = liftPc
    <3>1. owner' # Lift /\ liftPc' = liftPc
      BY <1>0, <1>3
      DEF PersonStep, WaitForDirection, MakeRequest, RequestAndBoard, RequestHere,
          RequestRemote, GetIn, MissDirection, Board, MissCapacity, SpinInside, GetOut,
          Continue, WaitOn, Leave, vars
    <3>2. ThreadStep(p) \/ UNCHANGED <<owner, at>>  BY <1>0, <1>3, PersonThreadStep
    <3>3. at'[Lift] \in {at[Lift], Ready}  BY <1>0, <3>2, OwnerStep DEF Base
    <3> QED  BY <3>1, <3>3
  <2>2. Ready # New  BY DEF Ready, New
  <2>3. CASE UNCHANGED <<moveState, totalCarried>>
    BY <2>1, <2>2, <2>3 DEF LiftInv, AllCarried
  <2>4. CASE MakeRequest(p)
    <3>1. ~ AllCarried
      BY <2>4, NotAllCarried
      DEF Base, MakeRequest, RequestAndBoard, RequestHere, RequestRemote, RecordRequest,
          WantsRequest
    <3>2. totalCarried' = totalCarried /\ (moveState # "IDLE" => moveState' = moveState)
      BY <2>4 DEF MakeRequest, RequestAndBoard, RequestHere, RequestRemote, carVars
    <3> QED  BY <2>1, <2>2, <3>1, <3>2 DEF LiftInv, AllCarried
  <2>5. CASE GetOut(p)
    <3>1. ~ AllCarried  BY <2>5, NotAllCarried DEF Base, GetOut
    <3>2. moveState' = IF AllCarried' THEN "IDLE" ELSE moveState
      BY <2>5 DEF GetOut, AllCarried
    <3> QED  BY <2>1, <2>2, <3>1, <3>2 DEF LiftInv
  <2>6. CASE WaitForDirection(p) \/ SpinInside(p) \/ GetIn(p)
    BY <2>3, <2>6
    DEF WaitForDirection, SpinInside, GetIn, MissDirection, Board, MissCapacity, CountEntry,
        carVars, routeVars, vars
  <2> QED  BY <1>3, <2>4, <2>5, <2>6 DEF PersonStep
<1>4. CASE LiftEnters
  <2>1. at'[Lift] = Inside /\ Inside # New /\ liftPc = "loop"
    BY <1>0, <1>4 DEF LiftEnters, Enter, TypeOK, MonitorTypeOK, LiftInv, Inside, New
  <2> QED  BY <1>4, <2>1 DEF LiftEnters, LiftInv, AllCarried, carVars, routeVars
<1>5. CASE LiftWakes
  <2>1. at'[Lift] = Inside /\ Inside # New
    BY <1>0, <1>5 DEF LiftWakes, TimeOut, TypeOK, MonitorTypeOK, Inside, New
  <2>2. liftPc' = liftPc  BY <1>5 DEF LiftWakes
  <2> QED
    BY <1>5, <2>1, <2>2, LiftWakesAlone DEF LiftWakes, LiftInv, AllCarried, carVars, routeVars
<1>6. ASSUME LiftStep, owner = Lift PROVE LiftInv'
  <2>1. at'[Lift] # New
    <3>1. ThreadStep(Lift)  BY <1>0, <1>6, LiftThreadStep
    <3>2. \A C : Woken(C) \in [Thread -> Place]  BY <1>0, WokenType DEF TypeOK
    <3>3. at[Lift] = Inside  BY <1>0, <1>6 DEF Base, OwnerInside
    <3>4. \A C \in SUBSET Condition : Woken(C)[Lift] = Inside
      BY <1>0, <3>3, PlacesDiffer DEF Woken
    <3>5. New # Inside /\ New # Gone /\ New \notin Condition /\ Ready # New
      BY PlacesDiffer DEF New, Gone, Ready
    <3> QED
      BY <1>0, <1>6, <3>1, <3>2, <3>3, <3>4, <3>5
      DEF ThreadStep, Enter, TimeOut, SpuriousWakeup, Continue, WaitOn, Leave, TypeOK, MonitorTypeOK
  <2>2. owner' = Lift => liftPc' \notin {"travelUp", "travelDown"}
    <3>1. CASE Finish \/ BecomeIdle \/ IdleEnds \/ IdleServes \/ IdleWaits \/ IdleAgain
               \/ BackToLoop \/ DoorsClose
      BY <1>0, <3>1
      DEF Finish, BecomeIdle, IdleEnds, IdleServes, IdleWaits, IdleAgain, BackToLoop,
          DoorsClose, Sleep, WaitOn
    <3>2. CASE TravelUp \/ TravelDown
      BY <1>0, <3>2 DEF TravelUp, TravelDown, Travel, Sleep, WaitOn
    <3>3. CASE ArriveUp \/ ArriveDown
      BY <1>0, <3>3 DEF ArriveUp, ArriveDown, Arrive, Sleep, WaitOn
    <3> QED  BY <1>6, <3>1, <3>2, <3>3 DEF LiftStep
  <2>3. totalCarried' = totalCarried
    BY <1>6
    DEF LiftStep, Finish, BecomeIdle, IdleEnds, IdleServes, IdleWaits, IdleAgain, TravelUp,
        TravelDown, Travel, BackToLoop, ArriveUp, ArriveDown, Arrive, DoorsClose, carVars
  <2>4. moveState' \in {moveState, "IDLE"}
    BY <1>6
    DEF LiftStep, Finish, BecomeIdle, IdleEnds, IdleServes, IdleWaits, IdleAgain, TravelUp,
        TravelDown, Travel, BackToLoop, ArriveUp, ArriveDown, Arrive, DoorsClose, routeVars
  <2>5. /\ liftPc' = "travelUp" => moveState' = "UP"
        /\ liftPc' = "travelDown" => moveState' = "DOWN"
    <3>1. CASE TravelUp \/ TravelDown
      BY <3>1 DEF TravelUp, TravelDown, Travel, Sleep, routeVars
    <3>2. CASE ~ (TravelUp \/ TravelDown)
      BY <1>6, <3>2
      DEF LiftStep, Finish, BecomeIdle, IdleEnds, IdleServes, IdleWaits, IdleAgain,
          BackToLoop, ArriveUp, ArriveDown, Arrive, DoorsClose, Sleep
    <3> QED  BY <3>1, <3>2
  <2> QED  BY <2>1, <2>2, <2>3, <2>4, <2>5 DEF LiftInv, AllCarried
<1> QED  BY <1>1, <1>2, <1>3, <1>4, <1>5, <1>6, OwnerActs

\* A step that only wakes persons, each at its floor, keeps what holds of them.
LEMMA QuietStep ==
    ASSUME Base, PeopleInv,
           UNCHANGED <<trip, personState, carVars, requestVars, routeVars>>,
           \A p \in Requesters \cup Riders : Called(p) => Called(p)',
           \A p \in Requesters : Called(p)' /\ ~ Called(p) =>
               /\ trip[p].init = currentFloor
               /\ ~ willExit[currentFloor]
               /\ trip[p].priority = "LOW" => HighQueued(queued, currentFloor) = {},
           \A p \in Riders : Called(p)' /\ ~ Called(p) => trip[p].dest = currentFloor
    PROVE  PeopleInv'
<1>1. /\ Requesters' = Requesters /\ Riders' = Riders /\ trip' = trip /\ queued' = queued
      /\ UNCHANGED <<willExit, moveState, currentFloor, destQueue>>
  BY DEF Requesters, Riders, carVars, requestVars, routeVars
<1>2. \A f : HighQueued(queued, f)' = HighQueued(queued, f)  BY <1>1 DEF HighQueued
<1>3. HighQueued(queued, currentFloor) \subseteq Requesters
  BY DEF Base, RequestsMatchPersons, HighQueued
<1>4. RequestersInv'  BY <1>1, <1>2 DEF PeopleInv, RequestersInv
<1>5. RidersInv'  BY <1>1 DEF PeopleInv, RidersInv
<1>6. HighsInv'  BY <1>1, <1>2, <1>3 DEF PeopleInv, HighsInv
<1>7. StrictlyAhead' /\ RidersWillStop' /\ HighCallsKept'
  BY <1>1 DEF PeopleInv, StrictlyAhead, RidersWillStop, HighCallsKept
<1> QED  BY <1>4, <1>5, <1>6, <1>7 DEF PeopleInv

\* Whom the lift calls at floor f: those who get out there; without any the
\* high priority persons of the floor; without any the low priority ones.
LEMMA CalledThere ==
    ASSUME Base, PhasesInv, NEW f \in Floor, NEW p \in Person, at[p] \in CalledAt(f)
    PROVE  /\ p \in Requesters => /\ trip[p].init = f /\ ~ willExit[f]
                                  /\ trip[p].priority = "LOW" => HighQueued(queued, f) = {}
           /\ p \in Riders => trip[p].dest = f
<1>0. ~ (p \in Requesters /\ p \in Riders)  BY DEF Requesters, Riders
<1>1. CASE willExit[f]
  <2>1. p \in Riders /\ trip[p].dest = f  BY <1>1, Waiters DEF CalledAt
  <2> QED  BY <1>0, <2>1
<1>2. CASE ~ willExit[f] /\ HighQueued(queued, f) # {}
  <2>1. p \in Requesters /\ trip[p].init = f /\ trip[p].priority = "HIGH"
    BY <1>2, Waiters DEF CalledAt
  <2> QED  BY <1>0, <1>2, <2>1
<1>3. CASE ~ willExit[f] /\ HighQueued(queued, f) = {}
  <2>1. p \in Requesters /\ trip[p].init = f /\ trip[p].priority = "LOW"
    BY <1>3, Waiters DEF CalledAt
  <2> QED  BY <1>0, <1>3, <2>1
<1> QED  BY <1>1, <1>2, <1>3

LEMMA LiftQuietStep ==
    ASSUME Base, PhasesInv, PeopleInv, LiftStep, ~ ArriveUp, ~ ArriveDown
    PROVE  PeopleInv'
<1>0. /\ Lift \in Thread /\ Lift \notin Person /\ currentFloor \in Floor
      /\ UNCHANGED <<trip, personState, carVars, requestVars, routeVars>>
  BY PersonAssumption
  DEF Thread, Base, TypeOK, LiftStep, Finish, BecomeIdle, IdleEnds, IdleServes, IdleWaits,
      IdleAgain, TravelUp, TravelDown, Travel, BackToLoop, DoorsClose
<1>1. ASSUME NEW C \in SUBSET Condition,
             \/ Continue(Lift, C) \/ WaitOn(Lift, C, TimedWait) \/ Leave(Lift, C),
             C \subseteq {UpCond, DownCond, DirectionCond} \/ C = CalledAt(currentFloor)
      PROVE  PeopleInv'
  <2>1. \A p \in Person : Called(p)' <=> Called(p) \/ at[p] \in C
    BY <1>0, <1>1, MonitorEffect
  <2>2. CASE C \subseteq {UpCond, DownCond, DirectionCond}
    <3>1. \A p \in Person : at[p] \in C => p \notin Requesters /\ p \notin Riders
      BY <2>2, Waiters
    <3> QED  BY <1>0, <2>1, <3>1, QuietStep DEF Requesters, Riders
  <2>3. CASE C = CalledAt(currentFloor)
    <3> QED  BY <1>0, <2>1, <2>3, CalledThere, QuietStep DEF Requesters, Riders
  <2> QED  BY <1>1, <2>2, <2>3
<1>2. /\ {} \in SUBSET Condition /\ {UpCond} \in SUBSET Condition
      /\ {DownCond} \in SUBSET Condition
      /\ {DirectionCond, UpCond, DownCond} \in SUBSET Condition
  BY ConditionMembers
<1>3. CalledAt(currentFloor) \in SUBSET Condition  BY <1>0, ConditionMembers DEF CalledAt
<1>4. CASE Finish \/ BecomeIdle \/ IdleEnds \/ IdleAgain \/ BackToLoop \/ DoorsClose
  BY <1>1, <1>2, <1>4 DEF Finish, BecomeIdle, IdleEnds, IdleAgain, BackToLoop, DoorsClose
<1>5. CASE IdleServes  BY <1>1, <1>3, <1>5 DEF IdleServes, Sleep
<1>6. CASE IdleWaits  BY <1>1, <1>2, <1>6 DEF IdleWaits, Sleep
<1>7. CASE TravelUp \/ TravelDown
  BY <1>1, <1>2, <1>7 DEF TravelUp, TravelDown, Travel, Sleep
<1> QED  BY <1>4, <1>5, <1>6, <1>7 DEF LiftStep

LEMMA EntersStep ==
    ASSUME Base, PhasesInv, PeopleInv,
           (\E p \in Person : PersonEnters(p)) \/ LiftEnters \/ LiftWakes
    PROVE  PeopleInv'
<1>0. UNCHANGED <<trip, personState, carVars, requestVars, routeVars>>
  BY DEF PersonEnters, LiftEnters, LiftWakes
<1>1. ASSUME NEW p \in Person, PersonEnters(p)
      PROVE  \A q \in Requesters \cup Riders : Called(q)' <=> Called(q)
  <2>1. at[p] \in {New, Ready} /\ at' = [at EXCEPT ![p] = Inside]
    BY <1>1 DEF PersonEnters, Enter
  <2>2. at[p] = New => p \notin Requesters /\ p \notin Riders
    BY DEF PhasesInv, Requesters, Riders
  <2>3. \A q \in Person : q # p => at'[q] = at[q]  BY <2>1 DEF Base, TypeOK, MonitorTypeOK, Thread
  <2>4. at'[p] = Inside  BY <2>1 DEF Base, TypeOK, MonitorTypeOK, Thread
  <2> QED  BY <2>1, <2>2, <2>3, <2>4 DEF Called, Requesters, Riders
<1>2. ASSUME LiftEnters \/ LiftWakes
      PROVE  \A q \in Requesters \cup Riders : Called(q)' <=> Called(q)
  <2>1. at' = [at EXCEPT ![Lift] = Inside]
    BY <1>2 DEF LiftEnters, LiftWakes, Enter, TimeOut
  <2>2. \A q \in Person : at'[q] = at[q]
    BY <2>1, PersonAssumption DEF Base, TypeOK, MonitorTypeOK, Thread
  <2> QED  BY <2>2 DEF Called, Requesters, Riders
<1>3. \A q \in Requesters \cup Riders : Called(q)' <=> Called(q)  BY <1>1, <1>2
<1> QED  BY <1>0, <1>3, QuietStep

LEMMA WaitForDirectionStep ==
    ASSUME Base, PeopleInv, NEW p \in Person, WaitForDirection(p)
    PROVE  PeopleInv'
<1>1. UNCHANGED <<trip, personState, carVars, requestVars, routeVars>>
  BY DEF WaitForDirection
<1>2. p \notin Requesters /\ p \notin Riders
  BY DEF WaitForDirection, WantsRequest, Requesters, Riders
<1>3. \A q \in Person \ {p} : Called(q)' <=> Called(q)
  <2>1. WaitOn(p, {}, DirectionOf(p)) /\ p \in Thread  BY CallsMonitor DEF WaitForDirection
  <2> DEFINE C == {}
  <2>2. C \in SUBSET Condition /\ WaitOn(p, C, DirectionOf(p))  BY <2>1
  <2> HIDE DEF C
  <2>3. \A q \in Person \ {p} : Called(q)' <=> Called(q) \/ at[q] \in C
    BY <2>1, <2>2, MonitorEffect
  <2> QED  BY <2>3 DEF C
<1>4. \A q \in Requesters \cup Riders : Called(q)' <=> Called(q)
  BY <1>2, <1>3 DEF Requesters, Riders
<1> QED  BY <1>1, <1>4, QuietStep

\* A step of thread t that notifies nobody calls nobody.
LEMMA CallsNobody ==
    ASSUME Base, NEW t \in Thread, NEW c, Continue(t, {}) \/ WaitOn(t, {}, c)
    PROVE  /\ \A q \in Person \ {t} : Called(q)' <=> Called(q)
           /\ Continue(t, {}) => at'[t] = at[t]
           /\ WaitOn(t, {}, c) => at'[t] = c
<1> DEFINE C == {}
<1>1. C \in SUBSET Condition /\ (Continue(t, C) \/ WaitOn(t, C, c))  OBVIOUS
<1> HIDE DEF C
<1>2. \A q \in Person \ {t} : Called(q)' <=> Called(q) \/ at[q] \in C
  BY <1>1, MonitorEffect
<1>3. /\ Continue(t, C) => at'[t] = at[t]
      /\ WaitOn(t, C, c) => at'[t] = c
  BY <1>1, MonitorEffect
<1> QED  BY <1>2, <1>3 DEF C

\* Who waits is not called.
LEMMA WaitingIsNotCalled ==
    ASSUME NEW q, at'[q] \in Condition
    PROVE  ~ Called(q)'
BY PlacesDiffer DEF Called

LEMMA MakeRequestFacts ==
    ASSUME Base, NEW p \in Person, MakeRequest(p)
    PROVE  /\ owner = p /\ at[p] = Inside /\ p \in Thread
           /\ p \notin Requesters /\ p \notin Riders
           /\ Requesters' = Requesters \cup {p} /\ Riders' = Riders
           /\ UNCHANGED <<trip, carVars, currentFloor>>
           /\ moveState # "IDLE" => moveState' = moveState
           /\ moveState = "IDLE" => destQueue = << >>
<1>1. /\ owner = p /\ personState[p] \in {"NOT_REQUESTED", "MISSED"}
      /\ personState' = [personState EXCEPT ![p] = "REQUESTED"]
      /\ UNCHANGED <<trip, carVars, currentFloor>>
      /\ moveState # "IDLE" => moveState' = moveState
  BY DEF MakeRequest, RequestAndBoard, RequestHere, RequestRemote, RecordRequest, WantsRequest
<1>2. ~ AllCarried  BY <1>1, NotAllCarried DEF Base
<1>3. moveState = "IDLE" => destQueue = << >>  BY <1>2, Itinerary DEF Base
<1>4. p \in Thread /\ at[p] = Inside  BY <1>1 DEF Base, OwnerInside, Thread
<1> QED  BY <1>1, <1>3, <1>4 DEF Requesters, Riders, Base, TypeOK

\* A request of p leaves riders, calls and the queue as they were.
LEMMA RequestLeaves ==
    ASSUME Base, PeopleInv, NEW p \in Person, MakeRequest(p),
           \A q \in Person \ {p} : Called(q)' <=> Called(q)
    PROVE  /\ RidersInv'
           /\ destQueue' = destQueue => StrictlyAhead'
           /\ Range(destQueue) \subseteq Range(destQueue') => RidersWillStop'
<1>1. /\ p \notin Riders /\ Riders' = Riders /\ trip' = trip /\ currentFloor' = currentFloor
      /\ moveState # "IDLE" => moveState' = moveState
      /\ moveState = "IDLE" => destQueue = << >>
  BY MakeRequestFacts
<1>2. RidersInv'  BY <1>1 DEF PeopleInv, RidersInv, Riders
<1>3. destQueue' = destQueue => StrictlyAhead'
  BY <1>1 DEF PeopleInv, StrictlyAhead, Range
<1>4. Range(destQueue) \subseteq Range(destQueue') => RidersWillStop'
  BY <1>1 DEF PeopleInv, RidersWillStop
<1> QED  BY <1>2, <1>3, <1>4

LEMMA RequestAndBoardStep ==
    ASSUME Base, PeopleInv, NEW p \in Person, RequestAndBoard(p)
    PROVE  PeopleInv'
<1>0. MakeRequest(p)  BY DEF MakeRequest
<1>1. /\ Requesters' = Requesters \cup {p} /\ UNCHANGED <<trip, carVars, currentFloor>>
      /\ p \in Thread /\ at[p] = Inside
  BY <1>0, MakeRequestFacts
<1>2. /\ currentFloor = trip[p].init /\ MayBoardNow(p) /\ Continue(p, {})
      /\ queued' = queued /\ destQueue' = destQueue
  BY DEF RequestAndBoard
<1>3. /\ \A q \in Person \ {p} : Called(q)' <=> Called(q)
      /\ at'[p] = Inside
  BY <1>1, <1>2, CallsNobody
<1>4. Called(p) /\ Called(p)'  BY <1>1, <1>3 DEF Called
<1>5. \A q \in Person : Called(q)' <=> Called(q)  BY <1>3, <1>4
<1>6. \A f : HighQueued(queued, f)' = HighQueued(queued, f)  BY <1>1, <1>2 DEF HighQueued
<1>7. RidersInv' /\ StrictlyAhead' /\ RidersWillStop'
  BY <1>0, <1>2, <1>3, RequestLeaves
<1>8. RequestersInv'
  BY <1>1, <1>2, <1>5, <1>6 DEF PeopleInv, RequestersInv, MayBoardNow, carVars, Requesters
<1>9. HighsInv'
  BY <1>1, <1>2, <1>5, <1>6 DEF PeopleInv, HighsInv, carVars, HighQueued, Base, TypeOK
<1>10. HighCallsKept'  BY <1>1, <1>2 DEF PeopleInv, HighCallsKept
<1> QED  BY <1>7, <1>8, <1>9, <1>10 DEF PeopleInv

LEMMA RequestHereStep ==
    ASSUME Base, PeopleInv, NEW p \in Person, RequestHere(p)
    PROVE  PeopleInv'
<1>0. MakeRequest(p)  BY DEF MakeRequest
<1>1. /\ Requesters' = Requesters \cup {p} /\ UNCHANGED <<trip, carVars, currentFloor>>
      /\ p \in Thread /\ at[p] = Inside
  BY <1>0, MakeRequestFacts
<1>2. /\ currentFloor = trip[p].init /\ ~ MayBoardNow(p) /\ WaitOn(p, {}, BoardingOf(p))
      /\ queued' = queued \cup {p} /\ destQueue' = destQueue
  BY DEF RequestHere
<1>3. (\A q \in Person \ {p} : Called(q)' <=> Called(q)) /\ at'[p] = BoardingOf(p)
  BY <1>1, <1>2, CallsNobody
<1>4. ~ Called(p)'  BY <1>3, CallsMonitor, WaitingIsNotCalled
<1>5. trip[p].priority = "HIGH" => willExit[currentFloor]
  BY <1>2 DEF MayBoardNow
<1>6. trip[p].priority = "LOW"
        => HighQueued(queued, currentFloor)' = HighQueued(queued, currentFloor)
  BY <1>1, <1>2 DEF HighQueued
<1>7. trip[p].priority \in {"HIGH", "LOW"}  BY PersonFacts DEF Trip, Base
<1>8. RidersInv' /\ StrictlyAhead' /\ RidersWillStop'
  BY <1>0, <1>2, <1>3, RequestLeaves
<1>9. RequestersInv'
  <2> SUFFICES ASSUME NEW q \in Requesters', Called(q)'
               PROVE  /\ trip[q].init = currentFloor
                      /\ ~ willExit[currentFloor]
                      /\ trip[q].priority = "LOW" => HighQueued(queued, currentFloor)' = {}
    BY <1>1 DEF RequestersInv, carVars
  <2>1. q \in Requesters /\ Called(q) /\ q # p  BY <1>1, <1>3, <1>4 DEF Requesters
  <2>2. /\ trip[q].init = currentFloor /\ ~ willExit[currentFloor]
        /\ trip[q].priority = "LOW" => HighQueued(queued, currentFloor) = {}
    BY <2>1 DEF PeopleInv, RequestersInv
  <2> QED  BY <1>5, <1>6, <1>7, <2>2
<1>10. HighsInv'
  <2> SUFFICES ASSUME NEW q \in HighQueued(queued, currentFloor)'
               PROVE  Called(q)' \/ willExit[currentFloor]
    BY <1>1 DEF HighsInv, carVars
  <2>1. CASE q = p  BY <1>1, <1>5, <2>1 DEF HighQueued
  <2>2. CASE q # p
    <3>1. q \in HighQueued(queued, currentFloor)  BY <1>1, <1>2, <2>2 DEF HighQueued
    <3>2. q \in Person  BY <3>1 DEF HighQueued, Base, TypeOK
    <3> QED  BY <1>3, <2>2, <3>1, <3>2 DEF PeopleInv, HighsInv
  <2> QED  BY <2>1, <2>2
<1>11. HighCallsKept'  BY <1>1, <1>2 DEF PeopleInv, HighCallsKept
<1> QED  BY <1>8, <1>9, <1>10, <1>11 DEF PeopleInv

LEMMA RequestRemoteStep ==
    ASSUME Base, PeopleInv, NEW p \in Person, RequestRemote(p)
    PROVE  PeopleInv'
<1>0. MakeRequest(p)  BY DEF MakeRequest
<1>1. /\ Requesters' = Requesters \cup {p} /\ UNCHANGED <<trip, carVars, currentFloor>>
      /\ p \in Thread /\ at[p] = Inside
      /\ moveState # "IDLE" => moveState' = moveState
      /\ moveState = "IDLE" => destQueue = << >>
  BY <1>0, MakeRequestFacts
<1>2. /\ currentFloor # trip[p].init /\ WaitOn(p, {}, BoardingOf(p)) /\ MayRequest(p)
      /\ queued' = queued \cup {p}
      /\ moveState' = IF moveState # "IDLE" THEN moveState
                      ELSE IF trip[p].init > currentFloor THEN "UP" ELSE "DOWN"
      /\ destQueue' = Enqueued(destQueue, trip[p].init, moveState')
  BY DEF RequestRemote, RecordRequest
<1>3. (\A q \in Person \ {p} : Called(q)' <=> Called(q)) /\ at'[p] = BoardingOf(p)
  BY <1>1, <1>2, CallsNobody
<1>4. ~ Called(p)'  BY <1>3, CallsMonitor, WaitingIsNotCalled
<1>5. trip[p].init \in Floor /\ destQueue \in Seq(Floor) /\ currentFloor \in Floor
  BY PersonFacts DEF Base, TypeOK
<1>6. Range(destQueue') = Range(destQueue) \cup {trip[p].init}
  BY <1>2, <1>5, EnqueuedRange
<1>7. HighQueued(queued, currentFloor)' = HighQueued(queued, currentFloor)
  BY <1>1, <1>2 DEF HighQueued
<1>8. RidersInv' /\ RidersWillStop'  BY <1>0, <1>3, <1>6, RequestLeaves
<1>9. RequestersInv'
  <2> SUFFICES ASSUME NEW q \in Requesters', Called(q)'
               PROVE  /\ trip[q].init = currentFloor
                      /\ ~ willExit[currentFloor]
                      /\ trip[q].priority = "LOW" => HighQueued(queued, currentFloor)' = {}
    BY <1>1 DEF RequestersInv, carVars
  <2>1. q \in Requesters /\ Called(q)  BY <1>1, <1>3, <1>4 DEF Requesters
  <2> QED  BY <1>7, <2>1 DEF PeopleInv, RequestersInv
<1>10. HighsInv'
  <2>1. \A q \in HighQueued(queued, currentFloor) : q \in Person /\ q # p
    BY <1>2 DEF HighQueued, Base, TypeOK
  <2> QED  BY <1>1, <1>3, <1>7, <2>1 DEF PeopleInv, HighsInv, carVars
<1>11. HighCallsKept'  BY <1>1, <1>2, <1>6 DEF PeopleInv, HighCallsKept
<1>12. StrictlyAhead'
  <2>1. /\ moveState' = "UP" => trip[p].init > currentFloor
        /\ moveState' = "DOWN" => trip[p].init < currentFloor
    BY <1>2, <1>5, BuildingAssumption DEF MayRequest, Floor
  <2>2. ASSUME NEW f \in Range(destQueue)
        PROVE  (moveState' = "UP" => f > currentFloor) /\ (moveState' = "DOWN" => f < currentFloor)
    <3>1. moveState # "IDLE"  BY <1>1 DEF Range
    <3> QED  BY <1>1, <3>1 DEF PeopleInv, StrictlyAhead
  <2> QED  BY <1>1, <1>6, <2>1, <2>2 DEF StrictlyAhead
<1> QED  BY <1>8, <1>9, <1>10, <1>11, <1>12 DEF PeopleInv

\* getIn: the person that enters or misses the lift is at its floor, where
\* nobody wants to get out.
LEMMA GetInFacts ==
    ASSUME Base, PhasesInv, PeopleInv, NEW p \in Person, GetIn(p)
    PROVE  /\ owner = p /\ Called(p) /\ p \in Thread /\ p \in Requesters
           /\ Requesters' = Requesters \ {p} /\ queued' = queued \ {p}
           /\ UNCHANGED <<trip, currentFloor, moveState>>
           /\ trip[p].init = currentFloor /\ ~ willExit[currentFloor]
           /\ trip[p].priority = "LOW" => HighQueued(queued, currentFloor) = {}
           /\ \A q \in Person \ {p} :
                /\ Called(q)' <=> Called(q) \/ at[q] \in LowsToWake(p)
                /\ at[q] \in LowsToWake(p)
                     => /\ q \in Requesters /\ trip[q].init = currentFloor
                        /\ HighQueued(queued, currentFloor)' = {}
<1>1. /\ owner = p /\ personState[p] = "REQUESTED" /\ queued' = queued \ {p}
      /\ UNCHANGED <<trip, currentFloor, moveState>>
  BY DEF GetIn, MissDirection, Board, MissCapacity, CloseRequest, routeVars
<1>2. personState' = [personState EXCEPT ![p] = "MISSED"]
        \/ personState' = [personState EXCEPT ![p] = "IN"]
  BY DEF GetIn, MissDirection, Board, MissCapacity
<1>3. p \in Requesters /\ Requesters' = Requesters \ {p}
  BY <1>1, <1>2 DEF Requesters, Base, TypeOK
<1>4. p \in Thread /\ Called(p)  BY <1>1 DEF Base, OwnerInside, Thread, Called
<1>5. /\ trip[p].init = currentFloor /\ ~ willExit[currentFloor]
      /\ trip[p].priority = "LOW" => HighQueued(queued, currentFloor) = {}
  BY <1>3, <1>4 DEF PeopleInv, RequestersInv
<1>6. \E c : Continue(p, LowsToWake(p)) \/ WaitOn(p, LowsToWake(p), c)
  BY DEF GetIn, MissDirection, Board, MissCapacity
<1>7. \A q \in Person \ {p} : Called(q)' <=> Called(q) \/ at[q] \in LowsToWake(p)
  BY <1>4, <1>6, CallsMonitor, MonitorEffect
<1>8. ASSUME NEW q \in Person \ {p}, at[q] \in LowsToWake(p)
      PROVE  /\ q \in Requesters /\ trip[q].init = currentFloor
             /\ HighQueued(queued, currentFloor)' = {}
  <2>1. at[q] = LowWaiting(currentFloor) /\ HighQueued(queued \ {p}, currentFloor) = {}
    BY <1>5, <1>8 DEF LowsToWake
  <2>2. currentFloor \in Floor  BY DEF Base, TypeOK
  <2>3. q \in Requesters /\ trip[q].init = currentFloor  BY <2>1, <2>2, Waiters
  <2>4. HighQueued(queued, currentFloor)' = HighQueued(queued \ {p}, currentFloor)
    BY <1>1 DEF HighQueued
  <2> QED  BY <2>1, <2>3, <2>4
<1> QED  BY <1>1, <1>3, <1>4, <1>5, <1>7, <1>8

\* What getIn leaves of the requests, when the queue only grows and the flag
\* of the floor stays.
LEMMA GetInRequests ==
    ASSUME Base, PhasesInv, PeopleInv, NEW p \in Person, GetIn(p),
           ~ willExit'[currentFloor], Range(destQueue) \subseteq Range(destQueue')
    PROVE  RequestersInv' /\ HighsInv' /\ HighCallsKept'
<1>1. /\ Requesters' = Requesters \ {p} /\ queued' = queued \ {p}
      /\ UNCHANGED <<trip, currentFloor>> /\ ~ willExit[currentFloor]
      /\ \A q \in Person \ {p} :
           /\ Called(q)' <=> Called(q) \/ at[q] \in LowsToWake(p)
           /\ at[q] \in LowsToWake(p)
                => trip[q].init = currentFloor /\ HighQueued(queued, currentFloor)' = {}
  BY GetInFacts
<1>2. HighQueued(queued, currentFloor)' = HighQueued(queued, currentFloor) \ {p}
  BY <1>1 DEF HighQueued
<1>3. RequestersInv'
  <2> SUFFICES ASSUME NEW q \in Requesters', Called(q)'
               PROVE  /\ trip[q].init = currentFloor
                      /\ trip[q].priority = "LOW" => HighQueued(queued, currentFloor)' = {}
    BY <1>1 DEF RequestersInv
  <2>1. q \in Requesters /\ q \in Person \ {p}  BY <1>1 DEF Requesters
  <2>2. CASE Called(q)
    <3>1. /\ trip[q].init = currentFloor
          /\ trip[q].priority = "LOW" => HighQueued(queued, currentFloor) = {}
      BY <2>1, <2>2 DEF PeopleInv, RequestersInv
    <3> QED  BY <1>2, <3>1
  <2>3. CASE at[q] \in LowsToWake(p)  BY <1>1, <2>1, <2>3
  <2> QED  BY <1>1, <2>1, <2>2, <2>3
<1>4. HighsInv'
  <2>1. \A q \in HighQueued(queued, currentFloor) : q \in Person
    BY DEF HighQueued, Base, TypeOK
  <2> QED  BY <1>1, <1>2, <2>1 DEF PeopleInv, HighsInv
<1>5. HighCallsKept'  BY <1>1 DEF PeopleInv, HighCallsKept
<1> QED  BY <1>3, <1>4, <1>5

LEMMA MissStep ==
    ASSUME Base, PhasesInv, PeopleInv, NEW p \in Person, MissDirection(p) \/ MissCapacity(p)
    PROVE  PeopleInv'
<1>0. GetIn(p)  BY DEF GetIn
<1>1. /\ UNCHANGED <<willExit, destQueue, moveState, currentFloor, trip>>
      /\ personState[p] = "REQUESTED" /\ personState' = [personState EXCEPT ![p] = "MISSED"]
  BY DEF MissDirection, MissCapacity, CloseRequest, carVars, routeVars
<1>2. Riders' = Riders /\ p \notin Riders  BY <1>1 DEF Riders, Base, TypeOK
<1>3. RequestersInv' /\ HighsInv' /\ HighCallsKept'
  BY <1>0, <1>1, GetInFacts, GetInRequests
<1>4. RidersInv'
  <2>1. \A q \in Riders : q \in Person \ {p} /\ q \notin Requesters
    BY <1>2 DEF Riders, Requesters
  <2>2. \A q \in Riders : Called(q)' <=> Called(q)  BY <1>0, <2>1, GetInFacts
  <2> QED  BY <1>1, <1>2, <2>2 DEF PeopleInv, RidersInv
<1>5. StrictlyAhead' /\ RidersWillStop'
  BY <1>1, <1>2 DEF PeopleInv, StrictlyAhead, RidersWillStop
<1> QED  BY <1>3, <1>4, <1>5 DEF PeopleInv

LEMMA BoardStep ==
    ASSUME Base, PhasesInv, PeopleInv, NEW p \in Person, Board(p)
    PROVE  PeopleInv'
<1>0. GetIn(p)  BY DEF GetIn
<1>1. /\ UNCHANGED <<moveState, currentFloor, trip>> /\ moveState = MovesTo(p)
      /\ willExit' = [willExit EXCEPT ![trip[p].dest] = TRUE]
      /\ destQueue' = Enqueued(destQueue, trip[p].dest, moveState)
      /\ WaitOn(p, LowsToWake(p), Exiting(trip[p].dest))
  BY DEF Board, CountEntry
<1>2. Riders' = Riders \cup {p} /\ p \notin Riders  BY BoardCounts DEF Base
<1>3. /\ trip[p].init \in Floor /\ trip[p].dest \in Floor /\ trip[p].init # trip[p].dest
      /\ destQueue \in Seq(Floor) /\ currentFloor \in Floor
  BY PersonFacts, TripsAssumption DEF Base, TypeOK
<1>4. trip[p].init = currentFloor /\ ~ willExit[currentFloor]  BY <1>0, GetInFacts
<1>5. ~ willExit'[currentFloor]
  BY <1>1, <1>3, <1>4 DEF Base, TypeOK
<1>6. Range(destQueue') = Range(destQueue) \cup {trip[p].dest}
  BY <1>1, <1>3, EnqueuedRange
<1>7. RequestersInv' /\ HighsInv' /\ HighCallsKept'
  BY <1>0, <1>5, <1>6, GetInRequests
<1>8. RidersInv'
  <2>1. \A q \in Riders : q \in Person \ {p} /\ q \notin Requesters
    BY <1>2 DEF Riders, Requesters
  <2>2. \A q \in Riders : Called(q)' <=> Called(q)  BY <1>0, <2>1, GetInFacts
  <2>3. at'[p] = Exiting(trip[p].dest)
    <3> DEFINE C == LowsToWake(p)
               c == Exiting(trip[p].dest)
    <3>1. WaitOn(p, C, c) /\ C \in SUBSET Condition /\ p \in Thread  BY <1>1, CallsMonitor
    <3> HIDE DEF C, c
    <3>2. at'[p] = c  BY <3>1, MonitorEffect
    <3> QED  BY <3>2 DEF c
  <2>4. ~ Called(p)'  BY <2>3, CallsMonitor, WaitingIsNotCalled
  <2> QED  BY <1>1, <1>2, <1>3, <1>4, <2>2, <2>4 DEF PeopleInv, RidersInv
<1>9. RidersWillStop'  BY <1>1, <1>2, <1>6 DEF PeopleInv, RidersWillStop
<1>10. StrictlyAhead'
  <2>1. /\ moveState = "UP" => trip[p].dest > currentFloor
        /\ moveState = "DOWN" => trip[p].dest < currentFloor
    BY <1>1, <1>3, <1>4, BuildingAssumption DEF MovesTo, Floor
  <2> QED  BY <1>1, <1>6, <2>1 DEF PeopleInv, StrictlyAhead
<1> QED  BY <1>7, <1>8, <1>9, <1>10 DEF PeopleInv

LEMMA GetOutStep ==
    ASSUME Base, PhasesInv, PeopleInv, NEW p \in Person, GetOut(p)
    PROVE  PeopleInv'
<1>1. /\ UNCHANGED <<trip, queued, currentFloor, destQueue>> /\ owner = p
      /\ personState[p] = "IN" /\ personState' = [personState EXCEPT ![p] = "OUT"]
      /\ trip[p].dest = currentFloor /\ Leave(p, Freed)
      /\ moveState' \in {moveState, "IDLE"}
  BY DEF GetOut, requestVars
<1>2. Riders' = Riders \ {p} /\ p \in Riders  BY GetOutCounts DEF Base
<1>3. Requesters' = Requesters /\ p \notin Requesters
  BY <1>1 DEF Requesters, Base, TypeOK
<1>4. willExit[currentFloor]
  BY <1>1, <1>2, WillExitMeansRiders DEF Base, TypeOK
<1>5. exitArray'[currentFloor] = 0 <=> ~ willExit'[currentFloor]
  <2>1. CountersMatchPersons'  BY GetOutCounts DEF Base
  <2>2. currentFloor \in Floor  BY DEF Base, TypeOK
  <2>3. willExit'[currentFloor] <=> exitArray'[currentFloor] # 0
    BY <1>1, <2>1, <2>2 DEF CountersMatchPersons
  <2> QED  BY <2>3
<1>6. \A q \in Person \ {p} : Called(q)' <=> Called(q) \/ at[q] \in Freed
  BY <1>1, CallsMonitor, MonitorEffect
<1>7. \A q \in Requesters : ~ Called(q)  BY <1>4 DEF PeopleInv, RequestersInv
<1>8. ASSUME NEW q \in Person, at[q] \in Freed, q \in Requesters \/ q \in Riders
      PROVE  /\ q \in Requesters /\ q \notin Riders /\ trip[q].init = currentFloor
             /\ trip[q].priority = "HIGH" /\ ~ willExit'[currentFloor]
  <2>1. at[q] # MissSleep  BY <1>8, Waiters
  <2>2. at[q] = HighWaiting(currentFloor) /\ exitArray'[currentFloor] = 0
    BY <1>8, <2>1 DEF Freed
  <2>3. currentFloor \in Floor  BY DEF Base, TypeOK
  <2>4. q \in Requesters /\ trip[q].init = currentFloor /\ trip[q].priority = "HIGH"
    BY <2>2, <2>3, Waiters
  <2> QED  BY <1>5, <2>2, <2>4 DEF Requesters, Riders
<1>9. RequestersInv'
  <2> SUFFICES ASSUME NEW q \in Requesters, Called(q)'
               PROVE  /\ trip[q].init = currentFloor /\ ~ willExit'[currentFloor]
                      /\ trip[q].priority # "LOW"
    BY <1>1, <1>3 DEF RequestersInv
  <2>1. q \in Person \ {p}  BY <1>3 DEF Requesters
  <2>2. at[q] \in Freed  BY <1>6, <1>7, <2>1
  <2> QED  BY <1>8, <2>1, <2>2
<1>10. RidersInv'
  <2>1. \A q \in Riders \ {p} : q \in Person \ {p}  BY DEF Riders
  <2>2. \A q \in Riders \ {p} : Called(q)' <=> Called(q)  BY <1>6, <1>8, <2>1
  <2> QED  BY <1>1, <1>2, <2>2 DEF PeopleInv, RidersInv
<1>11. HighsInv'
  <2> SUFFICES ASSUME NEW q \in HighQueued(queued, currentFloor), ~ willExit'[currentFloor]
               PROVE  Called(q)'
    BY <1>1 DEF HighsInv, HighQueued
  <2>1. /\ q \in Requesters /\ q \in Person \ {p}
        /\ trip[q].init = currentFloor /\ trip[q].priority = "HIGH"
    BY <1>3 DEF HighQueued, Base, RequestsMatchPersons, Requesters
  <2>2. at[q] = HighWaiting(currentFloor)
    BY <1>7, <2>1, Waiters DEF BoardingOf
  <2>3. HighWaiting(currentFloor) \in Freed  BY <1>5 DEF Freed
  <2> QED  BY <1>6, <2>1, <2>2, <2>3
<1>12. StrictlyAhead' /\ RidersWillStop' /\ HighCallsKept'
  BY <1>1, <1>2 DEF PeopleInv, StrictlyAhead, RidersWillStop, HighCallsKept
<1> QED  BY <1>9, <1>10, <1>11, <1>12 DEF PeopleInv

\* The lift arrives at f with everybody it has called gone: nobody is left
\* that wants to get out or, with a high priority, to get in where it was.
LEMMA NobodyLeft ==
    ASSUME Base, LiftInv, PeopleInv, ArriveUp \/ ArriveDown
    PROVE  /\ \A p \in Person : ~ Called(p)
           /\ \A p \in Riders : trip[p].dest \in Range(destQueue)
           /\ \A p \in HighQueued(queued, currentFloor) : FALSE
           /\ \A p \in queued : trip[p].priority = "HIGH" => trip[p].init \in Range(destQueue)
<1>1. owner = Lift /\ liftPc \in {"travelUp", "travelDown"}
  BY DEF ArriveUp, ArriveDown, At
<1>2. \A p \in Person : ~ Called(p)  BY <1>1 DEF LiftInv
<1>3. \A p \in Riders : p \in Person /\ trip[p].dest # currentFloor
  BY <1>2 DEF Riders, PeopleInv, RidersInv
<1>4. \A p \in Riders : trip[p].dest \in Range(destQueue)
  BY <1>3 DEF PeopleInv, RidersWillStop
<1>5. currentFloor \in Floor /\ queued \in SUBSET Person  BY DEF Base, TypeOK
<1>6. ~ willExit[currentFloor]  BY <1>3, <1>5, WillExitMeansRiders
<1>7. HighQueued(queued, currentFloor) \subseteq Person  BY <1>5 DEF HighQueued
<1>8. \A p \in HighQueued(queued, currentFloor) : FALSE
  BY <1>2, <1>6, <1>7 DEF PeopleInv, HighsInv
<1>9. \A p \in queued : trip[p].priority = "HIGH" => trip[p].init # currentFloor
  BY <1>8 DEF HighQueued
<1>10. \A p \in queued : trip[p].priority = "HIGH" => trip[p].init \in Range(destQueue)
  BY <1>9 DEF PeopleInv, HighCallsKept
<1> QED  BY <1>2, <1>4, <1>8, <1>10

\* The floor the lift arrives at is the head of its queue or not in it, and the
\* rest of the queue is ahead.
LEMMA ArrivesInOrder ==
    ASSUME Base, LiftInv, PeopleInv, ~ AllCarried, ArriveUp \/ ArriveDown
    PROVE  \E f \in Floor :
             /\ Arrive(f)
             /\ f \in Range(destQueue) => destQueue # << >> /\ f = Head(destQueue)
             /\ StrictlyAhead'
<1>1. /\ destQueue \in Seq(Floor) /\ currentFloor \in Floor
      /\ moveState # "IDLE" => Ordered(destQueue, moveState)
  BY Itinerary DEF Base, TypeOK
<1>2. /\ DOMAIN destQueue = 1 .. Len(destQueue) /\ Len(destQueue) \in Nat
      /\ \A i \in 1 .. Len(destQueue) : destQueue[i] \in Floor
  BY <1>1, LenProperties, ElementOfSeq
<1>3. Range(destQueue) = {destQueue[i] : i \in 1 .. Len(destQueue)}  BY <1>2 DEF Range
<1>4. destQueue # << >> => Len(destQueue) >= 1 /\ Head(destQueue) = destQueue[1]
  BY <1>1, <1>2, EmptySeq, HeadTailProperties
<1>5. \A g \in Floor : g \in Int  BY BuildingAssumption DEF Floor
<1>6. destQueue # << >> => Range(Tail(destQueue)) = {destQueue[i] : i \in 2 .. Len(destQueue)}
  <2> SUFFICES ASSUME destQueue # << >>
               PROVE  Range(Tail(destQueue)) = {destQueue[i] : i \in 2 .. Len(destQueue)}
    OBVIOUS
  <2>1. /\ Tail(destQueue) \in Seq(Floor) /\ Len(Tail(destQueue)) = Len(destQueue) - 1
        /\ \A i \in 1 .. Len(Tail(destQueue)) : Tail(destQueue)[i] = destQueue[i + 1]
    BY <1>1, HeadTailProperties
  <2>2. DOMAIN Tail(destQueue) = 1 .. Len(destQueue) - 1  BY <2>1, LenProperties
  <2>3. Range(Tail(destQueue)) = {destQueue[i + 1] : i \in 1 .. Len(destQueue) - 1}
    BY <2>1, <2>2 DEF Range
  <2>4. \A i \in 2 .. Len(destQueue) : i - 1 \in 1 .. Len(destQueue) - 1 /\ i = (i - 1) + 1
    BY <1>2
  <2>5. \A i \in 1 .. Len(destQueue) - 1 : i + 1 \in 2 .. Len(destQueue)  BY <1>2
  <2> QED  BY <2>3, <2>4, <2>5
<1>7. ASSUME NEW f \in Floor, Arrive(f),
             \A i \in 1 .. Len(destQueue) : ~ Earlier(destQueue[i], f, moveState),
             f \in Range(destQueue) \/ destQueue = << >> \/ f # currentFloor,
             moveState \in {"UP", "DOWN"}
      PROVE  (f \in Range(destQueue) => destQueue # << >> /\ f = Head(destQueue)) /\ StrictlyAhead'
  <2>1. \A i, j \in 1 .. Len(destQueue) : i < j => Earlier(destQueue[i], destQueue[j], moveState)
    BY <1>1, <1>2, <1>7 DEF Ordered
  <2>2. f \in Range(destQueue) => destQueue # << >> /\ f = Head(destQueue)
    <3> SUFFICES ASSUME NEW i \in 1 .. Len(destQueue), f = destQueue[i]
                 PROVE  destQueue # << >> /\ f = Head(destQueue)
      BY <1>3
    <3>1. destQueue # << >>  BY <1>2, EmptySeq
    <3>2. i = 1  BY <1>2, <1>7, <2>1
    <3> QED  BY <1>4, <3>1, <3>2
  <2>3. \A g \in Range(destQueue') : g \in Floor /\ Earlier(f, g, moveState)
    <3>1. CASE destQueue # << >> /\ f = Head(destQueue)
      <4>1. destQueue' = Tail(destQueue)  BY <1>7, <3>1 DEF Arrive
      <4>2. \A i \in 2 .. Len(destQueue) : Earlier(destQueue[1], destQueue[i], moveState)
        BY <1>2, <2>1
      <4> QED  BY <1>2, <1>4, <1>6, <3>1, <4>1, <4>2
    <3>2. CASE ~ (destQueue # << >> /\ f = Head(destQueue))
      <4>1. destQueue' = destQueue /\ f \notin Range(destQueue)
        BY <1>7, <2>2, <3>2 DEF Arrive
      <4> QED  BY <1>2, <1>3, <1>5, <1>7, <4>1 DEF Earlier
    <3> QED  BY <3>1, <3>2
  <2>4. currentFloor' = f /\ moveState' \in {moveState, "IDLE"}  BY <1>7 DEF Arrive
  <2>5. StrictlyAhead'  BY <1>5, <2>3, <2>4 DEF StrictlyAhead, Earlier
  <2> QED  BY <2>2, <2>5
<1>8. CASE ArriveUp
  <2>1. moveState = "UP"  BY <1>8 DEF ArriveUp, At, LiftInv
  <2>2. \A g \in Range(destQueue) : g > currentFloor  BY <2>1 DEF PeopleInv, StrictlyAhead
  <2> DEFINE f == IF \E g \in Range(destQueue) : currentFloor < g
                    THEN currentFloor + 1 ELSE currentFloor
  <2>3. Arrive(f)  BY <1>8 DEF ArriveUp
  <2>4. Range(destQueue) \subseteq Floor  BY <1>2, <1>3
  <2>5. f \in Floor  BY <1>1, <2>4, BuildingAssumption DEF Floor
  <2>6. f \in Range(destQueue) \/ destQueue = << >> \/ f # currentFloor
    <3>1. destQueue # << >> => destQueue[1] \in Range(destQueue)  BY <1>2, <1>3, <1>4
    <3> QED  BY <1>1, <1>5, <2>2, <2>4, <3>1
  <2>7. \A i \in 1 .. Len(destQueue) : ~ Earlier(destQueue[i], f, moveState)
    <3>1. f \in {currentFloor, currentFloor + 1}  OBVIOUS
    <3> HIDE DEF f
    <3>2. \A g \in Range(destQueue) : g \in Floor /\ ~ (g < f)
      BY <1>1, <1>5, <2>2, <2>4, <3>1
    <3> QED  BY <1>3, <2>1, <3>2 DEF Earlier
  <2> HIDE DEF f
  <2>8. /\ f \in Range(destQueue) => destQueue # << >> /\ f = Head(destQueue)
        /\ StrictlyAhead'
    BY <1>7, <2>1, <2>3, <2>5, <2>6, <2>7
  <2> QED  BY <2>3, <2>5, <2>8
<1>9. CASE ArriveDown
  <2>1. moveState = "DOWN"  BY <1>9 DEF ArriveDown, At, LiftInv
  <2>2. \A g \in Range(destQueue) : g < currentFloor  BY <2>1 DEF PeopleInv, StrictlyAhead
  <2> DEFINE f == IF \E g \in Range(destQueue) : currentFloor > g
                    THEN currentFloor - 1 ELSE currentFloor
  <2>3. Arrive(f)  BY <1>9 DEF ArriveDown
  <2>4. Range(destQueue) \subseteq Floor  BY <1>2, <1>3
  <2>5. f \in Floor  BY <1>1, <2>4, BuildingAssumption DEF Floor
  <2>6. f \in Range(destQueue) \/ destQueue = << >> \/ f # currentFloor
    <3>1. destQueue # << >> => destQueue[1] \in Range(destQueue)  BY <1>2, <1>3, <1>4
    <3> QED  BY <1>1, <1>5, <2>2, <2>4, <3>1
  <2>7. \A i \in 1 .. Len(destQueue) : ~ Earlier(destQueue[i], f, moveState)
    <3>1. f \in {currentFloor, currentFloor - 1}  OBVIOUS
    <3> HIDE DEF f
    <3>2. \A g \in Range(destQueue) : g \in Floor /\ ~ (g > f)
      BY <1>1, <1>5, <2>2, <2>4, <3>1
    <3> QED  BY <1>3, <2>1, <3>2 DEF Earlier
  <2> HIDE DEF f
  <2>8. /\ f \in Range(destQueue) => destQueue # << >> /\ f = Head(destQueue)
        /\ StrictlyAhead'
    BY <1>7, <2>1, <2>3, <2>5, <2>6, <2>7
  <2> QED  BY <2>3, <2>5, <2>8
<1> QED  BY <1>8, <1>9

LEMMA RangeOfTail ==
    ASSUME NEW q \in Seq(Floor), q # << >>
    PROVE  Range(q) = {Head(q)} \cup Range(Tail(q))
<1>1. DOMAIN q = 1 .. Len(q) /\ Len(q) \in Nat /\ Len(q) >= 1  BY LenProperties, EmptySeq
<1>2. /\ Tail(q) \in Seq(Floor) /\ Len(Tail(q)) = Len(q) - 1 /\ Head(q) = q[1]
      /\ \A i \in 1 .. Len(Tail(q)) : Tail(q)[i] = q[i + 1]
  BY HeadTailProperties
<1>3. DOMAIN Tail(q) = 1 .. Len(q) - 1  BY <1>2, LenProperties
<1>4. Range(Tail(q)) = {q[i + 1] : i \in 1 .. Len(q) - 1}  BY <1>2, <1>3 DEF Range
<1>5. Range(q) = {q[i] : i \in 1 .. Len(q)}  BY <1>1 DEF Range
<1>6. \A i \in 1 .. Len(q) : i = 1 \/ (i - 1 \in 1 .. Len(q) - 1 /\ i = (i - 1) + 1)  BY <1>1
<1>7. 1 \in 1 .. Len(q) /\ \A i \in 1 .. Len(q) - 1 : i + 1 \in 1 .. Len(q)  BY <1>1
<1>8. ASSUME NEW i \in 1 .. Len(q) PROVE q[i] = q[1] \/ q[i] \in Range(Tail(q))
  <2>1. i # 1 => q[(i - 1) + 1] \in Range(Tail(q))  BY <1>4, <1>6
  <2> QED  BY <1>6, <2>1
<1>9. \A i \in 1 .. Len(q) - 1 : q[i + 1] \in Range(q)  BY <1>5, <1>7
<1>10. q[1] \in Range(q)  BY <1>5, <1>7
<1>11. Range(q) \subseteq {q[1]} \cup Range(Tail(q))  BY <1>5, <1>8
<1>12. Range(Tail(q)) \subseteq Range(q)  BY <1>4, <1>9
<1> QED  BY <1>2, <1>10, <1>11, <1>12

LEMMA ArriveStep ==
    ASSUME Base, PhasesInv, LiftInv, PeopleInv, ArriveUp \/ ArriveDown
    PROVE  PeopleInv'
<1>0. /\ UNCHANGED <<trip, personState, carVars, requestVars>>
      /\ moveState' \in {moveState, "IDLE"}
  BY DEF ArriveUp, ArriveDown, Arrive
<1>1. /\ Requesters' = Requesters /\ Riders' = Riders
      /\ UNCHANGED <<trip, queued, willExit>>
      /\ \A g : HighQueued(queued, g)' = HighQueued(queued, g)
  BY <1>0 DEF Requesters, Riders, HighQueued, carVars, requestVars
<1>2. queued \subseteq Requesters  BY DEF Base, RequestsMatchPersons
<1>3. CASE AllCarried
  <2>1. Requesters = {} /\ Riders = {}
    BY <1>3, NotAllCarried DEF Base, Requesters, Riders
  <2>2. moveState' = "IDLE"  BY <1>0, <1>3 DEF LiftInv
  <2>3. Requesters' = {} /\ Riders' = {} /\ queued' = {}  BY <1>1, <1>2, <2>1
  <2>4. \A g : HighQueued(queued, g)' = {}  BY <2>3 DEF HighQueued
  <2>5. RequestersInv' /\ RidersInv' /\ RidersWillStop'
    BY <2>3 DEF RequestersInv, RidersInv, RidersWillStop
  <2>6. HighsInv' /\ HighCallsKept' /\ StrictlyAhead'
    BY <2>2, <2>3, <2>4 DEF HighsInv, HighCallsKept, StrictlyAhead
  <2> QED  BY <2>5, <2>6 DEF PeopleInv
<1>4. CASE ~ AllCarried
  <2>1. /\ \A p \in Person : ~ Called(p)
        /\ \A p \in Riders : trip[p].dest \in Range(destQueue)
        /\ \A p \in queued : trip[p].priority = "HIGH" => trip[p].init \in Range(destQueue)
    BY NobodyLeft
  <2>2. PICK f \in Floor :
               /\ Arrive(f)
               /\ f \in Range(destQueue) => destQueue # << >> /\ f = Head(destQueue)
               /\ StrictlyAhead'
    BY <1>4, ArrivesInOrder
  <2>3. currentFloor' = f  BY <2>2 DEF Arrive
  <2>4. Lift \in Thread /\ Lift \notin Person  BY PersonAssumption DEF Thread
  <2>5. Requesters \subseteq Person /\ Riders \subseteq Person  BY DEF Requesters, Riders
  <2>6. CASE f \in Range(destQueue)
    <3>1. /\ WaitOn(Lift, CalledAt(f), TimedWait) /\ destQueue' = Tail(destQueue)
          /\ destQueue # << >> /\ f = Head(destQueue)
      BY <2>2, <2>6 DEF Arrive, Sleep
    <3>2. CalledAt(f) \in SUBSET Condition  BY ConditionMembers DEF CalledAt
    <3>3. \A p \in Person : Called(p)' <=> at[p] \in CalledAt(f)
      BY <2>1, <2>4, <3>1, <3>2, MonitorEffect
    <3>4. Range(destQueue) = {f} \cup Range(destQueue')
      BY <3>1, RangeOfTail DEF Base, TypeOK
    <3>5. RequestersInv'
      BY <1>1, <2>3, <2>5, <3>3, CalledThere DEF RequestersInv
    <3>6. ASSUME NEW p \in Riders, trip[p].dest = f PROVE at[p] \in CalledAt(f)
      <4>1. willExit[f]  BY <3>6, WillExitMeansRiders
      <4>2. at[p] = Exiting(f)  BY <2>1, <2>5, <3>6, Waiters
      <4> QED  BY <4>1, <4>2 DEF CalledAt
    <3>7. RidersInv'
      BY <1>1, <2>3, <2>5, <3>3, <3>6, CalledThere DEF RidersInv
    <3>8. ASSUME NEW p \in HighQueued(queued, f), ~ willExit[f] PROVE at[p] \in CalledAt(f)
      <4>1. /\ p \in Requesters /\ p \in Person
            /\ trip[p].init = f /\ trip[p].priority = "HIGH"
        BY <1>2, <2>5, <3>8 DEF HighQueued
      <4>2. at[p] = HighWaiting(f)  BY <2>1, <4>1, Waiters DEF BoardingOf
      <4> QED  BY <3>8, <4>2 DEF CalledAt
    <3>9. HighsInv'
      <4>1. HighQueued(queued, f) \subseteq Person  BY <1>2, <2>5 DEF HighQueued
      <4> QED  BY <1>1, <2>3, <3>3, <3>8, <4>1 DEF HighsInv
    <3>10. RidersWillStop' /\ HighCallsKept'
      BY <1>1, <2>1, <2>3, <3>4 DEF RidersWillStop, HighCallsKept
    <3> QED  BY <2>2, <3>5, <3>7, <3>9, <3>10 DEF PeopleInv
  <2>7. CASE f \notin Range(destQueue)
    <3>1. Continue(Lift, {}) /\ destQueue' = destQueue
      <4>1. ~ (destQueue # << >> /\ f = Head(destQueue))
        BY <2>7, RangeOfTail DEF Base, TypeOK
      <4> QED  BY <2>2, <4>1 DEF Arrive
    <3>2. \A p \in Person : ~ Called(p)'  BY <2>1, <2>4, <3>1, CallsNobody
    <3>3. RequestersInv'  BY <1>1, <2>5, <3>2 DEF RequestersInv
    <3>4. RidersInv'  BY <1>1, <2>1, <2>3, <2>5, <2>7, <3>2 DEF RidersInv
    <3>5. HighQueued(queued, f) = {}  BY <2>1, <2>7 DEF HighQueued
    <3>6. HighsInv'  BY <1>1, <2>3, <3>5 DEF HighsInv
    <3>7. RidersWillStop' /\ HighCallsKept'
      BY <1>1, <2>1, <3>1 DEF RidersWillStop, HighCallsKept
    <3> QED  BY <2>2, <3>3, <3>4, <3>6, <3>7 DEF PeopleInv
  <2> QED  BY <2>6, <2>7
<1> QED  BY <1>3, <1>4

LEMMA PeopleStep ==
    ASSUME Base, LongTravel, PhasesInv, LiftInv, PeopleInv, [Next]_vars
    PROVE  PeopleInv'
<1>1. ASSUME NEW p \in Person, PersonStep(p) PROVE PeopleInv'
  <2>1. CASE WaitForDirection(p)  BY <2>1, WaitForDirectionStep
  <2>2. CASE RequestAndBoard(p)  BY <2>2, RequestAndBoardStep
  <2>3. CASE RequestHere(p)  BY <2>3, RequestHereStep
  <2>4. CASE RequestRemote(p)  BY <2>4, RequestRemoteStep
  <2>5. CASE MissDirection(p) \/ MissCapacity(p)  BY <2>5, MissStep
  <2>6. CASE Board(p)  BY <2>6, BoardStep
  <2>7. CASE GetOut(p)  BY <2>7, GetOutStep
  <2>8. CASE SpinInside(p)
    <3>1. UNCHANGED vars  BY <2>8 DEF SpinInside
    <3> QED
      BY <3>1, QuietStep DEF vars, Called, Requesters, Riders
  <2> QED
    BY <1>1, <2>1, <2>2, <2>3, <2>4, <2>5, <2>6, <2>7, <2>8 DEF PersonStep, MakeRequest, GetIn
<1>2. ASSUME LiftStep PROVE PeopleInv'  BY <1>2, LiftQuietStep, ArriveStep
<1>3. CASE (\E p \in Person : PersonEnters(p)) \/ LiftEnters \/ LiftWakes
  BY <1>3, EntersStep
<1>4. CASE UNCHANGED vars
  BY <1>4, QuietStep DEF vars, Called, Requesters, Riders
<1> QED  BY <1>1, <1>2, <1>3, <1>4, OwnerActs
-----------------------------------------------------------------------------
\* The inductive invariant of a building whose travel time is long enough.
LongInv == Base /\ PhasesInv /\ LiftInv /\ PeopleInv

LEMMA LongInit == Init => PhasesInv /\ LiftInv /\ PeopleInv
<1> SUFFICES ASSUME Init PROVE PhasesInv /\ LiftInv /\ PeopleInv  OBVIOUS
<1>1. Riders = {} /\ Requesters = {}  BY DEF Init, Riders, Requesters
<1>2. destQueue = << >> /\ queued = {} /\ moveState = "IDLE"  BY DEF Init
<1>3. \A f : HighQueued(queued, f) = {}  BY <1>2 DEF HighQueued
<1>4. PeopleInv
  BY <1>1, <1>2, <1>3
  DEF PeopleInv, RequestersInv, RidersInv, HighsInv, StrictlyAhead, RidersWillStop,
      HighCallsKept
<1>5. \A p \in Person : at[p] = New  BY DEF Init, MonitorInit, Thread
<1>6. PhasesInv  BY <1>5 DEF Init, PhasesInv, New, Gone
<1>7. LiftInv  BY DEF Init, LiftInv
<1> QED  BY <1>4, <1>6, <1>7

LEMMA LongStep == LongTravel /\ LongInv /\ [Next]_vars => PhasesInv' /\ LiftInv' /\ PeopleInv'
BY PhasesStep, LiftInvStep, PeopleStep DEF LongInv

\* With a long enough travel time everybody that is called at a floor has run
\* before the lift leaves it, and the lift, its riders and those who wait agree
\* on where it stops (all of Elevator.cpp): the invariant behind what follows.
THEOREM LongCorrect == ASSUME LongTravel PROVE Spec => []LongInv
<1>1. LongInv /\ [Next]_vars => PhasesInv' /\ LiftInv' /\ PeopleInv'  BY LongStep
<1>2. Spec => []Base
  BY TypeCorrect, CountersCorrect, RequestsCorrect, OwnerCorrect, ItineraryCorrect,
     WaitersCorrect, PTL DEF Base
<1> QED  BY <1>1, <1>2, LongInit, PTL DEF Spec, LongInv

\* With a long enough travel time the lift never passes a floor of its queue
\* (moveElevator, which compares the floors with the head of destQueue only).
THEOREM AheadCorrect == ASSUME LongTravel PROVE Spec => []QueueIsAhead
<1>1. LongInv => QueueIsAhead
  <2> SUFFICES ASSUME LongInv PROVE QueueIsAhead  OBVIOUS
  <2>1. Range(destQueue) \subseteq Floor /\ currentFloor \in Floor
    BY DEF LongInv, Base, TypeOK, Range
  <2> QED
    BY <2>1, BuildingAssumption
    DEF LongInv, PeopleInv, StrictlyAhead, QueueIsAhead, Floor
<1> QED  BY <1>1, LongCorrect, PTL

\* With a long enough travel time every rider is at the destination, or the
\* lift will stop there (getIn, and loadUnload, which wakes the riders).
THEOREM RidersStopCorrect == ASSUME LongTravel PROVE Spec => []RidersWillStop
<1>1. LongInv => RidersWillStop  BY DEF LongInv, PeopleInv
<1> QED  BY <1>1, LongCorrect, PTL

\* With a long enough travel time the lift is called to the floor of every
\* high priority person in a queue until it gets there (makeRequest).
THEOREM HighCallsCorrect == ASSUME LongTravel PROVE Spec => []HighCallsKept
<1>1. LongInv => HighCallsKept  BY DEF LongInv, PeopleInv
<1> QED  BY <1>1, LongCorrect, PTL

\* With a long enough travel time no rider spins inside the monitor away from
\* its destination (personMove, which calls getOut again and again).
THEOREM NoSpinCorrect == ASSUME LongTravel PROVE Spec => []NoSpin
<1>1. LongInv => NoSpin
  <2> SUFFICES ASSUME LongInv, NEW p \in Riders, owner = p
               PROVE  trip[p].dest = currentFloor
    BY DEF NoSpin
  <2>1. Called(p)  BY DEF LongInv, Base, OwnerInside, Thread, Riders, Called
  <2> QED  BY <2>1 DEF LongInv, PeopleInv, RidersInv
<1> QED  BY <1>1, LongCorrect, PTL

\* With a long enough travel time the lift keeps its direction until all its
\* riders have arrived (getOut and moveElevator, which reset moveState).
THEOREM DirectionCorrect == ASSUME LongTravel PROVE Spec => KeepsDirection
<1> DEFINE Kept == moveState' # moveState /\ moveState # "IDLE"
                     => \A p \in Riders : trip[p].dest = currentFloor'
<1>1. ASSUME LongInv, Next PROVE Kept
  <2> SUFFICES ASSUME moveState' # moveState, moveState # "IDLE", NEW p \in Riders
               PROVE  trip[p].dest = currentFloor'
    OBVIOUS
  <2>1. Reroutes  BY <1>1, OnlyReroutes DEF LongInv, Base
  <2>2. ~ \E q \in Person : MakeRequest(q) \/ Board(q)
    BY DEF MakeRequest, RequestAndBoard, RequestHere, RequestRemote, Board
  <2>3. ASSUME NEW q \in Person, GetOut(q) PROVE trip[p].dest = currentFloor'
    <3>1. Cardinality(Delivered') = Cardinality(Person)
      <4>1. totalCarried' = Cardinality(Person)  BY <2>3 DEF GetOut
      <4>2. CountersMatchPersons'  BY <1>1, <2>3, GetOutCounts DEF LongInv, Base
      <4> QED  BY <4>1, <4>2 DEF CountersMatchPersons
    <3>2. Delivered' = Person
      BY <3>1, FS_Subset, PersonAssumption DEF Delivered
    <3>3. Riders' = {}  BY <3>2 DEF Delivered, Riders
    <3>4. Riders' = Riders \ {q}  BY <1>1, <2>3, GetOutCounts DEF LongInv, Base
    <3>5. p = q  BY <3>3, <3>4
    <3> QED  BY <2>3, <3>5 DEF GetOut
  <2>4. ASSUME NEW f \in Floor, Arrive(f) PROVE trip[p].dest = currentFloor'
    <3>1. destQueue' = << >>  BY <2>4 DEF Arrive
    <3>2. Range(destQueue') = {}  BY <3>1 DEF Range
    <3>3. Riders' = Riders /\ trip' = trip  BY <2>4 DEF Arrive, Riders
    <3>4. RidersWillStop'  BY <1>1, PeopleStep DEF LongInv, PeopleInv
    <3> QED  BY <3>2, <3>3, <3>4 DEF RidersWillStop
  <2> QED  BY <2>1, <2>2, <2>3, <2>4 DEF Reroutes
<1>2. LongInv /\ [Next]_vars => [Kept]_vars  BY <1>1
<1>3. KeepsDirection <=> [][Kept]_vars  BY DEF KeepsDirection
<1> HIDE DEF Kept
<1> QED  BY <1>2, <1>3, LongCorrect, PTL DEF Spec

\* With a long enough travel time a low priority person enters the car only
\* when no high priority person waits at its floor (getIn, notified by
\* loadUnload, getOut and other getIns).
THEOREM HighFirstCorrect == ASSUME LongTravel PROVE Spec => HighFirst
<1> DEFINE Obeyed == \A p \in Person : Enters(p) /\ trip[p].priority = "LOW"
                                         => HighQueued(queued, trip[p].init) = {}
<1>1. ASSUME LongInv, Next PROVE Obeyed
  <2> SUFFICES ASSUME NEW p \in Person, Enters(p), trip[p].priority = "LOW"
               PROVE  HighQueued(queued, trip[p].init) = {}
    OBVIOUS
  <2>1. p \in Riders' /\ p \notin Riders  BY DEF Enters, Riders
  <2>2. PICK q \in Person : Board(q) \/ GetOut(q)
    BY <1>1, <2>1, OnlyBoardAndGetOut DEF LongInv, Base
  <2>3. ~ GetOut(q)  BY <1>1, <2>1, GetOutCounts DEF LongInv, Base
  <2>4. Riders' = Riders \cup {q}  BY <1>1, <2>2, <2>3, BoardCounts DEF LongInv, Base
  <2>5. GetIn(p)  BY <2>1, <2>2, <2>3, <2>4 DEF GetIn
  <2> QED  BY <1>1, <2>5, GetInFacts DEF LongInv
<1>2. LongInv /\ [Next]_vars => [Obeyed]_vars  BY <1>1
<1>3. HighFirst <=> [][Obeyed]_vars  BY DEF HighFirst
<1> HIDE DEF Obeyed
<1> QED  BY <1>2, <1>3, LongCorrect, PTL DEF Spec
-----------------------------------------------------------------------------
(* The service: every step of the elevator is a step of ElevatorService, or   *)
(* none, for the statuses that the persons' states stand for.                 *)

Status == [p \in Person |-> CASE personState[p] = "IN"  -> "riding"
                              [] personState[p] = "OUT" -> "delivered"
                              [] OTHER                  -> "waiting"]

LEMMA StatusOf ==
    ASSUME NEW p \in Person
    PROVE  /\ personState[p] = "IN" => Status[p] = "riding"
           /\ personState[p] = "OUT" => Status[p] = "delivered"
           /\ personState[p] \notin {"IN", "OUT"} => Status[p] = "waiting"
BY DEF Status

LEMMA ServiceRiders == Service!Riding = Riders
<1>1. Service!Riding = {p \in Person : Status[p] = "riding"}
  BY DEF Service!Riding, Status
<1>2. \A p \in Person : Status[p] = "riding" <=> personState[p] = "IN"  BY StatusOf
<1> QED  BY <1>1, <1>2 DEF Riders

\* The sum of weights that the service takes when a person enters.
ServiceWeight(S) == Service!MapThenSumSet(LAMBDA r : trip[r].weight, S)

LEMMA ServiceWeightIsSum ==
    ASSUME NEW S \in SUBSET Person
    PROVE  ServiceWeight(S) = SumOf(Weights, S)
BY ZenonT(60)
DEF ServiceWeight, Weights, SumOf, MapThenSumSet, MapThenFoldSet,
    Service!MapThenSumSet, Service!MapThenFoldSet

LEMMA ServiceCount == \A S : Service!Cardinality(S) = Cardinality(S)
BY Zenon DEF Cardinality, Service!Cardinality

\* getIn lets a person enter at its floor, when those who leave have left, and
\* never more persons or weight than the car may carry.
LEMMA BoardServes ==
    ASSUME LongInv, WeightIsSum, NEW p \in Person, Board(p)
    PROVE  Service!Enters(p)
<1>0. TypeOK /\ CountersMatchPersons  BY DEF LongInv, Base
<1>1. /\ trip[p].init = currentFloor /\ ~ willExit[currentFloor]
      /\ UNCHANGED <<trip, currentFloor>>
  <2>1. GetIn(p)  BY DEF GetIn
  <2> QED  BY <2>1, GetInFacts DEF LongInv
<1>2. \A r \in Riders : trip[r].dest # currentFloor
  <2> SUFFICES ASSUME NEW r \in Riders, trip[r].dest = currentFloor PROVE FALSE  OBVIOUS
  <2> DEFINE Leaving == {q \in Riders : trip[q].dest = currentFloor}
  <2>1. Leaving \in SUBSET Person /\ r \in Leaving  BY DEF Riders
  <2>2. Cardinality(Leaving) = 0
    BY <1>0, <1>1 DEF CountersMatchPersons, TypeOK
  <2> QED  BY <2>1, <2>2, CountMember
<1>3. Cardinality(Riders) < PersonCapacity
  BY <1>0 DEF Board, Fits, CountersMatchPersons
<1>4. ServiceWeight(Riders \cup {p}) <= WeightCapacity
  <2>1. Riders \in SUBSET Person /\ p \notin Riders  BY <1>0, BoardCounts DEF Riders
  <2>2. SumOf(Weights, Riders \cup {p}) = carriedWeight + trip[p].weight
    BY <1>0, <2>1, WeightSumOfPersons DEF WeightIsSum
  <2>3. WeightCapacity - carriedWeight >= trip[p].weight  BY DEF Board, Fits
  <2>4. carriedWeight \in Int /\ trip[p].weight \in Int /\ WeightCapacity \in Int
    BY <1>0, PersonFacts, BuildingAssumption DEF TypeOK
  <2>5. carriedWeight + trip[p].weight <= WeightCapacity  BY <2>3, <2>4
  <2>6. Riders \cup {p} \in SUBSET Person  BY <2>1
  <2> QED  BY <2>2, <2>5, <2>6, ServiceWeightIsSum
<1>5. Status[p] = "waiting" /\ Status' = [Status EXCEPT ![p] = "riding"]
  <2>1. personState[p] = "REQUESTED" /\ personState' = [personState EXCEPT ![p] = "IN"]
    BY DEF Board, CloseRequest
  <2> QED  BY <1>0, <2>1 DEF Status, TypeOK
<1> QED
  BY <1>1, <1>2, <1>3, <1>4, <1>5, ServiceRiders, ServiceCount
  DEF Service!Enters, Status, ServiceWeight

\* getOut lets a rider leave at its destination only.
LEMMA GetOutServes ==
    ASSUME TypeOK, NEW p \in Person, GetOut(p)
    PROVE  Service!Leaves(p)
<1>1. /\ personState[p] = "IN" /\ personState' = [personState EXCEPT ![p] = "OUT"]
      /\ currentFloor = trip[p].dest /\ UNCHANGED <<trip, currentFloor>>
  BY DEF GetOut
<1>2. Status[p] = "riding" /\ Status' = [Status EXCEPT ![p] = "delivered"]
  BY <1>1 DEF Status, TypeOK
<1> QED  BY <1>1, <1>2 DEF Service!Leaves, Status

\* The lift moves by one floor, and no rider is left at its destination.
LEMMA ArriveServes ==
    ASSUME LongInv, ArriveUp \/ ArriveDown
    PROVE  UNCHANGED <<trip, currentFloor, Status>>
           \/ \E f \in {currentFloor - 1, currentFloor + 1} : Service!Moves(f)
<1>0. TypeOK /\ currentFloor \in Int
  BY BuildingAssumption DEF LongInv, Base, TypeOK, Floor
<1>1. PICK f \in Floor : Arrive(f)  BY <1>0, ArrivesAtFloor
<1>2. UNCHANGED <<trip, personState>> /\ currentFloor' = f  BY <1>1 DEF Arrive
<1>3. UNCHANGED Status  BY <1>2 DEF Status
<1>4. currentFloor' \in {currentFloor - 1, currentFloor, currentFloor + 1}
  BY DEF ArriveUp, ArriveDown, Arrive
<1>5. CASE currentFloor' = currentFloor  BY <1>2, <1>3, <1>5
<1>6. CASE currentFloor' # currentFloor
  <2>1. \A r \in Riders : trip[r].dest # currentFloor
    <3>1. \A r \in Riders : r \in Person /\ ~ Called(r)
      BY NobodyLeft DEF LongInv, Riders
    <3> QED  BY <3>1 DEF LongInv, PeopleInv, RidersInv
  <2>2. f \in {currentFloor - 1, currentFloor + 1}  BY <1>2, <1>4, <1>6
  <2>3. Service!Moves(f)
    BY <1>2, <1>3, <2>1, <2>2, ServiceRiders DEF Service!Moves, Status, Floor
  <2> QED  BY <2>2, <2>3
<1> QED  BY <1>5, <1>6

\* Nothing else changes what the service shows.
LEMMA OthersHidden ==
    ASSUME TypeOK, [Next]_vars, ~ (\E p \in Person : Board(p) \/ GetOut(p)),
           ~ (ArriveUp \/ ArriveDown)
    PROVE  UNCHANGED <<trip, currentFloor, Status>>
<1>1. UNCHANGED <<trip, Riders, Delivered>>  BY OnlyBoardAndGetOut
<1>2. UNCHANGED Status
  <2>1. Status = [p \in Person |-> IF p \in Riders THEN "riding"
                                   ELSE IF p \in Delivered THEN "delivered" ELSE "waiting"]
    BY DEF Status, Riders, Delivered
  <2>2. Status' = [p \in Person |-> IF p \in Riders' THEN "riding"
                                    ELSE IF p \in Delivered' THEN "delivered" ELSE "waiting"]
    BY DEF Status, Riders, Delivered
  <2> QED  BY <1>1, <2>1, <2>2
<1>3. UNCHANGED currentFloor
  <2>1. CASE UNCHANGED vars  BY <2>1 DEF vars, routeVars
  <2>2. ASSUME NEW q \in Person, PersonEnters(q) \/ PersonStep(q) \/ PersonWakesSpuriously(q)
        PROVE  UNCHANGED currentFloor
    BY <2>2
    DEF PersonEnters, PersonWakesSpuriously, PersonStep, WaitForDirection, MakeRequest,
        RequestAndBoard, RequestHere, RequestRemote, GetIn, MissDirection, Board,
        MissCapacity, SpinInside, GetOut, vars, routeVars
  <2>3. CASE LiftEnters \/ LiftWakes \/ LiftStep
    BY <2>3
    DEF LiftStep, LiftEnters, LiftWakes, Finish, BecomeIdle, IdleEnds, IdleServes,
        IdleWaits, IdleAgain, TravelUp, TravelDown, Travel, BackToLoop, DoorsClose,
        routeVars
  <2> QED  BY <2>1, <2>2, <2>3 DEF Next, Terminated
<1> QED  BY <1>1, <1>2, <1>3

\* With a long enough travel time the elevator gives the service of
\* ElevatorService (getIn, getOut and moveElevator): persons enter at their own
\* floor after those who leave, within the capacities, and the car never
\* carries a rider past its destination.
THEOREM ElevatorImplements == ASSUME LongTravel PROVE Spec => ImplementsService
<1>1. Init => Service!ServiceInit
  BY DEF Init, Service!ServiceInit
<1>2. LongInv /\ WeightIsSum /\ [Next]_vars => [Service!ServiceNext]_(Service!serviceVars)
  <2> SUFFICES ASSUME LongInv, WeightIsSum, [Next]_vars
               PROVE  Service!ServiceNext \/ UNCHANGED <<trip, currentFloor, Status>>
    BY DEF Service!serviceVars, Status
  <2>0. TypeOK  BY DEF LongInv, Base
  <2>1. ASSUME NEW p \in Person, Board(p) \/ GetOut(p) PROVE Service!ServiceNext
    BY <2>0, <2>1, BoardServes, GetOutServes DEF Service!ServiceNext
  <2>2. CASE ArriveUp \/ ArriveDown  BY <2>2, ArriveServes DEF Service!ServiceNext
  <2> QED  BY <2>0, <2>1, <2>2, OthersHidden
<1> QED
  BY <1>1, <1>2, LongCorrect, WeightSumCorrect, PTL
  DEF Spec, ImplementsService, Service!ServiceSpec
=============================================================================
