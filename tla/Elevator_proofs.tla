--------------------------- MODULE Elevator_proofs ---------------------------
(***************************************************************************)
(* Theorems about Elevator, for every building and every set of persons.   *)
(***************************************************************************)
EXTENDS Elevator, FiniteSetTheorems, SequenceTheorems, TLAPS

(***************************************************************************)
(* The monitor: every operation keeps the mutex owned by a thread or by    *)
(* nobody, and every thread in a place.                                    *)
(***************************************************************************)
LEMMA ConditionMembers ==
    /\ {UpCond, DownCond, DirectionCond, MissSleep, TimedWait} \subseteq Condition
    /\ \A f \in Floor : {HighWaiting(f), LowWaiting(f), Exiting(f)} \subseteq Condition
BY DEF Condition

LEMMA EnterType ==
    ASSUME MonitorTypeOK, NEW t \in Thread, Enter(t) \/ TimeOut(t, TimedWait)
    PROVE  MonitorTypeOK'
BY DEF MonitorTypeOK, Enter, TimeOut, Place

LEMMA WokenType ==
    ASSUME MonitorTypeOK, NEW C
    PROVE  Woken(C) \in [Thread -> Place]
BY DEF MonitorTypeOK, Woken, Place

LEMMA ContinueType ==
    ASSUME MonitorTypeOK, NEW t \in Thread, NEW C, Continue(t, C)
    PROVE  MonitorTypeOK'
BY WokenType DEF MonitorTypeOK, Continue

LEMMA WaitOnType ==
    ASSUME MonitorTypeOK, NEW t \in Thread, NEW C, NEW c \in Condition, WaitOn(t, C, c)
    PROVE  MonitorTypeOK'
<1>1. Woken(C) \in [Thread -> Place]  BY WokenType
<1>2. c \in Place  BY DEF Place
<1> QED  BY <1>1, <1>2 DEF MonitorTypeOK, WaitOn

LEMMA LeaveType ==
    ASSUME MonitorTypeOK, NEW t \in Thread, NEW C, Leave(t, C)
    PROVE  MonitorTypeOK'
<1>1. Woken(C) \in [Thread -> Place]  BY WokenType
<1>2. Gone \in Place  BY DEF Place
<1> QED  BY <1>1, <1>2 DEF MonitorTypeOK, Leave

LEMMA SpuriousWakeupType ==
    ASSUME MonitorTypeOK, NEW t \in Thread, SpuriousWakeup(t)
    PROVE  MonitorTypeOK'
BY DEF MonitorTypeOK, SpuriousWakeup, Place

(***************************************************************************)
(* The destination queue stays a sequence of floors.                       *)
(***************************************************************************)
LEMMA EnqueuedType ==
    ASSUME NEW q \in Seq(Floor), NEW f \in Floor, NEW d
    PROVE  Enqueued(q, f, d) \in Seq(Floor)
<1> DEFINE B == {i \in DOMAIN q : Earlier(q[i], f, d)}
           n == Cardinality(B)
<1>1. n \in 0 .. Len(q)
  <2>1. DOMAIN q = 1 .. Len(q) /\ Len(q) \in Nat  OBVIOUS
  <2>2. IsFiniteSet(1 .. Len(q)) /\ Cardinality(1 .. Len(q)) = Len(q)
    BY <2>1, FS_Interval
  <2>3. B \in SUBSET (1 .. Len(q))  BY <2>1
  <2>4. IsFiniteSet(B) /\ n <= Len(q)  BY <2>2, <2>3, FS_Subset
  <2> QED  BY <2>1, <2>4, FS_CardinalityType
<1>2. SubSeq(q, 1, n) \in Seq(Floor)
  <2>1. \A i \in 1 .. n : q[i] \in Floor  BY <1>1
  <2> HIDE DEF n
  <2> QED  BY <1>1, <2>1, SubSeqProperties
<1>3. SubSeq(q, n + 1, Len(q)) \in Seq(Floor)
  <2>1. \A i \in (n + 1) .. Len(q) : q[i] \in Floor  BY <1>1
  <2> HIDE DEF n
  <2>2. n + 1 \in Int /\ Len(q) \in Int  BY <1>1
  <2> QED  BY <2>2, <2>1, SubSeqProperties
<1>4. SubSeq(q, 1, n) \o <<f>> \o SubSeq(q, n + 1, Len(q)) \in Seq(Floor)
  <2> HIDE DEF n
  <2> QED  BY <1>2, <1>3
<1> QED  BY <1>4 DEF Enqueued
-----------------------------------------------------------------------------
(* Type correctness *)

LEMMA PersonFacts ==
    ASSUME TypeOK, NEW p \in Person
    PROVE  /\ p \in Thread /\ p # Nobody
           /\ trip[p] \in Trip
           /\ trip[p].init \in Floor /\ trip[p].dest \in Floor
           /\ trip[p].weight \in Nat
           /\ MovesTo(p) \in {"UP", "DOWN"}
           /\ {DirectionOf(p), BoardingOf(p), Exiting(trip[p].dest)} \subseteq Condition
<1>1. trip[p] \in Trip  BY TripsAssumption DEF TypeOK
<1>2. trip[p].init \in Floor /\ trip[p].dest \in Floor /\ trip[p].weight \in Nat
  BY <1>1 DEF Trip
<1>3. {DirectionOf(p), BoardingOf(p), Exiting(trip[p].dest)} \subseteq Condition
  BY <1>2, ConditionMembers DEF DirectionOf, BoardingOf
<1> QED  BY <1>1, <1>2, <1>3, PersonAssumption DEF Thread, MovesTo

LEMMA InitType == Init => TypeOK
<1> SUFFICES ASSUME Init PROVE TypeOK  OBVIOUS
<1>1. MonitorTypeOK  BY DEF Init, MonitorInit, MonitorTypeOK, Place
<1>2. 0 \in Floor  BY BuildingAssumption DEF Floor
<1> QED  BY <1>1, <1>2 DEF Init, TypeOK

LEMMA PersonStepType ==
    ASSUME TypeOK, NEW p \in Person,
           PersonEnters(p) \/ PersonStep(p) \/ PersonWakesSpuriously(p)
    PROVE  TypeOK'
<1> USE PersonFacts, ConditionMembers
<1>0. MonitorTypeOK  BY DEF TypeOK
<1>1. CASE PersonEnters(p)
  <2>1. MonitorTypeOK'  BY <1>0, <1>1, EnterType DEF PersonEnters
  <2> QED  BY <1>1, <2>1 DEF PersonEnters, TypeOK, carVars, requestVars, routeVars
<1>2. CASE WaitForDirection(p)
  <2>1. MonitorTypeOK'  BY <1>0, <1>2, WaitOnType DEF WaitForDirection
  <2> QED  BY <1>2, <2>1 DEF WaitForDirection, TypeOK, carVars, requestVars, routeVars
<1>3. CASE RequestAndBoard(p)
  <2>1. MonitorTypeOK'  BY <1>0, <1>3, ContinueType DEF RequestAndBoard
  <2> QED  BY <1>3, <2>1 DEF RequestAndBoard, RecordRequest, TypeOK, carVars
<1>4. CASE RequestHere(p)
  <2>1. MonitorTypeOK'  BY <1>0, <1>4, WaitOnType DEF RequestHere
  <2> QED  BY <1>4, <2>1, SMTT(30) DEF RequestHere, RecordRequest, TypeOK, carVars
<1>5. CASE RequestRemote(p)
  <2>1. MonitorTypeOK'  BY <1>0, <1>5, WaitOnType DEF RequestRemote
  <2>2. destQueue' \in Seq(Floor)  BY <1>5, EnqueuedType DEF RequestRemote, TypeOK
  <2>3. moveState' \in {"IDLE", "UP", "DOWN"}  BY <1>5 DEF RequestRemote, TypeOK
  <2>4. /\ UNCHANGED <<trip, currentFloor, carriedPeople, carriedWeight, totalCarried>>
        /\ UNCHANGED <<exitArray, willExit, liftPc>>
    BY <1>5 DEF RequestRemote, carVars
  <2>5. /\ inArray' \in [Floor -> Int] /\ queued' \subseteq Person
        /\ personState' \in [Person -> {"NOT_REQUESTED", "REQUESTED", "MISSED", "IN", "OUT"}]
    BY <1>5 DEF RequestRemote, RecordRequest, TypeOK
  <2> QED  BY <2>1, <2>2, <2>3, <2>4, <2>5 DEF TypeOK
<1>6. CASE MissDirection(p)
  <2>1. MonitorTypeOK'  BY <1>0, <1>6, ContinueType DEF MissDirection
  <2> QED  BY <1>6, <2>1 DEF MissDirection, CloseRequest, TypeOK, carVars, routeVars
<1>7. CASE Board(p)
  <2>1. MonitorTypeOK'  BY <1>0, <1>7, WaitOnType DEF Board
  <2>2. destQueue' \in Seq(Floor)  BY <1>7, EnqueuedType DEF Board, TypeOK
  <2>3. /\ carriedPeople' \in Int /\ carriedWeight' \in Int
        /\ exitArray' \in [Floor -> Int] /\ inArray' \in [Floor -> Int]
        /\ willExit' \in [Floor -> BOOLEAN]
        /\ personState' \in [Person -> {"NOT_REQUESTED", "REQUESTED", "MISSED", "IN", "OUT"}]
        /\ queued' \subseteq Person
    BY <1>7 DEF Board, CloseRequest, CountEntry, TypeOK
  <2>4. UNCHANGED <<trip, totalCarried, moveState, currentFloor, liftPc>>
    BY <1>7 DEF Board, CountEntry
  <2> QED  BY <2>1, <2>2, <2>3, <2>4 DEF TypeOK
<1>8. CASE MissCapacity(p)
  <2>1. MonitorTypeOK'  BY <1>0, <1>8, WaitOnType DEF MissCapacity
  <2> QED  BY <1>8, <2>1 DEF MissCapacity, CloseRequest, TypeOK, carVars, routeVars
<1>9. CASE SpinInside(p)
  BY <1>9 DEF SpinInside, vars, TypeOK, carVars, requestVars, routeVars, MonitorTypeOK
<1>10. CASE GetOut(p)
  <2>1. MonitorTypeOK'  BY <1>0, <1>10, LeaveType DEF GetOut
  <2>2. willExit' \in [Floor -> BOOLEAN]  BY <1>10 DEF GetOut, CountExit, TypeOK
  <2>3. /\ carriedPeople' \in Int /\ carriedWeight' \in Int /\ totalCarried' \in Nat
        /\ exitArray' \in [Floor -> Int]
        /\ moveState' \in {"IDLE", "UP", "DOWN"}
        /\ personState' \in [Person -> {"NOT_REQUESTED", "REQUESTED", "MISSED", "IN", "OUT"}]
    BY <1>10 DEF GetOut, CountExit, TypeOK
  <2>4. UNCHANGED <<trip, inArray, queued, currentFloor, destQueue, liftPc>>
    BY <1>10 DEF GetOut, requestVars
  <2> QED  BY <2>1, <2>2, <2>3, <2>4 DEF TypeOK
<1>11. CASE PersonWakesSpuriously(p)
  <2>1. MonitorTypeOK'  BY <1>0, <1>11, SpuriousWakeupType DEF PersonWakesSpuriously
  <2> QED  BY <1>11, <2>1 DEF PersonWakesSpuriously, TypeOK, carVars, requestVars, routeVars
<1> QED
  BY <1>1, <1>2, <1>3, <1>4, <1>5, <1>6, <1>7, <1>8, <1>9, <1>10, <1>11
  DEF PersonStep, MakeRequest, GetIn

\* The lift's steps that only wait, wake or go on in moveElevator.
LiftIdles ==
    \/ LiftEnters \/ LiftWakes \/ Finish \/ BecomeIdle \/ IdleEnds \/ IdleServes
    \/ IdleWaits \/ IdleAgain \/ TravelUp \/ TravelDown \/ BackToLoop \/ DoorsClose

LEMMA LiftMonitorType ==
    ASSUME TypeOK, LiftEnters \/ LiftWakes \/ LiftStep
    PROVE  MonitorTypeOK'
<1>1. MonitorTypeOK /\ Lift \in Thread /\ TimedWait \in Condition
  BY ConditionMembers DEF TypeOK, Thread
<1> USE <1>1, EnterType, ContinueType, WaitOnType, LeaveType
<1>2. CASE LiftEnters \/ LiftWakes  BY <1>2 DEF LiftEnters, LiftWakes
<1>3. CASE Finish  BY <1>3 DEF Finish
<1>4. CASE BecomeIdle \/ IdleEnds \/ IdleAgain \/ BackToLoop \/ DoorsClose
  BY <1>4 DEF BecomeIdle, IdleEnds, IdleAgain, BackToLoop, DoorsClose
<1>5. CASE IdleServes \/ IdleWaits \/ TravelUp \/ TravelDown
  BY <1>5 DEF IdleServes, IdleWaits, TravelUp, TravelDown, Travel, Sleep
<1>6. ASSUME NEW f, Arrive(f) PROVE MonitorTypeOK'
  BY <1>6 DEF Arrive, Sleep
<1>7. CASE ArriveUp \/ ArriveDown  BY <1>6, <1>7 DEF ArriveUp, ArriveDown
<1> QED  BY <1>2, <1>3, <1>4, <1>5, <1>7 DEF LiftStep

LEMMA LiftStepType ==
    ASSUME TypeOK, LiftEnters \/ LiftWakes \/ LiftStep
    PROVE  TypeOK'
<1>0. MonitorTypeOK'  BY LiftMonitorType
<1>1. CASE LiftIdles
  BY <1>0, <1>1
  DEF LiftIdles, LiftEnters, LiftWakes, Finish, BecomeIdle, IdleEnds, IdleServes,
      IdleWaits, IdleAgain, TravelUp, TravelDown, Travel, Sleep, BackToLoop, DoorsClose,
      TypeOK, carVars, requestVars, routeVars
<1>2. ASSUME NEW f \in Floor, Arrive(f) PROVE TypeOK'
  <2>1. destQueue' \in Seq(Floor)
    BY <1>2, HeadTailProperties DEF Arrive, TypeOK
  <2> QED  BY <1>0, <1>2, <2>1 DEF Arrive, Sleep, TypeOK, carVars, requestVars
<1>3. Range(destQueue) \subseteq Floor  BY DEF TypeOK, Range
<1>4. CASE ArriveUp
  <2> DEFINE f == IF \E g \in Range(destQueue) : currentFloor < g
                    THEN currentFloor + 1 ELSE currentFloor
  <2>1. f \in Floor  BY <1>3, BuildingAssumption DEF TypeOK, Floor
  <2> QED  BY <1>2, <1>4, <2>1 DEF ArriveUp
<1>5. CASE ArriveDown
  <2> DEFINE f == IF \E g \in Range(destQueue) : currentFloor > g
                    THEN currentFloor - 1 ELSE currentFloor
  <2>1. f \in Floor  BY <1>3, BuildingAssumption DEF TypeOK, Floor
  <2> QED  BY <1>2, <1>5, <2>1 DEF ArriveDown
<1> QED  BY <1>1, <1>4, <1>5 DEF LiftStep, LiftIdles

\* Every variable keeps its type, for any number of floors, persons and trips
\* and under any timing (Elevator.cpp, all of the monitor's methods).
THEOREM TypeCorrect == Spec => []TypeOK
<1>1. Init => TypeOK  BY InitType
<1>2. TypeOK /\ [Next]_vars => TypeOK'
  <2> SUFFICES ASSUME TypeOK, [Next]_vars PROVE TypeOK'  OBVIOUS
  <2>1. CASE UNCHANGED vars
    BY <2>1 DEF vars, TypeOK, carVars, requestVars, routeVars, MonitorTypeOK
  <2>2. ASSUME NEW p \in Person,
               PersonEnters(p) \/ PersonStep(p) \/ PersonWakesSpuriously(p)
        PROVE  TypeOK'
    BY <2>2, PersonStepType
  <2>3. CASE LiftEnters \/ LiftWakes \/ LiftStep  BY <2>3, LiftStepType
  <2> QED  BY <2>1, <2>2, <2>3 DEF Next, Terminated
<1> QED  BY <1>1, <1>2, PTL DEF Spec
-----------------------------------------------------------------------------
(* The car's counters *)

\* The riders to one floor, and the open requests of one floor.
RidersTo(f)   == {p \in Riders : trip[p].dest = f}
RequestsAt(f) == {p \in Requesters : trip[p].init = f}

LEMMA PersonSetsFinite ==
    ASSUME NEW S \in SUBSET Person
    PROVE  IsFiniteSet(S) /\ Cardinality(S) \in Nat
BY FS_Subset, FS_CardinalityType, PersonAssumption

LEMMA CountWith ==
    ASSUME NEW S \in SUBSET Person, NEW p \in Person, p \notin S
    PROVE  Cardinality(S \cup {p}) = Cardinality(S) + 1
BY PersonSetsFinite, FS_AddElement

LEMMA CountWithout ==
    ASSUME NEW S \in SUBSET Person, NEW p \in S
    PROVE  Cardinality(S \ {p}) = Cardinality(S) - 1
BY PersonSetsFinite, FS_RemoveElement

LEMMA CountMember ==
    ASSUME NEW S \in SUBSET Person, NEW p \in S
    PROVE  Cardinality(S) \in Nat \ {0}
<1>1. S # {}  OBVIOUS
<1> QED  BY <1>1, PersonSetsFinite, FS_EmptySet

\* Every step but Board and GetOut leaves the car and its riders alone.
LEMMA OnlyBoardAndGetOut ==
    ASSUME TypeOK, [Next]_vars, ~ \E p \in Person : Board(p) \/ GetOut(p)
    PROVE  UNCHANGED <<trip, carVars, Riders, Delivered>>
<1>1. ASSUME UNCHANGED <<trip, personState, carVars>>
      PROVE  UNCHANGED <<trip, carVars, Riders, Delivered>>
  BY <1>1 DEF carVars, Riders, Delivered
<1>2. ASSUME NEW p \in Person, NEW s \in {"REQUESTED", "MISSED"},
             personState[p] \notin {"IN", "OUT"},
             personState' = [personState EXCEPT ![p] = s], UNCHANGED <<trip, carVars>>
      PROVE  UNCHANGED <<trip, carVars, Riders, Delivered>>
  BY <1>2 DEF Riders, Delivered, TypeOK
<1>3. CASE UNCHANGED vars  BY <1>1, <1>3 DEF vars
<1>4. ASSUME NEW p \in Person,
             \/ PersonEnters(p) \/ WaitForDirection(p) \/ SpinInside(p)
             \/ PersonWakesSpuriously(p)
      PROVE  UNCHANGED <<trip, carVars, Riders, Delivered>>
  BY <1>1, <1>4
  DEF PersonEnters, WaitForDirection, SpinInside, PersonWakesSpuriously, vars
<1>5. ASSUME NEW p \in Person, MakeRequest(p)
      PROVE  UNCHANGED <<trip, carVars, Riders, Delivered>>
  BY <1>2, <1>5
  DEF MakeRequest, RequestAndBoard, RequestHere, RequestRemote, RecordRequest, WantsRequest
<1>6. ASSUME NEW p \in Person, MissDirection(p) \/ MissCapacity(p)
      PROVE  UNCHANGED <<trip, carVars, Riders, Delivered>>
  BY <1>2, <1>6 DEF MissDirection, MissCapacity, CloseRequest
<1>7. CASE LiftEnters \/ LiftWakes \/ LiftStep
  BY <1>1, <1>7
  DEF LiftStep, LiftEnters, LiftWakes, Finish, BecomeIdle, IdleEnds, IdleServes,
      IdleWaits, IdleAgain, TravelUp, TravelDown, Travel, BackToLoop, DoorsClose,
      ArriveUp, ArriveDown, Arrive
<1> QED  BY <1>3, <1>4, <1>5, <1>6, <1>7 DEF Next, PersonStep, GetIn, Terminated

LEMMA BoardCounts ==
    ASSUME TypeOK, CountersMatchPersons, NEW p \in Person, Board(p)
    PROVE  CountersMatchPersons' /\ Riders' = Riders \cup {p} /\ p \notin Riders
<1>1. personState[p] = "REQUESTED" /\ personState' = [personState EXCEPT ![p] = "IN"]
  BY DEF Board, CloseRequest
<1>2. trip' = trip /\ totalCarried' = totalCarried  BY DEF Board, CountEntry
<1>3. p \notin Riders /\ Riders' = Riders \cup {p} /\ Delivered' = Delivered
  BY <1>1 DEF Riders, Delivered, TypeOK
<1>4. carriedPeople' = Cardinality(Riders')
  BY <1>3, CountWith DEF Board, CountEntry, CountersMatchPersons, Riders
<1>5. totalCarried' = Cardinality(Delivered')
  BY <1>2, <1>3 DEF CountersMatchPersons
<1>6. ASSUME NEW f \in Floor
      PROVE  exitArray'[f] = Cardinality(RidersTo(f)') /\ (willExit'[f] <=> exitArray'[f] # 0)
  <2>1. exitArray[f] = Cardinality(RidersTo(f)) /\ (willExit[f] <=> exitArray[f] # 0)
    BY DEF CountersMatchPersons, RidersTo
  <2>2. CASE f = trip[p].dest
    <3>1. RidersTo(f)' = RidersTo(f) \cup {p} /\ p \notin RidersTo(f)
      BY <1>2, <1>3, <2>2 DEF RidersTo
    <3>2. Cardinality(RidersTo(f)') = Cardinality(RidersTo(f)) + 1
      BY <3>1, CountWith DEF RidersTo, Riders
    <3>3. exitArray'[f] = exitArray[f] + 1 /\ willExit'[f] = TRUE
      BY <2>2 DEF Board, CountEntry, TypeOK
    <3>4. exitArray[f] \in Nat  BY <2>1, PersonSetsFinite DEF RidersTo, Riders
    <3> QED  BY <2>1, <3>2, <3>3, <3>4
  <2>3. CASE f # trip[p].dest
    <3>1. RidersTo(f)' = RidersTo(f)  BY <1>2, <1>3, <2>3 DEF RidersTo
    <3>2. exitArray'[f] = exitArray[f] /\ willExit'[f] = willExit[f]
      BY <2>3 DEF Board, CountEntry, TypeOK
    <3> QED  BY <2>1, <3>1, <3>2
  <2> QED  BY <2>2, <2>3
<1> QED  BY <1>3, <1>4, <1>5, <1>6 DEF CountersMatchPersons, RidersTo

LEMMA GetOutCounts ==
    ASSUME TypeOK, CountersMatchPersons, NEW p \in Person, GetOut(p)
    PROVE  CountersMatchPersons' /\ Riders' = Riders \ {p} /\ p \in Riders
<1>1. personState[p] = "IN" /\ personState' = [personState EXCEPT ![p] = "OUT"]
  BY DEF GetOut
<1>2. trip' = trip /\ trip[p].dest = currentFloor  BY DEF GetOut
<1>3. /\ p \in Riders /\ Riders' = Riders \ {p}
      /\ p \notin Delivered /\ Delivered' = Delivered \cup {p}
  BY <1>1 DEF Riders, Delivered, TypeOK
<1>4. carriedPeople' = Cardinality(Riders')
  BY <1>3, CountWithout DEF GetOut, CountExit, CountersMatchPersons, Riders
<1>5. totalCarried' = Cardinality(Delivered')
  BY <1>3, CountWith DEF GetOut, CountExit, CountersMatchPersons, Delivered
<1>6. ASSUME NEW f \in Floor
      PROVE  exitArray'[f] = Cardinality(RidersTo(f)') /\ (willExit'[f] <=> exitArray'[f] # 0)
  <2>1. exitArray[f] = Cardinality(RidersTo(f)) /\ (willExit[f] <=> exitArray[f] # 0)
    BY DEF CountersMatchPersons, RidersTo
  <2>2. CASE f = currentFloor
    <3>1. RidersTo(f)' = RidersTo(f) \ {p} /\ p \in RidersTo(f)
      BY <1>2, <1>3, <2>2 DEF RidersTo
    <3>2. /\ Cardinality(RidersTo(f)') = Cardinality(RidersTo(f)) - 1
          /\ Cardinality(RidersTo(f)) # 0
      BY <3>1, CountWithout, CountMember DEF RidersTo, Riders
    <3>3. exitArray'[f] = exitArray[f] - 1
      BY <2>2 DEF GetOut, CountExit, TypeOK
    <3>4. willExit'[f] <=> willExit[f] /\ exitArray'[f] # 0
      BY <2>2 DEF GetOut, CountExit, TypeOK
    <3> QED  BY <2>1, <3>2, <3>3, <3>4
  <2>3. CASE f # currentFloor
    <3>1. RidersTo(f)' = RidersTo(f)  BY <1>2, <1>3, <2>3 DEF RidersTo
    <3>2. exitArray'[f] = exitArray[f] /\ willExit'[f] = willExit[f]
      BY <2>3 DEF GetOut, CountExit, TypeOK
    <3> QED  BY <2>1, <3>1, <3>2
  <2> QED  BY <2>2, <2>3
<1> QED  BY <1>3, <1>4, <1>5, <1>6 DEF CountersMatchPersons, RidersTo

LEMMA CountersStep ==
    ASSUME TypeOK, CountersMatchPersons, [Next]_vars
    PROVE  CountersMatchPersons'
<1>1. CASE \E p \in Person : Board(p) \/ GetOut(p)
  BY <1>1, BoardCounts, GetOutCounts
<1>2. CASE ~ \E p \in Person : Board(p) \/ GetOut(p)
  <2>1. UNCHANGED <<trip, carVars, Riders, Delivered>>  BY <1>2, OnlyBoardAndGetOut
  <2> QED  BY <2>1 DEF CountersMatchPersons, carVars
<1> QED  BY <1>1, <1>2

\* carriedPeople, totalCarried, exitArray and willExit always agree with the
\* states of the persons (getIn and getOut), for every number of persons.
THEOREM CountersCorrect == Spec => []CountersMatchPersons
<1>1. Init => CountersMatchPersons
  <2> SUFFICES ASSUME Init PROVE CountersMatchPersons  OBVIOUS
  <2>1. Riders = {} /\ Delivered = {}  BY DEF Init, Riders, Delivered
  <2> QED  BY <2>1, FS_EmptySet DEF Init, CountersMatchPersons
<1>2. TypeOK /\ CountersMatchPersons /\ [Next]_vars => CountersMatchPersons'
  BY CountersStep
<1> QED  BY <1>1, <1>2, TypeCorrect, PTL DEF Spec

\* The riders never exceed either capacity, whichever thread is woken when:
\* getIn tests the counters, which are right when it does (CountersCorrect).
THEOREM CapacityCorrect == Spec => []CapacityRespected
<1>1. Init => CapacityRespected
  <2> SUFFICES ASSUME Init PROVE CapacityRespected  OBVIOUS
  <2>1. Riders = {}  BY DEF Init, Riders
  <2> QED  BY <2>1, FS_EmptySet, BuildingAssumption DEF Init, CapacityRespected
<1>2. TypeOK /\ CountersMatchPersons /\ CapacityRespected /\ [Next]_vars => CapacityRespected'
  <2> SUFFICES ASSUME TypeOK, CountersMatchPersons, CapacityRespected, [Next]_vars
               PROVE  CapacityRespected'
    OBVIOUS
  <2>1. ASSUME NEW p \in Person, Board(p) PROVE CapacityRespected'
    <3>1. Cardinality(Riders') = Cardinality(Riders) + 1
      BY <2>1, BoardCounts, CountWith DEF Riders
    <3>2. carriedPeople = Cardinality(Riders)  BY DEF CountersMatchPersons
    <3>3. trip[p].weight \in Nat  BY PersonFacts
    <3> QED
      BY <2>1, <3>1, <3>2, <3>3, BuildingAssumption, SMTT(30)
      DEF Board, CountEntry, Fits, CapacityRespected, TypeOK
  <2>2. ASSUME NEW p \in Person, GetOut(p) PROVE CapacityRespected'
    <3>1. Cardinality(Riders') = Cardinality(Riders) - 1
      BY <2>2, GetOutCounts, CountWithout DEF Riders
    <3>2. Cardinality(Riders) \in Nat  BY PersonSetsFinite DEF Riders
    <3>3. trip[p].weight \in Nat  BY PersonFacts
    <3> QED
      BY <2>2, <3>1, <3>2, <3>3, BuildingAssumption, SMTT(30)
      DEF GetOut, CountExit, CapacityRespected, TypeOK
  <2>3. CASE ~ \E p \in Person : Board(p) \/ GetOut(p)
    <3>1. UNCHANGED <<trip, carVars, Riders, Delivered>>  BY <2>3, OnlyBoardAndGetOut
    <3> QED  BY <3>1 DEF CapacityRespected, carVars
  <2> QED  BY <2>1, <2>2, <2>3
<1> QED  BY <1>1, <1>2, TypeCorrect, CountersCorrect, PTL DEF Spec
-----------------------------------------------------------------------------
(* The open requests *)

\* Every step but makeRequest and getIn leaves the open requests alone.
LEMMA OnlyRequestAndGetIn ==
    ASSUME TypeOK, [Next]_vars, ~ \E p \in Person : MakeRequest(p) \/ GetIn(p)
    PROVE  UNCHANGED <<trip, inArray, queued, Requesters>>
<1>1. ASSUME UNCHANGED <<trip, personState, requestVars>>
      PROVE  UNCHANGED <<trip, inArray, queued, Requesters>>
  BY <1>1 DEF requestVars, Requesters
<1>2. CASE UNCHANGED vars  BY <1>1, <1>2 DEF vars
<1>3. ASSUME NEW p \in Person,
             \/ PersonEnters(p) \/ WaitForDirection(p) \/ SpinInside(p)
             \/ PersonWakesSpuriously(p)
      PROVE  UNCHANGED <<trip, inArray, queued, Requesters>>
  BY <1>1, <1>3
  DEF PersonEnters, WaitForDirection, SpinInside, PersonWakesSpuriously, vars
<1>4. ASSUME NEW p \in Person, GetOut(p)
      PROVE  UNCHANGED <<trip, inArray, queued, Requesters>>
  BY <1>4 DEF GetOut, requestVars, Requesters, TypeOK
<1>5. CASE LiftEnters \/ LiftWakes \/ LiftStep
  BY <1>1, <1>5
  DEF LiftStep, LiftEnters, LiftWakes, Finish, BecomeIdle, IdleEnds, IdleServes,
      IdleWaits, IdleAgain, TravelUp, TravelDown, Travel, BackToLoop, DoorsClose,
      ArriveUp, ArriveDown, Arrive
<1> QED  BY <1>2, <1>3, <1>4, <1>5 DEF Next, PersonStep, Terminated

\* A requester outside the queues owns the mutex, so a step that starts with
\* a free mutex, or with another owner, finds and leaves none.
LEMMA QueuedStep ==
    ASSUME TypeOK, RequestsMatchPersons, [Next]_vars,
           ~ \E p \in Person : MakeRequest(p) \/ GetIn(p)
    PROVE  \A p \in Requesters' \ queued' : owner' = p
<1> SUFFICES ASSUME NEW p \in Requesters \ queued PROVE owner' = p
  BY OnlyRequestAndGetIn
<1>1. p \in Person /\ owner = p /\ personState[p] = "REQUESTED" /\ p # Nobody /\ p # Lift
  BY PersonAssumption DEF RequestsMatchPersons, Requesters
<1>2. CASE owner' = owner  BY <1>1, <1>2
<1>3. ASSUME NEW t, Enter(t) \/ TimeOut(t, TimedWait) PROVE FALSE
  BY <1>1, <1>3 DEF Enter, TimeOut
<1>4. ASSUME owner = Lift PROVE FALSE  BY <1>1, <1>4
<1>5. ASSUME NEW q \in Person,
             \/ PersonEnters(q) \/ WaitForDirection(q) \/ SpinInside(q) \/ GetOut(q)
             \/ PersonWakesSpuriously(q)
      PROVE  owner' = p
  BY <1>1, <1>2, <1>3, <1>5
  DEF PersonEnters, WaitForDirection, WantsRequest, SpinInside, GetOut,
      PersonWakesSpuriously, SpuriousWakeup
<1>6. CASE LiftEnters \/ LiftWakes  BY <1>3, <1>6 DEF LiftEnters, LiftWakes
<1>7. CASE LiftStep
  BY <1>4, <1>7
  DEF LiftStep, At, Finish, BecomeIdle, IdleEnds, IdleServes, IdleWaits, IdleAgain,
      TravelUp, TravelDown, Travel, BackToLoop, ArriveUp, ArriveDown, DoorsClose
<1>8. CASE UNCHANGED vars  BY <1>2, <1>8 DEF vars
<1> QED  BY <1>5, <1>6, <1>7, <1>8 DEF Next, PersonStep, Terminated

LEMMA MakeRequestStep ==
    ASSUME TypeOK, RequestsMatchPersons, NEW p \in Person, MakeRequest(p)
    PROVE  RequestsMatchPersons'
<1>1. /\ personState[p] \in {"NOT_REQUESTED", "MISSED"} /\ owner = p
      /\ personState' = [personState EXCEPT ![p] = "REQUESTED"]
      /\ inArray' = [inArray EXCEPT ![trip[p].init] = @ + 1]
      /\ trip' = trip
  BY DEF MakeRequest, RequestAndBoard, RequestHere, RequestRemote, RecordRequest, WantsRequest
<1>2. p \notin Requesters /\ Requesters' = Requesters \cup {p}
  BY <1>1 DEF Requesters, TypeOK
<1>3. Requesters \subseteq queued
  BY <1>1, <1>2 DEF RequestsMatchPersons
<1>4. ASSUME NEW f \in Floor PROVE inArray'[f] = Cardinality(RequestsAt(f)')
  <2>1. inArray[f] = Cardinality(RequestsAt(f))
    BY DEF RequestsMatchPersons, RequestsAt
  <2>2. CASE f = trip[p].init
    <3>1. RequestsAt(f)' = RequestsAt(f) \cup {p} /\ p \notin RequestsAt(f)
      BY <1>1, <1>2, <2>2 DEF RequestsAt
    <3>2. Cardinality(RequestsAt(f)') = Cardinality(RequestsAt(f)) + 1
      BY <3>1, CountWith DEF RequestsAt, Requesters
    <3> QED  BY <1>1, <2>1, <2>2, <3>2 DEF TypeOK
  <2>3. CASE f # trip[p].init
    <3>1. RequestsAt(f)' = RequestsAt(f)  BY <1>1, <1>2, <2>3 DEF RequestsAt
    <3> QED  BY <1>1, <2>1, <2>3, <3>1 DEF TypeOK
  <2> QED  BY <2>2, <2>3
<1>5. queued' \subseteq Requesters' /\ \A q \in Requesters' \ queued' : owner' = q
  <2>1. CASE RequestAndBoard(p)
    <3>1. queued' = queued /\ owner' = p
      BY <1>1, <2>1 DEF RequestAndBoard, Continue
    <3> QED  BY <1>2, <1>3, <3>1 DEF RequestsMatchPersons
  <2>2. CASE RequestHere(p) \/ RequestRemote(p)
    <3>1. queued' = queued \cup {p}  BY <2>2 DEF RequestHere, RequestRemote
    <3> QED  BY <1>2, <1>3, <3>1 DEF RequestsMatchPersons
  <2> QED  BY <2>1, <2>2 DEF MakeRequest
<1> QED  BY <1>4, <1>5 DEF RequestsMatchPersons, RequestsAt

LEMMA GetInStep ==
    ASSUME TypeOK, RequestsMatchPersons, NEW p \in Person, GetIn(p)
    PROVE  RequestsMatchPersons'
<1>1. /\ personState[p] = "REQUESTED" /\ owner = p
      /\ queued' = queued \ {p}
      /\ inArray' = [inArray EXCEPT ![trip[p].init] = @ - 1]
      /\ trip' = trip
  BY DEF GetIn, MissDirection, Board, MissCapacity, CloseRequest
<1>2. \E s \in {"MISSED", "IN"} : personState' = [personState EXCEPT ![p] = s]
  BY DEF GetIn, MissDirection, Board, MissCapacity
<1>3. p \in Requesters /\ Requesters' = Requesters \ {p}
  BY <1>1, <1>2 DEF Requesters, TypeOK
<1>4. ASSUME NEW f \in Floor PROVE inArray'[f] = Cardinality(RequestsAt(f)')
  <2>1. inArray[f] = Cardinality(RequestsAt(f))
    BY DEF RequestsMatchPersons, RequestsAt
  <2>2. CASE f = trip[p].init
    <3>1. RequestsAt(f)' = RequestsAt(f) \ {p} /\ p \in RequestsAt(f)
      BY <1>1, <1>3, <2>2 DEF RequestsAt
    <3>2. Cardinality(RequestsAt(f)') = Cardinality(RequestsAt(f)) - 1
      BY <3>1, CountWithout DEF RequestsAt, Requesters
    <3> QED  BY <1>1, <2>1, <2>2, <3>2 DEF TypeOK
  <2>3. CASE f # trip[p].init
    <3>1. RequestsAt(f)' = RequestsAt(f)  BY <1>1, <1>3, <2>3 DEF RequestsAt
    <3> QED  BY <1>1, <2>1, <2>3, <3>1 DEF TypeOK
  <2> QED  BY <2>2, <2>3
<1>5. queued' \subseteq Requesters' /\ Requesters' \ queued' = {}
  BY <1>1, <1>3 DEF RequestsMatchPersons
<1> QED  BY <1>4, <1>5 DEF RequestsMatchPersons, RequestsAt

\* inArray counts the open requests and the priority queues hold them, but for
\* that of the thread inside the monitor (makeRequest, getIn).
THEOREM RequestsCorrect == Spec => []RequestsMatchPersons
<1>1. Init => RequestsMatchPersons
  <2> SUFFICES ASSUME Init PROVE RequestsMatchPersons  OBVIOUS
  <2>1. Requesters = {}  BY DEF Init, Requesters
  <2> QED  BY <2>1, FS_EmptySet DEF Init, RequestsMatchPersons
<1>2. TypeOK /\ RequestsMatchPersons /\ [Next]_vars => RequestsMatchPersons'
  <2> SUFFICES ASSUME TypeOK, RequestsMatchPersons, [Next]_vars
               PROVE  RequestsMatchPersons'
    OBVIOUS
  <2>1. CASE \E p \in Person : MakeRequest(p) \/ GetIn(p)
    BY <2>1, MakeRequestStep, GetInStep
  <2>2. CASE ~ \E p \in Person : MakeRequest(p) \/ GetIn(p)
    <3>1. UNCHANGED <<trip, inArray, queued, Requesters>>  BY <2>2, OnlyRequestAndGetIn
    <3>2. \A p \in Requesters' \ queued' : owner' = p  BY <2>2, QueuedStep
    <3> QED  BY <3>1, <3>2 DEF RequestsMatchPersons
  <2> QED  BY <2>1, <2>2
<1> QED  BY <1>1, <1>2, TypeCorrect, PTL DEF Spec
=============================================================================
