------------------------------ MODULE Elevator ------------------------------
(***************************************************************************)
(* The elevator monitor of hw2/Elevator.cpp: one lift thread that runs     *)
(* moveElevator and one thread per person that runs personMove, all of     *)
(* them inside the same monitor.                                           *)
(*                                                                         *)
(* A person thread is driven by the state of its person: after every wait  *)
(* and after every call personMove looks at that state and calls           *)
(* tryRequest, getIn or getOut.  An action below is one such call, from    *)
(* the dispatch to the next dispatch or to the wait it ends in; the mutex  *)
(* is held between two actions of one thread unless the first one waited.  *)
(***************************************************************************)
EXTENDS Integers, Sequences, FiniteSets, FiniteSetsExt, Functions

CONSTANTS
    Person,             \* the person threads, each with its person
    Lift,               \* the elevator controller thread
    Nobody,             \* the mutex has no owner
    NumFloors,          \* numOfFloors: the floors are 0..NumFloors-1
    Trips,              \* the input lines a person may be given
    WeightCapacity,
    PersonCapacity,
    LongTimers,         \* the timed waits long enough for woken persons to run
    SpuriousWakeups     \* may a wait return without a notification?

Floor == 0 .. NumFloors - 1

\* An input line: floors, weight and priority of one person (main.cpp).
Trip == [init: Floor, dest: Floor, weight: Nat \ {0}, priority: {"HIGH", "LOW"}]

Timer == {"inOut", "idle", "travel"}

ASSUME PersonAssumption ==
    /\ IsFiniteSet(Person)
    /\ Lift \notin Person
    /\ Nobody \notin Person \cup {Lift}

ASSUME BuildingAssumption ==
    /\ NumFloors \in Nat \ {0, 1}
    /\ WeightCapacity \in Nat
    /\ PersonCapacity \in Nat \ {0}

\* Every person moves to another floor and is light enough to be carried.
ASSUME TripsAssumption ==
    /\ Trips \subseteq Trip
    /\ \A r \in Trips : r.init # r.dest /\ r.weight <= WeightCapacity

ASSUME TimingAssumption ==
    /\ LongTimers \subseteq Timer
    /\ SpuriousWakeups \in BOOLEAN

-----------------------------------------------------------------------------
VARIABLES
    trip,               \* the input line of each person
    personState,        \* Person.state
    moveState,          \* state.moveState
    currentFloor,       \* state.currentFloor
    carriedPeople,      \* state.carriedPeople
    carriedWeight,      \* state.carriedWeight
    totalCarried,       \* state.totalCarried
    destQueue,          \* the floors to stop at, in travelling order
    exitArray,          \* per floor, the riders that want to get out there
    inArray,            \* per floor, the open requests
    willExit,           \* per floor, does a rider want to get out there?
    queued,             \* the persons in a high or low priority queue
    liftPc,             \* where the lift thread is in moveElevator
    owner, at           \* the monitor

carVars     == <<carriedPeople, carriedWeight, totalCarried, exitArray, willExit>>
requestVars == <<inArray, queued>>
routeVars   == <<moveState, currentFloor, destQueue>>
vars == <<trip, personState, carVars, requestVars, routeVars, liftPc, owner, at>>

Thread == Person \cup {Lift}

UpCond        == <<"up">>
DownCond      == <<"down">>
DirectionCond == <<"direction">>
MissSleep     == <<"missSleep">>
TimedWait     == <<"timedWait">>
HighWaiting(f) == <<"highWaitingPeople", f>>
LowWaiting(f)  == <<"lowWaitingPeople", f>>

\* Mutation: one condition for the riders to all floors.
ExitingAnywhere(f) == <<"exitingPeople", 0>>
Exiting(f) == <<"exitingPeople", f>>

Condition ==
    {UpCond, DownCond, DirectionCond, MissSleep, TimedWait}
        \cup {HighWaiting(f) : f \in Floor}
        \cup {LowWaiting(f) : f \in Floor}
        \cup {Exiting(f) : f \in Floor}

INSTANCE Monitor

Init ==
    /\ trip \in [Person -> Trips]
    /\ personState = [p \in Person |-> "NOT_REQUESTED"]
    /\ moveState = "IDLE"
    /\ currentFloor = 0
    /\ carriedPeople = 0
    /\ carriedWeight = 0
    /\ totalCarried = 0
    /\ destQueue = << >>
    /\ exitArray = [f \in Floor |-> 0]
    /\ inArray = [f \in Floor |-> 0]
    /\ willExit = [f \in Floor |-> FALSE]
    /\ queued = {}
    /\ liftPc = "loop"
    /\ MonitorInit

-----------------------------------------------------------------------------
MovesTo(p) == IF trip[p].init < trip[p].dest THEN "UP" ELSE "DOWN"

\* The condition a person of its direction waits on in tryRequest.
DirectionOf(p) == IF MovesTo(p) = "UP" THEN UpCond ELSE DownCond

\* The condition a person waits on once its request is queued.
BoardingOf(p) ==
    IF trip[p].priority = "HIGH" THEN HighWaiting(trip[p].init)
                                 ELSE LowWaiting(trip[p].init)

\* highPriorityQueue[f] and lowPriorityQueue[f], of which only the members matter.
HighQueued(Q, f) == {p \in Q : trip[p].priority = "HIGH" /\ trip[p].init = f}

AllCarried == totalCarried = Cardinality(Person)

Earlier(f, g, direction) == IF direction = "UP" THEN f < g ELSE f > g

\* Mutation: the floor is appended and the queue is not sorted.
EnqueuedUnsorted(q, f, direction) == IF f \in Range(q) THEN q ELSE Append(q, f)

(***************************************************************************)
(* "if(!isIn(destQueue,f)) { push_back(f); sort }" for a queue that        *)
(* already is sorted in the direction (QueueIsItinerary): f goes after     *)
(* the floors the lift reaches before it.                                  *)
(***************************************************************************)
Enqueued(q, f, direction) ==
    LET before == Cardinality({i \in DOMAIN q : Earlier(q[i], f, direction)})
    IN  IF f \in Range(q)
          THEN q
          ELSE SubSeq(q, 1, before) \o <<f>> \o SubSeq(q, before + 1, Len(q))

-----------------------------------------------------------------------------
(* Person threads *)

\* Locking the monitor on entry, and getting the mutex back after a wait.
PersonEnters(p) ==
    /\ Enter(p)
    /\ UNCHANGED <<trip, personState, carVars, requestVars, routeVars, liftPc>>

WantsRequest(p) == owner = p /\ personState[p] \in {"NOT_REQUESTED", "MISSED"}

\* Mutation: it is not tested whether the lift has passed the person.
MayRequestBehind(p) == moveState \in {"IDLE", MovesTo(p)}

\* The lift is idle, or travels this person's way and has not passed it.
MayRequest(p) ==
    \/ moveState = "IDLE"
    \/ moveState = "UP"   /\ MovesTo(p) = "UP"   /\ trip[p].init >= currentFloor
    \/ moveState = "DOWN" /\ MovesTo(p) = "DOWN" /\ trip[p].init <= currentFloor

\* tryRequest finds no request possible and waits for the lift to come back.
WaitForDirection(p) ==
    /\ WantsRequest(p)
    /\ ~ MayRequest(p)
    /\ WaitOn(p, {}, DirectionOf(p))
    /\ UNCHANGED <<trip, personState, carVars, requestVars, routeVars, liftPc>>

\* Mutation: high priority persons that wait at the floor are ignored.
MayBoardBeforeHigh(p) == ~ willExit[currentFloor]

\* At the lift's floor a person boards at once unless others go first.
MayBoardNow(p) ==
    /\ ~ willExit[currentFloor]
    /\ trip[p].priority = "HIGH" \/ HighQueued(queued, currentFloor) = {}

\* What every request records first (makeRequest).
RecordRequest(p) ==
    /\ WantsRequest(p)
    /\ MayRequest(p)
    /\ personState' = [personState EXCEPT ![p] = "REQUESTED"]
    /\ inArray' = [inArray EXCEPT ![trip[p].init] = @ + 1]

\* makeRequest calls getIn, which is the next step: p still owns the mutex.
RequestAndBoard(p) ==
    /\ currentFloor = trip[p].init
    /\ MayBoardNow(p)
    /\ RecordRequest(p)
    /\ moveState' = IF moveState = "IDLE" THEN MovesTo(p) ELSE moveState
    /\ Continue(p, {})
    /\ UNCHANGED <<trip, carVars, queued, currentFloor, destQueue, liftPc>>

\* makeRequest at the lift's floor while others leave or go first.
RequestHere(p) ==
    /\ currentFloor = trip[p].init
    /\ ~ MayBoardNow(p)
    /\ RecordRequest(p)
    /\ moveState' = IF moveState = "IDLE" THEN MovesTo(p) ELSE moveState
    /\ queued' = queued \cup {p}
    /\ WaitOn(p, {}, BoardingOf(p))
    /\ UNCHANGED <<trip, carVars, currentFloor, destQueue, liftPc>>

\* makeRequest from another floor: the lift is called to that floor.
RequestRemote(p) ==
    /\ currentFloor # trip[p].init
    /\ RecordRequest(p)
    /\ moveState' = IF moveState # "IDLE"              THEN moveState
                    ELSE IF trip[p].init > currentFloor THEN "UP"
                    ELSE "DOWN"
    /\ destQueue' = Enqueued(destQueue, trip[p].init, moveState')
    /\ queued' = queued \cup {p}
    /\ WaitOn(p, {}, BoardingOf(p))
    /\ UNCHANGED <<trip, carVars, currentFloor, liftPc>>

MakeRequest(p) == RequestAndBoard(p) \/ RequestHere(p) \/ RequestRemote(p)

\* Mutations: a capacity test that is off by one, and one without the weight.
FitsOneMore(p) ==
    /\ carriedPeople <= PersonCapacity
    /\ WeightCapacity - carriedWeight >= trip[p].weight

FitsByCount(p) == carriedPeople < PersonCapacity

Fits(p) ==
    /\ carriedPeople < PersonCapacity
    /\ WeightCapacity - carriedWeight >= trip[p].weight

\* Mutation: the request counter of the floor is not taken back.
CloseRequestUncounted(p) ==
    /\ owner = p
    /\ personState[p] = "REQUESTED"
    /\ queued' = queued \ {p}
    /\ UNCHANGED inArray

\* getIn takes the request back, and wakes the low priority persons of the
\* floor if no high priority one is left there.
CloseRequest(p) ==
    /\ owner = p
    /\ personState[p] = "REQUESTED"
    /\ queued' = queued \ {p}
    /\ inArray' = [inArray EXCEPT ![trip[p].init] = @ - 1]

LowsToWake(p) ==
    IF HighQueued(queued \ {p}, trip[p].init) = {} THEN {LowWaiting(trip[p].init)} ELSE {}

\* getIn: the lift no longer travels this person's way.  There is no wait:
\* personMove goes straight back to tryRequest.
MissDirection(p) ==
    /\ CloseRequest(p)
    /\ moveState # MovesTo(p)
    /\ personState' = [personState EXCEPT ![p] = "MISSED"]
    /\ Continue(p, LowsToWake(p))
    /\ UNCHANGED <<trip, carVars, routeVars, liftPc>>

\* The car's counters when p gets in.
CountEntry(p) ==
    /\ exitArray' = [exitArray EXCEPT ![trip[p].dest] = @ + 1]
    /\ willExit' = [willExit EXCEPT ![trip[p].dest] = TRUE]
    /\ carriedPeople' = carriedPeople + 1
    /\ carriedWeight' = carriedWeight + trip[p].weight
    /\ UNCHANGED totalCarried

\* getIn: the person enters the car and waits for its destination.
Board(p) ==
    /\ CloseRequest(p)
    /\ moveState = MovesTo(p)
    /\ Fits(p)
    /\ personState' = [personState EXCEPT ![p] = "IN"]
    /\ CountEntry(p)
    /\ destQueue' = Enqueued(destQueue, trip[p].dest, moveState)
    /\ WaitOn(p, LowsToWake(p), Exiting(trip[p].dest))
    /\ UNCHANGED <<trip, moveState, currentFloor, liftPc>>

\* getIn: the car is too full; the person waits until somebody gets out.
MissCapacity(p) ==
    /\ CloseRequest(p)
    /\ moveState = MovesTo(p)
    /\ ~ Fits(p)
    /\ personState' = [personState EXCEPT ![p] = "MISSED"]
    /\ WaitOn(p, LowsToWake(p), MissSleep)
    /\ UNCHANGED <<trip, carVars, routeVars, liftPc>>

GetIn(p) == MissDirection(p) \/ Board(p) \/ MissCapacity(p)

\* getOut returns at once away from the destination, and personMove calls it
\* again: the thread spins and never gives the mutex back.
SpinInside(p) ==
    /\ owner = p
    /\ personState[p] = "IN"
    /\ trip[p].dest # currentFloor
    /\ UNCHANGED vars

\* Mutations: willExit is not reset by the last one to leave; the weight of
\* the person stays on the car's account.
CountExitKeepsFlag(p) ==
    /\ carriedPeople' = carriedPeople - 1
    /\ carriedWeight' = carriedWeight - trip[p].weight
    /\ totalCarried' = totalCarried + 1
    /\ exitArray' = [exitArray EXCEPT ![currentFloor] = @ - 1]
    /\ UNCHANGED willExit

CountExitKeepsWeight(p) ==
    /\ carriedPeople' = carriedPeople - 1
    /\ totalCarried' = totalCarried + 1
    /\ exitArray' = [exitArray EXCEPT ![currentFloor] = @ - 1]
    /\ willExit' = [willExit EXCEPT ![currentFloor] = @ /\ exitArray'[currentFloor] # 0]
    /\ UNCHANGED carriedWeight

\* The car's counters when p gets out.
CountExit(p) ==
    /\ carriedPeople' = carriedPeople - 1
    /\ carriedWeight' = carriedWeight - trip[p].weight
    /\ totalCarried' = totalCarried + 1
    /\ exitArray' = [exitArray EXCEPT ![currentFloor] = @ - 1]
    /\ willExit' = [willExit EXCEPT ![currentFloor] = @ /\ exitArray'[currentFloor] # 0]

\* Mutations: the last one to leave does not call the high priority persons of
\* the floor, and nobody tells those who found the car full.
FreedButNotHigh == {MissSleep}
FreedButNotMissed == IF exitArray'[currentFloor] = 0 THEN {HighWaiting(currentFloor)} ELSE {}

\* Whom getOut notifies: those who found the car full, and after the last one
\* has left the floor's high priority persons (but no low priority ones).
Freed ==
    IF exitArray'[currentFloor] = 0 THEN {MissSleep, HighWaiting(currentFloor)}
                                    ELSE {MissSleep}

\* getOut at the destination; the thread then returns from personMove.
GetOut(p) ==
    /\ owner = p
    /\ personState[p] = "IN"
    /\ trip[p].dest = currentFloor
    /\ personState' = [personState EXCEPT ![p] = "OUT"]
    /\ CountExit(p)
    /\ Leave(p, Freed)
    /\ moveState' = IF totalCarried' = Cardinality(Person) THEN "IDLE" ELSE moveState
    /\ UNCHANGED <<trip, requestVars, currentFloor, destQueue, liftPc>>

PersonWakesSpuriously(p) ==
    /\ SpuriousWakeups
    /\ SpuriousWakeup(p)
    /\ UNCHANGED <<trip, personState, carVars, requestVars, routeVars, liftPc>>

PersonStep(p) ==
    \/ WaitForDirection(p)
    \/ MakeRequest(p)
    \/ GetIn(p)
    \/ SpinInside(p)
    \/ GetOut(p)

-----------------------------------------------------------------------------
(* The lift thread *)

LiftEnters ==
    /\ at[Lift] = New
    /\ Enter(Lift)
    /\ UNCHANGED <<trip, personState, carVars, requestVars, routeVars, liftPc>>

TimerOf(pc) ==
    CASE pc \in {"inOut", "idleInOut"}     -> "inOut"
      [] pc = "idleWait"                   -> "idle"
      [] pc \in {"travelUp", "travelDown"} -> "travel"

\* A timed wait ends.  A long one outlasts the reaction of every woken person.
LiftWakes ==
    /\ TimeOut(Lift, TimedWait)
    /\ TimerOf(liftPc) \in LongTimers => \A p \in Person : at[p] # Ready
    /\ UNCHANGED <<trip, personState, carVars, requestVars, routeVars, liftPc>>

\* The lift broadcasts C and starts the timed wait that pc is named after.
Sleep(C, pc) == WaitOn(Lift, C, TimedWait) /\ liftPc' = pc

At(pc) == owner = Lift /\ liftPc = pc

\* Mutation: those who enter are called before those who leave.
CalledAtEntersFirst(f) ==
    IF HighQueued(queued, f) # {} THEN {HighWaiting(f)}
    ELSE IF willExit[f] THEN {Exiting(f)}
    ELSE {LowWaiting(f)}

\* Whom loadUnload notifies at floor f: those who leave, else those who enter.
CalledAt(f) ==
    IF willExit[f]                   THEN {Exiting(f)}
    ELSE IF HighQueued(queued, f) # {} THEN {HighWaiting(f)}
    ELSE {LowWaiting(f)}

\* moveElevator returns.
Finish ==
    /\ At("loop")
    /\ AllCarried
    /\ Leave(Lift, {})
    /\ liftPc' = "done"
    /\ UNCHANGED <<trip, personState, carVars, requestVars, routeVars>>

\* The lift is idle: whoever waits for a direction may try again.
BecomeIdle ==
    /\ At("loop")
    /\ ~ AllCarried
    /\ moveState = "IDLE"
    /\ Continue(Lift, {DirectionCond, UpCond, DownCond})
    /\ liftPc' = "idle"
    /\ UNCHANGED <<trip, personState, carVars, requestVars, routeVars>>

\* One round of the idle loop: it ends, or serves this floor, or just waits.
IdleEnds ==
    /\ At("idle")
    /\ destQueue # << >> \/ AllCarried
    /\ Continue(Lift, {})
    /\ liftPc' = "branch"
    /\ UNCHANGED <<trip, personState, carVars, requestVars, routeVars>>

IdleServes ==
    /\ At("idle")
    /\ destQueue = << >> /\ ~ AllCarried
    /\ exitArray[currentFloor] # 0 \/ inArray[currentFloor] # 0
    /\ Sleep(CalledAt(currentFloor), "idleInOut")
    /\ UNCHANGED <<trip, personState, carVars, requestVars, routeVars>>

IdleWaits ==
    /\ \/ At("idle") /\ destQueue = << >> /\ ~ AllCarried
                     /\ exitArray[currentFloor] = 0 /\ inArray[currentFloor] = 0
       \/ At("idleInOut")
    /\ Sleep({}, "idleWait")
    /\ UNCHANGED <<trip, personState, carVars, requestVars, routeVars>>

IdleAgain ==
    /\ At("idleWait")
    /\ Continue(Lift, {})
    /\ liftPc' = "idle"
    /\ UNCHANGED <<trip, personState, carVars, requestVars, routeVars>>

\* The lift invites those who travel its way, then spends the travel time.
Travel(direction, cond, pc) ==
    /\ \/ At("loop") /\ ~ AllCarried
       \/ At("branch")
    /\ moveState = direction
    /\ Sleep({cond}, pc)
    /\ UNCHANGED <<trip, personState, carVars, requestVars, routeVars>>

TravelUp   == Travel("UP", UpCond, "travelUp")
TravelDown == Travel("DOWN", DownCond, "travelDown")

\* After the idle loop the lift may still be idle.
BackToLoop ==
    /\ At("branch")
    /\ moveState = "IDLE"
    /\ Continue(Lift, {})
    /\ liftPc' = "loop"
    /\ UNCHANGED <<trip, personState, carVars, requestVars, routeVars>>

\* The travel time is over and the lift is at floor f: stop there if f is next.
Arrive(f) ==
    /\ currentFloor' = f
    /\ IF destQueue # << >> /\ f = Head(destQueue)
         THEN /\ destQueue' = Tail(destQueue)
              /\ moveState' = IF destQueue' = << >> THEN "IDLE" ELSE moveState
              /\ Sleep(CalledAt(f), "inOut")
         ELSE /\ Continue(Lift, {})
              /\ liftPc' = "loop"
              /\ UNCHANGED <<destQueue, moveState>>
    /\ UNCHANGED <<trip, personState, carVars, requestVars>>

\* Mutation: the lift moves up whether or not it has to.
ArriveUpUnchecked == At("travelUp") /\ Arrive(currentFloor + 1)

(***************************************************************************)
(* With an empty destQueue the code reads *max_element(begin, end) of an   *)
(* empty vector.  The build (no optimisation, no checks) reads the slot    *)
(* the last erase left behind, which holds the current floor: the lift     *)
(* stays where it is, as it does when no floor of the queue lies ahead.    *)
(***************************************************************************)
ArriveUp ==
    /\ At("travelUp")
    /\ Arrive(IF \E f \in Range(destQueue) : currentFloor < f
                THEN currentFloor + 1 ELSE currentFloor)

ArriveDown ==
    /\ At("travelDown")
    /\ Arrive(IF \E f \in Range(destQueue) : currentFloor > f
                THEN currentFloor - 1 ELSE currentFloor)

\* The doors' time is over: back to the condition of the loop.
DoorsClose ==
    /\ At("inOut")
    /\ Continue(Lift, {})
    /\ liftPc' = "loop"
    /\ UNCHANGED <<trip, personState, carVars, requestVars, routeVars>>

LiftStep ==
    \/ Finish \/ BecomeIdle
    \/ IdleEnds \/ IdleServes \/ IdleWaits \/ IdleAgain
    \/ TravelUp \/ TravelDown \/ BackToLoop
    \/ ArriveUp \/ ArriveDown \/ DoorsClose

-----------------------------------------------------------------------------
\* Every thread has returned: main joins them all and exits.
Terminated ==
    /\ \A t \in Thread : at[t] = Gone
    /\ UNCHANGED vars

Next ==
    \/ \E p \in Person : \/ PersonEnters(p)
                         \/ PersonStep(p)
                         \/ PersonWakesSpuriously(p)
    \/ LiftEnters \/ LiftWakes \/ LiftStep
    \/ Terminated

Spec == Init /\ [][Next]_vars
-----------------------------------------------------------------------------
(* Fairness: the scheduler runs every thread that can run.  A thread that   *)
(* owns the mutex goes on; one that wants it gets it if the mutex is free   *)
(* again and again; a timed wait ends.                                      *)
Fairness ==
    /\ WF_vars(LiftStep) /\ SF_vars(LiftEnters) /\ SF_vars(LiftWakes)
    /\ \A p \in Person : WF_vars(PersonStep(p)) /\ SF_vars(PersonEnters(p))

FairSpec == Spec /\ Fairness

-----------------------------------------------------------------------------
(* Properties that hold whatever the timers and the scheduler do *)

Riders     == {p \in Person : personState[p] = "IN"}
Requesters == {p \in Person : personState[p] = "REQUESTED"}
Delivered  == {p \in Person : personState[p] = "OUT"}

\* The type of every variable of the monitor and of the lift thread.
TypeOK ==
    /\ trip \in [Person -> Trips]
    /\ personState \in [Person -> {"NOT_REQUESTED", "REQUESTED", "MISSED", "IN", "OUT"}]
    /\ moveState \in {"IDLE", "UP", "DOWN"}
    /\ currentFloor \in Floor
    /\ carriedPeople \in Int
    /\ carriedWeight \in Int
    /\ totalCarried \in Nat
    /\ destQueue \in Seq(Floor)
    /\ exitArray \in [Floor -> Int]
    /\ inArray \in [Floor -> Int]
    /\ willExit \in [Floor -> BOOLEAN]
    /\ queued \subseteq Person
    /\ liftPc \in {"loop", "idle", "branch", "idleInOut", "idleWait",
                   "travelUp", "travelDown", "inOut", "done"}
    /\ MonitorTypeOK

\* The counters of the car agree with the states of all the persons, although
\* getIn and getOut change them one thread at a time between notifications.
CountersMatchPersons ==
    /\ carriedPeople = Cardinality(Riders)
    /\ totalCarried = Cardinality(Delivered)
    /\ \A f \in Floor :
         /\ exitArray[f] = Cardinality({p \in Riders : trip[p].dest = f})
         /\ willExit[f] <=> exitArray[f] # 0

\* carriedWeight is the weight of the persons in the car.
WeightMatchesRiders ==
    carriedWeight = MapThenSumSet(LAMBDA p : trip[p].weight, Riders)

\* A request is open from makeRequest to getIn: inArray counts the open ones,
\* and the priority queues hold all of them, but for a person that still owns
\* the mutex and is about to enter the car.
RequestsMatchPersons ==
    /\ \A f \in Floor :
         inArray[f] = Cardinality({p \in Requesters : trip[p].init = f})
    /\ queued \subseteq Requesters
    /\ \A p \in Requesters \ queued : owner = p

\* The car never carries more persons or more weight than it may, although
\* getIn tests the capacity long after the person was called to the car.
CapacityRespected ==
    /\ Cardinality(Riders) <= PersonCapacity
    /\ carriedWeight <= WeightCapacity

\* moveElevator only looks at the head of destQueue, so the queue has to be in
\* the order of travel, without duplicates, and empty when the lift is idle.
QueueIsItinerary ==
    /\ \A i, j \in DOMAIN destQueue :
         i < j /\ moveState # "IDLE" => Earlier(destQueue[i], destQueue[j], moveState)
    /\ moveState = "IDLE" => destQueue = << >> \/ AllCarried

\* A blocked person is blocked on a condition that is broadcast for persons in
\* its state, and one that missed the car for its capacity is not alone: there
\* is a rider whose getOut will wake it (the lost wakeup of missSleep).
WaitersAreInPlace ==
    \A p \in Person : at[p] \in Condition =>
        \/ personState[p] \in {"NOT_REQUESTED", "MISSED"} /\ at[p] = DirectionOf(p)
        \/ personState[p] = "MISSED" /\ at[p] = MissSleep /\ Riders # {}
        \/ personState[p] = "REQUESTED" /\ at[p] = BoardingOf(p)
        \/ personState[p] = "IN" /\ at[p] = Exiting(trip[p].dest)

-----------------------------------------------------------------------------
(* Properties of a building whose travel time is long enough for every      *)
(* woken person to run.  (The assignment, section 2, promises it of the     *)
(* doors: "IN_OUT_TIME will be long enough to let all the Person threads    *)
(* enter/leave the elevator".)                                              *)

\* The lift never passes a floor it has to stop at: the queue lies ahead.
QueueIsAhead ==
    \A f \in Range(destQueue) :
        /\ moveState = "UP"   => f >= currentFloor
        /\ moveState = "DOWN" => f <= currentFloor

\* Whoever is in the car is at the destination or the lift will stop there.
RidersWillStop ==
    \A p \in Riders : trip[p].dest \in {currentFloor} \cup Range(destQueue)

\* The call of a high priority person is kept until the lift is at its floor.
HighCallsKept ==
    \A p \in queued : trip[p].priority = "HIGH" =>
        trip[p].init \in {currentFloor} \cup Range(destQueue)

\* No rider holds the mutex away from its destination, where getOut returns
\* without waiting and personMove would call it forever.
NoSpin == \A p \in Riders : owner = p => trip[p].dest = currentFloor

Enters(p) == personState[p] # "IN" /\ personState'[p] = "IN"

\* A low priority person only enters when no high priority person with an open
\* request is left at its floor.
HighFirst ==
    [][\A p \in Person : Enters(p) /\ trip[p].priority = "LOW"
           => HighQueued(queued, trip[p].init) = {}]_vars

\* The lift keeps its direction as long as a rider wants to go further.
KeepsDirection ==
    [][moveState' # moveState /\ moveState # "IDLE"
           => \A p \in Riders : trip[p].dest = currentFloor']_vars

\* The elevator gives the service of ElevatorService: persons enter at their
\* own floor after those who leave, and the car never carries a rider past its
\* destination.
Service == INSTANCE ElevatorService WITH
    floor  <- currentFloor,
    status <- [p \in Person |-> CASE personState[p] = "IN"  -> "riding"
                                  [] personState[p] = "OUT" -> "delivered"
                                  [] OTHER                  -> "waiting"]

ImplementsService == Service!ServiceSpec

\* Whoever has entered the car gets out of it at last.
RidersDelivered ==
    \A p \in Person : personState[p] = "IN" ~> personState[p] = "OUT"

\* Without low priority persons everybody is served and all threads return.
HighsServed ==
    (\A p \in Person : trip[p].priority = "HIGH") => <>(\A t \in Thread : at[t] = Gone)

\* "If there is no destination in the queue it lets other threads to take
\* control [...] otherwise moves the elevator": no travelling without a
\* destination.
TravelsSomewhere == liftPc \in {"travelUp", "travelDown"} => destQueue # << >>

\* "Elevator Controller [...] continues to serve all the requests made by the
\* Person threads until all requests are carried out": all threads return, at
\* least when the lift never gets stuck in a travel without a destination.
AllServed == []TravelsSomewhere => <>(\A t \in Thread : at[t] = Gone)
============================================================================
