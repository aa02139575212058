-------------------------- MODULE ElevatorService --------------------------
(***************************************************************************)
(* What a person may expect of the elevator, without threads, monitor,     *)
(* queues or timers: the car is at a floor, and every person is waiting,   *)
(* riding or delivered.                                                    *)
(***************************************************************************)
EXTENDS Integers, FiniteSets, FiniteSetsExt

CONSTANTS Person, NumFloors, WeightCapacity, PersonCapacity

VARIABLES
    trip,   \* the input line of each person, which never changes
    floor,  \* where the car is
    status  \* "waiting", "riding" or "delivered", for each person

serviceVars == <<trip, floor, status>>

Riding == {p \in Person : status[p] = "riding"}

ServiceInit ==
    /\ floor = 0
    /\ status = [p \in Person |-> "waiting"]

\* A person enters at its own floor, when those who leave there have left,
\* and when the car can take one more person of that weight.
Enters(p) ==
    /\ status[p] = "waiting"
    /\ floor = trip[p].init
    /\ \A r \in Riding : trip[r].dest # floor
    /\ Cardinality(Riding) < PersonCapacity
    /\ MapThenSumSet(LAMBDA r : trip[r].weight, Riding \cup {p}) <= WeightCapacity
    /\ status' = [status EXCEPT ![p] = "riding"]
    /\ UNCHANGED <<trip, floor>>

\* A rider leaves at its destination and nowhere else.
Leaves(p) ==
    /\ status[p] = "riding"
    /\ floor = trip[p].dest
    /\ status' = [status EXCEPT ![p] = "delivered"]
    /\ UNCHANGED <<trip, floor>>

\* The car moves by one floor, and never away from a rider's destination.
Moves(f) ==
    /\ f \in 0 .. NumFloors - 1
    /\ f \in {floor - 1, floor + 1}
    /\ \A r \in Riding : trip[r].dest # floor
    /\ floor' = f
    /\ UNCHANGED <<trip, status>>

ServiceNext ==
    \/ \E p \in Person : Enters(p) \/ Leaves(p)
    \/ \E f \in {floor - 1, floor + 1} : Moves(f)

ServiceSpec == ServiceInit /\ [][ServiceNext]_serviceVars
============================================================================
