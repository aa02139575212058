----------------------------- MODULE MCElevator -----------------------------
(***************************************************************************)
(* Small buildings for Elevator.  A person to the ground floor weighs 2    *)
(* and the others 1, so that with WeightCapacity 3 and PersonCapacity 2    *)
(* either limit can be the one that keeps a person out.                    *)
(***************************************************************************)
EXTENDS Elevator, TLC

AllTrips ==
    {r \in [init: Floor, dest: Floor, weight: {1, 2}, priority: {"HIGH", "LOW"}] :
        r.init # r.dest /\ (r.weight = 2 <=> r.dest = 0)}

\* Trips in both directions and of both priorities that meet at floor 1.
CrossingTrips ==
    {r \in AllTrips : \/ r.priority = "HIGH" /\ <<r.init, r.dest>> \in {<<0, 1>>, <<2, 0>>}
                      \/ r.priority = "LOW" /\ <<r.init, r.dest>> \in {<<1, 2>>, <<1, 0>>}}

\* High priority trips from every floor, of which those to floor 1 free a place
\* where others wait, and one of low priority the other way.
MostlyHighTrips ==
    {r \in AllTrips : \/ r.priority = "HIGH" /\ <<r.init, r.dest>> \in {<<0, 1>>, <<1, 2>>, <<2, 0>>}
                      \/ r.priority = "LOW" /\ <<r.init, r.dest>> = <<1, 0>>}

\* Somebody leaves at floor 1 and somebody rides past it while a low priority
\* person waits there.
LowAtExitTrips ==
    {r \in AllTrips : \/ r.priority = "HIGH" /\ r.init = 0
                      \/ r.priority = "LOW" /\ <<r.init, r.dest>> = <<1, 2>>}

AnyPerson == Permutations(Person)
=============================================================================
