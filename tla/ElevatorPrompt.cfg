SPECIFICATION Spec
CONSTANTS
    Person = {p1, p2, p3}
    Lift = lift
    Nobody = nobody
    NumFloors = 3
    Trips <- AllTrips
    WeightCapacity = 3
    PersonCapacity = 2
    LongTimers = {"travel"}
    SpuriousWakeups = FALSE
SYMMETRY AnyPerson
INVARIANTS
    QueueIsAhead
    RidersWillStop
    HighCallsKept
    NoSpin
PROPERTIES
    HighFirst
    KeepsDirection
    ImplementsService
