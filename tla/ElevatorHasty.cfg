SPECIFICATION Spec
CONSTANTS
    Person = {p1, p2, p3}
    Lift = lift
    Nobody = nobody
    NumFloors = 3
    Trips <- CrossingTrips
    WeightCapacity = 3
    PersonCapacity = 2
    LongTimers = {}
    SpuriousWakeups = TRUE
SYMMETRY AnyPerson
INVARIANTS
    TypeOK
    CountersMatchPersons
    WeightMatchesRiders
    RequestsMatchPersons
    CapacityRespected
    QueueIsItinerary
    WaitersAreInPlace
