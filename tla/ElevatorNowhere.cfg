SPECIFICATION Spec
CONSTANTS
    Person = {p1, p2}
    Lift = lift
    Nobody = nobody
    NumFloors = 3
    Trips <- AllTrips
    WeightCapacity = 3
    PersonCapacity = 2
    LongTimers = {"inOut", "idle", "travel"}
    SpuriousWakeups = FALSE
INVARIANT
    TravelsSomewhere
