SPECIFICATION FairSpec
CONSTANTS
    Person = {p1, p2, p3}
    Lift = lift
    Nobody = nobody
    NumFloors = 3
    Trips <- LowAtExitTrips
    WeightCapacity = 3
    PersonCapacity = 2
    LongTimers = {"inOut", "idle", "travel"}
    SpuriousWakeups = FALSE
PROPERTY
    AllServed
