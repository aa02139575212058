SPECIFICATION FairSpec
CONSTANTS
    NoRequest = none
    NumOfProcess = 3
    NumOfResources = 2
    Inputs <- SmallFiles
    Amounts = {0, 1, 2}
    NameOrders <- InOrder
INVARIANTS
    TypeOK
    NeedIsMaxMinusAlloc
    UnitsAreConserved
    WorkIsReleased
    StaysSafe
PROPERTIES
    ImplementsService
    EveryRequestIsAnswered
