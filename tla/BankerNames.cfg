SPECIFICATION Spec
CONSTANTS
    NoRequest = none
    NumOfProcess = 3
    NumOfResources = 2
    Inputs <- SmallFiles
    Amounts = {0, 1, 2}
    NameOrders <- AnyOrder
PROPERTY
    GrantsWhatIsNamed
