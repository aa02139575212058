SPECIFICATION Spec
CONSTANTS
    NumOfBids = 2
    StartingBid = 1
    MinInc = 2
    Bids = {3}
    MaxBids = 1
    MayDie = FALSE
    Statuses = {0, 1}
INVARIANT
    HonestStatusMatches
