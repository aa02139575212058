SPECIFICATION FairSpec
CONSTANTS
    NumOfBids = 2
    StartingBid = 1
    MinInc = 2
    Bids <- SomeBids
    MaxBids = 2
    MayDie = TRUE
    Statuses = {0}
INVARIANTS
    TypeOK
    AcceptedBidsRise
    WinnerIsHighestBidder
    IdsAreUnique
    OneAnswerEach
    EndIsFinal
PROPERTIES
    BidsAreAnswered
    AuctionEnds
