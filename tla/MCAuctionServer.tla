--------------------------- MODULE MCAuctionServer ---------------------------
(***************************************************************************)
(* Small auctions.  With StartingBid 1, MinInc 2 and bids from 0 to 5 each *)
(* of the four answers occurs, also for bids made against an older price.  *)
(***************************************************************************)
EXTENDS AuctionServer

SomeBids == {0, 3, 5}
=============================================================================
