---------------------------- MODULE AuctionServer ----------------------------
(***************************************************************************)
(* The auction server of HW1/main_server.cpp and its bidders.  Every       *)
(* bidder is a forked process at the other end of a socket pair; the       *)
(* server polls the sockets, reads at most one message of each per round   *)
(* and answers it, until every bidder has withdrawn; then it announces the *)
(* winner and reaps the bidders.                                           *)
(*                                                                         *)
(* The bidders are not part of the repository.  They are modelled from the *)
(* messages the server reads and writes: a bidder connects, waits for its  *)
(* id, places bids without having to wait for their results, withdraws     *)
(* with the status it means to exit with, and exits when it has read the   *)
(* end of the auction.  It may also die before that, without a word.       *)
(***************************************************************************)
EXTENDS Integers, Sequences, FiniteSets, SequencesExt

CONSTANTS
    NumOfBids,      \* the number of bidders (numOfBids)
    StartingBid, MinInc,
    Bids,           \* the amounts a bidder may bid
    MaxBids,        \* bound on the number of bids in an auction
    Statuses,       \* the exit codes of a bidder
    MayDie          \* may a bidder be killed by a signal?

Bidder == 1 .. NumOfBids

ASSUME AuctionAssumption ==
    /\ NumOfBids \in Nat \ {0}
    /\ StartingBid \in Nat /\ MinInc \in Nat
    /\ Bids \subseteq Nat
    /\ MaxBids \in Nat
    /\ Statuses \subseteq 0 .. 255
    /\ MayDie \in BOOLEAN

VARIABLES
    (* the server *)
    pc,             \* "poll", "serve", "reap" or "exit"
    ready,          \* sockets with revents set that this round has still to read
    current_bid, winner_id, winning_bid,
    pidCid,         \* the bidders in the order of their client ids
    pidStat,        \* the bidders that withdrew, with the status they sent
    reaped,         \* per reaped bidder, what print_client_finished is told
    history,        \* the bids in the order they were answered, with the answer
    (* the sockets *)
    toServer, toBidder,
    (* the bidders *)
    state,          \* "new", "connecting", "bidding", "withdrawn", "exited" or "dead"
    placed,         \* how many bids the bidder has placed
    inbox,          \* what the bidder has read so far
    code            \* the code the bidder exits with

auctionVars == <<current_bid, winner_id, winning_bid, history>>
tableVars   == <<pidCid, pidStat, reaped>>
bidderVars  == <<state, placed, inbox, code>>
vars == <<pc, ready, auctionVars, tableVars, toServer, toBidder, bidderVars>>

Init ==
    /\ pc = "poll"
    /\ ready = {}
    /\ current_bid = StartingBid
    /\ winner_id = 0
    /\ winning_bid = 0
    /\ pidCid = << >>
    /\ pidStat = << >>
    /\ reaped = << >>
    /\ history = << >>
    /\ toServer = [b \in Bidder |-> << >>]
    /\ toBidder = [b \in Bidder |-> << >>]
    /\ state = [b \in Bidder |-> "new"]
    /\ placed = [b \in Bidder |-> 0]
    /\ inbox = [b \in Bidder |-> << >>]
    /\ code \in [Bidder -> Statuses]

-----------------------------------------------------------------------------
(* The bidders *)

Send(b, m) == toServer' = [toServer EXCEPT ![b] = Append(@, m)]

serverVars == <<pc, ready, auctionVars, tableVars>>

Connect(b) ==
    /\ state[b] = "new"
    /\ state' = [state EXCEPT ![b] = "connecting"]
    /\ Send(b, [type |-> "CONNECT"])
    /\ UNCHANGED <<serverVars, toBidder, placed, inbox, code>>

PlaceBid(b) ==
    /\ state[b] = "bidding"
    /\ MapThenSumSet(LAMBDA c : placed[c], Bidder) < MaxBids
    /\ placed' = [placed EXCEPT ![b] = @ + 1]
    /\ \E v \in Bids : Send(b, [type |-> "BID", bid |-> v])
    /\ UNCHANGED <<serverVars, toBidder, state, inbox, code>>

Withdraw(b) ==
    /\ state[b] = "bidding"
    /\ state' = [state EXCEPT ![b] = "withdrawn"]
    /\ Send(b, [type |-> "FINISHED", status |-> code[b]])
    /\ UNCHANGED <<serverVars, toBidder, placed, inbox, code>>

\* The bidder reads the server's next message.
ReadAnswer(b) ==
    /\ toBidder[b] # << >>
    /\ state[b] \notin {"exited", "dead"}
    /\ LET m == Head(toBidder[b])
       IN  /\ inbox' = [inbox EXCEPT ![b] = Append(@, m)]
           /\ state' = [state EXCEPT ![b] =
                 IF m.type = "ESTABLISHED" THEN "bidding"
                 ELSE IF m.type = "AUCTION_FINISHED" THEN "exited"
                 ELSE @]
    /\ toBidder' = [toBidder EXCEPT ![b] = Tail(@)]
    /\ UNCHANGED <<serverVars, toServer, placed, code>>

\* The bidder is killed.  main keeps both ends of every socket pair open, so
\* the server is not told: poll and read never see the end of the file.
Die(b) ==
    /\ MayDie
    /\ state[b] \notin {"exited", "dead"}
    /\ state' = [state EXCEPT ![b] = "dead"]
    /\ UNCHANGED <<serverVars, toServer, toBidder, placed, inbox, code>>

BidderStep(b) == Connect(b) \/ PlaceBid(b) \/ Withdraw(b) \/ ReadAnswer(b) \/ Die(b)

-----------------------------------------------------------------------------
(* The server *)

\* Mutation: client ids that start at 1.
ClientIDFromOne(b) ==
    IF \E k \in DOMAIN pidCid : pidCid[k] = b
      THEN CHOOSE k \in DOMAIN pidCid : pidCid[k] = b
      ELSE 0

\* getClientID: 0 for a bidder that is not in the table.
ClientID(b) ==
    IF \E k \in DOMAIN pidCid : pidCid[k] = b
      THEN (CHOOSE k \in DOMAIN pidCid : pidCid[k] = b) - 1
      ELSE 0

Done == Len(pidStat)

\* Mutations: only the bidders that have connected are waited for; a last
\* bidder is waited for that does not exist.
ConnectedWithdrawn == Done = Len(pidCid)
MoreWithdrawn == Done > NumOfBids

AllWithdrawn == Done = NumOfBids

\* One call of poll marks every socket that has a message waiting.
Poll ==
    /\ pc = "poll"
    /\ ~ AllWithdrawn
    /\ ready' = {b \in Bidder : toServer[b] # << >>}
    /\ pc' = "serve"
    /\ UNCHANGED <<auctionVars, tableVars, toServer, toBidder, bidderVars>>

\* Mutation: the message stays in the socket.
PeeksAt(b, type) ==
    /\ pc = "serve"
    /\ b \in ready
    /\ \A c \in ready : b <= c
    /\ Head(toServer[b]).type = type
    /\ ready' = ready \ {b}
    /\ UNCHANGED <<pc, toServer, bidderVars>>

\* The round goes through the marked sockets in order and reads one message.
Reads(b, type) ==
    /\ pc = "serve"
    /\ b \in ready
    /\ \A c \in ready : b <= c
    /\ Head(toServer[b]).type = type
    /\ toServer' = [toServer EXCEPT ![b] = Tail(@)]
    /\ ready' = ready \ {b}
    /\ UNCHANGED <<pc, bidderVars>>

Reply(b, m) == toBidder' = [toBidder EXCEPT ![b] = Append(@, m)]

\* The messages of the server, as HW1/constructors.cpp fills them in.
Established(id, price)    == [type |-> "ESTABLISHED", client_id |-> id, current_bid |-> price]
BidResult(result, price)  == [type |-> "BID_RESULT", result |-> result, current_bid |-> price]
AuctionFinished(id, bid)  == [type |-> "AUCTION_FINISHED", winner_id |-> id, winning_bid |-> bid]

\* Mutation: cid is not incremented.
FirstID == 0

\* cid, the id the next bidder to connect gets.
NextID == Len(pidCid)

ServeConnect(b) ==
    /\ Reads(b, "CONNECT")
    /\ pidCid' = Append(pidCid, b)
    /\ Reply(b, Established(NextID, current_bid))
    /\ UNCHANGED <<auctionVars, pidStat, reaped>>

\* Mutations: the price of the moment is not looked at, or not far enough.
AnswerFromStart(v) ==
    IF v < StartingBid THEN "BID_LOWER_THAN_STARTING_BID" ELSE "BID_ACCEPTED"

AnswerAboveCurrent(v) ==
    IF v < StartingBid      THEN "BID_LOWER_THAN_STARTING_BID"
    ELSE IF v < current_bid THEN "BID_LOWER_THAN_CURRENT"
    ELSE "BID_ACCEPTED"

Answer(v) ==
    IF v < StartingBid               THEN "BID_LOWER_THAN_STARTING_BID"
    ELSE IF v < current_bid          THEN "BID_LOWER_THAN_CURRENT"
    ELSE IF v - current_bid < MinInc THEN "BID_INCREMENT_LOWER_THAN_MINIMUM"
    ELSE "BID_ACCEPTED"

ServeBid(b) ==
    /\ Reads(b, "BID")
    /\ LET v == Head(toServer[b]).bid
           answer == Answer(v)
       IN  /\ IF answer = "BID_ACCEPTED"
                THEN /\ current_bid' = v
                     /\ winner_id' = ClientID(b)
                     /\ winning_bid' = v
                ELSE UNCHANGED <<current_bid, winner_id, winning_bid>>
           /\ Reply(b, BidResult(answer, current_bid'))
           /\ history' = Append(history, [bidder |-> b, bid |-> v, result |-> answer])
    /\ UNCHANGED tableVars

ServeFinished(b) ==
    /\ Reads(b, "FINISHED")
    /\ pidStat' = Append(pidStat, [bidder |-> b, status |-> Head(toServer[b]).status])
    /\ UNCHANGED <<auctionVars, pidCid, reaped, toBidder>>

EndOfRound ==
    /\ pc = "serve"
    /\ ready = {}
    /\ pc' = "poll"
    /\ UNCHANGED <<ready, auctionVars, tableVars, toServer, toBidder, bidderVars>>

\* All bidders have withdrawn: the winner is announced to every one of them.
Announce ==
    /\ pc = "poll"
    /\ AllWithdrawn
    /\ toBidder' = [b \in Bidder |->
          Append(toBidder[b], AuctionFinished(winner_id, winning_bid))]
    /\ pc' = "reap"
    /\ UNCHANGED <<ready, auctionVars, tableVars, toServer, bidderVars>>

\* waitpid stores an exit code in the second byte of the status, and the
\* number of a signal that killed the process in the first (9 is SIGKILL).
WaitStatus(b) == IF state[b] = "dead" THEN 9 ELSE code[b] * 256

\* checkStat: does the status that was sent equal the one waitpid returned?
CheckStat(b, c) ==
    \E k \in DOMAIN pidStat : pidStat[k].bidder = b /\ pidStat[k].status = c

\* main waits for the bidders in the order they were forked.
Reap ==
    /\ pc = "reap"
    /\ LET b == Len(reaped) + 1
           c == WaitStatus(b)
       IN  /\ state[b] \in {"exited", "dead"}
           /\ reaped' = Append(reaped, [client_id |-> ClientID(b), status |-> c,
                                        match |-> CheckStat(b, c)])
    /\ pc' = IF Len(reaped') = NumOfBids THEN "exit" ELSE "reap"
    /\ UNCHANGED <<ready, auctionVars, pidCid, pidStat, toServer, toBidder, bidderVars>>

ServerStep ==
    \/ Poll \/ EndOfRound \/ Announce \/ Reap
    \/ \E b \in Bidder : ServeConnect(b) \/ ServeBid(b) \/ ServeFinished(b)

Exited == pc = "exit" /\ UNCHANGED vars

Next == ServerStep \/ (\E b \in Bidder : BidderStep(b)) \/ Exited

Spec == Init /\ [][Next]_vars

(***************************************************************************)
(* The server runs, and so does every bidder: it connects, reads what is   *)
(* sent to it, and at last withdraws.  It need not place any bid.          *)
(***************************************************************************)
FairSpec ==
    /\ Spec
    /\ WF_vars(ServerStep)
    /\ \A b \in Bidder :
         WF_vars(Connect(b)) /\ WF_vars(ReadAnswer(b)) /\ WF_vars(Withdraw(b))

-----------------------------------------------------------------------------
(* Properties *)

Request ==
    [type: {"CONNECT"}] \cup [type: {"BID"}, bid: Bids]
        \cup [type: {"FINISHED"}, status: Statuses]

Result == {"BID_LOWER_THAN_STARTING_BID", "BID_LOWER_THAN_CURRENT",
           "BID_INCREMENT_LOWER_THAN_MINIMUM", "BID_ACCEPTED"}

Price    == Bids \cup {StartingBid}
ClientId == 0 .. NumOfBids - 1

Response ==
    [type: {"ESTABLISHED"}, client_id: ClientId, current_bid: Price]
        \cup [type: {"BID_RESULT"}, result: Result, current_bid: Price]
        \cup [type: {"AUCTION_FINISHED"}, winner_id: ClientId, winning_bid: Bids \cup {0}]

\* The type of every variable; a client id is one of 0..NumOfBids-1, in the
\* server's tables and in what the bidders are told.
TypeOK ==
    /\ pc \in {"poll", "serve", "reap", "exit"}
    /\ ready \subseteq Bidder
    /\ current_bid \in Price
    /\ winner_id \in ClientId
    /\ winning_bid \in Bids \cup {0}
    /\ pidCid \in Seq(Bidder)
    /\ pidStat \in Seq([bidder: Bidder, status: Statuses])
    /\ reaped \in Seq([client_id: ClientId, status: Nat, match: BOOLEAN])
    /\ history \in Seq([bidder: Bidder, bid: Bids, result: Result])
    /\ toServer \in [Bidder -> Seq(Request)]
    /\ toBidder \in [Bidder -> Seq(Response)]
    /\ state \in [Bidder -> {"new", "connecting", "bidding", "withdrawn", "exited", "dead"}]
    /\ placed \in [Bidder -> Nat]
    /\ inbox \in [Bidder -> Seq(Response)]
    /\ code \in [Bidder -> Statuses]

Accepted == {n \in DOMAIN history : history[n].result = "BID_ACCEPTED"}

\* The price only rises: every accepted bid is at least MinInc above the
\* starting bid and above every bid accepted before it, in whatever order the
\* round reads the bids that were made against an older price.
AcceptedBidsRise ==
    \A n \in Accepted :
        /\ history[n].bid >= StartingBid + MinInc
        /\ \A m \in Accepted : m < n => history[n].bid >= history[m].bid + MinInc

\* The winner is the client that made the last accepted bid, and no accepted
\* bid is higher.
WinnerIsHighestBidder ==
    \A n \in Accepted :
        /\ history[n].bid <= winning_bid
        /\ current_bid = winning_bid
        /\ (\A m \in Accepted : m <= n) =>
              winner_id = ClientID(history[n].bidder) /\ winning_bid = history[n].bid

\* Every bidder that knows its client id has one of its own, and it is the id
\* the server's table has for it.
IdsAreUnique ==
    \A b, c \in Bidder :
        inbox[b] # << >> =>
            /\ inbox[b][1].type = "ESTABLISHED"
            /\ inbox[b][1].client_id = ClientID(b)
            /\ b # c /\ inbox[c] # << >> => inbox[c][1].client_id # inbox[b][1].client_id

Requests(q) == Cardinality({k \in DOMAIN q : q[k].type # "FINISHED"})
Answers(q)  == Cardinality({k \in DOMAIN q : q[k].type # "AUCTION_FINISHED"})

\* Every connect and every bid is answered exactly once: what a bidder asked
\* is still under way to the server, or its answer is under way or read.
OneAnswerEach ==
    \A b \in Bidder :
        LET connected == \/ state[b] \notin {"new", "dead"}
                         \/ (\E k \in DOMAIN pidCid : pidCid[k] = b) \/ toServer[b] # << >>
        IN  Requests(toServer[b]) + Answers(inbox[b] \o toBidder[b])
                = placed[b] + (IF connected THEN 1 ELSE 0)

\* Nobody is told that the auction is over before every bid has been answered,
\* and then nothing follows and all are told the same highest bidder.
EndIsFinal ==
    \A b \in Bidder :
        LET said == inbox[b] \o toBidder[b]
        IN  \A n \in DOMAIN said : said[n].type = "AUCTION_FINISHED" =>
                /\ n = Len(said)
                /\ \A c \in Bidder : toServer[c] = << >>
                /\ said[n].winner_id = winner_id /\ said[n].winning_bid = winning_bid

\* No bid waits forever, although a round reads one message of each socket.
BidsAreAnswered ==
    \A b \in Bidder : toServer[b] # << >> ~> toServer[b] = << >>

Withdrew(b) ==
    \/ \E k \in DOMAIN pidStat : pidStat[k].bidder = b
    \/ \E k \in DOMAIN toServer[b] : toServer[b][k].type = "FINISHED"

\* The auction ends, all bidders are reaped and the server exits, unless a
\* bidder is killed before it withdrew: the server never notices that.  To be
\* killed after it withdrew does no harm.
AuctionEnds == <>(pc = "exit" \/ \E b \in Bidder : state[b] = "dead" /\ ~ Withdrew(b))

\* "The starting bid is the minimum bid that can be placed on the item": a
\* first bid of that amount is not too low.
StartingBidIsAccepted ==
    history # << >> /\ history[1].bid = StartingBid => history[1].result = "BID_ACCEPTED"

\* "status_match is used to indicate whether the actual status of the bidder
\* matches the previously sent status": a bidder that exits with the code it
\* sent is reported as a match.
HonestStatusMatches ==
    \A b \in DOMAIN reaped :
        CheckStat(b, code[b]) => reaped[b].match
=============================================================================
