------------------------ MODULE AuctionServer_proofs ------------------------
(***************************************************************************)
(* Theorems about AuctionServer, for any number of bidders, any bids, any  *)
(* order of the messages, and bidders that may be killed at any moment.    *)
(***************************************************************************)
EXTENDS AuctionServer, FiniteSetTheorems, SequenceTheorems, TLAPS

\* Everything bidder b has been told, read or not; and its rows in the tables.
Said(b)         == inbox[b] \o toBidder[b]
Registered(b)   == \E k \in DOMAIN pidCid : pidCid[k] = b
HasWithdrawn(b) == \E k \in DOMAIN pidStat : pidStat[k].bidder = b

\* No bidder has two rows in a table, and one that withdrew is registered.
TablesInv ==
    /\ \A j, k \in DOMAIN pidCid : pidCid[j] = pidCid[k] => j = k
    /\ \A j, k \in DOMAIN pidStat : pidStat[j].bidder = pidStat[k].bidder => j = k
    /\ \A b \in Bidder : HasWithdrawn(b) => Registered(b)

\* A bidder connects once, says nothing else before it is registered, and
\* nothing more once it has withdrawn.
AskedInv(b) ==
    /\ state[b] = "new" => toServer[b] = << >> /\ ~ Registered(b)
    /\ \A k \in DOMAIN toServer[b] :
        /\ toServer[b][k].type = "CONNECT" => k = 1
        /\ toServer[b][k].type = "CONNECT" <=> ~ Registered(b)
        /\ toServer[b][k].type = "FINISHED" =>
              k = Len(toServer[b]) /\ state[b] \in {"withdrawn", "exited", "dead"}
    /\ HasWithdrawn(b) =>
          toServer[b] = << >> /\ state[b] \in {"withdrawn", "exited", "dead"}

\* It is told its client id first, and only once.
ToldInv(b) ==
    /\ Registered(b) <=> Said(b) # << >>
    /\ Said(b) # << >> =>
          Said(b)[1].type = "ESTABLISHED" /\ Said(b)[1].client_id = ClientID(b)
    /\ \A k \in DOMAIN Said(b) : Said(b)[k].type = "ESTABLISHED" => k = 1
    /\ state[b] \in {"new", "connecting"} => inbox[b] = << >>
    /\ state[b] \in {"bidding", "withdrawn", "exited"} => inbox[b] # << >>

\* The announcement is made when all have withdrawn, and nothing follows it.
EndInv(b) ==
    /\ pc \in {"reap", "exit"} => HasWithdrawn(b)
    /\ \A k \in DOMAIN Said(b) : Said(b)[k].type = "AUCTION_FINISHED" =>
        /\ pc \in {"reap", "exit"}
        /\ k = Len(Said(b))
        /\ Said(b)[k].winner_id = winner_id /\ Said(b)[k].winning_bid = winning_bid

\* A round reads sockets that have a message; main reaps each bidder once.
RoundInv ==
    /\ \A b \in ready : toServer[b] # << >>
    /\ pc \in {"poll", "serve"} => reaped = << >>
    /\ pc = "reap" => Len(reaped) < NumOfBids

BiddersInv == \A b \in Bidder : AskedInv(b) /\ ToldInv(b) /\ EndInv(b)

Inv == TypeOK /\ RoundInv /\ TablesInv /\ BiddersInv

-----------------------------------------------------------------------------
\* The tables.

LEMMA BidderFinite == IsFiniteSet(Bidder) /\ Cardinality(Bidder) = NumOfBids
  <1>1. NumOfBids \in Nat \ {0}
    BY AuctionAssumption
  <1> QED
    BY <1>1, FS_Interval, SMT DEF Bidder

\* A table without two rows for one bidder has room for all of them, and is
\* full only if it has every one.
LEMMA TableRows ==
    ASSUME NEW n \in Nat, NEW f \in [1 .. n -> Bidder],
           \A j, k \in 1 .. n : f[j] = f[k] => j = k
    PROVE  n <= NumOfBids /\ (n = NumOfBids => \A b \in Bidder : \E k \in 1 .. n : f[k] = b)
  <1>1. f \in Injection(1 .. n, Bidder)
    BY DEF Injection, IsInjective
  <1>2. Cardinality(1 .. n) = n
    BY FS_Interval, SMT
  <1>3. /\ Cardinality(1 .. n) <= Cardinality(Bidder)
        /\ Cardinality(1 .. n) = Cardinality(Bidder) => f \in Surjection(1 .. n, Bidder)
    BY <1>1, BidderFinite, FS_Injection
  <1> QED
    BY <1>2, <1>3, BidderFinite DEF Surjection

LEMMA RegisteredRows ==
    ASSUME TypeOK, TablesInv
    PROVE  /\ Len(pidCid) \in 0 .. NumOfBids
           /\ (\E b \in Bidder : ~ Registered(b)) => Len(pidCid) < NumOfBids
           /\ \A b : ClientID(b) \in ClientId
           /\ \A b : Registered(b) => ClientID(b) + 1 \in DOMAIN pidCid
                                    /\ pidCid[ClientID(b) + 1] = b
  <1> DEFINE n == Len(pidCid)
  <1>1. n \in Nat /\ DOMAIN pidCid = 1 .. n /\ pidCid \in [1 .. n -> Bidder]
    BY LenProperties DEF TypeOK
  <1>2. n <= NumOfBids /\ (n = NumOfBids => \A b \in Bidder : \E k \in 1 .. n : pidCid[k] = b)
    BY <1>1, TableRows DEF TablesInv
  <1>3. NumOfBids \in Nat \ {0}
    BY AuctionAssumption
  <1>4. (\E b \in Bidder : ~ Registered(b)) => n # NumOfBids
    BY <1>1, <1>2, Zenon DEF Registered
  <1>5. n \in 0 .. NumOfBids /\ (n # NumOfBids => n < NumOfBids)
    <2> HIDE DEF n
    <2> QED
      BY <1>1, <1>2, <1>3, SMT
  <1>6. ASSUME NEW b
        PROVE  /\ ClientID(b) \in ClientId
               /\ Registered(b) => ClientID(b) + 1 \in DOMAIN pidCid /\ pidCid[ClientID(b) + 1] = b
    <2>1. CASE Registered(b)
      <3> DEFINE k == CHOOSE k \in DOMAIN pidCid : pidCid[k] = b
      <3>1. k \in 1 .. n /\ pidCid[k] = b
        BY <1>1, <2>1 DEF Registered
      <3>2. ClientID(b) = k - 1
        BY <2>1 DEF Registered, ClientID
      <3> HIDE DEF k, n
      <3>3. k - 1 \in 0 .. NumOfBids - 1 /\ (k - 1) + 1 = k
        BY <1>1, <1>2, <1>3, <3>1, SMT
      <3> QED
        BY <1>1, <3>1, <3>2, <3>3 DEF ClientId
    <2>2. CASE ~ Registered(b)
      <3>1. ClientID(b) = 0
        BY <2>2 DEF Registered, ClientID
      <3> QED
        BY <1>3, <2>2, <3>1, SMT DEF ClientId
    <2> QED
      BY <2>1, <2>2
  <1> QED
    BY <1>4, <1>5, <1>6

LEMMA AllHaveWithdrawn ==
    ASSUME TypeOK, TablesInv, AllWithdrawn
    PROVE  \A b \in Bidder : HasWithdrawn(b)
  <1> DEFINE n == Len(pidStat)
             f == [k \in 1 .. n |-> pidStat[k].bidder]
  <1>1. n \in Nat /\ DOMAIN pidStat = 1 .. n
        /\ pidStat \in [1 .. n -> [bidder: Bidder, status: Statuses]]
    BY LenProperties DEF TypeOK
  <1>2. f \in [1 .. n -> Bidder]
    BY <1>1
  <1>3. \A j, k \in 1 .. n : f[j] = f[k] => j = k
    BY <1>1 DEF TablesInv
  <1>4. n = NumOfBids => \A b \in Bidder : \E k \in 1 .. n : f[k] = b
    <2> HIDE DEF f
    <2> QED
      BY <1>1, <1>2, <1>3, TableRows
  <1>5. n = NumOfBids
    BY DEF AllWithdrawn, Done
  <1> QED
    BY <1>1, <1>4, <1>5 DEF HasWithdrawn

-----------------------------------------------------------------------------
\* Sequences: what is read at one end was written at the other.

LEMMA ReadKeepsOrder ==
    ASSUME NEW S, NEW s \in Seq(S), NEW t \in Seq(S), t # << >>
    PROVE  Append(s, Head(t)) \o Tail(t) = s \o t
  <1>1. Head(t) \in S /\ Tail(t) \in Seq(S) /\ << Head(t) >> \in Seq(S)
    BY HeadTailProperties
  <1>2. Append(s, Head(t)) \o Tail(t) = s \o (<< Head(t) >> \o Tail(t))
    BY <1>1, AppendIsConcat, ConcatAssociative
  <1>3. << Head(t) >> \o Tail(t) = t
    BY SMT
  <1> QED
    BY <1>2, <1>3

LEMMA WriteKeepsOrder ==
    ASSUME NEW S, NEW s \in Seq(S), NEW t \in Seq(S), NEW m \in S
    PROVE  s \o Append(t, m) = Append(s \o t, m)
  <1>1. << m >> \in Seq(S) /\ s \o t \in Seq(S)
    BY ConcatProperties
  <1> QED
    BY <1>1, AppendIsConcat, ConcatAssociative

-----------------------------------------------------------------------------
\* Types.

\* The message a round reads.
LEMMA HeadRequest ==
    ASSUME TypeOK, RoundInv, NEW b \in ready
    PROVE  /\ b \in Bidder
           /\ toServer[b] \in Seq(Request) /\ toServer[b] # << >>
           /\ Head(toServer[b]) \in Request
           /\ Tail(toServer[b]) \in Seq(Request)
           /\ Head(toServer[b]).type = "BID" => Head(toServer[b]).bid \in Bids
           /\ Head(toServer[b]).type = "FINISHED" => Head(toServer[b]).status \in Statuses
  <1>1. b \in Bidder /\ toServer[b] \in Seq(Request) /\ toServer[b] # << >>
    BY DEF TypeOK, RoundInv
  <1>2. Head(toServer[b]) \in Request /\ Tail(toServer[b]) \in Seq(Request)
    BY <1>1, HeadTailProperties
  <1>3. \A m \in Request : /\ m.type = "BID" => m.bid \in Bids
                           /\ m.type = "FINISHED" => m.status \in Statuses
    BY SMT DEF Request
  <1> QED
    BY <1>1, <1>2, <1>3

LEMMA SendType ==
    ASSUME TypeOK, NEW b \in Bidder, NEW m \in Request, Send(b, m)
    PROVE  toServer' \in [Bidder -> Seq(Request)]
  <1>1. Append(toServer[b], m) \in Seq(Request)
    BY AppendProperties DEF TypeOK
  <1> QED
    BY <1>1 DEF TypeOK, Send

LEMMA ReplyType ==
    ASSUME TypeOK, NEW b \in Bidder, NEW m \in Response, Reply(b, m)
    PROVE  toBidder' \in [Bidder -> Seq(Response)]
  <1>1. Append(toBidder[b], m) \in Seq(Response)
    BY AppendProperties DEF TypeOK
  <1> QED
    BY <1>1 DEF TypeOK, Reply

LEMMA ReadsType ==
    ASSUME TypeOK, RoundInv, NEW b \in Bidder, NEW type, Reads(b, type)
    PROVE  /\ toServer' \in [Bidder -> Seq(Request)]
           /\ ready' \subseteq Bidder
           /\ UNCHANGED <<pc, bidderVars>>
  <1>1. b \in ready /\ toServer' = [toServer EXCEPT ![b] = Tail(@)]
        /\ ready' = ready \ {b} /\ UNCHANGED <<pc, bidderVars>>
    BY DEF Reads
  <1>2. Tail(toServer[b]) \in Seq(Request)
    BY <1>1, HeadRequest
  <1> QED
    BY <1>1, <1>2 DEF TypeOK

LEMMA BidderTypes ==
    ASSUME TypeOK, NEW b \in Bidder, BidderStep(b)
    PROVE  TypeOK'
  <1>1. CASE Connect(b)
    <2>1. [type |-> "CONNECT"] \in Request
      BY DEF Request
    <2>2. toServer' \in [Bidder -> Seq(Request)]
      BY <1>1, <2>1, SendType DEF Connect
    <2> QED
      BY <1>1, <2>2 DEF TypeOK, Connect, serverVars, auctionVars, tableVars
  <1>2. CASE PlaceBid(b)
    <2>1. PICK v \in Bids : Send(b, [type |-> "BID", bid |-> v])
      BY <1>2 DEF PlaceBid
    <2>2. [type |-> "BID", bid |-> v] \in Request
      BY DEF Request
    <2>3. toServer' \in [Bidder -> Seq(Request)]
      BY <2>1, <2>2, SendType
    <2>4. placed' \in [Bidder -> Nat]
      BY <1>2, SMT DEF TypeOK, PlaceBid
    <2> QED
      BY <1>2, <2>3, <2>4 DEF TypeOK, PlaceBid, serverVars, auctionVars, tableVars
  <1>3. CASE Withdraw(b)
    <2>1. [type |-> "FINISHED", status |-> code[b]] \in Request
      BY DEF Request, TypeOK
    <2>2. toServer' \in [Bidder -> Seq(Request)]
      BY <1>3, <2>1, SendType DEF Withdraw
    <2> QED
      BY <1>3, <2>2 DEF TypeOK, Withdraw, serverVars, auctionVars, tableVars
  <1>4. CASE ReadAnswer(b)
    <2> DEFINE m == Head(toBidder[b])
    <2>1. toBidder[b] \in Seq(Response) /\ toBidder[b] # << >> /\ inbox[b] \in Seq(Response)
      BY <1>4 DEF TypeOK, ReadAnswer
    <2>2. m \in Response /\ Tail(toBidder[b]) \in Seq(Response)
      BY <2>1, HeadTailProperties
    <2>3. Append(inbox[b], m) \in Seq(Response)
      BY <2>1, <2>2, AppendProperties
    <2>4. inbox' = [inbox EXCEPT ![b] = Append(@, m)] /\ toBidder' = [toBidder EXCEPT ![b] = Tail(@)]
      BY <1>4 DEF ReadAnswer
    <2>5. inbox' \in [Bidder -> Seq(Response)] /\ toBidder' \in [Bidder -> Seq(Response)]
      BY <2>2, <2>3, <2>4 DEF TypeOK
    <2>6. state' \in [Bidder -> {"new", "connecting", "bidding", "withdrawn", "exited", "dead"}]
      BY <1>4 DEF TypeOK, ReadAnswer
    <2> QED
      BY <1>4, <2>5, <2>6 DEF TypeOK, ReadAnswer, serverVars, auctionVars, tableVars
  <1>5. CASE Die(b)
    BY <1>5 DEF TypeOK, Die, serverVars, auctionVars, tableVars
  <1> QED
    BY <1>1, <1>2, <1>3, <1>4, <1>5 DEF BidderStep

\* The message of a registered bidder is not a connect, and the other way about.
LEMMA ReadsMessage ==
    ASSUME TypeOK, RoundInv, BiddersInv, NEW b \in Bidder, NEW type, Reads(b, type)
    PROVE  /\ b \in ready
           /\ 1 \in DOMAIN toServer[b]
           /\ toServer[b][1] = Head(toServer[b]) /\ toServer[b][1].type = type
           /\ type = "CONNECT" <=> ~ Registered(b)
           /\ ~ HasWithdrawn(b)
  <1>1. b \in ready /\ Head(toServer[b]).type = type
    BY DEF Reads
  <1>2. toServer[b] \in Seq(Request) /\ toServer[b] # << >>
    BY <1>1, HeadRequest
  <1>3. 1 \in DOMAIN toServer[b] /\ toServer[b][1] = Head(toServer[b])
    BY <1>2, SMT
  <1>4. AskedInv(b)
    BY DEF BiddersInv
  <1>5. type = "CONNECT" <=> ~ Registered(b)
    BY <1>1, <1>3, <1>4 DEF AskedInv
  <1>6. ~ HasWithdrawn(b)
    BY <1>2, <1>4 DEF AskedInv
  <1> QED
    BY <1>1, <1>3, <1>5, <1>6

LEMMA ServerTypes ==
    ASSUME TypeOK, RoundInv, TablesInv, BiddersInv, ServerStep
    PROVE  TypeOK'
  <1>0. NumOfBids \in Nat \ {0}
    BY AuctionAssumption
  <1>1. CASE Poll
    BY <1>1 DEF TypeOK, Poll, auctionVars, tableVars, bidderVars
  <1>2. CASE EndOfRound
    BY <1>2 DEF TypeOK, EndOfRound, auctionVars, tableVars, bidderVars
  <1>3. CASE Announce
    <2> DEFINE m == AuctionFinished(winner_id, winning_bid)
    <2>1. m \in Response
      BY DEF TypeOK, Response, AuctionFinished
    <2> HIDE DEF m
    <2>2. \A b \in Bidder : Append(toBidder[b], m) \in Seq(Response)
      BY <2>1, AppendProperties DEF TypeOK
    <2>3. toBidder' = [b \in Bidder |-> Append(toBidder[b], m)]
      BY <1>3 DEF Announce, m
    <2>4. toBidder' \in [Bidder -> Seq(Response)]
      BY <2>2, <2>3
    <2> QED
      BY <1>3, <2>4 DEF TypeOK, Announce, auctionVars, tableVars, bidderVars
  <1>4. CASE Reap
    <2> DEFINE b == Len(reaped) + 1
               c == WaitStatus(b)
               r == [client_id |-> ClientID(b), status |-> c, match |-> CheckStat(b, c)]
    <2>1. Len(reaped) \in Nat /\ Len(reaped) < NumOfBids
      BY <1>4, LenProperties DEF TypeOK, RoundInv, Reap
    <2>2. b \in Bidder
      BY <1>0, <2>1, SMT DEF Bidder
    <2>3. code[b] \in 0 .. 255
      BY <2>2, AuctionAssumption DEF TypeOK
    <2>4. c \in Nat
      <3>1. c = IF state[b] = "dead" THEN 9 ELSE code[b] * 256
        BY DEF WaitStatus
      <3> HIDE DEF b, c
      <3> QED
        BY <2>3, <3>1, SMT
    <2>5. ClientID(b) \in ClientId
      BY RegisteredRows
    <2>6. CheckStat(b, c) \in BOOLEAN
      BY DEF CheckStat
    <2>7. r \in [client_id: ClientId, status: Nat, match: BOOLEAN]
      <3> HIDE DEF b, c
      <3> QED
        BY <2>4, <2>5, <2>6
    <2>8. reaped' = Append(reaped, r)
      BY <1>4 DEF Reap
    <2>9. reaped' \in Seq([client_id: ClientId, status: Nat, match: BOOLEAN])
      <3> HIDE DEF r
      <3> QED
        BY <2>7, <2>8, AppendProperties DEF TypeOK
    <2>10. pc' \in {"exit", "reap"}
      BY <1>4 DEF Reap
    <2> QED
      BY <1>4, <2>9, <2>10 DEF TypeOK, Reap, auctionVars, bidderVars
  <1>5. ASSUME NEW b \in Bidder, ServeConnect(b)
        PROVE  TypeOK'
    <2> DEFINE m == Established(NextID, current_bid)
    <2>1. Reads(b, "CONNECT")
      BY <1>5 DEF ServeConnect
    <2>2. ~ Registered(b)
      BY <2>1, ReadsMessage
    <2>3. Len(pidCid) \in 0 .. NumOfBids /\ Len(pidCid) < NumOfBids
      BY <2>2, RegisteredRows
    <2>4. NextID \in ClientId
      BY <1>0, <2>3, SMT DEF NextID, ClientId
    <2>5. m \in Response
      BY <2>4 DEF TypeOK, Response, Established
    <2>6. toBidder' \in [Bidder -> Seq(Response)]
      BY <1>5, <2>5, ReplyType DEF ServeConnect
    <2>7. toServer' \in [Bidder -> Seq(Request)] /\ ready' \subseteq Bidder
          /\ UNCHANGED <<pc, bidderVars>>
      BY <2>1, ReadsType
    <2>8. pidCid' \in Seq(Bidder)
      BY <1>5, AppendProperties DEF TypeOK, ServeConnect
    <2> QED
      BY <1>5, <2>6, <2>7, <2>8 DEF TypeOK, ServeConnect, auctionVars, bidderVars
  <1>6. ASSUME NEW b \in Bidder, ServeBid(b)
        PROVE  TypeOK'
    <2> DEFINE v == Head(toServer[b]).bid
               answer == Answer(v)
               m == BidResult(answer, current_bid')
               h == [bidder |-> b, bid |-> v, result |-> answer]
    <2>1. Reads(b, "BID") /\ b \in ready /\ Head(toServer[b]).type = "BID"
      BY <1>6 DEF ServeBid, Reads
    <2>2. v \in Bids
      BY <2>1, HeadRequest
    <2>3. answer \in Result
      BY DEF Answer, Result
    <2>4. ClientID(b) \in ClientId
      BY RegisteredRows
    <2>5. current_bid' \in Price /\ winner_id' \in ClientId /\ winning_bid' \in Bids \cup {0}
      <3>1. CASE answer = "BID_ACCEPTED"
        BY <1>6, <2>2, <2>4, <3>1 DEF ServeBid, Price
      <3>2. CASE answer # "BID_ACCEPTED"
        BY <1>6, <3>2 DEF ServeBid, TypeOK
      <3> QED
        BY <3>1, <3>2
    <2>6. m \in Response /\ h \in [bidder: Bidder, bid: Bids, result: Result]
      <3> HIDE DEF v, answer
      <3> QED
        BY <2>2, <2>3, <2>5 DEF Response, BidResult
    <2>7. Reply(b, m) /\ history' = Append(history, h)
      BY <1>6 DEF ServeBid
    <2>8. toBidder' \in [Bidder -> Seq(Response)]
          /\ history' \in Seq([bidder: Bidder, bid: Bids, result: Result])
      <3> HIDE DEF m, h
      <3> QED
        BY <2>6, <2>7, ReplyType, AppendProperties DEF TypeOK
    <2>9. toServer' \in [Bidder -> Seq(Request)] /\ ready' \subseteq Bidder
          /\ UNCHANGED <<pc, bidderVars>>
      BY <2>1, ReadsType
    <2>10. UNCHANGED tableVars
      BY <1>6 DEF ServeBid
    <2> HIDE DEF v, answer, m, h
    <2> QED
      BY <2>5, <2>8, <2>9, <2>10 DEF TypeOK, tableVars, bidderVars
  <1>7. ASSUME NEW b \in Bidder, ServeFinished(b)
        PROVE  TypeOK'
    <2> DEFINE r == [bidder |-> b, status |-> Head(toServer[b]).status]
    <2>1. Reads(b, "FINISHED") /\ b \in ready /\ Head(toServer[b]).type = "FINISHED"
      BY <1>7 DEF ServeFinished, Reads
    <2>2. r \in [bidder: Bidder, status: Statuses]
      BY <2>1, HeadRequest
    <2>3. pidStat' = Append(pidStat, r)
      BY <1>7 DEF ServeFinished
    <2>4. pidStat' \in Seq([bidder: Bidder, status: Statuses])
      <3> HIDE DEF r
      <3> QED
        BY <2>2, <2>3, AppendProperties DEF TypeOK
    <2>5. toServer' \in [Bidder -> Seq(Request)] /\ ready' \subseteq Bidder
          /\ UNCHANGED <<pc, bidderVars>>
      BY <2>1, ReadsType
    <2> QED
      BY <1>7, <2>4, <2>5 DEF TypeOK, ServeFinished, auctionVars, bidderVars
  <1> QED
    BY <1>1, <1>2, <1>3, <1>4, <1>5, <1>6, <1>7 DEF ServerStep

LEMMA TypeStep ==
    ASSUME Inv, [Next]_vars
    PROVE  TypeOK'
  <1>1. CASE UNCHANGED vars
    BY <1>1 DEF Inv, TypeOK, vars, auctionVars, tableVars, bidderVars
  <1>2. CASE ServerStep
    BY <1>2, ServerTypes DEF Inv
  <1>3. ASSUME NEW b \in Bidder, BidderStep(b)
        PROVE  TypeOK'
    BY <1>3, BidderTypes DEF Inv
  <1> QED
    BY <1>1, <1>2, <1>3 DEF Next, Exited

-----------------------------------------------------------------------------
\* The round and the tables.

LEMMA RoundStep ==
    ASSUME Inv, [Next]_vars
    PROVE  RoundInv'
  <1> USE DEF Inv
  <1>0. NumOfBids \in Nat \ {0}
    BY AuctionAssumption
  <1>1. CASE UNCHANGED vars
    BY <1>1 DEF RoundInv, vars, tableVars
  <1>2. ASSUME NEW b \in Bidder, BidderStep(b)
        PROVE  RoundInv'
    <2>1. UNCHANGED <<pc, ready, reaped>>
      BY <1>2 DEF BidderStep, Connect, PlaceBid, Withdraw, ReadAnswer, Die, serverVars, tableVars
    <2>2. ASSUME NEW c \in ready
          PROVE  toServer'[c] # << >>
      <3>1. c \in Bidder /\ toServer[c] \in Seq(Request) /\ toServer[c] # << >>
        BY HeadRequest
      <3>2. CASE UNCHANGED toServer
        BY <3>1, <3>2
      <3>3. ASSUME NEW m, Send(b, m)
            PROVE  toServer'[c] # << >>
        <4>1. Append(toServer[c], m) # << >>
          BY <3>1, SMT
        <4> QED
          BY <3>1, <3>3, <4>1 DEF Send, TypeOK
      <3> QED
        BY <1>2, <3>2, <3>3 DEF BidderStep, Connect, PlaceBid, Withdraw, ReadAnswer, Die
    <2> QED
      BY <2>1, <2>2 DEF RoundInv
  <1>3. CASE Poll
    BY <1>3 DEF RoundInv, Poll, tableVars
  <1>4. CASE EndOfRound
    BY <1>4 DEF RoundInv, EndOfRound, tableVars
  <1>5. CASE Announce
    <2>1. reaped = << >> /\ reaped' = << >> /\ pc' = "reap" /\ UNCHANGED <<ready, toServer>>
      BY <1>5 DEF RoundInv, Announce, tableVars
    <2>2. Len(reaped') < NumOfBids
      BY <1>0, <2>1, SMT
    <2> QED
      BY <2>1, <2>2 DEF RoundInv
  <1>6. CASE Reap
    <2>1. UNCHANGED <<ready, toServer>> /\ pc' \in {"reap", "exit"}
      BY <1>6 DEF Reap
    <2>2. PICK r : reaped' = Append(reaped, r)
      BY <1>6 DEF Reap
    <2>3. Len(reaped) \in Nat /\ Len(reaped) < NumOfBids /\ Len(reaped') = Len(reaped) + 1
      <3>1. reaped \in Seq([client_id: ClientId, status: Nat, match: BOOLEAN])
        BY DEF TypeOK
      <3>2. Len(reaped) \in Nat /\ Len(Append(reaped, r)) = Len(reaped) + 1
        BY <3>1, SMT
      <3> QED
        BY <1>6, <2>2, <3>2 DEF RoundInv, Reap
    <2>4. pc' = "reap" => Len(reaped') # NumOfBids
      BY <1>6 DEF Reap
    <2>5. pc' = "reap" => Len(reaped') < NumOfBids
      BY <1>0, <2>3, <2>4, SMT
    <2> QED
      BY <2>1, <2>5 DEF RoundInv
  <1>7. ASSUME NEW b \in Bidder, ServeConnect(b) \/ ServeBid(b) \/ ServeFinished(b)
        PROVE  RoundInv'
    <2>1. PICK type : Reads(b, type)
      BY <1>7 DEF ServeConnect, ServeBid, ServeFinished
    <2>2. /\ pc = "serve" /\ UNCHANGED pc
          /\ ready' = ready \ {b} /\ toServer' = [toServer EXCEPT ![b] = Tail(@)]
      BY <2>1 DEF Reads
    <2>3. reaped' = reaped
      BY <1>7 DEF ServeConnect, ServeBid, ServeFinished, tableVars
    <2>4. \A c \in ready' : toServer'[c] # << >>
      BY <2>2 DEF RoundInv, TypeOK
    <2> QED
      BY <2>2, <2>3, <2>4 DEF RoundInv
  <1> QED
    BY <1>1, <1>2, <1>3, <1>4, <1>5, <1>6, <1>7 DEF Next, Exited, ServerStep

\* A row is only ever added at the end of a table.
LEMMA RowAdded ==
    ASSUME NEW S, NEW s \in Seq(S), NEW m \in S
    PROVE  /\ Len(s) \in Nat
           /\ DOMAIN s = 1 .. Len(s) /\ DOMAIN Append(s, m) = 1 .. Len(s) + 1
           /\ \A k \in DOMAIN s : k \in DOMAIN Append(s, m) /\ Append(s, m)[k] = s[k]
           /\ Len(s) + 1 \in DOMAIN Append(s, m) /\ Append(s, m)[Len(s) + 1] = m
           /\ \A k \in DOMAIN Append(s, m) : k \in DOMAIN s \/ k = Len(s) + 1
  <1>1. Append(s, m) \in Seq(S) /\ Len(Append(s, m)) = Len(s) + 1
        /\ \A k \in 1 .. Len(s) : Append(s, m)[k] = s[k]
        /\ Append(s, m)[Len(s) + 1] = m
    BY AppendProperties
  <1>2. Len(s) \in Nat /\ DOMAIN s = 1 .. Len(s)
    BY LenProperties
  <1>3. DOMAIN Append(s, m) = 1 .. Len(s) + 1
    BY <1>1, LenProperties
  <1> DEFINE n == Len(s)
  <1>4. /\ \A k \in 1 .. n : k \in 1 .. n + 1
        /\ n + 1 \in 1 .. n + 1
        /\ \A k \in 1 .. n + 1 : k \in 1 .. n \/ k = n + 1
    <2> HIDE DEF n
    <2>1. n \in Nat
      BY <1>2 DEF n
    <2> QED
      BY <2>1, SMT
  <1> QED
    BY <1>1, <1>2, <1>3, <1>4

\* Connect registers the bidder and nobody else; who was registered keeps its id.
LEMMA ConnectRegisters ==
    ASSUME Inv, NEW b \in Bidder, ServeConnect(b)
    PROVE  /\ ~ Registered(b) /\ Registered(b)'
           /\ ClientID(b)' = Len(pidCid)
           /\ \A c \in Bidder : c # b => (Registered(c)' <=> Registered(c))
           /\ \A c \in Bidder : Registered(c) => ClientID(c)' = ClientID(c)
           /\ \A j, k \in DOMAIN pidCid' : pidCid'[j] = pidCid'[k] => j = k
  <1> USE DEF Inv
  <1> DEFINE n == Len(pidCid)
  <1>1. ~ Registered(b)
    BY ReadsMessage DEF ServeConnect
  <1>2. pidCid' = Append(pidCid, b) /\ pidCid \in Seq(Bidder)
    BY DEF ServeConnect, TypeOK
  <1>3. /\ n \in Nat
        /\ \A k \in DOMAIN pidCid : k \in DOMAIN pidCid' /\ pidCid'[k] = pidCid[k]
        /\ n + 1 \in DOMAIN pidCid' /\ pidCid'[n + 1] = b
        /\ \A k \in DOMAIN pidCid' : k \in DOMAIN pidCid \/ k = n + 1
    BY <1>2, RowAdded
  <1>4. \A k \in DOMAIN pidCid : pidCid[k] # b
    BY <1>1 DEF Registered
  <1>5. \A j, k \in DOMAIN pidCid : pidCid[j] = pidCid[k] => j = k
    BY DEF TablesInv
  <1> HIDE DEF n
  <1>6. \A j, k \in DOMAIN pidCid' : pidCid'[j] = pidCid'[k] => j = k
    BY <1>3, <1>4, <1>5
  <1>7. Registered(b)' /\ \A c \in Bidder : c # b => (Registered(c)' <=> Registered(c))
    BY <1>3 DEF Registered
  <1>8. ClientID(b)' = n
    <2>1. \A k \in DOMAIN pidCid' : pidCid'[k] = b <=> k = n + 1
      BY <1>3, <1>4
    <2>2. (CHOOSE k \in DOMAIN pidCid' : pidCid'[k] = b) = n + 1
      BY <1>3, <2>1
    <2>3. ClientID(b)' = (n + 1) - 1
      BY <1>3, <2>2 DEF ClientID
    <2> QED
      BY <1>3, <2>3, SMT
  <1>9. ASSUME NEW c \in Bidder, Registered(c)
        PROVE  ClientID(c)' = ClientID(c)
    <2>1. PICK k \in DOMAIN pidCid : pidCid[k] = c
      BY <1>9 DEF Registered
    <2>2. \A j \in DOMAIN pidCid : pidCid[j] = c <=> j = k
      BY <1>5, <2>1
    <2>3. k \in DOMAIN pidCid' /\ \A j \in DOMAIN pidCid' : pidCid'[j] = c <=> j = k
      BY <1>3, <1>4, <2>1, <2>2
    <2>4. ClientID(c) = k - 1
      <3>1. (CHOOSE j \in DOMAIN pidCid : pidCid[j] = c) = k
        BY <2>1, <2>2
      <3> QED
        BY <2>1, <3>1 DEF ClientID
    <2>5. ClientID(c)' = k - 1
      <3>1. (CHOOSE j \in DOMAIN pidCid' : pidCid'[j] = c) = k
        BY <2>3
      <3> QED
        BY <2>3, <3>1 DEF ClientID
    <2> QED
      BY <2>4, <2>5
  <1> QED
    BY <1>1, <1>6, <1>7, <1>8, <1>9 DEF n

\* A withdrawal adds the bidder's row to the other table.
LEMMA FinishedWithdraws ==
    ASSUME Inv, NEW b \in Bidder, ServeFinished(b)
    PROVE  /\ Registered(b) /\ HasWithdrawn(b)'
           /\ \A c \in Bidder : c # b => (HasWithdrawn(c)' <=> HasWithdrawn(c))
           /\ \A j, k \in DOMAIN pidStat' : pidStat'[j].bidder = pidStat'[k].bidder => j = k
  <1> USE DEF Inv
  <1> DEFINE n == Len(pidStat)
             r == [bidder |-> b, status |-> Head(toServer[b]).status]
  <1>1. Registered(b) /\ ~ HasWithdrawn(b)
    BY ReadsMessage DEF ServeFinished
  <1>2. pidStat' = Append(pidStat, r) /\ pidStat \in Seq([bidder: Bidder, status: Statuses])
    BY DEF ServeFinished, TypeOK
  <1>3. r \in [bidder: Bidder, status: Statuses] /\ r.bidder = b
    <2>1. b \in ready /\ Head(toServer[b]).type = "FINISHED"
      BY DEF ServeFinished, Reads
    <2> QED
      BY <2>1, HeadRequest
  <1> HIDE DEF r
  <1>4. /\ n \in Nat
        /\ \A k \in DOMAIN pidStat : k \in DOMAIN pidStat' /\ pidStat'[k] = pidStat[k]
        /\ n + 1 \in DOMAIN pidStat' /\ pidStat'[n + 1] = r
        /\ \A k \in DOMAIN pidStat' : k \in DOMAIN pidStat \/ k = n + 1
    BY <1>2, <1>3, RowAdded
  <1>5. \A k \in DOMAIN pidStat : pidStat[k].bidder # b
    BY <1>1 DEF HasWithdrawn
  <1>6. \A j, k \in DOMAIN pidStat : pidStat[j].bidder = pidStat[k].bidder => j = k
    BY DEF TablesInv
  <1> HIDE DEF n
  <1>7. \A j, k \in DOMAIN pidStat' : pidStat'[j].bidder = pidStat'[k].bidder => j = k
    BY <1>3, <1>4, <1>5, <1>6
  <1>8. HasWithdrawn(b)'
    BY <1>3, <1>4 DEF HasWithdrawn
  <1>9. ASSUME NEW c \in Bidder, c # b
        PROVE  HasWithdrawn(c)' <=> HasWithdrawn(c)
    BY <1>3, <1>4, <1>9 DEF HasWithdrawn
  <1> QED
    BY <1>1, <1>7, <1>8, <1>9

\* No other step touches the tables.
LEMMA TablesUnchanged ==
    ASSUME [Next]_vars,
           \A b \in Bidder : ~ ServeConnect(b) /\ ~ ServeFinished(b)
    PROVE  UNCHANGED <<pidCid, pidStat>>
  <1>1. CASE UNCHANGED vars
    BY <1>1 DEF vars, tableVars
  <1>2. CASE Poll \/ EndOfRound \/ Announce \/ Reap
    BY <1>2 DEF Poll, EndOfRound, Announce, Reap, tableVars
  <1>3. ASSUME NEW b \in Bidder, ServeBid(b)
        PROVE  UNCHANGED <<pidCid, pidStat>>
    BY <1>3 DEF ServeBid, tableVars
  <1>4. ASSUME NEW b \in Bidder, BidderStep(b)
        PROVE  UNCHANGED <<pidCid, pidStat>>
    BY <1>4 DEF BidderStep, Connect, PlaceBid, Withdraw, ReadAnswer, Die, serverVars, tableVars
  <1> QED
    BY <1>1, <1>2, <1>3, <1>4 DEF Next, Exited, ServerStep

LEMMA TablesStep ==
    ASSUME Inv, [Next]_vars
    PROVE  TablesInv'
  <1>1. ASSUME NEW b \in Bidder, ServeConnect(b)
        PROVE  TablesInv'
    <2>1. pidStat' = pidStat
      BY <1>1 DEF ServeConnect
    <2>2. \A c \in Bidder : HasWithdrawn(c)' => HasWithdrawn(c)
      BY <2>1 DEF HasWithdrawn
    <2>3. \A c \in Bidder : Registered(c) => Registered(c)'
      BY <1>1, ConnectRegisters
    <2> QED
      BY <1>1, <2>1, <2>2, <2>3, ConnectRegisters DEF Inv, TablesInv
  <1>2. ASSUME NEW b \in Bidder, ServeFinished(b)
        PROVE  TablesInv'
    <2>1. pidCid' = pidCid
      BY <1>2 DEF ServeFinished
    <2>2. \A c \in Bidder : Registered(c)' <=> Registered(c)
      BY <2>1 DEF Registered
    <2>3. \A c \in Bidder : HasWithdrawn(c)' => HasWithdrawn(c) \/ c = b
      BY <1>2, FinishedWithdraws
    <2> QED
      BY <1>2, <2>1, <2>2, <2>3, FinishedWithdraws DEF Inv, TablesInv
  <1>3. CASE UNCHANGED <<pidCid, pidStat>>
    BY <1>3 DEF Inv, TablesInv, Registered, HasWithdrawn
  <1> QED
    BY <1>1, <1>2, <1>3, TablesUnchanged

-----------------------------------------------------------------------------
\* What the bidders ask.

Gone == {"withdrawn", "exited", "dead"}

LEMMA TailRows ==
    ASSUME NEW S, NEW q \in Seq(S), q # << >>
    PROVE  /\ Len(q) \in Nat /\ DOMAIN q = 1 .. Len(q)
           /\ 1 \in DOMAIN q /\ Head(q) = q[1]
           /\ \A k \in DOMAIN Tail(q) : /\ Tail(q)[k] = q[k + 1] /\ k + 1 \in DOMAIN q /\ k + 1 # 1
                                        /\ k + 1 = Len(q) => k = Len(Tail(q))
           /\ Len(q) = 1 => Tail(q) = << >>
  <1> DEFINE n == Len(q)
  <1>1. n \in Nat \ {0} /\ DOMAIN q = 1 .. n /\ Head(q) = q[1]
    BY EmptySeq, LenProperties, SMT
  <1>2. Tail(q) \in Seq(S) /\ Len(Tail(q)) = n - 1 /\ \A i \in 1 .. Len(Tail(q)) : Tail(q)[i] = q[i + 1]
    BY HeadTailProperties
  <1>3. DOMAIN Tail(q) = 1 .. n - 1
    BY <1>2, LenProperties
  <1>4. n = 1 => Tail(q) = << >>
    <2> DEFINE l == Len(Tail(q))
    <2>1. Tail(q) # << >> => l \in Nat \ {0}
      BY <1>2, EmptySeq
    <2>2. l = n - 1
      BY <1>2
    <2> HIDE DEF l, n
    <2>3. n = 1 => l = 0
      BY <2>2, SMT
    <2> QED
      BY <2>1, <2>3
  <1> HIDE DEF n
  <1>5. 1 \in 1 .. n /\ \A k \in 1 .. n - 1 : k + 1 \in 1 .. n /\ k + 1 # 1 /\ (k + 1 = n => k = n - 1)
    BY <1>1, SMT
  <1>6. \A k \in DOMAIN Tail(q) : Tail(q)[k] = q[k + 1] /\ k + 1 \in DOMAIN q /\ k + 1 # 1
                                  /\ (k + 1 = n => k = Len(Tail(q)))
    BY <1>1, <1>2, <1>3, <1>5
  <1> QED
    BY <1>1, <1>4, <1>5, <1>6 DEF n

LEMMA BidderFacts ==
    ASSUME Inv, NEW b \in Bidder
    PROVE  /\ toServer[b] \in Seq(Request) /\ toBidder[b] \in Seq(Response)
           /\ inbox[b] \in Seq(Response) /\ Said(b) \in Seq(Response)
           /\ AskedInv(b) /\ ToldInv(b) /\ EndInv(b)
           /\ HasWithdrawn(b) => Registered(b)
  <1>1. toServer[b] \in Seq(Request) /\ toBidder[b] \in Seq(Response) /\ inbox[b] \in Seq(Response)
    BY DEF Inv, TypeOK
  <1>2. Said(b) \in Seq(Response)
    BY <1>1, ConcatProperties DEF Said
  <1> QED
    BY <1>1, <1>2 DEF Inv, BiddersInv, TablesInv

\* A bidder that takes no part in a step keeps its invariant.
LEMMA AskedFrame ==
    ASSUME NEW b \in Bidder, AskedInv(b),
           state'[b] = "new" => state[b] = "new",
           state[b] \in Gone => state'[b] \in Gone,
           toServer'[b] = toServer[b],
           Registered(b)' <=> Registered(b),
           HasWithdrawn(b)' <=> HasWithdrawn(b)
    PROVE  AskedInv(b)'
  BY DEF AskedInv, Gone

LEMMA AskedConnect ==
    ASSUME Inv, NEW b \in Bidder, Connect(b)
    PROVE  AskedInv(b)'
  <1> DEFINE m == [type |-> "CONNECT"]
  <1>1. toServer[b] = << >> /\ ~ Registered(b) /\ ~ HasWithdrawn(b)
    BY BidderFacts DEF Connect, AskedInv
  <1>2. toServer'[b] = Append(<< >>, m)
    BY <1>1 DEF Connect, Send, Inv, TypeOK
  <1>3. toServer'[b] = << m >>
    BY <1>2, SMT
  <1>4. \A k \in DOMAIN toServer'[b] : k = 1 /\ toServer'[b][k].type = "CONNECT"
    BY <1>3, SMT
  <1>5. ~ Registered(b)' /\ ~ HasWithdrawn(b)'
    BY <1>1 DEF Connect, serverVars, tableVars, Registered, HasWithdrawn
  <1>6. state'[b] = "connecting"
    BY DEF Connect, Inv, TypeOK
  <1> QED
    BY <1>4, <1>5, <1>6 DEF AskedInv

\* While it bids, a bidder is registered and has not said that it withdraws.
LEMMA BiddingFacts ==
    ASSUME Inv, NEW b \in Bidder, state[b] = "bidding"
    PROVE  /\ Registered(b) /\ ~ HasWithdrawn(b)
           /\ \A k \in DOMAIN toServer[b] : toServer[b][k].type \notin {"CONNECT", "FINISHED"}
  <1>1. inbox[b] # << >>
    BY BidderFacts DEF ToldInv
  <1>2. Said(b) # << >>
    BY <1>1, BidderFacts, ConcatEqualIffEmpty DEF Said
  <1> QED
    BY <1>2, BidderFacts DEF AskedInv, ToldInv

\* A bid, or the withdrawal, goes to the end of the queue.
LEMMA AskedSend ==
    ASSUME Inv, NEW b \in Bidder, state[b] = "bidding", state'[b] # "new",
           NEW m \in Request, Send(b, m), m.type # "CONNECT",
           m.type = "FINISHED" => state'[b] \in Gone,
           UNCHANGED <<pidCid, pidStat>>
    PROVE  AskedInv(b)'
  <1> DEFINE n == Len(toServer[b])
  <1>1. toServer'[b] = Append(toServer[b], m)
    BY DEF Send, Inv, TypeOK
  <1>2. toServer[b] \in Seq(Request)
    BY BidderFacts
  <1>3. /\ \A k \in DOMAIN toServer[b] : toServer'[b][k] = toServer[b][k]
        /\ toServer'[b][n + 1] = m
        /\ \A k \in DOMAIN toServer'[b] : k \in DOMAIN toServer[b] \/ k = n + 1
    BY <1>1, <1>2, RowAdded
  <1>4. Len(toServer'[b]) = n + 1
    BY <1>1, <1>2, AppendProperties
  <1>5. Registered(b)' /\ ~ HasWithdrawn(b)'
    BY BiddingFacts DEF Registered, HasWithdrawn
  <1> HIDE DEF n
  <1>6. \A k \in DOMAIN toServer'[b] :
            /\ toServer'[b][k].type # "CONNECT"
            /\ toServer'[b][k].type = "FINISHED" => k = n + 1 /\ m.type = "FINISHED"
    BY <1>3, BiddingFacts
  <1> QED
    BY <1>4, <1>5, <1>6 DEF AskedInv, Gone

\* The first message leaves the queue.
LEMMA AskedServed ==
    ASSUME Inv, NEW b \in Bidder, NEW type, Reads(b, type),
           Registered(b)',
           HasWithdrawn(b)' <=> type = "FINISHED"
    PROVE  AskedInv(b)'
  <1> DEFINE q == toServer[b]
             n == Len(q)
  <1>1. 1 \in DOMAIN q /\ q[1] = Head(q) /\ q[1].type = type /\ (type = "CONNECT" <=> ~ Registered(b))
    BY ReadsMessage DEF Inv
  <1>2. q \in Seq(Request) /\ q # << >>
    BY ReadsMessage, HeadRequest DEF Inv
  <1>3. toServer'[b] = Tail(q) /\ state'[b] = state[b]
    BY DEF Reads, bidderVars, Inv, TypeOK
  <1>4. /\ \A k \in DOMAIN Tail(q) : /\ Tail(q)[k] = q[k + 1] /\ k + 1 \in DOMAIN q /\ k + 1 # 1
                                     /\ k + 1 = n => k = Len(Tail(q))
        /\ n = 1 => Tail(q) = << >>
        /\ DOMAIN q = 1 .. n
    BY <1>2, TailRows
  <1>5. /\ state[b] # "new"
        /\ \A k \in DOMAIN q :
             /\ q[k].type = "CONNECT" => k = 1
             /\ q[k].type = "CONNECT" <=> ~ Registered(b)
             /\ q[k].type = "FINISHED" => k = n /\ state[b] \in Gone
    BY <1>2, BidderFacts DEF AskedInv, Gone
  <1> HIDE DEF q, n
  <1>6. \A k \in DOMAIN Tail(q) :
             /\ Tail(q)[k].type # "CONNECT"
             /\ Tail(q)[k].type = "FINISHED" => k = Len(Tail(q)) /\ state[b] \in Gone
    BY <1>4, <1>5
  <1>7. type = "FINISHED" => Tail(q) = << >> /\ state[b] \in Gone
    BY <1>1, <1>4, <1>5
  <1> QED
    BY <1>3, <1>5, <1>6, <1>7 DEF AskedInv, Gone

\* What the bidder reads: first its client id, and the id only once.
LEMMA ReadFacts ==
    ASSUME Inv, NEW b \in Bidder, ReadAnswer(b)
    PROVE  /\ Said(b)' = Said(b)
           /\ inbox'[b] # << >>
           /\ state'[b] \notin {"new", "connecting"}
           /\ state[b] \in Gone => state'[b] \in Gone
  <1> DEFINE m == Head(toBidder[b])
             n == Len(inbox[b])
  <1>1. /\ toBidder[b] \in Seq(Response) /\ toBidder[b] # << >>
        /\ inbox[b] \in Seq(Response) /\ Said(b) \in Seq(Response)
    BY BidderFacts DEF ReadAnswer
  <1>2. /\ inbox'[b] = Append(inbox[b], m) /\ toBidder'[b] = Tail(toBidder[b])
        /\ state[b] # "dead" /\ state[b] # "exited"
        /\ state'[b] = IF m.type = "ESTABLISHED" THEN "bidding"
                       ELSE IF m.type = "AUCTION_FINISHED" THEN "exited"
                       ELSE state[b]
    BY DEF ReadAnswer, Inv, TypeOK
  <1>3. Said(b)' = Said(b)
    BY <1>1, <1>2, ReadKeepsOrder DEF Said
  <1>4. n \in Nat /\ Said(b)[n + 1] = m /\ n + 1 \in DOMAIN Said(b) /\ (n = 0 <=> inbox[b] = << >>)
    <2> DEFINE l == Len(toBidder[b])
    <2>1. n \in Nat /\ l \in Nat \ {0} /\ (n = 0 <=> inbox[b] = << >>)
      BY <1>1, EmptySeq, LenProperties
    <2>2. /\ Len(Said(b)) = n + l
          /\ \A i \in 1 .. n + l : Said(b)[i] = IF i <= n THEN inbox[b][i] ELSE toBidder[b][i - n]
      BY <1>1, ConcatProperties DEF Said
    <2>3. DOMAIN Said(b) = 1 .. n + l
      BY <1>1, <2>2, LenProperties
    <2>4. m = toBidder[b][1]
      BY <1>1, TailRows
    <2> HIDE DEF n, l, m
    <2>5. n + 1 \in 1 .. n + l /\ ~ (n + 1 <= n) /\ (n + 1) - n = 1
      BY <2>1, SMT
    <2>6. Said(b)[n + 1] = toBidder[b][1]
      BY <2>2, <2>5
    <2> QED
      BY <2>1, <2>3, <2>4, <2>5, <2>6
  <1> HIDE DEF m, n
  <1>5. n + 1 = 1 <=> n = 0
    BY <1>4, SMT
  <1>6. Said(b) # << >>
    BY <1>4, EmptySeq, SMT
  <1>7. Registered(b) /\ Said(b)[1].type = "ESTABLISHED"
        /\ (m.type = "ESTABLISHED" => n + 1 = 1)
    BY <1>4, <1>6, BidderFacts DEF ToldInv
  <1>8. m.type = "ESTABLISHED" <=> inbox[b] = << >>
    BY <1>4, <1>5, <1>7
  <1>9. state[b] # "new"
    BY <1>7, BidderFacts DEF AskedInv
  <1>10. inbox[b] = << >> => state[b] \notin Gone
    BY <1>2, BidderFacts DEF ToldInv, Gone
  <1>11. inbox[b] # << >> => state[b] # "connecting"
    BY BidderFacts DEF ToldInv
  <1>12. inbox'[b] # << >>
    BY <1>1, <1>2, SMT
  <1> QED
    BY <1>2, <1>3, <1>8, <1>9, <1>10, <1>11, <1>12 DEF Gone

\* The server takes the table's rows from what is asked and answered.
LEMMA AskedStep ==
    ASSUME Inv, [Next]_vars, NEW c \in Bidder
    PROVE  AskedInv(c)'
  <1>0. AskedInv(c)
    BY BidderFacts
  <1>1. CASE UNCHANGED <<state, toServer, pidCid, pidStat>>
    <2>1. Registered(c)' <=> Registered(c)
      BY <1>1 DEF Registered
    <2>2. HasWithdrawn(c)' <=> HasWithdrawn(c)
      BY <1>1 DEF HasWithdrawn
    <2> QED
      BY <1>0, <1>1, <2>1, <2>2, AskedFrame
  <1>2. ASSUME NEW b \in Bidder, BidderStep(b)
        PROVE  AskedInv(c)'
    <2>0. UNCHANGED <<pidCid, pidStat>>
      BY <1>2 DEF BidderStep, Connect, PlaceBid, Withdraw, ReadAnswer, Die, serverVars, tableVars
    <2>1. Registered(c)' <=> Registered(c)
      BY <2>0 DEF Registered
    <2>2. HasWithdrawn(c)' <=> HasWithdrawn(c)
      BY <2>0 DEF HasWithdrawn
    <2>3. CASE c # b
      <3>1. state'[c] = state[c] /\ toServer'[c] = toServer[c]
        BY <1>2, <2>3 DEF BidderStep, Connect, PlaceBid, Withdraw, ReadAnswer, Die, Send, Inv, TypeOK
      <3> QED
        BY <1>0, <2>1, <2>2, <3>1, AskedFrame
    <2>4. CASE c = b /\ Connect(b)
      BY <2>4, AskedConnect
    <2>5. CASE c = b /\ PlaceBid(b)
      <3>1. PICK v \in Bids : Send(b, [type |-> "BID", bid |-> v])
        BY <2>5 DEF PlaceBid
      <3>2. [type |-> "BID", bid |-> v] \in Request
        BY DEF Request
      <3>3. state[b] = "bidding" /\ state'[b] # "new"
        BY <2>5 DEF PlaceBid
      <3> QED
        BY <2>0, <2>5, <3>1, <3>2, <3>3, AskedSend
    <2>6. CASE c = b /\ Withdraw(b)
      <3>1. [type |-> "FINISHED", status |-> code[b]] \in Request
        BY DEF Request, Inv, TypeOK
      <3>2. state[b] = "bidding" /\ state'[b] = "withdrawn"
            /\ Send(b, [type |-> "FINISHED", status |-> code[b]])
        BY <2>6 DEF Withdraw, Inv, TypeOK
      <3>3. state'[b] \in Gone /\ state'[b] # "new"
        BY <3>2 DEF Gone
      <3> QED
        BY <2>0, <2>6, <3>1, <3>2, <3>3, AskedSend
    <2>7. CASE c = b /\ ReadAnswer(b)
      <3>1. toServer' = toServer
        BY <2>7 DEF ReadAnswer
      <3>2. state'[b] # "new" /\ (state[b] \in Gone => state'[b] \in Gone)
        BY <2>7, ReadFacts
      <3> QED
        BY <1>0, <2>1, <2>2, <2>7, <3>1, <3>2, AskedFrame
    <2>8. CASE c = b /\ Die(b)
      <3>1. toServer' = toServer /\ state'[b] = "dead"
        BY <2>8 DEF Die, Inv, TypeOK
      <3> QED
        BY <1>0, <2>1, <2>2, <2>8, <3>1, AskedFrame DEF Gone
    <2> QED
      BY <1>2, <2>3, <2>4, <2>5, <2>6, <2>7, <2>8 DEF BidderStep
  <1>3. ASSUME NEW b \in Bidder, NEW type, Reads(b, type), c # b,
               Registered(c)' <=> Registered(c), HasWithdrawn(c)' <=> HasWithdrawn(c)
        PROVE  AskedInv(c)'
    <2>1. state' = state /\ toServer'[c] = toServer[c]
      BY <1>3 DEF Reads, bidderVars, Inv, TypeOK
    <2> QED
      BY <1>0, <1>3, <2>1, AskedFrame
  <1>4. ASSUME NEW b \in Bidder, ServeConnect(b)
        PROVE  AskedInv(c)'
    <2>1. Reads(b, "CONNECT") /\ pidStat' = pidStat
      BY <1>4 DEF ServeConnect
    <2>2. HasWithdrawn(c)' <=> HasWithdrawn(c)
      BY <2>1 DEF HasWithdrawn
    <2>3. c # b => (Registered(c)' <=> Registered(c))
      BY <1>4, ConnectRegisters
    <2>4. c = b => Registered(c)' /\ ~ HasWithdrawn(c)
      BY <1>4, <2>1, ConnectRegisters, ReadsMessage DEF Inv
    <2> QED
      BY <1>3, <2>1, <2>2, <2>3, <2>4, AskedServed
  <1>5. ASSUME NEW b \in Bidder, ServeBid(b)
        PROVE  AskedInv(c)'
    <2>1. Reads(b, "BID") /\ UNCHANGED <<pidCid, pidStat>>
      BY <1>5 DEF ServeBid, tableVars
    <2>2. HasWithdrawn(c)' <=> HasWithdrawn(c)
      BY <2>1 DEF HasWithdrawn
    <2>3. Registered(c)' <=> Registered(c)
      BY <2>1 DEF Registered
    <2>4. c = b => Registered(c) /\ ~ HasWithdrawn(c)
      BY <2>1, ReadsMessage DEF Inv
    <2> QED
      BY <1>3, <2>1, <2>2, <2>3, <2>4, AskedServed
  <1>6. ASSUME NEW b \in Bidder, ServeFinished(b)
        PROVE  AskedInv(c)'
    <2>1. Reads(b, "FINISHED") /\ pidCid' = pidCid
      BY <1>6 DEF ServeFinished
    <2>2. Registered(c)' <=> Registered(c)
      BY <2>1 DEF Registered
    <2>3. c # b => (HasWithdrawn(c)' <=> HasWithdrawn(c))
      BY <1>6, FinishedWithdraws
    <2>4. c = b => Registered(c) /\ HasWithdrawn(c)'
      BY <1>6, FinishedWithdraws
    <2> QED
      BY <1>3, <2>1, <2>2, <2>3, <2>4, AskedServed
  <1>7. CASE UNCHANGED vars
    BY <1>1, <1>7 DEF vars, tableVars, bidderVars
  <1>8. CASE Poll \/ EndOfRound \/ Announce \/ Reap
    BY <1>1, <1>8 DEF Poll, EndOfRound, Announce, Reap, tableVars, bidderVars
  <1> QED
    BY <1>2, <1>4, <1>5, <1>6, <1>7, <1>8 DEF Next, Exited, ServerStep

-----------------------------------------------------------------------------
\* What the bidders are told.

LEMMA ToldFrame ==
    ASSUME NEW b \in Bidder, ToldInv(b),
           Said(b)' = Said(b),
           Registered(b)' <=> Registered(b),
           Registered(b) => ClientID(b)' = ClientID(b),
           state'[b] \in {"new", "connecting"} => inbox'[b] = << >>,
           state'[b] \in {"bidding", "withdrawn", "exited"} => inbox'[b] # << >>
    PROVE  ToldInv(b)'
  BY DEF ToldInv

\* A message is sent after everything that has been said.
LEMMA SaidAppend ==
    ASSUME Inv, NEW b \in Bidder, NEW m \in Response,
           toBidder'[b] = Append(toBidder[b], m), inbox'[b] = inbox[b]
    PROVE  /\ Said(b)' = Append(Said(b), m)
           /\ Len(Said(b)') = Len(Said(b)) + 1
           /\ Len(Said(b)) + 1 \in DOMAIN Said(b)' /\ Said(b)'[Len(Said(b)) + 1] = m
           /\ \A k \in DOMAIN Said(b) : k \in DOMAIN Said(b)' /\ Said(b)'[k] = Said(b)[k]
           /\ \A k \in DOMAIN Said(b)' : k \in DOMAIN Said(b) \/ k = Len(Said(b)) + 1
  <1>1. toBidder[b] \in Seq(Response) /\ inbox[b] \in Seq(Response) /\ Said(b) \in Seq(Response)
    BY BidderFacts
  <1>2. Said(b)' = Append(Said(b), m)
    <2> DEFINE s == inbox[b]
               t == toBidder[b]
    <2>1. s \o Append(t, m) = Append(s \o t, m)
      <3>1. s \in Seq(Response) /\ t \in Seq(Response)
        BY <1>1
      <3> HIDE DEF s, t
      <3> QED
        BY <3>1, WriteKeepsOrder
    <2>2. Said(b)' = inbox[b] \o Append(toBidder[b], m)
      BY DEF Said
    <2> QED
      BY <2>1, <2>2 DEF Said
  <1>3. Len(Said(b)') = Len(Said(b)) + 1
    BY <1>1, <1>2, AppendProperties
  <1> QED
    BY <1>1, <1>2, <1>3, RowAdded

\* The answer to a connect is the first message.
LEMMA ToldFirst ==
    ASSUME Inv, NEW b \in Bidder, ServeConnect(b)
    PROVE  ToldInv(b)'
  <1> DEFINE m == Established(NextID, current_bid)
  <1>1. ~ Registered(b) /\ Registered(b)' /\ ClientID(b)' = Len(pidCid)
    BY ConnectRegisters
  <1>2. Said(b) = << >> /\ inbox[b] = << >>
    <2>1. Said(b) = << >>
      BY <1>1, BidderFacts DEF ToldInv
    <2> QED
      BY <2>1, BidderFacts, ConcatEqualIffEmpty DEF Said
  <1>3. Len(pidCid) \in 0 .. NumOfBids /\ Len(pidCid) < NumOfBids
    BY <1>1, RegisteredRows DEF Inv
  <1>4. NextID \in ClientId
    BY <1>3, AuctionAssumption, SMT DEF NextID, ClientId
  <1>5. m \in Response /\ m.type = "ESTABLISHED" /\ m.client_id = Len(pidCid)
    BY <1>4 DEF Inv, TypeOK, Response, Established, NextID
  <1>6. toBidder'[b] = Append(toBidder[b], m)
    BY DEF ServeConnect, Reply, Inv, TypeOK
  <1>7. inbox' = inbox /\ state' = state
    BY DEF ServeConnect, Reads, bidderVars
  <1> HIDE DEF m
  <1>8. Said(b)' = Append(<< >>, m)
    BY <1>2, <1>5, <1>6, <1>7, SaidAppend, ZenonT(60)
  <1>9. Said(b)' = << m >>
    BY <1>8, SMT
  <1>10. Said(b)' # << >> /\ Said(b)'[1] = m /\ \A k \in DOMAIN Said(b)' : k = 1
    BY <1>9, SMT
  <1>11. state[b] \notin {"bidding", "withdrawn", "exited"}
    BY <1>2, BidderFacts DEF ToldInv
  <1> QED
    BY <1>1, <1>2, <1>5, <1>7, <1>10, <1>11 DEF ToldInv

\* Any other message of the server follows it.
LEMMA ToldMore ==
    ASSUME Inv, NEW b \in Bidder, NEW m \in Response,
           toBidder'[b] = Append(toBidder[b], m), UNCHANGED <<inbox, state, pidCid>>,
           Registered(b), m.type # "ESTABLISHED"
    PROVE  ToldInv(b)'
  <1> DEFINE n == Len(Said(b))
  <1>1. /\ n + 1 \in DOMAIN Said(b)' /\ Said(b)'[n + 1] = m
        /\ \A k \in DOMAIN Said(b) : k \in DOMAIN Said(b)' /\ Said(b)'[k] = Said(b)[k]
        /\ \A k \in DOMAIN Said(b)' : k \in DOMAIN Said(b) \/ k = n + 1
    BY SaidAppend
  <1>2. Said(b)' # << >>
    BY BidderFacts, SaidAppend, AppendProperties
  <1>3. ToldInv(b) /\ Said(b) \in Seq(Response) /\ Said(b) # << >>
    BY BidderFacts DEF ToldInv
  <1>4. 1 \in DOMAIN Said(b)
    BY <1>3, TailRows
  <1>5. Registered(b)' /\ ClientID(b)' = ClientID(b)
    BY DEF Registered, ClientID
  <1> HIDE DEF n
  <1>6. /\ Said(b)'[1] = Said(b)[1]
        /\ \A k \in DOMAIN Said(b)' : Said(b)'[k].type = "ESTABLISHED" => k = 1
    BY <1>1, <1>3, <1>4 DEF ToldInv
  <1> QED
    BY <1>2, <1>3, <1>5, <1>6 DEF ToldInv

LEMMA ToldStep ==
    ASSUME Inv, [Next]_vars, NEW c \in Bidder
    PROVE  ToldInv(c)'
  <1>0. ToldInv(c)
    BY BidderFacts
  <1>1. CASE UNCHANGED <<inbox, toBidder, state, pidCid>>
    <2>1. Said(c)' = Said(c) /\ (Registered(c)' <=> Registered(c)) /\ ClientID(c)' = ClientID(c)
      BY <1>1 DEF Said, Registered, ClientID
    <2>2. /\ state'[c] \in {"new", "connecting"} => inbox'[c] = << >>
          /\ state'[c] \in {"bidding", "withdrawn", "exited"} => inbox'[c] # << >>
      BY <1>0, <1>1 DEF ToldInv
    <2> QED
      BY <1>0, <2>1, <2>2, ToldFrame
  <1>2. ASSUME NEW b \in Bidder, BidderStep(b)
        PROVE  ToldInv(c)'
    <2>0. UNCHANGED pidCid
      BY <1>2 DEF BidderStep, Connect, PlaceBid, Withdraw, ReadAnswer, Die, serverVars, tableVars
    <2>1. (Registered(c)' <=> Registered(c)) /\ ClientID(c)' = ClientID(c)
      BY <2>0 DEF Registered, ClientID
    <2>2. CASE c # b
      <3>1. state'[c] = state[c] /\ toBidder'[c] = toBidder[c] /\ inbox'[c] = inbox[c]
        BY <1>2, <2>2 DEF BidderStep, Connect, PlaceBid, Withdraw, ReadAnswer, Die, Inv, TypeOK
      <3>2. Said(c)' = Said(c)
        BY <3>1 DEF Said
      <3>3. /\ state'[c] \in {"new", "connecting"} => inbox'[c] = << >>
            /\ state'[c] \in {"bidding", "withdrawn", "exited"} => inbox'[c] # << >>
        BY <1>0, <3>1 DEF ToldInv
      <3> QED
        BY <1>0, <2>1, <3>2, <3>3, ToldFrame
    <2>3. CASE c = b /\ ReadAnswer(b)
      <3>1. Said(c)' = Said(c) /\ inbox'[c] # << >> /\ state'[c] \notin {"new", "connecting"}
        BY <2>3, ReadFacts
      <3> QED
        BY <1>0, <2>1, <3>1, ToldFrame
    <2>4. CASE c = b /\ (Connect(b) \/ PlaceBid(b) \/ Withdraw(b) \/ Die(b))
      <3>1. UNCHANGED <<toBidder, inbox>>
        BY <2>4 DEF Connect, PlaceBid, Withdraw, Die
      <3>2. Said(c)' = Said(c)
        BY <3>1 DEF Said
      <3>3. /\ state'[c] \in {"new", "connecting"} => state[c] \in {"new", "connecting"}
            /\ state'[c] \in {"bidding", "withdrawn", "exited"} => state[c] = "bidding"
        BY <2>4 DEF Connect, PlaceBid, Withdraw, Die, Inv, TypeOK
      <3>4. /\ state'[c] \in {"new", "connecting"} => inbox'[c] = << >>
            /\ state'[c] \in {"bidding", "withdrawn", "exited"} => inbox'[c] # << >>
        BY <1>0, <3>1, <3>3 DEF ToldInv
      <3> QED
        BY <1>0, <2>1, <3>2, <3>4, ToldFrame
    <2> QED
      BY <1>2, <2>2, <2>3, <2>4 DEF BidderStep
  <1>3. ASSUME NEW b \in Bidder, ServeConnect(b)
        PROVE  ToldInv(c)'
    <2>1. CASE c = b
      BY <1>3, <2>1, ToldFirst
    <2>2. CASE c # b
      <3>1. inbox' = inbox /\ state' = state /\ toBidder'[c] = toBidder[c]
        BY <1>3, <2>2 DEF ServeConnect, Reads, Reply, bidderVars, Inv, TypeOK
      <3>2. Said(c)' = Said(c)
        BY <3>1 DEF Said
      <3>3. (Registered(c)' <=> Registered(c)) /\ (Registered(c) => ClientID(c)' = ClientID(c))
        BY <1>3, <2>2, ConnectRegisters
      <3>4. /\ state'[c] \in {"new", "connecting"} => inbox'[c] = << >>
            /\ state'[c] \in {"bidding", "withdrawn", "exited"} => inbox'[c] # << >>
        BY <1>0, <3>1 DEF ToldInv
      <3> QED
        BY <1>0, <3>2, <3>3, <3>4, ToldFrame
    <2> QED
      BY <2>1, <2>2
  <1>4. ASSUME NEW b \in Bidder, ServeBid(b)
        PROVE  ToldInv(c)'
    <2> DEFINE answer == Answer(Head(toServer[b]).bid)
               m == BidResult(answer, current_bid')
    <2>1. Reads(b, "BID") /\ UNCHANGED <<inbox, state, pidCid>>
      BY <1>4 DEF ServeBid, Reads, tableVars, bidderVars
    <2>2. Reply(b, m)
      BY <1>4 DEF ServeBid
    <2>3. CASE c # b
      <3>1. toBidder'[c] = toBidder[c]
        BY <2>2, <2>3 DEF Reply, Inv, TypeOK
      <3>2. Said(c)' = Said(c) /\ (Registered(c)' <=> Registered(c)) /\ ClientID(c)' = ClientID(c)
        BY <2>1, <3>1 DEF Said, Registered, ClientID
      <3>3. /\ state'[c] \in {"new", "connecting"} => inbox'[c] = << >>
            /\ state'[c] \in {"bidding", "withdrawn", "exited"} => inbox'[c] # << >>
        BY <1>0, <2>1 DEF ToldInv
      <3> QED
        BY <1>0, <3>2, <3>3, ToldFrame
    <2>4. CASE c = b
      <3>1. Registered(b)
        BY <2>1, ReadsMessage DEF Inv
      <3>2. answer \in Result
        BY DEF Answer, Result
      <3>3. current_bid' \in Price
        BY TypeStep DEF TypeOK
      <3>4. m \in Response /\ m.type # "ESTABLISHED"
        <4> HIDE DEF answer
        <4> QED
          BY <3>2, <3>3 DEF Response, BidResult
      <3>5. toBidder'[b] = Append(toBidder[b], m)
        BY <2>2 DEF Reply, Inv, TypeOK
      <3> HIDE DEF m
      <3> QED
        BY <2>1, <2>4, <3>1, <3>4, <3>5, ToldMore
    <2> QED
      BY <2>3, <2>4
  <1>5. CASE Announce
    <2> DEFINE m == AuctionFinished(winner_id, winning_bid)
    <2>1. m \in Response /\ m.type # "ESTABLISHED"
      BY DEF Inv, TypeOK, Response, AuctionFinished
    <2>2. toBidder'[c] = Append(toBidder[c], m) /\ UNCHANGED <<inbox, state, pidCid>>
      BY <1>5 DEF Announce, tableVars, bidderVars
    <2>3. Registered(c)
      BY <1>5, AllHaveWithdrawn, BidderFacts DEF Announce, Inv
    <2> HIDE DEF m
    <2> QED
      BY <2>1, <2>2, <2>3, ToldMore
  <1>6. CASE UNCHANGED vars
    BY <1>1, <1>6 DEF vars, tableVars, bidderVars
  <1>7. CASE Poll \/ EndOfRound \/ Reap
    BY <1>1, <1>7 DEF Poll, EndOfRound, Reap, tableVars, bidderVars
  <1>8. ASSUME NEW b \in Bidder, ServeFinished(b)
        PROVE  ToldInv(c)'
    BY <1>1, <1>8 DEF ServeFinished, Reads, bidderVars
  <1> QED
    BY <1>2, <1>3, <1>4, <1>5, <1>6, <1>7, <1>8 DEF Next, Exited, ServerStep

-----------------------------------------------------------------------------
\* The end.

Closed == {"reap", "exit"}

LEMMA EndFrame ==
    ASSUME NEW b \in Bidder, EndInv(b),
           Said(b)' = Said(b),
           pc' \in Closed => HasWithdrawn(b)',
           pc \in Closed => pc' \in Closed /\ UNCHANGED <<winner_id, winning_bid>>
    PROVE  EndInv(b)'
  BY DEF EndInv, Closed

\* As long as it is not announced, nothing said is the announcement; and what
\* is said next is the last thing said.
LEMMA EndAppend ==
    ASSUME Inv, NEW b \in Bidder, NEW m \in Response,
           toBidder'[b] = Append(toBidder[b], m), inbox'[b] = inbox[b],
           pc \notin Closed,
           pc' \in Closed => HasWithdrawn(b)',
           m.type = "AUCTION_FINISHED" =>
               pc' \in Closed /\ m.winner_id = winner_id' /\ m.winning_bid = winning_bid'
    PROVE  EndInv(b)'
  <1> DEFINE n == Len(Said(b))
  <1>1. /\ Len(Said(b)') = n + 1
        /\ Said(b)'[n + 1] = m
        /\ \A k \in DOMAIN Said(b) : Said(b)'[k] = Said(b)[k]
        /\ \A k \in DOMAIN Said(b)' : k \in DOMAIN Said(b) \/ k = n + 1
    BY SaidAppend
  <1>2. \A k \in DOMAIN Said(b) : Said(b)[k].type # "AUCTION_FINISHED"
    BY BidderFacts DEF EndInv, Closed
  <1> HIDE DEF n
  <1>3. \A k \in DOMAIN Said(b)' : Said(b)'[k].type = "AUCTION_FINISHED" =>
            k = n + 1 /\ Said(b)'[k] = m
    BY <1>1, <1>2
  <1> QED
    BY <1>1, <1>3 DEF EndInv, Closed

LEMMA EndStep ==
    ASSUME Inv, [Next]_vars, NEW c \in Bidder
    PROVE  EndInv(c)'
  <1>0. EndInv(c)
    BY BidderFacts
  <1>1. CASE /\ UNCHANGED <<inbox, toBidder, pidStat, winner_id, winning_bid>>
             /\ pc' \in Closed <=> pc \in Closed
    <2>1. Said(c)' = Said(c) /\ (HasWithdrawn(c)' <=> HasWithdrawn(c))
      BY <1>1 DEF Said, HasWithdrawn
    <2> QED
      BY <1>0, <1>1, <2>1, EndFrame DEF EndInv, Closed
  <1>2. ASSUME NEW b \in Bidder, BidderStep(b)
        PROVE  EndInv(c)'
    <2>1. UNCHANGED <<pc, pidStat, winner_id, winning_bid>>
      BY <1>2 DEF BidderStep, Connect, PlaceBid, Withdraw, ReadAnswer, Die, serverVars, tableVars, auctionVars
    <2>2. CASE UNCHANGED <<inbox, toBidder>>
      BY <1>1, <2>1, <2>2
    <2>3. CASE ReadAnswer(b)
      <3>1. Said(c)' = Said(c)
        <4>1. CASE c = b
          BY <2>3, <4>1, ReadFacts
        <4>2. CASE c # b
          BY <2>3, <4>2 DEF ReadAnswer, Said, Inv, TypeOK
        <4> QED
          BY <4>1, <4>2
      <3>2. HasWithdrawn(c)' <=> HasWithdrawn(c)
        BY <2>1 DEF HasWithdrawn
      <3> QED
        BY <1>0, <2>1, <3>1, <3>2, EndFrame DEF EndInv, Closed
    <2> QED
      BY <1>2, <2>2, <2>3 DEF BidderStep, Connect, PlaceBid, Withdraw, Die
  <1>3. ASSUME NEW b \in Bidder, NEW type, Reads(b, type), NEW m \in Response, Reply(b, m),
               m.type # "AUCTION_FINISHED"
        PROVE  EndInv(c)'
    <2>1. pc = "serve" /\ pc' = "serve" /\ inbox' = inbox
      BY <1>3 DEF Reads, bidderVars
    <2>2. CASE c # b
      <3>1. Said(c)' = Said(c)
        BY <1>3, <2>1, <2>2 DEF Reply, Said, Inv, TypeOK
      <3> QED
        BY <1>0, <2>1, <3>1, EndFrame DEF Closed
    <2>3. CASE c = b
      <3>1. toBidder'[b] = Append(toBidder[b], m)
        BY <1>3 DEF Reply, Inv, TypeOK
      <3> QED
        BY <1>3, <2>1, <2>3, <3>1, EndAppend DEF Closed
    <2> QED
      BY <2>2, <2>3
  <1>4. ASSUME NEW b \in Bidder, ServeConnect(b)
        PROVE  EndInv(c)'
    <2> DEFINE m == Established(NextID, current_bid)
    <2>1. Len(pidCid) \in 0 .. NumOfBids /\ Len(pidCid) < NumOfBids
      BY <1>4, ConnectRegisters, RegisteredRows DEF Inv
    <2>2. NextID \in ClientId
      BY <2>1, AuctionAssumption, SMT DEF NextID, ClientId
    <2>3. m \in Response /\ m.type # "AUCTION_FINISHED"
      BY <2>2 DEF Inv, TypeOK, Response, Established
    <2>4. Reads(b, "CONNECT") /\ Reply(b, m)
      BY <1>4 DEF ServeConnect
    <2> HIDE DEF m
    <2> QED
      BY <1>3, <2>3, <2>4
  <1>5. ASSUME NEW b \in Bidder, ServeBid(b)
        PROVE  EndInv(c)'
    <2> DEFINE answer == Answer(Head(toServer[b]).bid)
               m == BidResult(answer, current_bid')
    <2>1. Reads(b, "BID") /\ Reply(b, m)
      BY <1>5 DEF ServeBid
    <2>2. answer \in Result
      BY DEF Answer, Result
    <2>3. current_bid' \in Price
      BY TypeStep DEF TypeOK
    <2>4. m \in Response /\ m.type # "AUCTION_FINISHED"
      <3> HIDE DEF answer
      <3> QED
        BY <2>2, <2>3 DEF Response, BidResult
    <2> HIDE DEF m
    <2> QED
      BY <1>3, <2>1, <2>4
  <1>6. ASSUME NEW b \in Bidder, ServeFinished(b)
        PROVE  EndInv(c)'
    <2>1. pc = "serve" /\ pc' = "serve" /\ UNCHANGED <<inbox, toBidder>>
      BY <1>6 DEF ServeFinished, Reads, bidderVars
    <2>2. Said(c)' = Said(c)
      BY <2>1 DEF Said
    <2> QED
      BY <1>0, <2>1, <2>2, EndFrame DEF Closed
  <1>7. CASE Announce
    <2> DEFINE m == AuctionFinished(winner_id, winning_bid)
    <2>1. m \in Response /\ m.winner_id = winner_id /\ m.winning_bid = winning_bid
      BY DEF Inv, TypeOK, Response, AuctionFinished
    <2>2. /\ toBidder'[c] = Append(toBidder[c], m) /\ UNCHANGED <<inbox, pidStat, winner_id, winning_bid>>
          /\ pc = "poll" /\ pc' = "reap"
      BY <1>7 DEF Announce, auctionVars, tableVars, bidderVars
    <2>3. HasWithdrawn(c)'
      <3>1. HasWithdrawn(c)
        BY <1>7, AllHaveWithdrawn DEF Announce, Inv
      <3> QED
        BY <2>2, <3>1 DEF HasWithdrawn
    <2> HIDE DEF m
    <2> QED
      BY <2>1, <2>2, <2>3, EndAppend DEF Closed
  <1>8. CASE UNCHANGED vars
    BY <1>1, <1>8 DEF vars, auctionVars, tableVars, bidderVars
  <1>9. CASE Poll \/ EndOfRound \/ Reap
    BY <1>1, <1>9 DEF Poll, EndOfRound, Reap, auctionVars, tableVars, bidderVars, Closed
  <1> QED
    BY <1>2, <1>4, <1>5, <1>6, <1>7, <1>8, <1>9 DEF Next, Exited, ServerStep

-----------------------------------------------------------------------------
\* The price.

\* Whoever has bid is registered.
BiddersKnown ==
    \A n \in DOMAIN history : \E k \in DOMAIN pidCid : pidCid[k] = history[n].bidder

\* No accepted bid is above the price.
PriceInv ==
    /\ current_bid >= StartingBid
    /\ BiddersKnown
    /\ \A n \in Accepted : history[n].bid <= current_bid
    /\ AcceptedBidsRise
    /\ WinnerIsHighestBidder

LEMMA HistoryRows ==
    ASSUME TypeOK
    PROVE  \A n \in DOMAIN history : history[n].bidder \in Bidder /\ history[n].bid \in Bids
  <1> DEFINE Row == [bidder: Bidder, bid: Bids, result: Result]
  <1>1. history \in Seq(Row)
    BY DEF TypeOK
  <1>2. \A r \in Row : r.bidder \in Bidder /\ r.bid \in Bids
    OBVIOUS
  <1> HIDE DEF Row
  <1>3. DOMAIN history = 1 .. Len(history) /\ \A n \in 1 .. Len(history) : history[n] \in Row
    BY <1>1, LenProperties, ElementOfSeq
  <1> QED
    BY <1>2, <1>3

\* A step that answers no bid leaves the price alone.
LEMMA PriceFrame ==
    ASSUME Inv, PriceInv, [Next]_vars, \A b \in Bidder : ~ ServeBid(b)
    PROVE  PriceInv'
  <1>1. UNCHANGED auctionVars
    <2>1. CASE UNCHANGED vars \/ Poll \/ EndOfRound \/ Announce \/ Reap
      BY <2>1 DEF vars, Poll, EndOfRound, Announce, Reap
    <2>2. ASSUME NEW b \in Bidder, ServeConnect(b) \/ ServeFinished(b)
          PROVE  UNCHANGED auctionVars
      BY <2>2 DEF ServeConnect, ServeFinished
    <2>3. ASSUME NEW b \in Bidder, BidderStep(b)
          PROVE  UNCHANGED auctionVars
      BY <2>3 DEF BidderStep, Connect, PlaceBid, Withdraw, ReadAnswer, Die, serverVars
    <2> QED
      BY <2>1, <2>2, <2>3 DEF Next, Exited, ServerStep
  <1>2. \A b \in Bidder : Registered(b) => Registered(b)' /\ ClientID(b)' = ClientID(b)
    <2>1. CASE UNCHANGED pidCid
      BY <2>1 DEF Registered, ClientID
    <2>2. ASSUME NEW b \in Bidder, ServeConnect(b)
          PROVE  \A c \in Bidder : Registered(c) => Registered(c)' /\ ClientID(c)' = ClientID(c)
      BY <2>2, ConnectRegisters
    <2>3. ASSUME NEW b \in Bidder, ServeFinished(b)
          PROVE  UNCHANGED pidCid
      BY <2>3 DEF ServeFinished
    <2> QED
      BY <2>1, <2>2, <2>3, TablesUnchanged
  <1>3. \A n \in DOMAIN history : history[n].bidder \in Bidder
    BY HistoryRows DEF Inv
  <1>4. UNCHANGED <<current_bid, winner_id, winning_bid, history>> /\ Accepted' = Accepted
    BY <1>1 DEF auctionVars, Accepted
  <1>5. AcceptedBidsRise'
    BY <1>4 DEF PriceInv, AcceptedBidsRise
  <1>6. WinnerIsHighestBidder'
    BY <1>2, <1>3, <1>4 DEF PriceInv, WinnerIsHighestBidder, Accepted, BiddersKnown, Registered
  <1>7. BiddersKnown'
    BY <1>2, <1>3, <1>4 DEF PriceInv, BiddersKnown, Registered
  <1> QED
    BY <1>4, <1>5, <1>6, <1>7 DEF PriceInv

LEMMA PriceBid ==
    ASSUME Inv, PriceInv, NEW b \in Bidder, ServeBid(b)
    PROVE  PriceInv'
  <1> DEFINE v == Head(toServer[b]).bid
             answer == Answer(v)
             h == [bidder |-> b, bid |-> v, result |-> answer]
             l == Len(history)
  <1>1. Reads(b, "BID") /\ b \in ready /\ Head(toServer[b]).type = "BID"
    BY DEF ServeBid, Reads
  <1>2. v \in Bids /\ Registered(b)
    BY <1>1, HeadRequest, ReadsMessage DEF Inv
  <1>3. /\ v \in Nat /\ current_bid \in Nat /\ StartingBid \in Nat /\ MinInc \in Nat
        /\ \A n \in DOMAIN history : history[n].bid \in Nat
    <2>1. \A n \in DOMAIN history : history[n].bid \in Bids
      BY HistoryRows DEF Inv
    <2> QED
      BY <1>2, <2>1, AuctionAssumption DEF Inv, TypeOK, Price
  <1>4. /\ pidCid' = pidCid
        /\ history' = Append(history, h)
        /\ answer = "BID_ACCEPTED" =>
              current_bid' = v /\ winner_id' = ClientID(b) /\ winning_bid' = v
        /\ answer # "BID_ACCEPTED" => UNCHANGED <<current_bid, winner_id, winning_bid>>
    BY DEF ServeBid, tableVars
  <1>5. h \in [bidder: Bidder, bid: Bids, result: Result]
    <2>1. answer \in Result
      BY DEF Answer, Result
    <2> HIDE DEF v, answer
    <2> QED
      BY <1>2, <2>1
  <1>6. h.bidder = b /\ h.bid = v /\ h.result = answer
    OBVIOUS
  <1>7. answer = "BID_ACCEPTED" => v >= StartingBid /\ v >= current_bid + MinInc
    <2> HIDE DEF v
    <2> QED
      BY <1>3, SMT DEF Answer
  <1> HIDE DEF v, answer, h
  <1>8. /\ l \in Nat /\ DOMAIN history = 1 .. l
        /\ \A n \in DOMAIN history : n \in DOMAIN history' /\ history'[n] = history[n]
        /\ l + 1 \in DOMAIN history' /\ history'[l + 1] = h
        /\ \A n \in DOMAIN history' : n \in DOMAIN history \/ n = l + 1
    <2> DEFINE Row == [bidder: Bidder, bid: Bids, result: Result]
    <2>1. history \in Seq(Row) /\ h \in Row
      BY <1>5 DEF Inv, TypeOK
    <2> HIDE DEF Row
    <2> QED
      BY <1>4, <2>1, RowAdded, LenProperties
  <1> HIDE DEF l
  <1>9. \A n \in DOMAIN history : n \in Int /\ n < l + 1 /\ ~ (l + 1 <= n) /\ n # l + 1
    BY <1>8, SMT
  <1>10. BiddersKnown'
    BY <1>2, <1>4, <1>6, <1>8 DEF PriceInv, BiddersKnown, Registered
  <1>11. \A c : ClientID(c)' = ClientID(c)
    BY <1>4 DEF ClientID
  <1>12. CASE answer # "BID_ACCEPTED"
    <2>1. Accepted' = Accepted
      BY <1>6, <1>8, <1>9, <1>12 DEF Accepted
    <2>2. \A n \in Accepted : history'[n] = history[n]
      BY <1>8 DEF Accepted
    <2>3. AcceptedBidsRise'
      BY <2>1, <2>2 DEF PriceInv, AcceptedBidsRise
    <2>4. WinnerIsHighestBidder'
      BY <1>4, <1>11, <1>12, <2>1, <2>2 DEF PriceInv, WinnerIsHighestBidder
    <2> QED
      BY <1>4, <1>10, <1>12, <2>1, <2>2, <2>3, <2>4 DEF PriceInv
  <1>13. CASE answer = "BID_ACCEPTED"
    <2>1. /\ l + 1 \in Accepted' /\ history'[l + 1].bid = v /\ history'[l + 1].bidder = b
          /\ \A n \in Accepted' : n \in Accepted \/ n = l + 1
      BY <1>6, <1>8, <1>13 DEF Accepted
    <2>2. \A n \in Accepted : /\ n \in DOMAIN history /\ history'[n] = history[n]
                              /\ history[n].bid <= current_bid
      BY <1>8 DEF Accepted, PriceInv
    <2>3. v >= StartingBid /\ v >= current_bid + MinInc /\ current_bid >= StartingBid
      BY <1>7, <1>13 DEF PriceInv
    <2>4. v >= StartingBid + MinInc /\ v >= StartingBid
      BY <1>3, <2>3, SMT
    <2>5. \A n \in Accepted : /\ n < l + 1 /\ ~ (l + 1 <= n) /\ ~ (l + 1 < n)
                              /\ v >= history[n].bid + MinInc /\ history[n].bid <= v
      <3>1. \A n \in Accepted : history[n].bid \in Nat /\ history[n].bid <= current_bid
        BY <1>3, <2>2
      <3>2. \A x \in Nat : x <= current_bid => v >= x + MinInc /\ x <= v
        BY <1>3, <2>3, SMT
      <3>3. \A n \in Accepted : n < l + 1 /\ ~ (l + 1 <= n) /\ ~ (l + 1 < n)
        BY <1>8, <1>9, <2>2, SMT
      <3> QED
        BY <3>1, <3>2, <3>3
    <2>6. v <= v /\ ~ (l + 1 < l + 1) /\ l + 1 <= l + 1
      BY <1>3, <1>8, SMT
    <2>7. AcceptedBidsRise'
      BY <2>1, <2>2, <2>4, <2>5, <2>6 DEF PriceInv, AcceptedBidsRise
    <2>8. WinnerIsHighestBidder'
      BY <1>4, <1>11, <1>13, <2>1, <2>2, <2>5, <2>6 DEF WinnerIsHighestBidder
    <2>9. \A n \in Accepted' : history'[n].bid <= current_bid'
      BY <1>4, <1>13, <2>1, <2>2, <2>5, <2>6
    <2> QED
      BY <1>4, <1>10, <1>13, <2>4, <2>7, <2>8, <2>9 DEF PriceInv
  <1> QED
    BY <1>12, <1>13

LEMMA PriceStep ==
    ASSUME Inv, PriceInv, [Next]_vars
    PROVE  PriceInv'
  BY PriceFrame, PriceBid

-----------------------------------------------------------------------------
\* The theorems.

LEMMA Initially ==
    ASSUME Init
    PROVE  Inv /\ PriceInv
  <1>1. 0 \in ClientId /\ StartingBid >= StartingBid
    BY AuctionAssumption, SMT DEF ClientId
  <1>2. TypeOK
    BY <1>1, EmptySeq DEF Init, TypeOK, Price
  <1>3. \A b : ~ Registered(b) /\ ~ HasWithdrawn(b)
    BY SMT DEF Init, Registered, HasWithdrawn
  <1>4. RoundInv /\ TablesInv
    BY <1>3, SMT DEF Init, RoundInv, TablesInv
  <1>5. ASSUME NEW b \in Bidder
        PROVE  AskedInv(b) /\ ToldInv(b) /\ EndInv(b)
    <2>1. state[b] = "new" /\ toServer[b] = << >> /\ inbox[b] = << >> /\ toBidder[b] = << >> /\ pc = "poll"
      BY DEF Init
    <2>2. Said(b) = << >>
      BY <2>1, SMT DEF Said
    <2>3. AskedInv(b)
      BY <1>3, <2>1, SMT DEF AskedInv
    <2>4. ToldInv(b) /\ EndInv(b)
      BY <1>3, <2>1, <2>2, SMT DEF ToldInv, EndInv
    <2> QED
      BY <2>3, <2>4
  <1>6. PriceInv
    <2>1. DOMAIN history = {} /\ Accepted = {} /\ current_bid = StartingBid
      BY SMT DEF Init, Accepted
    <2> QED
      BY <1>1, <2>1 DEF PriceInv, BiddersKnown, AcceptedBidsRise, WinnerIsHighestBidder
  <1> QED
    BY <1>2, <1>4, <1>5, <1>6 DEF Inv, BiddersInv

LEMMA InvStep ==
    ASSUME Inv, [Next]_vars
    PROVE  Inv'
  <1>1. TypeOK'
    BY TypeStep
  <1>2. RoundInv' /\ TablesInv'
    BY RoundStep, TablesStep
  <1>3. BiddersInv'
    BY AskedStep, ToldStep, EndStep DEF BiddersInv
  <1> QED
    BY <1>1, <1>2, <1>3 DEF Inv

\* The invariants above hold in every state the server and its bidders reach.
THEOREM Invariance == Spec => [](Inv /\ PriceInv)
  <1>1. Init => Inv /\ PriceInv
    BY Initially
  <1>2. Inv /\ PriceInv /\ [Next]_vars => (Inv /\ PriceInv)'
    BY InvStep, PriceStep
  <1> QED
    BY <1>1, <1>2, PTL DEF Spec

\* Every variable keeps its type: the tables have a row for every bidder, and
\* every id the server writes into a message is one of 0 .. NumOfBids - 1.
THEOREM TypeCorrect == Spec => []TypeOK
  <1>1. Inv => TypeOK
    BY DEF Inv
  <1> QED
    BY <1>1, Invariance, PTL

\* No two bidders are told the same client id, and the id a bidder is told is
\* the one getClientID finds for it in the table, however the connects of the
\* bidders and the rounds of the server interleave.
THEOREM IdsCorrect == Spec => []IdsAreUnique
  <1>1. Inv => IdsAreUnique
    <2> SUFFICES ASSUME Inv PROVE IdsAreUnique
      OBVIOUS
    <2>1. ASSUME NEW b \in Bidder, inbox[b] # << >>
          PROVE  /\ inbox[b][1].type = "ESTABLISHED" /\ inbox[b][1].client_id = ClientID(b)
                 /\ Registered(b)
      <3> DEFINE s == inbox[b]
                 t == toBidder[b]
                 n == Len(s)
      <3>1. s \in Seq(Response) /\ t \in Seq(Response) /\ s # << >>
        BY <2>1, BidderFacts
      <3>2. Len(s) \in Nat \ {0} /\ Len(t) \in Nat
        BY <3>1, EmptySeq, LenProperties
      <3>3. \A i \in 1 .. Len(s) + Len(t) : (s \o t)[i] = IF i <= n THEN s[i] ELSE t[i - n]
        BY <3>1, ConcatProperties
      <3>4. s \o t # << >>
        BY <3>1, ConcatEqualIffEmpty
      <3>5. Said(b) = s \o t
        BY DEF Said
      <3> HIDE DEF s, t
      <3>6. 1 \in 1 .. Len(s) + Len(t) /\ 1 <= Len(s)
        BY <3>2, SMT
      <3>7. Said(b)[1] = s[1] /\ Said(b) # << >>
        BY <3>3, <3>4, <3>5, <3>6
      <3> QED
        BY <3>7, BidderFacts DEF ToldInv, s
    <2>2. \A b, c \in Bidder : Registered(b) /\ Registered(c) /\ ClientID(b) = ClientID(c) => b = c
      BY RegisteredRows DEF Inv
    <2> QED
      BY <2>1, <2>2 DEF IdsAreUnique
  <1> QED
    BY <1>1, Invariance, PTL

\* The announcement of the winner comes after every bid has been read and
\* answered, is the last message to each bidder, and names the same winner to
\* all of them.
THEOREM EndCorrect == Spec => []EndIsFinal
  <1>1. Inv => EndIsFinal
    <2> SUFFICES ASSUME Inv, NEW b \in Bidder, NEW n \in DOMAIN Said(b),
                        Said(b)[n].type = "AUCTION_FINISHED"
                 PROVE  /\ n = Len(Said(b))
                        /\ \A c \in Bidder : toServer[c] = << >>
                        /\ Said(b)[n].winner_id = winner_id /\ Said(b)[n].winning_bid = winning_bid
      BY DEF EndIsFinal, Said
    <2>1. /\ pc \in {"reap", "exit"} /\ n = Len(Said(b))
          /\ Said(b)[n].winner_id = winner_id /\ Said(b)[n].winning_bid = winning_bid
      BY BidderFacts DEF EndInv
    <2>2. \A c \in Bidder : toServer[c] = << >>
      BY <2>1, BidderFacts DEF EndInv, AskedInv
    <2> QED
      BY <2>1, <2>2
  <1> QED
    BY <1>1, Invariance, PTL

\* Every accepted bid is MinInc above all that were accepted before it.
THEOREM PriceRises == Spec => []AcceptedBidsRise
  <1>1. PriceInv => AcceptedBidsRise
    BY DEF PriceInv
  <1> QED
    BY <1>1, Invariance, PTL

\* The winner is the bidder with the last accepted bid, which is the highest;
\* its id stays right when other bidders connect later.
THEOREM WinnerCorrect == Spec => []WinnerIsHighestBidder
  <1>1. PriceInv => WinnerIsHighestBidder
    BY DEF PriceInv
  <1> QED
    BY <1>1, Invariance, PTL
=============================================================================
