----------------------- MODULE AuctionAnswers_proofs -----------------------
(***************************************************************************)
(* Every connect and every bid is answered exactly once, for any number of *)
(* bidders and bids: the counts of what was asked, is under way, and was   *)
(* said agree in every state.                                              *)
(***************************************************************************)
EXTENDS AuctionServer_proofs

\* The messages of q that are not of type t, by their places.
Others(q, t) == {k \in DOMAIN q : q[k].type # t}

\* A bidder that has spoken is under way to the server or registered.
Connected(b) == Registered(b) \/ toServer[b] # << >>

AnswersInv(b) ==
    /\ state[b] \notin {"new", "dead"} => Connected(b)
    /\ Requests(toServer[b]) + Answers(Said(b)) = placed[b] + (IF Connected(b) THEN 1 ELSE 0)

AllAnswersInv == \A b \in Bidder : AnswersInv(b)

-----------------------------------------------------------------------------
\* Counting.

LEMMA OthersFinite ==
    ASSUME NEW S, NEW q \in Seq(S), NEW t
    PROVE  IsFiniteSet(Others(q, t)) /\ Cardinality(Others(q, t)) \in Nat
  <1>1. DOMAIN q = 1 .. Len(q) /\ Len(q) \in Nat
    BY LenProperties
  <1>2. IsFiniteSet(DOMAIN q)
    BY <1>1, FS_Interval
  <1>3. Others(q, t) \in SUBSET DOMAIN q
    BY DEF Others
  <1> QED
    BY <1>2, <1>3, FS_Subset, FS_CardinalityType

LEMMA CountAppend ==
    ASSUME NEW S, NEW q \in Seq(S), NEW m \in S, NEW t
    PROVE  Cardinality(Others(Append(q, m), t))
               = Cardinality(Others(q, t)) + (IF m.type # t THEN 1 ELSE 0)
  <1> DEFINE n == Len(q)
             r == Append(q, m)
  <1>1. /\ n \in Nat /\ DOMAIN q = 1 .. n
        /\ \A k \in DOMAIN q : k \in DOMAIN r /\ r[k] = q[k]
        /\ n + 1 \in DOMAIN r /\ r[n + 1] = m
        /\ \A k \in DOMAIN r : k \in DOMAIN q \/ k = n + 1
    BY RowAdded
  <1>2. IsFiniteSet(Others(q, t)) /\ Cardinality(Others(q, t)) \in Nat
    BY OthersFinite
  <1> HIDE DEF n, r
  <1>3. n + 1 \notin DOMAIN q
    BY <1>1, SMT
  <1>4. CASE m.type # t
    <2>1. Others(r, t) = Others(q, t) \cup {n + 1}
      BY <1>1, <1>4 DEF Others
    <2>2. n + 1 \notin Others(q, t)
      BY <1>3 DEF Others
    <2> QED
      BY <1>2, <1>4, <2>1, <2>2, FS_AddElement DEF r
  <1>5. CASE m.type = t
    <2>1. Others(r, t) = Others(q, t)
      BY <1>1, <1>3, <1>5 DEF Others
    <2>2. Cardinality(Others(q, t)) + 0 = Cardinality(Others(q, t))
      BY <1>2, SMT
    <2> QED
      BY <1>5, <2>1, <2>2 DEF r
  <1> QED
    BY <1>4, <1>5

\* If only the last message can be of type t, the count is a length.
LEMMA CountLength ==
    ASSUME NEW S, NEW q \in Seq(S), NEW t,
           \A k \in DOMAIN q : q[k].type = t => k = Len(q)
    PROVE  Cardinality(Others(q, t))
               = IF \E k \in DOMAIN q : q[k].type = t THEN Len(q) - 1 ELSE Len(q)
  <1> DEFINE n == Len(q)
  <1>1. DOMAIN q = 1 .. n /\ n \in Nat
    BY LenProperties
  <1> HIDE DEF n
  <1>2. CASE \E k \in DOMAIN q : q[k].type = t
    <2>1. n \in DOMAIN q /\ q[n].type = t
      BY <1>2 DEF n
    <2>2. \A k \in 1 .. n : k \in 1 .. n - 1 <=> k # n
      BY <1>1, SMT
    <2>3. 1 .. n - 1 \subseteq 1 .. n /\ n >= 1
      BY <1>1, <2>1, SMT
    <2>4. Others(q, t) = 1 .. n - 1
      BY <1>1, <2>1, <2>2, <2>3 DEF Others, n
    <2>5. Cardinality(1 .. n - 1) = n - 1
      <3>1. n - 1 \in Int /\ 1 \in Int
        BY <1>1, SMT
      <3>2. Cardinality(1 .. n - 1) = IF 1 > n - 1 THEN 0 ELSE (n - 1) - 1 + 1
        BY <3>1, FS_Interval
      <3> QED
        BY <1>1, <2>3, <3>2, SMT
    <2> QED
      BY <1>2, <2>4, <2>5 DEF n
  <1>3. CASE ~ \E k \in DOMAIN q : q[k].type = t
    <2>1. Others(q, t) = 1 .. n
      BY <1>1, <1>3 DEF Others
    <2>2. Cardinality(1 .. n) = n
      BY <1>1, FS_Interval, SMT
    <2> QED
      BY <1>3, <2>1, <2>2 DEF n
  <1> QED
    BY <1>2, <1>3

LEMMA CountTail ==
    ASSUME NEW S, NEW q \in Seq(S), q # << >>, NEW t,
           \A k \in DOMAIN q : q[k].type = t => k = Len(q)
    PROVE  Cardinality(Others(q, t))
               = Cardinality(Others(Tail(q), t)) + (IF Head(q).type # t THEN 1 ELSE 0)
  <1> DEFINE n == Len(q)
             r == Tail(q)
             N(s) == Cardinality(Others(s, t))
  <1>1. /\ n \in Nat /\ DOMAIN q = 1 .. n /\ 1 \in DOMAIN q /\ Head(q) = q[1]
        /\ \A k \in DOMAIN r : /\ r[k] = q[k + 1] /\ k + 1 \in DOMAIN q /\ k + 1 # 1
                               /\ k + 1 = n => k = Len(r)
        /\ n = 1 => r = << >>
    BY TailRows
  <1>2. r \in Seq(S) /\ Len(r) = n - 1
    BY HeadTailProperties
  <1>3. DOMAIN r = 1 .. n - 1
    BY <1>2, LenProperties
  <1>4. N(q) = IF \E k \in DOMAIN q : q[k].type = t THEN n - 1 ELSE n
    BY CountLength
  <1>5. N(r) = IF \E k \in DOMAIN r : r[k].type = t THEN Len(r) - 1 ELSE Len(r)
    <2>1. \A k \in DOMAIN r : r[k].type = t => k = Len(r)
      BY <1>1
    <2> HIDE DEF r
    <2> QED
      BY <1>2, <2>1, CountLength
  <1> HIDE DEF N, r
  <1>6. CASE q[1].type = t
    <2>1. n = 1
      BY <1>1, <1>6 DEF n
    <2>2. DOMAIN r = {}
      BY <1>3, <2>1, SMT
    <2>3. N(q) = n - 1 /\ N(r) = n - 1
      BY <1>1, <1>2, <1>4, <1>5, <1>6, <2>2
    <2>4. N(r) + 0 = N(r)
      BY <2>1, <2>3, SMT
    <2> QED
      BY <1>1, <1>6, <2>3, <2>4 DEF N, r
  <1>7. CASE q[1].type # t
    <2>1. (\E k \in DOMAIN q : q[k].type = t) <=> (\E k \in DOMAIN r : r[k].type = t)
      <3>1. ASSUME NEW k \in DOMAIN q, q[k].type = t
            PROVE  \E j \in DOMAIN r : r[j].type = t
        <4>1. k # 1 /\ k \in 1 .. n
          BY <1>1, <1>7, <3>1
        <4> HIDE DEF n
        <4>2. k - 1 \in DOMAIN r /\ (k - 1) + 1 = k
          BY <1>1, <1>3, <4>1, SMT
        <4>3. r[k - 1] = q[k]
          BY <1>1, <4>2
        <4> QED
          BY <3>1, <4>2, <4>3
      <3> QED
        BY <1>1, <3>1
    <2> HIDE DEF n
    <2>2. N(q) = N(r) + 1
      BY <1>1, <1>2, <1>4, <1>5, <2>1, SMT
    <2> QED
      BY <1>1, <1>7, <2>2 DEF N, r
  <1> QED
    BY <1>6, <1>7

-----------------------------------------------------------------------------
\* The steps.

LEMMA AnswerFacts ==
    ASSUME Inv, NEW b \in Bidder
    PROVE  /\ Requests(toServer[b]) \in Nat /\ Answers(Said(b)) \in Nat /\ placed[b] \in Nat
           /\ Said(b) # << >> => Connected(b)
  <1>1. Requests(toServer[b]) \in Nat /\ Answers(Said(b)) \in Nat
    BY BidderFacts, OthersFinite DEF Requests, Answers, Others
  <1>2. Said(b) # << >> => Connected(b)
    BY BidderFacts DEF ToldInv, Connected
  <1> QED
    BY <1>1, <1>2 DEF Inv, TypeOK

LEMMA AnswersFrame ==
    ASSUME NEW b \in Bidder, AnswersInv(b),
           toServer'[b] = toServer[b], Said(b)' = Said(b), placed'[b] = placed[b],
           Registered(b)' <=> Registered(b),
           state'[b] \notin {"new", "dead"} => Connected(b)
    PROVE  AnswersInv(b)'
  <1>1. Connected(b)' <=> Connected(b)
    BY DEF Connected
  <1>2. Requests(toServer[b])' = Requests(toServer[b]) /\ Answers(Said(b))' = Answers(Said(b))
    BY DEF Requests, Answers
  <1> QED
    BY <1>1, <1>2 DEF AnswersInv

\* What bidder b sends is a request, unless it is the withdrawal.
LEMMA RequestSent ==
    ASSUME Inv, NEW b \in Bidder, NEW m \in Request, Send(b, m)
    PROVE  /\ toServer'[b] # << >>
           /\ Requests(toServer[b])'
                  = Requests(toServer[b]) + (IF m.type # "FINISHED" THEN 1 ELSE 0)
           /\ \A c \in Bidder : c # b => toServer'[c] = toServer[c]
  <1>1. toServer[b] \in Seq(Request)
    BY BidderFacts
  <1>2. toServer'[b] = Append(toServer[b], m) /\ \A c \in Bidder : c # b => toServer'[c] = toServer[c]
    BY DEF Send, Inv, TypeOK
  <1>3. Append(toServer[b], m) # << >>
    BY <1>1, AppendProperties
  <1>4. Cardinality(Others(Append(toServer[b], m), "FINISHED"))
            = Cardinality(Others(toServer[b], "FINISHED")) + (IF m.type # "FINISHED" THEN 1 ELSE 0)
    BY <1>1, CountAppend
  <1> QED
    BY <1>2, <1>3, <1>4 DEF Requests, Others

\* What is read is no longer under way.
LEMMA RequestRead ==
    ASSUME Inv, NEW b \in Bidder, NEW type, Reads(b, type)
    PROVE  /\ Requests(toServer[b])
                  = Requests(toServer[b])' + (IF type # "FINISHED" THEN 1 ELSE 0)
           /\ Connected(b) /\ Requests(toServer[b])' \in Nat
           /\ \A c \in Bidder : c # b => toServer'[c] = toServer[c]
           /\ UNCHANGED <<inbox, placed, state>>
  <1>1. b \in ready /\ Head(toServer[b]).type = type /\ toServer' = [toServer EXCEPT ![b] = Tail(@)]
        /\ UNCHANGED <<inbox, placed, state>>
    BY DEF Reads, bidderVars
  <1>2. toServer[b] \in Seq(Request) /\ toServer[b] # << >> /\ Tail(toServer[b]) \in Seq(Request)
    BY <1>1, HeadRequest DEF Inv
  <1>3. toServer'[b] = Tail(toServer[b]) /\ \A c \in Bidder : c # b => toServer'[c] = toServer[c]
    BY <1>1 DEF Inv, TypeOK
  <1>4. \A k \in DOMAIN toServer[b] : toServer[b][k].type = "FINISHED" => k = Len(toServer[b])
    BY BidderFacts DEF AskedInv
  <1>5. Cardinality(Others(toServer[b], "FINISHED"))
            = Cardinality(Others(Tail(toServer[b]), "FINISHED")) + (IF type # "FINISHED" THEN 1 ELSE 0)
    BY <1>1, <1>2, <1>4, CountTail
  <1>6. Cardinality(Others(Tail(toServer[b]), "FINISHED")) \in Nat
    BY <1>2, OthersFinite
  <1> QED
    BY <1>1, <1>2, <1>3, <1>5, <1>6 DEF Requests, Others, Connected

\* What the server says is an answer, unless it is the announcement.
LEMMA AnswerSent ==
    ASSUME Inv, NEW b \in Bidder, NEW m \in Response,
           toBidder'[b] = Append(toBidder[b], m), inbox'[b] = inbox[b]
    PROVE  Answers(Said(b))' = Answers(Said(b)) + (IF m.type # "AUCTION_FINISHED" THEN 1 ELSE 0)
  <1>1. Said(b) \in Seq(Response) /\ Said(b)' = Append(Said(b), m)
    BY BidderFacts, SaidAppend
  <1>2. Cardinality(Others(Append(Said(b), m), "AUCTION_FINISHED"))
            = Cardinality(Others(Said(b), "AUCTION_FINISHED"))
                + (IF m.type # "AUCTION_FINISHED" THEN 1 ELSE 0)
    BY <1>1, CountAppend
  <1> QED
    BY <1>1, <1>2 DEF Answers, Others

\* A connect or a bid is read, and one answer is sent.
LEMMA AnswersServed ==
    ASSUME Inv, NEW c \in Bidder, AnswersInv(c),
           NEW b \in Bidder, NEW type, Reads(b, type), type # "FINISHED",
           NEW m \in Response, Reply(b, m), m.type # "AUCTION_FINISHED",
           Registered(b)', c # b => (Registered(c)' <=> Registered(c))
    PROVE  AnswersInv(c)'
  <1>1. /\ \A d \in Bidder : d # b => toBidder'[d] = toBidder[d]
        /\ toBidder'[b] = Append(toBidder[b], m)
    BY DEF Reply, Inv, TypeOK
  <1>2. UNCHANGED <<inbox, placed, state>>
    BY RequestRead
  <1>3. CASE c # b
    <2>1. toServer'[c] = toServer[c]
      BY <1>3, RequestRead
    <2>2. Said(c)' = Said(c)
      BY <1>1, <1>2, <1>3 DEF Said
    <2>3. state'[c] \notin {"new", "dead"} => Connected(c)
      BY <1>2 DEF AnswersInv
    <2> QED
      BY <1>2, <1>3, <2>1, <2>2, <2>3, AnswersFrame
  <1>4. CASE c = b
    <2> DEFINE r == Requests(toServer[b])
               s == Requests(toServer[b])'
               a == Answers(Said(b))
               z == Answers(Said(b))'
    <2>1. r = s + 1 /\ s \in Nat /\ Connected(b)
      BY RequestRead
    <2>2. z = a + 1
      BY <1>1, <1>2, AnswerSent
    <2>3. a \in Nat /\ r + a = placed[b] + 1
      BY <1>4, <2>1, AnswerFacts DEF AnswersInv
    <2> HIDE DEF r, s, a, z
    <2>4. s + z = placed[b] + 1
      BY <2>1, <2>2, <2>3, SMT
    <2>5. Connected(b)'
      BY DEF Connected
    <2> QED
      BY <1>2, <1>4, <2>4, <2>5 DEF AnswersInv, s, z
  <1> QED
    BY <1>3, <1>4

\* The bidder's own steps: what it asks is counted when it is sent.
LEMMA AnswersAsked ==
    ASSUME Inv, AllAnswersInv, NEW b \in Bidder, BidderStep(b), NEW c \in Bidder
    PROVE  AnswersInv(c)'
  <1>0. AnswersInv(c)
    BY DEF AllAnswersInv
  <1>1. UNCHANGED pidCid
    BY DEF BidderStep, Connect, PlaceBid, Withdraw, ReadAnswer, Die, serverVars, tableVars
  <1>2. Registered(c)' <=> Registered(c)
    BY <1>1 DEF Registered
  <1>3. CASE c # b
    <2>1. /\ state'[c] = state[c] /\ placed'[c] = placed[c] /\ toServer'[c] = toServer[c]
          /\ toBidder'[c] = toBidder[c] /\ inbox'[c] = inbox[c]
      BY <1>3 DEF BidderStep, Connect, PlaceBid, Withdraw, ReadAnswer, Die, Send, Inv, TypeOK
    <2>2. Said(c)' = Said(c)
      BY <2>1 DEF Said
    <2> QED
      BY <1>0, <1>2, <2>1, <2>2, AnswersFrame DEF AnswersInv
  <1>4. CASE c = b /\ ReadAnswer(b)
    <2>1. Said(b)' = Said(b) /\ toServer' = toServer /\ placed' = placed
      BY <1>4, ReadFacts DEF ReadAnswer
    <2>2. toBidder[b] # << >>
      BY <1>4 DEF ReadAnswer
    <2>3. Said(b) # << >>
      BY <2>2, BidderFacts, ConcatEqualIffEmpty DEF Said
    <2>4. Connected(b)
      BY <2>3, AnswerFacts
    <2> QED
      BY <1>0, <1>2, <1>4, <2>1, <2>4, AnswersFrame
  <1>5. CASE c = b /\ Die(b)
    <2>1. UNCHANGED <<toServer, toBidder, inbox, placed>> /\ state'[b] = "dead"
      BY <1>5 DEF Die, Inv, TypeOK
    <2>2. Said(c)' = Said(c)
      BY <2>1 DEF Said
    <2> QED
      BY <1>0, <1>2, <1>5, <2>1, <2>2, AnswersFrame
  <1> DEFINE r == Requests(toServer[b])
             s == Requests(toServer[b])'
             a == Answers(Said(b))
             p == placed[b]
  <1>6. /\ r \in Nat /\ a \in Nat /\ p \in Nat
        /\ AnswersInv(b) /\ r + a = p + (IF Connected(b) THEN 1 ELSE 0)
    BY AnswerFacts DEF AllAnswersInv, AnswersInv
  <1>7. ASSUME NEW m \in Request, Send(b, m), UNCHANGED <<toBidder, inbox>>
        PROVE  /\ s = r + (IF m.type # "FINISHED" THEN 1 ELSE 0)
               /\ Answers(Said(b))' = a /\ Connected(b)'
    BY <1>7, RequestSent DEF Answers, Said, Connected
  <1>8. CASE c = b /\ Connect(b)
    <2> DEFINE m == [type |-> "CONNECT"]
    <2>1. m \in Request /\ m.type # "FINISHED" /\ Send(b, m) /\ UNCHANGED <<toBidder, inbox>>
          /\ placed' = placed
      BY <1>8 DEF Connect, Request
    <2>2. ~ Connected(b)
      BY <1>8, BidderFacts DEF Connect, AskedInv, Connected
    <2> HIDE DEF m
    <2>3. s = r + 1 /\ Answers(Said(b))' = a /\ Connected(b)'
      BY <1>7, <2>1
    <2> HIDE DEF r, s, a, p
    <2>4. s + a = p + 1
      BY <1>6, <2>2, <2>3, SMT
    <2> QED
      BY <1>8, <2>1, <2>3, <2>4 DEF AnswersInv, s, p
  <1>9. CASE c = b /\ PlaceBid(b)
    <2>1. PICK v \in Bids : Send(b, [type |-> "BID", bid |-> v])
      BY <1>9 DEF PlaceBid
    <2> DEFINE m == [type |-> "BID", bid |-> v]
    <2>2. m \in Request /\ m.type # "FINISHED" /\ Send(b, m)
      BY <2>1 DEF Request
    <2>3. UNCHANGED <<toBidder, inbox>> /\ placed'[b] = p + 1 /\ Connected(b)
      BY <1>6, <1>9 DEF PlaceBid, AnswersInv, Inv, TypeOK
    <2> HIDE DEF m
    <2>4. s = r + 1 /\ Answers(Said(b))' = a /\ Connected(b)'
      BY <1>7, <2>2, <2>3
    <2> HIDE DEF r, s, a, p
    <2>5. s + a = (p + 1) + 1
      BY <1>6, <2>3, <2>4, SMT
    <2> QED
      BY <1>9, <2>3, <2>4, <2>5 DEF AnswersInv, s
  <1>10. CASE c = b /\ Withdraw(b)
    <2> DEFINE m == [type |-> "FINISHED", status |-> code[b]]
    <2>1. m \in Request /\ m.type = "FINISHED" /\ Send(b, m)
      BY <1>10 DEF Withdraw, Request, Inv, TypeOK
    <2>2. UNCHANGED <<toBidder, inbox, placed>> /\ Connected(b)
      BY <1>6, <1>10 DEF Withdraw, AnswersInv
    <2> HIDE DEF m
    <2>3. s = r + 0 /\ Answers(Said(b))' = a /\ Connected(b)'
      BY <1>7, <2>1, <2>2
    <2> HIDE DEF r, s, a, p
    <2>4. s + a = p + 1
      BY <1>6, <2>2, <2>3, SMT
    <2> QED
      BY <1>10, <2>2, <2>3, <2>4 DEF AnswersInv, s, p
  <1> QED
    BY <1>3, <1>4, <1>5, <1>8, <1>9, <1>10 DEF BidderStep

LEMMA AnswersGiven ==
    ASSUME Inv, AllAnswersInv, [Next]_vars, ServerStep, NEW c \in Bidder
    PROVE  AnswersInv(c)'
  <1>0. AnswersInv(c)
    BY DEF AllAnswersInv
  <1>1. CASE Poll \/ EndOfRound \/ Reap
    <2>1. UNCHANGED <<toServer, toBidder, bidderVars, pidCid>>
      BY <1>1 DEF Poll, EndOfRound, Reap, tableVars
    <2>2. Said(c)' = Said(c) /\ (Registered(c)' <=> Registered(c))
      BY <2>1 DEF Said, Registered, bidderVars
    <2> QED
      BY <1>0, <2>1, <2>2, AnswersFrame DEF AnswersInv, bidderVars
  <1>2. CASE Announce
    <2> DEFINE m == AuctionFinished(winner_id, winning_bid)
    <2>1. m \in Response /\ m.type = "AUCTION_FINISHED"
      BY DEF Inv, TypeOK, Response, AuctionFinished
    <2>2. toBidder'[c] = Append(toBidder[c], m)
          /\ UNCHANGED <<inbox, state, placed, toServer, pidCid>>
      BY <1>2 DEF Announce, tableVars, bidderVars
    <2>3. Connected(c)' <=> Connected(c)
      BY <2>2 DEF Connected, Registered
    <2>4. Requests(toServer[c])' = Requests(toServer[c])
      BY <2>2 DEF Requests
    <2> HIDE DEF m
    <2>5. Answers(Said(c))' = Answers(Said(c)) + 0
      BY <2>1, <2>2, AnswerSent
    <2>6. Answers(Said(c))' = Answers(Said(c))
      BY <2>5, AnswerFacts
    <2> QED
      BY <1>0, <2>2, <2>3, <2>4, <2>6 DEF AnswersInv
  <1>3. ASSUME NEW b \in Bidder, ServeConnect(b)
        PROVE  AnswersInv(c)'
    <2> DEFINE m == Established(NextID, current_bid)
    <2>1. Len(pidCid) \in 0 .. NumOfBids /\ Len(pidCid) < NumOfBids
      BY <1>3, ConnectRegisters, RegisteredRows DEF Inv
    <2>2. NextID \in ClientId
      BY <2>1, AuctionAssumption, SMT DEF NextID, ClientId
    <2>3. m \in Response /\ m.type # "AUCTION_FINISHED"
      BY <2>2 DEF Inv, TypeOK, Response, Established
    <2>4. Reads(b, "CONNECT") /\ Reply(b, m)
      BY <1>3 DEF ServeConnect
    <2>5. Registered(b)' /\ (c # b => (Registered(c)' <=> Registered(c)))
      BY <1>3, ConnectRegisters
    <2> HIDE DEF m
    <2> QED
      BY <1>0, <2>3, <2>4, <2>5, AnswersServed
  <1>4. ASSUME NEW b \in Bidder, ServeBid(b)
        PROVE  AnswersInv(c)'
    <2> DEFINE answer == Answer(Head(toServer[b]).bid)
               m == BidResult(answer, current_bid')
    <2>1. Reads(b, "BID") /\ Reply(b, m) /\ pidCid' = pidCid
      BY <1>4 DEF ServeBid, tableVars
    <2>2. answer \in Result
      BY DEF Answer, Result
    <2>3. current_bid' \in Price
      BY TypeStep DEF TypeOK
    <2>4. m \in Response /\ m.type # "AUCTION_FINISHED"
      <3> HIDE DEF answer
      <3> QED
        BY <2>2, <2>3 DEF Response, BidResult
    <2>5. Registered(b) /\ \A d \in Bidder : Registered(d)' <=> Registered(d)
      BY <2>1, ReadsMessage DEF Inv, Registered
    <2> HIDE DEF m
    <2> QED
      BY <1>0, <2>1, <2>4, <2>5, AnswersServed
  <1>5. ASSUME NEW b \in Bidder, ServeFinished(b)
        PROVE  AnswersInv(c)'
    <2>1. Reads(b, "FINISHED") /\ UNCHANGED <<toBidder, pidCid>>
      BY <1>5 DEF ServeFinished
    <2>2. UNCHANGED <<inbox, placed, state>> /\ (c # b => toServer'[c] = toServer[c])
      BY <2>1, RequestRead
    <2>3. Said(c)' = Said(c) /\ (Registered(c)' <=> Registered(c))
      BY <2>1, <2>2 DEF Said, Registered
    <2>4. CASE c # b
      BY <1>0, <2>2, <2>3, <2>4, AnswersFrame DEF AnswersInv
    <2>5. CASE c = b
      <3> DEFINE s == Requests(toServer[b])'
      <3>1. Requests(toServer[b]) = s + 0 /\ s \in Nat
        BY <2>1, RequestRead
      <3>2. Requests(toServer[b]) = s
        <4> HIDE DEF s
        <4> QED
          BY <3>1, SMT
      <3>3. Connected(b)' /\ Connected(b)
        BY <1>5, <2>3, <2>5, FinishedWithdraws DEF Connected
      <3>4. Answers(Said(b))' = Answers(Said(b))
        BY <2>3, <2>5 DEF Answers
      <3> QED
        BY <1>0, <2>2, <2>5, <3>2, <3>3, <3>4 DEF AnswersInv
    <2> QED
      BY <2>4, <2>5
  <1> QED
    BY <1>1, <1>2, <1>3, <1>4, <1>5 DEF ServerStep

LEMMA AnswersStep ==
    ASSUME Inv, AllAnswersInv, [Next]_vars
    PROVE  AllAnswersInv'
  <1>1. ASSUME NEW c \in Bidder
        PROVE  AnswersInv(c)'
    <2>1. CASE UNCHANGED vars
      <3>1. UNCHANGED <<toServer, toBidder, inbox, placed, state, pidCid>>
        BY <2>1 DEF vars, bidderVars, tableVars
      <3>2. Said(c)' = Said(c) /\ (Registered(c)' <=> Registered(c))
        BY <3>1 DEF Said, Registered
      <3> QED
        BY <3>1, <3>2, AnswersFrame DEF AllAnswersInv, AnswersInv
    <2> QED
      BY <1>1, <2>1, AnswersAsked, AnswersGiven DEF Next, Exited
  <1> QED
    BY <1>1 DEF AllAnswersInv

LEMMA AnswersInitially ==
    ASSUME Init
    PROVE  AllAnswersInv
  <1>1. ASSUME NEW b \in Bidder
        PROVE  AnswersInv(b)
    <2>1. state[b] = "new" /\ toServer[b] = << >> /\ inbox[b] = << >> /\ toBidder[b] = << >>
          /\ placed[b] = 0
      BY <1>1 DEF Init
    <2>2. ~ Connected(b)
      BY <2>1, SMT DEF Init, Connected, Registered
    <2>3. Said(b) = << >>
      BY <2>1, SMT DEF Said
    <2>4. DOMAIN << >> = {}
      BY SMT
    <2>5. Requests(toServer[b]) = 0 /\ Answers(Said(b)) = 0
      BY <2>1, <2>3, <2>4, FS_EmptySet DEF Requests, Answers
    <2> QED
      BY <2>1, <2>2, <2>5 DEF AnswersInv
  <1> QED
    BY <1>1 DEF AllAnswersInv

\* Every connect and every bid is answered exactly once: at any moment each of
\* them is under way to the server, or its answer is under way or read, however
\* rounds, bidders and the announcement interleave, and whoever is killed.
THEOREM AnswersCorrect == Spec => []OneAnswerEach
  <1>1. Inv /\ AllAnswersInv => OneAnswerEach
    <2> SUFFICES ASSUME Inv, AllAnswersInv, NEW b \in Bidder
                 PROVE  Requests(toServer[b]) + Answers(inbox[b] \o toBidder[b])
                            = placed[b] + (IF \/ state[b] \notin {"new", "dead"}
                                              \/ (\E k \in DOMAIN pidCid : pidCid[k] = b)
                                              \/ toServer[b] # << >> THEN 1 ELSE 0)
      BY DEF OneAnswerEach
    <2> QED
      BY DEF AllAnswersInv, AnswersInv, Connected, Registered, Said
  <1>2. Init => AllAnswersInv
    BY AnswersInitially
  <1>3. Inv /\ AllAnswersInv /\ [Next]_vars => AllAnswersInv'
    BY AnswersStep
  <1> QED
    BY <1>1, <1>2, <1>3, Invariance, PTL DEF Spec
=============================================================================
