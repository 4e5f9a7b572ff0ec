----------------------------- MODULE PriceProofs -----------------------------
(***************************************************************************)
(* Proofs about the two ways a listing's price is settled: Negotiation, for  *)
(* any number of offers and requests, and PriceDrop, for any prices, edits    *)
(* and length of the log.                                                     *)
(*                                                                         *)
(* The rounds need the types of the rows, and a request that makes an offer   *)
(* must have counted fewer than there may be: BidsTyped.  OneOpen says that    *)
(* at most one offer is open without counting, which is inductive together     *)
(* with the rounds.  LogFits names the row of the log that is pending and       *)
(* the ones that are in force.                                                *)
(***************************************************************************)
EXTENDS Negotiation, PriceDrop, FiniteSetTheorems, TLAPS

BidsTyped ==
    /\ TalkTypeOK
    /\ Len(bids) <= MAX_OFFERS
    /\ \A a \in asks : a.op = "create" => a.count < MAX_OFFERS

\* Only an offer past its age is being expired.
ExpiresOld == \A a \in asks : a.op = "expire" => a.on \in BidIds /\ bids[a.on].old

OneOpen == \A j, k \in Open : j = k

InTurn == ~crossed => OneOpen /\ \A k \in BidIds : bids[k].round = k

-----------------------------------------------------------------------------
(* Types. *)

LEMMA MaxOffers == MAX_OFFERS \in Nat
BY NegotiationAssumption

LEMMA BidTyped ==
    ASSUME TalkTypeOK, NEW k \in BidIds
    PROVE  bids[k] \in BidRow
BY DEF TalkTypeOK, BidIds

\* Marking an offer changes its status alone.
LEMMA MarkTyped ==
    ASSUME TalkTypeOK, NEW k, NEW st \in BidStatuses, Mark(k, st)
    PROVE  /\ bids' \in Seq(BidRow) /\ Len(bids') = Len(bids) /\ BidIds' = BidIds
           /\ \A j \in BidIds : /\ bids'[j].round = bids[j].round /\ bids'[j].old = bids[j].old
                                /\ bids'[j].status = IF j = k THEN st ELSE bids[j].status
<1>1. bids \in Seq(BidRow)
  BY DEF TalkTypeOK
<1>2. CASE k \in BidIds
  <2> DEFINE new == [bids[k] EXCEPT !.status = st]
  <2>1. new \in BidRow
    BY <1>2, BidTyped DEF BidRow
  <2>2. bids' = [bids EXCEPT ![k] = new]
    BY DEF Mark
  <2>3. new.round = bids[k].round /\ new.old = bids[k].old /\ new.status = st
    BY <1>2, BidTyped DEF BidRow
  <2> HIDE DEF new
  <2> QED
    BY <1>1, <1>2, <2>1, <2>2, <2>3 DEF BidIds
<1>3. CASE k \notin BidIds
  <2>1. bids' = bids
    BY <1>1, <1>3 DEF Mark, BidIds
  <2> QED
    BY <1>1, <1>3, <2>1 DEF BidIds
<1> QED
  BY <1>2, <1>3

LEMMA TakeTyped ==
    ASSUME BidsTyped, NEW op \in {"create", "accept", "reject", "withdraw", "expire"},
           NEW p \in Parties, NEW k \in {NoBid} \cup BidIds, Take(op, p, k),
           op = "create" => Len(bids) < MAX_OFFERS
    PROVE  BidsTyped'
<1> DEFINE n == IF op = "create" THEN Len(bids) ELSE 0
           st == IF k = NoBid THEN "PENDING" ELSE bids[k].status
           a == [op |-> op, by |-> p, on |-> k, was |-> st, count |-> n]
<1>1. n \in 0..MAX_OFFERS
  BY MaxOffers DEF BidsTyped, TalkTypeOK
<1>2. a \in Ask
  <2>1. st \in BidStatuses
    <3>1. k # NoBid => bids[k] \in BidRow
      BY BidTyped DEF BidsTyped
    <3> QED
      BY <3>1 DEF BidRow, BidStatuses
  <2>2. k \in 0..MAX_OFFERS
    BY MaxOffers DEF NoBid, BidIds, BidsTyped, TalkTypeOK
  <2> HIDE DEF n, st
  <2> QED
    BY <1>1, <2>1, <2>2 DEF Ask
<1>3. asks' = asks \cup {a} /\ UNCHANGED <<bids, onSale, crossed>>
  BY DEF Take
<1>4. a.op = "create" => a.count < MAX_OFFERS
  OBVIOUS
<1> HIDE DEF a
<1> QED
  BY <1>2, <1>3, <1>4 DEF BidsTyped, TalkTypeOK

\* Offers are among those there may be, and have a party and its opposite.
LEMMA BidInBounds ==
    ASSUME BidsTyped, NEW k \in BidIds
    PROVE  k \in 0..MAX_OFFERS /\ bids[k].by \in Parties /\ Other(bids[k].by) \in Parties
<1>1. bids[k] \in BidRow
  BY BidTyped DEF BidsTyped
<1>2. k \in 0..MAX_OFFERS
  BY MaxOffers DEF BidsTyped, TalkTypeOK, BidIds
<1> QED
  BY <1>1, <1>2 DEF BidRow, Other, Parties

LEMMA AsksTyped ==
    ASSUME BidsTyped,
           \/ \E p \in Parties, parent \in BidIds \cup {NoBid} : AskToCreate(p, parent)
           \/ \E k \in BidIds : AskToAccept(k) \/ AskToReject(k) \/ AskToWithdraw(k) \/ FindExpired(k)
    PROVE  BidsTyped'
<1>1. ASSUME NEW p \in Parties, NEW parent \in BidIds \cup {NoBid}, AskToCreate(p, parent)
      PROVE  BidsTyped'
  BY <1>1, TakeTyped DEF AskToCreate
<1>2. ASSUME NEW k \in BidIds, AskToAccept(k) \/ AskToReject(k) \/ AskToWithdraw(k) \/ FindExpired(k)
      PROVE  BidsTyped'
  <2>1. PICK op \in {"accept", "reject", "withdraw", "expire"}, p \in Parties : Take(op, p, k)
    BY <1>2, BidInBounds DEF AskToAccept, AskToReject, AskToWithdraw, FindExpired
  <2> QED
    BY <2>1, BidInBounds, TakeTyped
<1> QED
  BY <1>1, <1>2

\* A function on 1..n is a sequence of length n.
LEMMA FunctionIsSeq ==
    ASSUME NEW S, NEW n \in Nat, NEW f \in [1..n -> S]
    PROVE  f \in Seq(S) /\ Len(f) = n
OBVIOUS

\* The rows after a new offer: the parent, if open, is answered; the others stay.
LEMMA CreateRows ==
    ASSUME BidsTyped, NEW a \in asks, Create(a)
    PROVE  /\ bids' \in Seq(BidRow) /\ Len(bids') = Len(bids) + 1
           /\ BidIds' = BidIds \cup {Len(bids) + 1} /\ Len(bids) + 1 \notin BidIds
           /\ bids'[Len(bids) + 1].round = a.count + 1 /\ bids'[Len(bids) + 1].status = "PENDING"
           /\ \A j \in BidIds :
                 /\ bids'[j].round = bids[j].round /\ bids'[j].old = bids[j].old
                 /\ bids'[j].status = IF j = a.on /\ j \in Open THEN "COUNTERED" ELSE bids[j].status
<1> DEFINE kept == [k \in BidIds |-> IF k = a.on /\ k \in Open
                                     THEN [bids[k] EXCEPT !.status = "COUNTERED"] ELSE bids[k]]
           new == [by |-> a.by, status |-> "PENDING", parent |-> a.on,
                   round |-> a.count + 1, old |-> FALSE]
<1>1. bids \in Seq(BidRow) /\ bids' = Append(kept, new)
  BY DEF Create, BidsTyped, TalkTypeOK
<1>2. \A k \in BidIds : /\ kept[k] \in BidRow /\ kept[k].round = bids[k].round
                        /\ kept[k].old = bids[k].old
                        /\ kept[k].status = IF k = a.on /\ k \in Open THEN "COUNTERED" ELSE bids[k].status
  BY BidTyped DEF BidsTyped, BidRow, BidStatuses
<1>3. new \in BidRow
  <2>1. a \in Ask /\ a.count < MAX_OFFERS
    BY DEF Create, BidsTyped, TalkTypeOK
  <2>2. a.count + 1 \in 1..MAX_OFFERS /\ a.on \in 0..MAX_OFFERS /\ a.by \in Parties
    BY <2>1, MaxOffers DEF Ask
  <2> QED
    BY <2>2 DEF BidRow, BidStatuses
<1>5. kept \in Seq(BidRow) /\ Len(kept) = Len(bids)
  <2>1. BidIds = 1..Len(bids) /\ Len(bids) \in Nat
    BY <1>1 DEF BidIds
  <2>2. kept \in [BidIds -> BidRow]
    BY <1>2
  <2> HIDE DEF kept
  <2> QED
    BY <2>1, <2>2, FunctionIsSeq
<1>6. new.round = a.count + 1 /\ new.status = "PENDING"
  OBVIOUS
<1> HIDE DEF kept, new
<1> QED
  BY <1>1, <1>2, <1>3, <1>5, <1>6 DEF BidIds

\* The rows after an acceptance.
LEMMA AcceptRows ==
    ASSUME BidsTyped, NEW a \in asks, Accept(a)
    PROVE  /\ bids' \in Seq(BidRow) /\ Len(bids') = Len(bids) /\ BidIds' = BidIds
           /\ \A j \in BidIds :
                 /\ bids'[j].round = bids[j].round /\ bids'[j].old = bids[j].old
                 /\ bids'[j].status = IF ~onSale THEN bids[j].status
                                      ELSE IF j = a.on THEN "ACCEPTED"
                                      ELSE IF j \in Open THEN "WITHDRAWN" ELSE bids[j].status
<1>1. bids \in Seq(BidRow)
  BY DEF BidsTyped, TalkTypeOK
<1>2. CASE ~onSale
  BY <1>1, <1>2 DEF Accept, BidIds
<1>3. CASE onSale
  <2> DEFINE kept == [k \in BidIds |->
                        IF k = a.on THEN [bids[k] EXCEPT !.status = "ACCEPTED"]
                        ELSE IF k \in Open THEN [bids[k] EXCEPT !.status = "WITHDRAWN"]
                        ELSE bids[k]]
  <2>1. bids' = kept
    BY <1>3 DEF Accept
  <2>2. \A k \in BidIds : /\ kept[k] \in BidRow /\ kept[k].round = bids[k].round
                          /\ kept[k].old = bids[k].old
                          /\ kept[k].status = IF k = a.on THEN "ACCEPTED"
                                              ELSE IF k \in Open THEN "WITHDRAWN" ELSE bids[k].status
    BY BidTyped DEF BidsTyped, BidRow, BidStatuses
  <2>3. BidIds = 1..Len(bids) /\ Len(bids) \in Nat
    BY <1>1 DEF BidIds
  <2>4. kept \in [BidIds -> BidRow]
    BY <2>2
  <2> HIDE DEF kept
  <2>5. kept \in Seq(BidRow) /\ Len(kept) = Len(bids)
    BY <2>3, <2>4, FunctionIsSeq
  <2>6. BidIds' = BidIds
    BY <2>1, <2>3, <2>5 DEF BidIds
  <2> QED
    BY <1>3, <2>1, <2>2, <2>5, <2>6
<1> QED
  BY <1>2, <1>3

\* Marks of answers and expiries, with the requests that make them.
LEMMA AnswerRows ==
    ASSUME BidsTyped, NEW a \in asks, Answer(a) \/ Expire(a)
    PROVE  \E st \in BidStatuses \ {"PENDING", "ACCEPTED"} : Mark(a.on, st)
BY DEF Answer, Expire, BidStatuses

LEMMA AgeRows ==
    ASSUME TalkTypeOK, NEW k \in BidIds, GrowOld(k)
    PROVE  /\ bids' \in Seq(BidRow) /\ Len(bids') = Len(bids) /\ BidIds' = BidIds
           /\ \A j \in BidIds : /\ bids'[j].round = bids[j].round /\ bids'[j].status = bids[j].status
                                /\ bids[j].old => bids'[j].old
<1> DEFINE new == [bids[k] EXCEPT !.old = TRUE]
<1>1. bids \in Seq(BidRow) /\ bids' = [bids EXCEPT ![k] = new]
  BY DEF TalkTypeOK, GrowOld
<1>2. new \in BidRow /\ new.round = bids[k].round /\ new.status = bids[k].status /\ new.old
  BY BidTyped DEF BidRow
<1> HIDE DEF new
<1> QED
  BY <1>1, <1>2 DEF BidIds

LEMMA BidsInit == TalkInit => BidsTyped
<1> SUFFICES ASSUME TalkInit PROVE BidsTyped
  OBVIOUS
<1>1. bids \in Seq(BidRow) /\ Len(bids) <= MAX_OFFERS
  BY MaxOffers DEF TalkInit
<1> QED
  BY <1>1 DEF TalkInit, BidsTyped, TalkTypeOK

LEMMA BidsStep == BidsTyped /\ [TalkNext]_talkVars => BidsTyped'
<1> SUFFICES ASSUME BidsTyped, [TalkNext]_talkVars PROVE BidsTyped'
  OBVIOUS
<1>1. CASE UNCHANGED talkVars
  BY <1>1 DEF talkVars, BidsTyped, TalkTypeOK
<1>2. ASSUME NEW a \in asks, Create(a) PROVE BidsTyped'
  <2>1. Len(bids) < MAX_OFFERS /\ asks' \subseteq asks /\ UNCHANGED onSale /\ crossed' \in BOOLEAN
    BY <1>2 DEF Create, Done, Noticed, BidsTyped, TalkTypeOK
  <2>2. bids' \in Seq(BidRow) /\ Len(bids') = Len(bids) + 1
    BY <1>2, CreateRows
  <2>3. Len(bids') <= MAX_OFFERS
    BY <2>1, <2>2, MaxOffers DEF BidsTyped, TalkTypeOK
  <2> QED
    BY <2>1, <2>2, <2>3 DEF BidsTyped, TalkTypeOK
<1>3. ASSUME NEW a \in asks, Accept(a) PROVE BidsTyped'
  <2>1. asks' \subseteq asks /\ onSale' \in BOOLEAN /\ crossed' \in BOOLEAN
    BY <1>3 DEF Accept, Done, Noticed, BidsTyped, TalkTypeOK
  <2> QED
    BY <1>3, <2>1, AcceptRows DEF BidsTyped, TalkTypeOK
<1>4. ASSUME NEW a \in asks, Answer(a) \/ Expire(a) PROVE BidsTyped'
  <2>1. asks' \subseteq asks /\ UNCHANGED onSale /\ crossed' \in BOOLEAN
    BY <1>4 DEF Answer, Expire, Done, Noticed, BidsTyped, TalkTypeOK
  <2> QED
    BY <1>4, <2>1, AnswerRows, MarkTyped DEF BidsTyped, TalkTypeOK
<1>5. ASSUME NEW k \in BidIds, SweepAccepted(k) PROVE BidsTyped'
  <2>1. Mark(k, "WITHDRAWN") /\ "WITHDRAWN" \in BidStatuses /\ onSale' = TRUE /\ UNCHANGED <<asks, crossed>>
    BY <1>5 DEF SweepAccepted, BidStatuses
  <2> QED
    BY <2>1, MarkTyped DEF BidsTyped, TalkTypeOK
<1>6. ASSUME NEW k \in BidIds, GrowOld(k) PROVE BidsTyped'
  BY <1>6, AgeRows DEF BidsTyped, TalkTypeOK, GrowOld
<1>7. CASE OthersTakeOrLeave
  BY <1>7 DEF OthersTakeOrLeave, BidsTyped, TalkTypeOK
<1> QED
  BY <1>1, <1>2, <1>3, <1>4, <1>5, <1>6, <1>7, AsksTyped DEF TalkNext, TalkStep

LEMMA BidsTypedAlways == TalkSpec => []BidsTyped
BY BidsInit, BidsStep, PTL DEF TalkSpec

\* Offers are never taken back, and do not get younger.
LEMMA OldStays ==
    ASSUME BidsTyped, [TalkNext]_talkVars
    PROVE  BidIds \subseteq BidIds' /\ \A j \in BidIds : bids[j].old => bids'[j].old
<1>0. TalkTypeOK
  BY DEF BidsTyped
<1>1. CASE UNCHANGED bids
  BY <1>1 DEF BidIds
<1>2. CASE \E a \in asks : Create(a)
  BY <1>2, CreateRows
<1>3. CASE \E a \in asks : Accept(a)
  BY <1>3, AcceptRows
<1>4. CASE \E a \in asks : Answer(a) \/ Expire(a)
  <2>1. PICK a \in asks : Answer(a) \/ Expire(a)
    BY <1>4
  <2>2. PICK st \in BidStatuses : Mark(a.on, st)
    BY <2>1, AnswerRows
  <2> QED
    BY <1>0, <2>2, MarkTyped
<1>7. CASE \E k \in BidIds : SweepAccepted(k)
  <2>1. PICK k \in BidIds : Mark(k, "WITHDRAWN")
    BY <1>7 DEF SweepAccepted
  <2>2. "WITHDRAWN" \in BidStatuses
    BY DEF BidStatuses
  <2> QED
    BY <1>0, <2>1, <2>2, MarkTyped
<1>5. CASE \E k \in BidIds : GrowOld(k)
  BY <1>0, <1>5, AgeRows
<1>6. CASE \/ OthersTakeOrLeave
           \/ \E p \in Parties, parent \in BidIds \cup {NoBid} : AskToCreate(p, parent)
           \/ \E k \in BidIds : AskToAccept(k) \/ AskToReject(k) \/ AskToWithdraw(k) \/ FindExpired(k)
  <2>1. UNCHANGED bids
    BY <1>6 DEF OthersTakeOrLeave, AskToCreate, AskToAccept, AskToReject, AskToWithdraw, FindExpired, Take
  <2> QED
    BY <1>1, <2>1
<1> QED
  BY <1>1, <1>2, <1>3, <1>4, <1>5, <1>6, <1>7 DEF TalkNext, TalkStep, talkVars

LEMMA ExpiresOldStep == BidsTyped /\ ExpiresOld /\ [TalkNext]_talkVars => ExpiresOld'
<1> SUFFICES ASSUME BidsTyped, ExpiresOld, [TalkNext]_talkVars PROVE ExpiresOld'
  OBVIOUS
<1>1. CASE asks' \subseteq asks
  BY <1>1, OldStays DEF ExpiresOld
<1>2. CASE \E p \in Parties, parent \in BidIds \cup {NoBid} : AskToCreate(p, parent)
  BY <1>2, OldStays DEF AskToCreate, Take, ExpiresOld
<1>3. CASE \E k \in BidIds : AskToAccept(k) \/ AskToReject(k) \/ AskToWithdraw(k) \/ FindExpired(k)
  <2>1. PICK k \in BidIds : AskToAccept(k) \/ AskToReject(k) \/ AskToWithdraw(k) \/ FindExpired(k)
    BY <1>3
  <2>2. PICK op, p : Take(op, p, k) /\ (op = "expire" => bids[k].old)
    BY <2>1 DEF AskToAccept, AskToReject, AskToWithdraw, FindExpired
  <2> QED
    BY <2>2, OldStays DEF Take, ExpiresOld
<1> QED
  BY <1>1, <1>2, <1>3 DEF TalkNext, TalkStep, talkVars, Create, Accept, Answer, Expire, Done,
                          SweepAccepted, GrowOld, OthersTakeOrLeave

LEMMA ExpiresOldAlways == TalkSpec => []ExpiresOld
<1>1. TalkInit => ExpiresOld
  BY DEF TalkInit, ExpiresOld
<1> QED
  BY <1>1, ExpiresOldStep, BidsTypedAlways, PTL DEF TalkSpec

(* Every reachable state of a conversation's offers is well typed, and a      *)
(* round is never beyond the number of offers there may be.                  *)
THEOREM TalkTyped == TalkSpec => []TalkTypeOK
<1>1. BidsTyped => TalkTypeOK
  BY DEF BidsTyped
<1> QED
  BY <1>1, BidsTypedAlways, PTL

-----------------------------------------------------------------------------
(* One open offer, and rounds in order. *)

\* A step in which no offer opens and no round changes keeps the turns.
LEMMA FewerOpen ==
    ASSUME BidsTyped, InTurn, BidIds' = BidIds, crossed => crossed',
           \A j \in BidIds : /\ bids'[j].round = bids[j].round
                             /\ bids'[j].status = "PENDING" => bids[j].status = "PENDING"
    PROVE  InTurn'
BY DEF InTurn, OneOpen, Open

LEMMA InTurnStep == BidsTyped /\ InTurn /\ [TalkNext]_talkVars => InTurn'
<1> SUFFICES ASSUME BidsTyped, InTurn, [TalkNext]_talkVars PROVE InTurn'
  OBVIOUS
<1>0. TalkTypeOK
  BY DEF BidsTyped
<1>1. CASE UNCHANGED <<bids, crossed>>
  BY <1>1 DEF InTurn, OneOpen, Open, BidIds
<1>2. ASSUME NEW a \in asks, Create(a) PROVE InTurn'
  <2> SUFFICES ASSUME ~crossed' PROVE OneOpen' /\ \A k \in BidIds' : bids'[k].round = k
    BY DEF InTurn
  <2> DEFINE n == Len(bids) + 1
  <2>1. ~crossed /\ Open \subseteq {a.on} /\ Len(bids) = a.count
    BY <1>2 DEF Create, Noticed
  <2>2. /\ BidIds' = BidIds \cup {n} /\ n \notin BidIds /\ bids'[n].round = n /\ bids'[n].status = "PENDING"
        /\ \A j \in BidIds : /\ bids'[j].round = bids[j].round
                             /\ bids'[j].status = IF j = a.on /\ j \in Open THEN "COUNTERED" ELSE bids[j].status
    BY <1>2, <2>1, CreateRows
  <2> HIDE DEF n
  <2>3. \A j \in BidIds : bids'[j].status # "PENDING"
    BY <2>1, <2>2 DEF Open
  <2> QED
    BY <2>1, <2>2, <2>3 DEF InTurn, OneOpen, Open
<1>3. ASSUME NEW a \in asks, Accept(a) PROVE InTurn'
  BY <1>3, AcceptRows, FewerOpen DEF Accept, Noticed
<1>4. ASSUME NEW a \in asks, Answer(a) \/ Expire(a) PROVE InTurn'
  <2>1. crossed => crossed'
    BY <1>4 DEF Answer, Expire, Noticed
  <2> QED
    BY <1>0, <1>4, <2>1, AnswerRows, MarkTyped, FewerOpen
<1>5. ASSUME NEW k \in BidIds, SweepAccepted(k) PROVE InTurn'
  <2>1. Mark(k, "WITHDRAWN") /\ "WITHDRAWN" \in BidStatuses /\ UNCHANGED crossed
    BY <1>5 DEF SweepAccepted, BidStatuses
  <2> QED
    BY <1>0, <2>1, MarkTyped, FewerOpen
<1>6. ASSUME NEW k \in BidIds, GrowOld(k) PROVE InTurn'
  BY <1>0, <1>6, AgeRows, FewerOpen DEF GrowOld
<1>7. ASSUME \/ OthersTakeOrLeave
             \/ \E p \in Parties, parent \in BidIds \cup {NoBid} : AskToCreate(p, parent)
             \/ \E k \in BidIds : AskToAccept(k) \/ AskToReject(k) \/ AskToWithdraw(k) \/ FindExpired(k)
      PROVE  UNCHANGED <<bids, crossed>>
  BY <1>7 DEF OthersTakeOrLeave, AskToCreate, AskToAccept, AskToReject, AskToWithdraw, FindExpired, Take
<1> QED
  BY <1>1, <1>2, <1>3, <1>4, <1>5, <1>6, <1>7 DEF TalkNext, TalkStep, talkVars

\* A set without two different members has at most one.
LEMMA AtMostOne ==
    ASSUME NEW S, \A j, k \in S : j = k
    PROVE  Cardinality(S) <= 1
<1>1. CASE S = {}
  BY <1>1, FS_EmptySet
<1>2. ASSUME NEW x \in S PROVE Cardinality(S) <= 1
  <2>1. S = {x}
    BY <1>2
  <2> QED
    BY <2>1, FS_Singleton
<1> QED
  BY <1>1, <1>2

(* While requests do not cross, one offer at most waits for an answer, and     *)
(* the rounds count the offers of the conversation, however many there are     *)
(* (createOffer, counterOffer).                                               *)
THEOREM OffersTakeTurns == TalkSpec => []OffersInTurn
<1>1. TalkInit => InTurn
  BY DEF TalkInit, InTurn, OneOpen, Open, BidIds
<1>2. InTurn => OffersInTurn
  BY AtMostOne DEF InTurn, OneOpen, OffersInTurn
<1> QED
  BY <1>1, <1>2, InTurnStep, BidsTypedAlways, PTL DEF TalkSpec

-----------------------------------------------------------------------------
LEMMA StandsStep ==
    ASSUME BidsTyped, ExpiresOld, TalkStep, ~crossed', NEW k \in BidIds
    PROVE  \/ bids'[k].status = bids[k].status
           \/ bids[k].status = "PENDING"
           \/ bids[k].status = "ACCEPTED" /\ bids'[k].status = "WITHDRAWN"
           \/ bids[k].old /\ bids'[k].status = "EXPIRED"
<1>0. TalkTypeOK
  BY DEF BidsTyped
<1>1. CASE UNCHANGED bids
  BY <1>1
<1>2. ASSUME NEW a \in asks, Create(a) PROVE bids'[k].status = bids[k].status \/ bids[k].status = "PENDING"
  BY <1>2, CreateRows DEF Open
<1>3. ASSUME NEW a \in asks, Accept(a) PROVE bids'[k].status = bids[k].status \/ bids[k].status = "PENDING"
  <2>1. onSale => a.on \in Open
    BY <1>3 DEF Accept, Noticed
  <2> QED
    BY <1>3, <2>1, AcceptRows DEF Open
<1>4. ASSUME NEW a \in asks, Answer(a)
      PROVE  bids'[k].status = bids[k].status \/ bids[k].status = "PENDING"
  <2>1. a.on \in Open
    BY <1>4 DEF Answer, Noticed
  <2> QED
    BY <1>0, <1>4, <2>1, AnswerRows, MarkTyped DEF Open
<1>8. ASSUME NEW a \in asks, Expire(a)
      PROVE  bids'[k].status = bids[k].status \/ (bids[k].old /\ bids'[k].status = "EXPIRED")
  <2>1. Mark(a.on, "EXPIRED") /\ "EXPIRED" \in BidStatuses /\ bids[a.on].old
    BY <1>8 DEF Expire, ExpiresOld, BidStatuses
  <2> QED
    BY <1>0, <2>1, MarkTyped
<1>5. ASSUME NEW j \in BidIds, SweepAccepted(j)
      PROVE  \/ bids'[k].status = bids[k].status
             \/ bids[k].status = "ACCEPTED" /\ bids'[k].status = "WITHDRAWN"
  <2>1. Mark(j, "WITHDRAWN") /\ "WITHDRAWN" \in BidStatuses /\ bids[j].status = "ACCEPTED"
    BY <1>5 DEF SweepAccepted, BidStatuses
  <2> QED
    BY <1>0, <2>1, MarkTyped
<1>6. ASSUME NEW j \in BidIds, GrowOld(j) PROVE bids'[k].status = bids[k].status
  BY <1>0, <1>6, AgeRows
<1>7. ASSUME \/ OthersTakeOrLeave
             \/ \E p \in Parties, parent \in BidIds \cup {NoBid} : AskToCreate(p, parent)
             \/ \E j \in BidIds : AskToAccept(j) \/ AskToReject(j) \/ AskToWithdraw(j) \/ FindExpired(j)
      PROVE  UNCHANGED bids
  BY <1>7 DEF OthersTakeOrLeave, AskToCreate, AskToAccept, AskToReject, AskToWithdraw, FindExpired, Take
<1> QED
  BY <1>1, <1>2, <1>3, <1>4, <1>5, <1>6, <1>7, <1>8 DEF TalkStep

(* An answer stands: while requests do not cross, only a pending offer is      *)
(* answered, and of the answered ones only an accepted one is given up, or one *)
(* past its age that is accepted once more (acceptOffer, rejectOffer,           *)
(* withdrawOffer, the sweeps).                                                 *)
THEOREM AnswersStand == TalkSpec => AnswerStands
<1>1. BidsTyped /\ ExpiresOld /\ [TalkNext]_talkVars =>
        [ ~crossed' => \A k \in BidIds :
            \/ bids'[k].status = bids[k].status
            \/ bids[k].status = "PENDING"
            \/ bids[k].status = "ACCEPTED" /\ bids'[k].status = "WITHDRAWN"
            \/ bids[k].old /\ bids'[k].status = "EXPIRED" ]_talkVars
  BY StandsStep DEF TalkNext
<1> QED
  BY <1>1, BidsTypedAlways, ExpiresOldAlways, PTL DEF TalkSpec, AnswerStands

-----------------------------------------------------------------------------
(* The price of a listing.                                                 *)

\* What a promotion rests on: it started because a drop was pending.
JobsFit == \A j \in jobs : j.ask = Unset => j.read.status = "ACTIVE" /\ j.read.pending # Unset

\* While nobody writes over what they did not see: a pending change is the last
\* row of the log, and starts from the price in force; the latest change in force
\* and the first drop that took effect are the listing's price and anchor.
LogFits ==
    ~outdated =>
        /\ \A i \in WithStatus("PENDING") :
              i = Len(changes) /\ changes[i].old = offer.price /\ changes[i].new = offer.pending
        /\ offer.pending # Unset => Len(changes) \in WithStatus("PENDING")
        /\ InForce # {} => \E i \in InForce : /\ \A k \in InForce : k <= i
                                              /\ offer.price = changes[i].new
        /\ WithStatus("APPLIED") = {} => offer.anchor = Unset
        /\ WithStatus("APPLIED") # {} =>
              \E i \in WithStatus("APPLIED") : /\ \A k \in WithStatus("APPLIED") : i <= k
                                               /\ offer.anchor = changes[i].old

PriceInv == PriceTypeOK /\ JobsFit /\ LogFits

\* The rows of the log, by their index.
LEMMA RowTyped ==
    ASSUME PriceTypeOK
    PROVE  /\ Len(changes) \in Nat /\ DOMAIN changes = 1..Len(changes)
           /\ \A i \in 1..Len(changes) : changes[i] \in Change
BY DEF PriceTypeOK

\* Settling changes the status of pending rows alone.
LEMMA Settled ==
    ASSUME PriceTypeOK, NEW st \in {"APPLIED", "CANCELLED"}
    PROVE  LET rows == Settle(changes, st)
           IN  /\ rows \in Seq(Change) /\ Len(rows) = Len(changes)
               /\ DOMAIN rows = 1..Len(changes)
               /\ \A i \in 1..Len(changes) :
                    /\ rows[i].old = changes[i].old /\ rows[i].new = changes[i].new
                    /\ rows[i].status = IF changes[i].status = "PENDING" THEN st
                                        ELSE changes[i].status
<1> DEFINE rows == Settle(changes, st)
<1>1. DOMAIN rows = 1..Len(changes) /\ Len(changes) \in Nat
  BY RowTyped DEF Settle
<1>2. ASSUME NEW i \in 1..Len(changes)
      PROVE  /\ rows[i] \in Change
             /\ rows[i].old = changes[i].old /\ rows[i].new = changes[i].new
             /\ rows[i].status = IF changes[i].status = "PENDING" THEN st ELSE changes[i].status
  <2>1. changes[i] \in Change /\ rows[i] = IF changes[i].status = "PENDING"
                                           THEN [changes[i] EXCEPT !.status = st] ELSE changes[i]
    BY RowTyped DEF Settle
  <2> QED
    BY <2>1 DEF Change
<1>3. rows \in Seq(Change) /\ Len(rows) = Len(changes)
  <2>1. rows = [i \in 1..Len(changes) |-> rows[i]]
    BY RowTyped DEF Settle
  <2> HIDE DEF rows
  <2> QED
    BY <1>1, <1>2, <2>1
<1> QED
  BY <1>1, <1>2, <1>3

\* A row added leaves the others.
LEMMA Added ==
    ASSUME NEW rows \in Seq(Change), NEW row \in Change
    PROVE  /\ Append(rows, row) \in Seq(Change)
           /\ Len(Append(rows, row)) = Len(rows) + 1
           /\ Append(rows, row)[Len(rows) + 1] = row
           /\ \A i \in 1..Len(rows) : Append(rows, row)[i] = rows[i]
OBVIOUS

\* The row an edit adds.
LEMMA EditRow ==
    ASSUME PriceTypeOK, NEW j \in jobs, j.ask # Unset
    PROVE  /\ j.ask \in DropPrices /\ j.read \in Columns
           /\ [old |-> j.read.price, new |-> j.ask,
               status |-> IF j.ask < j.read.price THEN "PENDING" ELSE "DIRECT_EDIT"] \in Change
<1>1. j.ask \in DropPrices /\ j.read \in Columns
  BY DEF PriceTypeOK, Job
<1> QED
  BY <1>1 DEF Columns, Change

\* The log an edit leaves: the rows before, the pending ones settled if the
\* listing had a pending price, and its own.
LEMMA EditLog ==
    ASSUME PriceTypeOK, NEW j \in jobs, j.ask # Unset, changes' = Logged(j)
    PROVE  LET n == Len(changes)
           IN  /\ changes' \in Seq(Change) /\ Len(changes') = n + 1
               /\ DOMAIN changes' = 1..(n + 1)
               /\ changes'[n + 1].old = j.read.price /\ changes'[n + 1].new = j.ask
               /\ changes'[n + 1].status = IF j.ask < j.read.price THEN "PENDING" ELSE "DIRECT_EDIT"
               /\ \A i \in 1..n :
                    /\ changes'[i].old = changes[i].old /\ changes'[i].new = changes[i].new
                    /\ changes'[i].status =
                         IF j.read.pending # Unset /\ changes[i].status = "PENDING"
                         THEN "CANCELLED" ELSE changes[i].status
<1> DEFINE row == [old |-> j.read.price, new |-> j.ask,
                   status |-> IF j.ask < j.read.price THEN "PENDING" ELSE "DIRECT_EDIT"]
           rows == IF j.read.pending = Unset THEN changes ELSE Settle(changes, "CANCELLED")
<1>1. row \in Change
  BY EditRow
<1>2. /\ rows \in Seq(Change) /\ Len(rows) = Len(changes)
      /\ \A i \in 1..Len(changes) :
           /\ rows[i].old = changes[i].old /\ rows[i].new = changes[i].new
           /\ rows[i].status = IF j.read.pending # Unset /\ changes[i].status = "PENDING"
                               THEN "CANCELLED" ELSE changes[i].status
  <2>1. CASE j.read.pending = Unset
    BY <2>1 DEF PriceTypeOK
  <2>2. CASE j.read.pending # Unset
    BY <2>2, Settled
  <2> QED
    BY <2>1, <2>2
<1>3. row.old = j.read.price /\ row.new = j.ask
      /\ row.status = IF j.ask < j.read.price THEN "PENDING" ELSE "DIRECT_EDIT"
  OBVIOUS
<1>4. changes' = Append(rows, row)
  BY DEF Logged
<1> HIDE DEF rows, row
<1>5. /\ changes' \in Seq(Change) /\ Len(changes') = Len(changes) + 1
      /\ changes'[Len(changes) + 1] = row
      /\ \A i \in 1..Len(changes) : changes'[i] = rows[i]
  BY <1>1, <1>2, <1>4, Added
<1>6. DOMAIN changes' = 1..(Len(changes) + 1)
  BY <1>5
<1> QED
  BY <1>2, <1>3, <1>5, <1>6

-----------------------------------------------------------------------------
(* Types. *)

LEMMA PriceTypeInit == PriceInit => PriceTypeOK /\ JobsFit
<1> SUFFICES ASSUME PriceInit PROVE PriceTypeOK /\ JobsFit
  OBVIOUS
<1>1. offer \in Columns
  BY DEF PriceInit, Columns
<1>2. changes = <<>> /\ jobs = {} /\ outdated = FALSE
  BY DEF PriceInit
<1>3. <<>> \in Seq(Change)
  OBVIOUS
<1> QED
  BY <1>1, <1>2, <1>3 DEF PriceTypeOK, JobsFit

\* A request that begins holds the listing as it is.
LEMMA BeginKeeps ==
    ASSUME PriceTypeOK, JobsFit, NEW ask \in DropPrices \cup {Unset}, Begin(ask),
           ask = Unset => offer.status = "ACTIVE" /\ offer.pending # Unset
    PROVE  (PriceTypeOK /\ JobsFit)'
<1>1. PICK k \in 1..MAX_JOBS : jobs' = jobs \cup {[read |-> offer, ask |-> ask, try |-> k]}
  BY DEF Begin
<1>2. [read |-> offer, ask |-> ask, try |-> k] \in Job
  BY DEF PriceTypeOK, Job
<1>3. UNCHANGED <<offer, changes, outdated>>
  BY DEF Begin
<1> QED
  BY <1>1, <1>2, <1>3 DEF PriceTypeOK, JobsFit

LEMMA PriceTypeStep == PriceTypeOK /\ JobsFit /\ [PriceNext]_priceVars => (PriceTypeOK /\ JobsFit)'
<1> SUFFICES ASSUME PriceTypeOK, JobsFit, [PriceNext]_priceVars PROVE (PriceTypeOK /\ JobsFit)'
  OBVIOUS
<1>1. CASE UNCHANGED priceVars
  BY <1>1 DEF priceVars, PriceTypeOK, JobsFit
<1>2. CASE ReadExpired
  BY <1>2, BeginKeeps DEF ReadExpired
<1>3. ASSUME NEW p \in DropPrices, ReadForEdit(p) PROVE (PriceTypeOK /\ JobsFit)'
  <2>1. p # Unset
    BY PriceDropAssumption DEF Unset
  <2> QED
    BY <1>3, <2>1, BeginKeeps DEF ReadForEdit
<1>4. ASSUME NEW j \in jobs, Promote(j) PROVE (PriceTypeOK /\ JobsFit)'
  <2>1. j.read \in Columns /\ j.read.pending # Unset
    BY <1>4 DEF Promote, PriceTypeOK, JobsFit, Job
  <2>2. j.read.pending \in DropPrices /\ j.read.price \in DropPrices
        /\ j.read.anchor \in DropPrices \cup {Unset}
    BY <2>1 DEF Columns
  <2>3. Promoted(j) \in Columns
    BY <2>2 DEF Promoted, PriceTypeOK, Columns
  <2>4. changes' \in Seq(Change)
    BY <1>4, Settled DEF Promote
  <2> QED
    BY <1>4, <2>3, <2>4 DEF Promote, End, PriceTypeOK, JobsFit
<1>5. ASSUME NEW j \in jobs, Edit(j) PROVE (PriceTypeOK /\ JobsFit)'
  <2>1. j.ask \in DropPrices
    BY <1>5, EditRow DEF Edit
  <2>2. Scheduled(j) \in Columns /\ Raised(j) \in Columns
    BY <2>1 DEF Scheduled, Raised, PriceTypeOK, Columns
  <2>3. changes' \in Seq(Change)
    BY <1>5, EditLog DEF Edit
  <2> QED
    BY <1>5, <2>2, <2>3 DEF Edit, End, PriceTypeOK, JobsFit
<1>6. CASE DelayPasses \/ ReserveOrRelease
  <2>1. offer' \in Columns
    BY <1>6 DEF DelayPasses, ReserveOrRelease, PriceTypeOK, Columns
  <2> QED
    BY <1>6, <2>1 DEF DelayPasses, ReserveOrRelease, PriceTypeOK, JobsFit
<1> QED
  BY <1>1, <1>2, <1>3, <1>4, <1>5, <1>6 DEF PriceNext

LEMMA PriceTypedAlways == PriceSpec => [](PriceTypeOK /\ JobsFit)
BY PriceTypeInit, PriceTypeStep, PTL DEF PriceSpec

(* Every reachable price of a listing, and every row of its log, is well      *)
(* typed: a promotion only ever writes a price some seller asked for.         *)
THEOREM PricesTyped == PriceSpec => []PriceTypeOK
BY PriceTypedAlways, PTL

-----------------------------------------------------------------------------
(* The log and the listing. *)

\* Steps that touch neither the log nor the prices.
LEMMA LogKept ==
    ASSUME LogFits, UNCHANGED <<changes, outdated>>, offer'.price = offer.price,
           offer'.pending = offer.pending, offer'.anchor = offer.anchor
    PROVE  LogFits'
BY DEF LogFits, WithStatus, InForce

\* A promotion of the listing it read: the pending row is applied, and is the
\* latest in force.
LEMMA PromoteFits ==
    ASSUME PriceInv, NEW j \in jobs, Promote(j)
    PROVE  LogFits'
<1> SUFFICES ASSUME ~outdated' PROVE LogFits'
  BY DEF LogFits
<1> DEFINE n == Len(changes)
<1>0. ~outdated /\ j.read = offer
  BY DEF Promote, End
<1>1. ~outdated /\ j.read = offer /\ offer.pending # Unset /\ offer.status = "ACTIVE"
  BY <1>0 DEF Promote, PriceInv, JobsFit
<1>2. PriceTypeOK
  BY DEF PriceInv
<1>3. /\ offer'.price = offer.pending /\ offer'.pending = Unset
      /\ offer'.anchor = IF offer.anchor = Unset THEN offer.price ELSE offer.anchor
  BY <1>1, <1>2 DEF Promote, Promoted, PriceTypeOK, Columns
<1>4. /\ Len(changes') = n /\ DOMAIN changes' = 1..n /\ n \in Nat
      /\ \A i \in 1..n : /\ changes'[i].old = changes[i].old /\ changes'[i].new = changes[i].new
                         /\ changes'[i].status = IF changes[i].status = "PENDING" THEN "APPLIED"
                                                 ELSE changes[i].status
  BY <1>2, Settled, RowTyped DEF Promote
<1>5. /\ DOMAIN changes = 1..n /\ n \in 1..n /\ changes[n].status = "PENDING"
      /\ changes[n].old = offer.price /\ changes[n].new = offer.pending
      /\ \A i \in 1..n : changes[i].status = "PENDING" => i = n
  BY <1>1, <1>2, RowTyped DEF PriceInv, LogFits, WithStatus
<1> HIDE DEF n
<1>6. WithStatus("PENDING")' = {}
  BY <1>4 DEF WithStatus
<1>7. /\ WithStatus("APPLIED")' = WithStatus("APPLIED") \cup {n}
      /\ InForce' = InForce \cup {n} /\ InForce \subseteq 1..n
  BY <1>4, <1>5 DEF WithStatus, InForce
<1>8. n \in InForce' /\ (\A k \in InForce' : k <= n) /\ offer'.price = changes'[n].new
  BY <1>3, <1>4, <1>5, <1>7
<1>9. \E i \in WithStatus("APPLIED")' : /\ \A k \in WithStatus("APPLIED")' : i <= k
                                        /\ offer'.anchor = changes'[i].old
  <2>1. CASE WithStatus("APPLIED") = {}
    <3>1. offer.anchor = Unset
      BY <1>1, <2>1 DEF PriceInv, LogFits
    <3>2. WithStatus("APPLIED")' = {n}
      BY <1>7, <2>1
    <3> QED
      BY <1>3, <1>4, <1>5, <3>1, <3>2
  <2>2. CASE WithStatus("APPLIED") # {}
    <3>1. PICK i \in WithStatus("APPLIED") : /\ \A k \in WithStatus("APPLIED") : i <= k
                                             /\ offer.anchor = changes[i].old
      BY <1>1, <2>2 DEF PriceInv, LogFits
    <3>2. i \in 1..n /\ changes[i] \in Change
      BY <1>2, <1>5, <3>1, RowTyped DEF WithStatus
    <3>3. offer.anchor # Unset
      BY <3>1, <3>2, PriceDropAssumption DEF Change, Unset
    <3>4. i \in WithStatus("APPLIED")' /\ \A k \in WithStatus("APPLIED")' : i <= k
      <4>1. i <= n
        BY <1>4, <3>2
      <4> QED
        BY <1>7, <3>1, <4>1
    <3>5. offer'.anchor = changes'[i].old
      BY <1>3, <1>4, <3>1, <3>2, <3>3
    <3> QED
      BY <3>4, <3>5
  <2> QED
    BY <2>1, <2>2
<1>10. WithStatus("APPLIED")' # {} /\ InForce' # {}
  BY <1>7
<1> QED
  BY <1>3, <1>6, <1>8, <1>9, <1>10 DEF LogFits

\* An edit of the listing it read: a rise is in force at once, a drop is the one
\* that is pending.
LEMMA EditFits ==
    ASSUME PriceInv, NEW j \in jobs, Edit(j)
    PROVE  LogFits'
<1> SUFFICES ASSUME ~outdated' PROVE LogFits'
  BY DEF LogFits
<1> DEFINE n == Len(changes)
           drop == j.ask < j.read.price
<1>1. PriceTypeOK /\ j.ask # Unset
  BY DEF PriceInv, Edit
<1>2. ~outdated /\ j.read = offer /\ j.ask \in DropPrices /\ j.ask \in Nat /\ offer.price \in Nat
  BY <1>1, EditRow, PriceDropAssumption DEF Edit, End, PriceTypeOK, Columns
<1>3. /\ DOMAIN changes = 1..n /\ n \in Nat
      /\ \A i \in 1..n : changes[i] \in Change
      /\ \A i \in 1..n : changes[i].status = "PENDING" => i = n /\ changes[i].new = offer.pending
  BY <1>1, <1>2, RowTyped DEF PriceInv, LogFits, WithStatus
<1>4. ASSUME NEW i \in 1..n, changes[i].status = "PENDING"
      PROVE  offer.pending # Unset
  BY <1>3, <1>4, PriceDropAssumption DEF Change, Unset
<1>5. /\ Len(changes') = n + 1 /\ DOMAIN changes' = 1..(n + 1)
      /\ changes'[n + 1].old = offer.price /\ changes'[n + 1].new = j.ask
      /\ changes'[n + 1].status = IF drop THEN "PENDING" ELSE "DIRECT_EDIT"
      /\ \A i \in 1..n : /\ changes'[i].old = changes[i].old /\ changes'[i].new = changes[i].new
                         /\ changes'[i].status = IF changes[i].status = "PENDING" THEN "CANCELLED"
                                                 ELSE changes[i].status
  BY <1>1, <1>2, <1>4, EditLog DEF Edit
<1>6. /\ offer'.anchor = offer.anchor
      /\ offer'.price = IF drop THEN offer.price ELSE j.ask
      /\ offer'.pending = IF drop THEN j.ask ELSE Unset
  BY <1>1, <1>2 DEF Edit, Scheduled, Raised, PriceTypeOK, Columns
<1> HIDE DEF n, drop
<1>7. WithStatus("PENDING")' = IF drop THEN {n + 1} ELSE {}
  BY <1>3, <1>5 DEF WithStatus
<1>8. WithStatus("APPLIED")' = WithStatus("APPLIED") /\ WithStatus("APPLIED") \subseteq 1..n
  BY <1>3, <1>5 DEF WithStatus
<1>9. /\ InForce' = IF drop THEN InForce ELSE InForce \cup {n + 1}
      /\ InForce \subseteq 1..n
  BY <1>3, <1>5 DEF WithStatus, InForce
<1>10. InForce' # {} => \E i \in InForce' : /\ \A k \in InForce' : k <= i
                                            /\ offer'.price = changes'[i].new
  <2>1. CASE drop
    BY <1>2, <1>5, <1>6, <1>9, <2>1 DEF PriceInv, LogFits
  <2>2. CASE ~drop
    <3>1. n + 1 \in InForce' /\ \A k \in InForce' : k <= n + 1
      <4>1. InForce' = InForce \cup {n + 1} /\ InForce \subseteq 1..n
        BY <1>9, <2>2
      <4>2. \A k \in 1..n : k <= n + 1
        BY <1>3
      <4>3. n + 1 <= n + 1
        BY <1>3
      <4> QED
        BY <4>1, <4>2, <4>3
    <3> QED
      BY <1>5, <1>6, <2>2, <3>1
  <2> QED
    BY <2>1, <2>2
<1>11. WithStatus("APPLIED")' = {} => offer'.anchor = Unset
  BY <1>2, <1>6, <1>8 DEF PriceInv, LogFits
<1>12. WithStatus("APPLIED")' # {} =>
         \E i \in WithStatus("APPLIED")' : /\ \A k \in WithStatus("APPLIED")' : i <= k
                                           /\ offer'.anchor = changes'[i].old
  BY <1>2, <1>5, <1>6, <1>8 DEF PriceInv, LogFits
<1>13. /\ offer'.pending # Unset => Len(changes') \in WithStatus("PENDING")'
       /\ \A i \in WithStatus("PENDING")' :
            i = Len(changes') /\ changes'[i].old = offer'.price /\ changes'[i].new = offer'.pending
  BY <1>5, <1>6, <1>7
<1> QED
  BY <1>10, <1>11, <1>12, <1>13 DEF LogFits

LEMMA LogStep == PriceTypeOK /\ JobsFit /\ LogFits /\ [PriceNext]_priceVars => LogFits'
<1> SUFFICES ASSUME PriceInv, [PriceNext]_priceVars PROVE LogFits'
  BY DEF PriceInv
<1>1. CASE UNCHANGED priceVars
  BY <1>1, LogKept DEF priceVars, PriceInv
<1>2. ASSUME NEW p, Begin(p) PROVE LogFits'
  BY <1>2, LogKept DEF Begin, PriceInv
<1>3. CASE DelayPasses \/ ReserveOrRelease
  BY <1>3, LogKept DEF DelayPasses, ReserveOrRelease, PriceInv, PriceTypeOK, Columns
<1> QED
  BY <1>1, <1>2, <1>3, PromoteFits, EditFits DEF PriceNext, ReadExpired, ReadForEdit

\* What the invariant says is what the listing and its log promise.
LEMMA FitsMatches == PriceTypeOK /\ LogFits => LogMatchesListing
<1> SUFFICES ASSUME PriceTypeOK, LogFits, ~outdated
             PROVE  /\ { changes[i].new : i \in WithStatus("PENDING") } = {offer.pending} \ {Unset}
                    /\ \A i, k \in WithStatus("PENDING") : i = k
                    /\ InForce # {} => offer.price = changes[Last(InForce)].new
                    /\ offer.anchor = IF WithStatus("APPLIED") = {} THEN Unset
                                      ELSE changes[First(WithStatus("APPLIED"))].old
  BY DEF LogMatchesListing
<1>1. ASSUME NEW i \in WithStatus("PENDING")
      PROVE  i = Len(changes) /\ changes[i].new = offer.pending /\ offer.pending # Unset
  <2>1. changes[i] \in Change
    BY RowTyped DEF WithStatus
  <2> QED
    BY <2>1, PriceDropAssumption DEF LogFits, Change, Unset
<1>2. { changes[i].new : i \in WithStatus("PENDING") } = {offer.pending} \ {Unset}
  <2>1. CASE offer.pending = Unset
    BY <1>1, <2>1
  <2>2. CASE offer.pending # Unset
    BY <1>1, <2>2 DEF LogFits
  <2> QED
    BY <2>1, <2>2
<1>3. InForce \subseteq Nat /\ WithStatus("APPLIED") \subseteq Nat
  BY RowTyped DEF InForce, WithStatus
<1>4. ASSUME InForce # {} PROVE offer.price = changes[Last(InForce)].new
  <2>1. PICK i \in InForce : (\A k \in InForce : k <= i) /\ offer.price = changes[i].new
    BY <1>4 DEF LogFits
  <2>2. Last(InForce) \in InForce /\ \A k \in InForce : k <= Last(InForce)
    BY <2>1 DEF Last
  <2>3. Last(InForce) = i
    <3>1. i \in Nat /\ Last(InForce) \in Nat /\ i <= Last(InForce) /\ Last(InForce) <= i
      BY <1>3, <2>1, <2>2
    <3> QED
      BY <3>1
  <2> QED
    BY <2>1, <2>3
<1>5. ASSUME WithStatus("APPLIED") # {}
      PROVE  offer.anchor = changes[First(WithStatus("APPLIED"))].old
  <2> DEFINE s == WithStatus("APPLIED")
  <2>1. PICK i \in s : (\A k \in s : i <= k) /\ offer.anchor = changes[i].old
    BY <1>5 DEF LogFits
  <2>2. First(s) \in s /\ \A k \in s : First(s) <= k
    BY <2>1 DEF First
  <2>3. First(s) = i
    <3>1. i \in Nat /\ First(s) \in Nat /\ i <= First(s) /\ First(s) <= i
      BY <1>3, <2>1, <2>2
    <3> QED
      BY <3>1
  <2> QED
    BY <2>1, <2>3
<1> QED
  BY <1>1, <1>2, <1>4, <1>5 DEF LogFits

(* However often a price moves: a pending drop is in the log once and on the    *)
(* listing, the price is that of the last change in force, and the anchor the   *)
(* price before the first drop that took effect (update, promoteExpiredDrops).  *)
THEOREM LogAgreesWithListing == PriceSpec => []LogMatchesListing
<1>1. PriceInit => LogFits
  BY DEF PriceInit, LogFits, WithStatus, InForce
<1> QED
  BY <1>1, LogStep, FitsMatches, PriceTypedAlways, PTL DEF PriceSpec
=============================================================================
