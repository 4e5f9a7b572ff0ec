---------------------------- MODULE Negotiation ----------------------------
(***************************************************************************)
(* The offers of one conversation between a buyer and a seller              *)
(* (offers.service.ts, offers.cron.ts).  Reservation asks what an accepted  *)
(* offer does to the listing; here it is the exchange itself: proposals,     *)
(* counters, answers, and offers that grow old.                              *)
(*                                                                         *)
(* A request reads and checks, awaits, and writes; asks holds what it read.  *)
(* The history variable crossed says that a write came after another had     *)
(* changed what its request relied on; no action depends on it.               *)
(***************************************************************************)
EXTENDS Naturals, Sequences, FiniteSets

CONSTANTS
    MAX_OFFERS,     \* bound: offers in the conversation
    MAX_ASKS,       \* bound: requests and sweeps in flight together
    TALK_ON         \* bound: whether behaviours continue once requests have crossed

ASSUME NegotiationAssumption ==
    /\ {MAX_OFFERS, MAX_ASKS} \subseteq Nat
    /\ TALK_ON \in BOOLEAN

VARIABLES
    bids,       \* rows of Offer in this conversation, oldest first
    onSale,     \* the listing is ACTIVE
    asks,       \* requests in flight
    crossed     \* history

talkVars == <<bids, onSale, asks, crossed>>

Parties == {"BUYER", "SELLER"}
Other(p) == IF p = "BUYER" THEN "SELLER" ELSE "BUYER"

BidStatuses == {"PENDING", "ACCEPTED", "REJECTED", "COUNTERED", "WITHDRAWN", "EXPIRED"}
BidRow == [by : Parties, status : BidStatuses, parent : 0..MAX_OFFERS,
           round : 1..MAX_OFFERS, old : BOOLEAN]
BidIds == DOMAIN bids
Open == { k \in BidIds : bids[k].status = "PENDING" }

\* What a request is about to do, the status it has read of the offer it is on, and,
\* if it makes an offer, what it has counted.  NoBid: no parent.
NoBid == 0
Ask == [op : {"create", "accept", "reject", "withdraw", "expire"}, by : Parties,
        on : 0..MAX_OFFERS, was : BidStatuses, count : 0..MAX_OFFERS]

Take(op, p, k) ==
    /\ Cardinality(asks) < MAX_ASKS
    /\ asks' = asks \cup {[op |-> op, by |-> p, on |-> k,
                           was |-> IF k = NoBid THEN "PENDING" ELSE bids[k].status,
                           count |-> IF op = "create" THEN Len(bids) ELSE 0]}
    /\ UNCHANGED <<bids, onSale, crossed>>

Done(a) == asks' = asks \ {a}
Mark(k, st) == bids' = [bids EXCEPT ![k].status = st]
Noticed(relied) == crossed' = (crossed \/ ~relied)

-----------------------------------------------------------------------------
(* createOffer and counterOffer *)

\* What is pending must be the parent, and one does not counter one's own offer.
AskToCreate(p, parent) ==
    /\ onSale
    /\ Open = {} \/ parent \in Open
    /\ parent # NoBid => bids[parent].by # p
    /\ Len(bids) < MAX_OFFERS
    /\ Take("create", p, parent)

\* Variant: the new offer leaves its parent pending.
CreateBeside(a) ==
    /\ a.op = "create"
    /\ Len(bids) < MAX_OFFERS
    /\ bids' = Append(bids, [by |-> a.by, status |-> "PENDING", parent |-> a.on,
                             round |-> a.count + 1, old |-> FALSE])
    /\ Noticed(Open \subseteq {a.on} /\ Len(bids) = a.count)
    /\ Done(a)
    /\ UNCHANGED onSale

\* One transaction answers the parent and makes the child; the round is what was counted.
Create(a) ==
    /\ a.op = "create"
    /\ Len(bids) < MAX_OFFERS
    /\ bids' = Append([k \in BidIds |-> IF k = a.on /\ k \in Open
                                        THEN [bids[k] EXCEPT !.status = "COUNTERED"] ELSE bids[k]],
                      [by |-> a.by, status |-> "PENDING", parent |-> a.on,
                       round |-> a.count + 1, old |-> FALSE])
    /\ Noticed(Open \subseteq {a.on} /\ Len(bids) = a.count)
    /\ Done(a)
    /\ UNCHANGED onSale

-----------------------------------------------------------------------------
(* acceptOffer, rejectOffer, withdrawOffer *)

\* An offer past its time is expired by whoever would accept it, whatever its status.
AskToAccept(k) ==
    IF bids[k].old THEN Take("expire", Other(bids[k].by), k)
                   ELSE k \in Open /\ Take("accept", Other(bids[k].by), k)

AskToReject(k) == k \in Open /\ Take("reject", Other(bids[k].by), k)

AskToWithdraw(k) == k \in Open /\ Take("withdraw", bids[k].by, k)

\* Variant: answered offers are withdrawn with the open ones.
AcceptClosesAll(a) ==
    /\ a.op = "accept"
    /\ IF onSale
       THEN /\ bids' = [k \in BidIds |->
                  IF k = a.on THEN [bids[k] EXCEPT !.status = "ACCEPTED"]
                  ELSE [bids[k] EXCEPT !.status = "WITHDRAWN"]]
            /\ onSale' = FALSE
            /\ Noticed(a.on \in Open)
       ELSE UNCHANGED <<bids, onSale, crossed>>
    /\ Done(a)

\* The listing is taken in the same transaction, which closes the other offers.
Accept(a) ==
    /\ a.op = "accept"
    /\ IF onSale
       THEN /\ bids' = [k \in BidIds |->
                  IF k = a.on THEN [bids[k] EXCEPT !.status = "ACCEPTED"]
                  ELSE IF k \in Open THEN [bids[k] EXCEPT !.status = "WITHDRAWN"]
                  ELSE bids[k]]
            /\ onSale' = FALSE
            /\ Noticed(a.on \in Open)
       ELSE UNCHANGED <<bids, onSale, crossed>>
    /\ Done(a)

Answer(a) ==
    /\ a.op \in {"reject", "withdraw"}
    /\ Mark(a.on, IF a.op = "reject" THEN "REJECTED" ELSE "WITHDRAWN")
    /\ Noticed(a.on \in Open)
    /\ Done(a)
    /\ UNCHANGED onSale

-----------------------------------------------------------------------------
(* getOffer, and the sweeps of offers.cron.ts *)

\* Both find a pending offer past its time; neither writes under that condition.
FindExpired(k) == k \in Open /\ bids[k].old /\ Take("expire", bids[k].by, k)

Expire(a) ==
    /\ a.op = "expire"
    /\ Mark(a.on, "EXPIRED")
    /\ Noticed(bids[a.on].status = a.was)
    /\ Done(a)
    /\ UNCHANGED onSale

\* sweepPaymentDeadlines: no order came of an accepted offer.
SweepAccepted(k) ==
    /\ bids[k].status = "ACCEPTED"
    /\ Mark(k, "WITHDRAWN")
    /\ onSale' = TRUE
    /\ UNCHANGED <<asks, crossed>>

\* 24 hours pass, for earlier offers first.
GrowOld(k) ==
    /\ ~bids[k].old
    /\ \A j \in BidIds : j < k => bids[j].old
    /\ bids' = [bids EXCEPT ![k].old = TRUE]
    /\ UNCHANGED <<onSale, asks, crossed>>

\* Other buyers come and go.
OthersTakeOrLeave ==
    /\ \A k \in BidIds : bids[k].status # "ACCEPTED"
    /\ onSale' = ~onSale
    /\ UNCHANGED <<bids, asks, crossed>>

TalkInit ==
    /\ bids = <<>>
    /\ onSale = TRUE
    /\ asks = {}
    /\ crossed = FALSE

TalkStep ==
    \/ \E p \in Parties, parent \in BidIds \cup {NoBid} : AskToCreate(p, parent)
    \/ \E k \in BidIds : \/ AskToAccept(k) \/ AskToReject(k) \/ AskToWithdraw(k)
                         \/ FindExpired(k) \/ SweepAccepted(k) \/ GrowOld(k)
    \/ \E a \in asks : Create(a) \/ Accept(a) \/ Answer(a) \/ Expire(a)
    \/ OthersTakeOrLeave

TalkNext == (TALK_ON \/ ~crossed) /\ TalkStep

TalkSpec == TalkInit /\ [][TalkNext]_talkVars

-----------------------------------------------------------------------------
(* Properties. *)

TalkTypeOK ==
    /\ bids \in Seq(BidRow)
    /\ onSale \in BOOLEAN
    /\ asks \subseteq Ask
    /\ crossed \in BOOLEAN

(* While requests do not cross, one offer at most waits for an answer, and    *)
(* the rounds count the offers of the conversation (createOffer: "1 pending   *)
(* at a time", roundNumber).                                                  *)
OffersInTurn ==
    ~crossed => Cardinality(Open) <= 1 /\ \A k \in BidIds : bids[k].round = k

(* An answer stands: while requests do not cross, only a pending offer is      *)
(* answered, and of the answered ones an accepted one is given up for want of   *)
(* an order, with one exception that needs no crossing: whoever accepts an     *)
(* offer past its age once more has it EXPIRED, since acceptOffer looks at the  *)
(* age before the status.                                                     *)
AnswerStands ==
    [][ ~crossed' => \A k \in BidIds :
            \/ bids'[k].status = bids[k].status
            \/ bids[k].status = "PENDING"
            \/ bids[k].status = "ACCEPTED" /\ bids'[k].status = "WITHDRAWN"
            \/ bids[k].old /\ bids'[k].status = "EXPIRED" ]_talkVars
=============================================================================
