-------------------------- MODULE ReservationProofs --------------------------
(***************************************************************************)
(* Proofs about Reservation, for any orders, offers, prices and number of   *)
(* requests in flight.                                                      *)
(***************************************************************************)
EXTENDS Reservation, TLAPS

-----------------------------------------------------------------------------
(* Type correctness. *)

\* The requests there are.
LEMMA OpTypes ==
    /\ \A n \in OrderOps, o \in Orders : Op(n, o) \in Ops
    /\ \A n \in OfferOps, f \in Offers : Op(n, f) \in Ops
    /\ \A n \in ListingOps : Op(n, NONE) \in Ops
    /\ Drafts \subseteq Ops
    /\ Bids \subseteq Ops
  BY DEF Ops

\* What a request in flight is about.
LEMMA BusyOf ==
  ASSUME TypeOK, NEW s \in Slots
  PROVE  /\ \A n \in OrderOps : Doing(s, n) => busy[s].id \in Orders
         /\ \A n \in OfferOps : Doing(s, n) => busy[s].id \in Offers
         /\ Doing(s, "createFromListing") => busy[s] \in Drafts
         /\ Doing(s, "createOffer") => busy[s] \in Bids
<1>1. busy[s] \in Ops \cup {Idle}
  BY DEF TypeOK
<1> QED
  BY <1>1 DEF Ops, Op, Idle, Doing, OrderOps, OfferOps, ListingOps, Drafts, Bids

\* Beginning or ending a request keeps the slots well typed.
LEMMA SlotType ==
  ASSUME TypeOK, NEW s \in Slots, NEW op \in Ops, Start(s, op) \/ Finish(s)
  PROVE  busy' \in [Slots -> Ops \cup {Idle}]
  BY DEF TypeOK, Start, Finish

LEMMA StartType ==
  ASSUME TypeOK, NEW s \in Slots, NEW op \in Ops, Start(s, op)
  PROVE  TypeOK'
<1>1. busy' \in [Slots -> Ops \cup {Idle}]
  BY SlotType
<1> QED
  BY <1>1 DEF TypeOK, Start

LEMMA FinishType ==
  ASSUME TypeOK, NEW s \in Slots, Finish(s)
  PROVE  busy' \in [Slots -> Ops \cup {Idle}]
  BY DEF TypeOK, Finish

\* A cause that is noted is one of the causes.
LEMMA NoteType ==
  ASSUME TypeOK, NEW cause \in Causes \cup {NONE}, NEW fresh \in BOOLEAN,
         Note(cause) \/ NoteStale(fresh, cause) \/ UNCHANGED slip
  PROVE  slip' \in Causes \cup {NONE}
  BY DEF TypeOK, Note, NoteStale, Causes

\* The rows that are written.
LEMMA RowTypes ==
    /\ \A row \in OrderRow, st \in OrderStatuses : [row EXCEPT !.status = st] \in OrderRow
    /\ \A row \in OrderRow, c \in OrderClocks : [row EXCEPT !.clock = c] \in OrderRow
    /\ \A row \in OfferRow, st \in OfferStatuses :
         /\ [row EXCEPT !.status = st] \in OfferRow
         /\ [row EXCEPT !.status = st, !.lapsed = FALSE] \in OfferRow
    /\ \A row \in OfferRow : [row EXCEPT !.expired = TRUE] \in OfferRow
    /\ \A row \in OfferRow : [row EXCEPT !.lapsed = TRUE] \in OfferRow
    /\ \A row \in Listings : \A st \in {"ACTIVE", "RESERVED", "SOLD"} : [row EXCEPT !.status = st] \in Listings
    /\ OnSale \in Listings /\ Removed("SELLER") \in Listings /\ Removed("ADMIN") \in Listings
    /\ NoOrder \in OrderRow /\ NoOffer \in OfferRow
  BY ReservationAssumption
     DEF OrderRow, OfferRow, Listings, OnSale, Removed, NoOrder, NoOffer, OrderStatuses,
         OfferStatuses, OrderClocks

LEMMA OrderStepType ==
  ASSUME TypeOK, NEW s \in Slots, OrderStep(s)
  PROVE  TypeOK'
<1>1. CASE CreateFromListing(s)
  <2>1. CASE \E op \in Drafts : Start(s, op)
    BY <2>1, StartType, OpTypes
  <2>2. CASE Doing(s, "createFromListing") /\ ~ \E op \in Drafts : Start(s, op)
    <3>1. busy[s] \in Drafts
      BY <2>2, BusyOf
    <3>2. [status |-> "AWAITING_PAYMENT", clock |-> "DRAFT",
           pay |-> busy[s].pay, via |-> busy[s].via] \in OrderRow
      BY <3>1 DEF Drafts, OrderRow, OrderStatuses, OrderClocks
    <3>3. orders' \in [Orders -> OrderRow] /\ UNCHANGED <<offers, listing, holder>> /\ Finish(s)
      BY <1>1, <2>2, <3>2 DEF CreateFromListing, TypeOK
    <3>4. slip' \in Causes \cup {NONE}
      BY <1>1, <2>2 DEF CreateFromListing, NoteStale, Note, TypeOK, Causes
    <3> QED
      BY <3>3, <3>4, FinishType DEF TypeOK
  <2> QED
    BY <1>1, <2>1, <2>2 DEF CreateFromListing
<1>2. CASE ConfirmReview(s)
  <2>1. CASE \E o \in Orders : Start(s, Op("confirmReview", o))
    BY <2>1, StartType, OpTypes DEF OrderOps
  <2>2. CASE ~ \E o \in Orders : Start(s, Op("confirmReview", o))
    <3>1. Doing(s, "confirmReview") /\ Finish(s) /\ UNCHANGED offers /\ busy[s].id \in Orders
      BY <1>2, <2>2, BusyOf DEF ConfirmReview, OrderOps
    <3>2. orders' \in [Orders -> OrderRow]
      BY <1>2, <2>2, <3>1, RowTypes DEF ConfirmReview, TypeOK, OrderClocks
    <3>3. listing' \in Listings
      BY <1>2, <2>2, RowTypes DEF ConfirmReview, TypeOK, Reserved
    <3>4. holder' \in Orders \cup Offers \cup {NONE}
      BY <1>2, <2>2, <3>1 DEF ConfirmReview, TypeOK
    <3>5. slip' \in Causes \cup {NONE}
      BY <1>2, <2>2 DEF ConfirmReview, NoteStale, Note, SteppedOn, TypeOK, Causes
    <3> QED
      BY <3>1, <3>2, <3>3, <3>4, <3>5, FinishType DEF TypeOK
  <2> QED
    BY <2>1, <2>2
<1>3. CASE MarkPaid(s)
  <2>1. CASE \E o \in Orders : Start(s, Op("markPaid", o))
    BY <2>1, StartType, OpTypes DEF OrderOps
  <2>2. CASE ~ \E o \in Orders : Start(s, Op("markPaid", o))
    <3>1. Finish(s) /\ UNCHANGED <<offers, listing>> /\ busy[s].id \in Orders
      BY <1>3, <2>2, BusyOf DEF MarkPaid, OrderOps
    <3>2. orders' = [orders EXCEPT ![busy[s].id].status = "PAID"]
          /\ holder' \in {busy[s].id, holder}
      BY <1>3, <2>2 DEF MarkPaid
    <3>4. [orders[busy[s].id] EXCEPT !.status = "PAID"] \in OrderRow
      BY <3>1, RowTypes DEF TypeOK, OrderStatuses
    <3>5. orders' \in [Orders -> OrderRow]
      BY <3>1, <3>2, <3>4 DEF TypeOK
    <3>3. slip' \in Causes \cup {NONE}
      BY <1>3, <2>2 DEF MarkPaid, NoteStale, Note, TypeOK, Causes
    <3> QED
      BY <3>1, <3>2, <3>3, <3>5, FinishType DEF TypeOK
  <2> QED
    BY <2>1, <2>2
<1>4. CASE SweepPaymentExpired(s)
  <2>1. CASE \E o \in Orders : Start(s, Op("sweepPaymentExpired", o))
    BY <2>1, StartType, OpTypes DEF OrderOps
  <2>2. CASE ~ \E o \in Orders : Start(s, Op("sweepPaymentExpired", o))
    <3>1. Finish(s) /\ UNCHANGED <<offers, slip>> /\ busy[s].id \in Orders
      BY <1>4, <2>2, BusyOf DEF SweepPaymentExpired, OrderOps
    <3>2. Relist(s, busy[s].id) \/ UNCHANGED <<orders, listing, holder>>
      BY <1>4, <2>2 DEF SweepPaymentExpired
    <3>3. [orders[busy[s].id] EXCEPT !.status = "PAYMENT_EXPIRED"] \in OrderRow
      BY <3>1, RowTypes DEF TypeOK, OrderStatuses
    <3>4. orders' \in [Orders -> OrderRow]
      BY <3>1, <3>2, <3>3 DEF TypeOK, Relist
    <3>5. [listing EXCEPT !.status = "ACTIVE"] \in Listings
      BY RowTypes DEF TypeOK
    <3>6. listing' \in Listings /\ holder' \in Orders \cup Offers \cup {NONE}
      BY <3>2, <3>5 DEF Relist, TypeOK
    <3> QED
      BY <3>1, <3>4, <3>6, FinishType DEF TypeOK
  <2> QED
    BY <2>1, <2>2
<1> QED
  BY <1>1, <1>2, <1>3, <1>4 DEF OrderStep

\* The offers that acceptance leaves behind.
LEMMA AcceptedType ==
  ASSUME TypeOK, NEW f \in Offers
  PROVE  Accepted(f) \in [Offers -> OfferRow]
<1>1. \A g \in Offers : /\ [offers[g] EXCEPT !.status = "ACCEPTED", !.lapsed = FALSE] \in OfferRow
                       /\ [offers[g] EXCEPT !.status = "CLOSED"] \in OfferRow
  BY RowTypes DEF TypeOK, OfferStatuses
<1> QED
  BY <1>1 DEF Accepted, TypeOK

\* Closing an offer, whoever does it and for whatever reason.
LEMMA CloseType ==
  ASSUME TypeOK, NEW f \in Offers, SetOffer(f, "CLOSED")
  PROVE  offers' \in [Offers -> OfferRow]
<1>1. [offers[f] EXCEPT !.status = "CLOSED"] \in OfferRow
  BY RowTypes DEF TypeOK, OfferStatuses
<1> QED
  BY <1>1 DEF SetOffer, TypeOK

LEMMA OfferStepType ==
  ASSUME TypeOK, NEW s \in Slots, OfferStep(s)
  PROVE  TypeOK'
<1>1. CASE CreateOffer(s)
  <2>1. CASE \E op \in Bids : Start(s, op)
    BY <2>1, StartType, OpTypes
  <2>2. CASE ~ \E op \in Bids : Start(s, op)
    <3>1. busy[s] \in Bids /\ Finish(s) /\ UNCHANGED <<orders, listing, holder>>
      BY <1>1, <2>2, BusyOf DEF CreateOffer
    <3>2. [NoOffer EXCEPT !.status = "PENDING", !.price = busy[s].price] \in OfferRow
      BY <3>1 DEF Bids, NoOffer, OfferRow, OfferStatuses
    <3>3. offers' \in [Offers -> OfferRow]
      BY <1>1, <2>2, <3>2 DEF CreateOffer, TypeOK
    <3>4. slip' \in Causes \cup {NONE}
      BY <1>1, <2>2 DEF CreateOffer, NoteStale, Note, TypeOK, Causes
    <3> QED
      BY <3>1, <3>3, <3>4, FinishType DEF TypeOK
  <2> QED
    BY <2>1, <2>2
<1>2. CASE AcceptOffer(s)
  <2>1. CASE \E f \in Offers : Start(s, Op("acceptOffer", f))
    BY <2>1, StartType, OpTypes DEF OfferOps
  <2>2. CASE ~ \E f \in Offers : Start(s, Op("acceptOffer", f))
    <3>1. Finish(s) /\ UNCHANGED orders /\ busy[s].id \in Offers
      BY <1>2, <2>2, BusyOf DEF AcceptOffer, OfferOps
    <3>2. offers' \in [Offers -> OfferRow]
      BY <1>2, <2>2, <3>1, AcceptedType DEF AcceptOffer, TypeOK
    <3>3. Reserved \in Listings
      BY RowTypes DEF TypeOK, Reserved
    <3>4. listing' \in Listings /\ holder' \in Orders \cup Offers \cup {NONE}
      BY <1>2, <2>2, <3>1, <3>3 DEF AcceptOffer, TypeOK
    <3>5. slip' \in Causes \cup {NONE}
      BY <1>2, <2>2 DEF AcceptOffer, NoteStale, Note, TypeOK, Causes
    <3> QED
      BY <3>1, <3>2, <3>4, <3>5, FinishType DEF TypeOK
  <2> QED
    BY <2>1, <2>2
<1>3. CASE AcceptLate(s) \/ AnswerOffer(s) \/ ExpireOffer(s)
  <2>1. CASE \E n \in OfferOps, f \in Offers : Start(s, Op(n, f))
    BY <2>1, StartType, OpTypes
  <2>2. CASE ~ \E n \in OfferOps, f \in Offers : Start(s, Op(n, f))
    <3>1. Finish(s) /\ UNCHANGED <<orders, listing, holder>> /\ busy[s].id \in Offers
          /\ SetOffer(busy[s].id, "CLOSED")
      BY <1>3, <2>2, BusyOf DEF AcceptLate, AnswerOffer, ExpireOffer, OfferOps
    <3>2. slip' \in Causes \cup {NONE}
      BY <1>3, <2>2 DEF AcceptLate, AnswerOffer, ExpireOffer, NoteStale, Note, TypeOK, Causes, OfferOps
    <3> QED
      BY <3>1, <3>2, CloseType, FinishType DEF TypeOK
  <2> QED
    BY <2>1, <2>2
<1>4. CASE SweepPaymentDeadline(s)
  <2>1. CASE \E f \in Offers : Start(s, Op("sweepPaymentDeadline", f))
    BY <2>1, StartType, OpTypes DEF OfferOps
  <2>2. CASE ~ \E f \in Offers : Start(s, Op("sweepPaymentDeadline", f))
    <3>1. Finish(s) /\ UNCHANGED orders /\ busy[s].id \in Offers /\ SetOffer(busy[s].id, "CLOSED")
          /\ listing' \in {listing, [listing EXCEPT !.status = "ACTIVE"]} /\ holder' \in {holder, NONE}
      BY <1>4, <2>2, BusyOf DEF SweepPaymentDeadline, OfferOps
    <3>2. [listing EXCEPT !.status = "ACTIVE"] \in Listings
      BY RowTypes DEF TypeOK
    <3>3. slip' \in Causes \cup {NONE}
      BY <1>4, <2>2 DEF SweepPaymentDeadline, NoteStale, Note, TypeOK, Causes
    <3> QED
      BY <3>1, <3>2, <3>3, CloseType, FinishType DEF TypeOK
  <2> QED
    BY <2>1, <2>2
<1> QED
  BY <1>1, <1>2, <1>3, <1>4 DEF OfferStep

LEMMA ListingStepType ==
  ASSUME TypeOK, NEW s \in Slots, ListingStep(s)
  PROVE  TypeOK'
<1>1. CASE \E n \in ListingOps : Start(s, Op(n, NONE))
  BY <1>1, StartType, OpTypes
<1>2. CASE ~ \E n \in ListingOps : Start(s, Op(n, NONE))
  <2>1. /\ Finish(s) /\ UNCHANGED <<orders, offers>>
        /\ listing' \in {Removed("SELLER"), Removed("ADMIN"), OnSale}
        /\ holder' \in {holder, NONE}
    BY <1>2 DEF ListingStep, SoftDelete, RestoreOwn, RemoveListing, RestoreListing, ListingWrite,
                ListingOps
  <2>2. slip' \in Causes \cup {NONE}
    BY <1>2 DEF ListingStep, SoftDelete, RestoreOwn, RemoveListing, RestoreListing, ListingWrite,
                ListingOps, NoteStale, Note, TypeOK, Causes
  <2> QED
    BY <2>1, <2>2, RowTypes, FinishType DEF TypeOK
<1> QED
  BY <1>1, <1>2

LEMMA OtherStepType ==
  ASSUME TypeOK,
         \/ \E s \in Slots : Fail(s)
         \/ \E o \in Orders : ConfirmFromMock(o) \/ CloseOrder(o)
         \/ SweepDrafts \/ TimePasses
  PROVE  TypeOK'
<1>1. ASSUME NEW s \in Slots, Fail(s) PROVE TypeOK'
  BY <1>1, FinishType DEF Fail, TypeOK
<1>2. ASSUME NEW o \in Orders, ConfirmFromMock(o) PROVE TypeOK'
  <2>1. [orders[o] EXCEPT !.status = "PAID"] \in OrderRow
    BY RowTypes DEF TypeOK, OrderStatuses
  <2>2. slip' \in Causes \cup {NONE}
    BY <1>2 DEF ConfirmFromMock, Note, TypeOK, Causes
  <2> QED
    BY <1>2, <2>1, <2>2 DEF ConfirmFromMock, TypeOK
<1>3. ASSUME NEW o \in Orders, CloseOrder(o) PROVE TypeOK'
  <2>1. /\ [orders[o] EXCEPT !.status = "COMPLETED"] \in OrderRow
        /\ [orders[o] EXCEPT !.status = "REFUNDED"] \in OrderRow
        /\ [listing EXCEPT !.status = "SOLD"] \in Listings
        /\ [listing EXCEPT !.status = "ACTIVE"] \in Listings
    BY RowTypes DEF TypeOK, OrderStatuses
  <2> QED
    BY <1>3, <2>1 DEF CloseOrder, TypeOK
<1>4. CASE SweepDrafts
  <2>1. \A o \in Orders : [orders[o] EXCEPT !.status = "PAYMENT_EXPIRED"] \in OrderRow
    BY RowTypes DEF TypeOK, OrderStatuses
  <2>2. orders' \in [Orders -> OrderRow]
    BY <1>4, <2>1 DEF SweepDrafts, TypeOK
  <2>3. slip' \in Causes \cup {NONE}
    BY <1>4 DEF SweepDrafts, Note, TypeOK, Causes
  <2> QED
    BY <1>4, <2>2, <2>3 DEF SweepDrafts, TypeOK
<1>5. CASE TimePasses
  <2>1. \A o \in Orders, c \in OrderClocks : [orders[o] EXCEPT !.clock = c] \in OrderRow
    BY RowTypes DEF TypeOK
  <2>2. \A f \in Offers : /\ [offers[f] EXCEPT !.expired = TRUE] \in OfferRow
                          /\ [offers[f] EXCEPT !.lapsed = TRUE] \in OfferRow
    BY RowTypes DEF TypeOK
  <2>3. orders' \in [Orders -> OrderRow]
    BY <1>5, <2>1 DEF TimePasses, TypeOK, OrderClocks
  <2>4. offers' \in [Offers -> OfferRow]
    BY <1>5, <2>2 DEF TimePasses, TypeOK
  <2> QED
    BY <1>5, <2>3, <2>4 DEF TimePasses, TypeOK
<1> QED
  BY <1>1, <1>2, <1>3, <1>4, <1>5

(* Every reachable state of the listing, its orders and its offers is well   *)
(* typed.                                                                   *)
THEOREM TypeCorrect == Spec => []TypeOK
<1>1. Init => TypeOK
  BY RowTypes DEF Init, TypeOK
<1>2. TypeOK /\ [Next]_vars => TypeOK'
  <2> SUFFICES ASSUME TypeOK, [Next]_vars PROVE TypeOK'
    OBVIOUS
  <2>1. CASE UNCHANGED vars
    BY <2>1 DEF vars, TypeOK
  <2>2. CASE Next
    BY <2>2, OrderStepType, OfferStepType, ListingStepType, OtherStepType DEF Next
  <2> QED
    BY <2>1, <2>2
<1> QED
  BY <1>1, <1>2, PTL DEF Spec

-----------------------------------------------------------------------------
(* What no interleaving can do. *)

(* However requests interleave, a paid or completed order never lapses: the *)
(* sweep's WHERE repeats the status (sweepPaymentExpired).                   *)
THEOREM PaidStays == Spec => PaidNeverLapses
<1>1. TypeOK /\ [Next]_vars =>
        [ \A o \in Orders : orders[o].status \in {"PAID", "COMPLETED"} =>
            orders'[o].status # "PAYMENT_EXPIRED" ]_vars
  <2> SUFFICES ASSUME TypeOK, Next, NEW o \in Orders, orders[o].status \in {"PAID", "COMPLETED"}
               PROVE  orders'[o].status # "PAYMENT_EXPIRED"
    BY DEF vars
  <2>1. ASSUME NEW s \in Slots, OrderStep(s) PROVE orders'[o].status # "PAYMENT_EXPIRED"
    BY <2>1 DEF TypeOK, OrderStep, Start, CreateFromListing, ConfirmReview, MarkPaid,
                SweepPaymentExpired, Relist, Unpaid, Exists, OrderRow
  <2>2. ASSUME NEW s \in Slots, OfferStep(s) \/ ListingStep(s) \/ Fail(s)
        PROVE  UNCHANGED orders
    BY <2>2 DEF OfferStep, ListingStep, Start, CreateOffer, AcceptOffer, AcceptLate, AnswerOffer,
                ExpireOffer, SweepPaymentDeadline, SoftDelete, RestoreOwn, RemoveListing,
                RestoreListing, ListingWrite, Fail
  <2>3. ASSUME NEW p \in Orders, ConfirmFromMock(p) \/ CloseOrder(p)
        PROVE  orders'[o].status # "PAYMENT_EXPIRED"
    BY <2>3 DEF TypeOK, ConfirmFromMock, CloseOrder, OrderRow
  <2>4. CASE SweepDrafts \/ TimePasses
    BY <2>4 DEF TypeOK, SweepDrafts, TimePasses, Unpaid, OrderRow
  <2> QED
    BY <2>1, <2>2, <2>3, <2>4 DEF Next
<1> QED
  BY <1>1, TypeCorrect, PTL DEF Spec, PaidNeverLapses

-----------------------------------------------------------------------------
(* One item, one claim: the named causes are the only ones.                  *)

\* A claim that is not over yet, and one that is.
Waiting(o) == Claim(o) /\ orders[o].status # "COMPLETED"
Completed(o) == orders[o].status = "COMPLETED"

WaitingHolds == \A o \in Orders : Waiting(o) => listing.status = "RESERVED" /\ holder = o
CompletedSold == \A o \in Orders : Completed(o) => listing.status = "SOLD"
OneCompleted == \A o, p \in Orders : Completed(o) /\ Completed(p) => o = p
SoldToSomebody == listing.status = "SOLD" => \E o \in Orders : Completed(o)
ReservedForHolder ==
    listing.status = "RESERVED" =>
        \/ holder \in Orders /\ Waiting(holder)
        \/ holder \in Offers /\ Expected(orders, offers, holder)
ViaWasOffered == \A o \in Orders : orders[o].via # NONE => orders[o].via \in Offers /\ Offered(orders[o].via)
SweptWasOverdue ==
    \A s \in Slots : Doing(s, "sweepPaymentExpired") =>
        Exists(busy[s].id) /\ orders[busy[s].id].clock = "ELAPSED"
AcceptedIsAwaited ==
    \A f \in Offers : offers[f].status = "ACCEPTED" =>
        \/ listing.status = "RESERVED" /\ holder = f
        \/ OrderAtPrice(f)

\* The inductive invariant: who waits, who is waited for, and what a sweep in flight
\* has seen.
Agreement ==
    slip = NONE =>
        /\ WaitingHolds /\ CompletedSold /\ OneCompleted /\ SoldToSomebody
        /\ ReservedForHolder /\ ViaWasOffered /\ SweptWasOverdue /\ AcceptedIsAwaited

\* No cause is forgotten.
LEMMA NoteKeeps ==
  ASSUME NEW cause, NEW fresh \in BOOLEAN, Note(cause) \/ NoteStale(fresh, cause), slip' = NONE
  PROVE  slip = NONE
  BY DEF Note, NoteStale

\* What is written while slip stays NONE was still allowed.
LEMMA NoteFresh ==
  ASSUME NEW cause, NEW fresh \in BOOLEAN, NoteStale(fresh, cause), slip' = NONE
  PROVE  fresh /\ cause = NONE
  BY CausesAssumption DEF Note, NoteStale, Causes

\* Beginning a request disturbs nothing.
LEMMA StartAgrees ==
  ASSUME TypeOK, Agreement, NEW s \in Slots, NEW op \in Ops, Start(s, op),
         op.name = "sweepPaymentExpired" => Exists(op.id) /\ orders[op.id].clock = "ELAPSED"
  PROVE  Agreement'
<1>1. UNCHANGED <<orders, offers, listing, holder, slip>>
  BY DEF Start
<1>2. SweptWasOverdue => SweptWasOverdue'
  BY <1>1 DEF Start, SweptWasOverdue, Doing, Exists, TypeOK
<1>3. AcceptedIsAwaited => AcceptedIsAwaited'
  BY <1>1 DEF AcceptedIsAwaited, OrderAtPrice, Exists, PriceOf
<1> QED
  BY <1>1, <1>2, <1>3 DEF Agreement, WaitingHolds, CompletedSold, OneCompleted, SoldToSomebody,
     ReservedForHolder, ViaWasOffered, Waiting, Completed, Claim, Unpaid, Confirmed, Expected, Offered

\* A write ends its own request and leaves the others.
LEMMA SweptKeeps ==
  ASSUME TypeOK, SweptWasOverdue, \A t \in Slots : busy'[t] \in {busy[t], Idle},
         \A o \in Orders : Exists(o) /\ orders[o].clock = "ELAPSED"
                             => Exists(o)' /\ orders'[o].clock = "ELAPSED"
  PROVE  SweptWasOverdue'
<1> SUFFICES ASSUME NEW t \in Slots, busy'[t].name = "sweepPaymentExpired"
             PROVE  orders'[busy'[t].id].status # "ABSENT" /\ orders'[busy'[t].id].clock = "ELAPSED"
  BY DEF SweptWasOverdue, Doing, Exists
<1>1. busy'[t] = busy[t]
  BY DEF Idle, Op
<1> QED
  BY <1>1, BusyOf DEF SweptWasOverdue, Doing, Exists, OrderOps

\* Orders that exist keep their price.
LEMMA PricesKeep ==
  ASSUME TypeOK, ViaWasOffered,
         \A o \in Orders : Exists(o) => Exists(o)' /\ orders'[o].via = orders[o].via,
         \A g \in Offers : Offered(g) => offers'[g].price = offers[g].price,
         NEW f \in Offers, Offered(f), OrderAtPrice(f)
  PROVE  OrderAtPrice(f)'
<1>1. PICK o \in Orders : Exists(o) /\ PriceOf(o) = offers[f].price
  BY DEF OrderAtPrice
<1>2. PriceOf(o)' = PriceOf(o)
  BY <1>1 DEF PriceOf, ViaWasOffered
<1> QED
  BY <1>1, <1>2 DEF OrderAtPrice

\* Nobody has a claim on an item that is on sale, removed, or kept for an offer.
LEMMA Unclaimable ==
  ASSUME TypeOK, Agreement, slip = NONE,
         \/ listing.status \in {"ACTIVE", "REMOVED"}
         \/ listing.status = "RESERVED" /\ holder \in Offers
  PROVE  \A o \in Orders : ~Claim(o)
  BY ReservationAssumption DEF Agreement, WaitingHolds, CompletedSold, Waiting, Completed

\* Only one order can have a claim on an item that is kept for it.
LEMMA Exclusive ==
  ASSUME TypeOK, Agreement, slip = NONE, NEW o \in Orders,
         listing.status = "RESERVED", holder \in {o} \cup Offers
  PROVE  \A p \in Orders \ {o} : ~Claim(p)
  BY ReservationAssumption DEF Agreement, WaitingHolds, CompletedSold, Waiting, Completed

\* The agreement after a write that leaves no claim, and after one that leaves one.
LEMMA NoClaimAgrees ==
  ASSUME \A o \in Orders : ~Claim(o)', listing'.status \in {"ACTIVE", "REMOVED"},
         ViaWasOffered', SweptWasOverdue',
         \A f \in Offers : offers'[f].status = "ACCEPTED" => OrderAtPrice(f)'
  PROVE  Agreement'
  BY DEF Agreement, WaitingHolds, CompletedSold, OneCompleted, SoldToSomebody, ReservedForHolder,
         AcceptedIsAwaited, Waiting, Completed, Claim

LEMMA SoleClaimAgrees ==
  ASSUME NEW o \in Orders, Waiting(o)', \A p \in Orders \ {o} : ~Claim(p)',
         listing'.status = "RESERVED", holder' = o,
         ViaWasOffered', SweptWasOverdue',
         \A f \in Offers : offers'[f].status = "ACCEPTED" => OrderAtPrice(f)'
  PROVE  Agreement'
  BY DEF Agreement, WaitingHolds, CompletedSold, OneCompleted, SoldToSomebody, ReservedForHolder,
         AcceptedIsAwaited, Waiting, Completed, Claim

\* A write that changes no claim, no listing and no holder.
LEMMA SameClaimsAgree ==
  ASSUME TypeOK, Agreement, slip = NONE, UNCHANGED <<listing, holder>>,
         \A o \in Orders : Claim(o)' = Claim(o) /\ Completed(o)' = Completed(o),
         holder \in Offers /\ listing.status = "RESERVED" => Expected(orders, offers, holder)',
         ViaWasOffered', SweptWasOverdue',
         \A f \in Offers : offers'[f].status = "ACCEPTED" =>
            (listing.status = "RESERVED" /\ holder = f) \/ OrderAtPrice(f)'
  PROVE  Agreement'
<1>1. \A o \in Orders : Waiting(o)' = Waiting(o)
  BY DEF Waiting, Completed
<1>2. WaitingHolds' /\ CompletedSold' /\ OneCompleted' /\ SoldToSomebody'
  BY <1>1 DEF Agreement, WaitingHolds, CompletedSold, OneCompleted, SoldToSomebody
<1>3. ReservedForHolder'
  BY <1>1 DEF Agreement, ReservedForHolder
<1>4. AcceptedIsAwaited'
  BY DEF AcceptedIsAwaited
<1> QED
  BY <1>2, <1>3, <1>4 DEF Agreement

\* The write of each handler, when nothing has slipped by its end.
LEMMA CreateAgrees ==
  ASSUME TypeOK, Agreement, NEW s \in Slots, CreateFromListing(s), slip' = NONE
  PROVE  Agreement'
<1>1. CASE \E op \in Drafts : Start(s, op)
  BY <1>1, StartAgrees, OpTypes DEF Drafts
<1>2. CASE ~ \E op \in Drafts : Start(s, op)
  <2> DEFINE op == busy[s]
             row == [status |-> "AWAITING_PAYMENT", clock |-> "DRAFT", pay |-> op.pay, via |-> op.via]
             now == [orders EXCEPT ![op.id] = row]
  <2>1. op \in Drafts
    BY <1>2, BusyOf DEF CreateFromListing
  <2>2. /\ ~Exists(op.id) /\ orders' = now /\ Finish(s) /\ UNCHANGED <<offers, listing, holder>>
        /\ NoteStale(MayDraft(op.via), IF Forsaken(now, offers, holder) THEN "LEFT_BEHIND" ELSE NONE)
    BY <1>2 DEF CreateFromListing
  <2> HIDE DEF op
  <2>3. MayDraft(op.via) /\ ~Forsaken(now, offers, holder)
    <3>1. MayDraft(op.via) \in BOOLEAN
      BY DEF MayDraft
    <3> QED
      BY <2>2, <3>1, NoteFresh, CausesAssumption DEF Causes
  <2>4. slip = NONE
    BY <2>2, NoteKeeps DEF MayDraft
  <2>5. op.id \in Orders /\ op.via \in Offers \cup {NONE}
    BY <2>1 DEF Drafts
  <2>6. orders' = now /\ orders'[op.id] = row /\ \A o \in Orders \ {op.id} : orders'[o] = orders[o]
    BY <2>2, <2>5 DEF TypeOK
  <2>7. \A o \in Orders : Claim(o)' = Claim(o) /\ Completed(o)' = Completed(o)
    BY <2>2, <2>6 DEF Claim, Completed, Unpaid, Confirmed, Exists
  <2>8. holder \in Offers => Expected(orders, offers, holder)'
    BY <2>2, <2>3, <2>6 DEF Forsaken
  <2>9. ViaWasOffered'
    BY <2>2, <2>3, <2>4, <2>5, <2>6 DEF Agreement, ViaWasOffered, Offered, MayDraft
  <2>10. SweptWasOverdue'
    BY <2>2, <2>4, <2>6, SweptKeeps DEF Agreement, Finish, TypeOK, Exists
  <2>11. ASSUME NEW f \in Offers, offers'[f].status = "ACCEPTED"
         PROVE  (listing.status = "RESERVED" /\ holder = f) \/ OrderAtPrice(f)'
    BY <2>2, <2>4, <2>6, <2>11, PricesKeep DEF Agreement, AcceptedIsAwaited, Exists, Offered
  <2> QED
    BY <2>2, <2>4, <2>7, <2>8, <2>9, <2>10, <2>11, SameClaimsAgree
<1> QED
  BY <1>1, <1>2

LEMMA ConfirmAgrees ==
  ASSUME TypeOK, Agreement, NEW s \in Slots, ConfirmReview(s), slip' = NONE
  PROVE  Agreement'
<1>1. CASE \E o \in Orders : Start(s, Op("confirmReview", o))
  BY <1>1, StartAgrees, OpTypes DEF OrderOps, Op
<1>2. CASE ~ \E o \in Orders : Start(s, Op("confirmReview", o))
  <2>0. PICK o \in Orders : Doing(s, "confirmReview") /\ o = busy[s].id
    BY <1>2, BusyOf DEF ConfirmReview, OrderOps
  <2>1. Finish(s) /\ UNCHANGED offers /\ o \in Orders
    BY <1>2 DEF ConfirmReview
  <2>2. CASE ~(Grabs(o) \/ ~Conflict(o))
    <3>1. UNCHANGED <<orders, offers, listing, holder, slip>>
      BY <1>2, <2>0, <2>2 DEF ConfirmReview
    <3>2. SweptWasOverdue => SweptWasOverdue'
      BY <2>1, <3>1, SweptKeeps DEF Finish, TypeOK, Exists
    <3>3. AcceptedIsAwaited => AcceptedIsAwaited'
      BY <3>1 DEF AcceptedIsAwaited, OrderAtPrice, Exists, PriceOf
    <3> QED
      BY <3>1, <3>2, <3>3 DEF Agreement, WaitingHolds, CompletedSold, OneCompleted, SoldToSomebody,
         ReservedForHolder, ViaWasOffered, Waiting, Completed, Claim, Unpaid, Confirmed, Expected, Offered
  <2>3. CASE Grabs(o) \/ ~Conflict(o)
    <3>1. /\ orders' = [orders EXCEPT ![o].clock = "RUNNING"]
          /\ listing' = IF Grabs(o) THEN Reserved ELSE listing
          /\ holder' = IF Grabs(o) \/ HeldFor(o) THEN o ELSE holder
          /\ NoteStale(MayConfirm(o), IF Grabs(o) THEN NONE ELSE SteppedOn(o))
      BY <1>2, <2>0, <2>3 DEF ConfirmReview
    <3>2. slip = NONE /\ MayConfirm(o) /\ (Grabs(o) \/ SteppedOn(o) = NONE)
      <4>1. MayConfirm(o) \in BOOLEAN
        BY DEF MayConfirm, Unpaid, Confirmed
      <4> QED
        BY <3>1, <4>1, NoteFresh, NoteKeeps
    <3>3. Grabs(o) \/ HeldFor(o)
      <4> SUFFICES ASSUME ~Grabs(o), ~HeldFor(o) PROVE FALSE
        OBVIOUS
      <4>1. /\ listing.status # "REMOVED" /\ holder \notin Offers
            /\ ~(holder \in Orders /\ Overdue(holder))
        BY <3>2, CausesAssumption DEF SteppedOn, Causes
      <4>2. ~Conflict(o)
        BY <2>3
      <4>3. CASE listing.status = "SOLD"
        BY <4>2, <4>3, <3>2 DEF Agreement, SoldToSomebody, Completed, Conflict, MayConfirm, Unpaid
      <4>4. CASE listing.status = "RESERVED"
        <5>1. holder \in Orders /\ Waiting(holder)
          BY <3>2, <4>1, <4>4 DEF Agreement, ReservedForHolder
        <5>2. holder # o
          BY <2>1, <4>4, ReservationAssumption DEF HeldFor
        <5>3. Unpaid(holder) => orders[holder].clock = "RUNNING"
          BY <4>1, <5>1 DEF Waiting, Claim, Overdue, Unpaid, Confirmed
        <5> QED
          BY <4>2, <5>1, <5>2, <5>3 DEF Conflict, Waiting, Claim, Unpaid
      <4> QED
        BY <4>1, <4>3, <4>4 DEF Grabs, TypeOK, Listings
    <3>4. \A p \in Orders \ {o} : ~Claim(p)
      <4>1. CASE Grabs(o)
        BY <3>2, <4>1, Unclaimable DEF Grabs
      <4>2. CASE HeldFor(o)
        <5>1. listing.status = "RESERVED" /\ holder \in {o} \cup Offers
          BY <4>2, <2>1 DEF HeldFor, TypeOK, OrderRow
        <5> QED
          BY <2>1, <3>2, <5>1, Exclusive
      <4> QED
        BY <3>3, <4>1, <4>2
    <3>5. /\ orders'[o] = [orders[o] EXCEPT !.clock = "RUNNING"]
          /\ \A p \in Orders \ {o} : orders'[p] = orders[p]
          /\ \A p \in Orders : orders'[p].via = orders[p].via /\ orders'[p].status = orders[p].status
          /\ orders[o] \in OrderRow
      BY <2>1, <3>1 DEF TypeOK, OrderRow
    <3>6. Waiting(o)'
      BY <3>2, <3>5 DEF Waiting, Claim, Unpaid, Confirmed, MayConfirm, OrderRow
    <3>7. \A p \in Orders \ {o} : ~Claim(p)'
      BY <3>4, <3>5 DEF Claim, Unpaid, Confirmed
    <3>8. listing'.status = "RESERVED" /\ holder' = o
      BY <3>1, <3>3 DEF Reserved, HeldFor, TypeOK, Listings
    <3>9. ViaWasOffered'
      BY <2>1, <3>2, <3>5 DEF Agreement, ViaWasOffered, Offered
    <3>10. SweptWasOverdue'
      <4>1. orders[o].clock # "ELAPSED"
        BY <3>2 DEF MayConfirm, Confirmed
      <4> QED
        BY <2>1, <3>2, <3>5, <4>1, SweptKeeps DEF Agreement, Finish, TypeOK, Exists
    <3>11. ASSUME NEW f \in Offers, offers'[f].status = "ACCEPTED" PROVE OrderAtPrice(f)'
      <4>1. Offered(f)
        BY <2>1, <3>11 DEF Offered
      <4>2. OrderAtPrice(f)
        <5>1. CASE ~(listing.status = "RESERVED" /\ holder = f)
          BY <2>1, <3>2, <3>11, <5>1 DEF Agreement, AcceptedIsAwaited
        <5>2. CASE listing.status = "RESERVED" /\ holder = f
          <6>1. orders[o].via = f /\ Exists(o)
            BY <2>1, <3>2, <3>3, <5>2, ReservationAssumption
               DEF Grabs, HeldFor, MayConfirm, Unpaid, Exists
          <6>2. PriceOf(o) = offers[f].price
            BY <6>1, ReservationAssumption DEF PriceOf
          <6> QED
            BY <2>1, <6>1, <6>2 DEF OrderAtPrice
        <5> QED
          BY <5>1, <5>2
      <4> QED
        BY <2>1, <3>2, <3>5, <4>1, <4>2, PricesKeep DEF Agreement, Exists
    <3> QED
      BY <2>1, <3>6, <3>7, <3>8, <3>9, <3>10, <3>11, SoleClaimAgrees
  <2> QED
    BY <2>2, <2>3
<1> QED
  BY <1>1, <1>2

\* Payment of the order the item is held for.
LEMMA PaidAgrees ==
  ASSUME TypeOK, Agreement, slip = NONE, NEW o \in Orders, Unpaid(o), HeldFor(o),
         orders' = [orders EXCEPT ![o].status = "PAID"], holder' = o, UNCHANGED <<offers, listing>>,
         \A t \in Slots : busy'[t] \in {busy[t], Idle}
  PROVE  Agreement'
<1>1. listing.status = "RESERVED" /\ holder \in {o} \cup Offers
  BY DEF HeldFor, TypeOK, OrderRow
<1>2. \A p \in Orders \ {o} : ~Claim(p)
  BY <1>1, Exclusive
<1>3. /\ orders'[o].status = "PAID"
      /\ \A p \in Orders \ {o} : orders'[p] = orders[p]
      /\ \A p \in Orders : orders'[p].via = orders[p].via /\ orders'[p].clock = orders[p].clock
      /\ \A p \in Orders : Exists(p) => Exists(p)'
  BY DEF TypeOK, OrderRow, Exists
<1>4. Waiting(o)' /\ \A p \in Orders \ {o} : ~Claim(p)'
  BY <1>2, <1>3 DEF Waiting, Claim, Unpaid, Confirmed
<1>5. ViaWasOffered'
  BY <1>3 DEF Agreement, ViaWasOffered, Offered
<1>6. SweptWasOverdue'
  BY <1>3, SweptKeeps DEF Agreement
<1>7. ASSUME NEW f \in Offers, offers'[f].status = "ACCEPTED" PROVE OrderAtPrice(f)'
  <2>1. Offered(f)
    BY <1>7 DEF Offered
  <2>2. OrderAtPrice(f)
    <3>1. CASE ~(listing.status = "RESERVED" /\ holder = f)
      BY <1>7, <3>1 DEF Agreement, AcceptedIsAwaited
    <3>2. CASE listing.status = "RESERVED" /\ holder = f
      <4>1. orders[o].via = f /\ Exists(o)
        BY <3>2, ReservationAssumption DEF HeldFor, Unpaid, Exists
      <4>2. PriceOf(o) = offers[f].price
        BY <4>1, ReservationAssumption DEF PriceOf
      <4> QED
        BY <4>1, <4>2 DEF OrderAtPrice
    <3> QED
      BY <3>1, <3>2
  <2> QED
    BY <1>3, <2>1, <2>2, PricesKeep DEF Agreement
<1> QED
  BY <1>1, <1>4, <1>5, <1>6, <1>7, SoleClaimAgrees

LEMMA MarkPaidAgrees ==
  ASSUME TypeOK, Agreement, NEW s \in Slots, MarkPaid(s), slip' = NONE
  PROVE  Agreement'
<1>1. CASE \E o \in Orders : Start(s, Op("markPaid", o))
  BY <1>1, StartAgrees, OpTypes DEF OrderOps, Op
<1>2. CASE ~ \E o \in Orders : Start(s, Op("markPaid", o))
  <2>1. PICK o \in Orders : Doing(s, "markPaid") /\ o = busy[s].id
    BY <1>2, BusyOf DEF MarkPaid, OrderOps
  <2>2. /\ orders' = [orders EXCEPT ![o].status = "PAID"]
        /\ holder' = IF HeldFor(o) THEN o ELSE holder
        /\ NoteStale(MayPay(o), IF HeldFor(o) THEN NONE ELSE "UNCONFIRMED")
        /\ Finish(s) /\ UNCHANGED <<offers, listing>>
    BY <1>2, <2>1 DEF MarkPaid
  <2>3. slip = NONE /\ MayPay(o) /\ HeldFor(o)
    <3>1. MayPay(o) \in BOOLEAN
      BY DEF MayPay, Unpaid
    <3> QED
      BY <2>2, <3>1, NoteFresh, NoteKeeps, CausesAssumption DEF Causes
  <2> QED
    BY <2>2, <2>3, PaidAgrees DEF Finish, TypeOK, MayPay
<1> QED
  BY <1>1, <1>2

LEMMA OtherOrderStepsAgree ==
  ASSUME TypeOK, Agreement, NEW o \in Orders, ConfirmFromMock(o) \/ CloseOrder(o), slip' = NONE
  PROVE  Agreement'
<1>1. CASE ConfirmFromMock(o)
  <2>1. slip = NONE /\ Unpaid(o) /\ HeldFor(o)
    BY <1>1, CausesAssumption DEF ConfirmFromMock, Note, Causes
  <2>2. holder = o
    BY <1>1, <2>1 DEF ConfirmFromMock, Agreement, WaitingHolds, Waiting, Claim, Unpaid
  <2> QED
    BY <1>1, <2>1, <2>2, PaidAgrees DEF ConfirmFromMock, TypeOK
<1>2. CASE CloseOrder(o)
  <2>1. slip = NONE /\ UNCHANGED <<offers, busy, slip>>
    BY <1>2 DEF CloseOrder
  <2>2. Waiting(o) /\ listing.status = "RESERVED" /\ holder = o
    BY <1>2, <2>1 DEF CloseOrder, Agreement, WaitingHolds, Waiting, Claim
  <2>3. \A p \in Orders \ {o} : ~Claim(p)
    BY <2>1, <2>2, Exclusive
  <2>4. /\ orders'[o].status \in {"COMPLETED", "REFUNDED"}
        /\ \A p \in Orders \ {o} : orders'[p] = orders[p]
        /\ \A p \in Orders : orders'[p].via = orders[p].via /\ orders'[p].clock = orders[p].clock
        /\ \A p \in Orders : Exists(p) => Exists(p)'
    BY <1>2 DEF CloseOrder, TypeOK, OrderRow, Exists
  <2>5. \A p \in Orders \ {o} : ~Claim(p)'
    BY <2>3, <2>4 DEF Claim, Unpaid, Confirmed
  <2>6. ViaWasOffered'
    BY <2>1, <2>4 DEF Agreement, ViaWasOffered, Offered
  <2>7. SweptWasOverdue'
    BY <2>1, <2>4, SweptKeeps DEF Agreement
  <2>8. ASSUME NEW f \in Offers, offers'[f].status = "ACCEPTED" PROVE OrderAtPrice(f)'
    <3>1. Offered(f) /\ OrderAtPrice(f)
      BY <2>1, <2>2, <2>8, ReservationAssumption DEF Offered, Agreement, AcceptedIsAwaited
    <3> QED
      BY <2>1, <2>4, <3>1, PricesKeep DEF Agreement
  <2>9. CASE orders'[o].status = "COMPLETED"
    <3>1. listing'.status = "SOLD"
      BY <1>2, <2>9 DEF CloseOrder, TypeOK, OrderRow, Listings
    <3> QED
      BY <2>5, <2>6, <2>7, <2>8, <2>9, <3>1
         DEF Agreement, WaitingHolds, CompletedSold, OneCompleted, SoldToSomebody,
             ReservedForHolder, AcceptedIsAwaited, Waiting, Completed, Claim
  <2>10. CASE orders'[o].status = "REFUNDED"
    <3>1. listing'.status = "ACTIVE"
      BY <1>2, <2>10 DEF CloseOrder, TypeOK, OrderRow, Listings
    <3>2. ~Claim(o)'
      BY <2>10 DEF Claim, Unpaid
    <3> QED
      BY <2>5, <2>6, <2>7, <2>8, <3>1, <3>2, NoClaimAgrees
  <2> QED
    BY <2>4, <2>9, <2>10
<1> QED
  BY <1>1, <1>2

LEMMA SweepsAgree ==
  ASSUME TypeOK, Agreement, slip' = NONE,
         SweepDrafts \/ \E s \in Slots : SweepPaymentExpired(s)
  PROVE  Agreement'
<1>1. CASE SweepDrafts
  <2> DEFINE old == { o \in Orders : Unpaid(o) /\ orders[o].clock = "OLD_DRAFT" }
  <2>1. slip = NONE /\ UNCHANGED <<offers, listing, busy, holder>>
    BY <1>1 DEF SweepDrafts, Note
  <2>2. /\ \A o \in Orders \ old : orders'[o] = orders[o]
        /\ \A o \in old : orders'[o].status = "PAYMENT_EXPIRED"
        /\ \A o \in Orders : orders'[o].via = orders[o].via /\ (Exists(o) => Exists(o)')
    BY <1>1 DEF SweepDrafts, TypeOK, OrderRow, Exists
  <2>3. \A o \in Orders : Claim(o)' = Claim(o) /\ Completed(o)' = Completed(o)
    <3> SUFFICES ASSUME NEW o \in Orders
                 PROVE  Claim(o)' = Claim(o) /\ Completed(o)' = Completed(o)
      OBVIOUS
    <3>1. CASE o \in old
      BY <2>2, <3>1 DEF Claim, Completed, Unpaid, Confirmed
    <3>2. CASE o \notin old
      BY <2>2, <3>2 DEF Claim, Completed, Unpaid, Confirmed
    <3> QED
      BY <3>1, <3>2
  <2>4. holder \in Offers => Expected(orders, offers, holder)'
    BY <1>1, <2>1, CausesAssumption DEF SweepDrafts, Note, Forsaken, Causes
  <2>5. ViaWasOffered'
    BY <2>1, <2>2 DEF Agreement, ViaWasOffered, Offered
  <2>6. SweptWasOverdue'
    BY <2>1, <2>2, SweptKeeps DEF Agreement, TypeOK, OrderRow
  <2>7. ASSUME NEW f \in Offers, offers'[f].status = "ACCEPTED"
        PROVE  (listing.status = "RESERVED" /\ holder = f) \/ OrderAtPrice(f)'
    BY <2>1, <2>2, <2>7, PricesKeep DEF Agreement, AcceptedIsAwaited, Offered
  <2> QED
    BY <2>1, <2>3, <2>4, <2>5, <2>6, <2>7, SameClaimsAgree
<1>2. ASSUME NEW s \in Slots, SweepPaymentExpired(s) PROVE Agreement'
  <2>1. CASE \E o \in Orders : Overdue(o) /\ Start(s, Op("sweepPaymentExpired", o))
    BY <2>1, StartAgrees, OpTypes DEF OrderOps, Op, Overdue, Unpaid, Exists
  <2>2. CASE ~ \E o \in Orders : Overdue(o) /\ Start(s, Op("sweepPaymentExpired", o))
    <3>1. PICK o \in Orders : Doing(s, "sweepPaymentExpired") /\ o = busy[s].id
      BY <1>2, <2>2, BusyOf DEF SweepPaymentExpired, OrderOps
    <3>2. slip = NONE /\ Finish(s) /\ UNCHANGED offers
      BY <1>2, <2>2 DEF SweepPaymentExpired
    <3>3. CASE ~Unpaid(o)
      <4>1. UNCHANGED <<orders, listing, holder>>
        BY <1>2, <2>2, <3>1, <3>3 DEF SweepPaymentExpired
      <4>2. SweptWasOverdue'
        BY <3>2, <4>1, SweptKeeps DEF Agreement, Finish, TypeOK, Exists
      <4>3. \A p \in Orders : Claim(p)' = Claim(p) /\ Completed(p)' = Completed(p)
        BY <4>1 DEF Claim, Completed, Unpaid, Confirmed
      <4>4. AcceptedIsAwaited' /\ ViaWasOffered'
        BY <3>2, <4>1 DEF Agreement, AcceptedIsAwaited, OrderAtPrice, Exists, PriceOf, ViaWasOffered, Offered
      <4>5. holder \in Offers /\ listing.status = "RESERVED" => Expected(orders, offers, holder)'
        BY <3>2, <4>1, ReservationAssumption DEF Agreement, ReservedForHolder, Expected
      <4> QED
        BY <3>2, <4>1, <4>2, <4>3, <4>4, <4>5, SameClaimsAgree DEF AcceptedIsAwaited
    <3>4. CASE Unpaid(o)
      <4>1. Relist(s, o)
        BY <1>2, <2>2, <3>1, <3>4 DEF SweepPaymentExpired
      <4>2. Waiting(o) /\ listing.status = "RESERVED" /\ holder = o
        BY <3>1, <3>2, <3>4 DEF Agreement, SweptWasOverdue, WaitingHolds, Waiting, Claim, Unpaid, Confirmed
      <4>3. \A p \in Orders \ {o} : ~Claim(p)
        BY <3>2, <4>2, Exclusive
      <4>4. /\ orders'[o].status = "PAYMENT_EXPIRED"
            /\ \A p \in Orders \ {o} : orders'[p] = orders[p]
            /\ \A p \in Orders : orders'[p].via = orders[p].via /\ orders'[p].clock = orders[p].clock
            /\ \A p \in Orders : Exists(p) => Exists(p)'
        BY <4>1 DEF Relist, TypeOK, OrderRow, Exists
      <4>5. \A p \in Orders : ~Claim(p)'
        BY <4>3, <4>4 DEF Claim, Unpaid, Confirmed
      <4>6. ViaWasOffered'
        BY <3>2, <4>4 DEF Agreement, ViaWasOffered, Offered
      <4>7. SweptWasOverdue'
        BY <3>2, <4>4, SweptKeeps DEF Agreement, Finish, TypeOK
      <4>8. ASSUME NEW f \in Offers, offers'[f].status = "ACCEPTED" PROVE OrderAtPrice(f)'
        <5>1. Offered(f) /\ OrderAtPrice(f)
          BY <3>2, <4>2, <4>8, ReservationAssumption DEF Offered, Agreement, AcceptedIsAwaited
        <5> QED
          BY <3>2, <4>4, <5>1, PricesKeep DEF Agreement
      <4>9. listing'.status = "ACTIVE"
        BY <4>1 DEF Relist, TypeOK, Listings
      <4> QED
        BY <4>5, <4>6, <4>7, <4>8, <4>9, NoClaimAgrees
    <3> QED
      BY <3>3, <3>4
  <2> QED
    BY <2>1, <2>2
<1> QED
  BY <1>1, <1>2

\* What a change of the offers alone leaves of the agreement.
LEMMA OffersAgree ==
  ASSUME TypeOK, Agreement, slip = NONE, UNCHANGED <<orders, listing, holder>>,
         \A t \in Slots : busy'[t] \in {busy[t], Idle},
         \A g \in Offers : Offered(g) => Offered(g)' /\ offers'[g].price = offers[g].price,
         \A g \in Offers : (offers'[g].status = "ACCEPTED") = (offers[g].status = "ACCEPTED")
  PROVE  Agreement'
<1>1. \A o \in Orders : Claim(o)' = Claim(o) /\ Completed(o)' = Completed(o)
  BY DEF Claim, Completed, Unpaid, Confirmed
<1>2. ViaWasOffered'
  BY DEF Agreement, ViaWasOffered
<1>3. SweptWasOverdue'
  BY SweptKeeps DEF Agreement, Exists
<1>4. \A f \in Offers : Offered(f) /\ OrderAtPrice(f) => OrderAtPrice(f)'
  BY PricesKeep DEF Agreement, Exists
<1>5. ASSUME NEW f \in Offers, offers'[f].status = "ACCEPTED"
      PROVE  (listing.status = "RESERVED" /\ holder = f) \/ OrderAtPrice(f)'
  BY <1>4, <1>5 DEF Agreement, AcceptedIsAwaited, Offered
<1>6. ASSUME holder \in Offers, listing.status = "RESERVED" PROVE Expected(orders, offers, holder)'
  <2>1. Expected(orders, offers, holder)
    BY <1>6, ReservationAssumption DEF Agreement, ReservedForHolder
  <2>2. \A o \in Orders : orders[o].via # NONE =>
            orders[o].via \in Offers /\ offers'[orders[o].via].price = offers[orders[o].via].price
    BY DEF Agreement, ViaWasOffered
  <2>3. offers'[holder].price = offers[holder].price /\ offers'[holder].status = "ACCEPTED"
    BY <1>6, <2>1 DEF Expected, Offered
  <2> QED
    BY <1>6, <2>1, <2>2, <2>3 DEF Expected
<1> QED
  BY <1>1, <1>2, <1>3, <1>5, <1>6, SameClaimsAgree

LEMMA OfferStepAgrees ==
  ASSUME TypeOK, Agreement, NEW s \in Slots, OfferStep(s), slip' = NONE
  PROVE  Agreement'
<1>0. CASE \/ \E op \in Bids : Start(s, op)
           \/ \E n \in OfferOps, f \in Offers : Start(s, Op(n, f))
  BY <1>0, StartAgrees, OpTypes DEF Bids, OfferOps, Op
<1> SUFFICES ASSUME ~ \E op \in Bids : Start(s, op),
                    ~ \E n \in OfferOps, f \in Offers : Start(s, Op(n, f))
             PROVE  Agreement'
  BY <1>0
<1>1. CASE CreateOffer(s)
  <2>1. /\ busy[s] \in Bids /\ ~Offered(busy[s].id) /\ Finish(s) /\ UNCHANGED <<orders, listing, holder>>
        /\ offers' = [offers EXCEPT ![busy[s].id] =
                        [NoOffer EXCEPT !.status = "PENDING", !.price = busy[s].price]]
        /\ NoteStale(listing.status = "ACTIVE", NONE)
    BY <1>1, BusyOf DEF CreateOffer
  <2>2. slip = NONE
    BY <2>1, NoteKeeps
  <2>3. \A g \in Offers : Offered(g) => Offered(g)' /\ offers'[g].price = offers[g].price
    BY <2>1 DEF TypeOK, Offered
  <2>4. \A g \in Offers : (offers'[g].status = "ACCEPTED") = (offers[g].status = "ACCEPTED")
    BY <2>1 DEF TypeOK, Offered, NoOffer
  <2> QED
    BY <2>1, <2>2, <2>3, <2>4, OffersAgree DEF Finish, TypeOK
<1>2. CASE AcceptOffer(s)
  <2>1. PICK f \in Offers : Doing(s, "acceptOffer") /\ f = busy[s].id
    BY <1>2, BusyOf DEF AcceptOffer, OfferOps
  <2>2. Finish(s) /\ UNCHANGED orders
    BY <1>2 DEF AcceptOffer, OfferOps
  <2>3. CASE listing.status = "ACTIVE"
    <3>1. /\ offers' = Accepted(f) /\ listing' = Reserved /\ holder' = f
          /\ NoteStale(MayAccept(f), IF Forsaken(orders, Accepted(f), f) THEN "LEFT_BEHIND" ELSE NONE)
      BY <1>2, <2>1, <2>3 DEF AcceptOffer, OfferOps
    <3>2. slip = NONE /\ MayAccept(f) /\ ~Forsaken(orders, Accepted(f), f)
      <4>1. MayAccept(f) \in BOOLEAN
        BY DEF MayAccept, Pending, TypeOK, OfferRow
      <4> QED
        BY <3>1, <4>1, NoteFresh, NoteKeeps, CausesAssumption DEF Causes
    <3>3. \A o \in Orders : ~Claim(o)
      BY <2>3, <3>2, Unclaimable
    <3>4. \A o \in Orders : ~Claim(o)'
      BY <2>2, <3>3 DEF Claim, Unpaid, Confirmed
    <3>5. Expected(orders, offers, f)'
      BY <2>2, <3>1, <3>2 DEF Forsaken
    <3>6. \A g \in Offers : Offered(g) => Offered(g)' /\ offers'[g].price = offers[g].price
      BY <3>1 DEF Accepted, Offered, TypeOK, OfferRow
    <3>7. ViaWasOffered'
      BY <2>2, <3>2, <3>6 DEF Agreement, ViaWasOffered
    <3>8. SweptWasOverdue'
      BY <2>2, <3>2, SweptKeeps DEF Agreement, Finish, TypeOK, Exists
    <3>9. listing'.status = "RESERVED"
      BY <3>1 DEF Reserved, TypeOK, Listings
    <3>10. ASSUME NEW g \in Offers \ {f}, offers'[g].status = "ACCEPTED" PROVE OrderAtPrice(g)'
      <4>1. offers[g].status = "ACCEPTED"
        BY <3>1, <3>10 DEF Accepted, TypeOK, OfferRow, Pending
      <4>2. Offered(g) /\ OrderAtPrice(g)
        BY <2>3, <3>2, <4>1 DEF Offered, Agreement, AcceptedIsAwaited
      <4> QED
        BY <2>2, <3>2, <3>6, <4>2, PricesKeep DEF Agreement, Exists
    <3> QED
      BY <3>1, <3>4, <3>5, <3>7, <3>8, <3>9, <3>10
         DEF Agreement, WaitingHolds, CompletedSold, OneCompleted, SoldToSomebody,
             ReservedForHolder, AcceptedIsAwaited, Waiting, Completed, Claim
  <2>4. CASE listing.status # "ACTIVE"
    <3>1. UNCHANGED <<offers, listing, holder, slip>>
      BY <1>2, <2>1, <2>4 DEF AcceptOffer, OfferOps
    <3> QED
      BY <2>2, <3>1, OffersAgree DEF Finish, TypeOK, Offered
  <2> QED
    BY <2>3, <2>4
<1>3. CASE AcceptLate(s) \/ AnswerOffer(s) \/ ExpireOffer(s)
  <2>1. PICK f \in Offers : f = busy[s].id
    BY <1>3, BusyOf DEF AcceptLate, AnswerOffer, ExpireOffer, OfferOps
  <2>2. Finish(s) /\ UNCHANGED <<orders, listing, holder>> /\ SetOffer(f, "CLOSED")
    BY <1>3, <2>1 DEF AcceptLate, AnswerOffer, ExpireOffer, OfferOps
  <2>3. slip = NONE /\ offers[f].status # "ACCEPTED"
    <3>1. CASE AcceptLate(s)
      BY <2>1, <3>1, CausesAssumption DEF AcceptLate, OfferOps, Note, Causes
    <3>2. CASE AnswerOffer(s) \/ ExpireOffer(s)
      <4>1. Pending(f) \in BOOLEAN /\ NoteStale(Pending(f), NONE)
        BY <2>1, <3>2 DEF AnswerOffer, ExpireOffer, OfferOps, Pending
      <4> QED
        BY <4>1, NoteFresh, NoteKeeps DEF Pending
    <3> QED
      BY <1>3, <3>1, <3>2
  <2>4. \A g \in Offers : Offered(g) => Offered(g)' /\ offers'[g].price = offers[g].price
    BY <2>2 DEF SetOffer, TypeOK, Offered, OfferRow
  <2>5. \A g \in Offers : (offers'[g].status = "ACCEPTED") = (offers[g].status = "ACCEPTED")
    BY <2>2, <2>3 DEF SetOffer, TypeOK, OfferRow
  <2> QED
    BY <2>2, <2>3, <2>4, <2>5, OffersAgree DEF Finish, TypeOK
<1>4. CASE SweepPaymentDeadline(s)
  <2>1. PICK f \in Offers : f = busy[s].id
    BY <1>4, BusyOf DEF SweepPaymentDeadline, OfferOps
  <2>2. /\ Finish(s) /\ UNCHANGED orders /\ SetOffer(f, "CLOSED")
        /\ listing' = IF listing.status = "RESERVED" THEN [listing EXCEPT !.status = "ACTIVE"] ELSE listing
        /\ NoteStale(Unclaimed(f), NONE)
    BY <1>4, <2>1 DEF SweepPaymentDeadline, OfferOps
  <2>3. slip = NONE /\ Unclaimed(f)
    <3>1. Unclaimed(f) \in BOOLEAN
      BY DEF Unclaimed, TypeOK, OfferRow
    <3> QED
      BY <2>2, <3>1, NoteFresh, NoteKeeps
  <2>4. listing.status = "RESERVED" /\ holder = f
    BY <2>3 DEF Agreement, AcceptedIsAwaited, Unclaimed
  <2>5. \A o \in Orders : ~Claim(o)
    BY <2>3, <2>4, Unclaimable
  <2>6. \A o \in Orders : ~Claim(o)'
    BY <2>2, <2>5 DEF Claim, Unpaid, Confirmed
  <2>7. \A g \in Offers : Offered(g) => Offered(g)' /\ offers'[g].price = offers[g].price
    BY <2>2 DEF SetOffer, TypeOK, Offered, OfferRow
  <2>8. ViaWasOffered'
    BY <2>2, <2>3, <2>7 DEF Agreement, ViaWasOffered
  <2>9. SweptWasOverdue'
    BY <2>2, <2>3, SweptKeeps DEF Agreement, Finish, TypeOK, Exists
  <2>10. ASSUME NEW g \in Offers, offers'[g].status = "ACCEPTED" PROVE OrderAtPrice(g)'
    <3>1. g # f /\ offers[g].status = "ACCEPTED"
      BY <2>2, <2>10 DEF SetOffer, TypeOK, OfferRow
    <3>2. Offered(g) /\ OrderAtPrice(g)
      BY <2>3, <2>4, <3>1 DEF Offered, Agreement, AcceptedIsAwaited
    <3> QED
      BY <2>2, <2>3, <2>7, <3>2, PricesKeep DEF Agreement, Exists
  <2>11. listing'.status = "ACTIVE"
    BY <2>2, <2>4 DEF TypeOK, Listings
  <2> QED
    BY <2>6, <2>8, <2>9, <2>10, <2>11, NoClaimAgrees
<1> QED
  BY <1>1, <1>2, <1>3, <1>4 DEF OfferStep

LEMMA ListingStepAgrees ==
  ASSUME TypeOK, Agreement, NEW s \in Slots, ListingStep(s), slip' = NONE
  PROVE  Agreement'
<1>1. CASE \E n \in ListingOps : Start(s, Op(n, NONE))
  BY <1>1, StartAgrees, OpTypes DEF ListingOps, Op
<1>2. CASE ~ \E n \in ListingOps : Start(s, Op(n, NONE))
  <2>1. Finish(s) /\ UNCHANGED <<orders, offers>> /\ listing'.status \in {"ACTIVE", "REMOVED"}
    BY <1>2 DEF ListingStep, SoftDelete, RestoreOwn, RemoveListing, RestoreListing, ListingWrite,
                ListingOps, Removed, OnSale
  <2>2. slip = NONE /\ listing.status \in {"ACTIVE", "REMOVED"}
    <3>1. CASE SoftDelete(s)
      BY <1>2, <3>1, NoteFresh, NoteKeeps DEF SoftDelete, ListingWrite, ListingOps
    <3>2. CASE RestoreOwn(s)
      <4>1. NoteStale(listing = Removed("SELLER"), NONE)
        BY <1>2, <3>2 DEF RestoreOwn, ListingWrite, ListingOps
      <4>2. slip = NONE /\ listing = Removed("SELLER")
        BY <4>1, NoteFresh, NoteKeeps
      <4> QED
        BY <4>2 DEF Removed
    <3>3. CASE RemoveListing(s)
      BY <1>2, <3>3, NoteFresh, NoteKeeps, CausesAssumption
         DEF RemoveListing, ListingWrite, ListingOps, Causes, TypeOK, Listings
    <3>4. CASE RestoreListing(s)
      BY <1>2, <3>4, NoteFresh, NoteKeeps DEF RestoreListing, ListingWrite, ListingOps
    <3> QED
      BY <3>1, <3>2, <3>3, <3>4 DEF ListingStep
  <2>3. \A o \in Orders : ~Claim(o)
    BY <2>2, Unclaimable
  <2>4. \A o \in Orders : ~Claim(o)'
    BY <2>1, <2>3 DEF Claim, Unpaid, Confirmed
  <2>5. ViaWasOffered'
    BY <2>1, <2>2 DEF Agreement, ViaWasOffered, Offered
  <2>6. SweptWasOverdue'
    BY <2>1, <2>2, SweptKeeps DEF Agreement, Finish, TypeOK, Exists
  <2>7. ASSUME NEW g \in Offers, offers'[g].status = "ACCEPTED" PROVE OrderAtPrice(g)'
    <3>1. OrderAtPrice(g)
      BY <2>1, <2>2, <2>7 DEF Agreement, AcceptedIsAwaited
    <3> QED
      BY <2>1, <3>1 DEF OrderAtPrice, PriceOf, Exists
  <2> QED
    BY <2>1, <2>4, <2>5, <2>6, <2>7, NoClaimAgrees
<1> QED
  BY <1>1, <1>2

LEMMA QuietStepsAgree ==
  ASSUME TypeOK, Agreement, slip' = NONE, TimePasses \/ \E s \in Slots : Fail(s)
  PROVE  Agreement'
<1>1. ASSUME NEW s \in Slots, Fail(s) PROVE Agreement'
  BY <1>1, OffersAgree DEF Fail, Finish, TypeOK, Offered
<1>2. CASE TimePasses /\ UNCHANGED orders
  <2>1. UNCHANGED <<orders, listing, busy, holder, slip>>
    BY <1>2 DEF TimePasses
  <2>2. \A g \in Offers : offers'[g].status = offers[g].status /\ offers'[g].price = offers[g].price
    BY <1>2 DEF TimePasses, TypeOK, OfferRow
  <2> QED
    BY <2>1, <2>2, OffersAgree DEF Offered
<1>3. CASE TimePasses /\ ~UNCHANGED orders
  <2>1. UNCHANGED <<offers, listing, busy, holder, slip>>
    BY <1>3 DEF TimePasses
  <2>2. \A o \in Orders :
          /\ orders'[o].status = orders[o].status /\ orders'[o].via = orders[o].via
          /\ orders'[o].clock \in {"RUNNING", "ELAPSED"} <=> orders[o].clock \in {"RUNNING", "ELAPSED"}
          /\ orders[o].clock = "ELAPSED" => orders'[o].clock = "ELAPSED"
    BY <1>3 DEF TimePasses, TypeOK, OrderRow
  <2>3. \A o \in Orders : Claim(o)' = Claim(o) /\ Completed(o)' = Completed(o)
    BY <2>2 DEF Claim, Completed, Unpaid, Confirmed
  <2>4. ViaWasOffered'
    BY <2>1, <2>2 DEF Agreement, ViaWasOffered, Offered
  <2>5. SweptWasOverdue'
    BY <2>1, <2>2, SweptKeeps DEF Agreement, Exists
  <2>6. \A f \in Offers : Offered(f) /\ OrderAtPrice(f) => OrderAtPrice(f)'
    BY <2>1, <2>2, PricesKeep DEF Agreement, Exists
  <2>7. ASSUME NEW f \in Offers, offers'[f].status = "ACCEPTED"
        PROVE  (listing.status = "RESERVED" /\ holder = f) \/ OrderAtPrice(f)'
    BY <2>1, <2>6, <2>7 DEF Agreement, AcceptedIsAwaited, Offered
  <2>8. ASSUME holder \in Offers, listing.status = "RESERVED" PROVE Expected(orders, offers, holder)'
    <3>1. Expected(orders, offers, holder)
      BY <2>1, <2>8, ReservationAssumption DEF Agreement, ReservedForHolder
    <3> QED
      BY <2>1, <2>2, <3>1 DEF Expected
  <2> QED
    BY <2>1, <2>3, <2>4, <2>5, <2>7, <2>8, SameClaimsAgree
<1> QED
  BY <1>1, <1>2, <1>3

LEMMA StepAgrees == TypeOK /\ Agreement /\ [Next]_vars => Agreement'
<1> SUFFICES ASSUME TypeOK, Agreement, [Next]_vars PROVE Agreement'
  OBVIOUS
<1>1. CASE slip' # NONE
  BY <1>1 DEF Agreement
<1>2. CASE slip' = NONE /\ UNCHANGED vars
  BY <1>2, OffersAgree DEF vars, Offered
<1>3. CASE slip' = NONE /\ Next
  BY <1>3, CreateAgrees, ConfirmAgrees, MarkPaidAgrees, OtherOrderStepsAgree, SweepsAgree,
     OfferStepAgrees, ListingStepAgrees, QuietStepsAgree DEF Next, OrderStep
<1> QED
  BY <1>1, <1>2, <1>3

(* Unless one of the named causes has occurred, the claims on the listing,   *)
(* its status and the requests in flight agree.                              *)
THEOREM AgreementHolds == Spec => []Agreement
<1>1. Init => Agreement
  BY DEF Init, Agreement, WaitingHolds, CompletedSold, OneCompleted, SoldToSomebody,
         ReservedForHolder, ViaWasOffered, SweptWasOverdue, AcceptedIsAwaited,
         Waiting, Completed, Claim, Unpaid, NoOrder, NoOffer, OnSale, Doing, Idle, Op
<1> QED
  BY <1>1, StepAgrees, TypeCorrect, PTL DEF Spec

(* One item, one buyer: no two orders hold the same listing unless one of    *)
(* the named causes has occurred (confirmReview, markPaid, the sweeps).       *)
THEOREM OneBuyer == Spec => []OneClaim
<1>1. Agreement => OneClaim
  BY DEF Agreement, WaitingHolds, CompletedSold, OneCompleted, OneClaim, Waiting, Completed
<1> QED
  BY <1>1, AgreementHolds, PTL

(* A claimed item is off sale and reserved for the order that claims it,     *)
(* unless one of the named causes has occurred.                              *)
THEOREM ClaimedIsOffSale == Spec => []ClaimHoldsItem
<1>1. Agreement => ClaimHoldsItem
  BY ReservationAssumption
     DEF Agreement, WaitingHolds, CompletedSold, ClaimHoldsItem, Waiting, Completed, HeldFor
<1> QED
  BY <1>1, AgreementHolds, PTL

(* A reserved item is waited for by an order or by an accepted offer, unless *)
(* one of the named causes has occurred.                                     *)
THEOREM ReservedIsAwaited == Spec => []ReservedHasOwner
<1>1. Agreement => ReservedHasOwner
  BY DEF Agreement, ReservedForHolder, ReservedHasOwner, Waiting
<1> QED
  BY <1>1, AgreementHolds, PTL
=============================================================================
