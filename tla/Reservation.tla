---------------------------- MODULE Reservation ----------------------------
(***************************************************************************)
(* One listing and everybody who wants it: the orders drafted on it        *)
(* (orders.service.ts), the offers negotiated for it (offers.service.ts)   *)
(* and the people who may take it off sale (listings.service.ts,           *)
(* admin.controller.ts).  OrderFlow follows one order to its end; here an  *)
(* order's life after payment is a single step, and what matters is which  *)
(* of several claims the listing is kept for.                              *)
(*                                                                         *)
(* A handler reads, checks, awaits and writes; Start(s, op) is the read    *)
(* that accepts the request, Finish(s) its write.  Only what the code      *)
(* repeats in a WHERE clause is tested again by the write.                 *)
(*                                                                         *)
(* Nothing in the code ties a reserved listing to the claim that reserved  *)
(* it.  Two history variables do so here and no action depends on them:    *)
(* holder is the order or offer that last took the listing off sale, and   *)
(* slip names the first event after which the listing may be promised      *)
(* twice or kept for nobody.  "slip = NONE => ..." then says that the      *)
(* named events are the only causes.                                       *)
(***************************************************************************)
EXTENDS Naturals, FiniteSets

CONSTANTS
    Orders,         \* orders that buyers may draft on the listing
    Offers,         \* offers that may be made for it
    Slots,          \* requests and sweeps that may be in flight together
    Prices,         \* prices an offer may name
    ListPrice,      \* the price of the listing
    MAX_CLAIMS,     \* bound: orders and offers that may exist together
    GO_ON,          \* bound: whether behaviours continue after the first slip
    NONE

ASSUME ReservationAssumption ==
    /\ ListPrice \in Prices
    /\ MAX_CLAIMS \in Nat
    /\ GO_ON \in BOOLEAN
    /\ Orders \cap Offers = {}
    /\ NONE \notin Orders \cup Offers

VARIABLES
    orders,     \* rows of Order on this listing
    offers,     \* rows of Offer on this listing
    listing,    \* status of the listing, and who removed it
    busy,       \* what each slot has read and is about to write
    holder,     \* history: the claim the listing was last reserved for
    slip        \* history: the first event that let the promise slip

vars == <<orders, offers, listing, busy, holder, slip>>

-----------------------------------------------------------------------------
(* Rows. *)

OrderStatuses == {"ABSENT", "AWAITING_PAYMENT", "PAYMENT_EXPIRED", "PAID",
                  "COMPLETED", "REFUNDED"}

\* How old a draft is (24 hours), then how old its 30-minute deadline is.
OrderClocks == {"DRAFT", "OLD_DRAFT", "RUNNING", "ELAPSED"}

OrderRow == [status : OrderStatuses, clock : OrderClocks,
             pay : {"ONLINE_ESCROW", "OFFLINE_CASH"}, via : Offers \cup {NONE}]

\* CLOSED stands for COUNTERED, REJECTED, WITHDRAWN and EXPIRED: Negotiation tells
\* them apart.
OfferStatuses == {"ABSENT", "PENDING", "ACCEPTED", "CLOSED"}

\* expired: expiresAt has passed; lapsed: paymentDeadlineAt has passed.
OfferRow == [status : OfferStatuses, price : Prices, expired : BOOLEAN, lapsed : BOOLEAN]

Listings == [status : {"ACTIVE", "RESERVED", "SOLD", "REMOVED"},
             removedBy : {NONE, "SELLER", "ADMIN"}]

NoOrder == [status |-> "ABSENT", clock |-> "DRAFT", pay |-> "ONLINE_ESCROW", via |-> NONE]
NoOffer == [status |-> "ABSENT", price |-> ListPrice, expired |-> FALSE, lapsed |-> FALSE]
OnSale == [status |-> "ACTIVE", removedBy |-> NONE]

Exists(o) == orders[o].status # "ABSENT"
Offered(f) == offers[f].status # "ABSENT"
RoomForClaim == Cardinality({ o \in Orders : Exists(o) })
                + Cardinality({ f \in Offers : Offered(f) }) < MAX_CLAIMS
Unpaid(o) == orders[o].status = "AWAITING_PAYMENT"
Confirmed(o) == orders[o].clock \in {"RUNNING", "ELAPSED"}
Overdue(o) == Unpaid(o) /\ orders[o].clock = "ELAPSED"

\* What the order costs: an order drawn from an offer has the offer's price.
PriceOf(o) == IF orders[o].via = NONE THEN ListPrice ELSE offers[orders[o].via].price

\* sweepPaymentDeadlines looks for the order of an offer by its price alone.
OrderAtPrice(f) == \E o \in Orders : Exists(o) /\ PriceOf(o) = offers[f].price

-----------------------------------------------------------------------------
(* The history variables. *)

Causes == {"UNSWEPT", "OFFER_HELD", "REMOVED_ITEM", "UNCONFIRMED", "STALE_CHECK",
           "TAKEN_DOWN", "REVIVED", "LAZY_EXPIRY", "LEFT_BEHIND"}

ASSUME CausesAssumption == NONE \notin Causes

Note(cause) == slip' = IF slip = NONE THEN cause ELSE slip

HeldFor(o) == listing.status = "RESERVED" /\ holder \in {o, orders[o].via} \ {NONE}

\* An accepted offer whose order is still expected, or whose sweep will come.
Expected(os, fs, f) ==
    /\ fs[f].status = "ACCEPTED"
    /\ \/ \E o \in Orders : os[o].status = "AWAITING_PAYMENT" /\ os[o].via = f
       \/ ~ \E o \in Orders :
              /\ os[o].status # "ABSENT"
              /\ (IF os[o].via = NONE THEN ListPrice ELSE fs[os[o].via].price) = fs[f].price

Forsaken(os, fs, h) == h \in Offers /\ ~Expected(os, fs, h)

-----------------------------------------------------------------------------
(* Requests in flight. *)

Op(name, id) == [name |-> name, id |-> id]

OrderOps == {"confirmReview", "markPaid", "sweepPaymentExpired"}
OfferOps == {"acceptOffer", "acceptLate", "answerOffer", "expireOffer",
             "sweepPaymentDeadline"}
ListingOps == {"softDelete", "restoreOwn", "removeListing", "restoreListing"}

Drafts == [name : {"createFromListing"}, id : Orders,
           pay : {"ONLINE_ESCROW", "OFFLINE_CASH"}, via : Offers \cup {NONE}]
Bids == [name : {"createOffer"}, id : Offers, price : Prices]

Ops == { Op(n, o) : n \in OrderOps, o \in Orders }
       \cup { Op(n, f) : n \in OfferOps, f \in Offers }
       \cup { Op(n, NONE) : n \in ListingOps }
       \cup Drafts \cup Bids

Idle == Op("idle", NONE)

Start(s, op) ==
    /\ busy[s] = Idle
    /\ busy' = [busy EXCEPT ![s] = op]
    /\ UNCHANGED <<orders, offers, listing, holder, slip>>

Finish(s) == busy' = [busy EXCEPT ![s] = Idle]
Doing(s, name) == busy[s].name = name

\* A write whose check would no longer pass is a slip, whatever else it is.
NoteStale(fresh, cause) == Note(IF fresh THEN cause ELSE "STALE_CHECK")

-----------------------------------------------------------------------------
(* orders.service.ts *)

\* createFromListing: from an accepted offer, or else while the listing is on sale.
MayDraft(via) ==
    IF via = NONE
    THEN listing.status = "ACTIVE"
    ELSE offers[via].status = "ACCEPTED" /\ ~offers[via].lapsed

CreateFromListing(s) ==
    \/ \E op \in Drafts :
          /\ ~Exists(op.id)
          /\ RoomForClaim
          /\ MayDraft(op.via)
          /\ Start(s, op)
    \/ /\ Doing(s, "createFromListing")
       /\ LET op == busy[s]
              row == [status |-> "AWAITING_PAYMENT", clock |-> "DRAFT",
                      pay |-> op.pay, via |-> op.via]
              now == [orders EXCEPT ![op.id] = row]
          IN /\ ~Exists(op.id)
             /\ RoomForClaim
             /\ orders' = now
             /\ NoteStale(MayDraft(op.via),
                          IF Forsaken(now, offers, holder) THEN "LEFT_BEHIND" ELSE NONE)
       /\ Finish(s)
       /\ UNCHANGED <<offers, listing, holder>>

MayConfirm(o) == Unpaid(o) /\ ~Confirmed(o)

\* Variant: only unpaid orders are looked for.
ConflictUnpaidOnly(o) == \E p \in Orders \ {o} : Unpaid(p) /\ orders[p].clock = "RUNNING"

\* Another order that confirmReview lets win.
Conflict(o) == \E p \in Orders \ {o} :
    \/ Unpaid(p) /\ orders[p].clock = "RUNNING"
    \/ orders[p].status \in {"PAID", "COMPLETED"}

\* Variant: the item is left on sale.
ReservedNot == listing

\* The item taken off sale.
Reserved == [listing EXCEPT !.status = "RESERVED"]

Grabs(o) == listing.status = "ACTIVE"

\* Whom a confirmation that did not grab the listing steps on.
SteppedOn(o) ==
    IF listing.status = "REMOVED" THEN "REMOVED_ITEM"
    ELSE IF HeldFor(o) THEN NONE
    ELSE IF holder \in Offers THEN "OFFER_HELD"
    ELSE IF holder \in Orders /\ Overdue(holder) THEN "UNSWEPT"
    ELSE NONE

ConfirmReview(s) ==
    \/ \E o \in Orders : MayConfirm(o) /\ Start(s, Op("confirmReview", o))
    \/ /\ Doing(s, "confirmReview")
       /\ LET o == busy[s].id
              grab == Grabs(o)
          IN IF grab \/ ~Conflict(o)
             THEN /\ orders' = [orders EXCEPT ![o].clock = "RUNNING"]
                  /\ listing' = IF grab THEN Reserved ELSE listing
                  /\ holder' = IF grab \/ HeldFor(o) THEN o ELSE holder
                  /\ NoteStale(MayConfirm(o), IF grab THEN NONE ELSE SteppedOn(o))
             ELSE UNCHANGED <<orders, listing, holder, slip>>
       /\ Finish(s)
       /\ UNCHANGED offers

\* markPaid; a gateway webhook does the same to an online order.
MayPay(o) == Unpaid(o) /\ (orders[o].pay = "ONLINE_ESCROW" => Confirmed(o))

MarkPaid(s) ==
    \/ \E o \in Orders : MayPay(o) /\ Start(s, Op("markPaid", o))
    \/ /\ Doing(s, "markPaid")
       /\ LET o == busy[s].id
          IN /\ orders' = [orders EXCEPT ![o].status = "PAID"]
             /\ holder' = IF HeldFor(o) THEN o ELSE holder
             /\ NoteStale(MayPay(o), IF HeldFor(o) THEN NONE ELSE "UNCONFIRMED")
       /\ Finish(s)
       /\ UNCHANGED <<offers, listing>>

\* The in-process confirmation of a card sets PAID whatever the order has become.
ConfirmFromMock(o) ==
    /\ Exists(o)
    /\ orders[o].pay = "ONLINE_ESCROW"
    /\ Confirmed(o)
    /\ orders' = [orders EXCEPT ![o].status = "PAID"]
    /\ Note(IF Unpaid(o) /\ HeldFor(o) THEN NONE ELSE "REVIVED")
    /\ UNCHANGED <<offers, listing, busy, holder>>

\* The life of a paid order, in one step: the closing transactions of OrderFlow.
CloseOrder(o) ==
    /\ orders[o].status = "PAID"
    /\ \/ /\ orders' = [orders EXCEPT ![o].status = "COMPLETED"]
          /\ listing' = [listing EXCEPT !.status = "SOLD"]
          /\ UNCHANGED holder
       \/ /\ orders' = [orders EXCEPT ![o].status = "REFUNDED"]
          /\ listing' = [listing EXCEPT !.status = "ACTIVE"]
          /\ holder' = NONE
    /\ UNCHANGED <<offers, busy, slip>>

\* Drafts older than a day that nobody confirmed, in one UPDATE.
SweepDrafts ==
    LET old == { o \in Orders : Unpaid(o) /\ orders[o].clock = "OLD_DRAFT" }
        now == [ o \in Orders |-> IF o \in old
                                  THEN [orders[o] EXCEPT !.status = "PAYMENT_EXPIRED"]
                                  ELSE orders[o] ]
    IN /\ old # {}
       /\ orders' = now
       /\ Note(IF Forsaken(now, offers, holder) THEN "LEFT_BEHIND" ELSE NONE)
       /\ UNCHANGED <<offers, listing, busy, holder>>

\* Variant: the order expires and its item stays reserved.
RelistForgotten(s, o) ==
    /\ orders' = [orders EXCEPT ![o].status = "PAYMENT_EXPIRED"]
    /\ UNCHANGED <<listing, holder>>

\* The write of the sweep: the order expires and its item is on sale again.
Relist(s, o) ==
    /\ orders' = [orders EXCEPT ![o].status = "PAYMENT_EXPIRED"]
    /\ listing' = [listing EXCEPT !.status = "ACTIVE"]
    /\ holder' = NONE

\* Variant: the write does not look at the status again.
SweepPaymentExpiredUnguarded(s) ==
    \/ \E o \in Orders : Overdue(o) /\ Start(s, Op("sweepPaymentExpired", o))
    \/ /\ Doing(s, "sweepPaymentExpired")
       /\ Relist(s, busy[s].id)
       /\ Finish(s)
       /\ UNCHANGED <<offers, slip>>

SweepPaymentExpired(s) ==
    \/ \E o \in Orders : Overdue(o) /\ Start(s, Op("sweepPaymentExpired", o))
    \/ /\ Doing(s, "sweepPaymentExpired")
       /\ IF Unpaid(busy[s].id)
          THEN Relist(s, busy[s].id)
          ELSE UNCHANGED <<orders, listing, holder>>
       /\ Finish(s)
       /\ UNCHANGED <<offers, slip>>

-----------------------------------------------------------------------------
(* offers.service.ts *)

Pending(f) == offers[f].status = "PENDING"

\* createOffer, of this listing's price negotiations; a counter also answers its parent.
CreateOffer(s) ==
    \/ \E op \in Bids :
          /\ ~Offered(op.id)
          /\ RoomForClaim
          /\ listing.status = "ACTIVE"
          /\ Start(s, op)
    \/ /\ Doing(s, "createOffer")
       /\ ~Offered(busy[s].id)
       /\ RoomForClaim
       /\ offers' = [offers EXCEPT ![busy[s].id] =
                        [NoOffer EXCEPT !.status = "PENDING", !.price = busy[s].price]]
       /\ NoteStale(listing.status = "ACTIVE", NONE)
       /\ Finish(s)
       /\ UNCHANGED <<orders, listing, holder>>

SetOffer(f, st) == offers' = [offers EXCEPT ![f].status = st]

MayAccept(f) == Pending(f) /\ ~offers[f].expired

\* What acceptance does to the offers of the listing.
Accepted(f) == [ g \in Offers |->
    IF g = f THEN [offers[g] EXCEPT !.status = "ACCEPTED", !.lapsed = FALSE]
    ELSE IF Pending(g) THEN [offers[g] EXCEPT !.status = "CLOSED"]
    ELSE offers[g] ]

AcceptOffer(s) ==
    \/ \E f \in Offers : MayAccept(f) /\ Start(s, Op("acceptOffer", f))
    \/ /\ Doing(s, "acceptOffer")
       /\ LET f == busy[s].id
          IN IF listing.status = "ACTIVE"
             THEN /\ offers' = Accepted(f)
                  /\ listing' = Reserved
                  /\ holder' = f
                  /\ NoteStale(MayAccept(f),
                               IF Forsaken(orders, Accepted(f), f) THEN "LEFT_BEHIND" ELSE NONE)
             ELSE UNCHANGED <<offers, listing, holder, slip>>
       /\ Finish(s)
       /\ UNCHANGED orders

\* Accepting looks at the age of the offer before its status.
AcceptLate(s) ==
    \/ \E f \in Offers : /\ Offered(f)
                         /\ offers[f].expired
                         /\ Start(s, Op("acceptLate", f))
    \/ /\ Doing(s, "acceptLate")
       /\ SetOffer(busy[s].id, "CLOSED")
       /\ Note(IF offers[busy[s].id].status = "ACCEPTED" THEN "LAZY_EXPIRY" ELSE NONE)
       /\ Finish(s)
       /\ UNCHANGED <<orders, listing, holder>>

\* rejectOffer, withdrawOffer, and the parent of a counterOffer.
AnswerOffer(s) ==
    \/ \E f \in Offers : Pending(f) /\ Start(s, Op("answerOffer", f))
    \/ /\ Doing(s, "answerOffer")
       /\ SetOffer(busy[s].id, "CLOSED")
       /\ NoteStale(Pending(busy[s].id), NONE)
       /\ Finish(s)
       /\ UNCHANGED <<orders, listing, holder>>

\* getOffer of an open offer past its time, and the same row of sweepExpiredOffers.
ExpireOffer(s) ==
    \/ \E f \in Offers : Pending(f) /\ offers[f].expired /\ Start(s, Op("expireOffer", f))
    \/ /\ Doing(s, "expireOffer")
       /\ SetOffer(busy[s].id, "CLOSED")
       /\ NoteStale(Pending(busy[s].id), NONE)
       /\ Finish(s)
       /\ UNCHANGED <<orders, listing, holder>>

Unclaimed(f) == offers[f].status = "ACCEPTED" /\ offers[f].lapsed /\ ~OrderAtPrice(f)

SweepPaymentDeadline(s) ==
    \/ \E f \in Offers : Unclaimed(f) /\ Start(s, Op("sweepPaymentDeadline", f))
    \/ /\ Doing(s, "sweepPaymentDeadline")
       /\ LET f == busy[s].id
              held == listing.status = "RESERVED"
          IN /\ SetOffer(f, "CLOSED")
             /\ listing' = IF held THEN [listing EXCEPT !.status = "ACTIVE"] ELSE listing
             /\ holder' = IF held THEN NONE ELSE holder
             /\ NoteStale(Unclaimed(f), NONE)
       /\ Finish(s)
       /\ UNCHANGED orders

-----------------------------------------------------------------------------
(* listings.service.ts, admin.controller.ts *)

ListingWrite(s, name, may, row, cause) ==
    \/ may /\ Start(s, Op(name, NONE))
    \/ /\ Doing(s, name)
       /\ listing' = row
       /\ holder' = IF row.status = "ACTIVE" THEN NONE ELSE holder
       /\ NoteStale(may, cause)
       /\ Finish(s)
       /\ UNCHANGED <<orders, offers>>

\* Variant: the row is marked with a status of its own.
RemovedBy(by) == [status |-> by, removedBy |-> by]

Removed(by) == [status |-> "REMOVED", removedBy |-> by]

SoftDelete(s) ==
    ListingWrite(s, "softDelete", listing.status = "ACTIVE", Removed("SELLER"), NONE)

RestoreOwn(s) ==
    ListingWrite(s, "restoreOwn", listing = Removed("SELLER"), OnSale, NONE)

RemoveListing(s) ==
    ListingWrite(s, "removeListing", listing.status # "REMOVED", Removed("ADMIN"),
                 IF listing.status \in {"RESERVED", "SOLD"} THEN "TAKEN_DOWN" ELSE NONE)

RestoreListing(s) ==
    ListingWrite(s, "restoreListing", listing.status = "REMOVED", OnSale, NONE)

-----------------------------------------------------------------------------
(* Time and failures. *)

TimePasses ==
    /\ \/ \E o \in Orders :
             /\ Unpaid(o)
             /\ orders[o].clock \in {"DRAFT", "RUNNING"}
             /\ orders' = [orders EXCEPT ![o].clock =
                              IF @ = "DRAFT" THEN "OLD_DRAFT" ELSE "ELAPSED"]
             /\ UNCHANGED offers
       \/ \E f \in Offers :
             /\ offers[f].status \in {"PENDING", "ACCEPTED"}
             /\ \/ ~offers[f].expired /\ offers' = [offers EXCEPT ![f].expired = TRUE]
                \/ /\ offers[f].status = "ACCEPTED"
                   /\ ~offers[f].lapsed
                   /\ offers' = [offers EXCEPT ![f].lapsed = TRUE]
             /\ UNCHANGED orders
    /\ UNCHANGED <<listing, busy, holder, slip>>

\* A request dies between its read and its write.
Fail(s) ==
    /\ busy[s] # Idle
    /\ Finish(s)
    /\ UNCHANGED <<orders, offers, listing, holder, slip>>

Init ==
    /\ orders = [o \in Orders |-> NoOrder]
    /\ offers = [f \in Offers |-> NoOffer]
    /\ listing = OnSale
    /\ busy = [s \in Slots |-> Idle]
    /\ holder = NONE
    /\ slip = NONE

OrderStep(s) == CreateFromListing(s) \/ ConfirmReview(s) \/ MarkPaid(s) \/ SweepPaymentExpired(s)
OfferStep(s) ==
    \/ CreateOffer(s) \/ AcceptOffer(s) \/ AcceptLate(s) \/ AnswerOffer(s)
    \/ ExpireOffer(s) \/ SweepPaymentDeadline(s)
ListingStep(s) == SoftDelete(s) \/ RestoreOwn(s) \/ RemoveListing(s) \/ RestoreListing(s)

Next ==
    /\ GO_ON \/ slip = NONE
    /\ \/ \E s \in Slots : OrderStep(s) \/ OfferStep(s) \/ ListingStep(s) \/ Fail(s)
       \/ \E o \in Orders : ConfirmFromMock(o) \/ CloseOrder(o)
       \/ SweepDrafts
       \/ TimePasses

Spec == Init /\ [][Next]_vars

-----------------------------------------------------------------------------
(* Properties. *)

\* Every row has a shape the schema allows (prisma Order, Offer, Listing).
TypeOK ==
    /\ orders \in [Orders -> OrderRow]
    /\ offers \in [Offers -> OfferRow]
    /\ listing \in Listings
    /\ busy \in [Slots -> Ops \cup {Idle}]
    /\ holder \in Orders \cup Offers \cup {NONE}
    /\ slip \in Causes \cup {NONE}

\* An order that a buyer has confirmed, paid or received.
Claim(o) == \/ Unpaid(o) /\ Confirmed(o)
            \/ orders[o].status \in {"PAID", "COMPLETED"}

(* One item, one buyer: unless one of the named causes has occurred, no two *)
(* orders hold the same listing (confirmReview, markPaid, the sweeps).      *)
OneClaim == slip = NONE => \A o, p \in Orders : Claim(o) /\ Claim(p) => o = p

(* A claimed item is off sale, and reserved for the order that claims it;   *)
(* only a completed order has it sold.                                      *)
ClaimHoldsItem ==
    slip = NONE => \A o \in Orders : Claim(o) =>
        IF orders[o].status = "COMPLETED"
        THEN listing.status = "SOLD"
        ELSE HeldFor(o)

(* A reserved item is waited for by somebody: an order with a deadline or a *)
(* payment, or an accepted offer that will be ordered or swept.             *)
ReservedHasOwner ==
    slip = NONE /\ listing.status = "RESERVED" =>
        \/ \E o \in Orders : Claim(o) /\ orders[o].status # "COMPLETED"
        \/ \E f \in Offers : f = holder /\ Expected(orders, offers, f)

(* However requests interleave, a paid or completed order never lapses.     *)
PaidNeverLapses ==
    [][ \A o \in Orders : orders[o].status \in {"PAID", "COMPLETED"} =>
            orders'[o].status # "PAYMENT_EXPIRED" ]_vars
=============================================================================
