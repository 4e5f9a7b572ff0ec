------------------------------ MODULE OrderFlow ------------------------------
(***************************************************************************)
(* The life of one order of the marketplace API: the row of table Order,   *)
(* the listing it sells, its active Payment row and the gateway intent the *)
(* row points to, as orders.service.ts, orders.cron.ts, payments.service.ts*)
(* and the order endpoints of admin.controller.ts change them.             *)
(*                                                                         *)
(* Every handler of the code has the same shape: it READS the row, checks  *)
(* it, awaits, and then WRITES by primary key, mostly without repeating    *)
(* the check.  So every operation here is an action with two disjuncts:    *)
(* the read that accepts the request, and the later write.  inflight[r]    *)
(* holds what request r has read and what it will do next.  The write of a *)
(* $transaction is one step; a query whose WHERE clause repeats the status *)
(* tests it again in the write.  A refused request changes nothing and has *)
(* no step.                                                                *)
(*                                                                         *)
(* OVERLAP says whether requests may be in flight together (the server's   *)
(* real situation) or one at a time (what the handlers were written for).  *)
(*                                                                         *)
(* A definition marked "Variant" is an operation with one mistake in it;   *)
(* Spec uses none of them.                                                 *)
(***************************************************************************)
EXTENDS Naturals, Sequences

CONSTANTS
    Requests,       \* slots for concurrent HTTP requests and webhook deliveries
    CRON,           \* the slot of the timer-driven sweeps
    OVERLAP,        \* TRUE: handlers interleave; FALSE: one handler at a time
    Plans,          \* the orders considered: what the buyer chose at checkout, and
                    \* whether the server's STRIPE_MODE is mock (or test, or live)
    MAX_REPHOTO,    \* re-photo requests allowed per order (2 in the code)
    MAX_ROUNDS,     \* bound: photo rounds the model lets an order record
    SECOND_LIFE     \* bound: whether the model follows an order that was paid twice

-----------------------------------------------------------------------------
(* Checkout choices.                                                       *)

MEETUP_METHODS == {"MEETUP_AUTH", "MEETUP_3WAY", "MEETUP_DIRECT"}

\* The payment-method x delivery-method x authenticator matrix.  An order paid
\* in cash never meets a gateway, so the server's mode is all one to it.
LegalPlan(p) ==
    /\ p.method = "MEETUP_DIRECT" => ~p.auth /\ p.pay = "OFFLINE_CASH"
    /\ p.method \in {"MEETUP_AUTH", "MEETUP_3WAY"} => p.auth
    /\ p.tier = 3 => p.auth
    /\ p.method = "SHIP" => (p.pay = "ONLINE_ESCROW" <=> p.auth)
    /\ p.mock => p.pay = "ONLINE_ESCROW"

LegalPlans == { p \in [method : {"SHIP"} \cup MEETUP_METHODS, auth : BOOLEAN, tier : 1..3,
                       pay : {"ONLINE_ESCROW", "OFFLINE_CASH"}, mock : BOOLEAN] : LegalPlan(p) }

ASSUME OrderFlowAssumption ==
    /\ CRON \notin Requests
    /\ OVERLAP \in BOOLEAN
    /\ Plans \subseteq LegalPlans
    /\ MAX_REPHOTO \in Nat
    /\ MAX_ROUNDS \in Nat
    /\ SECOND_LIFE \in BOOLEAN

VARIABLES
    plan,       \* what the buyer chose at checkout, and the server's gateway; never changes
    order,      \* the Order row
    listing,    \* status of the Listing row
    payment,    \* status of the active Payment row
    intent,     \* state of the gateway intent that row points to
    events,     \* gateway events that may be delivered (again) as webhooks
    credits,    \* times the order was added to the authenticator's completedCount
    clock,      \* the deadlines stored on the row, and whether they have passed
    inflight    \* what each request slot is doing

db == <<plan, order, listing, payment, intent, events, credits, clock>>
vars == <<plan, order, listing, payment, intent, events, credits, clock, inflight>>

Slots == Requests \cup {CRON}

Online == plan.pay = "ONLINE_ESCROW"

-----------------------------------------------------------------------------
(* The rows.                                                               *)

Statuses == {"AWAITING_PAYMENT", "PAID", "HANDOVER_TO_AUTH", "SELLER_ACK_PENDING",
             "CUSTODY", "SHIPPED_TO_AUTHENTICATOR", "AUTH_RECEIVED_PENDING_SELLER_ACK",
             "AUTHENTICATING", "AUTH_PASSED", "AUTH_FAILED", "AWAITING_BUYER_PICKUP",
             "SHIPPED_TO_BUYER", "DELIVERED_PENDING_AUTH_ACK", "DELIVERED",
             "COMPLETED", "DISPUTED", "REFUNDED", "PAYMENT_EXPIRED"}

Verdicts == {"PASSED", "FAILED", "INCONCLUSIVE"}

\* handoverHistory, reduced to the outcome of each photo round.  repaid is no
\* column but a history of the model: confirm-mock has made the order PAID when
\* it was already past that.
Rounds == {"OPEN", "ACKED", "REJECTED"}

OrderRow == [status : Statuses, escrowHeld : BOOLEAN, custodyHeld : BOOLEAN,
             verdict : Verdicts \cup {"NONE"}, evidence : BOOLEAN,
             history : Seq(Rounds), rePhotoCount : Nat,
             returnPhotos : BOOLEAN, returnAck : BOOLEAN,
             completedAt : BOOLEAN, cashoutEligible : BOOLEAN, repaid : BOOLEAN]

PaymentStatuses == {"NONE", "PENDING_AUTH", "FAILED", "AUTHORIZED", "CAPTURED",
                    "CANCELLED", "REFUNDED"}
IntentStates == {"NONE", "OPEN", "HELD", "CHARGED", "CANCELED", "REFUNDED"}
Events == {"HELD", "CHARGED", "FAILED", "CANCELED", "REFUNDED"}
ListingStatuses == {"ACTIVE", "RESERVED", "SOLD"}

Clocks == {"draft", "payment", "sellerAck", "autoComplete"}
ClockStates == {"UNSET", "RUNNING", "ELAPSED"}

NewOrder == [status |-> "AWAITING_PAYMENT", escrowHeld |-> Online, custodyHeld |-> FALSE,
             verdict |-> "NONE", evidence |-> FALSE, history |-> <<>>, rePhotoCount |-> 0,
             returnPhotos |-> FALSE, returnAck |-> FALSE,
             completedAt |-> FALSE, cashoutEligible |-> FALSE, repaid |-> FALSE]

\* Tier 1 is charged at once, the other tiers are held and captured later.
Paid1 == IF plan.tier = 1 THEN "CHARGED" ELSE "HELD"

-----------------------------------------------------------------------------
(* Requests in flight.                                                     *)

\* The fields of the row a write still uses from the handler's first read.
Unread == [history |-> <<>>, escrowHeld |-> FALSE, payment |-> "NONE", awaiting |-> FALSE]

Idle == [op |-> "idle", at |-> "done", arg |-> "NONE", seen |-> Unread]

SeenRow == [history : Seq(Rounds), escrowHeld : BOOLEAN,
            payment : PaymentStatuses, awaiting : BOOLEAN]

Ops == {"idle",
        "confirmReview", "markPaid", "createIntent", "confirmFromMock", "gatewayEvent",
        "cancelHold",
        "shipToAuthenticator", "shipToBuyerDirect", "markAuthenticatorReceived", "addEvidence",
        "submitVerdict", "shipToBuyer", "confirmDelivered", "disputeShip", "authDeliveryAck",
        "completeOrder", "startMeetupAuth", "completeMeetup", "custodyPhoneFallback",
        "qrDropoff", "qrPickup", "startMeetupHandover", "authReceiveAck", "sellerHandoverAck",
        "sellerReceiptAck", "requestRePhoto", "cancelHandover", "submitVerdictMeetup",
        "buyerReceiveAck", "uploadReturnPhotos", "sellerReturnAck", "disputeMeetup",
        "forceRefund", "releaseEscrow",
        "sweepSellerAckTimeout", "sweepShipAutoComplete", "sweepPaymentExpired"}

\* Where a handler stands; what else it was called with.
Steps == {"done", "write", "void", "row", "gateway", "declined",
          "captureFirst", "captureLast", "rowFirst", "rowLast"}
Args == {"NONE"} \cup Verdicts \cup Events

VerdictOps == {"submitVerdict", "submitVerdictMeetup"}

Flight == { f \in [op : Ops, at : Steps, arg : Args, seen : SeenRow] :
              /\ f.op = "gatewayEvent" => f.arg \in Events
              /\ f.op \in VerdictOps => f.arg \in Verdicts }

\* A request is accepted: it has read the row and waits to run step `at`.
StartWith(r, op, at, arg, seen) ==
    /\ inflight[r] = Idle
    /\ OVERLAP \/ \A s \in Slots : inflight[s] = Idle
    /\ order.repaid => SECOND_LIFE
    /\ inflight' = [inflight EXCEPT ![r] = [op |-> op, at |-> at, arg |-> arg, seen |-> seen]]
    /\ UNCHANGED db

Start(r, op) == StartWith(r, op, "write", "NONE", Unread)

At(r, op, step) == inflight[r].op = op /\ inflight[r].at = step
GoOn(r, step) == inflight' = [inflight EXCEPT ![r].at = step]
Finish(r) == inflight' = [inflight EXCEPT ![r] = Idle]

-----------------------------------------------------------------------------
(* Writes shared by several handlers.                                      *)

SetOrder(row) ==
    /\ order' = row
    /\ UNCHANGED <<plan, listing, payment, intent, events, credits, clock>>

SetStatus(s) == SetOrder([order EXCEPT !.status = s])

\* Bound: the authenticator's counter is observed as 0, 1 or "2 and more".
MAX_CREDITS == 2
\* Variant: orders without an authenticator counted too.
CreditEveryOrder == IF credits < MAX_CREDITS THEN credits + 1 ELSE credits

Credit == IF plan.auth /\ credits < MAX_CREDITS THEN credits + 1 ELSE credits

\* The gateway posts an event about what it did; the mock in the server's own
\* process posts none.
Posted(e) == IF plan.mock THEN events ELSE events \cup {e}

\* Cancelling the intent at the gateway: charged money stays charged, except
\* for the mock, which cancels whatever it has.
Voided == IF ~plan.mock /\ intent \in {"CHARGED", "REFUNDED"} THEN intent ELSE "CANCELED"

\* Capturing it; the mock does not mind a second capture.
Capturable == intent = "HELD" \/ (plan.mock /\ intent = "CHARGED")

\* Giving a charge back; the mock keeps no record of it.
Refunded == IF plan.mock THEN intent ELSE "REFUNDED"

\* Cancelling it where an error of the gateway is caught and ignored.
TryVoid ==
    /\ intent' \in {intent, Voided}
    /\ events' = IF intent' = "CANCELED" THEN Posted("CANCELED") ELSE events

\* Variant: the listing forgotten.
CompleteTxKeepsListing(row) ==
    /\ credits' = Credit
    /\ order' = [row EXCEPT !.status = "COMPLETED", !.completedAt = TRUE,
                            !.cashoutEligible = TRUE]
    /\ UNCHANGED <<plan, listing, payment, intent, events, clock>>

\* The completion transaction: listing SOLD, completedCount + 1, order COMPLETED.
CompleteTx(row) ==
    /\ listing' = "SOLD"
    /\ credits' = Credit
    /\ order' = [row EXCEPT !.status = "COMPLETED", !.completedAt = TRUE,
                            !.cashoutEligible = TRUE]
    /\ UNCHANGED <<plan, payment, intent, events, clock>>

\* The cancellation transaction: listing back on sale, order REFUNDED.  No
\* Payment row and no gateway call is involved.
RefundTx(row) ==
    /\ listing' = "ACTIVE"
    /\ order' = [row EXCEPT !.status = "REFUNDED", !.escrowHeld = FALSE]
    /\ UNCHANGED <<plan, payment, intent, events, credits, clock>>

\* Variant: the row is marked captured although the gateway refused.
TryCaptureRowOnly(r) ==
    \/ /\ inflight[r].at \in {"captureFirst", "captureLast"}
       /\ payment = "AUTHORIZED"
       /\ GoOn(r, IF inflight[r].at = "captureFirst" THEN "rowFirst" ELSE "rowLast")
       /\ UNCHANGED db
    \/ /\ inflight[r].at \in {"rowFirst", "rowLast"}
       /\ payment' = "CAPTURED"
       /\ IF inflight[r].at = "rowFirst" THEN GoOn(r, "write") ELSE Finish(r)
       /\ UNCHANGED <<plan, order, listing, intent, events, credits, clock>>

\* tryCapturePayment: best effort, any error of the three queries and the call
\* is swallowed.  The request goes on with its write when it captured first, and
\* is over when it captured last.  The query for an AUTHORIZED row and the call to
\* the gateway are one step, the write of the row by its primary key another.
TryCapture(r) ==
    \/ /\ inflight[r].at \in {"captureFirst", "captureLast"}
       /\ payment = "AUTHORIZED"
       /\ Capturable
       /\ intent' = "CHARGED"
       /\ events' = Posted("CHARGED")
       /\ GoOn(r, IF inflight[r].at = "captureFirst" THEN "rowFirst" ELSE "rowLast")
       /\ UNCHANGED <<plan, order, listing, payment, credits, clock>>
    \/ /\ inflight[r].at \in {"captureFirst", "captureLast"}
       /\ IF inflight[r].at = "captureFirst" THEN GoOn(r, "write") ELSE Finish(r)
       /\ UNCHANGED db
    \/ /\ inflight[r].at \in {"rowFirst", "rowLast"}
       /\ payment' \in {"CAPTURED", payment}
       /\ IF inflight[r].at = "rowFirst" THEN GoOn(r, "write") ELSE Finish(r)
       /\ UNCHANGED <<plan, order, listing, intent, events, credits, clock>>

\* Variant: the status set, the clock not.
ShipWriteNoClock == SetStatus("SHIPPED_TO_BUYER")

\* Shipping to the buyer starts the T+3 clock.
ShipWrite ==
    /\ order' = [order EXCEPT !.status = "SHIPPED_TO_BUYER"]
    /\ clock' = [clock EXCEPT !["autoComplete"] = "RUNNING"]
    /\ UNCHANGED <<plan, listing, payment, intent, events, credits>>

TakeCustody(row) == [row EXCEPT !.status = "CUSTODY", !.custodyHeld = TRUE]

\* Variant: the outcome of the round not recorded.
CloseRoundForgotten(history, outcome) == history

\* The photo rounds with the outcome of the latest one filled in.
CloseRound(history, outcome) ==
    [i \in 1..Len(history) |-> IF i = Len(history) THEN outcome ELSE history[i]]

\* What a gateway event makes of the Payment row.  Variant: the gateway's
\* spelling stored in our column.
RowAfterMisspelt == [HELD |-> "AUTHORIZED", CHARGED |-> "CAPTURED", FAILED |-> "FAILED",
                     CANCELED |-> "CANCELED", REFUNDED |-> "REFUNDED"]

RowAfter == [HELD |-> "AUTHORIZED", CHARGED |-> "CAPTURED", FAILED |-> "FAILED",
             CANCELED |-> "CANCELLED", REFUNDED |-> "REFUNDED"]

-----------------------------------------------------------------------------
(* Checkout and payment.                                                   *)

MayConfirmReview ==
    /\ order.status = "AWAITING_PAYMENT"
    /\ clock["payment"] = "UNSET"

\* The double confirm reserves the listing and starts the 30 minutes.  The
\* query for a conflicting order of another buyer is in module Reservation.
ConfirmReview(r) ==
    \/ /\ MayConfirmReview
       /\ Start(r, "confirmReview")
    \/ /\ At(r, "confirmReview", "write")
       /\ listing' = IF listing = "ACTIVE" THEN "RESERVED" ELSE listing
       /\ clock' = [clock EXCEPT !["payment"] = "RUNNING"]
       /\ Finish(r)
       /\ UNCHANGED <<plan, order, payment, intent, events, credits>>

MayMarkPaid ==
    /\ order.status = "AWAITING_PAYMENT"
    /\ Online => clock["payment"] # "UNSET"

MarkPaid(r) ==
    \/ /\ MayMarkPaid
       /\ Start(r, "markPaid")
    \/ /\ At(r, "markPaid", "write")
       /\ SetStatus("PAID")
       /\ Finish(r)

MayCreateIntent ==
    /\ order.status = "AWAITING_PAYMENT"
    /\ Online
    /\ clock["payment"] = "RUNNING"

\* A new intent, on a new Payment row unless one is still PENDING_AUTH.  The
\* intent it replaces is in module PaymentFlow.
CreateIntent(r) ==
    \/ /\ MayCreateIntent
       /\ Start(r, "createIntent")
    \/ /\ At(r, "createIntent", "write")
       /\ payment' = "PENDING_AUTH"
       /\ intent' = "OPEN"
       /\ events' = {}
       /\ Finish(r)
       /\ UNCHANGED <<plan, order, listing, credits, clock>>

\* The buyer's browser confirms the intent at the gateway; a declined card
\* leaves it open.  The gateway will post an event about it.
BuyerPays ==
    /\ ~plan.mock
    /\ intent = "OPEN"
    /\ \/ /\ intent' = Paid1
          /\ events' = events \cup {Paid1}
       \/ /\ events' = events \cup {"FAILED"}
          /\ UNCHANGED intent
    /\ UNCHANGED <<plan, order, listing, payment, credits, clock, inflight>>

\* POST payments/:id/confirm-mock, how an order is paid when STRIPE_MODE=mock.
\* It looks at the buyer alone: whatever became of the order, of the Payment row
\* and of the intent, the mock confirms the intent, or declines the card, and
\* the rows follow.  A gatewayRef replaced meanwhile, and the rows of earlier
\* attempts, are in module PaymentFlow.
ConfirmFromMock(r) ==
    \/ /\ plan.mock
       /\ payment # "NONE"
       /\ StartWith(r, "confirmFromMock", "gateway", "NONE", Unread)
    \/ /\ At(r, "confirmFromMock", "gateway")
       /\ \/ intent' = Paid1 /\ GoOn(r, "write")
          \/ intent' = "OPEN" /\ GoOn(r, "declined")
       /\ UNCHANGED <<plan, order, listing, payment, events, credits, clock>>
    \/ /\ At(r, "confirmFromMock", "declined")
       /\ payment' = "FAILED"
       /\ Finish(r)
       /\ UNCHANGED <<plan, order, listing, intent, events, credits, clock>>
    \/ /\ At(r, "confirmFromMock", "write")
       /\ payment' = RowAfter[Paid1]
       /\ order' = [order EXCEPT !.status = "PAID", !.escrowHeld = TRUE,
                                 !.repaid = @ \/ order.status \notin {"AWAITING_PAYMENT", "PAID"}]
       /\ Finish(r)
       /\ UNCHANGED <<plan, listing, intent, events, credits, clock>>

\* The events handleGatewayEvent applies to the Payment row.
Applies(e) ==
    CASE e \in {"HELD", "FAILED"} -> payment \in {"PENDING_AUTH", "FAILED"}
      [] e = "CHARGED" -> payment \notin {"CAPTURED", "REFUNDED"}
      [] e = "CANCELED" -> payment \notin {"CAPTURED", "CANCELLED", "REFUNDED"}
      [] e = "REFUNDED" -> payment = "CAPTURED"

\* Events are delivered late, repeatedly or never.  The order is marked PAID
\* only if it was AWAITING_PAYMENT when the event was looked up.
GatewayEvent(r) ==
    \/ \E e \in events :
         /\ Applies(e)
         /\ StartWith(r, "gatewayEvent", "write", e,
                      [Unread EXCEPT !.awaiting = /\ e \in {"HELD", "CHARGED"}
                                                  /\ order.status = "AWAITING_PAYMENT"])
    \/ /\ At(r, "gatewayEvent", "write")
       /\ payment' = RowAfter[inflight[r].arg]
       /\ order' = IF inflight[r].seen.awaiting
                     THEN [order EXCEPT !.status = "PAID", !.escrowHeld = TRUE]
                     ELSE order
       /\ Finish(r)
       /\ UNCHANGED <<plan, listing, intent, events, credits, clock>>

\* The buyer cancels the hold, whatever the order's status: gateway, Payment
\* row, then the escrow flag.  An order paid offline has neither hold nor flag.
CancelHold(r) ==
    \/ /\ Online
       /\ StartWith(r, "cancelHold",
                    IF payment \in {"AUTHORIZED", "PENDING_AUTH"} THEN "void" ELSE "write",
                    "NONE", Unread)
    \/ /\ At(r, "cancelHold", "void")
       /\ TryVoid
       /\ GoOn(r, "row")
       /\ UNCHANGED <<plan, order, listing, payment, credits, clock>>
    \/ /\ At(r, "cancelHold", "row")
       /\ payment' = "CANCELLED"
       /\ GoOn(r, "write")
       /\ UNCHANGED <<plan, order, listing, intent, events, credits, clock>>
    \/ /\ At(r, "cancelHold", "write")
       /\ SetOrder([order EXCEPT !.escrowHeld = FALSE])
       /\ Finish(r)

-----------------------------------------------------------------------------
(* SHIP: seller -> authenticator -> buyer, or seller -> buyer.             *)

MayShipToAuthenticator ==
    /\ order.status = "PAID"
    /\ plan.auth
    /\ plan.method \notin MEETUP_METHODS

ShipToAuthenticator(r) ==
    \/ /\ MayShipToAuthenticator
       /\ Start(r, "shipToAuthenticator")
    \/ /\ At(r, "shipToAuthenticator", "write")
       /\ SetStatus("SHIPPED_TO_AUTHENTICATOR")
       /\ Finish(r)

MayShipToBuyerDirect ==
    /\ ~plan.auth
    /\ order.status = "PAID"

ShipToBuyerDirect(r) ==
    \/ /\ MayShipToBuyerDirect
       /\ Start(r, "shipToBuyerDirect")
    \/ /\ At(r, "shipToBuyerDirect", "write")
       /\ ShipWrite
       /\ Finish(r)

MayMarkAuthenticatorReceived ==
    /\ plan.auth
    /\ order.status = "SHIPPED_TO_AUTHENTICATOR"

MarkAuthenticatorReceived(r) ==
    \/ /\ MayMarkAuthenticatorReceived
       /\ Start(r, "markAuthenticatorReceived")
    \/ /\ At(r, "markAuthenticatorReceived", "write")
       /\ SetStatus("AUTHENTICATING")
       /\ Finish(r)

\* Photos after the first add nothing the model tells apart.
MayAddEvidence ==
    /\ plan.auth
    /\ ~order.evidence

AddEvidence(r) ==
    \/ /\ MayAddEvidence
       /\ Start(r, "addEvidence")
    \/ /\ At(r, "addEvidence", "write")
       /\ SetOrder([order EXCEPT !.evidence = TRUE])
       /\ Finish(r)

MaySubmitVerdict ==
    /\ plan.auth
    /\ order.status = "AUTHENTICATING"
    /\ order.evidence

\* A three-way meetup that passes is completed on the spot, after the capture;
\* any other passed order is captured after its status was written.
SubmitVerdict(r) ==
    \/ /\ MaySubmitVerdict
       /\ \E v \in Verdicts :
            StartWith(r, "submitVerdict",
                      IF plan.method = "MEETUP_3WAY" /\ v = "PASSED" THEN "captureFirst" ELSE "write",
                      v, Unread)
    \/ /\ At(r, "submitVerdict", "write")
       /\ plan.method = "MEETUP_3WAY"
       /\ inflight[r].arg = "PASSED"
       /\ CompleteTx([order EXCEPT !.verdict = "PASSED", !.escrowHeld = FALSE])
       /\ Finish(r)
    \/ /\ At(r, "submitVerdict", "write")
       /\ plan.method # "MEETUP_3WAY"
       /\ inflight[r].arg = "PASSED"
       /\ SetOrder([order EXCEPT !.status = "AUTH_PASSED", !.verdict = "PASSED"])
       /\ GoOn(r, "captureLast")
    \/ /\ At(r, "submitVerdict", "write")
       /\ inflight[r].arg # "PASSED"
       /\ SetOrder([order EXCEPT !.status = "AUTH_FAILED", !.verdict = inflight[r].arg])
       /\ Finish(r)

\* Variant: in any status.
ShipToBuyerAnytime(r) ==
    \/ Start(r, "shipToBuyer")
    \/ At(r, "shipToBuyer", "write") /\ ShipWrite /\ Finish(r)

MayShipToBuyer == order.status = "AUTH_PASSED"

ShipToBuyer(r) ==
    \/ /\ MayShipToBuyer
       /\ Start(r, "shipToBuyer")
    \/ /\ At(r, "shipToBuyer", "write")
       /\ ShipWrite
       /\ Finish(r)

ConfirmDelivered(r) ==
    \/ /\ order.status = "SHIPPED_TO_BUYER"
       /\ StartWith(r, "confirmDelivered", IF plan.auth THEN "write" ELSE "captureFirst",
                    "NONE", Unread)
    \/ /\ At(r, "confirmDelivered", "write")
       /\ CompleteTx([order EXCEPT !.escrowHeld = FALSE])
       /\ Finish(r)

\* Variant: in any status.
DisputeShipAnytime(r) ==
    \/ Start(r, "disputeShip")
    \/ At(r, "disputeShip", "write") /\ SetStatus("DISPUTED") /\ Finish(r)

DisputeShip(r) ==
    \/ /\ order.status = "SHIPPED_TO_BUYER"
       /\ Start(r, "disputeShip")
    \/ /\ At(r, "disputeShip", "write")
       /\ SetStatus("DISPUTED")
       /\ Finish(r)

MayAuthDeliveryAck ==
    /\ plan.auth
    /\ order.status = "DELIVERED_PENDING_AUTH_ACK"

\* Statuses that only orders placed before "ack v2" can still be in.
AuthDeliveryAck(r) ==
    \/ /\ MayAuthDeliveryAck
       /\ Start(r, "authDeliveryAck")
    \/ /\ At(r, "authDeliveryAck", "write")
       /\ CompleteTx([order EXCEPT !.escrowHeld = FALSE])
       /\ Finish(r)

MayCompleteOrder == order.status = "DELIVERED"

CompleteOrder(r) ==
    \/ /\ MayCompleteOrder
       /\ StartWith(r, "completeOrder", "write", "NONE",
                    [Unread EXCEPT !.escrowHeld = order.escrowHeld])
    \/ /\ At(r, "completeOrder", "write")
       /\ CompleteTx([order EXCEPT !.escrowHeld = @ /\ ~inflight[r].seen.escrowHeld])
       /\ Finish(r)

-----------------------------------------------------------------------------
(* Meetups with an authenticator present, or without one.                  *)

\* Variant: the hold captured when the examination starts.
StartMeetupAuthCaptures(r) ==
    \/ /\ plan.auth
       /\ plan.method \in MEETUP_METHODS \ {"MEETUP_AUTH"}
       /\ order.status = "PAID"
       /\ Start(r, "startMeetupAuth")
    \/ /\ At(r, "startMeetupAuth", "write")
       /\ SetStatus("AUTHENTICATING")
       /\ GoOn(r, "captureLast")

MayStartMeetupAuth ==
    /\ plan.auth
    /\ plan.method \in MEETUP_METHODS \ {"MEETUP_AUTH"}
    /\ order.status = "PAID"

StartMeetupAuth(r) ==
    \/ /\ MayStartMeetupAuth
       /\ Start(r, "startMeetupAuth")
    \/ /\ At(r, "startMeetupAuth", "write")
       /\ SetStatus("AUTHENTICATING")
       /\ Finish(r)

MayCompleteMeetup ==
    /\ plan.method \in MEETUP_METHODS
    /\ order.status = IF plan.method = "MEETUP_DIRECT" THEN "PAID" ELSE "AUTH_PASSED"

CompleteMeetup(r) ==
    \/ /\ MayCompleteMeetup
       /\ StartWith(r, "completeMeetup", "write", "NONE",
                    [Unread EXCEPT !.escrowHeld = order.escrowHeld])
    \/ /\ At(r, "completeMeetup", "write")
       /\ CompleteTx([order EXCEPT !.escrowHeld = @ /\ ~inflight[r].seen.escrowHeld])
       /\ Finish(r)

-----------------------------------------------------------------------------
(* MEETUP_AUTH: the authenticator takes custody of the item.               *)

CustodyPhoneFallback(r) ==
    \/ /\ plan.method = "MEETUP_AUTH"
       /\ order.status = "PAID"
       /\ Start(r, "custodyPhoneFallback")
    \/ /\ At(r, "custodyPhoneFallback", "write")
       /\ order' = TakeCustody(order)
       /\ clock' = [clock EXCEPT !["sellerAck"] = "RUNNING"]
       /\ Finish(r)
       /\ UNCHANGED <<plan, listing, payment, intent, events, credits>>

\* Confirming a scanned QR token.  A SELLER_DROPOFF token exists only for a
\* MEETUP_AUTH order, a BUYER_PICKUP token only for one that awaits pickup.
ConfirmQrHandover(r) ==
    \/ /\ plan.method = "MEETUP_AUTH"
       /\ order.status = "PAID"
       /\ Start(r, "qrDropoff")
    \/ /\ At(r, "qrDropoff", "write")
       /\ order' = TakeCustody(order)
       /\ clock' = [clock EXCEPT !["sellerAck"] = "RUNNING"]
       /\ Finish(r)
       /\ UNCHANGED <<plan, listing, payment, intent, events, credits>>
    \/ /\ order.status = "AWAITING_BUYER_PICKUP"
       /\ Start(r, "qrPickup")
    \/ /\ At(r, "qrPickup", "write")
       /\ CompleteTx([order EXCEPT !.escrowHeld = FALSE, !.custodyHeld = FALSE])
       /\ Finish(r)

\* Variant: for every delivery method.
StartMeetupHandoverAnyMethod(r) ==
    \/ order.status = "PAID" /\ Start(r, "startMeetupHandover")
    \/ At(r, "startMeetupHandover", "write") /\ SetStatus("HANDOVER_TO_AUTH") /\ Finish(r)

MayStartMeetupHandover ==
    /\ plan.method = "MEETUP_AUTH"
    /\ order.status = "PAID"

StartMeetupHandover(r) ==
    \/ /\ MayStartMeetupHandover
       /\ Start(r, "startMeetupHandover")
    \/ /\ At(r, "startMeetupHandover", "write")
       /\ SetStatus("HANDOVER_TO_AUTH")
       /\ Finish(r)

MayAuthReceiveAck ==
    /\ plan.auth
    /\ order.status = "HANDOVER_TO_AUTH"

\* The whole history array is written back from the copy read at the start.
AuthReceiveAck(r) ==
    \/ /\ MayAuthReceiveAck
       /\ Len(order.history) < MAX_ROUNDS
       /\ StartWith(r, "authReceiveAck", "write", "NONE",
                    [Unread EXCEPT !.history = order.history])
    \/ /\ At(r, "authReceiveAck", "write")
       /\ order' = [order EXCEPT !.status = "SELLER_ACK_PENDING",
                                 !.history = Append(inflight[r].seen.history, "OPEN")]
       /\ clock' = [clock EXCEPT !["sellerAck"] = "RUNNING"]
       /\ Finish(r)
       /\ UNCHANGED <<plan, listing, payment, intent, events, credits>>

MaySellerHandoverAck ==
    /\ plan.method = "MEETUP_AUTH"
    /\ order.status = "SELLER_ACK_PENDING"

MaySellerReceiptAck ==
    /\ plan.method # "MEETUP_AUTH"
    /\ order.status = "AUTH_RECEIVED_PENDING_SELLER_ACK"

SellerHandoverAck(r) ==
    \/ /\ MaySellerHandoverAck
       /\ StartWith(r, "sellerHandoverAck", "write", "NONE",
                    [Unread EXCEPT !.history = order.history])
    \/ /\ At(r, "sellerHandoverAck", "write")
       /\ SetOrder([TakeCustody(order) EXCEPT
                      !.history = CloseRound(inflight[r].seen.history, "ACKED")])
       /\ Finish(r)
    \/ /\ MaySellerReceiptAck
       /\ Start(r, "sellerReceiptAck")
    \/ /\ At(r, "sellerReceiptAck", "write")
       /\ SetStatus("AUTHENTICATING")
       /\ Finish(r)

RequestRePhoto(r) ==
    \/ /\ order.status = "SELLER_ACK_PENDING"
       /\ order.rePhotoCount < MAX_REPHOTO
       /\ StartWith(r, "requestRePhoto", "write", "NONE",
                    [Unread EXCEPT !.history = order.history])
    \/ /\ At(r, "requestRePhoto", "write")
       /\ order' = [order EXCEPT !.status = "HANDOVER_TO_AUTH",
                                 !.history = CloseRound(inflight[r].seen.history, "REJECTED"),
                                 !.rePhotoCount = @ + 1]
       /\ clock' = [clock EXCEPT !["sellerAck"] = "UNSET"]
       /\ Finish(r)
       /\ UNCHANGED <<plan, listing, payment, intent, events, credits>>

CancelHandover(r) ==
    \/ /\ order.status \in {"PAID", "HANDOVER_TO_AUTH", "SELLER_ACK_PENDING"}
       /\ plan.method = "MEETUP_AUTH"
       /\ Start(r, "cancelHandover")
    \/ /\ At(r, "cancelHandover", "write")
       /\ RefundTx([order EXCEPT !.custodyHeld = FALSE])
       /\ Finish(r)

\* Variant: the evidence not counted.
SubmitVerdictMeetupUnseen(r) ==
    \/ /\ plan.method = "MEETUP_AUTH"
       /\ order.status = "CUSTODY"
       /\ \E v \in Verdicts : StartWith(r, "submitVerdictMeetup", "write", v, Unread)
    \/ /\ At(r, "submitVerdictMeetup", "write")
       /\ SetOrder([order EXCEPT !.verdict = inflight[r].arg])
       /\ Finish(r)

MaySubmitVerdictMeetup ==
    /\ plan.method = "MEETUP_AUTH"
    /\ order.status = "CUSTODY"
    /\ order.evidence

SubmitVerdictMeetup(r) ==
    \/ /\ MaySubmitVerdictMeetup
       /\ \E v \in Verdicts : StartWith(r, "submitVerdictMeetup", "write", v, Unread)
    \/ /\ At(r, "submitVerdictMeetup", "write")
       /\ inflight[r].arg = "PASSED"
       /\ SetOrder([order EXCEPT !.status = "AWAITING_BUYER_PICKUP", !.verdict = "PASSED"])
       /\ GoOn(r, "captureLast")
    \/ /\ At(r, "submitVerdictMeetup", "write")
       /\ inflight[r].arg # "PASSED"
       /\ RefundTx([order EXCEPT !.verdict = inflight[r].arg])
       /\ Finish(r)

MayBuyerReceiveAck ==
    /\ plan.method = "MEETUP_AUTH"
    /\ order.status = "AWAITING_BUYER_PICKUP"

BuyerReceiveAck(r) ==
    \/ /\ MayBuyerReceiveAck
       /\ Start(r, "buyerReceiveAck")
    \/ /\ At(r, "buyerReceiveAck", "write")
       /\ CompleteTx([order EXCEPT !.escrowHeld = FALSE, !.custodyHeld = FALSE])
       /\ Finish(r)

UploadReturnPhotos(r) ==
    \/ /\ plan.auth
       /\ order.status = "REFUNDED"
       /\ ~order.returnPhotos
       /\ Start(r, "uploadReturnPhotos")
    \/ /\ At(r, "uploadReturnPhotos", "write")
       /\ SetOrder([order EXCEPT !.returnPhotos = TRUE])
       /\ Finish(r)

\* Variant: the return photos not asked for.
SellerReturnAckUnseen(r) ==
    \/ /\ order.status = "REFUNDED"
       /\ ~order.returnAck
       /\ Start(r, "sellerReturnAck")
    \/ /\ At(r, "sellerReturnAck", "write")
       /\ SetOrder([order EXCEPT !.returnAck = TRUE, !.custodyHeld = FALSE])
       /\ Finish(r)

MaySellerReturnAck ==
    /\ order.status = "REFUNDED"
    /\ order.returnPhotos
    /\ ~order.returnAck

SellerReturnAck(r) ==
    \/ /\ MaySellerReturnAck
       /\ Start(r, "sellerReturnAck")
    \/ /\ At(r, "sellerReturnAck", "write")
       /\ SetOrder([order EXCEPT !.returnAck = TRUE, !.custodyHeld = FALSE])
       /\ Finish(r)

\* POST orders/:id/dispute, by any party.  The seller may not use it while the
\* handover is being photographed.
DisputeMeetup(r) ==
    \/ /\ order.status \notin {"COMPLETED", "REFUNDED", "DISPUTED"}
       /\ \E party \in {"BUYER", "SELLER", "AUTHENTICATOR"} :
            /\ party = "AUTHENTICATOR" => plan.auth
            /\ party = "SELLER" => order.status \notin {"HANDOVER_TO_AUTH", "SELLER_ACK_PENDING"}
       /\ Start(r, "disputeMeetup")
    \/ /\ At(r, "disputeMeetup", "write")
       /\ SetStatus("DISPUTED")
       /\ Finish(r)

-----------------------------------------------------------------------------
(* The back office.  Gateway first, then one transaction that follows the  *)
(* Payment status read at the start; a gateway error aborts the request.   *)

ForceRefund(r) ==
    \/ /\ order.status \notin {"COMPLETED", "REFUNDED"}
       /\ StartWith(r, "forceRefund", "gateway", "NONE", [Unread EXCEPT !.payment = payment])
    \/ /\ At(r, "forceRefund", "gateway")
       /\ \/ /\ inflight[r].seen.payment = "AUTHORIZED"
             /\ Voided = "CANCELED"
             /\ intent' = Voided
             /\ events' = Posted("CANCELED")
          \/ /\ inflight[r].seen.payment = "CAPTURED"
             /\ intent = "CHARGED" \/ plan.mock
             /\ intent' = Refunded
             /\ events' = Posted("REFUNDED")
          \/ /\ inflight[r].seen.payment \notin {"AUTHORIZED", "CAPTURED"}
             /\ UNCHANGED <<intent, events>>
       /\ GoOn(r, "write")
       /\ UNCHANGED <<plan, order, listing, payment, credits, clock>>
    \/ /\ At(r, "forceRefund", "write")
       /\ order' = [order EXCEPT !.status = "REFUNDED", !.escrowHeld = FALSE]
       /\ listing' = "ACTIVE"
       /\ payment' = CASE inflight[r].seen.payment = "AUTHORIZED" -> "CANCELLED"
                       [] inflight[r].seen.payment = "CAPTURED" -> "REFUNDED"
                       [] OTHER -> payment
       /\ Finish(r)
       /\ UNCHANGED <<plan, intent, events, credits, clock>>

ReleaseEscrow(r) ==
    \/ /\ order.status \notin {"COMPLETED", "REFUNDED"}
       /\ StartWith(r, "releaseEscrow", "gateway", "NONE", [Unread EXCEPT !.payment = payment])
    \/ /\ At(r, "releaseEscrow", "gateway")
       /\ \/ /\ inflight[r].seen.payment = "AUTHORIZED"
             /\ Capturable
             /\ intent' = "CHARGED"
             /\ events' = Posted("CHARGED")
          \/ /\ inflight[r].seen.payment # "AUTHORIZED"
             /\ UNCHANGED <<intent, events>>
       /\ GoOn(r, "write")
       /\ UNCHANGED <<plan, order, listing, payment, credits, clock>>
    \/ /\ At(r, "releaseEscrow", "write")
       /\ order' = [order EXCEPT !.status = "COMPLETED", !.completedAt = TRUE,
                                 !.escrowHeld = FALSE]
       /\ listing' = "SOLD"
       /\ payment' = IF inflight[r].seen.payment = "AUTHORIZED" THEN "CAPTURED" ELSE payment
       /\ Finish(r)
       /\ UNCHANGED <<plan, intent, events, credits, clock>>

\* A database or gateway error, or the death of the server, ends a handler
\* between two of its steps.  What it wrote stays written.
Fail(r) ==
    /\ inflight[r] # Idle
    /\ Finish(r)
    /\ UNCHANGED db

-----------------------------------------------------------------------------
(* The sweeps.                                                             *)

\* Variant: only the first photo round times out.
SweepSellerAckTimeoutFirstRound ==
    \/ /\ order.status = "SELLER_ACK_PENDING"
       /\ order.rePhotoCount = 0
       /\ clock["sellerAck"] = "ELAPSED"
       /\ Start(CRON, "sweepSellerAckTimeout")
    \/ /\ At(CRON, "sweepSellerAckTimeout", "write")
       /\ RefundTx([order EXCEPT !.custodyHeld = FALSE])
       /\ Finish(CRON)

\* Guarded by the status in the update itself; a row that moved on makes
\* Prisma throw, which ends the sweep.
SweepSellerAckTimeout ==
    \/ /\ order.status = "SELLER_ACK_PENDING"
       /\ clock["sellerAck"] = "ELAPSED"
       /\ Start(CRON, "sweepSellerAckTimeout")
    \/ /\ At(CRON, "sweepSellerAckTimeout", "write")
       /\ IF order.status = "SELLER_ACK_PENDING"
            THEN RefundTx([order EXCEPT !.custodyHeld = FALSE])
            ELSE UNCHANGED db
       /\ Finish(CRON)

\* Variant: only orders whose hold is still there complete by themselves.
SweepShipAutoCompleteHeldOnly ==
    \/ /\ order.status = "SHIPPED_TO_BUYER"
       /\ clock["autoComplete"] = "ELAPSED"
       /\ payment = "AUTHORIZED"
       /\ StartWith(CRON, "sweepShipAutoComplete", "captureFirst", "NONE", Unread)
    \/ /\ At(CRON, "sweepShipAutoComplete", "write")
       /\ CompleteTx([order EXCEPT !.escrowHeld = FALSE])
       /\ Finish(CRON)

SweepShipAutoComplete ==
    \/ /\ order.status = "SHIPPED_TO_BUYER"
       /\ clock["autoComplete"] = "ELAPSED"
       /\ StartWith(CRON, "sweepShipAutoComplete", "captureFirst", "NONE", Unread)
    \/ /\ At(CRON, "sweepShipAutoComplete", "write")
       /\ IF order.status = "SHIPPED_TO_BUYER"
            THEN CompleteTx([order EXCEPT !.escrowHeld = FALSE])
            ELSE UNCHANGED db
       /\ Finish(CRON)

\* A draft never confirmed for 24 hours is dropped by one guarded statement; a
\* confirmed order past its deadline is voided at the gateway, then expired.
SweepPaymentExpired ==
    \/ /\ order.status = "AWAITING_PAYMENT"
       /\ clock["payment"] = "UNSET"
       /\ clock["draft"] = "ELAPSED"
       /\ inflight[CRON] = Idle
       /\ OVERLAP \/ \A s \in Slots : inflight[s] = Idle
       /\ SetStatus("PAYMENT_EXPIRED")
       /\ UNCHANGED inflight
    \/ /\ order.status = "AWAITING_PAYMENT"
       /\ clock["payment"] = "ELAPSED"
       /\ payment \notin {"AUTHORIZED", "CAPTURED"}
       /\ StartWith(CRON, "sweepPaymentExpired",
                    IF payment = "PENDING_AUTH" THEN "void" ELSE "write", "NONE", Unread)
    \/ /\ At(CRON, "sweepPaymentExpired", "void")
       /\ TryVoid
       /\ GoOn(CRON, "write")
       /\ UNCHANGED <<plan, order, listing, payment, credits, clock>>
    \/ /\ At(CRON, "sweepPaymentExpired", "write")
       /\ IF order.status = "AWAITING_PAYMENT"
            THEN /\ order' = [order EXCEPT !.status = "PAYMENT_EXPIRED", !.escrowHeld = FALSE]
                 /\ listing' = "ACTIVE"
                 /\ payment' = IF payment = "PENDING_AUTH" THEN "CANCELLED" ELSE payment
                 /\ UNCHANGED <<plan, intent, events, credits, clock>>
            ELSE UNCHANGED db
       /\ Finish(CRON)

\* The statuses in which each stored deadline is looked at; elsewhere its
\* passing makes no difference.
WatchedIn(c) == CASE c \in {"draft", "payment"} -> "AWAITING_PAYMENT"
                  [] c = "sellerAck" -> "SELLER_ACK_PENDING"
                  [] c = "autoComplete" -> "SHIPPED_TO_BUYER"

TimePasses ==
    /\ \E c \in Clocks :
         /\ clock[c] = "RUNNING"
         /\ order.status = WatchedIn(c)
         /\ clock' = [clock EXCEPT ![c] = "ELAPSED"]
    /\ UNCHANGED <<plan, order, listing, payment, intent, events, credits, inflight>>

-----------------------------------------------------------------------------
(* Initial states: a draft just created by createFromListing, on a listing *)
(* that is on sale or reserved by the buyer's accepted offer; or an order  *)
(* left in a status of the flow before "ack v2".                           *)

InitDraft ==
    /\ plan \in Plans
    /\ order = NewOrder
    /\ listing \in {"ACTIVE", "RESERVED"}
    /\ payment = "NONE"
    /\ intent = "NONE"
    /\ clock = [c \in Clocks |-> IF c = "draft" THEN "RUNNING" ELSE "UNSET"]

InitLegacy ==
    /\ plan \in { p \in Plans : p.method = "SHIP" /\ p.auth }
    /\ listing = "RESERVED"
    /\ clock = [c \in Clocks |-> IF c = "draft" THEN "RUNNING" ELSE "UNSET"]
    /\ \/ /\ order = [NewOrder EXCEPT !.status = "AUTH_RECEIVED_PENDING_SELLER_ACK"]
          /\ intent = Paid1
          /\ payment = IF intent = "CHARGED" THEN "CAPTURED" ELSE "AUTHORIZED"
       \/ /\ \E s \in {"DELIVERED_PENDING_AUTH_ACK", "DELIVERED"} :
                order = [NewOrder EXCEPT !.status = s, !.verdict = "PASSED", !.evidence = TRUE]
          /\ intent = "CHARGED"
          /\ payment = "CAPTURED"

Init ==
    /\ InitDraft \/ InitLegacy
    /\ events = {}
    /\ credits = 0
    /\ inflight = [r \in Slots |-> Idle]

UserStep(r) ==
    \/ ConfirmReview(r) \/ MarkPaid(r) \/ CreateIntent(r) \/ ConfirmFromMock(r)
    \/ GatewayEvent(r) \/ CancelHold(r)
    \/ ShipToAuthenticator(r) \/ ShipToBuyerDirect(r) \/ MarkAuthenticatorReceived(r)
    \/ AddEvidence(r) \/ SubmitVerdict(r) \/ ShipToBuyer(r) \/ ConfirmDelivered(r)
    \/ DisputeShip(r) \/ AuthDeliveryAck(r) \/ CompleteOrder(r)
    \/ StartMeetupAuth(r) \/ CompleteMeetup(r)
    \/ CustodyPhoneFallback(r) \/ ConfirmQrHandover(r) \/ StartMeetupHandover(r)
    \/ AuthReceiveAck(r) \/ SellerHandoverAck(r) \/ RequestRePhoto(r) \/ CancelHandover(r)
    \/ SubmitVerdictMeetup(r) \/ BuyerReceiveAck(r) \/ UploadReturnPhotos(r)
    \/ SellerReturnAck(r) \/ DisputeMeetup(r)
    \/ ForceRefund(r) \/ ReleaseEscrow(r)

SweepStep == SweepSellerAckTimeout \/ SweepShipAutoComplete \/ SweepPaymentExpired

Next ==
    \/ \E r \in Requests : UserStep(r)
    \/ \E r \in Slots : TryCapture(r) \/ Fail(r)
    \/ SweepStep
    \/ BuyerPays
    \/ TimePasses

Spec == Init /\ [][Next]_vars

-----------------------------------------------------------------------------
(* What holds however handlers interleave and wherever they fail.          *)

TypeOK ==
    /\ plan \in Plans
    /\ order \in OrderRow
    /\ listing \in ListingStatuses
    /\ payment \in PaymentStatuses
    /\ intent \in IntentStates
    /\ events \subseteq Events
    /\ credits \in 0..MAX_CREDITS
    /\ clock \in [Clocks -> ClockStates]
    /\ inflight \in [Slots -> Flight]

\* A completed order's item is sold and a refunded order's item is not, even
\* when a completion and a refund were both in flight: every handler that ends
\* an order writes the listing in the same transaction.
OutcomeMatchesListing ==
    /\ order.status = "COMPLETED" => listing = "SOLD"
    /\ order.status = "REFUNDED" => listing # "SOLD"

\* No order waits on a party without the deadline that ends the wait: the
\* handlers that put an order into SHIPPED_TO_BUYER or SELLER_ACK_PENDING arm
\* the clock the sweep looks at, and no late write disarms it.
WaitingHasDeadline ==
    /\ order.status = "SHIPPED_TO_BUYER" => clock["autoComplete"] # "UNSET"
    /\ order.status = "SELLER_ACK_PENDING" => clock["sellerAck"] # "UNSET"
    /\ order.status = "AWAITING_PAYMENT" => clock["draft"] # "UNSET"

\* Statuses of the handover to the authenticator's shop, of a parcel on its way
\* to the authenticator or back, and of an examination outside custody.
ShopStatuses == {"HANDOVER_TO_AUTH", "SELLER_ACK_PENDING", "CUSTODY", "AWAITING_BUYER_PICKUP"}
ParcelStatuses == {"SHIPPED_TO_AUTHENTICATOR", "AUTH_RECEIVED_PENDING_SELLER_ACK",
                   "DELIVERED_PENDING_AUTH_ACK", "DELIVERED"}
ExamStatuses == {"AUTHENTICATING", "AUTH_PASSED", "AUTH_FAILED"}

\* The endpoints of the four flows share one status column and several
\* handlers, and no interleaving of them moves an order into a status of
\* another flow, but for one: a MEETUP_DIRECT order may be sent as a parcel,
\* because shipToBuyerDirect asks only that there be no authenticator.
FlowMatchesMethod ==
    /\ order.status \in ShopStatuses \/ order.custodyHeld \/ order.history # <<>>
         => plan.method = "MEETUP_AUTH"
    /\ order.status \in ParcelStatuses => plan.method = "SHIP" /\ plan.auth
    /\ order.status = "SHIPPED_TO_BUYER" => plan.method \in {"SHIP", "MEETUP_DIRECT"}
    /\ order.status \in ExamStatuses => plan.auth /\ plan.method # "MEETUP_AUTH"
    /\ order.status = "AUTH_PASSED" => plan.method # "MEETUP_3WAY"

\* No verdict is recorded, and so no hold captured on a verdict, for an item
\* nobody photographed: the evidence rows are counted before the verdict.
VerdictRestsOnEvidence == order.verdict # "NONE" => order.evidence

\* What the checks of a request in flight still guarantee when it writes: the
\* plan never changes and evidence is never deleted.
OpFits(op) ==
    /\ op \in {"custodyPhoneFallback", "qrDropoff", "startMeetupHandover", "authReceiveAck",
               "sellerHandoverAck", "requestRePhoto", "submitVerdictMeetup"}
         => plan.method = "MEETUP_AUTH"
    /\ op \in {"shipToAuthenticator", "markAuthenticatorReceived", "sellerReceiptAck"}
         => plan.method = "SHIP" /\ plan.auth
    /\ op \in {"startMeetupAuth", "submitVerdict"} => plan.auth /\ plan.method # "MEETUP_AUTH"
    /\ op \in {"shipToBuyer", "shipToBuyerDirect"} => plan.method \in {"SHIP", "MEETUP_DIRECT"}
    /\ op \in VerdictOps => order.evidence

SlotsFit == \A r \in Slots : OpFits(inflight[r].op)

\* The inductive invariant of the proofs.
RowsFit ==
    /\ OutcomeMatchesListing
    /\ WaitingHasDeadline
    /\ clock["draft"] # "UNSET"
    /\ FlowMatchesMethod
    /\ VerdictRestsOnEvidence

IInv == TypeOK /\ RowsFit /\ SlotsFit

-----------------------------------------------------------------------------
(* What holds with one request at a time, although handlers fail and the   *)
(* sweeps and the buyer at the gateway interleave with it (the exception   *)
(* is CreditedOnce, which a stale dispute breaks beside a sweep).  The mock *)
(* gateway needs a second exception: a late confirm-mock starts a new life  *)
(* of an order that keeps the traces of the old one.                       *)

\* A disputed order waits for the back office: until it refunds the buyer or
\* releases the money, no party, webhook or sweep moves the order.  Only a late
\* confirm-mock does, and makes it PAID.
DisputeFreezesOrder ==
    [][order.status = "DISPUTED" /\ order'.status # "DISPUTED" =>
         \/ /\ order'.status \in {"COMPLETED", "REFUNDED"}
            /\ \E r \in Requests : inflight[r].op \in {"forceRefund", "releaseEscrow"}
         \/ /\ order'.status = "PAID"
            /\ plan.mock
            /\ \E r \in Requests : inflight[r].op = "confirmFromMock"]_vars

\* The photo rounds tell the story of the handover: every round but the latest
\* was rejected, rePhotoCount counts the rejected ones and stays within its
\* cap, the seller is asked about an open round, and the authenticator is asked
\* to photograph again only when the latest was rejected.  An order paid a
\* second time starts its next handover on the rounds of the last one.
PhotoRoundsAddUp ==
    LET n == Len(order.history) IN
    /\ order.rePhotoCount <= MAX_REPHOTO
    /\ ~order.repaid =>
         /\ \A i \in 1..(n - 1) : order.history[i] = "REJECTED"
         /\ order.rePhotoCount =
              IF n > 0 /\ order.history[n] # "REJECTED" THEN n - 1 ELSE n
         /\ order.status = "SELLER_ACK_PENDING" => n > 0 /\ order.history[n] = "OPEN"
         /\ order.status = "HANDOVER_TO_AUTH" => n = order.rePhotoCount

\* The item leaves custody only into the buyer's hands, on completion from
\* AWAITING_BUYER_PICKUP, or back into the seller's, when the seller
\* acknowledges the return of a refunded item whose return was photographed,
\* unless the order was paid a second time with the item in the shop.
CustodyEndsInHandover ==
    [][order.custodyHeld /\ ~order'.custodyHeld /\ ~order.repaid =>
         \/ order.status = "AWAITING_BUYER_PICKUP" /\ order'.status = "COMPLETED"
         \/ order.status = "REFUNDED" /\ order.returnPhotos /\ order'.returnAck]_vars

\* The authenticator's completedCount goes up once for an order, when the
\* order completes through the flow, and never for one the back office ended,
\* unless the order was paid a second time.
CreditedOnce ==
    ~order.repaid =>
        credits = IF order.status = "COMPLETED" /\ order.cashoutEligible /\ plan.auth
                    THEN 1 ELSE 0

\* The Payment row never claims more than the gateway did: a row is CAPTURED
\* only when the money was charged and REFUNDED only when it was given back,
\* although any step of the handlers may fail and webhooks come late or twice.
\* (The mock keeps no books to compare with: it cancels what was charged.)
RowNeverOverstates ==
    ~plan.mock =>
        /\ payment = "CAPTURED" => intent \in {"CHARGED", "REFUNDED"}
        /\ payment = "REFUNDED" => intent = "REFUNDED"
        /\ payment = "AUTHORIZED" => intent # "OPEN"

\* A hold becomes a charge only for an item that passed its examination on
\* recorded evidence, or because the back office released the money.  When an
\* order is paid a second time, a sweep may still be capturing for its first life.
CaptureNeedsVerdict ==
    [][intent = "HELD" /\ intent' = "CHARGED" /\ ~order.repaid =>
         \E r \in Slots :
            \/ inflight[r].op = "releaseEscrow"
            \/ order.evidence /\ (order.verdict = "PASSED" \/ inflight[r].arg = "PASSED")]_vars

-----------------------------------------------------------------------------
(* Progress.  The sweeps run on timers that never stop, retry what failed,  *)
(* and do not fail every time: each of their steps is strongly fair.       *)
(* Nothing is assumed of the parties, the gateway or the back office.      *)

CronStep(step) == inflight[CRON].at = step /\ (SweepStep \/ TryCapture(CRON))

Fairness ==
    \A step \in {"done", "void", "captureFirst", "rowFirst", "write"} : SF_vars(CronStep(step))

FairSpec == Spec /\ Fairness

\* A stored deadline that has passed while the order still waits for it.  The
\* 24 hours of a draft count only until the buyer confirms.
Due(c) ==
    /\ order.status = WatchedIn(c)
    /\ clock[c] = "ELAPSED"
    /\ c = "draft" => clock["payment"] = "UNSET"

\* No order is stuck behind a passed deadline: the sweeps serve each of the
\* four, also when sweeps fail, a gateway does not answer, and requests of the
\* parties keep touching the order.
EveryDeadlineServed == \A c \in Clocks : Due(c) ~> ~Due(c)

=============================================================================
