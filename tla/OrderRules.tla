----------------------------- MODULE OrderRules -----------------------------
(***************************************************************************)
(* The rules the server and the pages share about whose turn it is          *)
(* (packages/domain/src/order-rules.ts): needsMyAction decides the badge      *)
(* actionRequiredCount counts and the section of the orders page an order      *)
(* is in.  Nothing in OrderFlow reads them; what is at stake is whether they    *)
(* fit the handlers there.                                                   *)
(***************************************************************************)
EXTENDS OrderFlow

Roles == {"buyer", "seller", "auth"}

isMeetupOrder == plan.method \in MEETUP_METHODS

TERMINAL_STATUSES == {"COMPLETED", "REFUNDED", "PAYMENT_EXPIRED"}

BuyerActs ==
    \/ order.status \in {"AWAITING_PAYMENT", "AWAITING_BUYER_PICKUP"}
    \/ order.status = "DELIVERED" /\ ~isMeetupOrder
    \/ order.status = "AUTH_PASSED" /\ plan.method = "MEETUP_3WAY"
    \/ order.status = "PAID" /\ plan.method \in {"MEETUP_3WAY", "MEETUP_DIRECT"}

\* Variant: the seller is told of a return before it is photographed.
SellerActsBeforePhotos ==
    \/ order.status \in {"PAID", "AUTH_PASSED"} /\ ~isMeetupOrder
    \/ order.status = "PAID" /\ plan.method \in {"MEETUP_AUTH", "MEETUP_3WAY"}
    \/ order.status \in {"AUTH_RECEIVED_PENDING_SELLER_ACK", "SELLER_ACK_PENDING"}
    \/ order.status = "REFUNDED" /\ ~order.returnAck

\* Variant: what passed its examination is nobody's business.
SellerActsTillPassed ==
    \/ order.status = "PAID" /\ ~isMeetupOrder
    \/ order.status = "PAID" /\ plan.method \in {"MEETUP_AUTH", "MEETUP_3WAY"}
    \/ order.status \in {"AUTH_RECEIVED_PENDING_SELLER_ACK", "SELLER_ACK_PENDING"}
    \/ order.status = "REFUNDED" /\ order.returnPhotos /\ ~order.returnAck

SellerActs ==
    \/ order.status \in {"PAID", "AUTH_PASSED"} /\ ~isMeetupOrder
    \/ order.status = "PAID" /\ plan.method \in {"MEETUP_AUTH", "MEETUP_3WAY"}
    \/ order.status \in {"AUTH_RECEIVED_PENDING_SELLER_ACK", "SELLER_ACK_PENDING"}
    \/ order.status = "REFUNDED" /\ order.returnPhotos /\ ~order.returnAck

AuthActs ==
    \/ order.status \in {"SHIPPED_TO_AUTHENTICATOR", "AUTHENTICATING", "HANDOVER_TO_AUTH",
                         "CUSTODY", "DELIVERED_PENDING_AUTH_ACK"}
    \/ order.status = "PAID" /\ isMeetupOrder /\ plan.auth

needsMyAction(role) ==
    \/ role = "buyer" /\ BuyerActs
    \/ role = "seller" /\ SellerActs
    \/ role = "auth" /\ AuthActs

orderGroup(role) ==
    CASE order.status = "DISPUTED" -> "disputed"
      [] order.status # "DISPUTED" /\ needsMyAction(role) -> "action"
      [] order.status \in TERMINAL_STATUSES /\ ~needsMyAction(role) -> "done"
      [] OTHER -> "active"

\* The requests each party may make that move an order on.  Payment is the buyer's, and
\* the parcel to the buyer may be sent by whoever has the item.  Evidence moves an order on
\* where a verdict waits for it.
MayRequest(role) ==
    \/ role = "buyer" /\ \/ MayConfirmReview \/ MayMarkPaid \/ MayCreateIntent
                         \/ MayCompleteOrder \/ MayCompleteMeetup \/ MayBuyerReceiveAck
    \/ role = "seller" /\ \/ MayShipToAuthenticator \/ MayShipToBuyerDirect \/ MayShipToBuyer
                          \/ MaySellerHandoverAck \/ MaySellerReceiptAck \/ MaySellerReturnAck
    \/ role = "auth" /\ \/ MayMarkAuthenticatorReceived \/ MayStartMeetupAuth
                        \/ MayStartMeetupHandover \/ MayAuthReceiveAck
                        \/ MayAddEvidence /\ order.status \in {"AUTHENTICATING", "CUSTODY"}
                        \/ MaySubmitVerdict \/ MaySubmitVerdictMeetup \/ MayAuthDeliveryAck

-----------------------------------------------------------------------------
(* Properties. *)

(* An order in progress is on somebody's list, or a clock will move it: "would *)
(* this order stall if this person did nothing?" (order-rules.ts 55-60).  A     *)
(* parcel whose item failed is the exception: it is nobody's task, and only      *)
(* the back office or a dispute moves it.                                       *)
SomebodyIsTold ==
    order.status # "AUTH_FAILED" =>
        \/ \A role \in Roles : orderGroup(role) \in {"done", "disputed"}
        \/ \E role \in Roles : orderGroup(role) = "action"
        \/ order.status = "SHIPPED_TO_BUYER" /\ clock["autoComplete"] # "UNSET"

(* Who is told can act: the server would accept a request of theirs, or they  *)
(* are to come to the shop, where the authenticator makes it.                  *)
ToldCanAct ==
    \A role \in Roles : orderGroup(role) = "action" =>
        \/ MayRequest(role)
        \/ order.status = "PAID" /\ plan.auth /\ isMeetupOrder

(* Whose turn the pages say it is fits what the handlers accept: an order in     *)
(* progress is on the list of somebody who can move it (needsMyAction,            *)
(* orderGroup).                                                                  *)
TurnsFit == SomebodyIsTold /\ ToldCanAct
=============================================================================
