--------------------------- MODULE OrderFlowProofs ---------------------------
(***************************************************************************)
(* Proofs about OrderFlow, for any number of request slots, any overlap,   *)
(* any cap on re-photo requests and any bound on the photo rounds: types,  *)
(* and the invariants that do not depend on OVERLAP.                       *)
(*                                                                         *)
(* None of the invariants is inductive alone.  A handler writes long after *)
(* it read, so each write needs what the handler's check established:      *)
(* SlotsFit says that of every slot, and it is stable because plan never   *)
(* changes and evidence is never deleted.                                  *)
(***************************************************************************)
EXTENDS OrderRules, TLAPS

-----------------------------------------------------------------------------
(* Type correctness.                                                       *)

\* An idle slot is a well-typed slot.
LEMMA IdleType == Idle \in Flight /\ Unread \in SeenRow
<1>1. Unread \in SeenRow
  BY DEF Unread, SeenRow, PaymentStatuses, Rounds
<1> QED
  BY <1>1 DEF Idle, Flight, Ops, Steps, Args, VerdictOps

\* The order was placed with a choice the checkout offers.
LEMMA PlanIsLegal ==
  ASSUME TypeOK
  PROVE  /\ plan \in [method : {"SHIP"} \cup MEETUP_METHODS, auth : BOOLEAN, tier : 1..3,
                      pay : {"ONLINE_ESCROW", "OFFLINE_CASH"}, mock : BOOLEAN]
         /\ LegalPlan(plan)
BY OrderFlowAssumption DEF TypeOK, LegalPlans

\* Accepting a request keeps the state well typed.
LEMMA StartType ==
  ASSUME TypeOK, NEW r \in Slots, NEW op \in Ops, NEW at \in Steps,
         NEW arg \in Args, NEW seen \in SeenRow,
         op = "gatewayEvent" => arg \in Events, op \in VerdictOps => arg \in Verdicts,
         StartWith(r, op, at, arg, seen)
  PROVE  TypeOK'
<1>1. [op |-> op, at |-> at, arg |-> arg, seen |-> seen] \in Flight
  BY DEF Flight
<1>2. inflight' \in [Slots -> Flight]
  BY <1>1 DEF TypeOK, StartWith
<1>3. UNCHANGED db
  BY DEF StartWith
<1> QED
  BY <1>2, <1>3 DEF TypeOK, db, Events, Slots, Flight, SeenRow

\* The request that only remembers its own name.
LEMMA PlainStartType ==
  ASSUME TypeOK, NEW r \in Slots, NEW op \in Ops, Start(r, op),
         op # "gatewayEvent", op \notin VerdictOps
  PROVE  TypeOK'
  BY IdleType, StartType DEF Start, Steps, Args

\* Finishing a request, or taking it to its next step, keeps its slot typed.
LEMMA SlotType ==
  ASSUME TypeOK, NEW r \in Slots, NEW step \in Steps, Finish(r) \/ GoOn(r, step)
  PROVE  inflight' \in [Slots -> Flight]
<1>1. inflight[r] \in Flight /\ Idle \in Flight
  BY IdleType DEF TypeOK
<1>2. CASE Finish(r)
  BY <1>1, <1>2 DEF TypeOK, Finish
<1>3. CASE GoOn(r, step)
  <2>1. [inflight[r] EXCEPT !.at = step] \in Flight
    BY <1>1 DEF Flight
  <2> QED
    BY <1>3, <2>1 DEF TypeOK, GoOn
<1> QED
  BY <1>2, <1>3

\* Some handlers remember one field of the row they read.
LEMMA SeenType ==
  ASSUME TypeOK
  PROVE  /\ [Unread EXCEPT !.history = order.history] \in SeenRow
         /\ [Unread EXCEPT !.escrowHeld = order.escrowHeld] \in SeenRow
         /\ [Unread EXCEPT !.payment = payment] \in SeenRow
         /\ \A b \in BOOLEAN : [Unread EXCEPT !.awaiting = b] \in SeenRow
  BY IdleType DEF TypeOK, OrderRow, SeenRow

\* The rows handlers write.
LEMMA RowType ==
  ASSUME NEW row \in OrderRow
  PROVE  /\ \A s \in Statuses : [row EXCEPT !.status = s] \in OrderRow
         /\ \A b \in BOOLEAN : [row EXCEPT !.escrowHeld = b] \in OrderRow
         /\ \A b \in BOOLEAN : [row EXCEPT !.custodyHeld = b] \in OrderRow
         /\ \A b \in BOOLEAN, s \in Statuses :
              [row EXCEPT !.status = s, !.escrowHeld = b] \in OrderRow
         /\ \A v \in Verdicts, s \in Statuses :
              [row EXCEPT !.status = s, !.verdict = v] \in OrderRow
  BY DEF OrderRow, Verdicts

\* The photo rounds stay a sequence of outcomes.
LEMMA CloseRoundType ==
  ASSUME NEW h \in Seq(Rounds), NEW o \in Rounds
  PROVE  CloseRound(h, o) \in Seq(Rounds)
<1>1. Len(h) \in Nat /\ \A i \in 1..Len(h) : h[i] \in Rounds
  OBVIOUS
<1>2. CloseRound(h, o) \in [1..Len(h) -> Rounds]
  BY <1>1 DEF CloseRound
<1> QED
  BY <1>1, <1>2

\* The shared transactions keep the row and the counter typed.
LEMMA TxType ==
  ASSUME TypeOK, NEW row \in OrderRow
  PROVE  /\ CompleteTx(row) => order' \in OrderRow /\ listing' \in ListingStatuses
                                 /\ credits' \in 0..MAX_CREDITS
                                 /\ UNCHANGED <<plan, payment, intent, events, clock>>
         /\ RefundTx(row) => order' \in OrderRow /\ listing' \in ListingStatuses
                               /\ UNCHANGED <<plan, payment, intent, events, credits, clock>>
<1>1. [row EXCEPT !.status = "COMPLETED", !.completedAt = TRUE,
                  !.cashoutEligible = TRUE] \in OrderRow
  BY DEF OrderRow, Statuses
<1>2. [row EXCEPT !.status = "REFUNDED", !.escrowHeld = FALSE] \in OrderRow
  BY DEF OrderRow, Statuses
<1>3. Credit \in 0..MAX_CREDITS
  BY DEF TypeOK, Credit, MAX_CREDITS
<1> QED
  BY <1>1, <1>2, <1>3 DEF CompleteTx, RefundTx, ListingStatuses

\* A handler's write is well typed when each variable it sets is.
LEMMA WriteType ==
  ASSUME TypeOK, NEW r \in Slots, NEW step \in Steps, Finish(r) \/ GoOn(r, step),
         UNCHANGED plan, order' \in OrderRow, listing' \in ListingStatuses,
         payment' \in PaymentStatuses, intent' \in IntentStates, events' \subseteq Events,
         credits' \in 0..MAX_CREDITS, clock' \in [Clocks -> ClockStates]
  PROVE  TypeOK'
<1>1. inflight' \in [Slots -> Flight]
  BY SlotType
<1>2. plan' \in Plans
  BY DEF TypeOK
<1> QED
  BY <1>1, <1>2 DEF TypeOK

\* The frequent writes: the status alone, the row alone, the row and a clock,
\* and the two transactions that end an order.
LEMMA SetOrderType ==
  ASSUME TypeOK, NEW r \in Slots, NEW step \in Steps, Finish(r) \/ GoOn(r, step),
         NEW row \in OrderRow, SetOrder(row)
  PROVE  TypeOK'
  BY WriteType DEF SetOrder, TypeOK

LEMMA SetStatusType ==
  ASSUME TypeOK, NEW r \in Slots, NEW s \in Statuses, SetStatus(s), Finish(r)
  PROVE  TypeOK'
<1>1. [order EXCEPT !.status = s] \in OrderRow
  BY RowType DEF TypeOK
<1>2. "done" \in Steps
  BY DEF Steps
<1> QED
  BY <1>1, <1>2, SetOrderType DEF SetStatus

LEMMA ClockWriteType ==
  ASSUME TypeOK, NEW r \in Slots, Finish(r), order' \in OrderRow,
         NEW c \in Clocks, NEW v \in ClockStates, clock' = [clock EXCEPT ![c] = v],
         UNCHANGED <<plan, listing, payment, intent, events, credits>>
  PROVE  TypeOK'
<1>1. clock' \in [Clocks -> ClockStates] /\ "done" \in Steps
  BY DEF TypeOK, Steps
<1> QED
  BY <1>1, WriteType DEF TypeOK

LEMMA CompleteType ==
  ASSUME TypeOK, NEW r \in Slots, NEW row \in OrderRow, CompleteTx(row), Finish(r)
  PROVE  TypeOK'
<1>1. "done" \in Steps
  BY DEF Steps
<1> QED
  BY <1>1, TxType, WriteType DEF TypeOK

LEMMA RefundType ==
  ASSUME TypeOK, NEW r \in Slots, NEW row \in OrderRow, RefundTx(row), Finish(r)
  PROVE  TypeOK'
<1>1. "done" \in Steps
  BY DEF Steps
<1> QED
  BY <1>1, TxType, WriteType DEF TypeOK

\* The operations that do nothing but move the status.
LEMMA StatusOnlyType ==
  ASSUME TypeOK, NEW r \in Requests,
         \/ MarkPaid(r) \/ ShipToAuthenticator(r) \/ MarkAuthenticatorReceived(r)
         \/ DisputeShip(r) \/ StartMeetupAuth(r) \/ StartMeetupHandover(r)
         \/ DisputeMeetup(r)
  PROVE  TypeOK'
<1> r \in Slots
  BY DEF Slots
<1>1. CASE MarkPaid(r)
  <2>1. "markPaid" \in Ops /\ "PAID" \in Statuses
    BY DEF Ops, Statuses
  <2> QED
    BY <1>1, <2>1, PlainStartType, SetStatusType DEF VerdictOps, MarkPaid, MayMarkPaid
<1>2. CASE ShipToAuthenticator(r)
  <2>1. "shipToAuthenticator" \in Ops /\ "SHIPPED_TO_AUTHENTICATOR" \in Statuses
    BY DEF Ops, Statuses
  <2> QED
    BY <1>2, <2>1, PlainStartType, SetStatusType DEF VerdictOps, ShipToAuthenticator,
                                                     MayShipToAuthenticator
<1>3. CASE MarkAuthenticatorReceived(r)
  <2>1. "markAuthenticatorReceived" \in Ops /\ "AUTHENTICATING" \in Statuses
    BY DEF Ops, Statuses
  <2> QED
    BY <1>3, <2>1, PlainStartType, SetStatusType DEF VerdictOps, MarkAuthenticatorReceived,
                                                     MayMarkAuthenticatorReceived
<1>4. CASE DisputeShip(r)
  <2>1. "disputeShip" \in Ops /\ "DISPUTED" \in Statuses
    BY DEF Ops, Statuses
  <2> QED
    BY <1>4, <2>1, PlainStartType, SetStatusType DEF VerdictOps, DisputeShip
<1>5. CASE StartMeetupAuth(r)
  <2>1. "startMeetupAuth" \in Ops /\ "AUTHENTICATING" \in Statuses
    BY DEF Ops, Statuses
  <2> QED
    BY <1>5, <2>1, PlainStartType, SetStatusType DEF VerdictOps, StartMeetupAuth, MayStartMeetupAuth
<1>6. CASE StartMeetupHandover(r)
  <2>1. "startMeetupHandover" \in Ops /\ "HANDOVER_TO_AUTH" \in Statuses
    BY DEF Ops, Statuses
  <2> QED
    BY <1>6, <2>1, PlainStartType, SetStatusType DEF VerdictOps, StartMeetupHandover,
                                                     MayStartMeetupHandover
<1>7. CASE DisputeMeetup(r)
  <2>1. "disputeMeetup" \in Ops /\ "DISPUTED" \in Statuses
    BY DEF Ops, Statuses
  <2> QED
    BY <1>7, <2>1, PlainStartType, SetStatusType DEF VerdictOps, DisputeMeetup
<1> QED
  BY <1>1, <1>2, <1>3, <1>4, <1>5, <1>6, <1>7

\* Checkout, payment and webhooks.
LEMMA CheckoutType ==
  ASSUME TypeOK, NEW r \in Requests,
         \/ ConfirmReview(r) \/ CreateIntent(r) \/ ConfirmFromMock(r) \/ GatewayEvent(r)
         \/ CancelHold(r)
  PROVE  TypeOK'
<1> r \in Slots
  BY DEF Slots
<1>a. /\ "done" \in Steps /\ "write" \in Steps /\ "void" \in Steps /\ "row" \in Steps
      /\ "gateway" \in Steps /\ "declined" \in Steps /\ "NONE" \in Args
  BY DEF Steps, Args
<1>1. CASE ConfirmReview(r)
  <2>1. CASE Start(r, "confirmReview")
    BY <2>1, PlainStartType DEF Ops, VerdictOps
  <2>2. CASE ~Start(r, "confirmReview")
    <3>1. listing' \in ListingStatuses /\ clock' \in [Clocks -> ClockStates]
      BY <1>1, <2>2 DEF ConfirmReview, MayConfirmReview, TypeOK, ListingStatuses, ClockStates
    <3>2. Finish(r) /\ UNCHANGED <<plan, order, payment, intent, events, credits>>
      BY <1>1, <2>2 DEF ConfirmReview, MayConfirmReview
    <3> QED
      BY <1>a, <3>1, <3>2, WriteType DEF TypeOK
  <2> QED
    BY <2>1, <2>2
<1>2. CASE CreateIntent(r)
  <2>1. CASE Start(r, "createIntent")
    BY <2>1, PlainStartType DEF Ops, VerdictOps
  <2>2. CASE ~Start(r, "createIntent")
    BY <1>2, <2>2, <1>a, WriteType DEF CreateIntent, MayCreateIntent, TypeOK, PaymentStatuses,
                                       IntentStates
  <2> QED
    BY <2>1, <2>2
<1>3. CASE GatewayEvent(r)
  <2>1. ASSUME NEW e \in events, NEW b \in BOOLEAN,
               StartWith(r, "gatewayEvent", "write", e, [Unread EXCEPT !.awaiting = b])
        PROVE  TypeOK'
    <3>1. /\ "gatewayEvent" \in Ops \ VerdictOps /\ e \in Events /\ e \in Args
          /\ [Unread EXCEPT !.awaiting = b] \in SeenRow
      BY SeenType DEF Ops, VerdictOps, Args, TypeOK
    <3> QED
      BY <1>a, <2>1, <3>1, StartType
  <2>2. CASE /\ payment' = RowAfter[inflight[r].arg]
             /\ order' = IF inflight[r].seen.awaiting
                           THEN [order EXCEPT !.status = "PAID", !.escrowHeld = TRUE]
                           ELSE order
             /\ inflight[r].op = "gatewayEvent"
             /\ Finish(r)
             /\ UNCHANGED <<plan, listing, intent, events, credits, clock>>
    <3>1. payment' \in PaymentStatuses
      BY <2>2 DEF TypeOK, Flight, RowAfter, Events, PaymentStatuses
    <3>2. order' \in OrderRow
      BY <2>2, RowType DEF TypeOK, Statuses
    <3> QED
      BY <1>a, <2>2, <3>1, <3>2, WriteType DEF TypeOK
  <2> QED
    BY <1>3, <2>1, <2>2 DEF GatewayEvent, At
<1>4. CASE CancelHold(r)
  <2>1. ASSUME NEW at \in Steps, StartWith(r, "cancelHold", at, "NONE", Unread)
        PROVE  TypeOK'
    BY <1>a, <2>1, IdleType, StartType DEF Ops, VerdictOps
  <2>2. CASE TryVoid /\ GoOn(r, "row")
             /\ UNCHANGED <<plan, order, listing, payment, credits, clock>>
    <3>1. intent' \in IntentStates /\ events' \subseteq Events
      BY <2>2 DEF TryVoid, Voided, Posted, TypeOK, IntentStates, Events
    <3> QED
      BY <1>a, <2>2, <3>1, WriteType DEF TypeOK
  <2>3. CASE payment' = "CANCELLED" /\ GoOn(r, "write")
             /\ UNCHANGED <<plan, order, listing, intent, events, credits, clock>>
    BY <1>a, <2>3, WriteType DEF TypeOK, PaymentStatuses
  <2>4. CASE SetOrder([order EXCEPT !.escrowHeld = FALSE]) /\ Finish(r)
    BY <1>a, <2>4, RowType, SetOrderType DEF TypeOK
  <2> QED
    BY <1>4, <1>a, <2>1, <2>2, <2>3, <2>4 DEF CancelHold
<1>5. CASE ConfirmFromMock(r)
  <2>1. CASE StartWith(r, "confirmFromMock", "gateway", "NONE", Unread)
    BY <1>a, <2>1, IdleType, StartType DEF Ops, VerdictOps
  <2>2. ASSUME NEW at \in {"write", "declined"}, GoOn(r, at), intent' \in {Paid1, "OPEN"},
               UNCHANGED <<plan, order, listing, payment, events, credits, clock>>
        PROVE  TypeOK'
    BY <1>a, <2>2, WriteType DEF TypeOK, IntentStates, Paid1
  <2>3. CASE payment' = "FAILED" /\ Finish(r)
             /\ UNCHANGED <<plan, order, listing, intent, events, credits, clock>>
    BY <1>a, <2>3, WriteType DEF TypeOK, PaymentStatuses
  <2>4. CASE /\ payment' = RowAfter[Paid1]
             /\ order' = [order EXCEPT !.status = "PAID", !.escrowHeld = TRUE,
                  !.repaid = @ \/ order.status \notin {"AWAITING_PAYMENT", "PAID"}]
             /\ Finish(r)
             /\ UNCHANGED <<plan, listing, intent, events, credits, clock>>
    <3>1. payment' \in PaymentStatuses
      BY <2>4 DEF RowAfter, Paid1, PaymentStatuses
    <3>2. order' \in OrderRow
      BY <2>4 DEF TypeOK, OrderRow, Statuses
    <3> QED
      BY <1>a, <2>4, <3>1, <3>2, WriteType DEF TypeOK
  <2> QED
    BY <1>5, <2>1, <2>2, <2>3, <2>4 DEF ConfirmFromMock
<1> QED
  BY <1>1, <1>2, <1>3, <1>4, <1>5

\* Parcels: shipping, the verdict, delivery.
LEMMA ParcelType ==
  ASSUME TypeOK, NEW r \in Requests,
         \/ ShipToBuyerDirect(r) \/ ShipToBuyer(r) \/ AddEvidence(r) \/ SubmitVerdict(r)
         \/ ConfirmDelivered(r) \/ AuthDeliveryAck(r) \/ CompleteOrder(r) \/ CompleteMeetup(r)
  PROVE  TypeOK'
<1> r \in Slots
  BY DEF Slots
<1>a. /\ "done" \in Steps /\ "write" \in Steps
      /\ "captureFirst" \in Steps /\ "captureLast" \in Steps /\ "NONE" \in Args
  BY DEF Steps, Args
<1>b. ASSUME ShipWrite, Finish(r)
      PROVE  TypeOK'
  <2>1. order' \in OrderRow
    BY <1>b, RowType DEF ShipWrite, TypeOK, Statuses
  <2>2. "autoComplete" \in Clocks /\ "RUNNING" \in ClockStates
    BY DEF Clocks, ClockStates
  <2> QED
    BY <1>b, <2>1, <2>2, ClockWriteType DEF ShipWrite
<1>c. [order EXCEPT !.escrowHeld = FALSE] \in OrderRow
  BY RowType DEF TypeOK
<1>d. ASSUME NEW op \in {"completeOrder", "completeMeetup"},
             \/ StartWith(r, op, "write", "NONE", [Unread EXCEPT !.escrowHeld = order.escrowHeld])
             \/ /\ CompleteTx([order EXCEPT !.escrowHeld = @ /\ ~inflight[r].seen.escrowHeld])
                /\ Finish(r)
      PROVE  TypeOK'
  <2>1. op \in Ops \ VerdictOps /\ op # "gatewayEvent"
    BY DEF Ops, VerdictOps
  <2>2. [order EXCEPT !.escrowHeld = @ /\ ~inflight[r].seen.escrowHeld] \in OrderRow
    BY DEF TypeOK, OrderRow
  <2> QED
    BY <1>a, <1>d, <2>1, <2>2, SeenType, StartType, CompleteType
<1>1. CASE ShipToBuyerDirect(r)
  BY <1>1, <1>b, PlainStartType DEF ShipToBuyerDirect, MayShipToBuyerDirect, Ops, VerdictOps
<1>2. CASE ShipToBuyer(r)
  BY <1>2, <1>b, PlainStartType DEF ShipToBuyer, MayShipToBuyer, Ops, VerdictOps
<1>3. CASE AddEvidence(r)
  <2>1. [order EXCEPT !.evidence = TRUE] \in OrderRow
    BY DEF TypeOK, OrderRow
  <2> QED
    BY <1>3, <1>a, <2>1, PlainStartType, SetOrderType DEF AddEvidence, MayAddEvidence, Ops,
                                                          VerdictOps
<1>4. CASE SubmitVerdict(r)
  <2>1. ASSUME NEW v \in Verdicts, NEW at \in Steps,
               StartWith(r, "submitVerdict", at, v, Unread)
        PROVE  TypeOK'
    <3>1. "submitVerdict" \in Ops /\ v \in Args
      BY DEF Ops, Args
    <3> QED
      BY <2>1, <3>1, IdleType, StartType DEF VerdictOps
  <2>2. CASE /\ CompleteTx([order EXCEPT !.verdict = "PASSED", !.escrowHeld = FALSE])
             /\ Finish(r)
    <3>1. [order EXCEPT !.verdict = "PASSED", !.escrowHeld = FALSE] \in OrderRow
      BY DEF TypeOK, OrderRow, Verdicts
    <3> QED
      BY <2>2, <3>1, CompleteType
  <2>3. CASE /\ SetOrder([order EXCEPT !.status = "AUTH_PASSED", !.verdict = "PASSED"])
             /\ GoOn(r, "captureLast")
    BY <1>a, <2>3, RowType, SetOrderType DEF TypeOK, Statuses, Verdicts
  <2>4. CASE /\ At(r, "submitVerdict", "write")
             /\ SetOrder([order EXCEPT !.status = "AUTH_FAILED", !.verdict = inflight[r].arg])
             /\ Finish(r)
    <3>1. inflight[r].arg \in Verdicts
      BY <2>4 DEF At, TypeOK, Flight, VerdictOps
    <3>2. "AUTH_FAILED" \in Statuses
      BY DEF Statuses
    <3> QED
      BY <1>a, <2>4, <3>1, <3>2, RowType, SetOrderType DEF TypeOK
  <2> QED
    BY <1>4, <1>a, <2>1, <2>2, <2>3, <2>4 DEF SubmitVerdict, MaySubmitVerdict
<1>5. CASE ConfirmDelivered(r)
  <2>1. "confirmDelivered" \in Ops \ VerdictOps
    BY DEF Ops, VerdictOps
  <2> QED
    BY <1>5, <1>a, <1>c, <2>1, IdleType, StartType, CompleteType DEF ConfirmDelivered
<1>6. CASE AuthDeliveryAck(r)
  BY <1>6, <1>c, PlainStartType, CompleteType DEF AuthDeliveryAck, MayAuthDeliveryAck, Ops,
                                                  VerdictOps
<1>7. CASE CompleteOrder(r)
  BY <1>7, <1>d DEF CompleteOrder, MayCompleteOrder
<1>8. CASE CompleteMeetup(r)
  BY <1>8, <1>d DEF CompleteMeetup, MayCompleteMeetup
<1> QED
  BY <1>1, <1>2, <1>3, <1>4, <1>5, <1>6, <1>7, <1>8

\* The authenticator's custody: handover, photo rounds, verdict, pickup, return.
LEMMA CustodyType ==
  ASSUME TypeOK, NEW r \in Requests,
         \/ CustodyPhoneFallback(r) \/ ConfirmQrHandover(r) \/ AuthReceiveAck(r)
         \/ SellerHandoverAck(r) \/ RequestRePhoto(r) \/ CancelHandover(r)
         \/ SubmitVerdictMeetup(r) \/ BuyerReceiveAck(r) \/ UploadReturnPhotos(r)
         \/ SellerReturnAck(r)
  PROVE  TypeOK'
<1> r \in Slots
  BY DEF Slots
<1>a. /\ "done" \in Steps /\ "write" \in Steps /\ "captureLast" \in Steps
      /\ "NONE" \in Args /\ "sellerAck" \in Clocks
      /\ "RUNNING" \in ClockStates /\ "UNSET" \in ClockStates
  BY DEF Steps, Args, Clocks, ClockStates
<1>b. TakeCustody(order) \in OrderRow
  BY DEF TakeCustody, TypeOK, OrderRow, Statuses
<1>c. [order EXCEPT !.escrowHeld = FALSE, !.custodyHeld = FALSE] \in OrderRow
  BY DEF TypeOK, OrderRow
<1>d. ASSUME NEW op \in {"authReceiveAck", "sellerHandoverAck", "requestRePhoto"},
             StartWith(r, op, "write", "NONE", [Unread EXCEPT !.history = order.history])
      PROVE  TypeOK'
  <2>1. op \in Ops \ VerdictOps /\ op # "gatewayEvent"
    BY DEF Ops, VerdictOps
  <2> QED
    BY <1>a, <1>d, <2>1, SeenType, StartType
<1>e. inflight[r].seen.history \in Seq(Rounds)
  BY DEF TypeOK, Flight, SeenRow
<1>1. CASE CustodyPhoneFallback(r)
  BY <1>1, <1>a, <1>b, PlainStartType, ClockWriteType
     DEF CustodyPhoneFallback, Ops, VerdictOps
<1>2. CASE ConfirmQrHandover(r)
  <2>1. CASE Start(r, "qrDropoff") \/ Start(r, "qrPickup")
    BY <2>1, PlainStartType DEF Ops, VerdictOps
  <2> QED
    BY <1>2, <1>a, <1>b, <1>c, <2>1, ClockWriteType, CompleteType DEF ConfirmQrHandover
<1>3. CASE AuthReceiveAck(r)
  <2>1. Append(inflight[r].seen.history, "OPEN") \in Seq(Rounds)
    BY <1>e DEF Rounds
  <2>2. [order EXCEPT !.status = "SELLER_ACK_PENDING",
                      !.history = Append(inflight[r].seen.history, "OPEN")] \in OrderRow
    BY <2>1 DEF TypeOK, OrderRow, Statuses
  <2> QED
    BY <1>3, <1>a, <1>d, <2>2, ClockWriteType DEF AuthReceiveAck, MayAuthReceiveAck
<1>4. CASE SellerHandoverAck(r)
  <2>1. CASE Start(r, "sellerReceiptAck")
    BY <2>1, PlainStartType DEF Ops, VerdictOps
  <2>2. CASE SetStatus("AUTHENTICATING") /\ Finish(r)
    BY <2>2, SetStatusType DEF Statuses
  <2>3. CloseRound(inflight[r].seen.history, "ACKED") \in Seq(Rounds)
    BY <1>e, CloseRoundType DEF Rounds
  <2>4. [TakeCustody(order) EXCEPT
           !.history = CloseRound(inflight[r].seen.history, "ACKED")] \in OrderRow
    BY <1>b, <2>3 DEF OrderRow
  <2> QED
    BY <1>4, <1>a, <1>d, <2>1, <2>2, <2>4, SetOrderType DEF SellerHandoverAck,
                                                            MaySellerHandoverAck, MaySellerReceiptAck
<1>5. CASE RequestRePhoto(r)
  <2>1. CloseRound(inflight[r].seen.history, "REJECTED") \in Seq(Rounds)
    BY <1>e, CloseRoundType DEF Rounds
  <2>2. [order EXCEPT !.status = "HANDOVER_TO_AUTH",
                      !.history = CloseRound(inflight[r].seen.history, "REJECTED"),
                      !.rePhotoCount = @ + 1] \in OrderRow
    <3>1. order.rePhotoCount + 1 \in Nat /\ "HANDOVER_TO_AUTH" \in Statuses
      BY DEF TypeOK, OrderRow, Statuses
    <3>2. \A n \in Nat, h \in Seq(Rounds), st \in Statuses :
            [order EXCEPT !.status = st, !.history = h, !.rePhotoCount = n] \in OrderRow
      BY DEF TypeOK, OrderRow
    <3> QED
      BY <2>1, <3>1, <3>2
  <2> QED
    BY <1>5, <1>a, <1>d, <2>2, ClockWriteType DEF RequestRePhoto
<1>6. CASE CancelHandover(r)
  BY <1>6, RowType, PlainStartType, RefundType DEF CancelHandover, TypeOK, Ops, VerdictOps
<1>7. CASE SubmitVerdictMeetup(r)
  <2>1. ASSUME NEW v \in Verdicts, StartWith(r, "submitVerdictMeetup", "write", v, Unread)
        PROVE  TypeOK'
    <3>1. "submitVerdictMeetup" \in Ops /\ v \in Args
      BY DEF Ops, Args
    <3> QED
      BY <1>a, <2>1, <3>1, IdleType, StartType DEF VerdictOps
  <2>2. CASE /\ SetOrder([order EXCEPT !.status = "AWAITING_BUYER_PICKUP", !.verdict = "PASSED"])
             /\ GoOn(r, "captureLast")
    BY <1>a, <2>2, RowType, SetOrderType DEF TypeOK, Statuses, Verdicts
  <2>3. CASE /\ At(r, "submitVerdictMeetup", "write")
             /\ RefundTx([order EXCEPT !.verdict = inflight[r].arg])
             /\ Finish(r)
    <3>1. inflight[r].arg \in Verdicts
      BY <2>3 DEF At, TypeOK, Flight, VerdictOps
    <3>2. [order EXCEPT !.verdict = inflight[r].arg] \in OrderRow
      BY <3>1 DEF TypeOK, OrderRow
    <3> QED
      BY <2>3, <3>2, RefundType
  <2> QED
    BY <1>7, <2>1, <2>2, <2>3 DEF SubmitVerdictMeetup, MaySubmitVerdictMeetup
<1>8. CASE BuyerReceiveAck(r)
  BY <1>8, <1>c, PlainStartType, CompleteType DEF BuyerReceiveAck, MayBuyerReceiveAck, Ops,
                                                  VerdictOps
<1>9. CASE UploadReturnPhotos(r)
  <2>1. [order EXCEPT !.returnPhotos = TRUE] \in OrderRow
    BY DEF TypeOK, OrderRow
  <2> QED
    BY <1>9, <1>a, <2>1, PlainStartType, SetOrderType DEF UploadReturnPhotos, Ops, VerdictOps
<1>10. CASE SellerReturnAck(r)
  <2>1. [order EXCEPT !.returnAck = TRUE, !.custodyHeld = FALSE] \in OrderRow
    BY DEF TypeOK, OrderRow
  <2> QED
    BY <1>10, <1>a, <2>1, PlainStartType, SetOrderType DEF SellerReturnAck, MaySellerReturnAck,
                                                           Ops, VerdictOps
<1> QED
  BY <1>1, <1>2, <1>3, <1>4, <1>5, <1>6, <1>7, <1>8, <1>9, <1>10

\* The back office.
LEMMA BackOfficeType ==
  ASSUME TypeOK, NEW r \in Requests, ForceRefund(r) \/ ReleaseEscrow(r)
  PROVE  TypeOK'
<1> r \in Slots
  BY DEF Slots
<1>a. /\ "done" \in Steps /\ "write" \in Steps /\ "gateway" \in Steps /\ "NONE" \in Args
  BY DEF Steps, Args
<1>b. ASSUME NEW op \in {"forceRefund", "releaseEscrow"},
             StartWith(r, op, "gateway", "NONE", [Unread EXCEPT !.payment = payment])
      PROVE  TypeOK'
  <2>1. op \in Ops \ VerdictOps /\ op # "gatewayEvent"
    BY DEF Ops, VerdictOps
  <2> QED
    BY <1>a, <1>b, <2>1, SeenType, StartType
<1>c. ASSUME GoOn(r, "write"), intent' \in IntentStates, events' \subseteq Events,
             UNCHANGED <<plan, order, listing, payment, credits, clock>>
      PROVE  TypeOK'
  BY <1>a, <1>c, WriteType DEF TypeOK
<1>d. ASSUME Finish(r), order' \in OrderRow, listing' \in ListingStatuses,
             payment' \in PaymentStatuses, UNCHANGED <<plan, intent, events, credits, clock>>
      PROVE  TypeOK'
  BY <1>a, <1>d, WriteType DEF TypeOK
<1>1. CASE ForceRefund(r)
  <2>1. CASE At(r, "forceRefund", "gateway")
    <3>1. GoOn(r, "write") /\ UNCHANGED <<plan, order, listing, payment, credits, clock>>
      BY <1>1, <2>1 DEF ForceRefund, At, StartWith, Idle
    <3>2. intent' \in IntentStates /\ events' \subseteq Events
      BY <1>1, <2>1 DEF ForceRefund, At, StartWith, Idle, TypeOK, IntentStates, Events, Voided,
                             Posted, Refunded
    <3> QED
      BY <1>c, <3>1, <3>2
  <2>2. CASE At(r, "forceRefund", "write")
    <3>1. Finish(r) /\ UNCHANGED <<plan, intent, events, credits, clock>>
      BY <1>1, <2>2 DEF ForceRefund, At, StartWith, Idle
    <3>2. order' \in OrderRow
      <4>1. [order EXCEPT !.status = "REFUNDED", !.escrowHeld = FALSE] \in OrderRow
        BY RowType DEF TypeOK, Statuses
      <4> QED
        BY <1>1, <2>2, <4>1 DEF ForceRefund, At, StartWith, Idle
    <3>3. listing' \in ListingStatuses /\ payment' \in PaymentStatuses
      BY <1>1, <2>2 DEF ForceRefund, At, StartWith, Idle, TypeOK, ListingStatuses, PaymentStatuses
    <3> QED
      BY <1>d, <3>1, <3>2, <3>3
  <2> QED
    BY <1>1, <1>b, <2>1, <2>2 DEF ForceRefund
<1>2. CASE ReleaseEscrow(r)
  <2>1. CASE At(r, "releaseEscrow", "gateway")
    <3>1. GoOn(r, "write") /\ UNCHANGED <<plan, order, listing, payment, credits, clock>>
      BY <1>2, <2>1 DEF ReleaseEscrow, At, StartWith, Idle
    <3>2. intent' \in IntentStates /\ events' \subseteq Events
      BY <1>2, <2>1 DEF ReleaseEscrow, At, StartWith, Idle, TypeOK, IntentStates, Events,
                             Posted
    <3> QED
      BY <1>c, <3>1, <3>2
  <2>2. CASE At(r, "releaseEscrow", "write")
    <3>1. Finish(r) /\ UNCHANGED <<plan, intent, events, credits, clock>>
      BY <1>2, <2>2 DEF ReleaseEscrow, At, StartWith, Idle
    <3>2. order' \in OrderRow
      <4>1. [order EXCEPT !.status = "COMPLETED", !.completedAt = TRUE, !.escrowHeld = FALSE]
              \in OrderRow
        BY DEF TypeOK, OrderRow, Statuses
      <4> QED
        BY <1>2, <2>2, <4>1 DEF ReleaseEscrow, At, StartWith, Idle
    <3>3. listing' \in ListingStatuses /\ payment' \in PaymentStatuses
      BY <1>2, <2>2 DEF ReleaseEscrow, At, StartWith, Idle, TypeOK, ListingStatuses, PaymentStatuses
    <3> QED
      BY <1>d, <3>1, <3>2, <3>3
  <2> QED
    BY <1>2, <1>b, <2>1, <2>2 DEF ReleaseEscrow
<1> QED
  BY <1>1, <1>2

\* The sweeps.
LEMMA SweepType ==
  ASSUME TypeOK, SweepStep
  PROVE  TypeOK'
<1> CRON \in Slots
  BY DEF Slots
<1>a. /\ "done" \in Steps /\ "write" \in Steps /\ "void" \in Steps
      /\ "captureFirst" \in Steps /\ "NONE" \in Args
  BY DEF Steps, Args
<1>b. ASSUME UNCHANGED db, Finish(CRON)
      PROVE  TypeOK'
  <2>1. UNCHANGED <<plan, order, listing, payment, intent, events, credits, clock>>
    BY <1>b DEF db
  <2> QED
    BY <1>a, <1>b, <2>1, WriteType DEF TypeOK
<1>1. CASE SweepSellerAckTimeout
  <2>1. [order EXCEPT !.custodyHeld = FALSE] \in OrderRow
    BY RowType DEF TypeOK
  <2> QED
    BY <1>1, <1>b, <2>1, PlainStartType, RefundType DEF SweepSellerAckTimeout, Ops, VerdictOps
<1>2. CASE SweepShipAutoComplete
  <2>1. [order EXCEPT !.escrowHeld = FALSE] \in OrderRow
    BY RowType DEF TypeOK
  <2>2. "sweepShipAutoComplete" \in Ops \ VerdictOps
    BY DEF Ops, VerdictOps
  <2> QED
    BY <1>2, <1>a, <1>b, <2>1, <2>2, IdleType, StartType, CompleteType
       DEF SweepShipAutoComplete
<1>3. CASE SweepPaymentExpired
  <2>1. CASE SetStatus("PAYMENT_EXPIRED") /\ UNCHANGED inflight
    <3>1. order' \in OrderRow
      BY <2>1, RowType DEF SetStatus, SetOrder, TypeOK, Statuses
    <3> QED
      BY <2>1, <3>1 DEF SetStatus, SetOrder, TypeOK
  <2>2. ASSUME NEW at \in Steps, StartWith(CRON, "sweepPaymentExpired", at, "NONE", Unread)
        PROVE  TypeOK'
    BY <1>a, <2>2, IdleType, StartType DEF Ops, VerdictOps
  <2>3. CASE TryVoid /\ GoOn(CRON, "write")
             /\ UNCHANGED <<plan, order, listing, payment, credits, clock>>
    <3>1. intent' \in IntentStates /\ events' \subseteq Events
      BY <2>3 DEF TryVoid, Voided, Posted, TypeOK, IntentStates, Events
    <3> QED
      BY <1>a, <2>3, <3>1, WriteType DEF TypeOK
  <2>4. CASE /\ order' = [order EXCEPT !.status = "PAYMENT_EXPIRED", !.escrowHeld = FALSE]
             /\ listing' = "ACTIVE"
             /\ payment' = IF payment = "PENDING_AUTH" THEN "CANCELLED" ELSE payment
             /\ UNCHANGED <<plan, intent, events, credits, clock>>
             /\ Finish(CRON)
    <3>1. order' \in OrderRow
      BY <2>4, RowType DEF TypeOK, Statuses
    <3>2. listing' \in ListingStatuses /\ payment' \in PaymentStatuses
      BY <2>4 DEF TypeOK, ListingStatuses, PaymentStatuses
    <3> QED
      BY <1>a, <2>4, <3>1, <3>2, WriteType DEF TypeOK
  <2> QED
    BY <1>3, <1>a, <1>b, <2>1, <2>2, <2>3, <2>4 DEF SweepPaymentExpired
<1> QED
  BY <1>1, <1>2, <1>3 DEF SweepStep

\* The steps that belong to no single handler.
LEMMA SharedStepType ==
  ASSUME TypeOK, (\E r \in Slots : TryCapture(r) \/ Fail(r)) \/ BuyerPays \/ TimePasses
  PROVE  TypeOK'
<1>a. "done" \in Steps /\ "write" \in Steps /\ "rowFirst" \in Steps /\ "rowLast" \in Steps
  BY DEF Steps
<1>1. ASSUME NEW r \in Slots, TryCapture(r)
      PROVE  TypeOK'
  <2>1. /\ payment' \in PaymentStatuses /\ intent' \in IntentStates /\ events' \subseteq Events
    BY <1>1 DEF TryCapture, TypeOK, PaymentStatuses, IntentStates, Events, Posted, db
  <2>2. /\ \/ Finish(r)
           \/ GoOn(r, "write") \/ GoOn(r, "rowFirst") \/ GoOn(r, "rowLast")
        /\ UNCHANGED <<plan, order, listing, credits, clock>>
    BY <1>1 DEF TryCapture, db
  <2> QED
    BY <1>a, <2>1, <2>2, WriteType DEF TypeOK
<1>2. ASSUME NEW r \in Slots, Fail(r)
      PROVE  TypeOK'
  <2>1. Finish(r) /\ UNCHANGED <<plan, order, listing, payment, intent, events, credits, clock>>
    BY <1>2 DEF Fail, db
  <2> QED
    BY <1>a, <2>1, WriteType DEF TypeOK
<1>3. CASE BuyerPays
  <2>1. intent' \in IntentStates /\ events' \subseteq Events
    BY <1>3 DEF BuyerPays, Paid1, TypeOK, IntentStates, Events
  <2> QED
    BY <1>3, <2>1 DEF BuyerPays, TypeOK
<1>4. CASE TimePasses
  <2>1. clock' \in [Clocks -> ClockStates]
    BY <1>4 DEF TimePasses, TypeOK, ClockStates
  <2> QED
    BY <1>4, <2>1 DEF TimePasses, TypeOK
<1> QED
  BY <1>1, <1>2, <1>3, <1>4

\* The initial states are well typed.
LEMMA InitType == Init => TypeOK
<1> SUFFICES ASSUME Init
             PROVE  TypeOK
  OBVIOUS
<1>1. plan \in Plans
  BY DEF Init, InitDraft, InitLegacy
<1>2. NewOrder \in OrderRow
  BY DEF NewOrder, OrderRow, Online, Statuses
<1>3. order \in OrderRow
  <2>1. \A s \in Statuses :
          /\ [NewOrder EXCEPT !.status = s] \in OrderRow
          /\ [NewOrder EXCEPT !.status = s, !.verdict = "PASSED", !.evidence = TRUE] \in OrderRow
    BY <1>2 DEF OrderRow, Verdicts
  <2> QED
    BY <1>2, <2>1 DEF Init, InitDraft, InitLegacy, Statuses
<1>4. /\ listing \in ListingStatuses /\ payment \in PaymentStatuses
      /\ intent \in IntentStates /\ clock \in [Clocks -> ClockStates]
  BY DEF Init, InitDraft, InitLegacy, Paid1, ListingStatuses, PaymentStatuses, IntentStates,
         ClockStates
<1>5. inflight \in [Slots -> Flight] /\ events \subseteq Events /\ credits \in 0..MAX_CREDITS
  BY IdleType DEF Init, MAX_CREDITS
<1> QED
  BY <1>1, <1>3, <1>4, <1>5 DEF TypeOK

\* Every variable keeps its type: the rows hold only statuses of the schema's
\* enums, and a request in flight carries only what its handler can have read.
THEOREM TypeCorrect == Spec => []TypeOK
<1>1. Init => TypeOK
  BY InitType
<1>2. TypeOK /\ [Next]_vars => TypeOK'
  <2> SUFFICES ASSUME TypeOK, [Next]_vars
               PROVE  TypeOK'
    OBVIOUS
  <2>1. ASSUME NEW r \in Requests, UserStep(r)
        PROVE  TypeOK'
    BY <2>1, StatusOnlyType, CheckoutType, ParcelType, CustodyType, BackOfficeType DEF UserStep
  <2>2. CASE UNCHANGED vars
    BY <2>2 DEF vars, TypeOK
  <2> QED
    BY <2>1, <2>2, SweepType, SharedStepType DEF Next
<1> QED
  BY <1>1, <1>2, PTL DEF Spec

-----------------------------------------------------------------------------
(* However handlers interleave.                                            *)

\* The flow a status belongs to is the order's.
StatusFits(s) ==
    /\ s \in ShopStatuses => plan.method = "MEETUP_AUTH"
    /\ s \in ParcelStatuses => plan.method = "SHIP" /\ plan.auth
    /\ s = "SHIPPED_TO_BUYER" => plan.method \in {"SHIP", "MEETUP_DIRECT"}
    /\ s \in ExamStatuses => plan.auth /\ plan.method # "MEETUP_AUTH"
    /\ s = "AUTH_PASSED" => plan.method # "MEETUP_3WAY"

\* A row that may be written, whatever its status.
RowFits(row) ==
    /\ row \in OrderRow
    /\ row.custodyHeld \/ row.history # <<>> => plan.method = "MEETUP_AUTH"
    /\ row.verdict # "NONE" => row.evidence
    /\ order.evidence => row.evidence

\* The statuses whose invariants relate them to the listing or to a clock.
Watched == {"COMPLETED", "REFUNDED", "SHIPPED_TO_BUYER", "SELLER_ACK_PENDING"}

-----------------------------------------------------------------------------
(* Reads.                                                                  *)

\* Accepting a request whose checks establish OpFits keeps the invariant.
LEMMA StartKeeps ==
  ASSUME IInv, NEW r \in Slots, NEW op, NEW at, NEW arg, NEW seen,
         StartWith(r, op, at, arg, seen), OpFits(op)
  PROVE  RowsFit' /\ SlotsFit'
<1>1. UNCHANGED <<plan, order, listing, clock>>
  BY DEF StartWith, db
<1>2. RowsFit'
  BY <1>1 DEF IInv, RowsFit, OutcomeMatchesListing, WaitingHasDeadline, FlowMatchesMethod,
              VerdictRestsOnEvidence
<1>3. ASSUME NEW s \in Slots
      PROVE  inflight'[s].op \in {op, inflight[s].op}
  BY DEF StartWith, IInv, TypeOK
<1> QED
  BY <1>1, <1>2, <1>3 DEF IInv, SlotsFit, OpFits

-----------------------------------------------------------------------------
(* Writes.                                                                 *)

\* An idle slot fits; a request that goes on or ends keeps fitting.
LEMMA SlotsKeep ==
  ASSUME IInv, NEW r \in Slots, NEW step, Finish(r) \/ GoOn(r, step),
         UNCHANGED plan, order.evidence => order'.evidence
  PROVE  SlotsFit'
<1>1. ASSUME NEW s \in Slots
      PROVE  inflight'[s].op \in {"idle", inflight[s].op}
  BY DEF Finish, GoOn, IInv, TypeOK, Flight, Idle
<1>2. OpFits("idle")'
  BY DEF OpFits, VerdictOps
<1> QED
  BY <1>1, <1>2 DEF IInv, SlotsFit, OpFits

\* The order row as it is fits.
LEMMA OwnRowFits ==
  ASSUME IInv
  PROVE  /\ order \in OrderRow /\ RowFits(order) /\ StatusFits(order.status)
         /\ clock \in [Clocks -> ClockStates] /\ "draft" \in Clocks /\ clock["draft"] # "UNSET"
BY DEF IInv, RowsFit, TypeOK, RowFits, StatusFits, FlowMatchesMethod, VerdictRestsOnEvidence,
       Clocks

\* What any write has to ensure.
LEMMA WriteKeeps ==
  ASSUME IInv, NEW r \in Slots, NEW step, Finish(r) \/ GoOn(r, step), UNCHANGED plan,
         RowFits(order'), StatusFits(order'.status), OutcomeMatchesListing',
         WaitingHasDeadline', clock'["draft"] # "UNSET"
  PROVE  RowsFit' /\ SlotsFit'
<1>1. FlowMatchesMethod' /\ VerdictRestsOnEvidence'
  BY DEF RowFits, StatusFits, FlowMatchesMethod, VerdictRestsOnEvidence
<1> QED
  BY <1>1, SlotsKeep DEF RowsFit, RowFits

\* A write that leaves row, listing and clocks alone.
LEMMA OtherWriteKeeps ==
  ASSUME IInv, NEW r \in Slots, NEW step, Finish(r) \/ GoOn(r, step),
         UNCHANGED <<plan, order, listing, clock>>
  PROVE  RowsFit' /\ SlotsFit'
BY OwnRowFits, WriteKeeps DEF IInv, RowsFit, OutcomeMatchesListing, WaitingHasDeadline

\* A write of the row alone: a new status only outside Watched.
LEMMA SetOrderKeeps ==
  ASSUME IInv, NEW r \in Slots, NEW step, Finish(r) \/ GoOn(r, step),
         NEW row, order' = row, UNCHANGED <<plan, listing, clock>>, RowFits(row),
         \/ row.status = order.status
         \/ row.status \notin Watched \cup {"AWAITING_PAYMENT"} /\ StatusFits(row.status)
  PROVE  RowsFit' /\ SlotsFit'
<1>1. OutcomeMatchesListing' /\ WaitingHasDeadline' /\ clock'["draft"] # "UNSET"
  BY OwnRowFits DEF IInv, RowsFit, OutcomeMatchesListing, WaitingHasDeadline, Watched
<1> QED
  BY <1>1, OwnRowFits, WriteKeeps

\* A write of the status alone.
LEMMA SetStatusKeeps ==
  ASSUME IInv, NEW r \in Slots, NEW s \in Statuses \ (Watched \cup {"AWAITING_PAYMENT"}),
         StatusFits(s), SetStatus(s), Finish(r)
  PROVE  RowsFit' /\ SlotsFit'
<1> DEFINE row == [order EXCEPT !.status = s]
<1>1. RowFits(row) /\ row.status = s
  BY OwnRowFits DEF RowFits, OrderRow
<1> QED
  BY <1>1, SetOrderKeeps DEF SetStatus, SetOrder

\* The two transactions that end an order write the listing with the row.
LEMMA CompleteKeeps ==
  ASSUME IInv, NEW r \in Slots, NEW row, RowFits(row), CompleteTx(row), Finish(r)
  PROVE  RowsFit' /\ SlotsFit'
<1>1. RowFits(order') /\ order'.status = "COMPLETED" /\ listing' = "SOLD"
      /\ UNCHANGED <<plan, clock>>
  BY DEF CompleteTx, RowFits, OrderRow, Statuses
<1> QED
  BY <1>1, OwnRowFits, WriteKeeps
     DEF StatusFits, ShopStatuses, ParcelStatuses, ExamStatuses, OutcomeMatchesListing,
         WaitingHasDeadline

LEMMA RefundKeeps ==
  ASSUME IInv, NEW r \in Slots, NEW row, RowFits(row), RefundTx(row), Finish(r)
  PROVE  RowsFit' /\ SlotsFit'
<1>1. RowFits(order') /\ order'.status = "REFUNDED" /\ listing' = "ACTIVE"
      /\ UNCHANGED <<plan, clock>>
  BY DEF RefundTx, RowFits, OrderRow, Statuses
<1> QED
  BY <1>1, OwnRowFits, WriteKeeps
     DEF StatusFits, ShopStatuses, ParcelStatuses, ExamStatuses, OutcomeMatchesListing,
         WaitingHasDeadline

\* A write that sets a clock together with a status that some sweep watches.
LEMMA ArmKeeps ==
  ASSUME IInv, NEW r \in Slots, Finish(r), NEW c \in {"sellerAck", "autoComplete"},
         RowFits(order'), StatusFits(order'.status),
         order'.status \in {WatchedIn(c), "CUSTODY"},
         clock' = [clock EXCEPT ![c] = "RUNNING"], UNCHANGED <<plan, listing>>
  PROVE  RowsFit' /\ SlotsFit'
<1>1. c \in Clocks /\ clock'[c] = "RUNNING" /\ clock'["draft"] = clock["draft"]
  BY OwnRowFits DEF Clocks
<1>2. OutcomeMatchesListing' /\ WaitingHasDeadline'
  BY <1>1 DEF OutcomeMatchesListing, WaitingHasDeadline, WatchedIn
<1> QED
  BY <1>1, <1>2, OwnRowFits, WriteKeeps

\* The handlers that move the row into custody, or ship it to the buyer.
LEMMA CustodyKeeps ==
  ASSUME IInv, NEW r \in Slots, Finish(r), plan.method = "MEETUP_AUTH",
         order' = TakeCustody(order), clock' = [clock EXCEPT !["sellerAck"] = "RUNNING"],
         UNCHANGED <<plan, listing>>
  PROVE  RowsFit' /\ SlotsFit'
<1>1. RowFits(order') /\ order'.status = "CUSTODY"
  BY OwnRowFits DEF TakeCustody, RowFits, OrderRow, Statuses
<1> QED
  BY <1>1, ArmKeeps DEF StatusFits, ShopStatuses, ParcelStatuses, ExamStatuses

LEMMA ShipKeeps ==
  ASSUME IInv, NEW r \in Slots, Finish(r), ShipWrite,
         plan.method \in {"SHIP", "MEETUP_DIRECT"}
  PROVE  RowsFit' /\ SlotsFit'
<1>1. RowFits(order') /\ order'.status = "SHIPPED_TO_BUYER"
  BY OwnRowFits DEF ShipWrite, RowFits, OrderRow, Statuses
<1> QED
  BY <1>1, ArmKeeps
     DEF ShipWrite, WatchedIn, StatusFits, ShopStatuses, ParcelStatuses, ExamStatuses

\* A request about to write has passed the checks of its handler.
LEMMA AtFits ==
  ASSUME IInv, NEW r \in Slots, NEW op, NEW step, At(r, op, step)
  PROVE  OpFits(op)
BY DEF At, IInv, SlotsFit

\* The history a request remembers is one.
LEMMA HistoryType ==
  ASSUME IInv, NEW r \in Slots
  PROVE  inflight[r].seen.history \in Seq(Rounds)
BY DEF IInv, TypeOK, Flight, SeenRow

-----------------------------------------------------------------------------
(* The handlers.                                                           *)

\* Checkout, payment and webhooks.
LEMMA CheckoutKeeps ==
  ASSUME IInv, NEW r \in Requests,
         \/ ConfirmReview(r) \/ MarkPaid(r) \/ CreateIntent(r) \/ ConfirmFromMock(r)
         \/ GatewayEvent(r) \/ CancelHold(r)
  PROVE  RowsFit' /\ SlotsFit'
<1> r \in Slots
  BY DEF Slots
<1>1. CASE ConfirmReview(r)
  <2>1. CASE Start(r, "confirmReview")
    BY <2>1, StartKeeps DEF Start, OpFits, VerdictOps
  <2>2. CASE /\ listing' = IF listing = "ACTIVE" THEN "RESERVED" ELSE listing
          /\ clock' = [clock EXCEPT !["payment"] = "RUNNING"]
          /\ Finish(r) /\ UNCHANGED <<plan, order>>
    <3>1. clock'["draft"] = clock["draft"] /\ clock'["sellerAck"] = clock["sellerAck"]
          /\ clock'["autoComplete"] = clock["autoComplete"]
      BY <2>2, OwnRowFits DEF Clocks
    <3>2. OutcomeMatchesListing' /\ WaitingHasDeadline'
      BY <2>2, <3>1 DEF IInv, RowsFit, OutcomeMatchesListing, WaitingHasDeadline
    <3> QED
      BY <2>2, <3>1, <3>2, OwnRowFits, WriteKeeps
  <2> QED
    BY <1>1, <2>1, <2>2 DEF ConfirmReview, MayConfirmReview
<1>2. CASE MarkPaid(r)
  <2>1. CASE Start(r, "markPaid")
    BY <2>1, StartKeeps DEF Start, OpFits, VerdictOps
  <2>2. CASE SetStatus("PAID") /\ Finish(r)
    BY <2>2, SetStatusKeeps DEF Statuses, Watched, StatusFits, ShopStatuses, ParcelStatuses,
                                ExamStatuses
  <2> QED
    BY <1>2, <2>1, <2>2 DEF MarkPaid, MayMarkPaid
<1>3. CASE CreateIntent(r)
  <2>1. CASE Start(r, "createIntent")
    BY <2>1, StartKeeps DEF Start, OpFits, VerdictOps
  <2>2. CASE Finish(r) /\ UNCHANGED <<plan, order, listing, clock>>
    BY <2>2, OtherWriteKeeps
  <2> QED
    BY <1>3, <2>1, <2>2 DEF CreateIntent, MayCreateIntent
<1>4. CASE GatewayEvent(r)
  <2>1. ASSUME NEW e, NEW seen, StartWith(r, "gatewayEvent", "write", e, seen)
        PROVE  RowsFit' /\ SlotsFit'
    BY <2>1, StartKeeps DEF OpFits, VerdictOps
  <2>2. CASE /\ order' = [order EXCEPT !.status = "PAID", !.escrowHeld = TRUE]
          /\ Finish(r) /\ UNCHANGED <<plan, listing, clock>>
    <3>1. RowFits(order') /\ order'.status = "PAID"
      BY <2>2, OwnRowFits DEF RowFits, OrderRow, Statuses
    <3> QED
      BY <2>2, <3>1, SetOrderKeeps DEF Watched, StatusFits, ShopStatuses, ParcelStatuses,
                                       ExamStatuses
  <2>3. CASE Finish(r) /\ UNCHANGED <<plan, order, listing, clock>>
    BY <2>3, OtherWriteKeeps
  <2> QED
    BY <1>4, <2>1, <2>2, <2>3 DEF GatewayEvent
<1>5. CASE CancelHold(r)
  <2>1. ASSUME NEW at, StartWith(r, "cancelHold", at, "NONE", Unread)
        PROVE  RowsFit' /\ SlotsFit'
    BY <2>1, StartKeeps DEF OpFits, VerdictOps
  <2>2. CASE (GoOn(r, "row") \/ GoOn(r, "write")) /\ UNCHANGED <<plan, order, listing, clock>>
    BY <2>2, OtherWriteKeeps
  <2>3. CASE SetOrder([order EXCEPT !.escrowHeld = FALSE]) /\ Finish(r)
    <3>1. RowFits([order EXCEPT !.escrowHeld = FALSE])
      BY OwnRowFits DEF RowFits, OrderRow
    <3>2. ([order EXCEPT !.escrowHeld = FALSE]).status = order.status
      BY OwnRowFits DEF OrderRow
    <3> QED
      BY <2>3, <3>1, <3>2, SetOrderKeeps DEF SetOrder
  <2> QED
    BY <1>5, <2>1, <2>2, <2>3 DEF CancelHold
<1>6. CASE ConfirmFromMock(r)
  <2>1. CASE StartWith(r, "confirmFromMock", "gateway", "NONE", Unread)
    BY <2>1, StartKeeps DEF OpFits, VerdictOps
  <2>2. CASE /\ GoOn(r, "write") \/ GoOn(r, "declined") \/ Finish(r)
             /\ UNCHANGED <<plan, order, listing, clock>>
    BY <2>2, OtherWriteKeeps
  <2>3. CASE /\ order' = [order EXCEPT !.status = "PAID", !.escrowHeld = TRUE,
                  !.repaid = @ \/ order.status \notin {"AWAITING_PAYMENT", "PAID"}]
             /\ Finish(r) /\ UNCHANGED <<plan, listing, clock>>
    <3>1. RowFits(order') /\ order'.status = "PAID"
      BY <2>3, OwnRowFits DEF RowFits, OrderRow, Statuses
    <3> QED
      BY <2>3, <3>1, SetOrderKeeps DEF Watched, StatusFits, ShopStatuses, ParcelStatuses,
                                       ExamStatuses
  <2> QED
    BY <1>6, <2>1, <2>2, <2>3 DEF ConfirmFromMock
<1> QED
  BY <1>1, <1>2, <1>3, <1>4, <1>5, <1>6

\* Parcels that are shipped, and their verdicts and deliveries.
LEMMA ParcelKeeps ==
  ASSUME IInv, NEW r \in Requests,
         \/ ShipToAuthenticator(r) \/ ShipToBuyerDirect(r) \/ MarkAuthenticatorReceived(r)
         \/ AddEvidence(r) \/ SubmitVerdict(r) \/ ShipToBuyer(r)
         \/ ConfirmDelivered(r) \/ DisputeShip(r)
  PROVE  RowsFit' /\ SlotsFit'
<1> r \in Slots
  BY DEF Slots
<1>1. CASE ShipToAuthenticator(r)
  <2>1. CASE /\ order.status = "PAID" /\ plan.auth /\ plan.method \notin MEETUP_METHODS
          /\ Start(r, "shipToAuthenticator")
    <3>1. plan.method = "SHIP"
      BY <2>1, PlanIsLegal DEF IInv, MEETUP_METHODS
    <3> QED
      BY <2>1, <3>1, StartKeeps DEF Start, OpFits, VerdictOps
  <2>2. CASE At(r, "shipToAuthenticator", "write") /\ SetStatus("SHIPPED_TO_AUTHENTICATOR") /\ Finish(r)
    BY <2>2, AtFits, SetStatusKeeps
       DEF OpFits, Statuses, Watched, StatusFits, ShopStatuses, ParcelStatuses, ExamStatuses
  <2> QED
    BY <1>1, <2>1, <2>2 DEF ShipToAuthenticator, MayShipToAuthenticator
<1>2. CASE ShipToBuyerDirect(r)
  <2>1. CASE ~plan.auth /\ Start(r, "shipToBuyerDirect")
    <3>1. plan.method \in {"SHIP", "MEETUP_DIRECT"}
      BY <2>1, PlanIsLegal DEF IInv, LegalPlan, MEETUP_METHODS
    <3> QED
      BY <2>1, <3>1, StartKeeps DEF Start, OpFits, VerdictOps
  <2>2. CASE At(r, "shipToBuyerDirect", "write") /\ ShipWrite /\ Finish(r)
    BY <2>2, AtFits, ShipKeeps DEF OpFits
  <2> QED
    BY <1>2, <2>1, <2>2 DEF ShipToBuyerDirect, MayShipToBuyerDirect
<1>3. CASE MarkAuthenticatorReceived(r)
  <2>1. CASE order.status = "SHIPPED_TO_AUTHENTICATOR" /\ Start(r, "markAuthenticatorReceived")
    BY <2>1, OwnRowFits, StartKeeps DEF Start, OpFits, VerdictOps, StatusFits, ParcelStatuses
  <2>2. CASE At(r, "markAuthenticatorReceived", "write") /\ SetStatus("AUTHENTICATING") /\ Finish(r)
    BY <2>2, AtFits, SetStatusKeeps
       DEF OpFits, Statuses, Watched, StatusFits, ShopStatuses, ParcelStatuses, ExamStatuses
  <2> QED
    BY <1>3, <2>1, <2>2 DEF MarkAuthenticatorReceived, MayMarkAuthenticatorReceived
<1>4. CASE AddEvidence(r)
  <2>1. CASE Start(r, "addEvidence")
    BY <2>1, StartKeeps DEF Start, OpFits, VerdictOps
  <2>2. CASE SetOrder([order EXCEPT !.evidence = TRUE]) /\ Finish(r)
    <3>1. RowFits([order EXCEPT !.evidence = TRUE])
      BY OwnRowFits DEF RowFits, OrderRow
    <3>2. ([order EXCEPT !.evidence = TRUE]).status = order.status
      BY OwnRowFits DEF OrderRow
    <3> QED
      BY <2>2, <3>1, <3>2, SetOrderKeeps DEF SetOrder
  <2> QED
    BY <1>4, <2>1, <2>2 DEF AddEvidence, MayAddEvidence
<1>5. CASE SubmitVerdict(r)
  <2>1. ASSUME order.status = "AUTHENTICATING", order.evidence, NEW at, NEW v,
               StartWith(r, "submitVerdict", at, v, Unread)
        PROVE  RowsFit' /\ SlotsFit'
    BY <2>1, OwnRowFits, StartKeeps DEF OpFits, VerdictOps, StatusFits, ExamStatuses
  <2>2. ASSUME At(r, "submitVerdict", "write")
        PROVE  /\ order.evidence /\ plan.auth /\ plan.method # "MEETUP_AUTH"
               /\ inflight[r].arg \in Verdicts
    BY <2>2, AtFits DEF OpFits, At, IInv, TypeOK, Flight, VerdictOps
  <2>3. CASE /\ At(r, "submitVerdict", "write")
          /\ CompleteTx([order EXCEPT !.verdict = "PASSED", !.escrowHeld = FALSE])
          /\ Finish(r)
    <3>1. RowFits([order EXCEPT !.verdict = "PASSED", !.escrowHeld = FALSE])
      BY <2>3, <2>2, OwnRowFits DEF RowFits, OrderRow, Verdicts
    <3> QED
      BY <2>3, <3>1, CompleteKeeps
  <2>4. CASE /\ At(r, "submitVerdict", "write")
          /\ plan.method # "MEETUP_3WAY"
          /\ SetOrder([order EXCEPT !.status = "AUTH_PASSED", !.verdict = "PASSED"])
          /\ GoOn(r, "captureLast")
    <3>1. RowFits(order') /\ order'.status = "AUTH_PASSED"
      BY <2>4, <2>2, OwnRowFits DEF SetOrder, RowFits, OrderRow, Statuses, Verdicts
    <3> QED
      BY <2>4, <2>2, <3>1, SetOrderKeeps
         DEF SetOrder, Watched, StatusFits, ShopStatuses, ParcelStatuses, ExamStatuses
  <2>5. CASE /\ At(r, "submitVerdict", "write")
          /\ SetOrder([order EXCEPT !.status = "AUTH_FAILED", !.verdict = inflight[r].arg])
          /\ Finish(r)
    <3>1. RowFits(order') /\ order'.status = "AUTH_FAILED"
      BY <2>5, <2>2, OwnRowFits DEF SetOrder, RowFits, OrderRow, Statuses
    <3> QED
      BY <2>5, <2>2, <3>1, SetOrderKeeps
         DEF SetOrder, Watched, StatusFits, ShopStatuses, ParcelStatuses, ExamStatuses
  <2> QED
    BY <1>5, <2>1, <2>2, <2>3, <2>4, <2>5 DEF SubmitVerdict, MaySubmitVerdict
<1>6. CASE ShipToBuyer(r)
  <2>1. CASE order.status = "AUTH_PASSED" /\ Start(r, "shipToBuyer")
    <3>1. plan.method \in {"SHIP", "MEETUP_DIRECT"}
      BY <2>1, OwnRowFits, PlanIsLegal
         DEF IInv, StatusFits, ExamStatuses, LegalPlan, MEETUP_METHODS
    <3> QED
      BY <2>1, <3>1, StartKeeps DEF Start, OpFits, VerdictOps
  <2>2. CASE At(r, "shipToBuyer", "write") /\ ShipWrite /\ Finish(r)
    BY <2>2, AtFits, ShipKeeps DEF OpFits
  <2> QED
    BY <1>6, <2>1, <2>2 DEF ShipToBuyer, MayShipToBuyer
<1>7. CASE ConfirmDelivered(r)
  <2>1. ASSUME NEW at, StartWith(r, "confirmDelivered", at, "NONE", Unread)
        PROVE  RowsFit' /\ SlotsFit'
    BY <2>1, StartKeeps DEF OpFits, VerdictOps
  <2>2. CASE /\ CompleteTx([order EXCEPT !.escrowHeld = FALSE])
          /\ Finish(r)
    <3>1. RowFits([order EXCEPT !.escrowHeld = FALSE])
      BY OwnRowFits DEF RowFits, OrderRow
    <3> QED
      BY <2>2, <3>1, CompleteKeeps
  <2> QED
    BY <1>7, <2>1, <2>2 DEF ConfirmDelivered
<1>8. CASE DisputeShip(r)
  <2>1. CASE Start(r, "disputeShip")
    BY <2>1, StartKeeps DEF Start, OpFits, VerdictOps
  <2>2. CASE SetStatus("DISPUTED") /\ Finish(r)
    BY <2>2, SetStatusKeeps DEF Statuses, Watched, StatusFits, ShopStatuses, ParcelStatuses,
                                ExamStatuses
  <2> QED
    BY <1>8, <2>1, <2>2 DEF DisputeShip
<1> QED
  BY <1>1, <1>2, <1>3, <1>4, <1>5, <1>6, <1>7, <1>8

\* Meetups without custody, and the orders of the older flow.
LEMMA MeetupKeeps ==
  ASSUME IInv, NEW r \in Requests,
         \/ AuthDeliveryAck(r) \/ CompleteOrder(r) \/ StartMeetupAuth(r)
         \/ CompleteMeetup(r) \/ DisputeMeetup(r)
  PROVE  RowsFit' /\ SlotsFit'
<1> r \in Slots
  BY DEF Slots
<1>1. CASE AuthDeliveryAck(r)
  <2>1. CASE Start(r, "authDeliveryAck")
    BY <2>1, StartKeeps DEF Start, OpFits, VerdictOps
  <2>2. CASE /\ CompleteTx([order EXCEPT !.escrowHeld = FALSE])
          /\ Finish(r)
    <3>1. RowFits([order EXCEPT !.escrowHeld = FALSE])
      BY OwnRowFits DEF RowFits, OrderRow
    <3> QED
      BY <2>2, <3>1, CompleteKeeps
  <2> QED
    BY <1>1, <2>1, <2>2 DEF AuthDeliveryAck, MayAuthDeliveryAck
<1>2. CASE CompleteOrder(r)
  <2>1. ASSUME NEW seen, StartWith(r, "completeOrder", "write", "NONE", seen)
        PROVE  RowsFit' /\ SlotsFit'
    BY <2>1, StartKeeps DEF OpFits, VerdictOps
  <2>2. CASE /\ CompleteTx([order EXCEPT !.escrowHeld = @ /\ ~inflight[r].seen.escrowHeld])
          /\ Finish(r)
    <3>1. RowFits([order EXCEPT !.escrowHeld = @ /\ ~inflight[r].seen.escrowHeld])
      BY OwnRowFits DEF RowFits, OrderRow
    <3> QED
      BY <2>2, <3>1, CompleteKeeps
  <2> QED
    BY <1>2, <2>1, <2>2 DEF CompleteOrder, MayCompleteOrder
<1>3. CASE StartMeetupAuth(r)
  <2>1. CASE plan.auth /\ plan.method # "MEETUP_AUTH" /\ Start(r, "startMeetupAuth")
    BY <2>1, StartKeeps DEF Start, OpFits, VerdictOps
  <2>2. CASE At(r, "startMeetupAuth", "write") /\ SetStatus("AUTHENTICATING") /\ Finish(r)
    BY <2>2, AtFits, SetStatusKeeps
       DEF OpFits, Statuses, Watched, StatusFits, ShopStatuses, ParcelStatuses, ExamStatuses
  <2> QED
    BY <1>3, <2>1, <2>2 DEF StartMeetupAuth, MayStartMeetupAuth
<1>4. CASE CompleteMeetup(r)
  <2>1. ASSUME NEW seen, StartWith(r, "completeMeetup", "write", "NONE", seen)
        PROVE  RowsFit' /\ SlotsFit'
    BY <2>1, StartKeeps DEF OpFits, VerdictOps
  <2>2. CASE /\ CompleteTx([order EXCEPT !.escrowHeld = @ /\ ~inflight[r].seen.escrowHeld])
          /\ Finish(r)
    <3>1. RowFits([order EXCEPT !.escrowHeld = @ /\ ~inflight[r].seen.escrowHeld])
      BY OwnRowFits DEF RowFits, OrderRow
    <3> QED
      BY <2>2, <3>1, CompleteKeeps
  <2> QED
    BY <1>4, <2>1, <2>2 DEF CompleteMeetup, MayCompleteMeetup
<1>5. CASE DisputeMeetup(r)
  <2>1. CASE Start(r, "disputeMeetup")
    BY <2>1, StartKeeps DEF Start, OpFits, VerdictOps
  <2>2. CASE SetStatus("DISPUTED") /\ Finish(r)
    BY <2>2, SetStatusKeeps DEF Statuses, Watched, StatusFits, ShopStatuses, ParcelStatuses,
                                ExamStatuses
  <2> QED
    BY <1>5, <2>1, <2>2 DEF DisputeMeetup
<1> QED
  BY <1>1, <1>2, <1>3, <1>4, <1>5

\* The handover of the item to the authenticator.
LEMMA HandoverKeeps ==
  ASSUME IInv, NEW r \in Requests,
         \/ CustodyPhoneFallback(r) \/ ConfirmQrHandover(r) \/ StartMeetupHandover(r)
         \/ AuthReceiveAck(r) \/ SellerHandoverAck(r) \/ RequestRePhoto(r)
         \/ CancelHandover(r)
  PROVE  RowsFit' /\ SlotsFit'
<1> r \in Slots
  BY DEF Slots
<1>1. CASE CustodyPhoneFallback(r)
  <2>1. CASE plan.method = "MEETUP_AUTH" /\ Start(r, "custodyPhoneFallback")
    BY <2>1, StartKeeps DEF Start, OpFits, VerdictOps
  <2>2. CASE /\ At(r, "custodyPhoneFallback", "write")
          /\ order' = TakeCustody(order)
          /\ clock' = [clock EXCEPT !["sellerAck"] = "RUNNING"]
          /\ Finish(r) /\ UNCHANGED <<plan, listing>>
    BY <2>2, AtFits, CustodyKeeps DEF OpFits
  <2> QED
    BY <1>1, <2>1, <2>2 DEF CustodyPhoneFallback
<1>2. CASE ConfirmQrHandover(r)
  <2>1. CASE plan.method = "MEETUP_AUTH" /\ Start(r, "qrDropoff")
    BY <2>1, StartKeeps DEF Start, OpFits, VerdictOps
  <2>2. CASE /\ At(r, "qrDropoff", "write")
          /\ order' = TakeCustody(order)
          /\ clock' = [clock EXCEPT !["sellerAck"] = "RUNNING"]
          /\ Finish(r) /\ UNCHANGED <<plan, listing>>
    BY <2>2, AtFits, CustodyKeeps DEF OpFits
  <2>3. CASE Start(r, "qrPickup")
    BY <2>3, StartKeeps DEF Start, OpFits, VerdictOps
  <2>4. CASE /\ CompleteTx([order EXCEPT !.escrowHeld = FALSE, !.custodyHeld = FALSE])
          /\ Finish(r)
    <3>1. RowFits([order EXCEPT !.escrowHeld = FALSE, !.custodyHeld = FALSE])
      BY OwnRowFits DEF RowFits, OrderRow
    <3> QED
      BY <2>4, <3>1, CompleteKeeps
  <2> QED
    BY <1>2, <2>1, <2>2, <2>3, <2>4 DEF ConfirmQrHandover
<1>3. CASE StartMeetupHandover(r)
  <2>1. CASE plan.method = "MEETUP_AUTH" /\ Start(r, "startMeetupHandover")
    BY <2>1, StartKeeps DEF Start, OpFits, VerdictOps
  <2>2. CASE At(r, "startMeetupHandover", "write") /\ SetStatus("HANDOVER_TO_AUTH") /\ Finish(r)
    BY <2>2, AtFits, SetStatusKeeps
       DEF OpFits, Statuses, Watched, StatusFits, ShopStatuses, ParcelStatuses, ExamStatuses
  <2> QED
    BY <1>3, <2>1, <2>2 DEF StartMeetupHandover, MayStartMeetupHandover
<1>4. CASE AuthReceiveAck(r)
  <2>1. ASSUME order.status = "HANDOVER_TO_AUTH", NEW seen,
               StartWith(r, "authReceiveAck", "write", "NONE", seen)
        PROVE  RowsFit' /\ SlotsFit'
    BY <2>1, OwnRowFits, StartKeeps DEF OpFits, VerdictOps, StatusFits, ShopStatuses
  <2>2. CASE /\ At(r, "authReceiveAck", "write")
          /\ order' = [order EXCEPT !.status = "SELLER_ACK_PENDING",
                                    !.history = Append(inflight[r].seen.history, "OPEN")]
          /\ clock' = [clock EXCEPT !["sellerAck"] = "RUNNING"]
          /\ Finish(r) /\ UNCHANGED <<plan, listing>>
    <3>1. plan.method = "MEETUP_AUTH"
      BY <2>2, AtFits DEF OpFits
    <3>2. Append(inflight[r].seen.history, "OPEN") \in Seq(Rounds)
      BY HistoryType DEF Rounds
    <3>3. RowFits(order') /\ order'.status = "SELLER_ACK_PENDING"
      BY <2>2, <3>1, <3>2, OwnRowFits DEF RowFits, OrderRow, Statuses
    <3> QED
      BY <2>2, <3>1, <3>3, ArmKeeps DEF WatchedIn, StatusFits, ShopStatuses, ParcelStatuses,
                                        ExamStatuses
  <2> QED
    BY <1>4, <2>1, <2>2 DEF AuthReceiveAck, MayAuthReceiveAck
<1>5. CASE SellerHandoverAck(r)
  <2>1. ASSUME plan.method = "MEETUP_AUTH", NEW seen,
               StartWith(r, "sellerHandoverAck", "write", "NONE", seen)
        PROVE  RowsFit' /\ SlotsFit'
    BY <2>1, OwnRowFits, StartKeeps DEF OpFits, VerdictOps, StatusFits, ShopStatuses
  <2>2. CASE /\ At(r, "sellerHandoverAck", "write")
          /\ SetOrder([TakeCustody(order) EXCEPT
                         !.history = CloseRound(inflight[r].seen.history, "ACKED")])
          /\ Finish(r)
    <3>1. plan.method = "MEETUP_AUTH"
      BY <2>2, AtFits DEF OpFits
    <3>2. CloseRound(inflight[r].seen.history, "ACKED") \in Seq(Rounds)
      BY HistoryType, CloseRoundType DEF Rounds
    <3>3. RowFits(order') /\ order'.status = "CUSTODY"
      BY <2>2, <3>1, <3>2, OwnRowFits DEF SetOrder, TakeCustody, RowFits, OrderRow, Statuses
    <3> QED
      BY <2>2, <3>1, <3>3, SetOrderKeeps DEF SetOrder, Watched, StatusFits, ShopStatuses,
                                             ParcelStatuses, ExamStatuses
  <2>3. CASE order.status = "AUTH_RECEIVED_PENDING_SELLER_ACK" /\ Start(r, "sellerReceiptAck")
    BY <2>3, OwnRowFits, StartKeeps DEF Start, OpFits, VerdictOps, StatusFits, ParcelStatuses
  <2>4. CASE At(r, "sellerReceiptAck", "write") /\ SetStatus("AUTHENTICATING") /\ Finish(r)
    BY <2>4, AtFits, SetStatusKeeps
       DEF OpFits, Statuses, Watched, StatusFits, ShopStatuses, ParcelStatuses, ExamStatuses
  <2> QED
    BY <1>5, <2>1, <2>2, <2>3, <2>4 DEF SellerHandoverAck, MaySellerHandoverAck, MaySellerReceiptAck
<1>6. CASE RequestRePhoto(r)
  <2>1. ASSUME order.status = "SELLER_ACK_PENDING", NEW seen,
               StartWith(r, "requestRePhoto", "write", "NONE", seen)
        PROVE  RowsFit' /\ SlotsFit'
    BY <2>1, OwnRowFits, StartKeeps DEF OpFits, VerdictOps, StatusFits, ShopStatuses
  <2>2. CASE /\ At(r, "requestRePhoto", "write")
          /\ order' = [order EXCEPT !.status = "HANDOVER_TO_AUTH",
                         !.history = CloseRound(inflight[r].seen.history, "REJECTED"),
                         !.rePhotoCount = @ + 1]
          /\ clock' = [clock EXCEPT !["sellerAck"] = "UNSET"]
          /\ Finish(r) /\ UNCHANGED <<plan, listing>>
    <3>1. plan.method = "MEETUP_AUTH"
      BY <2>2, AtFits DEF OpFits
    <3>2. CloseRound(inflight[r].seen.history, "REJECTED") \in Seq(Rounds)
      BY HistoryType, CloseRoundType DEF Rounds
    <3>3. order.rePhotoCount + 1 \in Nat
      BY OwnRowFits DEF OrderRow
    <3>4. RowFits(order') /\ order'.status = "HANDOVER_TO_AUTH"
      BY <2>2, <3>1, <3>2, <3>3, OwnRowFits DEF RowFits, OrderRow, Statuses
    <3>5. clock'["draft"] = clock["draft"]
      BY <2>2, OwnRowFits
    <3>6. OutcomeMatchesListing' /\ WaitingHasDeadline'
      BY <3>4 DEF OutcomeMatchesListing, WaitingHasDeadline
    <3> QED
      BY <2>2, <3>1, <3>4, <3>5, <3>6, OwnRowFits, WriteKeeps
         DEF StatusFits, ShopStatuses, ParcelStatuses, ExamStatuses
  <2> QED
    BY <1>6, <2>1, <2>2 DEF RequestRePhoto
<1>7. CASE CancelHandover(r)
  <2>1. CASE Start(r, "cancelHandover")
    BY <2>1, StartKeeps DEF Start, OpFits, VerdictOps
  <2>2. CASE /\ RefundTx([order EXCEPT !.custodyHeld = FALSE])
          /\ Finish(r)
    <3>1. RowFits([order EXCEPT !.custodyHeld = FALSE])
      BY OwnRowFits DEF RowFits, OrderRow
    <3> QED
      BY <2>2, <3>1, RefundKeeps
  <2> QED
    BY <1>7, <2>1, <2>2 DEF CancelHandover
<1> QED
  BY <1>1, <1>2, <1>3, <1>4, <1>5, <1>6, <1>7

\* Custody: the verdict, the pickup and the return.
LEMMA CustodyHandlersKeep ==
  ASSUME IInv, NEW r \in Requests,
         \/ SubmitVerdictMeetup(r) \/ BuyerReceiveAck(r) \/ UploadReturnPhotos(r)
         \/ SellerReturnAck(r)
  PROVE  RowsFit' /\ SlotsFit'
<1> r \in Slots
  BY DEF Slots
<1>1. CASE SubmitVerdictMeetup(r)
  <2>1. ASSUME plan.method = "MEETUP_AUTH", order.evidence, NEW v,
               StartWith(r, "submitVerdictMeetup", "write", v, Unread)
        PROVE  RowsFit' /\ SlotsFit'
    BY <2>1, StartKeeps DEF OpFits, VerdictOps
  <2>2. ASSUME At(r, "submitVerdictMeetup", "write")
        PROVE  order.evidence /\ plan.method = "MEETUP_AUTH" /\ inflight[r].arg \in Verdicts
    BY <2>2, AtFits DEF OpFits, At, IInv, TypeOK, Flight, VerdictOps
  <2>3. CASE /\ At(r, "submitVerdictMeetup", "write")
          /\ SetOrder([order EXCEPT !.status = "AWAITING_BUYER_PICKUP", !.verdict = "PASSED"])
          /\ GoOn(r, "captureLast")
    <3>1. RowFits(order') /\ order'.status = "AWAITING_BUYER_PICKUP"
      BY <2>3, <2>2, OwnRowFits DEF SetOrder, RowFits, OrderRow, Statuses, Verdicts
    <3> QED
      BY <2>3, <2>2, <3>1, SetOrderKeeps
         DEF SetOrder, Watched, StatusFits, ShopStatuses, ParcelStatuses, ExamStatuses
  <2>4. CASE /\ At(r, "submitVerdictMeetup", "write")
          /\ RefundTx([order EXCEPT !.verdict = inflight[r].arg])
          /\ Finish(r)
    <3>1. RowFits([order EXCEPT !.verdict = inflight[r].arg])
      BY <2>4, <2>2, OwnRowFits DEF RowFits, OrderRow
    <3> QED
      BY <2>4, <3>1, RefundKeeps
  <2> QED
    BY <1>1, <2>1, <2>2, <2>3, <2>4 DEF SubmitVerdictMeetup, MaySubmitVerdictMeetup
<1>2. CASE BuyerReceiveAck(r)
  <2>1. CASE Start(r, "buyerReceiveAck")
    BY <2>1, StartKeeps DEF Start, OpFits, VerdictOps
  <2>2. CASE /\ CompleteTx([order EXCEPT !.escrowHeld = FALSE, !.custodyHeld = FALSE])
          /\ Finish(r)
    <3>1. RowFits([order EXCEPT !.escrowHeld = FALSE, !.custodyHeld = FALSE])
      BY OwnRowFits DEF RowFits, OrderRow
    <3> QED
      BY <2>2, <3>1, CompleteKeeps
  <2> QED
    BY <1>2, <2>1, <2>2 DEF BuyerReceiveAck, MayBuyerReceiveAck
<1>3. CASE UploadReturnPhotos(r)
  <2>1. CASE Start(r, "uploadReturnPhotos")
    BY <2>1, StartKeeps DEF Start, OpFits, VerdictOps
  <2>2. CASE SetOrder([order EXCEPT !.returnPhotos = TRUE]) /\ Finish(r)
    <3>1. RowFits([order EXCEPT !.returnPhotos = TRUE])
      BY OwnRowFits DEF RowFits, OrderRow
    <3>2. ([order EXCEPT !.returnPhotos = TRUE]).status = order.status
      BY OwnRowFits DEF OrderRow
    <3> QED
      BY <2>2, <3>1, <3>2, SetOrderKeeps DEF SetOrder
  <2> QED
    BY <1>3, <2>1, <2>2 DEF UploadReturnPhotos
<1>4. CASE SellerReturnAck(r)
  <2>1. CASE Start(r, "sellerReturnAck")
    BY <2>1, StartKeeps DEF Start, OpFits, VerdictOps
  <2>2. CASE SetOrder([order EXCEPT !.returnAck = TRUE, !.custodyHeld = FALSE]) /\ Finish(r)
    <3>1. RowFits([order EXCEPT !.returnAck = TRUE, !.custodyHeld = FALSE])
      BY OwnRowFits DEF RowFits, OrderRow
    <3>2. ([order EXCEPT !.returnAck = TRUE, !.custodyHeld = FALSE]).status = order.status
      BY OwnRowFits DEF OrderRow
    <3> QED
      BY <2>2, <3>1, <3>2, SetOrderKeeps DEF SetOrder
  <2> QED
    BY <1>4, <2>1, <2>2 DEF SellerReturnAck, MaySellerReturnAck
<1> QED
  BY <1>1, <1>2, <1>3, <1>4

\* The back office ends an order, whatever its status.
LEMMA BackOfficeKeeps ==
  ASSUME IInv, NEW r \in Requests,
         \/ ForceRefund(r) \/ ReleaseEscrow(r)
  PROVE  RowsFit' /\ SlotsFit'
<1> r \in Slots
  BY DEF Slots
<1>1. CASE ForceRefund(r)
  <2>1. ASSUME NEW seen, StartWith(r, "forceRefund", "gateway", "NONE", seen)
        PROVE  RowsFit' /\ SlotsFit'
    BY <2>1, StartKeeps DEF OpFits, VerdictOps
  <2>2. CASE GoOn(r, "write") /\ UNCHANGED <<plan, order, listing, clock>>
    BY <2>2, OtherWriteKeeps
  <2>3. CASE /\ order' = [order EXCEPT !.status = "REFUNDED", !.escrowHeld = FALSE]
          /\ listing' = "ACTIVE"
          /\ Finish(r) /\ UNCHANGED <<plan, clock>>
    <3>1. RowFits(order') /\ order'.status = "REFUNDED"
      BY <2>3, OwnRowFits DEF RowFits, OrderRow, Statuses
    <3>2. OutcomeMatchesListing' /\ WaitingHasDeadline' /\ StatusFits(order'.status)
      BY <2>3, <3>1 DEF OutcomeMatchesListing, WaitingHasDeadline, StatusFits, ShopStatuses,
                        ParcelStatuses, ExamStatuses
    <3> QED
      BY <2>3, <3>1, <3>2, OwnRowFits, WriteKeeps
  <2> QED
    BY <1>1, <2>1, <2>2, <2>3 DEF ForceRefund
<1>2. CASE ReleaseEscrow(r)
  <2>1. ASSUME NEW seen, StartWith(r, "releaseEscrow", "gateway", "NONE", seen)
        PROVE  RowsFit' /\ SlotsFit'
    BY <2>1, StartKeeps DEF OpFits, VerdictOps
  <2>2. CASE GoOn(r, "write") /\ UNCHANGED <<plan, order, listing, clock>>
    BY <2>2, OtherWriteKeeps
  <2>3. CASE /\ order' = [order EXCEPT !.status = "COMPLETED", !.completedAt = TRUE,
                                    !.escrowHeld = FALSE]
          /\ listing' = "SOLD"
          /\ Finish(r) /\ UNCHANGED <<plan, clock>>
    <3>1. RowFits(order') /\ order'.status = "COMPLETED"
      BY <2>3, OwnRowFits DEF RowFits, OrderRow, Statuses
    <3>2. OutcomeMatchesListing' /\ WaitingHasDeadline' /\ StatusFits(order'.status)
      BY <2>3, <3>1 DEF OutcomeMatchesListing, WaitingHasDeadline, StatusFits, ShopStatuses,
                        ParcelStatuses, ExamStatuses
    <3> QED
      BY <2>3, <3>1, <3>2, OwnRowFits, WriteKeeps
  <2> QED
    BY <1>2, <2>1, <2>2, <2>3 DEF ReleaseEscrow
<1> QED
  BY <1>1, <1>2

\* The sweeps.
LEMMA SweepsKeep ==
  ASSUME IInv, SweepStep
  PROVE  RowsFit' /\ SlotsFit'
<1> CRON \in Slots
  BY DEF Slots
<1>1. CASE SweepSellerAckTimeout
  <2>1. CASE Start(CRON, "sweepSellerAckTimeout")
    BY <2>1, StartKeeps DEF Start, OpFits, VerdictOps
  <2>2. CASE RefundTx([order EXCEPT !.custodyHeld = FALSE]) /\ Finish(CRON)
    <3>1. RowFits([order EXCEPT !.custodyHeld = FALSE])
      BY OwnRowFits DEF RowFits, OrderRow
    <3> QED
      BY <2>2, <3>1, RefundKeeps
  <2>3. CASE UNCHANGED db /\ Finish(CRON)
    BY <2>3, OtherWriteKeeps DEF db
  <2> QED
    BY <1>1, <2>1, <2>2, <2>3 DEF SweepSellerAckTimeout
<1>2. CASE SweepShipAutoComplete
  <2>1. ASSUME NEW at, StartWith(CRON, "sweepShipAutoComplete", at, "NONE", Unread)
        PROVE  RowsFit' /\ SlotsFit'
    BY <2>1, StartKeeps DEF OpFits, VerdictOps
  <2>2. CASE CompleteTx([order EXCEPT !.escrowHeld = FALSE]) /\ Finish(CRON)
    <3>1. RowFits([order EXCEPT !.escrowHeld = FALSE])
      BY OwnRowFits DEF RowFits, OrderRow
    <3> QED
      BY <2>2, <3>1, CompleteKeeps
  <2>3. CASE UNCHANGED db /\ Finish(CRON)
    BY <2>3, OtherWriteKeeps DEF db
  <2> QED
    BY <1>2, <2>1, <2>2, <2>3 DEF SweepShipAutoComplete
<1>3. CASE SweepPaymentExpired
  <2>1. CASE SetStatus("PAYMENT_EXPIRED") /\ UNCHANGED inflight
    <3>1. RowFits(order') /\ order'.status = "PAYMENT_EXPIRED"
      BY <2>1, OwnRowFits DEF SetStatus, SetOrder, RowFits, OrderRow, Statuses
    <3>2. RowsFit'
      BY <2>1, <3>1, OwnRowFits
         DEF SetStatus, SetOrder, RowFits, RowsFit, OutcomeMatchesListing, WaitingHasDeadline,
             FlowMatchesMethod, VerdictRestsOnEvidence, ShopStatuses, ParcelStatuses, ExamStatuses
    <3>3. SlotsFit'
      BY <2>1, <3>1 DEF SetStatus, SetOrder, RowFits, IInv, SlotsFit, OpFits
    <3> QED
      BY <3>2, <3>3
  <2>2. ASSUME NEW at, StartWith(CRON, "sweepPaymentExpired", at, "NONE", Unread)
        PROVE  RowsFit' /\ SlotsFit'
    BY <2>2, StartKeeps DEF OpFits, VerdictOps
  <2>3. CASE /\ GoOn(CRON, "write") \/ Finish(CRON)
             /\ UNCHANGED <<plan, order, listing, clock>>
    BY <2>3, OtherWriteKeeps
  <2>4. CASE /\ order' = [order EXCEPT !.status = "PAYMENT_EXPIRED", !.escrowHeld = FALSE]
             /\ order.status = "AWAITING_PAYMENT" /\ listing' = "ACTIVE"
             /\ Finish(CRON) /\ UNCHANGED <<plan, clock>>
    <3>1. RowFits(order') /\ order'.status = "PAYMENT_EXPIRED"
      BY <2>4, OwnRowFits DEF RowFits, OrderRow, Statuses
    <3>2. OutcomeMatchesListing' /\ WaitingHasDeadline' /\ StatusFits(order'.status)
      BY <3>1 DEF OutcomeMatchesListing, WaitingHasDeadline, StatusFits, ShopStatuses,
                  ParcelStatuses, ExamStatuses
    <3> QED
      BY <2>4, <3>1, <3>2, OwnRowFits, WriteKeeps
  <2> QED
    BY <1>3, <2>1, <2>2, <2>3, <2>4 DEF SweepPaymentExpired, db
<1> QED
  BY <1>1, <1>2, <1>3 DEF SweepStep

\* The steps that are no handler's: a capture, a failure, the buyer at the
\* gateway, the passing of time.
LEMMA OtherStepsKeep ==
  ASSUME IInv, BuyerPays \/ TimePasses \/ \E r \in Slots : TryCapture(r) \/ Fail(r)
  PROVE  RowsFit' /\ SlotsFit'
<1>1. CASE BuyerPays \/ TimePasses
  <2>1. UNCHANGED <<plan, order, listing, inflight>>
    BY <1>1 DEF BuyerPays, TimePasses
  <2>2. \A c \in Clocks : clock[c] # "UNSET" => clock'[c] # "UNSET"
    BY <1>1, OwnRowFits DEF BuyerPays, TimePasses
  <2>3. RowsFit'
    BY <2>1, <2>2 DEF IInv, RowsFit, OutcomeMatchesListing, WaitingHasDeadline,
                      FlowMatchesMethod, VerdictRestsOnEvidence, Clocks
  <2> QED
    BY <2>1, <2>3 DEF IInv, SlotsFit, OpFits
<1>2. ASSUME NEW r \in Slots, TryCapture(r) \/ Fail(r)
      PROVE  RowsFit' /\ SlotsFit'
  BY <1>2, OtherWriteKeeps DEF TryCapture, Fail, db
<1> QED
  BY <1>1, <1>2

-----------------------------------------------------------------------------
(* The theorems.                                                           *)

\* A draft, and an order left over from the older flow, satisfy the invariant.
LEMMA InitFits == Init => RowsFit /\ SlotsFit
<1> SUFFICES ASSUME Init
             PROVE  RowsFit /\ SlotsFit
  OBVIOUS
<1> USE DEF RowsFit, OutcomeMatchesListing, WaitingHasDeadline, FlowMatchesMethod,
            VerdictRestsOnEvidence, ShopStatuses, ParcelStatuses, ExamStatuses
<1>1. clock = [c \in Clocks |-> IF c = "draft" THEN "RUNNING" ELSE "UNSET"]
  <2>1. CASE InitDraft
    BY <2>1 DEF InitDraft
  <2>2. CASE InitLegacy
    BY <2>2 DEF InitLegacy
  <2> QED
    BY <2>1, <2>2 DEF Init
<1>a. clock["draft"] = "RUNNING"
  BY <1>1 DEF Clocks
<1>2. SlotsFit
  BY DEF Init, Idle, SlotsFit, OpFits, VerdictOps
<1>3. CASE InitDraft
  BY <1>a, <1>2, <1>3 DEF InitDraft, NewOrder
<1>4. CASE InitLegacy
  <2>1. \/ order = [NewOrder EXCEPT !.status = "AUTH_RECEIVED_PENDING_SELLER_ACK"]
        \/ \E s \in {"DELIVERED_PENDING_AUTH_ACK", "DELIVERED"} :
             order = [NewOrder EXCEPT !.status = s, !.verdict = "PASSED", !.evidence = TRUE]
    BY <1>4 DEF InitLegacy
  <2>2. order.status \in ParcelStatuses
        /\ order.history = <<>> /\ order.custodyHeld = FALSE
        /\ (order.verdict # "NONE" => order.evidence)
    BY <2>1 DEF NewOrder
  <2>3. plan.method = "SHIP" /\ plan.auth
    BY <1>4 DEF InitLegacy
  <2> QED
    BY <1>a, <1>2, <2>2, <2>3
<1> QED
  BY <1>3, <1>4 DEF Init

\* No step of any handler, sweep, webhook or failure leaves the invariant.
LEMMA StepFits ==
  ASSUME IInv, [Next]_vars
  PROVE  RowsFit' /\ SlotsFit'
<1>1. ASSUME NEW r \in Requests, UserStep(r)
      PROVE  RowsFit' /\ SlotsFit'
  BY <1>1, CheckoutKeeps, ParcelKeeps, MeetupKeeps, HandoverKeeps, CustodyHandlersKeep,
     BackOfficeKeeps DEF UserStep
<1>2. CASE UNCHANGED vars
  BY <1>2 DEF vars, IInv, RowsFit, OutcomeMatchesListing, WaitingHasDeadline, FlowMatchesMethod,
              VerdictRestsOnEvidence, SlotsFit, OpFits
<1> QED
  BY <1>1, <1>2, SweepsKeep, OtherStepsKeep DEF Next

\* The invariant that is inductive: types, rows, and what requests in flight rest on.
THEOREM Invariance == Spec => []IInv
<1>1. Init => RowsFit /\ SlotsFit
  BY InitFits
<1>2. TypeOK /\ RowsFit /\ SlotsFit /\ [Next]_vars => RowsFit' /\ SlotsFit'
  BY StepFits DEF IInv
<1> QED
  BY <1>1, <1>2, TypeCorrect, PTL DEF Spec, IInv

\* However completions, refunds and cancellations of one order race, a completed
\* order's item is SOLD and a refunded order's item is not.
THEOREM OutcomeAgreesWithListing == Spec => []OutcomeMatchesListing
<1>1. IInv => OutcomeMatchesListing
  BY DEF IInv, RowsFit
<1> QED
  BY <1>1, Invariance, PTL

\* Whatever races with the handlers that start a wait, the clock of the sweep
\* that ends it is armed.
THEOREM NoWaitWithoutDeadline == Spec => []WaitingHasDeadline
<1>1. IInv => WaitingHasDeadline
  BY DEF IInv, RowsFit
<1> QED
  BY <1>1, Invariance, PTL

\* No interleaving of the four delivery flows moves an order into a status of
\* another flow.
THEOREM FlowsStayApart == Spec => []FlowMatchesMethod
<1>1. IInv => FlowMatchesMethod
  BY DEF IInv, RowsFit
<1> QED
  BY <1>1, Invariance, PTL

\* No interleaving records a verdict on an item without evidence.
THEOREM NoVerdictUnseen == Spec => []VerdictRestsOnEvidence
<1>1. IInv => VerdictRestsOnEvidence
  BY DEF IInv, RowsFit
<1> QED
  BY <1>1, Invariance, PTL

-----------------------------------------------------------------------------
(* Whose turn it is.  What the pages say rests on the row alone, so it needs *)
(* no more than the invariant: in flows that stay apart every status has     *)
(* somebody waiting, and a handler of theirs that accepts it.                *)

\* The choices of a plan, and the status, one by one.
LEMMA TurnTypes ==
  ASSUME IInv
  PROVE  /\ plan.method \in {"SHIP", "MEETUP_AUTH", "MEETUP_3WAY", "MEETUP_DIRECT"}
         /\ LegalPlan(plan)
         /\ order.status \in Statuses
         /\ clock \in [Clocks -> ClockStates]
         /\ WaitingHasDeadline /\ FlowMatchesMethod
<1>1. plan \in Plans /\ order \in OrderRow /\ clock \in [Clocks -> ClockStates]
  BY DEF IInv, TypeOK
<1> QED
  BY <1>1, PlanIsLegal DEF IInv, TypeOK, RowsFit, OrderRow, MEETUP_METHODS

LEMMA ToldInAnyFlow ==
  ASSUME IInv
  PROVE  SomebodyIsTold
<1> USE TurnTypes DEF WaitingHasDeadline, FlowMatchesMethod, LegalPlan, Statuses, Roles,
        orderGroup, needsMyAction, isMeetupOrder, MEETUP_METHODS, TERMINAL_STATUSES,
        ParcelStatuses, ExamStatuses
<1>1. CASE order.status \in TERMINAL_STATUSES \cup {"DISPUTED"}
  BY <1>1 DEF SomebodyIsTold
<1>2. CASE order.status \in {"AWAITING_PAYMENT", "AWAITING_BUYER_PICKUP", "DELIVERED"}
  <2>1. orderGroup("buyer") = "action"
    BY <1>2 DEF BuyerActs
  <2> QED
    BY <2>1 DEF SomebodyIsTold
<1>3. CASE order.status \in {"PAID", "AUTH_PASSED", "AUTH_RECEIVED_PENDING_SELLER_ACK",
                              "SELLER_ACK_PENDING"}
  <2>1. BuyerActs \/ SellerActs
    BY <1>3 DEF BuyerActs, SellerActs
  <2>2. orderGroup("buyer") = "action" \/ orderGroup("seller") = "action"
    BY <1>3, <2>1
  <2> QED
    BY <2>2 DEF SomebodyIsTold
<1>4. CASE order.status \in {"SHIPPED_TO_AUTHENTICATOR", "AUTHENTICATING", "HANDOVER_TO_AUTH",
                              "CUSTODY", "DELIVERED_PENDING_AUTH_ACK"}
  <2>1. orderGroup("auth") = "action"
    BY <1>4 DEF AuthActs
  <2> QED
    BY <2>1 DEF SomebodyIsTold
<1>5. CASE order.status \in {"SHIPPED_TO_BUYER", "AUTH_FAILED"}
  BY <1>5 DEF SomebodyIsTold
<1> QED
  BY <1>1, <1>2, <1>3, <1>4, <1>5

LEMMA ToldMayAct ==
  ASSUME IInv
  PROVE  ToldCanAct
<1> DEFINE AtTheShop == order.status = "PAID" /\ plan.auth /\ isMeetupOrder
<1> USE TurnTypes DEF WaitingHasDeadline, FlowMatchesMethod, LegalPlan, isMeetupOrder,
        MEETUP_METHODS, ShopStatuses, ParcelStatuses, ExamStatuses, MayRequest
<1>1. BuyerActs => MayRequest("buyer") \/ AtTheShop
  BY DEF BuyerActs, MayConfirmReview, MayMarkPaid, MayCompleteOrder, MayCompleteMeetup,
         MayBuyerReceiveAck
<1>2. SellerActs => MayRequest("seller") \/ AtTheShop
  BY DEF SellerActs, MayShipToAuthenticator, MayShipToBuyerDirect, MayShipToBuyer,
         MaySellerHandoverAck, MaySellerReceiptAck, MaySellerReturnAck
<1>3. AuthActs => MayRequest("auth") \/ AtTheShop
  BY DEF AuthActs, MayMarkAuthenticatorReceived, MayAuthReceiveAck, MayAddEvidence,
         MaySubmitVerdict, MaySubmitVerdictMeetup, MayAuthDeliveryAck
<1>4. ASSUME NEW role \in Roles, orderGroup(role) = "action"
      PROVE  needsMyAction(role)
  BY <1>4 DEF orderGroup
<1> QED
  BY <1>1, <1>2, <1>3, <1>4 DEF ToldCanAct, needsMyAction, Roles

\* However requests, webhooks and sweeps interleave, whose turn the pages say it
\* is fits what the handlers accept: an order in progress is on the list of
\* somebody, and whoever is told to act has a request the server takes.
THEOREM TurnsFollowTheFlow == Spec => []TurnsFit
<1>1. IInv => TurnsFit
  BY ToldInAnyFlow, ToldMayAct DEF TurnsFit
<1> QED
  BY <1>1, Invariance, PTL

=============================================================================
