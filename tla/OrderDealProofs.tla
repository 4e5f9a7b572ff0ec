--------------------------- MODULE OrderDealProofs ---------------------------
(***************************************************************************)
(* One order when its requests take turns: proofs of what the code's checks *)
(* were written for.                                                        *)
(*                                                                         *)
(* Either nothing overlaps, and then the order implements module Deal; or    *)
(* one request at a time, of a party, a webhook or the back office, races    *)
(* with the sweeps, which test the row again when they write, and then most  *)
(* of it still holds.  Between a request's read and its write only a sweep   *)
(* can have moved the row, and only an order that waited too long.           *)
(* NothingStale says what that leaves of every fact a handler rests on;      *)
(* DbFits strengthens the properties about the rows.  Where payments are a   *)
(* mock, an order may be paid a second time in any status; the facts about   *)
(* its rounds, its custody and its counter are then those of two lives.      *)
(***************************************************************************)
EXTENDS OrderDeal, OrderFlowProofs

\* The sweeps race with one request at a time, or everything runs one at a time.
OneRequest == OVERLAP => \A r, s \in Requests : r = s

\* At most one slot is busy, or one and a sweep.
OneAtATime ==
    \A r, s \in Slots : inflight[r] # Idle /\ inflight[s] # Idle =>
        \/ r = s
        \/ OVERLAP /\ (r = CRON \/ s = CRON)

\* What a sweep makes of an order that waited too long.
Swept(was, is) ==
    \/ was = "AWAITING_PAYMENT" /\ is = "PAYMENT_EXPIRED"
    \/ was = "SELLER_ACK_PENDING" /\ is = "REFUNDED"
    \/ was = "SHIPPED_TO_BUYER" /\ is = "COMPLETED"

\* The statuses an operation accepts.
ReadIn(op) ==
    CASE op \in {"confirmReview", "markPaid", "createIntent"} -> {"AWAITING_PAYMENT"}
      [] op \in {"shipToAuthenticator", "shipToBuyerDirect", "startMeetupAuth",
                 "custodyPhoneFallback", "qrDropoff", "startMeetupHandover"} -> {"PAID"}
      [] op = "markAuthenticatorReceived" -> {"SHIPPED_TO_AUTHENTICATOR"}
      [] op = "submitVerdict" -> {"AUTHENTICATING"}
      [] op = "shipToBuyer" -> {"AUTH_PASSED"}
      [] op \in {"confirmDelivered", "disputeShip"} -> {"SHIPPED_TO_BUYER"}
      [] op = "authDeliveryAck" -> {"DELIVERED_PENDING_AUTH_ACK"}
      [] op = "completeOrder" -> {"DELIVERED"}
      [] op = "completeMeetup" -> {"PAID", "AUTH_PASSED"}
      [] op \in {"qrPickup", "buyerReceiveAck"} -> {"AWAITING_BUYER_PICKUP"}
      [] op = "authReceiveAck" -> {"HANDOVER_TO_AUTH"}
      [] op \in {"sellerHandoverAck", "requestRePhoto"} -> {"SELLER_ACK_PENDING"}
      [] op = "sellerReceiptAck" -> {"AUTH_RECEIVED_PENDING_SELLER_ACK"}
      [] op = "cancelHandover" -> {"PAID", "HANDOVER_TO_AUTH", "SELLER_ACK_PENDING"}
      [] op = "submitVerdictMeetup" -> {"CUSTODY"}
      [] op \in {"uploadReturnPhotos", "sellerReturnAck"} -> {"REFUNDED"}
      [] op = "disputeMeetup" -> Statuses \ {"COMPLETED", "REFUNDED", "DISPUTED"}
      [] op \in {"forceRefund", "releaseEscrow"} -> Statuses \ {"COMPLETED", "REFUNDED"}
      [] OTHER -> Statuses

\* The order keeps the status an operation accepted until the request writes,
\* unless a sweep takes it first: no other request is about.
StillIn(op) ==
    \/ order.status \in ReadIn(op)
    \/ OVERLAP /\ \E s \in ReadIn(op) : Swept(s, order.status)

\* The latest photo round waits for the seller.
LastOpen ==
    LET n == Len(order.history) IN n > 0 /\ order.history[n] = "OPEN"

\* The gateway has taken the money; the mock keeps no books.
Taken == plan.mock \/ intent \in {"CHARGED", "REFUNDED"}

\* What a request has read is still true when it writes.  What it read of an order
\* that was paid a second time need not add up in the first place.
StillTrue(f) ==
    /\ f.at \notin {"captureLast", "rowLast"} => StillIn(f.op)
    /\ f.op \in {"authReceiveAck", "sellerHandoverAck", "requestRePhoto"} =>
         f.seen.history = order.history
    /\ f.op \in {"sellerHandoverAck", "requestRePhoto"} /\ ~order.repaid => LastOpen
    /\ f.op \in {"sellerHandoverAck", "requestRePhoto", "cancelHandover"} /\ ~order.repaid =>
         ~order.custodyHeld
    /\ f.op = "requestRePhoto" => order.rePhotoCount < MAX_REPHOTO
    /\ f.op = "sellerReturnAck" => order.returnPhotos
    /\ f.op = "shipToBuyerDirect" => ~plan.auth
    /\ f.op = "gatewayEvent" =>
         /\ f.arg \in events
         /\ f.seen.awaiting => \/ order.status = "AWAITING_PAYMENT"
                               \/ OVERLAP /\ order.status = "PAYMENT_EXPIRED"
    /\ f.op \in {"createIntent", "cancelHold"} \/ f.at \in {"void", "rowFirst", "rowLast"} =>
         Online
    /\ f.op \in {"forceRefund", "releaseEscrow"} /\ f.seen.payment # "NONE" => Online
    /\ f.op = "confirmFromMock" => plan.mock
    /\ f.op = "forceRefund" /\ f.at = "write" /\ f.seen.payment = "CAPTURED" =>
         plan.mock \/ intent = "REFUNDED"
    /\ f.op = "releaseEscrow" /\ f.at = "write" /\ f.seen.payment = "AUTHORIZED" =>
         plan.mock \/ intent = "CHARGED"
    /\ f.at \in {"captureFirst", "captureLast", "rowFirst", "rowLast"} =>
         \/ f.op \in VerdictOps /\ f.arg = "PASSED"
         \/ f.op = "confirmDelivered" /\ ~plan.auth
    /\ f.at \in {"rowFirst", "rowLast"} => Taken

\* A parcel on its way to the buyer, or what became of it, was let go by its
\* examination if it had one, unless the order was paid a second time.
ParcelOut ==
    \/ order.repaid
    \/ /\ plan.method # "MEETUP_AUTH"
       /\ order.status \in {"SHIPPED_TO_BUYER", "DISPUTED", "COMPLETED", "REFUNDED"}
       /\ plan.auth => order.verdict = "PASSED"

\* What a sweep rests on: it tests the status again when it writes, but captures
\* before that.
StillDue(f) ==
    /\ f.op = "sweepShipAutoComplete" => ParcelOut
    /\ f.at \in {"void", "rowFirst"} => Online
    /\ f.at \in {"captureFirst", "captureLast", "rowFirst", "rowLast"} =>
         f.op = "sweepShipAutoComplete" /\ f.at \in {"captureFirst", "rowFirst"}
    /\ f.at = "rowFirst" => Taken

Rests(s) == IF s = CRON THEN StillDue(inflight[s]) ELSE StillTrue(inflight[s])

NothingStale ==
    /\ OneAtATime
    /\ \A s \in Slots : inflight[s] # Idle => Rests(s)

\* The photo rounds, with what the handover starts from.
TrailFits ==
    /\ PhotoRoundsAddUp
    /\ order.status \in {"AWAITING_PAYMENT", "PAID", "PAYMENT_EXPIRED"} /\ ~order.repaid =>
         order.history = <<>>

\* The counter, and the flag by which an order completed by the flow is told.  A
\* dispute that overwrites a sweep's completion breaks both.
CreditFits ==
    ~OVERLAP =>
        /\ CreditedOnce
        /\ order.cashoutEligible /\ ~order.repaid => order.status = "COMPLETED"

HeldStatuses == {"CUSTODY", "AWAITING_BUYER_PICKUP", "COMPLETED", "REFUNDED", "DISPUTED"}

\* Who has the item, and what is known of it.
ItemFits ==
    /\ order.custodyHeld /\ ~order.repaid => order.status \in HeldStatuses
    /\ order.status = "AUTH_PASSED" => order.verdict = "PASSED"
    /\ order.status = "SHIPPED_TO_BUYER" => ParcelOut
    /\ order.repaid => plan.mock

\* The money: events under way are true of the intent, the mock posts none, and an
\* offline order has none.
MoneyFits ==
    /\ RowNeverOverstates
    /\ "HELD" \in events => intent # "OPEN"
    /\ "CHARGED" \in events => intent \in {"CHARGED", "REFUNDED"}
    /\ "REFUNDED" \in events => intent = "REFUNDED"
    /\ plan.mock => events = {}
    /\ intent = "HELD" => plan.tier # 1
    /\ ~Online => payment = "NONE" /\ intent = "NONE" /\ events = {}

DbFits == TrailFits /\ CreditFits /\ ItemFits /\ MoneyFits

SerialInv == DbFits /\ NothingStale

SInv == IInv /\ SerialInv

\* What each step does, seen from outside, when nothing overlaps.
DealStep ==
    ~OVERLAP => /\ UNCHANGED plan
                /\ D!Next \/ UNCHANGED <<DealOf(order.status), listing>>

Frozen ==
    order.status = "DISPUTED" /\ order'.status # "DISPUTED" =>
        \/ /\ order'.status \in {"COMPLETED", "REFUNDED"}
           /\ \E r \in Requests : inflight[r].op \in {"forceRefund", "releaseEscrow"}
        \/ /\ order'.status = "PAID"
           /\ plan.mock
           /\ \E r \in Requests : inflight[r].op = "confirmFromMock"

HandedOver ==
    order.custodyHeld /\ ~order'.custodyHeld /\ ~order.repaid =>
        \/ order.status = "AWAITING_BUYER_PICKUP" /\ order'.status = "COMPLETED"
        \/ order.status = "REFUNDED" /\ order.returnPhotos /\ order'.returnAck

Captured ==
    intent = "HELD" /\ intent' = "CHARGED" /\ ~order.repaid =>
        \E r \in Slots :
           \/ inflight[r].op = "releaseEscrow"
           \/ order.evidence /\ (order.verdict = "PASSED" \/ inflight[r].arg = "PASSED")

Outside == DealStep /\ Frozen /\ HandedOver /\ Captured

\* What is shown of every step.
Good == SerialInv' /\ Outside

-----------------------------------------------------------------------------
(* The busy slots.                                                         *)

\* What a step of a sweep, of the buyer at the gateway or of the clock leaves as
\* it is for the request beside it.
SweepKeeps ==
    /\ UNCHANGED plan
    /\ order'.status = order.status \/ Swept(order.status, order'.status)
    /\ order'.history = order.history /\ order'.rePhotoCount = order.rePhotoCount
    /\ order'.returnPhotos = order.returnPhotos
    /\ order'.custodyHeld => order.custodyHeld
    /\ order'.repaid = order.repaid
    /\ events \subseteq events'
    /\ ~plan.mock /\ intent \in {"CHARGED", "REFUNDED"} => intent' = intent

\* What a step of a request leaves as it is for the sweep beside it.
RequestKeeps ==
    /\ UNCHANGED plan
    /\ ParcelOut => ParcelOut'
    /\ ParcelOut /\ Taken => Taken'

\* What a step of slot r leaves as it is for the slots beside it.
Spares(r) == IF r = CRON THEN SweepKeeps ELSE RequestKeeps

\* A slot the step leaves alone still rests on what it rested on.
LEMMA RestsOn ==
  ASSUME SInv, NEW s \in Slots, inflight[s] # Idle, inflight'[s] = inflight[s],
         s = CRON => RequestKeeps,
         s # CRON => SweepKeeps /\ (OVERLAP \/ order'.status = order.status)
  PROVE  Rests(s)'
<1> DEFINE f == inflight[s]
<1>1. f' = f
  OBVIOUS
<1>2. Online' = Online
  BY DEF Online, SweepKeeps, RequestKeeps
<1>3. IF s = CRON THEN StillDue(f) ELSE StillTrue(f)
  BY DEF SInv, SerialInv, NothingStale, Rests
<1> HIDE DEF f
<1>4. CASE s = CRON
  <2>1. StillDue(f)'
    BY <1>1, <1>2, <1>3, <1>4 DEF StillDue, RequestKeeps
  <2> QED
    BY <1>4, <2>1 DEF Rests, f
<1>5. CASE s # CRON
  <2>1. StillTrue(f)
    BY <1>3, <1>5
  <2>2. StillIn(f.op) => StillIn(f.op)'
    BY <1>1, <1>5 DEF StillIn, SweepKeeps, Swept, ReadIn, Statuses
  <2>3. LastOpen => LastOpen'
    BY <1>5 DEF LastOpen, SweepKeeps
  <2>4. Taken => Taken'
    BY <1>5 DEF Taken, SweepKeeps
  <2>5. StillTrue(f)'
    BY <1>1, <1>2, <1>5, <2>1, <2>2, <2>3, <2>4 DEF StillTrue, SweepKeeps, Swept
  <2> QED
    BY <1>5, <2>5 DEF Rests, f
<1> QED
  BY <1>4, <1>5

\* A step of one slot: the others rest on what they rested on.
LEMMA OthersRest ==
  ASSUME SInv, OneRequest, NEW r \in Slots, inflight[r] # Idle, Spares(r),
         \A s \in Slots : s # r => inflight'[s] = inflight[s]
  PROVE  /\ OneAtATime'
         /\ \A s \in Slots : s # r /\ inflight'[s] # Idle => Rests(s)'
<1>1. ASSUME NEW s \in Slots, s # r, inflight'[s] # Idle
      PROVE  Rests(s)' /\ OVERLAP /\ (r = CRON \/ s = CRON)
  <2>1. inflight[s] # Idle /\ inflight'[s] = inflight[s]
    BY <1>1
  <2>2. OVERLAP /\ (r = CRON \/ s = CRON)
    BY <1>1, <2>1 DEF SInv, SerialInv, NothingStale, OneAtATime
  <2>3. s = CRON <=> r # CRON
    BY <1>1, <2>2
  <2>4. Rests(s)'
    BY <1>1, <2>1, <2>2, <2>3, RestsOn DEF Spares
  <2> QED
    BY <2>2, <2>4
<1>2. OneAtATime'
  <2> SUFFICES ASSUME NEW s \in Slots, NEW t \in Slots, inflight'[s] # Idle,
                      inflight'[t] # Idle, s # t
               PROVE  OVERLAP /\ (s = CRON \/ t = CRON)
    BY DEF OneAtATime
  <2>1. CASE s = r \/ t = r
    BY <1>1, <2>1
  <2>2. CASE s # r /\ t # r
    BY <2>2 DEF SInv, SerialInv, NothingStale, OneAtATime
  <2> QED
    BY <2>1, <2>2
<1> QED
  BY <1>1, <1>2

\* When a request ends.
LEMMA Done ==
  ASSUME SInv, OneRequest, NEW r \in Slots, inflight[r] # Idle, Finish(r), Spares(r)
  PROVE  NothingStale'
<1>1. inflight'[r] = Idle /\ \A s \in Slots : s # r => inflight'[s] = inflight[s]
  BY DEF SInv, IInv, TypeOK, Finish
<1> QED
  BY <1>1, OthersRest DEF NothingStale

\* When it goes on, what it rests on must still be true.
LEMMA Onward ==
  ASSUME SInv, OneRequest, NEW r \in Slots, inflight[r] # Idle, NEW step, GoOn(r, step), Spares(r),
         Rests(r)'
  PROVE  NothingStale'
<1>1. \A s \in Slots : s # r => inflight'[s] = inflight[s]
  BY DEF SInv, IInv, TypeOK, GoOn
<1> QED
  BY <1>1, OthersRest DEF NothingStale

\* The rows as they are.
LEMMA RowsKept ==
  ASSUME SInv, UNCHANGED <<plan, order, credits>>
  PROVE  (TrailFits /\ CreditFits /\ ItemFits)'
BY DEF SInv, SerialInv, DbFits, TrailFits, CreditFits, ItemFits, PhotoRoundsAddUp, CreditedOnce,
       ParcelOut

\* The money as it is.
LEMMA MoneyKept ==
  ASSUME SInv, UNCHANGED <<plan, payment, intent, events>>
  PROVE  MoneyFits'
BY DEF SInv, SerialInv, DbFits, MoneyFits, RowNeverOverstates, Online

\* A step that moves neither the order nor the listing nor a hold.
LEMMA Unseen ==
  ASSUME UNCHANGED <<plan, order, listing>>,
         UNCHANGED intent \/ intent # "HELD" \/ intent' # "CHARGED"
  PROVE  Outside
BY DEF Outside, DealStep, Frozen, HandedOver, Captured

\* A step that leaves plan and order alone takes nothing from the slots beside it.
LEMMA SparedRows ==
  ASSUME NEW r, UNCHANGED <<plan, order>>,
         r = CRON => /\ events \subseteq events'
                     /\ ~plan.mock /\ intent \in {"CHARGED", "REFUNDED"} => intent' = intent,
         r # CRON => (ParcelOut /\ Taken => Taken')
  PROVE  Spares(r)
BY DEF Spares, SweepKeeps, RequestKeeps, ParcelOut

\* A request that ends without having changed anything.
LEMMA Nothing ==
  ASSUME SInv, OneRequest, NEW r \in Slots, inflight[r] # Idle, Finish(r), UNCHANGED db
  PROVE  Good
<1>1. UNCHANGED <<plan, order, listing, payment, intent, events, credits>>
  BY DEF db
<1>2. Spares(r)
  BY <1>1, SparedRows DEF Taken
<1> QED
  BY <1>1, <1>2, RowsKept, MoneyKept, Unseen, Done DEF Good, SerialInv, DbFits

\* A read is accepted beside no other but a sweep's, and what it saw is true.
LEMMA Begun ==
  ASSUME SInv, OneRequest, NEW r \in Slots, NEW op, NEW at, NEW arg, NEW seen,
         StartWith(r, op, at, arg, seen),
         IF r = CRON THEN StillDue([op |-> op, at |-> at, arg |-> arg, seen |-> seen])
                     ELSE StillTrue([op |-> op, at |-> at, arg |-> arg, seen |-> seen])
  PROVE  Good
<1> DEFINE f == [op |-> op, at |-> at, arg |-> arg, seen |-> seen]
<1>1. UNCHANGED <<plan, order, listing, payment, intent, events, credits, clock>>
  BY DEF StartWith, db
<1>2. DbFits' /\ Outside
  BY <1>1, RowsKept, MoneyKept, Unseen DEF DbFits
<1>3. /\ inflight'[r] = f
      /\ \A s \in Slots : s # r => inflight'[s] = inflight[s]
  BY DEF StartWith, SInv, IInv, TypeOK
<1>4. IF r = CRON THEN StillDue(f)' ELSE StillTrue(f)'
  <2>1. /\ Online' = Online /\ ParcelOut' = ParcelOut /\ LastOpen' = LastOpen
        /\ Taken' = Taken
    BY <1>1 DEF Online, ParcelOut, LastOpen, Taken
  <2>2. StillIn(f.op)' = StillIn(f.op)
    BY <1>1 DEF StillIn
  <2> HIDE DEF f
  <2> QED
    BY <1>1, <2>1, <2>2 DEF StillTrue, StillDue, f
<1>5. Rests(r)'
  BY <1>3, <1>4 DEF Rests
<1>6. ASSUME NEW s \in Slots, s # r, inflight'[s] # Idle
      PROVE  Rests(s)' /\ OVERLAP /\ (r = CRON \/ s = CRON)
  <2>1. inflight[s] # Idle /\ inflight'[s] = inflight[s]
    BY <1>3, <1>6
  <2>2. OVERLAP
    BY <2>1 DEF StartWith
  <2>3. SweepKeeps /\ RequestKeeps
    BY <1>1 DEF SweepKeeps, RequestKeeps, ParcelOut, Taken
  <2>4. r = CRON \/ s = CRON
    BY <1>6, <2>2 DEF OneRequest, Slots
  <2> QED
    BY <2>1, <2>2, <2>3, <2>4, RestsOn
<1>7. OneAtATime'
  <2> SUFFICES ASSUME NEW s \in Slots, NEW t \in Slots, inflight'[s] # Idle,
                      inflight'[t] # Idle, s # t
               PROVE  OVERLAP /\ (s = CRON \/ t = CRON)
    BY DEF OneAtATime
  <2>1. CASE s = r \/ t = r
    BY <1>6, <2>1
  <2>2. CASE s # r /\ t # r
    BY <1>3, <2>2 DEF SInv, SerialInv, NothingStale, OneAtATime
  <2> QED
    BY <2>1, <2>2
<1>8. NothingStale'
  BY <1>5, <1>6, <1>7 DEF NothingStale
<1> QED
  BY <1>2, <1>8 DEF Good, SerialInv

\* A request's slot is not the sweeps'.
LEMMA PartySlot ==
  ASSUME NEW r \in Requests
  PROVE  r \in Slots /\ r # CRON
BY OrderFlowAssumption DEF Slots

\* An operation whose write rests on the status alone.
LEMMA PlainStart ==
  ASSUME SInv, OneRequest, NEW r \in Requests, NEW op, Start(r, op), order.status \in ReadIn(op),
         op = "cancelHandover" /\ ~order.repaid => ~order.custodyHeld,
         op \notin {"authReceiveAck", "sellerHandoverAck", "requestRePhoto", "sellerReturnAck",
                   "shipToBuyerDirect", "gatewayEvent", "createIntent", "cancelHold",
                   "confirmFromMock", "forceRefund", "releaseEscrow"}
  PROVE  Good
<1>1. StillTrue([op |-> op, at |-> "write", arg |-> "NONE", seen |-> Unread])
  BY DEF StillTrue, StillIn
<1> QED
  BY <1>1, PartySlot, Begun DEF Start

\* An operation that may go on to a capture rests on what allows the capture.
LEMMA CapturingStart ==
  ASSUME SInv, OneRequest, NEW r \in Requests, NEW op, NEW at \in {"write", "captureFirst"}, NEW v,
         StartWith(r, op, at, v, Unread), order.status \in ReadIn(op),
         op \in {"submitVerdict", "submitVerdictMeetup", "confirmDelivered"},
         at = "captureFirst" =>
           \/ op = "submitVerdict" /\ v = "PASSED"
           \/ op = "confirmDelivered" /\ ~plan.auth
  PROVE  Good
<1>1. StillTrue([op |-> op, at |-> at, arg |-> v, seen |-> Unread])
  BY DEF StillTrue, StillIn, VerdictOps
<1> QED
  BY <1>1, PartySlot, Begun

-----------------------------------------------------------------------------
(* Writes.                                                                 *)

\* What a write of the order row has to ensure.
RowGood ==
    /\ (TrailFits /\ CreditFits /\ ItemFits)'
    /\ DealStep /\ Frozen /\ HandedOver
    /\ ParcelOut => ParcelOut'

\* A last write that leaves the money alone.
LEMMA Ends ==
  ASSUME SInv, OneRequest, NEW r \in Slots, inflight[r] # Idle, Finish(r), RowGood,
         r = CRON => SweepKeeps,
         UNCHANGED <<plan, payment, intent, events>>
  PROVE  Good
BY MoneyKept, Done DEF Good, SerialInv, DbFits, Outside, RowGood, Captured, Spares, RequestKeeps,
       Taken

\* A request about to write is one, and its facts hold.
LEMMA Writing ==
  ASSUME SInv, NEW r \in Requests, NEW op, NEW step, At(r, op, step), op # "idle"
  PROVE  /\ inflight[r] # Idle /\ StillTrue(inflight[r])
         /\ inflight[r].op = op /\ inflight[r].at = step
BY PartySlot DEF At, Idle, SInv, SerialInv, NothingStale, Rests

\* What it read of the status in particular.
LEMMA Reads ==
  ASSUME SInv, NEW r \in Requests, NEW op, NEW step, At(r, op, step), op # "idle",
         step \notin {"captureLast", "rowLast"}
  PROVE  inflight[r] # Idle /\ StillIn(op)
BY Writing DEF StillTrue

\* What the checks of its delivery method left it.
LEMMA Fitting ==
  ASSUME SInv, NEW r \in Slots, NEW op, NEW step, At(r, op, step)
  PROVE  OpFits(op)
BY DEF At, SInv, IInv, SlotsFit

\* A sweep about to write.
LEMMA Sweeping ==
  ASSUME SInv, NEW op, NEW step, At(CRON, op, step), op # "idle"
  PROVE  inflight[CRON] # Idle /\ StillDue(inflight[CRON])
BY DEF At, Idle, SInv, SerialInv, NothingStale, Rests, Slots

\* Who never takes the item to the shop.
LEMMA NotAtTheShop ==
  ASSUME SInv, order.status = "AUTH_PASSED" \/ ~plan.auth
  PROVE  plan.method # "MEETUP_AUTH"
BY PlanIsLegal DEF SInv, IInv, LegalPlan, RowsFit, FlowMatchesMethod, ExamStatuses

\* A move of an order in progress to another status of the flow, or to DISPUTED.
LEMMA Moves ==
  ASSUME SInv, order.status # "DISPUTED",
         order'.status \in Statuses \ {"COMPLETED", "REFUNDED", "PAYMENT_EXPIRED",
                                      "AWAITING_PAYMENT", "SELLER_ACK_PENDING"},
         order'.history = order.history, order'.rePhotoCount = order.rePhotoCount,
         order'.custodyHeld = order.custodyHeld,
         order'.cashoutEligible = order.cashoutEligible, order'.repaid = order.repaid,
         order.status \in {"COMPLETED", "REFUNDED"} => OVERLAP,
         order.status \in {"COMPLETED", "REFUNDED", "SHIPPED_TO_BUYER"} =>
           order'.status = "DISPUTED" /\ order'.verdict = order.verdict,
         order'.status \notin HeldStatuses => order.status \notin HeldStatuses,
         order.status = "PAYMENT_EXPIRED" => OVERLAP \/ order'.status = "DISPUTED",
         order'.status = "PAID" => order.status \in {"AWAITING_PAYMENT", "PAYMENT_EXPIRED"},
         order'.status = "HANDOVER_TO_AUTH" => order.status = "PAID",
         order'.status = "AUTH_PASSED" => order'.verdict = "PASSED",
         order'.status = "SHIPPED_TO_BUYER" =>
           plan.method # "MEETUP_AUTH" /\ (plan.auth => order'.verdict = "PASSED"),
         UNCHANGED <<plan, listing, credits>>
  PROVE  RowGood
<1>1. order.history \in Seq(Rounds) /\ order.rePhotoCount \in Nat
  BY DEF SInv, IInv, TypeOK, OrderRow
<1>2. TrailFits'
  BY <1>1 DEF SInv, SerialInv, DbFits, TrailFits, PhotoRoundsAddUp
<1>3. CreditFits' /\ ItemFits'
  BY DEF SInv, SerialInv, DbFits, CreditFits, CreditedOnce, ItemFits, HeldStatuses, ParcelOut
<1>4. DealStep
  BY DEF DealStep, DealOf, D!Next, D!Freeze
<1>5. Frozen /\ HandedOver /\ (ParcelOut => ParcelOut')
  BY DEF Frozen, HandedOver, ParcelOut
<1> QED
  BY <1>2, <1>3, <1>4, <1>5 DEF RowGood

\* A write that leaves the status, and all that is said of the row, alone.
LEMMA Stays ==
  ASSUME SInv, order'.status = order.status,
         order'.history = order.history, order'.rePhotoCount = order.rePhotoCount,
         order'.custodyHeld = order.custodyHeld \/
           (~order'.custodyHeld /\ order.status = "REFUNDED" /\ order.returnPhotos
              /\ order'.returnAck),
         order'.cashoutEligible = order.cashoutEligible, order'.verdict = order.verdict,
         order'.repaid = order.repaid,
         UNCHANGED <<plan, listing, credits>>
  PROVE  RowGood
<1>1. order.history \in Seq(Rounds) /\ order.rePhotoCount \in Nat
  BY DEF SInv, IInv, TypeOK, OrderRow
<1>2. TrailFits'
  BY <1>1 DEF SInv, SerialInv, DbFits, TrailFits, PhotoRoundsAddUp
<1>3. CreditFits' /\ ItemFits'
  BY DEF SInv, SerialInv, DbFits, CreditFits, CreditedOnce, ItemFits, HeldStatuses, ParcelOut
<1>4. DealStep /\ Frozen /\ HandedOver /\ (ParcelOut => ParcelOut')
  BY DEF DealStep, Frozen, HandedOver, ParcelOut
<1> QED
  BY <1>2, <1>3, <1>4 DEF RowGood

\* The end of an order: completed and counted, or taken back.  Only beside a
\* sweep can it have ended already.
LEMMA Closes ==
  ASSUME SInv, order.status \in {"COMPLETED", "REFUNDED"} => OVERLAP,
         order'.repaid = order.repaid,
         order'.history = order.history, order'.rePhotoCount = order.rePhotoCount,
         order'.custodyHeld = order.custodyHeld \/
           (order.status = "AWAITING_BUYER_PICKUP" /\ order'.status = "COMPLETED") \/
           ((order.repaid \/ ~order.custodyHeld) /\ ~order'.custodyHeld),
         \/ order'.status = "COMPLETED" /\ listing' = "SOLD"
         \/ order'.status = "REFUNDED" /\ listing' = "ACTIVE",
         \/ /\ order'.status = "COMPLETED" /\ order'.cashoutEligible
            /\ credits' = Credit
         \/ order'.cashoutEligible = order.cashoutEligible /\ credits' = credits,
         order'.verdict = order.verdict \/ order.status \in {"AUTHENTICATING", "CUSTODY"},
         order.status = "DISPUTED" =>
           \E r \in Requests : inflight[r].op \in {"forceRefund", "releaseEscrow"},
         UNCHANGED plan
  PROVE  RowGood
<1>1. order.history \in Seq(Rounds) /\ order.rePhotoCount \in Nat
  BY DEF SInv, IInv, TypeOK, OrderRow
<1>2. TrailFits'
  BY <1>1 DEF SInv, SerialInv, DbFits, TrailFits, PhotoRoundsAddUp
<1>3. ~OVERLAP /\ ~order.repaid => credits = 0 /\ order.cashoutEligible = FALSE
  BY DEF SInv, SerialInv, DbFits, CreditFits, CreditedOnce, IInv, TypeOK, OrderRow
<1>4. CreditFits'
  BY <1>3 DEF CreditFits, CreditedOnce, Credit, MAX_CREDITS
<1>5. ItemFits'
  BY DEF ItemFits, HeldStatuses, SInv, SerialInv, DbFits
<1>6. DealStep
  BY DEF DealStep, DealOf, D!Next, D!Sell, D!Return, D!Ended
<1>7. Frozen /\ HandedOver /\ (ParcelOut => ParcelOut')
  BY DEF Frozen, HandedOver, ParcelOut
<1> QED
  BY <1>2, <1>4, <1>5, <1>6, <1>7 DEF RowGood

\* The completion transaction.
LEMMA Completes ==
  ASSUME SInv, OneRequest, NEW r \in Slots, inflight[r] # Idle, Finish(r), NEW row \in OrderRow,
         CompleteTx(row), order.status \notin {"REFUNDED", "DISPUTED"},
         order.status = "COMPLETED" => OVERLAP,
         r = CRON => order.status = "SHIPPED_TO_BUYER",
         row.history = order.history, row.rePhotoCount = order.rePhotoCount,
         row.returnPhotos = order.returnPhotos, row.repaid = order.repaid,
         row.verdict = order.verdict \/ order.status = "AUTHENTICATING",
         row.custodyHeld = order.custodyHeld \/ order.status = "AWAITING_BUYER_PICKUP"
  PROVE  Good
<1>1. /\ order'.status = "COMPLETED" /\ order'.cashoutEligible
      /\ order'.history = row.history /\ order'.rePhotoCount = row.rePhotoCount
      /\ order'.custodyHeld = row.custodyHeld /\ order'.verdict = row.verdict
      /\ order'.returnPhotos = row.returnPhotos /\ order'.repaid = row.repaid
  BY DEF CompleteTx, OrderRow
<1>2. RowGood
  BY <1>1, Closes DEF CompleteTx
<1>3. r = CRON => SweepKeeps
  BY <1>1 DEF CompleteTx, SweepKeeps, Swept
<1> QED
  BY <1>2, <1>3, Ends DEF CompleteTx

\* The cancellation transaction.
LEMMA Refunds ==
  ASSUME SInv, OneRequest, NEW r \in Slots, inflight[r] # Idle, Finish(r), NEW row \in OrderRow,
         RefundTx(row), order.status \notin {"COMPLETED", "DISPUTED"},
         order.status = "REFUNDED" => OVERLAP,
         r = CRON => order.status = "SELLER_ACK_PENDING",
         row.history = order.history, row.rePhotoCount = order.rePhotoCount,
         row.returnPhotos = order.returnPhotos, row.repaid = order.repaid,
         row.verdict = order.verdict \/ order.status = "CUSTODY",
         row.custodyHeld = order.custodyHeld \/
           ((order.repaid \/ ~order.custodyHeld) /\ ~row.custodyHeld),
         row.cashoutEligible = order.cashoutEligible
  PROVE  Good
<1>1. /\ order'.status = "REFUNDED" /\ order'.cashoutEligible = order.cashoutEligible
      /\ order'.history = row.history /\ order'.rePhotoCount = row.rePhotoCount
      /\ order'.custodyHeld = row.custodyHeld /\ order'.verdict = row.verdict
      /\ order'.returnPhotos = row.returnPhotos /\ order'.repaid = row.repaid
  BY DEF RefundTx, OrderRow
<1>2. RowGood
  BY <1>1, Closes DEF RefundTx
<1>3. r = CRON => SweepKeeps
  BY <1>1 DEF RefundTx, SweepKeeps, Swept
<1> QED
  BY <1>2, <1>3, Ends DEF RefundTx

\* A write of the status alone.
LEMMA StatusMoves ==
  ASSUME SInv, OneRequest, NEW r \in Requests, inflight[r] # Idle, Finish(r), NEW s,
         order' = [order EXCEPT !.status = s],
         UNCHANGED <<plan, listing, payment, intent, events, credits>>,
         order.status # "DISPUTED",
         order.status \in {"COMPLETED", "REFUNDED"} => OVERLAP,
         s \in Statuses \ {"COMPLETED", "REFUNDED", "PAYMENT_EXPIRED", "AWAITING_PAYMENT",
                          "SELLER_ACK_PENDING", "AUTH_PASSED"},
         s # "DISPUTED" => order.status \notin HeldStatuses \cup {"SHIPPED_TO_BUYER"},
         s # "DISPUTED" /\ order.status = "PAYMENT_EXPIRED" => OVERLAP,
         s = "PAID" => order.status \in {"AWAITING_PAYMENT", "PAYMENT_EXPIRED"},
         s = "HANDOVER_TO_AUTH" => order.status = "PAID",
         s = "SHIPPED_TO_BUYER" => order.status = "AUTH_PASSED" \/ ~plan.auth
  PROVE  Good
<1>1. /\ order'.status = s /\ order'.history = order.history
      /\ order'.rePhotoCount = order.rePhotoCount /\ order'.custodyHeld = order.custodyHeld
      /\ order'.cashoutEligible = order.cashoutEligible /\ order'.verdict = order.verdict
      /\ order'.repaid = order.repaid
  BY DEF SInv, IInv, TypeOK, OrderRow
<1>2. order.status = "AUTH_PASSED" => order.verdict = "PASSED"
  BY DEF SInv, SerialInv, DbFits, ItemFits
<1>3. RowGood
  BY <1>1, <1>2, Moves, NotAtTheShop DEF HeldStatuses
<1> QED
  BY <1>3, Ends, PartySlot

-----------------------------------------------------------------------------
(* The handlers.                                                           *)

\* What is known of the order row when a request writes.
LEMMA Row ==
  ASSUME SInv
  PROVE  /\ order \in OrderRow
         /\ order.custodyHeld /\ ~order.repaid => order.status \in HeldStatuses
BY DEF SInv, IInv, TypeOK, SerialInv, DbFits, ItemFits

\* Checkout and the buyer's own payment steps.
LEMMA CheckoutGood ==
  ASSUME SInv, OneRequest, NEW r \in Requests,
         ConfirmReview(r) \/ MarkPaid(r) \/ CreateIntent(r)
  PROVE  Good
<1> r \in Slots /\ r # CRON
  BY PartySlot
<1>1. CASE ConfirmReview(r)
  <2>1. CASE order.status = "AWAITING_PAYMENT" /\ Start(r, "confirmReview")
    BY <2>1, PlainStart DEF ReadIn
  <2>2. CASE /\ At(r, "confirmReview", "write")
             /\ listing' = IF listing = "ACTIVE" THEN "RESERVED" ELSE listing
             /\ Finish(r)
             /\ UNCHANGED <<plan, order, payment, intent, events, credits>>
    <3>1. inflight[r] # Idle /\ (order.status = "AWAITING_PAYMENT" \/ OVERLAP)
      BY <2>2, Reads DEF ReadIn, StillIn
    <3>2. DealStep
      BY <2>2, <3>1 DEF DealStep, DealOf, D!Next, D!Reserve
    <3>3. RowGood
      BY <2>2, <3>2, RowsKept DEF RowGood, Frozen, HandedOver, ParcelOut
    <3> QED
      BY <2>2, <3>1, <3>3, Ends
  <2> QED
    BY <1>1, <2>1, <2>2 DEF ConfirmReview, MayConfirmReview
<1>2. CASE MarkPaid(r)
  <2>1. CASE order.status = "AWAITING_PAYMENT" /\ Start(r, "markPaid")
    BY <2>1, PlainStart DEF ReadIn
  <2>2. CASE At(r, "markPaid", "write") /\ SetStatus("PAID") /\ Finish(r)
    <3>1. /\ inflight[r] # Idle
          /\ order.status = "AWAITING_PAYMENT" \/ (OVERLAP /\ order.status = "PAYMENT_EXPIRED")
      BY <2>2, Reads DEF ReadIn, StillIn, Swept
    <3> QED
      BY <2>2, <3>1, StatusMoves DEF SetStatus, SetOrder, HeldStatuses, Statuses
  <2> QED
    BY <1>2, <2>1, <2>2 DEF MarkPaid, MayMarkPaid
<1>3. CASE CreateIntent(r)
  <2>1. CASE order.status = "AWAITING_PAYMENT" /\ Online /\ Start(r, "createIntent")
    <3>1. StillTrue([op |-> "createIntent", at |-> "write", arg |-> "NONE", seen |-> Unread])
      BY <2>1 DEF StillTrue, StillIn, ReadIn
    <3> QED
      BY <2>1, <3>1, Begun DEF Start
  <2>2. CASE /\ At(r, "createIntent", "write")
             /\ payment' = "PENDING_AUTH" /\ intent' = "OPEN" /\ events' = {}
             /\ Finish(r) /\ UNCHANGED <<plan, order, listing, credits, clock>>
    <3>1. inflight[r] # Idle /\ Online
      BY <2>2, Writing DEF StillTrue
    <3>2. MoneyFits'
      BY <2>2, <3>1 DEF MoneyFits, RowNeverOverstates, Online
    <3>3. order.status \in {"AWAITING_PAYMENT", "PAYMENT_EXPIRED"}
      BY <2>2, Reads DEF StillIn, ReadIn, Swept
    <3>4. ParcelOut => Taken'
      BY <2>2, <3>3 DEF ParcelOut, Taken, SInv, SerialInv, DbFits, ItemFits
    <3> QED
      BY <2>2, <3>1, <3>2, <3>4, RowsKept, Unseen, SparedRows, Done
         DEF Good, SerialInv, DbFits
  <2> QED
    BY <1>3, <2>1, <2>2 DEF CreateIntent, MayCreateIntent
<1> QED
  BY <1>1, <1>2, <1>3

\* Cancelling at the gateway never makes an event or the row untrue.
LEMMA VoidFits ==
  ASSUME SInv, TryVoid, Online, payment' \in {payment, "CANCELLED"}, UNCHANGED plan
  PROVE  MoneyFits'
<1>1. \/ intent' = intent
      \/ intent' = "CANCELED" /\ (intent \in {"CHARGED", "REFUNDED"} => plan.mock)
  BY DEF TryVoid, Voided
<1>2. events' \subseteq events \cup {"CANCELED"} /\ (plan.mock => events' = events)
  BY DEF TryVoid, Posted
<1> QED
  BY <1>1, <1>2 DEF SInv, SerialInv, DbFits, MoneyFits, RowNeverOverstates, Online

\* A cancellation that goes on to its next step.
LEMMA CancelsOn ==
  ASSUME SInv, OneRequest, NEW r \in Requests, inflight[r] # Idle, inflight[r].op = "cancelHold",
         Online, NEW step \in {"row", "write"}, GoOn(r, step),
         UNCHANGED <<plan, order, listing, credits>>,
         UNCHANGED intent \/ intent # "HELD" \/ intent' # "CHARGED", Taken => Taken'
  PROVE  NothingStale' /\ Outside /\ (TrailFits /\ CreditFits /\ ItemFits)'
<1> r \in Slots /\ r # CRON
  BY PartySlot
<1>1. inflight'[r].op = "cancelHold" /\ inflight'[r].at = step
  BY DEF SInv, IInv, TypeOK, Flight, GoOn
<1>2. Online' /\ order'.status \in ReadIn("cancelHold")
  BY Row DEF Online, ReadIn, OrderRow
<1>3. Rests(r)'
  BY <1>1, <1>2 DEF StillTrue, StillIn, Rests
<1> QED
  BY <1>3, SparedRows, Onward, RowsKept, Unseen

\* The mock confirms, or declines, whatever the order's status.
LEMMA MockGood ==
  ASSUME SInv, OneRequest, NEW r \in Requests, ConfirmFromMock(r)
  PROVE  Good
<1> r \in Slots /\ r # CRON
  BY PartySlot
<1> DEFINE op == "confirmFromMock"
<1>1. CASE plan.mock /\ StartWith(r, op, "gateway", "NONE", Unread)
  <2>1. StillTrue([op |-> op, at |-> "gateway", arg |-> "NONE", seen |-> Unread])
    BY <1>1, Row DEF StillTrue, StillIn, ReadIn, OrderRow
  <2> QED
    BY <1>1, <2>1, Begun
<1>2. ASSUME NEW step, At(r, op, step)
      PROVE  inflight[r] # Idle /\ plan.mock /\ Online
  <2>1. inflight[r] # Idle /\ plan.mock
    BY <1>2, Writing DEF StillTrue
  <2> QED
    BY <2>1, PlanIsLegal DEF LegalPlan, Online, SInv, IInv
<1>3. CASE /\ At(r, op, "gateway")
           /\ \/ intent' = Paid1 /\ GoOn(r, "write")
              \/ intent' = "OPEN" /\ GoOn(r, "declined")
           /\ UNCHANGED <<plan, order, listing, payment, events, credits, clock>>
  <2>1. inflight[r] # Idle /\ plan.mock /\ Online
    BY <1>2, <1>3
  <2>2. /\ MoneyFits'
        /\ UNCHANGED intent \/ intent # "HELD" \/ intent' # "CHARGED"
    BY <1>3, <2>1 DEF Paid1, SInv, SerialInv, DbFits, MoneyFits, RowNeverOverstates, Online
  <2>3. PICK step \in {"write", "declined"} : GoOn(r, step)
    BY <1>3
  <2>4. inflight'[r].op = op /\ inflight'[r].at = step
    BY <1>3, <2>3 DEF SInv, IInv, TypeOK, Flight, GoOn, At
  <2>5. plan'.mock /\ Taken' /\ order'.status \in ReadIn(op)
    BY <1>3, <2>1, Row DEF ReadIn, OrderRow, Taken
  <2>6. Rests(r)'
    BY <2>4, <2>5 DEF StillTrue, StillIn, Rests
  <2> QED
    BY <1>3, <2>1, <2>2, <2>3, <2>5, <2>6, SparedRows, Onward, RowsKept, Unseen
       DEF Good, SerialInv, DbFits
<1>4. CASE /\ At(r, op, "declined") /\ payment' = "FAILED" /\ Finish(r)
           /\ UNCHANGED <<plan, order, listing, intent, events, credits, clock>>
  <2>1. inflight[r] # Idle /\ plan.mock /\ Online
    BY <1>2, <1>4
  <2>2. MoneyFits'
    BY <1>4, <2>1 DEF SInv, SerialInv, DbFits, MoneyFits, RowNeverOverstates, Online
  <2> QED
    BY <1>4, <2>1, <2>2, SparedRows, Done, RowsKept, Unseen DEF Good, SerialInv, DbFits, Taken
<1>5. CASE /\ At(r, op, "write")
           /\ payment' = RowAfter[Paid1]
           /\ order' = [order EXCEPT !.status = "PAID", !.escrowHeld = TRUE,
                         !.repaid = @ \/ order.status \notin {"AWAITING_PAYMENT", "PAID"}]
           /\ Finish(r)
           /\ UNCHANGED <<plan, listing, intent, events, credits, clock>>
  <2>1. inflight[r] # Idle /\ plan.mock /\ Online /\ inflight[r].op = op
    BY <1>2, <1>5 DEF At
  <2>2. MoneyFits'
    BY <1>5, <2>1 DEF SInv, SerialInv, DbFits, MoneyFits, RowNeverOverstates, Online
  <2>3. /\ order'.status = "PAID" /\ order'.history = order.history
        /\ order'.rePhotoCount = order.rePhotoCount
        /\ order'.custodyHeld = order.custodyHeld
        /\ order'.cashoutEligible = order.cashoutEligible
        /\ order'.repaid = (order.repaid \/ order.status \notin {"AWAITING_PAYMENT", "PAID"})
    BY <1>5, Row DEF OrderRow
  <2>4. order.rePhotoCount \in Nat /\ order.history \in Seq(Rounds)
    BY Row DEF OrderRow
  <2>5. (TrailFits /\ CreditFits /\ ItemFits)'
    <3>1. TrailFits'
      BY <1>5, <2>3, <2>4 DEF SInv, SerialInv, DbFits, TrailFits, PhotoRoundsAddUp
    <3>2. CreditFits'
      BY <1>5, <2>3 DEF SInv, SerialInv, DbFits, CreditFits, CreditedOnce
    <3>3. ItemFits'
      BY <1>5, <2>1, <2>3 DEF SInv, SerialInv, DbFits, ItemFits, HeldStatuses
    <3> QED
      BY <3>1, <3>2, <3>3
  <2>6. DealStep
    BY <1>5, <2>1, <2>3 DEF DealStep, DealOf, D!Next, D!Reopen
  <2>7. Frozen /\ HandedOver /\ Captured
    BY <1>5, <2>1, <2>3 DEF Frozen, HandedOver, Captured
  <2>8. RequestKeeps
    BY <1>5, <2>1, <2>3 DEF RequestKeeps, ParcelOut, Taken
  <2> QED
    BY <1>5, <2>1, <2>2, <2>5, <2>6, <2>7, <2>8, Done DEF Good, SerialInv, DbFits, Outside, Spares
<1> QED
  BY <1>1, <1>3, <1>4, <1>5 DEF ConfirmFromMock

\* Webhooks and the buyer's cancellation.
LEMMA GatewayGood ==
  ASSUME SInv, OneRequest, NEW r \in Requests, GatewayEvent(r) \/ CancelHold(r)
  PROVE  Good
<1> r \in Slots /\ r # CRON
  BY PartySlot
<1>1. CASE GatewayEvent(r)
  <2>1. ASSUME NEW e \in events,
               StartWith(r, "gatewayEvent", "write", e,
                         [Unread EXCEPT !.awaiting = /\ e \in {"HELD", "CHARGED"}
                                                     /\ order.status = "AWAITING_PAYMENT"])
        PROVE  Good
    <3> DEFINE seen == [Unread EXCEPT !.awaiting = /\ e \in {"HELD", "CHARGED"}
                                                   /\ order.status = "AWAITING_PAYMENT"]
    <3>1. seen.awaiting => order.status = "AWAITING_PAYMENT"
      BY DEF Unread
    <3>2. order.status \in ReadIn("gatewayEvent")
      BY Row DEF ReadIn, OrderRow
    <3> HIDE DEF seen
    <3>3. StillTrue([op |-> "gatewayEvent", at |-> "write", arg |-> e, seen |-> seen])
      BY <3>1, <3>2 DEF StillTrue, StillIn
    <3> QED
      BY <2>1, <3>3, Begun DEF seen
  <2>2. CASE /\ At(r, "gatewayEvent", "write")
             /\ payment' = RowAfter[inflight[r].arg]
             /\ order' = IF inflight[r].seen.awaiting
                           THEN [order EXCEPT !.status = "PAID", !.escrowHeld = TRUE]
                           ELSE order
             /\ Finish(r)
             /\ UNCHANGED <<plan, listing, intent, events, credits, clock>>
    <3>1. /\ inflight[r] # Idle /\ inflight[r].arg \in events
          /\ inflight[r].seen.awaiting =>
               order.status = "AWAITING_PAYMENT" \/ (OVERLAP /\ order.status = "PAYMENT_EXPIRED")
      BY <2>2, Writing DEF StillTrue
    <3>2. inflight[r].arg \in Events
      BY <3>1 DEF SInv, IInv, TypeOK
    <3>3. MoneyFits'
      BY <2>2, <3>1, <3>2
         DEF RowAfter, Events, SInv, SerialInv, DbFits, MoneyFits, RowNeverOverstates, Online
    <3>4. RowGood
      <4>1. CASE inflight[r].seen.awaiting
        <5>1. order' = [order EXCEPT !.status = "PAID", !.escrowHeld = TRUE]
          BY <2>2, <4>1
        <5>2. /\ order'.status = "PAID" /\ order'.history = order.history
              /\ order'.rePhotoCount = order.rePhotoCount
              /\ order'.custodyHeld = order.custodyHeld
              /\ order'.cashoutEligible = order.cashoutEligible
              /\ order'.repaid = order.repaid
          BY <5>1, Row DEF OrderRow
        <5> QED
          BY <2>2, <3>1, <4>1, <5>2, Moves DEF Statuses, HeldStatuses
      <4>2. CASE ~inflight[r].seen.awaiting
        BY <2>2, <4>2, Stays
      <4> QED
        BY <4>1, <4>2
    <3> QED
      BY <2>2, <3>1, <3>3, <3>4, Done
         DEF Good, SerialInv, DbFits, Outside, RowGood, Captured, Spares, RequestKeeps, Taken
  <2> QED
    BY <1>1, <2>1, <2>2 DEF GatewayEvent
<1>2. CASE CancelHold(r)
  <2>1. ASSUME Online, NEW at \in {"void", "write"}, StartWith(r, "cancelHold", at, "NONE", Unread)
        PROVE  Good
    <3>1. StillTrue([op |-> "cancelHold", at |-> at, arg |-> "NONE", seen |-> Unread])
      BY <2>1, Row DEF StillTrue, StillIn, ReadIn, OrderRow
    <3> QED
      BY <2>1, <3>1, Begun
  <2>2. CASE /\ At(r, "cancelHold", "void") /\ TryVoid /\ GoOn(r, "row")
             /\ UNCHANGED <<plan, order, listing, payment, credits, clock>>
    <3>1. inflight[r] # Idle /\ Online
      BY <2>2, Writing DEF StillTrue
    <3>2. MoneyFits'
      BY <2>2, <3>1, VoidFits
    <3>3. UNCHANGED intent \/ intent # "HELD" \/ intent' # "CHARGED"
      BY <2>2 DEF TryVoid, Voided
    <3>4. Taken => Taken'
      BY <2>2 DEF TryVoid, Voided, Taken
    <3> QED
      BY <2>2, <3>1, <3>2, <3>3, <3>4, CancelsOn DEF At, Good, SerialInv, DbFits
  <2>3. CASE /\ At(r, "cancelHold", "row") /\ payment' = "CANCELLED" /\ GoOn(r, "write")
             /\ UNCHANGED <<plan, order, listing, intent, events, credits, clock>>
    <3>1. inflight[r] # Idle /\ Online
      BY <2>3, Writing DEF StillTrue
    <3>2. MoneyFits'
      BY <2>3, <3>1 DEF SInv, SerialInv, DbFits, MoneyFits, RowNeverOverstates, Online
    <3> QED
      BY <2>3, <3>1, <3>2, CancelsOn DEF At, Good, SerialInv, DbFits, Taken
  <2>4. CASE /\ At(r, "cancelHold", "write")
             /\ SetOrder([order EXCEPT !.escrowHeld = FALSE]) /\ Finish(r)
    <3>1. inflight[r] # Idle
      BY <2>4, Writing
    <3>2. RowGood
      BY <2>4, Row, Stays DEF SetOrder, OrderRow
    <3> QED
      BY <2>4, <3>1, <3>2, Ends DEF SetOrder
  <2> QED
    BY <1>2, <2>1, <2>2, <2>3, <2>4 DEF CancelHold
<1> QED
  BY <1>1, <1>2

\* The row a completion writes: escrow released, custody as given.
LEMMA Released ==
  ASSUME SInv
  PROVE  LET row == [order EXCEPT !.escrowHeld = FALSE]
         IN  /\ row \in OrderRow /\ row.history = order.history
             /\ row.rePhotoCount = order.rePhotoCount /\ row.custodyHeld = order.custodyHeld
             /\ row.returnPhotos = order.returnPhotos /\ row.verdict = order.verdict
             /\ row.repaid = order.repaid
BY Row DEF OrderRow

\* Parcels on their way to the authenticator and to the buyer.
LEMMA ParcelGood ==
  ASSUME SInv, OneRequest, NEW r \in Requests,
         \/ ShipToAuthenticator(r) \/ ShipToBuyerDirect(r) \/ MarkAuthenticatorReceived(r)
         \/ AddEvidence(r) \/ ShipToBuyer(r) \/ ConfirmDelivered(r) \/ DisputeShip(r)
  PROVE  Good
<1> r \in Slots /\ r # CRON
  BY PartySlot
<1>1. CASE ShipToAuthenticator(r)
  <2>1. CASE order.status = "PAID" /\ Start(r, "shipToAuthenticator")
    BY <2>1, PlainStart DEF ReadIn
  <2>2. CASE /\ At(r, "shipToAuthenticator", "write")
             /\ SetStatus("SHIPPED_TO_AUTHENTICATOR") /\ Finish(r)
    <3>1. order.status = "PAID" /\ inflight[r] # Idle
      BY <2>2, Reads DEF ReadIn, StillIn, Swept
    <3> QED
      BY <2>2, <3>1, StatusMoves DEF SetStatus, SetOrder, HeldStatuses, Statuses
  <2> QED
    BY <1>1, <2>1, <2>2 DEF ShipToAuthenticator, MayShipToAuthenticator
<1>2. CASE ShipToBuyerDirect(r)
  <2>1. CASE ~plan.auth /\ order.status = "PAID" /\ Start(r, "shipToBuyerDirect")
    <3>1. StillTrue([op |-> "shipToBuyerDirect", at |-> "write", arg |-> "NONE", seen |-> Unread])
      BY <2>1 DEF StillTrue, StillIn, ReadIn
    <3> QED
      BY <2>1, <3>1, Begun DEF Start
  <2>2. CASE At(r, "shipToBuyerDirect", "write") /\ ShipWrite /\ Finish(r)
    <3>1. order.status = "PAID" /\ inflight[r] # Idle
      BY <2>2, Reads DEF ReadIn, StillIn, Swept
    <3>2. ~plan.auth
      BY <2>2, Writing DEF StillTrue
    <3> QED
      BY <2>2, <3>1, <3>2, StatusMoves DEF ShipWrite, HeldStatuses, Statuses
  <2> QED
    BY <1>2, <2>1, <2>2 DEF ShipToBuyerDirect, MayShipToBuyerDirect
<1>3. CASE MarkAuthenticatorReceived(r)
  <2>1. CASE order.status = "SHIPPED_TO_AUTHENTICATOR" /\ Start(r, "markAuthenticatorReceived")
    BY <2>1, PlainStart DEF ReadIn
  <2>2. CASE /\ At(r, "markAuthenticatorReceived", "write")
             /\ SetStatus("AUTHENTICATING") /\ Finish(r)
    <3>1. order.status = "SHIPPED_TO_AUTHENTICATOR" /\ inflight[r] # Idle
      BY <2>2, Reads DEF ReadIn, StillIn, Swept
    <3> QED
      BY <2>2, <3>1, StatusMoves DEF SetStatus, SetOrder, HeldStatuses, Statuses
  <2> QED
    BY <1>3, <2>1, <2>2 DEF MarkAuthenticatorReceived, MayMarkAuthenticatorReceived
<1>4. CASE AddEvidence(r)
  <2>1. CASE Start(r, "addEvidence")
    <3>1. order.status \in ReadIn("addEvidence")
      BY Row DEF ReadIn, OrderRow
    <3> QED
      BY <2>1, <3>1, PlainStart
  <2>2. CASE /\ At(r, "addEvidence", "write")
             /\ SetOrder([order EXCEPT !.evidence = TRUE]) /\ Finish(r)
    <3>1. inflight[r] # Idle
      BY <2>2, Writing
    <3>2. RowGood
      BY <2>2, Row, Stays DEF SetOrder, OrderRow
    <3> QED
      BY <2>2, <3>1, <3>2, Ends DEF SetOrder
  <2> QED
    BY <1>4, <2>1, <2>2 DEF AddEvidence, MayAddEvidence
<1>5. CASE ShipToBuyer(r)
  <2>1. CASE order.status = "AUTH_PASSED" /\ Start(r, "shipToBuyer")
    BY <2>1, PlainStart DEF ReadIn
  <2>2. CASE At(r, "shipToBuyer", "write") /\ ShipWrite /\ Finish(r)
    <3>1. order.status = "AUTH_PASSED" /\ inflight[r] # Idle
      BY <2>2, Reads DEF ReadIn, StillIn, Swept
    <3> QED
      BY <2>2, <3>1, StatusMoves DEF ShipWrite, HeldStatuses, Statuses
  <2> QED
    BY <1>5, <2>1, <2>2 DEF ShipToBuyer, MayShipToBuyer
<1>6. CASE ConfirmDelivered(r)
  <2>1. CASE /\ order.status = "SHIPPED_TO_BUYER"
             /\ StartWith(r, "confirmDelivered", IF plan.auth THEN "write" ELSE "captureFirst",
                          "NONE", Unread)
    <3>1. order.status \in ReadIn("confirmDelivered")
      BY <2>1 DEF ReadIn
    <3>2. CASE plan.auth
      BY <2>1, <3>1, <3>2, CapturingStart
    <3>3. CASE ~plan.auth
      BY <2>1, <3>1, <3>3, CapturingStart
    <3> QED
      BY <3>2, <3>3
  <2>2. CASE /\ At(r, "confirmDelivered", "write")
             /\ CompleteTx([order EXCEPT !.escrowHeld = FALSE]) /\ Finish(r)
    <3>1. /\ inflight[r] # Idle
          /\ order.status = "SHIPPED_TO_BUYER" \/ (OVERLAP /\ order.status = "COMPLETED")
      BY <2>2, Reads DEF ReadIn, StillIn, Swept
    <3> QED
      BY <2>2, <3>1, Released, Completes
  <2> QED
    BY <1>6, <2>1, <2>2 DEF ConfirmDelivered
<1>7. CASE DisputeShip(r)
  <2>1. CASE order.status = "SHIPPED_TO_BUYER" /\ Start(r, "disputeShip")
    BY <2>1, PlainStart DEF ReadIn
  <2>2. CASE At(r, "disputeShip", "write") /\ SetStatus("DISPUTED") /\ Finish(r)
    <3>1. /\ inflight[r] # Idle
          /\ order.status = "SHIPPED_TO_BUYER" \/ (OVERLAP /\ order.status = "COMPLETED")
      BY <2>2, Reads DEF ReadIn, StillIn, Swept
    <3> QED
      BY <2>2, <3>1, StatusMoves DEF SetStatus, SetOrder, HeldStatuses, Statuses
  <2> QED
    BY <1>7, <2>1, <2>2 DEF DisputeShip
<1> QED
  BY <1>1, <1>2, <1>3, <1>4, <1>5, <1>6, <1>7

\* The verdicts: written first and captured last, or the other way round.
LEMMA VerdictGood ==
  ASSUME SInv, OneRequest, NEW r \in Requests, SubmitVerdict(r) \/ SubmitVerdictMeetup(r)
  PROVE  Good
<1> r \in Slots /\ r # CRON
  BY PartySlot
\* A verdict that lets the order go on, with the capture still to come.
<1>1. ASSUME NEW s, NEW op \in VerdictOps, At(r, op, "write"), inflight[r].arg = "PASSED",
             \/ op = "submitVerdict" /\ s = "AUTH_PASSED"
             \/ op = "submitVerdictMeetup" /\ s = "AWAITING_BUYER_PICKUP",
             SetOrder([order EXCEPT !.status = s, !.verdict = "PASSED"]), GoOn(r, "captureLast")
      PROVE  Good
  <2>1. /\ inflight[r] # Idle
        /\ op = "submitVerdict" => order.status = "AUTHENTICATING"
        /\ op = "submitVerdictMeetup" => order.status = "CUSTODY"
    BY <1>1, Reads DEF ReadIn, StillIn, Swept, VerdictOps
  <2>2. /\ order'.status = s /\ order'.history = order.history
        /\ order'.rePhotoCount = order.rePhotoCount /\ order'.custodyHeld = order.custodyHeld
        /\ order'.cashoutEligible = order.cashoutEligible
        /\ order'.repaid = order.repaid /\ order'.verdict = "PASSED"
    BY <1>1, Row DEF SetOrder, OrderRow
  <2>3. RowGood
    BY <1>1, <2>1, <2>2, Moves DEF SetOrder, Statuses, HeldStatuses, VerdictOps
  <2>4. /\ inflight'[r].op = op /\ inflight'[r].at = "captureLast" /\ inflight'[r].arg = "PASSED"
    BY <1>1 DEF SInv, IInv, TypeOK, Flight, GoOn, At
  <2>5. Rests(r)'
    BY <1>1, <2>4 DEF StillTrue, VerdictOps, Rests
  <2>6. NothingStale'
    BY <1>1, <2>1, <2>3, <2>5, Onward DEF SetOrder, RowGood, Spares, RequestKeeps, Taken
  <2> QED
    BY <1>1, <2>3, <2>6, MoneyKept DEF SetOrder, Good, SerialInv, DbFits, Outside, RowGood, Captured
<1>2. CASE SubmitVerdict(r)
  <2>1. ASSUME order.status = "AUTHENTICATING", NEW v,
               StartWith(r, "submitVerdict",
                         IF plan.method = "MEETUP_3WAY" /\ v = "PASSED" THEN "captureFirst"
                                                                        ELSE "write",
                         v, Unread)
        PROVE  Good
    <3>1. order.status \in ReadIn("submitVerdict")
      BY <2>1 DEF ReadIn
    <3>2. CASE plan.method = "MEETUP_3WAY" /\ v = "PASSED"
      BY <2>1, <3>1, <3>2, CapturingStart
    <3>3. CASE ~(plan.method = "MEETUP_3WAY" /\ v = "PASSED")
      BY <2>1, <3>1, <3>3, CapturingStart
    <3> QED
      BY <3>2, <3>3
  <2>2. CASE /\ At(r, "submitVerdict", "write")
             /\ CompleteTx([order EXCEPT !.verdict = "PASSED", !.escrowHeld = FALSE])
             /\ Finish(r)
    <3> DEFINE row == [order EXCEPT !.verdict = "PASSED", !.escrowHeld = FALSE]
    <3>1. order.status = "AUTHENTICATING" /\ inflight[r] # Idle
      BY <2>2, Reads DEF ReadIn, StillIn, Swept
    <3>2. /\ row \in OrderRow /\ row.history = order.history
          /\ row.rePhotoCount = order.rePhotoCount /\ row.custodyHeld = order.custodyHeld
          /\ row.returnPhotos = order.returnPhotos /\ row.repaid = order.repaid
      BY Row DEF OrderRow, Verdicts
    <3> QED
      BY <2>2, <3>1, <3>2, Completes
  <2>3. CASE /\ At(r, "submitVerdict", "write") /\ inflight[r].arg = "PASSED"
             /\ SetOrder([order EXCEPT !.status = "AUTH_PASSED", !.verdict = "PASSED"])
             /\ GoOn(r, "captureLast")
    BY <1>1, <2>3 DEF VerdictOps
  <2>4. CASE /\ At(r, "submitVerdict", "write")
             /\ SetOrder([order EXCEPT !.status = "AUTH_FAILED", !.verdict = inflight[r].arg])
             /\ Finish(r)
    <3>1. order.status = "AUTHENTICATING" /\ inflight[r] # Idle
      BY <2>4, Reads DEF ReadIn, StillIn, Swept
    <3>2. /\ order'.status = "AUTH_FAILED" /\ order'.history = order.history
          /\ order'.rePhotoCount = order.rePhotoCount /\ order'.custodyHeld = order.custodyHeld
          /\ order'.cashoutEligible = order.cashoutEligible /\ order'.repaid = order.repaid
      BY <2>4, Row DEF SetOrder, OrderRow
    <3>3. RowGood
      BY <2>4, <3>1, <3>2, Moves DEF SetOrder, Statuses, HeldStatuses
    <3> QED
      BY <2>4, <3>1, <3>3, Ends DEF SetOrder
  <2> QED
    BY <1>2, <2>1, <2>2, <2>3, <2>4 DEF SubmitVerdict, MaySubmitVerdict
<1>3. CASE SubmitVerdictMeetup(r)
  <2>1. ASSUME order.status = "CUSTODY", NEW v,
               StartWith(r, "submitVerdictMeetup", "write", v, Unread)
        PROVE  Good
    BY <2>1, CapturingStart DEF ReadIn
  <2>2. CASE /\ At(r, "submitVerdictMeetup", "write") /\ inflight[r].arg = "PASSED"
             /\ SetOrder([order EXCEPT !.status = "AWAITING_BUYER_PICKUP", !.verdict = "PASSED"])
             /\ GoOn(r, "captureLast")
    BY <1>1, <2>2 DEF VerdictOps
  <2>3. CASE /\ At(r, "submitVerdictMeetup", "write")
             /\ RefundTx([order EXCEPT !.verdict = inflight[r].arg]) /\ Finish(r)
    <3> DEFINE row == [order EXCEPT !.verdict = inflight[r].arg]
    <3>1. order.status = "CUSTODY" /\ inflight[r] # Idle
      BY <2>3, Reads DEF ReadIn, StillIn, Swept
    <3>2. inflight[r].arg \in Verdicts
      BY <2>3 DEF At, SInv, IInv, TypeOK, Flight, VerdictOps
    <3>3. /\ row \in OrderRow /\ row.history = order.history
          /\ row.rePhotoCount = order.rePhotoCount /\ row.custodyHeld = order.custodyHeld
          /\ row.returnPhotos = order.returnPhotos /\ row.repaid = order.repaid
          /\ row.cashoutEligible = order.cashoutEligible
      BY <3>2, Row DEF OrderRow
    <3> QED
      BY <2>3, <3>1, <3>3, Refunds
  <2> QED
    BY <1>3, <2>1, <2>2, <2>3 DEF SubmitVerdictMeetup, MaySubmitVerdictMeetup
<1> QED
  BY <1>2, <1>3

\* Meetups without custody, disputes, and the orders of the older flow.
LEMMA MeetupGood ==
  ASSUME SInv, OneRequest, NEW r \in Requests,
         \/ AuthDeliveryAck(r) \/ CompleteOrder(r) \/ StartMeetupAuth(r)
         \/ CompleteMeetup(r) \/ DisputeMeetup(r)
  PROVE  Good
<1> r \in Slots /\ r # CRON
  BY PartySlot
\* What a completion that follows the escrow flag it read writes.
<1>a. LET row == [order EXCEPT !.escrowHeld = @ /\ ~inflight[r].seen.escrowHeld]
      IN  /\ row \in OrderRow /\ row.history = order.history
          /\ row.rePhotoCount = order.rePhotoCount /\ row.custodyHeld = order.custodyHeld
          /\ row.returnPhotos = order.returnPhotos
          /\ row.repaid = order.repaid /\ row.verdict = order.verdict
  BY Row DEF OrderRow
<1>1. CASE AuthDeliveryAck(r)
  <2>1. CASE order.status = "DELIVERED_PENDING_AUTH_ACK" /\ Start(r, "authDeliveryAck")
    BY <2>1, PlainStart DEF ReadIn
  <2>2. CASE /\ At(r, "authDeliveryAck", "write")
             /\ CompleteTx([order EXCEPT !.escrowHeld = FALSE]) /\ Finish(r)
    <3>1. order.status = "DELIVERED_PENDING_AUTH_ACK" /\ inflight[r] # Idle
      BY <2>2, Reads DEF ReadIn, StillIn, Swept
    <3> QED
      BY <2>2, <3>1, Released, Completes
  <2> QED
    BY <1>1, <2>1, <2>2 DEF AuthDeliveryAck, MayAuthDeliveryAck
<1>2. CASE CompleteOrder(r)
  <2>1. ASSUME order.status = "DELIVERED", NEW seen,
               StartWith(r, "completeOrder", "write", "NONE", seen)
        PROVE  Good
    <3>1. StillTrue([op |-> "completeOrder", at |-> "write", arg |-> "NONE", seen |-> seen])
      BY <2>1 DEF StillTrue, StillIn, ReadIn
    <3> QED
      BY <2>1, <3>1, Begun
  <2>2. CASE /\ At(r, "completeOrder", "write")
             /\ CompleteTx([order EXCEPT !.escrowHeld = @ /\ ~inflight[r].seen.escrowHeld])
             /\ Finish(r)
    <3>1. order.status = "DELIVERED" /\ inflight[r] # Idle
      BY <2>2, Reads DEF ReadIn, StillIn, Swept
    <3> QED
      BY <2>2, <3>1, <1>a, Completes
  <2> QED
    BY <1>2, <2>1, <2>2 DEF CompleteOrder, MayCompleteOrder
<1>3. CASE StartMeetupAuth(r)
  <2>1. CASE order.status = "PAID" /\ Start(r, "startMeetupAuth")
    BY <2>1, PlainStart DEF ReadIn
  <2>2. CASE At(r, "startMeetupAuth", "write") /\ SetStatus("AUTHENTICATING") /\ Finish(r)
    <3>1. order.status = "PAID" /\ inflight[r] # Idle
      BY <2>2, Reads DEF ReadIn, StillIn, Swept
    <3> QED
      BY <2>2, <3>1, StatusMoves DEF SetStatus, SetOrder, HeldStatuses, Statuses
  <2> QED
    BY <1>3, <2>1, <2>2 DEF StartMeetupAuth, MayStartMeetupAuth
<1>4. CASE CompleteMeetup(r)
  <2>1. ASSUME order.status = IF plan.method = "MEETUP_DIRECT" THEN "PAID" ELSE "AUTH_PASSED",
               NEW seen, StartWith(r, "completeMeetup", "write", "NONE", seen)
        PROVE  Good
    <3>1. StillTrue([op |-> "completeMeetup", at |-> "write", arg |-> "NONE", seen |-> seen])
      BY <2>1 DEF StillTrue, StillIn, ReadIn
    <3> QED
      BY <2>1, <3>1, Begun
  <2>2. CASE /\ At(r, "completeMeetup", "write")
             /\ CompleteTx([order EXCEPT !.escrowHeld = @ /\ ~inflight[r].seen.escrowHeld])
             /\ Finish(r)
    <3>1. order.status \in {"PAID", "AUTH_PASSED"} /\ inflight[r] # Idle
      BY <2>2, Reads DEF ReadIn, StillIn, Swept
    <3> QED
      BY <2>2, <3>1, <1>a, Completes
  <2> QED
    BY <1>4, <2>1, <2>2 DEF CompleteMeetup, MayCompleteMeetup
<1>5. CASE DisputeMeetup(r)
  <2>1. CASE /\ order.status \notin {"COMPLETED", "REFUNDED", "DISPUTED"}
             /\ Start(r, "disputeMeetup")
    <3>1. order.status \in ReadIn("disputeMeetup")
      BY <2>1, Row DEF ReadIn, OrderRow
    <3> QED
      BY <2>1, <3>1, PlainStart
  <2>2. CASE At(r, "disputeMeetup", "write") /\ SetStatus("DISPUTED") /\ Finish(r)
    <3>1. /\ order.status # "DISPUTED" /\ inflight[r] # Idle
          /\ order.status \in {"COMPLETED", "REFUNDED"} => OVERLAP
      BY <2>2, Reads DEF ReadIn, StillIn, Swept
    <3> QED
      BY <2>2, <3>1, StatusMoves DEF SetStatus, SetOrder, HeldStatuses, Statuses
  <2> QED
    BY <1>5, <2>1, <2>2 DEF DisputeMeetup
<1> QED
  BY <1>1, <1>2, <1>3, <1>4, <1>5

-----------------------------------------------------------------------------
(* The photo rounds.                                                       *)

\* A round closed: the same length, the last one with its outcome.
LEMMA Closed ==
  ASSUME NEW h \in Seq(Rounds), NEW outcome
  PROVE  /\ Len(CloseRound(h, outcome)) = Len(h)
         /\ \A i \in 1..Len(h) :
              CloseRound(h, outcome)[i] = IF i = Len(h) THEN outcome ELSE h[i]
<1>1. Len(h) \in Nat
  OBVIOUS
<1> QED
  BY <1>1 DEF CloseRound

\* The row before and after, spelled out, for the writes that touch the rounds.
LEMMA Trail ==
  ASSUME SInv
  PROVE  /\ order.history \in Seq(Rounds) /\ Len(order.history) \in Nat
         /\ order.rePhotoCount \in Nat /\ MAX_REPHOTO \in Nat
         /\ PhotoRoundsAddUp
         /\ order.status = "PAID" /\ ~order.repaid => order.history = <<>>
BY OrderFlowAssumption DEF SInv, IInv, TypeOK, OrderRow, SerialInv, DbFits, TrailFits

\* A move inside the handover: the rounds rewritten, custody perhaps taken.  A
\* sweep may have refunded the order under it.
LEMMA RoundMoves ==
  ASSUME SInv, order.repaid \/ ~order.custodyHeld,
         \/ order.status \in {"PAID", "HANDOVER_TO_AUTH", "SELLER_ACK_PENDING"}
         \/ OVERLAP /\ order.status = "REFUNDED" /\ plan.method = "MEETUP_AUTH",
         order'.status \in {"HANDOVER_TO_AUTH", "SELLER_ACK_PENDING", "CUSTODY"},
         PhotoRoundsAddUp', order'.cashoutEligible = order.cashoutEligible,
         order'.repaid = order.repaid,
         order'.custodyHeld /\ ~order.repaid => order'.status = "CUSTODY",
         UNCHANGED <<plan, listing, credits>>
  PROVE  RowGood
<1>1. TrailFits'
  BY DEF TrailFits
<1>2. CreditFits' /\ ItemFits'
  BY DEF SInv, SerialInv, DbFits, CreditFits, CreditedOnce, ItemFits, HeldStatuses
<1>3. DealStep /\ Frozen /\ HandedOver /\ (ParcelOut => ParcelOut')
  BY DEF DealStep, DealOf, Frozen, HandedOver, ParcelOut
<1> QED
  BY <1>1, <1>2, <1>3 DEF RowGood

\* The authenticator takes the item without photo rounds.
LEMMA TakesCustody ==
  ASSUME SInv, OneRequest, NEW r \in Requests, inflight[r] # Idle, Finish(r),
         order.status = "PAID", order' = TakeCustody(order),
         UNCHANGED <<plan, listing, payment, intent, events, credits>>
  PROVE  Good
<1>1. /\ order'.status = "CUSTODY" /\ order'.history = order.history
      /\ order'.rePhotoCount = order.rePhotoCount
      /\ order'.cashoutEligible = order.cashoutEligible /\ order'.repaid = order.repaid
  BY Row DEF TakeCustody, OrderRow
<1>2. PhotoRoundsAddUp'
  BY <1>1, Trail DEF PhotoRoundsAddUp
<1>3. RowGood
  BY <1>1, <1>2, Row, RoundMoves DEF HeldStatuses
<1> QED
  BY <1>3, PartySlot, Ends

\* The handover of the item to the authenticator.
LEMMA HandoverGood ==
  ASSUME SInv, OneRequest, NEW r \in Requests,
         \/ CustodyPhoneFallback(r) \/ ConfirmQrHandover(r) \/ StartMeetupHandover(r)
         \/ AuthReceiveAck(r) \/ SellerHandoverAck(r) \/ RequestRePhoto(r)
         \/ CancelHandover(r)
  PROVE  Good
<1> r \in Slots /\ r # CRON
  BY PartySlot
\* A request that carries the history it read.
<1>a. ASSUME NEW op \in {"authReceiveAck", "sellerHandoverAck", "requestRePhoto"},
             order.status \in ReadIn(op), op = "requestRePhoto" => order.rePhotoCount < MAX_REPHOTO,
             StartWith(r, op, "write", "NONE", [Unread EXCEPT !.history = order.history])
      PROVE  Good
  <2> DEFINE seen == [Unread EXCEPT !.history = order.history]
  <2>1. seen.history = order.history
    BY DEF Unread
  <2> HIDE DEF seen
  <2>2. order.repaid \/ ~order.custodyHeld
    BY <1>a, Row DEF ReadIn, HeldStatuses
  <2>3. op # "authReceiveAck" /\ ~order.repaid => LastOpen
    BY <1>a, Trail DEF ReadIn, PhotoRoundsAddUp, LastOpen
  <2>4. StillTrue([op |-> op, at |-> "write", arg |-> "NONE", seen |-> seen])
    BY <1>a, <2>1, <2>2, <2>3 DEF StillTrue, StillIn
  <2> QED
    BY <1>a, <2>4, Begun DEF seen
\* What it finds when it writes, after the seller was asked.
<1>b. ASSUME NEW op \in {"sellerHandoverAck", "requestRePhoto"}, At(r, op, "write")
      PROVE  /\ inflight[r] # Idle /\ inflight[r].seen.history = order.history
             /\ order.repaid \/ ~order.custodyHeld
             /\ \/ order.status = "SELLER_ACK_PENDING"
                \/ OVERLAP /\ order.status = "REFUNDED" /\ plan.method = "MEETUP_AUTH"
             /\ order.rePhotoCount <= MAX_REPHOTO
             /\ ~order.repaid =>
                  /\ Len(order.history) > 0 /\ order.rePhotoCount = Len(order.history) - 1
                  /\ \A i \in 1..(Len(order.history) - 1) : order.history[i] = "REJECTED"
  <2>1. /\ inflight[r] # Idle /\ inflight[r].seen.history = order.history
        /\ order.repaid \/ (~order.custodyHeld /\ LastOpen)
    BY <1>b, Writing DEF StillTrue
  <2>2. plan.method = "MEETUP_AUTH"
    BY <1>b, Fitting DEF OpFits
  <2>3. \/ order.status = "SELLER_ACK_PENDING"
        \/ OVERLAP /\ order.status = "REFUNDED"
    BY <1>b, Reads DEF StillIn, ReadIn, Swept
  <2>4. /\ order.rePhotoCount <= MAX_REPHOTO
        /\ ~order.repaid =>
             /\ Len(order.history) > 0 /\ order.rePhotoCount = Len(order.history) - 1
             /\ \A i \in 1..(Len(order.history) - 1) : order.history[i] = "REJECTED"
    BY <2>1, Trail DEF LastOpen, PhotoRoundsAddUp
  <2> QED
    BY <2>1, <2>2, <2>3, <2>4
<1>1. CASE CustodyPhoneFallback(r)
  <2>1. CASE order.status = "PAID" /\ Start(r, "custodyPhoneFallback")
    BY <2>1, PlainStart DEF ReadIn
  <2>2. CASE /\ At(r, "custodyPhoneFallback", "write")
             /\ order' = TakeCustody(order) /\ Finish(r)
             /\ UNCHANGED <<plan, listing, payment, intent, events, credits>>
    <3>1. order.status = "PAID" /\ inflight[r] # Idle
      BY <2>2, Reads DEF ReadIn, StillIn, Swept
    <3> QED
      BY <2>2, <3>1, TakesCustody
  <2> QED
    BY <1>1, <2>1, <2>2 DEF CustodyPhoneFallback
<1>2. CASE ConfirmQrHandover(r)
  <2>1. CASE order.status = "PAID" /\ Start(r, "qrDropoff")
    BY <2>1, PlainStart DEF ReadIn
  <2>2. CASE /\ At(r, "qrDropoff", "write")
             /\ order' = TakeCustody(order) /\ Finish(r)
             /\ UNCHANGED <<plan, listing, payment, intent, events, credits>>
    <3>1. order.status = "PAID" /\ inflight[r] # Idle
      BY <2>2, Reads DEF ReadIn, StillIn, Swept
    <3> QED
      BY <2>2, <3>1, TakesCustody
  <2>3. CASE order.status = "AWAITING_BUYER_PICKUP" /\ Start(r, "qrPickup")
    BY <2>3, PlainStart DEF ReadIn
  <2>4. CASE /\ At(r, "qrPickup", "write")
             /\ CompleteTx([order EXCEPT !.escrowHeld = FALSE, !.custodyHeld = FALSE])
             /\ Finish(r)
    <3> DEFINE row == [order EXCEPT !.escrowHeld = FALSE, !.custodyHeld = FALSE]
    <3>1. order.status = "AWAITING_BUYER_PICKUP" /\ inflight[r] # Idle
      BY <2>4, Reads DEF ReadIn, StillIn, Swept
    <3>2. /\ row \in OrderRow /\ row.history = order.history
          /\ row.rePhotoCount = order.rePhotoCount
          /\ row.returnPhotos = order.returnPhotos
          /\ row.repaid = order.repaid /\ row.verdict = order.verdict
      BY Row DEF OrderRow
    <3> QED
      BY <2>4, <3>1, <3>2, Completes
  <2> QED
    BY <1>2, <2>1, <2>2, <2>3, <2>4 DEF ConfirmQrHandover
<1>3. CASE StartMeetupHandover(r)
  <2>1. CASE order.status = "PAID" /\ Start(r, "startMeetupHandover")
    BY <2>1, PlainStart DEF ReadIn
  <2>2. CASE /\ At(r, "startMeetupHandover", "write")
             /\ SetStatus("HANDOVER_TO_AUTH") /\ Finish(r)
    <3>1. order.status = "PAID" /\ inflight[r] # Idle
      BY <2>2, Reads DEF ReadIn, StillIn, Swept
    <3> QED
      BY <2>2, <3>1, StatusMoves DEF SetStatus, SetOrder, HeldStatuses, Statuses
  <2> QED
    BY <1>3, <2>1, <2>2 DEF StartMeetupHandover, MayStartMeetupHandover
<1>4. CASE AuthReceiveAck(r)
  <2>1. CASE /\ order.status = "HANDOVER_TO_AUTH"
             /\ StartWith(r, "authReceiveAck", "write", "NONE",
                          [Unread EXCEPT !.history = order.history])
    BY <2>1, <1>a DEF ReadIn
  <2>2. CASE /\ At(r, "authReceiveAck", "write")
             /\ order' = [order EXCEPT !.status = "SELLER_ACK_PENDING",
                                       !.history = Append(inflight[r].seen.history, "OPEN")]
             /\ Finish(r)
             /\ UNCHANGED <<plan, listing, payment, intent, events, credits>>
    <3>1. order.status = "HANDOVER_TO_AUTH" /\ inflight[r] # Idle
      BY <2>2, Reads DEF ReadIn, StillIn, Swept
    <3>2. inflight[r].seen.history = order.history
      BY <2>2, Writing DEF StillTrue
    <3>3. /\ order'.status = "SELLER_ACK_PENDING"
          /\ order'.history = Append(order.history, "OPEN")
          /\ order'.rePhotoCount = order.rePhotoCount
          /\ order'.custodyHeld = order.custodyHeld
          /\ order'.cashoutEligible = order.cashoutEligible
          /\ order'.repaid = order.repaid
      BY <2>2, <3>1, <3>2, Row DEF OrderRow
    <3> DEFINE n == Len(order.history)
    <3>4. /\ n \in Nat /\ order.rePhotoCount <= MAX_REPHOTO
          /\ ~order.repaid => /\ order.rePhotoCount = n
                              /\ \A i \in 1..n : order.history[i] = "REJECTED"
      BY <3>1, Trail DEF PhotoRoundsAddUp
    <3>5. /\ Len(order'.history) = n + 1 /\ order'.history[n + 1] = "OPEN"
          /\ \A i \in 1..n : order'.history[i] = order.history[i]
      BY <3>3, Trail
    <3> HIDE DEF n
    <3>6. PhotoRoundsAddUp'
      BY <3>3, <3>4, <3>5 DEF PhotoRoundsAddUp
    <3>7. RowGood
      BY <2>2, <3>1, <3>3, <3>6, Row, RoundMoves DEF HeldStatuses
    <3> QED
      BY <2>2, <3>1, <3>7, Ends
  <2> QED
    BY <1>4, <2>1, <2>2 DEF AuthReceiveAck, MayAuthReceiveAck
<1>5. CASE SellerHandoverAck(r)
  <2>1. CASE /\ order.status = "SELLER_ACK_PENDING"
             /\ StartWith(r, "sellerHandoverAck", "write", "NONE",
                          [Unread EXCEPT !.history = order.history])
    BY <2>1, <1>a DEF ReadIn
  <2>2. CASE /\ At(r, "sellerHandoverAck", "write")
             /\ SetOrder([TakeCustody(order) EXCEPT
                            !.history = CloseRound(inflight[r].seen.history, "ACKED")])
             /\ Finish(r)
    <3> DEFINE n == Len(order.history)
    <3>1. /\ inflight[r] # Idle /\ inflight[r].seen.history = order.history
          /\ order.rePhotoCount <= MAX_REPHOTO
          /\ ~order.repaid => /\ n > 0 /\ order.rePhotoCount = n - 1
                              /\ \A i \in 1..(n - 1) : order.history[i] = "REJECTED"
      BY <2>2, <1>b
    <3>2. n \in Nat
      BY Trail
    <3>3. /\ order'.status = "CUSTODY"
          /\ order'.history = CloseRound(order.history, "ACKED")
          /\ order'.rePhotoCount = order.rePhotoCount
          /\ order'.cashoutEligible = order.cashoutEligible /\ order'.repaid = order.repaid
      BY <2>2, <3>1, Row DEF SetOrder, TakeCustody, OrderRow
    <3>4. /\ Len(order'.history) = n /\ (n > 0 => order'.history[n] = "ACKED")
          /\ \A i \in 1..(n - 1) : order'.history[i] = order.history[i]
      BY <3>2, <3>3, Closed, Trail
    <3> HIDE DEF n
    <3>5. PhotoRoundsAddUp'
      BY <3>1, <3>2, <3>3, <3>4 DEF PhotoRoundsAddUp
    <3>6. RowGood
      BY <2>2, <1>b, <3>3, <3>5, RoundMoves DEF SetOrder
    <3> QED
      BY <2>2, <3>1, <3>6, Ends DEF SetOrder
  <2>3. CASE order.status = "AUTH_RECEIVED_PENDING_SELLER_ACK" /\ Start(r, "sellerReceiptAck")
    BY <2>3, PlainStart DEF ReadIn
  <2>4. CASE At(r, "sellerReceiptAck", "write") /\ SetStatus("AUTHENTICATING") /\ Finish(r)
    <3>1. order.status = "AUTH_RECEIVED_PENDING_SELLER_ACK" /\ inflight[r] # Idle
      BY <2>4, Reads DEF ReadIn, StillIn, Swept
    <3> QED
      BY <2>4, <3>1, StatusMoves DEF SetStatus, SetOrder, HeldStatuses, Statuses
  <2> QED
    BY <1>5, <2>1, <2>2, <2>3, <2>4 DEF SellerHandoverAck, MaySellerHandoverAck, MaySellerReceiptAck
<1>6. CASE RequestRePhoto(r)
  <2>1. CASE /\ order.status = "SELLER_ACK_PENDING" /\ order.rePhotoCount < MAX_REPHOTO
             /\ StartWith(r, "requestRePhoto", "write", "NONE",
                          [Unread EXCEPT !.history = order.history])
    BY <2>1, <1>a DEF ReadIn
  <2>2. CASE /\ At(r, "requestRePhoto", "write")
             /\ order' = [order EXCEPT !.status = "HANDOVER_TO_AUTH",
                            !.history = CloseRound(inflight[r].seen.history, "REJECTED"),
                            !.rePhotoCount = @ + 1]
             /\ Finish(r)
             /\ UNCHANGED <<plan, listing, payment, intent, events, credits>>
    <3> DEFINE n == Len(order.history)
    <3>1. /\ inflight[r] # Idle /\ inflight[r].seen.history = order.history
          /\ ~order.repaid => /\ n > 0 /\ order.rePhotoCount = n - 1
                              /\ \A i \in 1..(n - 1) : order.history[i] = "REJECTED"
      BY <2>2, <1>b
    <3>2. /\ n \in Nat /\ order.rePhotoCount \in Nat /\ MAX_REPHOTO \in Nat
          /\ order.rePhotoCount < MAX_REPHOTO
      BY <2>2, Trail, Writing DEF StillTrue
    <3>3. /\ order'.status = "HANDOVER_TO_AUTH"
          /\ order'.history = CloseRound(order.history, "REJECTED")
          /\ order'.rePhotoCount = order.rePhotoCount + 1
          /\ order'.custodyHeld = order.custodyHeld
          /\ order'.cashoutEligible = order.cashoutEligible /\ order'.repaid = order.repaid
      BY <2>2, <3>1, Row DEF OrderRow
    <3>4. /\ Len(order'.history) = n /\ (n > 0 => order'.history[n] = "REJECTED")
          /\ \A i \in 1..(n - 1) : order'.history[i] = order.history[i]
      BY <3>2, <3>3, Closed, Trail
    <3> HIDE DEF n
    <3>5. PhotoRoundsAddUp'
      <4>1. order'.rePhotoCount <= MAX_REPHOTO
        BY <3>2, <3>3
      <4>2. CASE ~order.repaid
        <5>1. n > 0 /\ order'.rePhotoCount = n
          BY <3>1, <3>2, <3>3, <4>2
        <5>2. \A i \in 1..(n - 1) : order'.history[i] = "REJECTED"
          BY <3>1, <3>4, <4>2
        <5> QED
          BY <3>3, <3>4, <4>1, <5>1, <5>2 DEF PhotoRoundsAddUp
      <4> QED
        BY <3>3, <4>1, <4>2 DEF PhotoRoundsAddUp
    <3>6. RowGood
      BY <2>2, <1>b, <3>3, <3>5, RoundMoves
    <3> QED
      BY <2>2, <3>1, <3>6, Ends
  <2> QED
    BY <1>6, <2>1, <2>2 DEF RequestRePhoto
<1>7. CASE CancelHandover(r)
  <2>1. CASE /\ order.status \in {"PAID", "HANDOVER_TO_AUTH", "SELLER_ACK_PENDING"}
             /\ Start(r, "cancelHandover")
    BY <2>1, Row, PlainStart DEF ReadIn, HeldStatuses
  <2>2. CASE /\ At(r, "cancelHandover", "write")
             /\ RefundTx([order EXCEPT !.custodyHeld = FALSE]) /\ Finish(r)
    <3> DEFINE row == [order EXCEPT !.custodyHeld = FALSE]
    <3>1. /\ inflight[r] # Idle /\ (order.repaid \/ ~order.custodyHeld)
          /\ \/ order.status \in {"PAID", "HANDOVER_TO_AUTH", "SELLER_ACK_PENDING"}
             \/ OVERLAP /\ order.status = "REFUNDED"
      BY <2>2, Writing DEF StillTrue, ReadIn, StillIn, Swept
    <3>2. /\ row \in OrderRow /\ row.history = order.history
          /\ row.rePhotoCount = order.rePhotoCount /\ ~row.custodyHeld
          /\ row.returnPhotos = order.returnPhotos
          /\ row.repaid = order.repaid /\ row.verdict = order.verdict
          /\ row.cashoutEligible = order.cashoutEligible
      BY Row DEF OrderRow
    <3> QED
      BY <2>2, <3>1, <3>2, Refunds
  <2> QED
    BY <1>7, <2>1, <2>2 DEF CancelHandover
<1> QED
  BY <1>1, <1>2, <1>3, <1>4, <1>5, <1>6, <1>7

\* The pickup by the buyer, and the return to the seller.
LEMMA ReturnGood ==
  ASSUME SInv, OneRequest, NEW r \in Requests,
         BuyerReceiveAck(r) \/ UploadReturnPhotos(r) \/ SellerReturnAck(r)
  PROVE  Good
<1> r \in Slots /\ r # CRON
  BY PartySlot
<1>1. CASE BuyerReceiveAck(r)
  <2>1. CASE order.status = "AWAITING_BUYER_PICKUP" /\ Start(r, "buyerReceiveAck")
    BY <2>1, PlainStart DEF ReadIn
  <2>2. CASE /\ At(r, "buyerReceiveAck", "write")
             /\ CompleteTx([order EXCEPT !.escrowHeld = FALSE, !.custodyHeld = FALSE])
             /\ Finish(r)
    <3> DEFINE row == [order EXCEPT !.escrowHeld = FALSE, !.custodyHeld = FALSE]
    <3>1. order.status = "AWAITING_BUYER_PICKUP" /\ inflight[r] # Idle
      BY <2>2, Reads DEF ReadIn, StillIn, Swept
    <3>2. /\ row \in OrderRow /\ row.history = order.history
          /\ row.rePhotoCount = order.rePhotoCount
          /\ row.returnPhotos = order.returnPhotos
          /\ row.repaid = order.repaid /\ row.verdict = order.verdict
      BY Row DEF OrderRow
    <3> QED
      BY <2>2, <3>1, <3>2, Completes
  <2> QED
    BY <1>1, <2>1, <2>2 DEF BuyerReceiveAck, MayBuyerReceiveAck
<1>2. CASE UploadReturnPhotos(r)
  <2>1. CASE order.status = "REFUNDED" /\ Start(r, "uploadReturnPhotos")
    BY <2>1, PlainStart DEF ReadIn
  <2>2. CASE /\ At(r, "uploadReturnPhotos", "write")
             /\ SetOrder([order EXCEPT !.returnPhotos = TRUE]) /\ Finish(r)
    <3>1. inflight[r] # Idle
      BY <2>2, Writing
    <3>2. RowGood
      BY <2>2, Row, Stays DEF SetOrder, OrderRow
    <3> QED
      BY <2>2, <3>1, <3>2, Ends DEF SetOrder
  <2> QED
    BY <1>2, <2>1, <2>2 DEF UploadReturnPhotos
<1>3. CASE SellerReturnAck(r)
  <2>1. CASE order.status = "REFUNDED" /\ order.returnPhotos /\ Start(r, "sellerReturnAck")
    <3>1. StillTrue([op |-> "sellerReturnAck", at |-> "write", arg |-> "NONE", seen |-> Unread])
      BY <2>1 DEF StillTrue, StillIn, ReadIn
    <3> QED
      BY <2>1, <3>1, Begun DEF Start
  <2>2. CASE /\ At(r, "sellerReturnAck", "write")
             /\ SetOrder([order EXCEPT !.returnAck = TRUE, !.custodyHeld = FALSE])
             /\ Finish(r)
    <3>1. order.status = "REFUNDED" /\ inflight[r] # Idle
      BY <2>2, Reads DEF ReadIn, StillIn, Swept
    <3>2. order.returnPhotos
      BY <2>2, Writing DEF StillTrue
    <3>3. /\ order'.status = order.status /\ order'.history = order.history
          /\ order'.rePhotoCount = order.rePhotoCount /\ ~order'.custodyHeld
          /\ order'.returnAck /\ order'.cashoutEligible = order.cashoutEligible
          /\ order'.repaid = order.repaid
          /\ order'.verdict = order.verdict
      BY <2>2, Row DEF SetOrder, OrderRow
    <3>4. RowGood
      BY <2>2, <3>1, <3>2, <3>3, Stays DEF SetOrder
    <3> QED
      BY <2>2, <3>1, <3>4, Ends DEF SetOrder
  <2> QED
    BY <1>3, <2>1, <2>2 DEF SellerReturnAck, MaySellerReturnAck
<1> QED
  BY <1>1, <1>2, <1>3

-----------------------------------------------------------------------------
(* The back office, the sweeps, and the steps that are no handler's.       *)

\* The back office reads the payment with the order.
LEMMA OfficeStart ==
  ASSUME SInv, OneRequest, NEW r \in Requests, NEW op \in {"forceRefund", "releaseEscrow"},
         order.status \notin {"COMPLETED", "REFUNDED"},
         StartWith(r, op, "gateway", "NONE", [Unread EXCEPT !.payment = payment])
  PROVE  Good
<1> DEFINE seen == [Unread EXCEPT !.payment = payment]
<1>1. seen.payment = payment
  BY DEF Unread
<1>2. order.status \in ReadIn(op)
  BY Row DEF ReadIn, OrderRow
<1>3. payment # "NONE" => Online
  BY DEF SInv, SerialInv, DbFits, MoneyFits
<1> HIDE DEF seen
<1>4. StillTrue([op |-> op, at |-> "gateway", arg |-> "NONE", seen |-> seen])
  BY <1>1, <1>2, <1>3 DEF StillTrue, StillIn
<1> QED
  BY <1>4, PartySlot, Begun DEF seen

\* The order row the back office writes.
LEMMA OfficeRow ==
  ASSUME SInv, NEW s \in {"REFUNDED", "COMPLETED"},
         \/ s = "REFUNDED" /\ order' = [order EXCEPT !.status = s, !.escrowHeld = FALSE]
         \/ s = "COMPLETED" /\ order' = [order EXCEPT !.status = s, !.completedAt = TRUE,
                                                      !.escrowHeld = FALSE]
  PROVE  /\ order'.status = s /\ order'.history = order.history
         /\ order'.rePhotoCount = order.rePhotoCount /\ order'.custodyHeld = order.custodyHeld
         /\ order'.cashoutEligible = order.cashoutEligible
         /\ order'.repaid = order.repaid /\ order'.verdict = order.verdict
BY Row DEF OrderRow

\* A status the back office writes over.
LEMMA OfficeReads ==
  ASSUME SInv, NEW r \in Requests, NEW op \in {"forceRefund", "releaseEscrow"},
         NEW step \in {"gateway", "write"}, At(r, op, step)
  PROVE  /\ inflight[r] # Idle /\ StillTrue(inflight[r]) /\ inflight[r].op = op
         /\ order.status \in {"COMPLETED", "REFUNDED"} => OVERLAP
BY Writing, Reads DEF ReadIn, StillIn

LEMMA OfficeGood ==
  ASSUME SInv, OneRequest, NEW r \in Requests, ForceRefund(r) \/ ReleaseEscrow(r)
  PROVE  Good
<1> r \in Slots /\ r # CRON
  BY PartySlot
\* A write with its payment: the request is over.
<1>a. ASSUME inflight[r] # Idle, Finish(r), RowGood, MoneyFits', UNCHANGED <<plan, intent>>
      PROVE  Good
  BY <1>a, Done
     DEF Good, SerialInv, DbFits, Outside, RowGood, Captured, Spares, RequestKeeps, Taken
\* The gateway answered: the request goes on.
<1>b. ASSUME NEW op \in {"forceRefund", "releaseEscrow"}, At(r, op, "gateway"), GoOn(r, "write"),
             UNCHANGED <<plan, order>>, Taken => Taken',
             op = "forceRefund" /\ inflight[r].seen.payment = "CAPTURED" =>
               plan.mock \/ intent' = "REFUNDED",
             op = "releaseEscrow" /\ inflight[r].seen.payment = "AUTHORIZED" =>
               plan.mock \/ intent' = "CHARGED"
      PROVE  NothingStale'
  <2>1. inflight[r] # Idle /\ StillTrue(inflight[r]) /\ StillIn(op)
    BY <1>b, Writing, Reads
  <2>2. /\ inflight'[r].op = op /\ inflight'[r].at = "write"
        /\ inflight'[r].seen = inflight[r].seen
    BY <1>b DEF SInv, IInv, TypeOK, Flight, GoOn, At
  <2>3. StillIn(op)' /\ Online' = Online
    BY <1>b, <2>1 DEF StillIn, Online
  <2>4. inflight[r].seen.payment # "NONE" => Online
    BY <1>b, <2>1 DEF StillTrue, At
  <2>5. StillTrue(inflight[r])'
    BY <1>b, <2>2, <2>3, <2>4 DEF StillTrue
  <2>6. Rests(r)'
    BY <2>5 DEF Rests
  <2> QED
    BY <1>b, <2>1, <2>6, SparedRows, Onward
<1>1. CASE ForceRefund(r)
  <2>1. CASE /\ order.status \notin {"COMPLETED", "REFUNDED"}
             /\ StartWith(r, "forceRefund", "gateway", "NONE", [Unread EXCEPT !.payment = payment])
    BY <2>1, OfficeStart
  <2>2. CASE /\ At(r, "forceRefund", "gateway")
             /\ \/ /\ inflight[r].seen.payment = "AUTHORIZED"
                   /\ Voided = "CANCELED"
                   /\ intent' = Voided
                   /\ events' = Posted("CANCELED")
                \/ /\ inflight[r].seen.payment = "CAPTURED"
                   /\ intent = "CHARGED" \/ plan.mock
                   /\ intent' = Refunded
                   /\ events' = Posted("REFUNDED")
                \/ /\ inflight[r].seen.payment \notin {"AUTHORIZED", "CAPTURED"}
                   /\ UNCHANGED <<intent, events>>
             /\ GoOn(r, "write")
             /\ UNCHANGED <<plan, order, listing, payment, credits, clock>>
    <3>1. inflight[r].seen.payment # "NONE" => Online
      BY <2>2, OfficeReads DEF StillTrue
    <3>2. MoneyFits'
      BY <2>2, <3>1
         DEF Voided, Refunded, Posted, SInv, SerialInv, DbFits, MoneyFits, RowNeverOverstates,
             Online
    <3>3. NothingStale'
      BY <1>b, <2>2 DEF Voided, Refunded, Taken
    <3>4. UNCHANGED intent \/ intent # "HELD" \/ intent' # "CHARGED"
      BY <2>2 DEF Voided, Refunded
    <3> QED
      BY <2>2, <3>2, <3>3, <3>4, RowsKept, Unseen DEF Good, SerialInv, DbFits
  <2>3. CASE /\ At(r, "forceRefund", "write")
             /\ order' = [order EXCEPT !.status = "REFUNDED", !.escrowHeld = FALSE]
             /\ listing' = "ACTIVE"
             /\ payment' = CASE inflight[r].seen.payment = "AUTHORIZED" -> "CANCELLED"
                             [] inflight[r].seen.payment = "CAPTURED" -> "REFUNDED"
                             [] OTHER -> payment
             /\ Finish(r)
             /\ UNCHANGED <<plan, intent, events, credits, clock>>
    <3>1. /\ inflight[r] # Idle
          /\ order.status \in {"COMPLETED", "REFUNDED"} => OVERLAP
          /\ inflight[r].seen.payment # "NONE" => Online
          /\ inflight[r].seen.payment = "CAPTURED" => plan.mock \/ intent = "REFUNDED"
      BY <2>3, OfficeReads DEF StillTrue, At
    <3>2. RowGood
      BY <2>3, <3>1, OfficeRow, Closes DEF At
    <3>3. payment' \in {payment, "CANCELLED", "REFUNDED"}
          /\ (payment' = "REFUNDED" => plan.mock \/ payment = "REFUNDED" \/ intent = "REFUNDED")
          /\ (payment' # payment => Online)
      BY <2>3, <3>1
    <3>4. MoneyFits'
      BY <2>3, <3>3 DEF SInv, SerialInv, DbFits, MoneyFits, RowNeverOverstates, Online
    <3> QED
      BY <2>3, <3>1, <3>2, <3>4, <1>a
  <2> QED
    BY <1>1, <2>1, <2>2, <2>3 DEF ForceRefund
<1>2. CASE ReleaseEscrow(r)
  <2>1. CASE /\ order.status \notin {"COMPLETED", "REFUNDED"}
             /\ StartWith(r, "releaseEscrow", "gateway", "NONE",
                          [Unread EXCEPT !.payment = payment])
    BY <2>1, OfficeStart
  <2>2. CASE /\ At(r, "releaseEscrow", "gateway")
             /\ \/ /\ inflight[r].seen.payment = "AUTHORIZED"
                   /\ Capturable
                   /\ intent' = "CHARGED"
                   /\ events' = Posted("CHARGED")
                \/ /\ inflight[r].seen.payment # "AUTHORIZED"
                   /\ UNCHANGED <<intent, events>>
             /\ GoOn(r, "write")
             /\ UNCHANGED <<plan, order, listing, payment, credits, clock>>
    <3>1. inflight[r].seen.payment # "NONE" => Online
      BY <2>2, OfficeReads DEF StillTrue
    <3>2. MoneyFits'
      BY <2>2, <3>1
         DEF Capturable, Posted, SInv, SerialInv, DbFits, MoneyFits, RowNeverOverstates, Online
    <3>3. NothingStale'
      BY <1>b, <2>2 DEF Taken
    <3>4. Outside
      BY <2>2 DEF Outside, DealStep, Frozen, HandedOver, Captured, At
    <3> QED
      BY <2>2, <3>2, <3>3, <3>4, RowsKept DEF Good, SerialInv, DbFits
  <2>3. CASE /\ At(r, "releaseEscrow", "write")
             /\ order' = [order EXCEPT !.status = "COMPLETED", !.completedAt = TRUE,
                                       !.escrowHeld = FALSE]
             /\ listing' = "SOLD"
             /\ payment' = IF inflight[r].seen.payment = "AUTHORIZED" THEN "CAPTURED" ELSE payment
             /\ Finish(r)
             /\ UNCHANGED <<plan, intent, events, credits, clock>>
    <3>1. /\ inflight[r] # Idle
          /\ order.status \in {"COMPLETED", "REFUNDED"} => OVERLAP
          /\ inflight[r].seen.payment # "NONE" => Online
          /\ inflight[r].seen.payment = "AUTHORIZED" => plan.mock \/ intent = "CHARGED"
      BY <2>3, OfficeReads DEF StillTrue, At
    <3>2. RowGood
      BY <2>3, <3>1, OfficeRow, Closes DEF At
    <3>3. MoneyFits'
      BY <2>3, <3>1 DEF SInv, SerialInv, DbFits, MoneyFits, RowNeverOverstates, Online
    <3> QED
      BY <2>3, <3>1, <3>2, <3>3, <1>a
  <2> QED
    BY <1>2, <2>1, <2>2, <2>3 DEF ReleaseEscrow
<1> QED
  BY <1>1, <1>2

\* The sweeps.
LEMMA SellerAckSweepGood ==
  ASSUME SInv, OneRequest, SweepSellerAckTimeout
  PROVE  Good
<1> CRON \in Slots
  BY DEF Slots
<1>1. CASE order.status = "SELLER_ACK_PENDING" /\ Start(CRON, "sweepSellerAckTimeout")
  <2>1. StillDue([op |-> "sweepSellerAckTimeout", at |-> "write", arg |-> "NONE",
                  seen |-> Unread])
    BY DEF StillDue
  <2> QED
    BY <1>1, <2>1, Begun DEF Start
<1>2. CASE /\ At(CRON, "sweepSellerAckTimeout", "write")
           /\ order.status = "SELLER_ACK_PENDING"
           /\ RefundTx([order EXCEPT !.custodyHeld = FALSE])
           /\ Finish(CRON)
  <2> DEFINE row == [order EXCEPT !.custodyHeld = FALSE]
  <2>1. inflight[CRON] # Idle /\ (order.repaid \/ ~order.custodyHeld)
    BY <1>2, Sweeping, Row DEF HeldStatuses
  <2>2. /\ row \in OrderRow /\ row.history = order.history
        /\ row.rePhotoCount = order.rePhotoCount /\ ~row.custodyHeld
        /\ row.cashoutEligible = order.cashoutEligible
        /\ row.returnPhotos = order.returnPhotos
        /\ row.repaid = order.repaid /\ row.verdict = order.verdict
    BY Row DEF OrderRow
  <2> HIDE DEF row
  <2> QED
    BY <1>2, <2>1, <2>2, Refunds DEF row
<1>3. CASE At(CRON, "sweepSellerAckTimeout", "write") /\ UNCHANGED db /\ Finish(CRON)
  BY <1>3, Sweeping, Nothing
<1> QED
  BY <1>1, <1>2, <1>3 DEF SweepSellerAckTimeout

LEMMA ShipSweepGood ==
  ASSUME SInv, OneRequest, SweepShipAutoComplete
  PROVE  Good
<1> CRON \in Slots
  BY DEF Slots
<1>1. CASE /\ order.status = "SHIPPED_TO_BUYER"
           /\ StartWith(CRON, "sweepShipAutoComplete", "captureFirst", "NONE", Unread)
  <2>1. ParcelOut
    BY <1>1 DEF SInv, SerialInv, DbFits, ItemFits
  <2>2. StillDue([op |-> "sweepShipAutoComplete", at |-> "captureFirst", arg |-> "NONE",
                  seen |-> Unread])
    BY <2>1 DEF StillDue
  <2> QED
    BY <1>1, <2>2, Begun
<1>2. CASE /\ At(CRON, "sweepShipAutoComplete", "write")
           /\ order.status = "SHIPPED_TO_BUYER"
           /\ CompleteTx([order EXCEPT !.escrowHeld = FALSE]) /\ Finish(CRON)
  BY <1>2, Sweeping, Released, Completes
<1>3. CASE At(CRON, "sweepShipAutoComplete", "write") /\ UNCHANGED db /\ Finish(CRON)
  BY <1>3, Sweeping, Nothing
<1> QED
  BY <1>1, <1>2, <1>3 DEF SweepShipAutoComplete

LEMMA PaymentSweepGood ==
  ASSUME SInv, OneRequest, SweepPaymentExpired
  PROVE  Good
<1> CRON \in Slots
  BY DEF Slots
\* The row of an order that lapses, with or without its listing.
<1>a. ASSUME order.status = "AWAITING_PAYMENT", order'.status = "PAYMENT_EXPIRED",
             order'.history = order.history, order'.rePhotoCount = order.rePhotoCount,
             order'.custodyHeld = order.custodyHeld,
             order'.cashoutEligible = order.cashoutEligible /\ order'.repaid = order.repaid,
             order'.returnPhotos = order.returnPhotos,
             listing' \in {listing, "ACTIVE"}, UNCHANGED <<plan, credits>>
      PROVE  RowGood
  <2>1. TrailFits'
    BY <1>a, Trail DEF SInv, SerialInv, DbFits, TrailFits, PhotoRoundsAddUp
  <2>2. CreditFits' /\ ItemFits'
    BY <1>a DEF SInv, SerialInv, DbFits, CreditFits, CreditedOnce, ItemFits, HeldStatuses
  <2>3. DealStep /\ Frozen /\ HandedOver /\ (ParcelOut => ParcelOut')
    BY <1>a DEF DealStep, DealOf, D!Next, D!Lapse, Frozen, HandedOver, ParcelOut
  <2> QED
    BY <2>1, <2>2, <2>3 DEF RowGood
<1>1. CASE /\ order.status = "AWAITING_PAYMENT"
           /\ inflight[CRON] = Idle
           /\ OVERLAP \/ \A s \in Slots : inflight[s] = Idle
           /\ SetStatus("PAYMENT_EXPIRED") /\ UNCHANGED inflight
  <2>1. /\ order'.status = "PAYMENT_EXPIRED"
        /\ order'.history = order.history /\ order'.rePhotoCount = order.rePhotoCount
        /\ order'.custodyHeld = order.custodyHeld
        /\ order'.cashoutEligible = order.cashoutEligible /\ order'.repaid = order.repaid
        /\ order'.returnPhotos = order.returnPhotos
        /\ UNCHANGED <<plan, listing, payment, intent, events, credits>>
    BY <1>1, Row DEF SetStatus, SetOrder, OrderRow
  <2>2. RowGood
    BY <1>1, <2>1, <1>a
  <2>3. SweepKeeps
    BY <1>1, <2>1 DEF SweepKeeps, Swept
  <2>4. ASSUME NEW s \in Slots, inflight'[s] # Idle
        PROVE  Rests(s)'
    <3>1. inflight[s] # Idle /\ inflight'[s] = inflight[s]
      BY <1>1, <2>4
    <3>2. s # CRON /\ OVERLAP
      BY <1>1, <3>1
    <3> QED
      BY <2>3, <3>1, <3>2, RestsOn
  <2>5. NothingStale'
    BY <1>1, <2>4 DEF NothingStale, OneAtATime, SInv, SerialInv
  <2> QED
    BY <1>1, <2>1, <2>2, <2>5, MoneyKept DEF Good, SerialInv, DbFits, Outside, RowGood, Captured
<1>2. CASE /\ order.status = "AWAITING_PAYMENT"
           /\ StartWith(CRON, "sweepPaymentExpired",
                        IF payment = "PENDING_AUTH" THEN "void" ELSE "write", "NONE", Unread)
  <2>1. payment = "PENDING_AUTH" => Online
    BY DEF SInv, SerialInv, DbFits, MoneyFits
  <2>2. CASE payment = "PENDING_AUTH"
    <3>1. StillDue([op |-> "sweepPaymentExpired", at |-> "void", arg |-> "NONE",
                    seen |-> Unread])
      BY <2>1, <2>2 DEF StillDue
    <3> QED
      BY <1>2, <2>2, <3>1, Begun
  <2>3. CASE payment # "PENDING_AUTH"
    <3>1. StillDue([op |-> "sweepPaymentExpired", at |-> "write", arg |-> "NONE",
                    seen |-> Unread])
      BY DEF StillDue
    <3> QED
      BY <1>2, <2>3, <3>1, Begun
  <2> QED
    BY <2>2, <2>3
<1>3. CASE /\ At(CRON, "sweepPaymentExpired", "void") /\ TryVoid /\ GoOn(CRON, "write")
           /\ UNCHANGED <<plan, order, listing, payment, credits, clock>>
  <2>1. inflight[CRON] # Idle /\ Online
    BY <1>3, Sweeping DEF StillDue, At
  <2>2. MoneyFits'
    BY <1>3, <2>1, VoidFits
  <2>3. inflight'[CRON].op = "sweepPaymentExpired" /\ inflight'[CRON].at = "write"
    BY <1>3 DEF SInv, IInv, TypeOK, Flight, GoOn, At
  <2>4. Rests(CRON)'
    BY <2>3 DEF Rests, StillDue
  <2>5. /\ events \subseteq events'
        /\ ~plan.mock /\ intent \in {"CHARGED", "REFUNDED"} => intent' = intent
    BY <1>3 DEF TryVoid, Voided, Posted
  <2>6. NothingStale'
    BY <1>3, <2>1, <2>4, <2>5, SparedRows, Onward
  <2>7. UNCHANGED intent \/ intent # "HELD" \/ intent' # "CHARGED"
    BY <1>3 DEF TryVoid, Voided
  <2> QED
    BY <1>3, <2>2, <2>6, <2>7, RowsKept, Unseen DEF Good, SerialInv, DbFits
<1>4. CASE /\ At(CRON, "sweepPaymentExpired", "write")
           /\ order.status = "AWAITING_PAYMENT"
           /\ order' = [order EXCEPT !.status = "PAYMENT_EXPIRED", !.escrowHeld = FALSE]
           /\ listing' = "ACTIVE"
           /\ payment' = IF payment = "PENDING_AUTH" THEN "CANCELLED" ELSE payment
           /\ UNCHANGED <<plan, intent, events, credits, clock>>
           /\ Finish(CRON)
  <2>1. inflight[CRON] # Idle
    BY <1>4, Sweeping
  <2>2. /\ order'.status = "PAYMENT_EXPIRED"
        /\ order'.history = order.history /\ order'.rePhotoCount = order.rePhotoCount
        /\ order'.custodyHeld = order.custodyHeld
        /\ order'.cashoutEligible = order.cashoutEligible /\ order'.repaid = order.repaid
        /\ order'.returnPhotos = order.returnPhotos
    BY <1>4, Row DEF OrderRow
  <2>3. RowGood
    BY <1>4, <1>a, <2>2
  <2>4. MoneyFits'
    BY <1>4 DEF SInv, SerialInv, DbFits, MoneyFits, RowNeverOverstates, Online
  <2>5. SweepKeeps
    BY <1>4, <2>2 DEF SweepKeeps, Swept
  <2>6. NothingStale'
    BY <1>4, <2>1, <2>5, Done DEF Spares
  <2> QED
    BY <1>4, <2>3, <2>4, <2>6 DEF Good, SerialInv, DbFits, Outside, RowGood, Captured
<1>5. CASE At(CRON, "sweepPaymentExpired", "write") /\ UNCHANGED db /\ Finish(CRON)
  BY <1>5, Sweeping, Nothing
<1> QED
  BY <1>1, <1>2, <1>3, <1>4, <1>5 DEF SweepPaymentExpired

LEMMA SweepsGood ==
  ASSUME SInv, OneRequest, SweepStep
  PROVE  Good
BY SellerAckSweepGood, ShipSweepGood, PaymentSweepGood DEF SweepStep

\* A capture succeeds only where the verdict, or the lack of an authenticator,
\* allows it; an order without an authenticator was paid offline.
LEMMA CaptureGood ==
  ASSUME SInv, OneRequest, NEW r \in Slots, TryCapture(r)
  PROVE  Good
<1>1. /\ inflight[r] # Idle /\ Rests(r)
      /\ UNCHANGED <<plan, order, listing, credits, clock>>
  BY DEF TryCapture, Idle, SInv, SerialInv, NothingStale, db
<1>2. inflight[r].at \in {"captureFirst", "captureLast"} =>
        IF r = CRON THEN inflight[r].op = "sweepShipAutoComplete" /\ ParcelOut
        ELSE \/ inflight[r].op \in VerdictOps /\ inflight[r].arg = "PASSED"
             \/ inflight[r].op = "confirmDelivered" /\ ~plan.auth
  BY <1>1 DEF Rests, StillTrue, StillDue
<1>3. inflight[r].at \in {"rowFirst", "rowLast"} => Taken /\ Online
  BY <1>1 DEF Rests, StillTrue, StillDue
<1> DEFINE Captures ==
             /\ inflight[r].at \in {"captureFirst", "captureLast"}
             /\ payment = "AUTHORIZED" /\ Capturable /\ Online
             /\ intent' = "CHARGED" /\ events' = Posted("CHARGED") /\ UNCHANGED payment
             /\ GoOn(r, IF inflight[r].at = "captureFirst" THEN "rowFirst" ELSE "rowLast")
           Follows ==
             /\ UNCHANGED <<intent, events>>
             /\ payment' = payment \/ (payment' = "CAPTURED" /\ Taken /\ Online)
             /\ IF inflight[r].at \in {"captureFirst", "rowFirst"} THEN GoOn(r, "write")
                                                                   ELSE Finish(r)
<1>4. Captures \/ Follows
  <2>1. payment = "AUTHORIZED" => Online
    BY DEF SInv, SerialInv, DbFits, MoneyFits
  <2> QED
    BY <1>3, <2>1 DEF TryCapture, db
<1>5. MoneyFits'
  <2>1. CASE Captures
    BY <1>1, <2>1
       DEF Capturable, Posted, SInv, SerialInv, DbFits, MoneyFits, RowNeverOverstates, Online
  <2>2. CASE Follows
    BY <1>1, <2>2 DEF Taken, SInv, SerialInv, DbFits, MoneyFits, RowNeverOverstates, Online
  <2> QED
    BY <1>4, <2>1, <2>2
<1>6. Spares(r)
  <2>1. /\ events \subseteq events' /\ (Taken => Taken')
        /\ ~plan.mock /\ intent \in {"CHARGED", "REFUNDED"} => intent' = intent
    BY <1>1, <1>4 DEF Capturable, Posted, Taken
  <2> QED
    BY <1>1, <2>1, SparedRows
<1>7. ASSUME NEW step \in {"write", "rowFirst", "rowLast"}, GoOn(r, step),
             step \in {"rowFirst", "rowLast"} => Taken' /\ Online,
             step # "rowLast" => inflight[r].at \in {"captureFirst", "rowFirst"},
             step = "rowLast" => inflight[r].at = "captureLast"
      PROVE  NothingStale'
  <2>1. /\ inflight'[r].op = inflight[r].op /\ inflight'[r].at = step
        /\ inflight'[r].seen = inflight[r].seen /\ inflight'[r].arg = inflight[r].arg
    BY <1>7 DEF SInv, IInv, TypeOK, Flight, GoOn
  <2>2. Online' = Online /\ ParcelOut' = ParcelOut /\ LastOpen' = LastOpen
    BY <1>1 DEF Online, ParcelOut, LastOpen
  <2>3. CASE r = CRON
    <3>1. inflight[r].op = "sweepShipAutoComplete" /\ ParcelOut /\ step # "rowLast"
      BY <1>1, <1>7, <2>3 DEF Rests, StillDue
    <3>2. Rests(r)'
      BY <1>7, <2>1, <2>2, <2>3, <3>1 DEF Rests, StillDue
    <3> QED
      BY <1>1, <1>6, <1>7, <3>2, Onward
  <2>4. CASE r # CRON
    <3>1. StillTrue(inflight[r])
      BY <1>1, <2>4 DEF Rests
    <3>2. inflight[r].op \in VerdictOps \cup {"confirmDelivered"}
      BY <1>7, <3>1 DEF StillTrue
    <3>3. StillIn(inflight[r].op)' = StillIn(inflight[r].op)
      BY <1>1, <2>1 DEF StillIn
    <3>4. StillTrue(inflight[r])'
      BY <1>1, <1>7, <2>1, <2>2, <3>1, <3>2, <3>3 DEF StillTrue, VerdictOps
    <3>5. Rests(r)'
      BY <2>4, <3>4 DEF Rests
    <3> QED
      BY <1>1, <1>6, <1>7, <3>5, Onward
  <2> QED
    BY <2>3, <2>4
<1>8. NothingStale'
  <2>1. CASE Captures
    BY <1>7, <2>1 DEF Taken
  <2>2. CASE Follows /\ inflight[r].at \in {"captureFirst", "rowFirst"}
    BY <1>7, <2>2
  <2>3. CASE Follows /\ inflight[r].at \notin {"captureFirst", "rowFirst"}
    BY <1>1, <1>6, <2>3, Done
  <2> QED
    BY <1>4, <2>1, <2>2, <2>3
<1>9. Captured
  <2>1. SUFFICES ASSUME Captures, intent = "HELD", ~order.repaid
                 PROVE  order.evidence /\ (order.verdict = "PASSED" \/ inflight[r].arg = "PASSED")
    BY <1>4 DEF Captured
  <2>2. plan.auth
    BY <2>1, PlanIsLegal DEF Online, SInv, IInv, LegalPlan, MEETUP_METHODS
  <2>3. CASE inflight[r].op \in VerdictOps /\ inflight[r].arg = "PASSED"
    <3>1. OpFits(inflight[r].op)
      BY DEF SInv, IInv, SlotsFit
    <3> QED
      BY <2>3, <3>1 DEF OpFits
  <2>4. CASE ParcelOut
    <3>1. order.verdict = "PASSED"
      BY <2>1, <2>2, <2>4 DEF ParcelOut
    <3> QED
      BY <3>1 DEF SInv, IInv, RowsFit, VerdictRestsOnEvidence
  <2> QED
    BY <1>2, <2>1, <2>2, <2>3, <2>4
<1>10. Outside
  BY <1>1, <1>9 DEF Outside, DealStep, Frozen, HandedOver
<1> QED
  BY <1>1, <1>5, <1>8, <1>10, RowsKept DEF Good, SerialInv, DbFits

\* The buyer at the gateway and the clock, between a read and its write; a failure.
LEMMA OthersGood ==
  ASSUME SInv, OneRequest, BuyerPays \/ TimePasses \/ \E r \in Slots : Fail(r)
  PROVE  Good
<1>1. CASE BuyerPays \/ TimePasses
  <2>1. UNCHANGED <<plan, order, listing, payment, credits, inflight>>
    BY <1>1 DEF BuyerPays, TimePasses
  <2>2. MoneyFits'
    <3>1. CASE BuyerPays
      BY <3>1 DEF BuyerPays, Paid1, SInv, SerialInv, DbFits, MoneyFits, RowNeverOverstates, Online
    <3>2. CASE TimePasses
      BY <3>2, MoneyKept DEF TimePasses
    <3> QED
      BY <1>1, <3>1, <3>2
  <2>3. events \subseteq events' /\ (UNCHANGED intent \/ intent = "OPEN")
    BY <1>1 DEF BuyerPays, TimePasses
  <2>4. SweepKeeps /\ RequestKeeps /\ order'.status = order.status
    BY <2>1, <2>3 DEF SweepKeeps, RequestKeeps, ParcelOut, Taken
  <2>5. ASSUME NEW s \in Slots, inflight'[s] # Idle
        PROVE  Rests(s)'
    BY <2>1, <2>4, <2>5, RestsOn
  <2>6. NothingStale'
    BY <2>1, <2>5 DEF SInv, SerialInv, NothingStale, OneAtATime
  <2> QED
    BY <2>1, <2>2, <2>3, <2>6, RowsKept, Unseen DEF Good, SerialInv, DbFits
<1>2. ASSUME NEW r \in Slots, Fail(r)
      PROVE  Good
  BY <1>2, Nothing DEF Fail
<1> QED
  BY <1>1, <1>2

-----------------------------------------------------------------------------
(* The theorems.                                                           *)

\* The initial states: nothing is in flight, and an order of the older flow was
\* paid online.
LEMMA InitSerial ==
  ASSUME Init
  PROVE  SerialInv /\ D!Init
<1>1. NothingStale /\ plan.mock \in BOOLEAN
  BY OrderFlowAssumption DEF Init, InitDraft, InitLegacy, NothingStale, OneAtATime, LegalPlans
<1>2. CASE InitDraft
  <2>1. DbFits
    BY <1>2, OrderFlowAssumption
       DEF Init, InitDraft, NewOrder, DbFits, TrailFits, PhotoRoundsAddUp, CreditFits,
           CreditedOnce, ItemFits, HeldStatuses, MoneyFits, RowNeverOverstates
  <2> QED
    BY <1>1, <1>2, <2>1 DEF InitDraft, NewOrder, SerialInv, D!Init, DealOf
<1>3. CASE InitLegacy
  <2>1. /\ order.status \in {"AUTH_RECEIVED_PENDING_SELLER_ACK", "DELIVERED_PENDING_AUTH_ACK",
                             "DELIVERED"}
        /\ order.history = <<>> /\ order.rePhotoCount = 0
        /\ order.custodyHeld = FALSE /\ order.cashoutEligible = FALSE
        /\ order.repaid = FALSE
    BY <1>3 DEF InitLegacy, NewOrder
  <2>2. Online
    BY <1>3, OrderFlowAssumption DEF InitLegacy, LegalPlans, LegalPlan, Online, MEETUP_METHODS
  <2>3. MoneyFits
    BY <1>3, <2>2 DEF Init, InitLegacy, Paid1, MoneyFits, RowNeverOverstates
  <2>4. TrailFits /\ CreditFits /\ ItemFits
    BY <2>1, OrderFlowAssumption
       DEF Init, TrailFits, PhotoRoundsAddUp, CreditFits, CreditedOnce, ItemFits, HeldStatuses
  <2> QED
    BY <1>1, <1>3, <2>1, <2>3, <2>4 DEF InitLegacy, SerialInv, DbFits, D!Init, DealOf
<1> QED
  BY <1>2, <1>3 DEF Init

\* Every step, failures included.
LEMMA StepGood ==
  ASSUME SInv, OneRequest, [Next]_vars
  PROVE  SerialInv' /\ (Outside \/ UNCHANGED vars)
<1>1. ASSUME NEW r \in Requests, UserStep(r)
      PROVE  Good
  BY <1>1, CheckoutGood, MockGood, GatewayGood, ParcelGood, VerdictGood, MeetupGood, HandoverGood,
     ReturnGood, OfficeGood DEF UserStep
<1>2. CASE UNCHANGED vars
  <2>1. UNCHANGED <<plan, order, payment, intent, events, credits, inflight>>
    BY <1>2 DEF vars
  <2>2. SweepKeeps /\ RequestKeeps /\ order'.status = order.status
    BY <2>1 DEF SweepKeeps, RequestKeeps, ParcelOut, Taken
  <2>3. ASSUME NEW s \in Slots, inflight'[s] # Idle
        PROVE  Rests(s)'
    BY <2>1, <2>2, <2>3, RestsOn
  <2>4. NothingStale'
    BY <2>1, <2>3 DEF SInv, SerialInv, NothingStale, OneAtATime
  <2> QED
    BY <1>2, <2>1, <2>4, RowsKept, MoneyKept DEF SerialInv, DbFits
<1> QED
  BY <1>1, <1>2, SweepsGood, CaptureGood, OthersGood DEF Next, Good

\* What holds with one request at a time, whatever the sweeps do meanwhile:
\* the rows fit each other, and what a request has read is still true when it
\* writes, up to what a sweep tests again.
THEOREM OneAtATimeInvariance ==
  ASSUME OneRequest
  PROVE  Spec => []SInv
<1>1. Init => SerialInv
  BY InitSerial
<1>2. IInv /\ SerialInv /\ [Next]_vars => SerialInv'
  BY StepGood DEF SInv
<1> QED
  BY <1>1, <1>2, Invariance, PTL DEF Spec, SInv

\* The photo rounds of every order tell the story of its handover, even when the
\* sweep for silent sellers takes the order while a round is being written, until
\* a late confirm-mock pays the order a second time.
THEOREM RoundsAddUp ==
  ASSUME OneRequest
  PROVE  Spec => []PhotoRoundsAddUp
<1>1. SInv => PhotoRoundsAddUp
  BY DEF SInv, SerialInv, DbFits, TrailFits
<1> QED
  BY <1>1, OneAtATimeInvariance, PTL

\* The authenticator is credited once, for an order the flow completed and nobody
\* paid a second time.  Not so beside a sweep: a dispute read before it overwrites
\* the completed order.
THEOREM CreditOnce ==
  ASSUME ~OVERLAP
  PROVE  Spec => []CreditedOnce
<1>1. SInv => CreditedOnce
  BY DEF SInv, SerialInv, DbFits, CreditFits
<1>2. Spec => []SInv
  BY OneAtATimeInvariance DEF OneRequest
<1> QED
  BY <1>1, <1>2, PTL

\* The Payment row never claims more than the gateway did, whichever step of a
\* handler fails, however late or often its events arrive, and whatever a sweep
\* captured or cancelled in between; the mock gateway keeps no books to compare.
THEOREM RowIsBacked ==
  ASSUME OneRequest
  PROVE  Spec => []RowNeverOverstates
<1>1. SInv => RowNeverOverstates
  BY DEF SInv, SerialInv, DbFits, MoneyFits
<1> QED
  BY <1>1, OneAtATimeInvariance, PTL

\* Only the back office moves a disputed order, and only to an end: no sweep that
\* read the order before the dispute writes over it.  The exception is a late
\* confirm-mock, which makes the order PAID.
THEOREM DisputeFreezes ==
  ASSUME OneRequest
  PROVE  Spec => DisputeFreezesOrder
<1>1. SInv /\ [Next]_vars => [Frozen]_vars
  BY StepGood DEF Outside
<1>2. Spec => [][Frozen]_vars
  BY <1>1, OneAtATimeInvariance, PTL DEF Spec
<1> QED
  BY <1>2 DEF Frozen, DisputeFreezesOrder

\* The item leaves custody into the buyer's hands or back into the seller's, in an
\* order that was not paid a second time.
THEOREM CustodyEnds ==
  ASSUME OneRequest
  PROVE  Spec => CustodyEndsInHandover
<1>1. SInv /\ [Next]_vars => [HandedOver]_vars
  BY StepGood DEF Outside
<1>2. Spec => [][HandedOver]_vars
  BY <1>1, OneAtATimeInvariance, PTL DEF Spec
<1> QED
  BY <1>2 DEF HandedOver, CustodyEndsInHandover

\* A hold is charged on a verdict that rests on evidence, or by the back office.
THEOREM CaptureRestsOnVerdict ==
  ASSUME OneRequest
  PROVE  Spec => CaptureNeedsVerdict
<1>1. SInv /\ [Next]_vars => [Captured]_vars
  BY StepGood DEF Outside
<1>2. Spec => [][Captured]_vars
  BY <1>1, OneAtATimeInvariance, PTL DEF Spec
<1> QED
  BY <1>2 DEF Captured, CaptureNeedsVerdict

\* Seen from outside, an order is a deal: every step of every handler, sweep,
\* webhook and back-office call is a step of Deal or changes nothing of it.  A deal
\* that may end only once is what this says where the gateway is real; the mock's
\* confirmation opens an ended deal again, with the item where the end left it.
THEOREM OrderImplementsDeal ==
  ASSUME ~OVERLAP
  PROVE  Spec => ImplementsDeal
<1>1. Init => D!Init
  BY InitSerial
<1>2. SInv /\ [Next]_vars => [D!Next]_<<DealOf(order.status), listing, plan.mock>>
  BY StepGood DEF Outside, DealStep, OneRequest, vars
<1>3. Spec => []SInv
  BY OneAtATimeInvariance DEF OneRequest
<1> QED
  BY <1>1, <1>2, <1>3, PTL DEF Spec, ImplementsDeal, D!Spec

=============================================================================
