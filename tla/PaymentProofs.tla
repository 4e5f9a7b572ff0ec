--------------------------- MODULE PaymentProofs ----------------------------
(***************************************************************************)
(* Proofs about PaymentFlow, for any number of intents and requests, and     *)
(* whether or not behaviours end with the first cause.                       *)
(*                                                                         *)
(* MoneyOnRecord and ExpiredKeepsNoMoney speak of states at rest.  What is    *)
(* behind them while requests and events are in flight is FlowInv: no intent  *)
(* is on two rows (IntentsApart), what the gateway says of one is so          *)
(* (GatewayFits), the mock posts nothing and an order it took money for is     *)
(* paid or about to be (MockFits), and, as long as none of the causes has       *)
(* happened that leave money where the rows do not say, a cancelled row has no   *)
(* open intent (CancelledAreVoided), money that was taken is told of until it     *)
(* is on record (MoneyIsToldOf), a reported payment is void only if it is being    *)
(* cancelled, or was (PaidThenVoided), an order flagged as held has money or is     *)
(* being cancelled (EscrowIsBacked), and an expired one has let go of every          *)
(* intent a page holds (ExpiredAreVoided).  The mock may confirm what was void,       *)
(* so CancelledAreVoided and ExpiredAreVoided are about the gateway only.            *)
(***************************************************************************)
EXTENDS PaymentFlow, FiniteSetTheorems, SequenceTheorems, TLAPS

-----------------------------------------------------------------------------
(* The invariant. *)

\* Requests that had the gateway make an intent and have yet to put it on a row.
Making == { r \in requests : r.op = "create" /\ r.at = "read" }

\* What a request refers to.
RequestFits(r) ==
    /\ r.row \in RowIds \cup {NoRow}
    /\ r.intent \in IntentIds \cup {0}
    /\ r.todo \subseteq [row : RowIds, ref : IntentIds]
    /\ r.seen \subseteq [row : RowIds, ref : IntentIds]
    /\ r.op = "create" => r.intent \in IntentIds
    /\ r.op \in {"event", "confirm"} \/ r.at \in {"linked", "voided"} => r.row \in RowIds /\ r.intent \in IntentIds
    /\ r.at \in {"confirmed", "declined"} => r.op = "confirm"
    /\ r.op = "event" => r.kind # ""

\* Every row was made for an intent of its own, so there are no more of them.
FlowFits ==
    /\ Len(intents) <= MAX_INTENTS
    /\ IsFiniteSet(requests)
    /\ Cardinality(Making) + Len(rows) <= Len(intents)
    /\ \A r \in requests : RequestFits(r)

FlowTyped == FlowTypeOK /\ FlowFits

\* An intent is put on one row, by the request it was made for, and only then handed out.
IntentsApart ==
    /\ \A r \in requests, q \in Making : r.op = "create" /\ r.intent = q.intent => r = q
    /\ \A r \in Making : r.intent \notin handedOut /\ \A k \in RowIds : rows[k].ref # r.intent
    /\ \A j, k \in RowIds : rows[j].ref = rows[k].ref => j = k

\* What an event says of its intent.
SaidTruly(kind, i) ==
    /\ kind = "CANCELED" => intents[i] = "CANCELED"
    /\ kind = "PAID" => /\ i \in handedOut
                        /\ IF captureMode = "manual" THEN intents[i] \in {"HELD", "CANCELED"}
                                                     ELSE intents[i] = "CHARGED"

\* An event that is being posted or handled.
Reported(kind, i) ==
    \/ [intent |-> i, kind |-> kind] \in posts
    \/ \E r \in requests : r.op = "event" /\ r.intent = i /\ r.kind = kind

\* Money is held or charged as the order says, on an intent a page holds, and events are true.
GatewayFits ==
    /\ \A i \in IntentIds : /\ intents[i] = "HELD" => captureMode = "manual" /\ (bill.mock \/ i \in handedOut)
                            /\ intents[i] = "CHARGED" => captureMode = "automatic" /\ (bill.mock \/ i \in handedOut)
    /\ \A k \in RowIds : rows[k].status = "AUTHORIZED" => captureMode = "manual"
    /\ \A i \in IntentIds, kind \in {"PAID", "CANCELED"} : Reported(kind, i) => SaidTruly(kind, i)

\* A confirmation the mock has answered, that has yet to be written.
Confirmed(i) == \E r \in requests : r.op = "confirm" /\ r.at = "confirmed" /\ r.intent = i

\* The mock posts nothing, and what it has taken an order was paid with, or is being.
MockFits ==
    /\ bill.mock => posts = {} /\ \A r \in requests : r.op # "event"
    /\ ~bill.mock => \A r \in requests : r.op # "confirm"
    /\ bill.mock /\ NoneOf({"CONFIRM_DIED"}) => bill.status = "PAID" \/ \A i \in Paid : Confirmed(i)

\* No page but the newest was paid on, no call failed, no two requests wrote over each
\* other, and none died between the mock and the rows.
Clean == NoneOf({"CROSSED", "OLD_PAGE", "GATEWAY_ERROR", "CONFIRM_DIED"})
Voided(i) == intents[i] = "CANCELED" \/ (intents[i] = "CHARGED" /\ "LATE_CHARGE" \in causes)
OnRecord(i) == \E k \in RowsIn({"AUTHORIZED", "CAPTURED"}) : rows[k].ref = i

\* What is cancelled here, or about to be, is void at the gateway: the mock may confirm it again.
CancelledAreVoided == ~bill.mock =>
    /\ \A k \in RowIds : rows[k].status = "CANCELLED" => Voided(rows[k].ref)
    /\ \A r \in requests : /\ r.at = "voided" => Voided(r.intent)
                           /\ r.op = "sweep" => \A p \in r.seen \ r.todo : Voided(p.ref)

\* Money has a row, and until the row says so an event is on its way.
MoneyIsToldOf ==
    /\ \A i \in Paid : /\ \E k \in RowIds : rows[k].ref = i
                       /\ [intent |-> i, kind |-> "PAID"] \in posts \/ OnRecord(i) \/ Confirmed(i)
    /\ Awaiting => RowsIn({"AUTHORIZED", "CAPTURED"}) = {}

Cancelling(i) == \E r \in requests : r.op = "cancel" /\ r.at = "voided" /\ r.intent = i

\* A payment that was reported is void only if it is being cancelled, or was.
PaidThenVoided ==
    \A i \in IntentIds : Reported("PAID", i) /\ intents[i] = "CANCELED" =>
        Cancelling(i) \/ (\A k \in RowIds : rows[k].ref = i => rows[k].status = "CANCELLED")

\* An order flagged as held has money, or is being cancelled.
EscrowIsBacked ==
    bill.status = "PAID" /\ bill.escrow =>
        \/ \E r \in requests : r.op = "cancel"
        \/ \E k \in RowsIn({"AUTHORIZED", "CAPTURED"}) : rows[k].ref \in Paid

\* An expired order has let go of every intent a page holds.
ExpiredAreVoided ==
    ~bill.mock /\ bill.status = "PAYMENT_EXPIRED" =>
        \A k \in RowIds : rows[k].ref \in handedOut => intents[rows[k].ref] = "CANCELED"

FlowInv ==
    /\ FlowTyped /\ IntentsApart /\ GatewayFits /\ MockFits
    /\ Clean => CancelledAreVoided /\ MoneyIsToldOf
    /\ Clean /\ NoneOf({"VOIDED_PAID", "CANCEL_DIED", "DECLINED_PAID"}) => PaidThenVoided /\ EscrowIsBacked
    /\ Clean /\ NoneOf({"LATE_INTENT", "LATE_CHARGE", "DECLINED_OPEN"}) => ExpiredAreVoided
-----------------------------------------------------------------------------
(* Rows and intents, as what a step makes of them. *)

LEMMA Listed ==
  ASSUME FlowTypeOK
  PROVE  /\ Len(rows) \in Nat /\ RowIds = 1..Len(rows)
         /\ Len(intents) \in Nat /\ IntentIds = 1..Len(intents)
         /\ \A k \in RowIds : rows[k] \in [status : RowStatuses, ref : IntentIds]
         /\ \A i \in IntentIds : intents[i] \in {"OPEN", "HELD", "CHARGED", "CANCELED"}
<1>1. rows \in Seq([status : RowStatuses, ref : IntentIds]) /\ intents \in Seq({"OPEN", "HELD", "CHARGED", "CANCELED"})
  BY DEF FlowTypeOK
<1>2. Len(rows) \in Nat /\ RowIds = 1..Len(rows)
  BY <1>1, LenProperties DEF RowIds
<1>3. Len(intents) \in Nat /\ IntentIds = 1..Len(intents)
  BY <1>1, LenProperties DEF IntentIds
<1>4. \A k \in RowIds : rows[k] \in [status : RowStatuses, ref : IntentIds]
  BY <1>1, <1>2, ElementOfSeq
<1>5. \A i \in IntentIds : intents[i] \in {"OPEN", "HELD", "CHARGED", "CANCELED"}
  BY <1>1, <1>3, ElementOfSeq
<1> QED
  BY <1>2, <1>3, <1>4, <1>5

\* One row is written.
LEMMA RowWritten ==
  ASSUME FlowTypeOK, NEW k \in RowIds, NEW row \in [status : RowStatuses, ref : IntentIds],
         rows' = [rows EXCEPT ![k] = row]
  PROVE  /\ rows' \in Seq([status : RowStatuses, ref : IntentIds])
         /\ RowIds' = RowIds /\ Len(rows') = Len(rows)
         /\ rows'[k] = row /\ \A j \in RowIds \ {k} : rows'[j] = rows[j]
<1>1. rows \in Seq([status : RowStatuses, ref : IntentIds]) /\ k \in 1..Len(rows)
  BY Listed DEF FlowTypeOK
<1>2. rows' \in Seq([status : RowStatuses, ref : IntentIds]) /\ Len(rows') = Len(rows)
      /\ \A j \in 1..Len(rows) : rows'[j] = IF j = k THEN row ELSE rows[j]
  BY <1>1, ExceptSeq
<1>3. DOMAIN rows' = 1..Len(rows')
  BY <1>2, LenProperties
<1> QED
  BY <1>1, <1>2, <1>3, Listed DEF RowIds

LEMMA RowAdded ==
  ASSUME FlowTypeOK, NEW row \in [status : RowStatuses, ref : IntentIds], rows' = Append(rows, row)
  PROVE  /\ rows' \in Seq([status : RowStatuses, ref : IntentIds])
         /\ Len(rows') = Len(rows) + 1 /\ Len(rows) + 1 \notin RowIds
         /\ RowIds' = RowIds \cup {Len(rows) + 1}
         /\ rows'[Len(rows) + 1] = row /\ \A j \in RowIds : rows'[j] = rows[j]
<1>1. rows \in Seq([status : RowStatuses, ref : IntentIds])
  BY DEF FlowTypeOK
<1>2. rows' \in Seq([status : RowStatuses, ref : IntentIds]) /\ Len(rows') = Len(rows) + 1
      /\ rows'[Len(rows) + 1] = row /\ \A j \in 1..Len(rows) : rows'[j] = rows[j]
  BY <1>1, AppendProperties
<1>3. DOMAIN rows' = 1..Len(rows')
  BY <1>2, LenProperties
<1> QED
  BY <1>2, <1>3, Listed DEF RowIds

\* One intent changes at the gateway.
LEMMA IntentMoved ==
  ASSUME FlowTypeOK, NEW i \in IntentIds, NEW st \in {"OPEN", "HELD", "CHARGED", "CANCELED"},
         intents' = [intents EXCEPT ![i] = st]
  PROVE  /\ intents' \in Seq({"OPEN", "HELD", "CHARGED", "CANCELED"})
         /\ IntentIds' = IntentIds /\ Len(intents') = Len(intents)
         /\ intents'[i] = st /\ \A j \in IntentIds \ {i} : intents'[j] = intents[j]
<1>1. intents \in Seq({"OPEN", "HELD", "CHARGED", "CANCELED"}) /\ i \in 1..Len(intents)
  BY Listed DEF FlowTypeOK
<1>2. intents' \in Seq({"OPEN", "HELD", "CHARGED", "CANCELED"}) /\ Len(intents') = Len(intents)
      /\ \A j \in 1..Len(intents) : intents'[j] = IF j = i THEN st ELSE intents[j]
  BY <1>1, ExceptSeq
<1>3. DOMAIN intents' = 1..Len(intents')
  BY <1>2, LenProperties
<1> QED
  BY <1>1, <1>2, <1>3, Listed DEF IntentIds

LEMMA IntentMade ==
  ASSUME FlowTypeOK, intents' = Append(intents, "OPEN")
  PROVE  /\ intents' \in Seq({"OPEN", "HELD", "CHARGED", "CANCELED"})
         /\ Len(intents') = Len(intents) + 1 /\ Len(intents) + 1 \notin IntentIds
         /\ IntentIds' = IntentIds \cup {Len(intents) + 1}
         /\ intents'[Len(intents) + 1] = "OPEN" /\ \A j \in IntentIds : intents'[j] = intents[j]
<1>1. intents \in Seq({"OPEN", "HELD", "CHARGED", "CANCELED"})
  BY DEF FlowTypeOK
<1>2. intents' \in Seq({"OPEN", "HELD", "CHARGED", "CANCELED"}) /\ Len(intents') = Len(intents) + 1
      /\ intents'[Len(intents) + 1] = "OPEN" /\ \A j \in 1..Len(intents) : intents'[j] = intents[j]
  BY <1>1, AppendProperties
<1>3. DOMAIN intents' = 1..Len(intents')
  BY <1>2, LenProperties
<1> QED
  BY <1>2, <1>3, Listed DEF IntentIds

-----------------------------------------------------------------------------
(* Type correctness. *)

LEMMA MakingFinite ==
  ASSUME FlowTyped
  PROVE  IsFiniteSet(Making) /\ Cardinality(Making) \in Nat
<1>1. Making \in SUBSET requests
  BY DEF Making
<1> QED
  BY <1>1, FS_Subset, FS_CardinalityType DEF FlowTyped, FlowFits

\* What was referred to stays.
LEMMA FitsStay ==
  ASSUME NEW r, RequestFits(r), RowIds \subseteq RowIds', IntentIds \subseteq IntentIds'
  PROVE  RequestFits(r)'
<1>1. [row : RowIds, ref : IntentIds] \subseteq [row : RowIds', ref : IntentIds']
  OBVIOUS
<1>2. [row : RowIds, ref : IntentIds]' = [row : RowIds', ref : IntentIds']
  OBVIOUS
<1> QED
  BY <1>1, <1>2 DEF RequestFits

\* Requests come, go on and leave, none of them with an intent that is not on a row yet.
LEMMA RequestsMove ==
  ASSUME FlowTyped, NEW old, NEW new, requests' = (requests \ old) \cup new, IsFiniteSet(new),
         new \subseteq FlowRequest, \A q \in new : RequestFits(q)' /\ ~(q.op = "create" /\ q.at = "read"),
         IntentIds' = IntentIds, Len(intents') = Len(intents),
         RowIds' = RowIds, Len(rows') = Len(rows)
  PROVE  FlowFits' /\ requests' \subseteq FlowRequest
<1>1. requests' \subseteq FlowRequest
  BY DEF FlowTyped, FlowTypeOK
<1>2. IsFiniteSet(requests')
  <2>1. requests \ old \in SUBSET requests
    OBVIOUS
  <2>2. IsFiniteSet(requests \ old)
    BY <2>1, FS_Subset DEF FlowTyped, FlowFits
  <2> QED
    BY <2>2, FS_Union
<1>3. \A q \in requests' : RequestFits(q)'
  BY FitsStay DEF FlowTyped, FlowFits
<1>4. Making' \in SUBSET Making
  BY DEF Making
<1>5. Cardinality(Making') <= Cardinality(Making) /\ Cardinality(Making') \in Nat
  BY <1>4, MakingFinite, FS_Subset, FS_CardinalityType
<1>6. Cardinality(Making') + Len(rows') <= Len(intents')
  BY <1>5, MakingFinite, Listed DEF FlowTyped, FlowFits
<1>7. Len(intents') <= MAX_INTENTS
  BY DEF FlowTyped, FlowFits
<1> QED
  BY <1>1, <1>2, <1>3, <1>6, <1>7 DEF FlowFits

LEMMA LeaveMoves ==
  ASSUME FlowTyped, NEW r, Leave(r),
         IntentIds' = IntentIds, Len(intents') = Len(intents), RowIds' = RowIds, Len(rows') = Len(rows)
  PROVE  FlowFits' /\ requests' \subseteq FlowRequest
<1>1. requests' = (requests \ {r}) \cup {}
  BY DEF Leave
<1>2. IsFiniteSet({})
  BY FS_EmptySet
<1> QED
  BY <1>1, <1>2, RequestsMove

LEMMA MovesOn ==
  ASSUME FlowTyped, NEW r, NEW s \in FlowRequest, MoveOn(r, s), RequestFits(s)', ~(s.op = "create" /\ s.at = "read"),
         IntentIds' = IntentIds, Len(intents') = Len(intents), RowIds' = RowIds, Len(rows') = Len(rows)
  PROVE  FlowFits' /\ requests' \subseteq FlowRequest
<1>1. requests' = (requests \ {r}) \cup {s}
  BY DEF MoveOn
<1>2. IsFiniteSet({s})
  BY FS_Singleton
<1> QED
  BY <1>1, <1>2, RequestsMove

LEMMA EnterMoves ==
  ASSUME FlowTyped, NEW s \in FlowRequest, Enter(s), RequestFits(s)', ~(s.op = "create" /\ s.at = "read"),
         IntentIds' = IntentIds, Len(intents') = Len(intents), RowIds' = RowIds, Len(rows') = Len(rows)
  PROVE  FlowFits' /\ requests' \subseteq FlowRequest
<1>1. requests' = (requests \ {}) \cup {s}
  BY DEF Enter
<1>2. IsFiniteSet({s})
  BY FS_Singleton
<1> QED
  BY <1>1, <1>2, RequestsMove

\* Nothing at all happens to requests.
LEMMA NoneMoves ==
  ASSUME FlowTyped, UNCHANGED requests,
         IntentIds' = IntentIds, Len(intents') = Len(intents), RowIds' = RowIds, Len(rows') = Len(rows)
  PROVE  FlowFits' /\ requests' \subseteq FlowRequest
<1>1. requests' = (requests \ {}) \cup {}
  OBVIOUS
<1>2. IsFiniteSet({})
  BY FS_EmptySet
<1> QED
  BY <1>1, <1>2, RequestsMove

LEMMA CauseTyped ==
  ASSUME causes \subseteq FlowCauses, NEW what \in SUBSET FlowCauses, Caused(what) \/ UNCHANGED causes
  PROVE  causes' \subseteq FlowCauses
  BY DEF Caused

LEMMA RequestBasics ==
  ASSUME FlowTyped, NEW r \in requests
  PROVE  r \in FlowRequest /\ RequestFits(r)
  BY DEF FlowTyped, FlowTypeOK, FlowFits

LEMMA BegunTyped ==
  ASSUME NEW op \in {"create", "event", "cancel", "sweep", "confirm"}
  PROVE  Begun(op) \in FlowRequest /\ Begun(op).op = op /\ Begun(op).at = "read"
         /\ Begun(op).row = 0 /\ Begun(op).intent = 0 /\ Begun(op).todo = {} /\ Begun(op).seen = {}
  BY PaymentFlowAssumption DEF Begun, FlowRequest, NoRow

LEMMA ToCancelTyped ==
  ASSUME FlowTyped, NEW statuses
  PROVE  /\ ToCancel(statuses) \subseteq [row : RowIds, ref : IntentIds]
         /\ ToCancel(statuses) \subseteq [row : 1..MAX_INTENTS, ref : 1..MAX_INTENTS]
         /\ RowIds \subseteq 1..MAX_INTENTS /\ IntentIds \subseteq 1..MAX_INTENTS
<1>1. Len(rows) <= MAX_INTENTS /\ Len(intents) <= MAX_INTENTS
  BY MakingFinite, Listed, PaymentFlowAssumption DEF FlowTyped, FlowFits
<1>2. RowIds \subseteq 1..MAX_INTENTS /\ IntentIds \subseteq 1..MAX_INTENTS
  BY <1>1, Listed, PaymentFlowAssumption DEF FlowTyped
<1>3. ToCancel(statuses) \subseteq [row : RowIds, ref : IntentIds]
  BY Listed DEF ToCancel, RowsIn, FlowTyped
<1> QED
  BY <1>2, <1>3

\* The sweep cancels what is pending.
LEMMA SweptRows ==
  ASSUME FlowTypeOK,
         rows' = [k \in RowIds |-> IF k \in RowsIn({"PENDING_AUTH"})
                                   THEN [rows[k] EXCEPT !.status = "CANCELLED"] ELSE rows[k]]
  PROVE  /\ rows' \in Seq([status : RowStatuses, ref : IntentIds])
         /\ RowIds' = RowIds /\ Len(rows') = Len(rows)
         /\ \A k \in RowIds : /\ rows'[k].ref = rows[k].ref
                              /\ rows'[k].status = IF rows[k].status = "PENDING_AUTH" THEN "CANCELLED"
                                                   ELSE rows[k].status
<1>1. RowIds = 1..Len(rows) /\ Len(rows) \in Nat
  BY Listed
<1>2. \A k \in RowIds : rows'[k] \in [status : RowStatuses, ref : IntentIds]
  BY Listed DEF RowStatuses
<1>3. rows' \in [1..Len(rows) -> [status : RowStatuses, ref : IntentIds]]
  BY <1>1, <1>2
<1>4. rows' \in Seq([status : RowStatuses, ref : IntentIds])
  BY <1>1, <1>3, SeqDef
<1>5. DOMAIN rows' = 1..Len(rows) /\ DOMAIN rows' = 1..Len(rows') /\ Len(rows') \in Nat
  BY <1>3, <1>4, LenProperties
<1>6. Len(rows') = Len(rows)
  BY <1>1, <1>5
<1>7. \A k \in RowIds : /\ rows'[k].ref = rows[k].ref
                        /\ rows'[k].status = IF rows[k].status = "PENDING_AUTH" THEN "CANCELLED"
                                             ELSE rows[k].status
  BY Listed DEF RowsIn
<1> QED
  BY <1>1, <1>4, <1>5, <1>6, <1>7 DEF RowIds

LEMMA AskTyped == ASSUME FlowTyped, AskForIntent PROVE FlowTyped'
<1> DEFINE n == Len(intents) + 1
<1>a. PICK k : k = IF bill.active \in RowsIn({"PENDING_AUTH"}) THEN bill.active ELSE NoRow
  OBVIOUS
<1>b. PICK r : r = [Begun("create") EXCEPT !.intent = n, !.row = k]
  OBVIOUS
<1>1. FlowTypeOK
  BY DEF FlowTyped
<1>2. intents' = Append(intents, "OPEN") /\ UNCHANGED <<captureMode, bill, rows, handedOut, posts, causes>>
      /\ requests' = requests \cup {r} /\ Len(intents) < MAX_INTENTS
  BY <1>a, <1>b DEF AskForIntent, Enter
<1>3. /\ intents' \in Seq({"OPEN", "HELD", "CHARGED", "CANCELED"})
      /\ Len(intents') = n /\ IntentIds' = IntentIds \cup {n} /\ Len(intents) \in Nat
  BY <1>1, <1>2, IntentMade, Listed
<1>4. k \in RowIds \cup {NoRow} /\ k \in 0..MAX_INTENTS
  BY <1>a, ToCancelTyped, PaymentFlowAssumption DEF RowsIn, NoRow
<1>5. n \in 1..MAX_INTENTS
  BY <1>2, <1>3, PaymentFlowAssumption
<1> HIDE DEF n
<1>6. r \in FlowRequest /\ r.op = "create" /\ r.at = "read" /\ r.intent = n /\ r.row = k /\ r.todo = {} /\ r.seen = {}
  <2>1. r = [op |-> "create", at |-> "read", row |-> k, intent |-> n, kind |-> "",
             awaiting |-> FALSE, todo |-> {}, seen |-> {}]
    BY <1>b DEF Begun
  <2>2. n \in 0..MAX_INTENTS
    BY <1>5
  <2> QED
    BY <1>4, <2>1, <2>2 DEF FlowRequest
<1>7. RequestFits(r)'
  BY <1>2, <1>3, <1>4, <1>6 DEF RequestFits, RowIds
<1>8. \A q \in requests : RequestFits(q)'
  <2>1. RowIds' = RowIds
    BY <1>2 DEF RowIds
  <2> QED
    BY <1>3, <2>1, FitsStay, RequestBasics
<1>9. IsFiniteSet(requests')
  BY <1>2, FS_AddElement DEF FlowTyped, FlowFits
<1>10. Making' \in SUBSET (Making \cup {r})
  BY <1>2 DEF Making
<1>11. Cardinality(Making') <= Cardinality(Making) + 1 /\ Cardinality(Making') \in Nat
  <2>1. IsFiniteSet(Making \cup {r}) /\ Cardinality(Making \cup {r}) <= Cardinality(Making) + 1
    BY MakingFinite, FS_AddElement
  <2>2. IsFiniteSet(Making') /\ Cardinality(Making') <= Cardinality(Making \cup {r})
    BY <1>10, <2>1, FS_Subset
  <2> QED
    BY <2>1, <2>2, MakingFinite, FS_CardinalityType
<1>12. Cardinality(Making') + Len(rows') <= Len(intents') /\ Len(intents') <= MAX_INTENTS
  <2>1. Cardinality(Making) + Len(rows) <= Len(intents) /\ Len(rows') = Len(rows) /\ Len(intents') = Len(intents) + 1
    BY <1>2, <1>3 DEF FlowTyped, FlowFits, n
  <2> QED
    BY <1>1, <1>2, <1>3, <1>11, <2>1, MakingFinite, Listed, PaymentFlowAssumption
<1>13. FlowFits'
  BY <1>2, <1>7, <1>8, <1>9, <1>12 DEF FlowFits
<1>14. rows' \in Seq([status : RowStatuses, ref : IntentIds'])
  <2>1. rows \in Seq([status : RowStatuses, ref : IntentIds])
    BY <1>1 DEF FlowTypeOK
  <2>2. [status : RowStatuses, ref : IntentIds] \subseteq [status : RowStatuses, ref : IntentIds']
    BY <1>3
  <2> QED
    BY <1>2, <2>1, <2>2, SeqMonotonic
<1>15. handedOut' \subseteq IntentIds' /\ posts' \subseteq [intent : IntentIds', kind : {"PAID", "FAILED", "CANCELED"}]
       /\ requests' \subseteq FlowRequest
  BY <1>1, <1>2, <1>3, <1>6 DEF FlowTypeOK
<1>16. FlowTypeOK'
  BY <1>1, <1>2, <1>3, <1>14, <1>15 DEF FlowTypeOK, FlowRequest
<1> QED
  BY <1>13, <1>16 DEF FlowTyped

\* The parts of the type that a step with the same intents and rows keeps.
LEMMA Retyped ==
  ASSUME FlowTyped, FlowFits', requests' \subseteq FlowRequest, IntentIds' = IntentIds,
         UNCHANGED captureMode,
         bill' \in [status : {"AWAITING_PAYMENT", "PAID", "PAYMENT_EXPIRED"}, active : 0..MAX_INTENTS,
                    overdue : BOOLEAN, escrow : BOOLEAN, mock : BOOLEAN],
         rows' \in Seq([status : RowStatuses, ref : IntentIds]),
         intents' \in Seq({"OPEN", "HELD", "CHARGED", "CANCELED"}),
         handedOut' \subseteq IntentIds,
         posts' \subseteq [intent : IntentIds, kind : {"PAID", "FAILED", "CANCELED"}],
         causes' \subseteq FlowCauses
  PROVE  FlowTyped'
<1>1. FlowTypeOK'
  BY DEF FlowTyped, FlowTypeOK, FlowRequest
<1> QED
  BY <1>1 DEF FlowTyped

LEMMA CreateTyped ==
  ASSUME FlowTyped, NEW r \in requests, ReplaceIntent(r) \/ NewRow(r) \/ LinkRow(r)
  PROVE  FlowTyped'
<1>0. FlowTypeOK /\ r \in FlowRequest /\ RequestFits(r)
  BY RequestBasics DEF FlowTyped
<1>1. CASE ReplaceIntent(r)
  <2>1. r.row \in RowIds /\ r.intent \in IntentIds
    BY <1>0, <1>1 DEF ReplaceIntent, RequestFits
  <2>2. [rows[r.row] EXCEPT !.ref = r.intent] \in [status : RowStatuses, ref : IntentIds]
    BY <1>0, <2>1, Listed
  <2>3. rows' = [rows EXCEPT ![r.row] = [rows[r.row] EXCEPT !.ref = r.intent]]
    BY <1>1 DEF ReplaceIntent
  <2>4. rows' \in Seq([status : RowStatuses, ref : IntentIds]) /\ RowIds' = RowIds /\ Len(rows') = Len(rows)
    BY <1>0, <2>1, <2>2, <2>3, RowWritten
  <2>5. UNCHANGED <<captureMode, bill, intents, posts>> /\ Leave(r) /\ handedOut' = handedOut \cup {r.intent}
    BY <1>1 DEF ReplaceIntent
  <2>6. IntentIds' = IntentIds /\ Len(intents') = Len(intents)
    BY <2>5 DEF IntentIds
  <2>7. FlowFits' /\ requests' \subseteq FlowRequest
    BY <2>4, <2>5, <2>6, LeaveMoves
  <2>8. causes' \subseteq FlowCauses
    BY <1>0, <1>1 DEF ReplaceIntent, Caused, CauseIf, FlowTypeOK, FlowCauses
  <2> QED
    BY <1>0, <2>1, <2>4, <2>5, <2>6, <2>7, <2>8, Retyped DEF FlowTypeOK
<1>2. CASE NewRow(r)
  <2>a. PICK s : s = [r EXCEPT !.at = "linked", !.row = Len(rows) + 1]
    OBVIOUS
  <2>1. r.intent \in IntentIds /\ r \in Making /\ r.op = "create"
    BY <1>0, <1>2 DEF NewRow, RequestFits, Making
  <2>2. [status |-> "PENDING_AUTH", ref |-> r.intent] \in [status : RowStatuses, ref : IntentIds]
    BY <2>1 DEF RowStatuses
  <2>3. /\ rows' = Append(rows, [status |-> "PENDING_AUTH", ref |-> r.intent])
        /\ requests' = (requests \ {r}) \cup {s}
        /\ UNCHANGED <<captureMode, bill, intents, handedOut, posts, causes>>
    BY <1>2, <2>a DEF NewRow, MoveOn
  <2>4. /\ rows' \in Seq([status : RowStatuses, ref : IntentIds])
        /\ Len(rows') = Len(rows) + 1 /\ RowIds' = RowIds \cup {Len(rows) + 1}
    BY <1>0, <2>2, <2>3, RowAdded
  <2>5. IntentIds' = IntentIds /\ Len(intents') = Len(intents)
    BY <2>3 DEF IntentIds
  <2>6. Making' = Making \ {r}
    <3>1. s.at = "linked"
      BY <1>0, <2>a DEF FlowRequest
    <3> QED
      BY <2>3, <3>1 DEF Making
  <2>7. Cardinality(Making') = Cardinality(Making) - 1
    BY <2>1, <2>6, MakingFinite, FS_RemoveElement
  <2>8. Cardinality(Making') + Len(rows') <= Len(intents') /\ Len(rows) + 1 <= Len(intents)
        /\ Len(intents) <= MAX_INTENTS /\ Len(intents') <= MAX_INTENTS
    <3>1. Cardinality(Making') \in Nat
      <4>1. IsFiniteSet(Making')
        BY <2>6, MakingFinite, FS_RemoveElement
      <4> QED
        BY <4>1, FS_CardinalityType
    <3>2. Cardinality(Making) + Len(rows) <= Len(intents) /\ Len(intents) <= MAX_INTENTS
      BY DEF FlowTyped, FlowFits
    <3> QED
      BY <1>0, <2>4, <2>5, <2>7, <3>1, <3>2, MakingFinite, Listed, PaymentFlowAssumption
  <2>9. Len(rows) + 1 \in 0..MAX_INTENTS
    BY <1>0, <2>8, Listed, PaymentFlowAssumption
  <2>10. s \in FlowRequest
    BY <1>0, <2>a, <2>9 DEF FlowRequest
  <2>11. s.row = Len(rows) + 1 /\ s.intent = r.intent /\ s.todo = r.todo /\ s.seen = r.seen /\ s.op = "create"
         /\ s.at = "linked"
    BY <1>0, <2>a, <2>1 DEF FlowRequest
  <2>12. \A q \in requests \cup {r} : RequestFits(q)'
    BY <2>4, <2>5, FitsStay, RequestBasics
  <2>13. RequestFits(s)'
    BY <2>1, <2>4, <2>5, <2>11, <2>12 DEF RequestFits
  <2>14. IsFiniteSet(requests')
    <3>1. IsFiniteSet(requests \ {r})
      BY FS_RemoveElement DEF FlowTyped, FlowFits
    <3> QED
      BY <2>3, <3>1, FS_AddElement
  <2>15. FlowFits'
    BY <2>3, <2>8, <2>12, <2>13, <2>14 DEF FlowFits
  <2>16. requests' \subseteq FlowRequest
    BY <1>0, <2>3, <2>10 DEF FlowTypeOK
  <2> QED
    BY <1>0, <2>3, <2>4, <2>5, <2>15, <2>16, Retyped DEF FlowTypeOK
<1>3. CASE LinkRow(r)
  <2>1. r.row \in RowIds /\ r.intent \in IntentIds /\ r.row \in 0..MAX_INTENTS
    BY <1>0, <1>3 DEF LinkRow, RequestFits, FlowRequest
  <2>2. /\ UNCHANGED <<captureMode, rows, intents, posts>> /\ Leave(r) /\ handedOut' = handedOut \cup {r.intent}
        /\ bill' = [bill EXCEPT !.active = r.row]
    BY <1>3 DEF LinkRow
  <2>3. IntentIds' = IntentIds /\ Len(intents') = Len(intents) /\ RowIds' = RowIds /\ Len(rows') = Len(rows)
    BY <2>2 DEF IntentIds, RowIds
  <2>4. FlowFits' /\ requests' \subseteq FlowRequest
    BY <2>2, <2>3, LeaveMoves
  <2>5. causes' \subseteq FlowCauses
    BY <1>0, <1>3 DEF LinkRow, Caused, CauseIf, FlowTypeOK, FlowCauses
  <2>6. bill' \in [status : {"AWAITING_PAYMENT", "PAID", "PAYMENT_EXPIRED"}, active : 0..MAX_INTENTS,
                    overdue : BOOLEAN, escrow : BOOLEAN, mock : BOOLEAN]
    BY <1>0, <2>1, <2>2 DEF FlowTypeOK
  <2> QED
    BY <1>0, <2>1, <2>2, <2>3, <2>4, <2>5, <2>6, Retyped DEF FlowTypeOK
<1> QED
  BY <1>1, <1>2, <1>3

LEMMA GatewayTyped ==
  ASSUME FlowTyped, NEW i \in IntentIds, NEW cause \in SUBSET FlowCauses, CancelAtGateway(i, cause)
  PROVE  /\ intents' \in Seq({"OPEN", "HELD", "CHARGED", "CANCELED"})
         /\ IntentIds' = IntentIds /\ Len(intents') = Len(intents)
         /\ posts' \subseteq [intent : IntentIds, kind : {"PAID", "FAILED", "CANCELED"}]
         /\ causes' \subseteq FlowCauses
<1>0. FlowTypeOK
  BY DEF FlowTyped
<1>1. CASE intents' = [intents EXCEPT ![i] = "CANCELED"] /\ Caused(cause)
           /\ IF bill.mock THEN UNCHANGED posts ELSE ToldOf(i, "CANCELED")
  <2>1. [intent |-> i, kind |-> "CANCELED"] \in [intent : IntentIds, kind : {"PAID", "FAILED", "CANCELED"}]
    OBVIOUS
  <2>2. /\ intents' \in Seq({"OPEN", "HELD", "CHARGED", "CANCELED"})
        /\ IntentIds' = IntentIds /\ Len(intents') = Len(intents)
    BY <1>0, <1>1, IntentMoved
  <2> QED
    BY <1>0, <1>1, <2>1, <2>2 DEF FlowTypeOK, Caused, ToldOf
<1>2. CASE UNCHANGED <<intents, posts>>
           /\ Caused({IF intents[i] = "CHARGED" /\ ~bill.mock THEN "LATE_CHARGE" ELSE "GATEWAY_ERROR"})
  BY <1>0, <1>2 DEF FlowTypeOK, IntentIds, Caused, FlowCauses
<1> QED
  BY <1>1, <1>2 DEF CancelAtGateway

LEMMA BuyerTyped ==
  ASSUME FlowTyped, NEW i \in IntentIds, ConfirmIntent(i)
  PROVE  FlowTyped'
<1>0. FlowTypeOK
  BY DEF FlowTyped
<1>1. UNCHANGED <<captureMode, bill, rows, handedOut, requests>>
  BY DEF ConfirmIntent
<1>2. PICK kind \in {"PAID", "FAILED"} : posts' = posts \cup {[intent |-> i, kind |-> kind]}
  BY DEF ConfirmIntent, ToldOf
<1>3. posts' \subseteq [intent : IntentIds, kind : {"PAID", "FAILED", "CANCELED"}]
  BY <1>0, <1>2 DEF FlowTypeOK
<1>4. /\ intents' \in Seq({"OPEN", "HELD", "CHARGED", "CANCELED"})
      /\ IntentIds' = IntentIds /\ Len(intents') = Len(intents)
  <2>1. CASE intents' = [intents EXCEPT ![i] = WhenPaid]
    BY <1>0, <2>1, IntentMoved DEF WhenPaid
  <2>2. CASE UNCHANGED intents
    BY <1>0, <2>2 DEF FlowTypeOK, IntentIds
  <2> QED
    BY <2>1, <2>2 DEF ConfirmIntent
<1>5. causes' \subseteq FlowCauses
  BY <1>0 DEF ConfirmIntent, Caused, CauseIf, FlowTypeOK, FlowCauses
<1>6. RowIds' = RowIds /\ Len(rows') = Len(rows)
  BY <1>1 DEF RowIds
<1>7. FlowFits' /\ requests' \subseteq FlowRequest
  BY <1>1, <1>4, <1>6, NoneMoves
<1> QED
  BY <1>0, <1>1, <1>3, <1>4, <1>5, <1>7, Retyped DEF FlowTypeOK

LEMMA EventTyped ==
  ASSUME FlowTyped, (\E e \in posts : ReceivePost(e)) \/ (\E r \in requests : HandlePost(r))
  PROVE  FlowTyped'
<1>0. FlowTypeOK
  BY DEF FlowTyped
<1>1. ASSUME NEW e \in posts, ReceivePost(e) PROVE FlowTyped'
  <2>1. UNCHANGED <<captureMode, bill, rows, intents, handedOut, causes>> /\ posts' \subseteq posts
    BY <1>1 DEF ReceivePost
  <2>2. IntentIds' = IntentIds /\ Len(intents') = Len(intents) /\ RowIds' = RowIds /\ Len(rows') = Len(rows)
    BY <2>1 DEF IntentIds, RowIds
  <2>3. e.intent \in IntentIds /\ e.kind \in {"PAID", "FAILED", "CANCELED"}
    BY <1>0 DEF FlowTypeOK
  <2>4. FlowFits' /\ requests' \subseteq FlowRequest
    <3>1. CASE UNCHANGED requests
      BY <2>2, <3>1, NoneMoves
    <3>2. ASSUME NEW k \in RowIds,
                 Enter([Begun("event") EXCEPT !.row = k, !.intent = e.intent, !.kind = e.kind,
                                 !.awaiting = e.kind = "PAID" /\ Awaiting])
          PROVE  FlowFits' /\ requests' \subseteq FlowRequest
      <4>0. PICK b \in BOOLEAN : b = (e.kind = "PAID" /\ Awaiting)
        OBVIOUS
      <4>1. PICK r : r = [Begun("event") EXCEPT !.row = k, !.intent = e.intent, !.kind = e.kind, !.awaiting = b]
        OBVIOUS
      <4>2. k \in 0..MAX_INTENTS /\ e.intent \in 0..MAX_INTENTS
        BY <2>3, ToCancelTyped
      <4>3. r \in FlowRequest /\ r.op = "event" /\ r.at = "read" /\ r.row = k /\ r.intent = e.intent
            /\ r.kind = e.kind /\ r.todo = {} /\ r.seen = {}
        <5>1. r = [op |-> "event", at |-> "read", row |-> k, intent |-> e.intent, kind |-> e.kind,
                   awaiting |-> b, todo |-> {}, seen |-> {}]
          BY <4>1 DEF Begun
        <5> QED
          BY <2>3, <4>0, <4>2, <5>1 DEF FlowRequest
      <4>4. Enter(r)
        BY <3>2, <4>0, <4>1
      <4>5. RequestFits(r)'
        BY <2>2, <2>3, <4>3 DEF RequestFits
      <4> QED
        BY <2>2, <4>3, <4>4, <4>5, EnterMoves
    <3> QED
      BY <1>1, <3>1, <3>2 DEF ReceivePost
  <2> QED
    BY <1>0, <2>1, <2>2, <2>4, Retyped DEF FlowTypeOK
<1>2. ASSUME NEW r \in requests, HandlePost(r) PROVE FlowTyped'
  <2>0. r \in FlowRequest /\ RequestFits(r)
    BY RequestBasics
  <2>1. r.row \in RowIds /\ r.intent \in IntentIds /\ r.kind \in {"PAID", "FAILED", "CANCELED"}
    BY <1>2, <2>0 DEF HandlePost, RequestFits, FlowRequest
  <2>2. RowAfterEvent(r.kind) \in RowStatuses
    BY <2>1 DEF RowAfterEvent, RowAfterPaid, RowStatuses
  <2>3. [rows[r.row] EXCEPT !.status = RowAfterEvent(r.kind)] \in [status : RowStatuses, ref : IntentIds]
    BY <1>0, <2>1, <2>2, Listed
  <2>4. rows' = [rows EXCEPT ![r.row] = [rows[r.row] EXCEPT !.status = RowAfterEvent(r.kind)]]
    BY <1>2 DEF HandlePost
  <2>5. rows' \in Seq([status : RowStatuses, ref : IntentIds]) /\ RowIds' = RowIds /\ Len(rows') = Len(rows)
    BY <1>0, <2>1, <2>3, <2>4, RowWritten
  <2>6. UNCHANGED <<captureMode, intents, handedOut>> /\ posts' \subseteq posts /\ Leave(r)
    BY <1>2 DEF HandlePost
  <2>7. IntentIds' = IntentIds /\ Len(intents') = Len(intents)
    BY <2>6 DEF IntentIds
  <2>8. FlowFits' /\ requests' \subseteq FlowRequest
    BY <2>5, <2>6, <2>7, LeaveMoves
  <2>9. causes' \subseteq FlowCauses
    BY <1>0, <1>2 DEF HandlePost, Caused, CauseIf, FlowTypeOK, FlowCauses
  <2>10. bill' \in [status : {"AWAITING_PAYMENT", "PAID", "PAYMENT_EXPIRED"}, active : 0..MAX_INTENTS,
                    overdue : BOOLEAN, escrow : BOOLEAN, mock : BOOLEAN]
    <3>1. bill' = bill \/ bill' = [bill EXCEPT !.status = "PAID", !.escrow = TRUE]
      BY <1>2 DEF HandlePost
    <3> QED
      BY <1>0, <3>1 DEF FlowTypeOK
  <2> QED
    BY <1>0, <2>5, <2>6, <2>7, <2>8, <2>9, <2>10, Retyped DEF FlowTypeOK
<1> QED
  BY <1>1, <1>2

LEMMA CancelTyped ==
  ASSUME FlowTyped,
         AskToCancel \/ (\E r \in requests : CancelWrite(r) \/ CancelDone(r) \/ \E p \in r.todo : CancelVoid(r, p))
  PROVE  FlowTyped'
<1>0. FlowTypeOK
  BY DEF FlowTyped
<1>1. CASE AskToCancel
  <2>a. PICK todo : todo = ToCancel({"AUTHORIZED", "PENDING_AUTH"})
    OBVIOUS
  <2>b. PICK s : s = [Begun("cancel") EXCEPT !.todo = todo]
    OBVIOUS
  <2>1. UNCHANGED <<captureMode, bill, rows, intents, handedOut, posts, causes>> /\ Enter(s)
    BY <1>1, <2>a, <2>b DEF AskToCancel
  <2>2. IntentIds' = IntentIds /\ Len(intents') = Len(intents) /\ RowIds' = RowIds /\ Len(rows') = Len(rows)
    BY <2>1 DEF IntentIds, RowIds
  <2>3. todo \subseteq [row : RowIds, ref : IntentIds] /\ todo \subseteq [row : 1..MAX_INTENTS, ref : 1..MAX_INTENTS]
    BY <2>a, ToCancelTyped
  <2>4. s \in FlowRequest /\ s.op = "cancel" /\ s.at = "read" /\ s.row = 0 /\ s.intent = 0 /\ s.todo = todo
        /\ s.seen = {}
    <3>1. s = [op |-> "cancel", at |-> "read", row |-> 0, intent |-> 0, kind |-> "",
               awaiting |-> FALSE, todo |-> todo, seen |-> {}]
      BY <2>b DEF Begun, NoRow
    <3>2. 0 \in 0..MAX_INTENTS
      BY PaymentFlowAssumption
    <3>3. todo \in SUBSET [row : 1..MAX_INTENTS, ref : 1..MAX_INTENTS]
          /\ {} \in SUBSET [row : 1..MAX_INTENTS, ref : 1..MAX_INTENTS]
      BY <2>3
    <3> QED
      BY <3>1, <3>2, <3>3 DEF FlowRequest
  <2>5. RequestFits(s)'
    BY <2>2, <2>3, <2>4 DEF RequestFits, NoRow
  <2>6. FlowFits' /\ requests' \subseteq FlowRequest
    BY <2>1, <2>2, <2>4, <2>5, EnterMoves
  <2> QED
    BY <1>0, <2>1, <2>2, <2>6, Retyped DEF FlowTypeOK
<1>2. ASSUME NEW r \in requests, CancelWrite(r) PROVE FlowTyped'
  <2>a. PICK s : s = [r EXCEPT !.at = "read", !.row = NoRow, !.intent = 0]
    OBVIOUS
  <2>0. r \in FlowRequest /\ RequestFits(r)
    BY RequestBasics
  <2>1. r.row \in RowIds /\ r.op = "cancel"
    BY <1>2, <2>0 DEF CancelWrite, RequestFits
  <2>2. [rows[r.row] EXCEPT !.status = "CANCELLED"] \in [status : RowStatuses, ref : IntentIds]
    BY <1>0, <2>1, Listed DEF RowStatuses
  <2>3. rows' = [rows EXCEPT ![r.row] = [rows[r.row] EXCEPT !.status = "CANCELLED"]] /\ MoveOn(r, s)
        /\ UNCHANGED <<captureMode, bill, intents, handedOut, posts>>
    BY <1>2, <2>a DEF CancelWrite
  <2>4. rows' \in Seq([status : RowStatuses, ref : IntentIds]) /\ RowIds' = RowIds /\ Len(rows') = Len(rows)
    BY <1>0, <2>1, <2>2, <2>3, RowWritten
  <2>5. IntentIds' = IntentIds /\ Len(intents') = Len(intents)
    BY <2>3 DEF IntentIds
  <2>6. s \in FlowRequest /\ s.op = "cancel" /\ s.at = "read" /\ s.row = 0 /\ s.intent = 0
        /\ s.todo = r.todo /\ s.seen = r.seen
    <3>1. 0 \in 0..MAX_INTENTS
      BY PaymentFlowAssumption
    <3> QED
      BY <2>0, <2>a, <2>1, <3>1 DEF FlowRequest, NoRow
  <2>7. RequestFits(r)'
    BY <2>0, <2>4, <2>5, FitsStay
  <2>8. RequestFits(s)'
    BY <2>6, <2>7 DEF RequestFits, NoRow
  <2>9. FlowFits' /\ requests' \subseteq FlowRequest
    BY <2>3, <2>4, <2>5, <2>6, <2>8, MovesOn
  <2>10. causes' \subseteq FlowCauses
    BY <1>0, <1>2 DEF CancelWrite, Caused, CauseIf, FlowTypeOK, FlowCauses
  <2> QED
    BY <1>0, <2>3, <2>4, <2>5, <2>9, <2>10, Retyped DEF FlowTypeOK
<1>3. ASSUME NEW r \in requests, CancelDone(r) PROVE FlowTyped'
  <2>1. UNCHANGED <<captureMode, rows, intents, handedOut, posts, causes>> /\ Leave(r)
        /\ bill' = [bill EXCEPT !.escrow = FALSE]
    BY <1>3 DEF CancelDone
  <2>2. IntentIds' = IntentIds /\ Len(intents') = Len(intents) /\ RowIds' = RowIds /\ Len(rows') = Len(rows)
    BY <2>1 DEF IntentIds, RowIds
  <2>3. FlowFits' /\ requests' \subseteq FlowRequest
    BY <2>1, <2>2, LeaveMoves
  <2> QED
    BY <1>0, <2>1, <2>2, <2>3, Retyped DEF FlowTypeOK
<1>4. ASSUME NEW r \in requests, NEW p \in r.todo, CancelVoid(r, p) PROVE FlowTyped'
  <2>a. PICK s : s = [r EXCEPT !.at = "voided", !.row = p.row, !.intent = p.ref, !.todo = @ \ {p}]
    OBVIOUS
  <2>0. r \in FlowRequest /\ RequestFits(r) /\ r.op = "cancel"
    BY <1>4, RequestBasics DEF CancelVoid
  <2>1. p.row \in RowIds /\ p.ref \in IntentIds
    BY <2>0 DEF RequestFits
  <2>2. UNCHANGED <<captureMode, bill, rows, handedOut>> /\ MoveOn(r, s) /\ CancelAtGateway(p.ref, {})
    BY <1>4, <2>a DEF CancelVoid
  <2>3. /\ intents' \in Seq({"OPEN", "HELD", "CHARGED", "CANCELED"})
        /\ IntentIds' = IntentIds /\ Len(intents') = Len(intents)
        /\ posts' \subseteq [intent : IntentIds, kind : {"PAID", "FAILED", "CANCELED"}]
        /\ causes' \subseteq FlowCauses
    BY <2>1, <2>2, GatewayTyped
  <2>4. RowIds' = RowIds /\ Len(rows') = Len(rows)
    BY <2>2 DEF RowIds
  <2>5. p.row \in 0..MAX_INTENTS /\ p.ref \in 0..MAX_INTENTS
    BY <2>1, ToCancelTyped
  <2>6. s \in FlowRequest /\ s.op = "cancel" /\ s.at = "voided" /\ s.row = p.row /\ s.intent = p.ref
        /\ s.todo = r.todo \ {p} /\ s.seen = r.seen
    BY <2>0, <2>a, <2>5 DEF FlowRequest
  <2>7. RequestFits(r)'
    BY <2>0, <2>3, <2>4, FitsStay
  <2>8. RequestFits(s)'
    BY <2>1, <2>3, <2>4, <2>6, <2>7 DEF RequestFits
  <2>9. FlowFits' /\ requests' \subseteq FlowRequest
    BY <2>2, <2>3, <2>4, <2>6, <2>8, MovesOn
  <2> QED
    BY <1>0, <2>2, <2>3, <2>9, Retyped DEF FlowTypeOK
<1> QED
  BY <1>1, <1>2, <1>3, <1>4

LEMMA SweepTyped ==
  ASSUME FlowTyped,
         DeadlinePasses \/ SweepRead \/ (\E r \in requests : SweepWrite(r) \/ \E p \in r.todo : SweepVoid(r, p))
  PROVE  FlowTyped'
<1>0. FlowTypeOK
  BY DEF FlowTyped
<1>1. CASE DeadlinePasses
  <2>1. UNCHANGED <<captureMode, rows, intents, handedOut, posts, requests, causes>>
        /\ bill' = [bill EXCEPT !.overdue = TRUE]
    BY <1>1 DEF DeadlinePasses
  <2>2. IntentIds' = IntentIds /\ Len(intents') = Len(intents) /\ RowIds' = RowIds /\ Len(rows') = Len(rows)
    BY <2>1 DEF IntentIds, RowIds
  <2>3. FlowFits' /\ requests' \subseteq FlowRequest
    BY <2>1, <2>2, NoneMoves
  <2> QED
    BY <1>0, <2>1, <2>2, <2>3, Retyped DEF FlowTypeOK
<1>2. CASE SweepRead
  <2>a. PICK todo : todo = ToCancel({"PENDING_AUTH"})
    OBVIOUS
  <2>b. PICK s : s = [Begun("sweep") EXCEPT !.todo = todo, !.seen = todo]
    OBVIOUS
  <2>1. UNCHANGED <<captureMode, bill, rows, intents, handedOut, posts, causes>> /\ Enter(s)
    BY <1>2, <2>a, <2>b DEF SweepRead
  <2>2. IntentIds' = IntentIds /\ Len(intents') = Len(intents) /\ RowIds' = RowIds /\ Len(rows') = Len(rows)
    BY <2>1 DEF IntentIds, RowIds
  <2>3. todo \subseteq [row : RowIds, ref : IntentIds] /\ todo \subseteq [row : 1..MAX_INTENTS, ref : 1..MAX_INTENTS]
    BY <2>a, ToCancelTyped
  <2>4. s \in FlowRequest /\ s.op = "sweep" /\ s.at = "read" /\ s.row = 0 /\ s.intent = 0 /\ s.todo = todo
        /\ s.seen = todo
    <3>1. s = [op |-> "sweep", at |-> "read", row |-> 0, intent |-> 0, kind |-> "",
               awaiting |-> FALSE, todo |-> todo, seen |-> todo]
      BY <2>b DEF Begun, NoRow
    <3>2. 0 \in 0..MAX_INTENTS
      BY PaymentFlowAssumption
    <3>3. todo \in SUBSET [row : 1..MAX_INTENTS, ref : 1..MAX_INTENTS]
      BY <2>3
    <3> QED
      BY <3>1, <3>2, <3>3 DEF FlowRequest
  <2>5. RequestFits(s)'
    BY <2>2, <2>3, <2>4 DEF RequestFits, NoRow
  <2>6. FlowFits' /\ requests' \subseteq FlowRequest
    BY <2>1, <2>2, <2>4, <2>5, EnterMoves
  <2> QED
    BY <1>0, <2>1, <2>2, <2>6, Retyped DEF FlowTypeOK
<1>3. ASSUME NEW r \in requests, SweepWrite(r) PROVE FlowTyped'
  <2>1. UNCHANGED <<captureMode, intents, handedOut, posts>> /\ Leave(r)
    BY <1>3 DEF SweepWrite
  <2>2. IntentIds' = IntentIds /\ Len(intents') = Len(intents)
    BY <2>1 DEF IntentIds
  <2>3. /\ rows' \in Seq([status : RowStatuses, ref : IntentIds]) /\ RowIds' = RowIds /\ Len(rows') = Len(rows)
        /\ bill' \in [status : {"AWAITING_PAYMENT", "PAID", "PAYMENT_EXPIRED"}, active : 0..MAX_INTENTS,
                    overdue : BOOLEAN, escrow : BOOLEAN, mock : BOOLEAN]
    <3>1. CASE Awaiting
      <4>1. bill' = [bill EXCEPT !.status = "PAYMENT_EXPIRED", !.escrow = FALSE]
        BY <1>3, <3>1 DEF SweepWrite
      <4>2. rows' = [k \in RowIds |-> IF k \in RowsIn({"PENDING_AUTH"})
                                      THEN [rows[k] EXCEPT !.status = "CANCELLED"] ELSE rows[k]]
        BY <1>3, <3>1 DEF SweepWrite
      <4>3. bill' \in [status : {"AWAITING_PAYMENT", "PAID", "PAYMENT_EXPIRED"}, active : 0..MAX_INTENTS,
                    overdue : BOOLEAN, escrow : BOOLEAN, mock : BOOLEAN]
        BY <1>0, <4>1 DEF FlowTypeOK
      <4> QED
        BY <1>0, <4>2, <4>3, SweptRows
    <3>2. CASE ~Awaiting
      BY <1>0, <1>3, <3>2 DEF SweepWrite, FlowTypeOK, RowIds
    <3> QED
      BY <3>1, <3>2
  <2>4. FlowFits' /\ requests' \subseteq FlowRequest
    BY <2>1, <2>2, <2>3, LeaveMoves
  <2>5. causes' \subseteq FlowCauses
    BY <1>0, <1>3 DEF SweepWrite, Caused, CauseIf, FlowTypeOK, FlowCauses
  <2> QED
    BY <1>0, <2>1, <2>2, <2>3, <2>4, <2>5, Retyped DEF FlowTypeOK
<1>4. ASSUME NEW r \in requests, NEW p \in r.todo, SweepVoid(r, p) PROVE FlowTyped'
  <2>a. PICK s : s = [r EXCEPT !.todo = @ \ {p}]
    OBVIOUS
  <2>0. r \in FlowRequest /\ RequestFits(r) /\ r.op = "sweep"
    BY <1>4, RequestBasics DEF SweepVoid
  <2>1. p.row \in RowIds /\ p.ref \in IntentIds
    BY <2>0 DEF RequestFits
  <2>2. UNCHANGED <<captureMode, bill, rows, handedOut>> /\ MoveOn(r, s)
    BY <1>4, <2>a DEF SweepVoid
  <2>3. /\ intents' \in Seq({"OPEN", "HELD", "CHARGED", "CANCELED"})
        /\ IntentIds' = IntentIds /\ Len(intents') = Len(intents)
        /\ posts' \subseteq [intent : IntentIds, kind : {"PAID", "FAILED", "CANCELED"}]
        /\ causes' \subseteq FlowCauses
    <3>1. CauseIf("VOIDED_PAID", p.ref \in Paid) \in SUBSET FlowCauses
      BY DEF CauseIf, FlowCauses
    <3>2. CancelAtGateway(p.ref, CauseIf("VOIDED_PAID", p.ref \in Paid))
      BY <1>4 DEF SweepVoid
    <3> QED
      BY <2>1, <3>1, <3>2, GatewayTyped
  <2>4. RowIds' = RowIds /\ Len(rows') = Len(rows)
    BY <2>2 DEF RowIds
  <2>6. s \in FlowRequest /\ s.op = "sweep" /\ s.at = r.at /\ s.row = r.row /\ s.intent = r.intent
        /\ s.todo = r.todo \ {p} /\ s.seen = r.seen
    BY <2>0, <2>a DEF FlowRequest
  <2>7. RequestFits(r)'
    BY <2>0, <2>3, <2>4, FitsStay
  <2>8. RequestFits(s)'
    BY <2>0, <2>6, <2>7 DEF RequestFits
  <2>9. FlowFits' /\ requests' \subseteq FlowRequest
    BY <2>2, <2>3, <2>4, <2>6, <2>8, MovesOn
  <2> QED
    BY <1>0, <2>2, <2>3, <2>9, Retyped DEF FlowTypeOK
<1> QED
  BY <1>1, <1>2, <1>3, <1>4

LEMMA ConfirmTyped ==
  ASSUME FlowTyped,
         (\E k \in RowIds : AskToConfirm(k))
         \/ (\E r \in requests : ConfirmAtMock(r) \/ WriteConfirmed(r) \/ WriteDeclined(r) \/ Die(r))
  PROVE  FlowTyped'
<1>0. FlowTypeOK
  BY DEF FlowTyped
<1>1. ASSUME NEW k \in RowIds, AskToConfirm(k) PROVE FlowTyped'
  <2>1. rows[k].ref \in IntentIds
    BY <1>0, Listed
  <2>a. PICK s : s = [Begun("confirm") EXCEPT !.row = k, !.intent = rows[k].ref]
    OBVIOUS
  <2>2. UNCHANGED <<captureMode, bill, rows, intents, handedOut, posts, causes>> /\ Enter(s)
    BY <1>1, <2>a DEF AskToConfirm
  <2>3. IntentIds' = IntentIds /\ Len(intents') = Len(intents) /\ RowIds' = RowIds /\ Len(rows') = Len(rows)
    BY <2>2 DEF IntentIds, RowIds
  <2>4. k \in 0..MAX_INTENTS /\ rows[k].ref \in 0..MAX_INTENTS
    BY <2>1, ToCancelTyped
  <2>5. s \in FlowRequest /\ s.op = "confirm" /\ s.at = "read" /\ s.row = k /\ s.intent = rows[k].ref
        /\ s.todo = {} /\ s.seen = {}
    <3>1. s = [op |-> "confirm", at |-> "read", row |-> k, intent |-> rows[k].ref, kind |-> "",
               awaiting |-> FALSE, todo |-> {}, seen |-> {}]
      BY <2>a DEF Begun
    <3> QED
      BY <2>4, <3>1 DEF FlowRequest
  <2>6. RequestFits(s)'
    BY <2>1, <2>3, <2>5 DEF RequestFits
  <2>7. FlowFits' /\ requests' \subseteq FlowRequest
    BY <2>2, <2>3, <2>5, <2>6, EnterMoves
  <2> QED
    BY <1>0, <2>2, <2>3, <2>7, Retyped DEF FlowTypeOK
<1>2. ASSUME NEW r \in requests, ConfirmAtMock(r) PROVE FlowTyped'
  <2>0. r \in FlowRequest /\ RequestFits(r) /\ r.op = "confirm"
    BY <1>2, RequestBasics DEF ConfirmAtMock
  <2>1. r.row \in RowIds /\ r.intent \in IntentIds
    BY <2>0 DEF RequestFits
  <2>2. PICK at \in {"confirmed", "declined"}, st \in {"OPEN", "HELD", "CHARGED"} :
           /\ intents' = [intents EXCEPT ![r.intent] = st] /\ MoveOn(r, [r EXCEPT !.at = at])
    BY <1>2 DEF ConfirmAtMock, WhenPaid
  <2>a. PICK s : s = [r EXCEPT !.at = at]
    OBVIOUS
  <2>3. UNCHANGED <<captureMode, bill, rows, handedOut, posts>> /\ MoveOn(r, s)
    BY <1>2, <2>2, <2>a DEF ConfirmAtMock
  <2>4. /\ intents' \in Seq({"OPEN", "HELD", "CHARGED", "CANCELED"})
        /\ IntentIds' = IntentIds /\ Len(intents') = Len(intents)
    BY <1>0, <2>1, <2>2, IntentMoved
  <2>5. RowIds' = RowIds /\ Len(rows') = Len(rows)
    BY <2>3 DEF RowIds
  <2>6. s \in FlowRequest /\ s.op = "confirm" /\ s.at = at /\ s.row = r.row /\ s.intent = r.intent
        /\ s.todo = r.todo /\ s.seen = r.seen
    BY <2>0, <2>a DEF FlowRequest
  <2>7. RequestFits(r)'
    BY <2>0, <2>4, <2>5, FitsStay
  <2>8. RequestFits(s)'
    BY <2>0, <2>6, <2>7 DEF RequestFits
  <2>9. FlowFits' /\ requests' \subseteq FlowRequest
    BY <2>3, <2>4, <2>5, <2>6, <2>8, MovesOn
  <2>10. causes' \subseteq FlowCauses
    BY <1>0, <1>2 DEF ConfirmAtMock, Caused, CauseIf, FlowTypeOK, FlowCauses
  <2> QED
    BY <1>0, <2>3, <2>4, <2>9, <2>10, Retyped DEF FlowTypeOK
<1>3. ASSUME NEW r \in requests, WriteConfirmed(r) \/ WriteDeclined(r) PROVE FlowTyped'
  <2>0. r \in FlowRequest /\ RequestFits(r)
    BY RequestBasics
  <2>1. r.row \in RowIds
    BY <1>3, <2>0 DEF WriteConfirmed, WriteDeclined, RequestFits
  <2>2. PICK status \in RowStatuses : rows' = [rows EXCEPT ![r.row].status = status]
    BY <1>3 DEF WriteConfirmed, WriteDeclined, RowAfterPaid, RowStatuses
  <2>3. [rows[r.row] EXCEPT !.status = status] \in [status : RowStatuses, ref : IntentIds]
    BY <1>0, <2>1, Listed
  <2>4. rows' = [rows EXCEPT ![r.row] = [rows[r.row] EXCEPT !.status = status]]
    BY <2>2
  <2>5. rows' \in Seq([status : RowStatuses, ref : IntentIds]) /\ RowIds' = RowIds /\ Len(rows') = Len(rows)
    BY <1>0, <2>1, <2>3, <2>4, RowWritten
  <2>6. UNCHANGED <<captureMode, intents, handedOut, posts>> /\ Leave(r)
    BY <1>3 DEF WriteConfirmed, WriteDeclined
  <2>7. IntentIds' = IntentIds /\ Len(intents') = Len(intents)
    BY <2>6 DEF IntentIds
  <2>8. FlowFits' /\ requests' \subseteq FlowRequest
    BY <2>5, <2>6, <2>7, LeaveMoves
  <2>9. causes' \subseteq FlowCauses
    BY <1>0, <1>3 DEF WriteConfirmed, WriteDeclined, Caused, CauseIf, FlowTypeOK, FlowCauses
  <2>10. bill' \in [status : {"AWAITING_PAYMENT", "PAID", "PAYMENT_EXPIRED"}, active : 0..MAX_INTENTS,
                    overdue : BOOLEAN, escrow : BOOLEAN, mock : BOOLEAN]
    <3>1. bill' = bill \/ bill' = [bill EXCEPT !.status = "PAID", !.escrow = TRUE]
      BY <1>3 DEF WriteConfirmed, WriteDeclined
    <3> QED
      BY <1>0, <3>1 DEF FlowTypeOK
  <2> QED
    BY <1>0, <2>5, <2>6, <2>7, <2>8, <2>9, <2>10, Retyped DEF FlowTypeOK
<1>4. ASSUME NEW r \in requests, Die(r) PROVE FlowTyped'
  <2>1. UNCHANGED <<captureMode, bill, rows, intents, handedOut, posts>> /\ Leave(r)
    BY <1>4 DEF Die
  <2>2. IntentIds' = IntentIds /\ Len(intents') = Len(intents) /\ RowIds' = RowIds /\ Len(rows') = Len(rows)
    BY <2>1 DEF IntentIds, RowIds
  <2>3. FlowFits' /\ requests' \subseteq FlowRequest
    BY <2>1, <2>2, LeaveMoves
  <2>4. causes' \subseteq FlowCauses
    BY <1>0, <1>4 DEF Die, Caused, CauseIf, FlowTypeOK, FlowCauses
  <2> QED
    BY <1>0, <2>1, <2>2, <2>3, <2>4, Retyped DEF FlowTypeOK
<1> QED
  BY <1>1, <1>2, <1>3, <1>4

LEMMA FlowStepTyped == FlowTyped /\ [FlowNext]_flowVars => FlowTyped'
<1> SUFFICES ASSUME FlowTyped, [FlowNext]_flowVars PROVE FlowTyped'
  OBVIOUS
<1>1. CASE UNCHANGED flowVars
  <2>1. FlowTypeOK' /\ FlowFits'
    BY <1>1 DEF flowVars, FlowTyped, FlowTypeOK, FlowFits, RequestFits, Making, RowIds, IntentIds, FlowRequest
  <2> QED
    BY <2>1 DEF FlowTyped
<1>2. CASE FlowStep
  BY <1>2, AskTyped, CreateTyped, BuyerTyped, EventTyped, CancelTyped, SweepTyped, ConfirmTyped DEF FlowStep
<1> QED
  BY <1>1, <1>2 DEF FlowNext

LEMMA FlowInitTyped == FlowInit => FlowTyped
<1> SUFFICES ASSUME FlowInit PROVE FlowTyped
  OBVIOUS
<1>1. rows = <<>> /\ intents = <<>>
  BY DEF FlowInit
<1>2. \A S : <<>> \in Seq(S)
  BY EmptySeq
<1>3. rows \in Seq([status : RowStatuses, ref : IntentIds]) /\ intents \in Seq({"OPEN", "HELD", "CHARGED", "CANCELED"})
  BY <1>1, <1>2
<1>4. 0 \in 0..MAX_INTENTS
  BY PaymentFlowAssumption
<1>5. bill \in [status : {"AWAITING_PAYMENT", "PAID", "PAYMENT_EXPIRED"}, active : 0..MAX_INTENTS,
                 overdue : BOOLEAN, escrow : BOOLEAN, mock : BOOLEAN]
  BY <1>4 DEF FlowInit, NoRow
<1>6. FlowTypeOK
  BY <1>3, <1>5 DEF FlowInit, FlowTypeOK
<1>7. Making = {} /\ Len(rows) = 0 /\ Len(intents) = 0
  BY <1>1, EmptySeq DEF FlowInit, Making
<1>8. FlowFits
  BY <1>7, FS_EmptySet, PaymentFlowAssumption DEF FlowInit, FlowFits
<1> QED
  BY <1>6, <1>8 DEF FlowTyped

(* The types, that there are no more rows than intents, and that what a      *)
(* request in flight refers to exists, hold in every reachable state.        *)
THEOREM FlowTypedAlways == FlowSpec => []FlowTyped
  BY FlowInitTyped, FlowStepTyped, PTL DEF FlowSpec

(* Every reachable state of payment rows, gateway and requests is well typed. *)
THEOREM FlowTypes == FlowSpec => []FlowTypeOK
<1>1. FlowTyped => FlowTypeOK
  BY DEF FlowTyped
<1> QED
  BY <1>1, FlowTypedAlways, PTL

-----------------------------------------------------------------------------
(* What each step does, row by row and intent by intent. *)

LEMMA AskDoes ==
  ASSUME FlowTyped, AskForIntent
  PROVE  /\ UNCHANGED <<captureMode, bill, rows, handedOut, posts, causes>>
         /\ \E n, r :
              /\ n \notin IntentIds /\ IntentIds' = IntentIds \cup {n}
              /\ intents'[n] = "OPEN" /\ \A j \in IntentIds : intents'[j] = intents[j]
              /\ requests' = requests \cup {r}
              /\ r.op = "create" /\ r.at = "read" /\ r.intent = n
<1> DEFINE n == Len(intents) + 1
<1>1. PICK k : k = IF bill.active \in RowsIn({"PENDING_AUTH"}) THEN bill.active ELSE NoRow
  OBVIOUS
<1>2. PICK r : r = [Begun("create") EXCEPT !.intent = n, !.row = k]
  OBVIOUS
<1>3. intents' = Append(intents, "OPEN") /\ UNCHANGED <<captureMode, bill, rows, handedOut, posts, causes>>
      /\ requests' = requests \cup {r}
  BY <1>1, <1>2 DEF AskForIntent, Enter
<1>4. r.op = "create" /\ r.at = "read" /\ r.intent = n
  BY <1>2 DEF Begun
<1>5. FlowTypeOK
  BY DEF FlowTyped
<1>6. n \in Nat /\ n \notin IntentIds /\ IntentIds' = IntentIds \cup {n}
      /\ intents'[n] = "OPEN" /\ \A j \in IntentIds : intents'[j] = intents[j]
  BY <1>3, <1>5, IntentMade, Listed
<1> HIDE DEF n
<1> QED
  BY <1>3, <1>4, <1>6

LEMMA ReplaceDoes ==
  ASSUME FlowTyped, NEW r \in requests, ReplaceIntent(r)
  PROVE  /\ r \in Making /\ r.row \in RowIds /\ r.intent \in IntentIds
         /\ UNCHANGED <<captureMode, bill, intents, posts, IntentIds, RowIds>>
         /\ rows'[r.row].ref = r.intent /\ rows'[r.row].status = rows[r.row].status
         /\ \A k \in RowIds \ {r.row} : rows'[k] = rows[k]
         /\ handedOut' = handedOut \cup {r.intent} /\ requests' = requests \ {r}
         /\ causes \subseteq causes'
         /\ "CROSSED" \notin causes' => rows[r.row].status = "PENDING_AUTH" /\ rows[r.row].ref \notin Paid
         /\ "LATE_INTENT" \notin causes' => Awaiting
<1>1. FlowTypeOK /\ r \in FlowRequest /\ RequestFits(r)
  BY RequestBasics DEF FlowTyped
<1>2. r \in Making /\ r.row \in RowIds /\ r.intent \in IntentIds
  BY <1>1 DEF ReplaceIntent, RequestFits, Making
<1>3. rows' = [rows EXCEPT ![r.row] = [rows[r.row] EXCEPT !.ref = r.intent]]
  BY DEF ReplaceIntent
<1>4. rows[r.row] \in [status : RowStatuses, ref : IntentIds]
  BY <1>1, <1>2, Listed
<1>5. [rows[r.row] EXCEPT !.ref = r.intent] \in [status : RowStatuses, ref : IntentIds]
  BY <1>2, <1>4
<1>6. RowIds' = RowIds /\ rows'[r.row] = [rows[r.row] EXCEPT !.ref = r.intent]
      /\ \A j \in RowIds \ {r.row} : rows'[j] = rows[j]
  BY <1>1, <1>2, <1>3, <1>5, RowWritten
<1>7. rows'[r.row].ref = r.intent /\ rows'[r.row].status = rows[r.row].status
  BY <1>4, <1>6
<1>8. UNCHANGED <<captureMode, bill, intents, posts, IntentIds>> /\ handedOut' = handedOut \cup {r.intent}
      /\ requests' = requests \ {r}
  BY DEF ReplaceIntent, Leave, IntentIds
<1>9. /\ causes \subseteq causes'
      /\ "CROSSED" \notin causes' => rows[r.row].status = "PENDING_AUTH" /\ rows[r.row].ref \notin Paid
      /\ "LATE_INTENT" \notin causes' => Awaiting
  BY DEF ReplaceIntent, Caused, CauseIf
<1> QED
  BY <1>2, <1>6, <1>7, <1>8, <1>9

LEMMA NewRowDoes ==
  ASSUME FlowTyped, NEW r \in requests, NewRow(r)
  PROVE  /\ r \in Making /\ r.intent \in IntentIds
         /\ UNCHANGED <<captureMode, bill, intents, handedOut, posts, causes, IntentIds>>
         /\ \E n, s :
              /\ n \notin RowIds /\ RowIds' = RowIds \cup {n} /\ \A k \in RowIds : rows'[k] = rows[k]
              /\ rows'[n].ref = r.intent /\ rows'[n].status = "PENDING_AUTH"
              /\ requests' = (requests \ {r}) \cup {s}
              /\ s.op = "create" /\ s.at = "linked" /\ s.intent = r.intent
<1> DEFINE n == Len(rows) + 1
<1>1. FlowTypeOK /\ r \in FlowRequest /\ RequestFits(r)
  BY RequestBasics DEF FlowTyped
<1>2. r \in Making /\ r.intent \in IntentIds /\ r.op = "create"
  BY <1>1 DEF NewRow, RequestFits, Making
<1>3. PICK s : s = [r EXCEPT !.at = "linked", !.row = n]
  OBVIOUS
<1>4. rows' = Append(rows, [status |-> "PENDING_AUTH", ref |-> r.intent])
      /\ requests' = (requests \ {r}) \cup {s}
  BY <1>3 DEF NewRow, MoveOn
<1>5. s.op = "create" /\ s.at = "linked" /\ s.intent = r.intent
  BY <1>1, <1>2, <1>3 DEF FlowRequest
<1>6. [status |-> "PENDING_AUTH", ref |-> r.intent] \in [status : RowStatuses, ref : IntentIds]
  BY <1>2 DEF RowStatuses
<1>7. n \in Nat /\ n \notin RowIds /\ RowIds' = RowIds \cup {n} /\ (\A k \in RowIds : rows'[k] = rows[k])
      /\ rows'[n].ref = r.intent /\ rows'[n].status = "PENDING_AUTH"
  BY <1>1, <1>4, <1>6, RowAdded, Listed
<1>8. UNCHANGED <<captureMode, bill, intents, handedOut, posts, causes, IntentIds>>
  BY DEF NewRow, IntentIds
<1> HIDE DEF n
<1> QED
  BY <1>2, <1>4, <1>5, <1>7, <1>8

LEMMA LinkDoes ==
  ASSUME FlowTyped, NEW r \in requests, LinkRow(r)
  PROVE  /\ r.op = "create" /\ r \notin Making /\ r.intent \in IntentIds
         /\ UNCHANGED <<captureMode, rows, intents, posts, IntentIds, RowIds>>
         /\ bill'.status = bill.status /\ bill'.escrow = bill.escrow
         /\ handedOut' = handedOut \cup {r.intent} /\ requests' = requests \ {r}
         /\ causes \subseteq causes' /\ ("LATE_INTENT" \notin causes' => Awaiting)
<1>1. FlowTypeOK /\ r \in FlowRequest /\ RequestFits(r)
  BY RequestBasics DEF FlowTyped
<1>2. bill'.status = bill.status /\ bill'.escrow = bill.escrow
  BY <1>1 DEF LinkRow, FlowTypeOK
<1> QED
  BY <1>1, <1>2 DEF LinkRow, RequestFits, Making, IntentIds, RowIds, Leave, Caused, CauseIf

LEMMA ConfirmDoes ==
  ASSUME FlowTyped, NEW i \in IntentIds, ConfirmIntent(i)
  PROVE  /\ ~bill.mock /\ i \in handedOut /\ intents[i] = "OPEN"
         /\ UNCHANGED <<captureMode, bill, rows, handedOut, requests, IntentIds, RowIds>>
         /\ \A j \in IntentIds \ {i} : intents'[j] = intents[j]
         /\ causes \subseteq causes'
         /\ \/ /\ intents'[i] = IF captureMode = "manual" THEN "HELD" ELSE "CHARGED"
               /\ posts' = posts \cup {[intent |-> i, kind |-> "PAID"]}
               /\ "OLD_PAGE" \notin causes' => \E k \in RowIds : rows[k].ref = i
            \/ intents'[i] = "OPEN" /\ posts' = posts \cup {[intent |-> i, kind |-> "FAILED"]}
<1>1. FlowTypeOK
  BY DEF FlowTyped
<1>2. ~bill.mock /\ i \in handedOut /\ intents[i] = "OPEN" /\ UNCHANGED <<captureMode, bill, rows, handedOut, requests, RowIds>>
  BY DEF ConfirmIntent, RowIds
<1>3. CASE intents' = [intents EXCEPT ![i] = WhenPaid]
           /\ posts' = posts \cup {[intent |-> i, kind |-> "PAID"]}
           /\ Caused(CauseIf("OLD_PAGE", \A k \in RowIds : rows[k].ref # i))
  <2>1. IntentIds' = IntentIds /\ intents'[i] = (IF captureMode = "manual" THEN "HELD" ELSE "CHARGED")
        /\ \A j \in IntentIds \ {i} : intents'[j] = intents[j]
    BY <1>1, <1>3, IntentMoved DEF WhenPaid
  <2>2. causes \subseteq causes' /\ ("OLD_PAGE" \notin causes' => \E k \in RowIds : rows[k].ref = i)
    BY <1>3 DEF Caused, CauseIf
  <2> QED
    BY <1>2, <1>3, <2>1, <2>2
<1>4. CASE UNCHANGED <<intents, causes>> /\ posts' = posts \cup {[intent |-> i, kind |-> "FAILED"]}
  BY <1>2, <1>4 DEF IntentIds
<1> QED
  BY <1>3, <1>4 DEF ConfirmIntent, ToldOf

LEMMA GatewayDoes ==
  ASSUME FlowTyped, NEW i \in IntentIds, NEW cause, CancelAtGateway(i, cause)
  PROVE  /\ IntentIds' = IntentIds /\ \A j \in IntentIds \ {i} : intents'[j] = intents[j]
         /\ causes \subseteq causes'
         /\ \/ /\ bill.mock \/ intents[i] # "CHARGED"
               /\ intents'[i] = "CANCELED" /\ cause \subseteq causes'
               /\ posts' = IF bill.mock THEN posts ELSE posts \cup {[intent |-> i, kind |-> "CANCELED"]}
            \/ /\ ~bill.mock /\ intents[i] = "CHARGED" /\ intents'[i] = "CHARGED" /\ "LATE_CHARGE" \in causes'
               /\ UNCHANGED posts
            \/ "GATEWAY_ERROR" \in causes' /\ intents'[i] = intents[i] /\ UNCHANGED posts
<1>1. FlowTypeOK
  BY DEF FlowTyped
<1>2. CASE intents' = [intents EXCEPT ![i] = "CANCELED"] /\ Caused(cause) /\ (bill.mock \/ intents[i] # "CHARGED")
           /\ IF bill.mock THEN UNCHANGED posts ELSE ToldOf(i, "CANCELED")
  <2>1. IntentIds' = IntentIds /\ intents'[i] = "CANCELED" /\ \A j \in IntentIds \ {i} : intents'[j] = intents[j]
    BY <1>1, <1>2, IntentMoved
  <2>2. causes \subseteq causes' /\ cause \subseteq causes'
    BY <1>2 DEF Caused
  <2>3. posts' = IF bill.mock THEN posts ELSE posts \cup {[intent |-> i, kind |-> "CANCELED"]}
    BY <1>2 DEF ToldOf
  <2> QED
    BY <1>2, <2>1, <2>2, <2>3
<1>3. CASE UNCHANGED <<intents, posts>>
           /\ Caused({IF intents[i] = "CHARGED" /\ ~bill.mock THEN "LATE_CHARGE" ELSE "GATEWAY_ERROR"})
  BY <1>3 DEF IntentIds, Caused
<1> QED
  BY <1>2, <1>3 DEF CancelAtGateway

LEMMA ReceiveDoes ==
  ASSUME FlowTyped, NEW e \in posts, ReceivePost(e)
  PROVE  /\ UNCHANGED <<captureMode, bill, rows, intents, handedOut, causes, IntentIds, RowIds>>
         /\ \/ /\ \A k \in RowIds : rows[k].ref = e.intent => ~AppliesTo(e.kind, rows[k].status)
               /\ posts' = posts \ {e} /\ UNCHANGED requests
            \/ \E r : /\ requests' = requests \cup {r} /\ UNCHANGED posts
                      /\ r.op = "event" /\ r.at = "read" /\ r.intent = e.intent /\ r.kind = e.kind
<1>1. UNCHANGED <<captureMode, bill, rows, intents, handedOut, causes, IntentIds, RowIds>>
  BY DEF ReceivePost, IntentIds, RowIds
<1>2. ASSUME NEW k \in RowIds, UNCHANGED posts,
             Enter([Begun("event") EXCEPT !.row = k, !.intent = e.intent, !.kind = e.kind,
                             !.awaiting = e.kind = "PAID" /\ Awaiting])
      PROVE  \E r : /\ requests' = requests \cup {r} /\ UNCHANGED posts
                    /\ r.op = "event" /\ r.at = "read" /\ r.intent = e.intent /\ r.kind = e.kind
  <2>1. PICK b \in BOOLEAN : b = (e.kind = "PAID" /\ Awaiting)
    OBVIOUS
  <2>2. PICK r : r = [Begun("event") EXCEPT !.row = k, !.intent = e.intent, !.kind = e.kind, !.awaiting = b]
    OBVIOUS
  <2>3. requests' = requests \cup {r}
    BY <1>2, <2>1, <2>2 DEF Enter
  <2>4. r.op = "event" /\ r.at = "read" /\ r.intent = e.intent /\ r.kind = e.kind
    BY <2>2 DEF Begun
  <2> QED
    BY <1>2, <2>3, <2>4
<1> QED
  BY <1>1, <1>2 DEF ReceivePost

LEMMA HandleDoes ==
  ASSUME FlowTyped, NEW r \in requests, HandlePost(r)
  PROVE  /\ r.op = "event" /\ r.row \in RowIds /\ r.intent \in IntentIds /\ r.kind \in {"PAID", "FAILED", "CANCELED"}
         /\ UNCHANGED <<captureMode, intents, handedOut, IntentIds, RowIds>>
         /\ rows'[r.row].ref = rows[r.row].ref /\ rows'[r.row].status = RowAfterEvent(r.kind)
         /\ \A k \in RowIds \ {r.row} : rows'[k] = rows[k]
         /\ posts' \in {posts, posts \ {[intent |-> r.intent, kind |-> r.kind]}}
         /\ requests' = requests \ {r} /\ causes \subseteq causes'
         /\ IF r.kind = "PAID" /\ r.awaiting THEN bill'.status = "PAID" ELSE UNCHANGED bill
         /\ "CROSSED" \notin causes' => /\ rows[r.row].ref = r.intent /\ AppliesTo(r.kind, rows[r.row].status)
                                        /\ r.kind = "PAID" => r.awaiting = Awaiting
<1>1. FlowTypeOK /\ r \in FlowRequest /\ RequestFits(r)
  BY RequestBasics DEF FlowTyped
<1>2. r.op = "event" /\ r.row \in RowIds /\ r.intent \in IntentIds /\ r.kind \in {"PAID", "FAILED", "CANCELED"}
  BY <1>1 DEF HandlePost, RequestFits, FlowRequest
<1>3. rows[r.row] \in [status : RowStatuses, ref : IntentIds]
  BY <1>1, <1>2, Listed
<1>4. RowAfterEvent(r.kind) \in RowStatuses
  BY <1>2 DEF RowAfterEvent, RowAfterPaid, RowStatuses
<1>5. [rows[r.row] EXCEPT !.status = RowAfterEvent(r.kind)] \in [status : RowStatuses, ref : IntentIds]
  BY <1>3, <1>4
<1>6. rows' = [rows EXCEPT ![r.row] = [rows[r.row] EXCEPT !.status = RowAfterEvent(r.kind)]]
  BY DEF HandlePost
<1>7. RowIds' = RowIds /\ rows'[r.row] = [rows[r.row] EXCEPT !.status = RowAfterEvent(r.kind)]
      /\ \A k \in RowIds \ {r.row} : rows'[k] = rows[k]
  BY <1>1, <1>2, <1>5, <1>6, RowWritten
<1>8. rows'[r.row].ref = rows[r.row].ref /\ rows'[r.row].status = RowAfterEvent(r.kind)
  BY <1>3, <1>7
<1>9. UNCHANGED <<captureMode, intents, handedOut, IntentIds>> /\ requests' = requests \ {r}
      /\ posts' \in {posts, posts \ {[intent |-> r.intent, kind |-> r.kind]}}
  BY DEF HandlePost, Leave, IntentIds
<1>10. IF r.kind = "PAID" /\ r.awaiting THEN bill'.status = "PAID" ELSE UNCHANGED bill
  BY <1>1 DEF HandlePost, FlowTypeOK
<1>11. /\ causes \subseteq causes'
       /\ "CROSSED" \notin causes' => /\ rows[r.row].ref = r.intent /\ AppliesTo(r.kind, rows[r.row].status)
                                      /\ r.kind = "PAID" => r.awaiting = Awaiting
  BY DEF HandlePost, Caused, CauseIf
<1> QED
  BY <1>2, <1>7, <1>8, <1>9, <1>10, <1>11

LEMMA CancelWriteDoes ==
  ASSUME FlowTyped, NEW r \in requests, CancelWrite(r)
  PROVE  /\ r.op = "cancel" /\ r.at = "voided" /\ r.row \in RowIds /\ r.intent \in IntentIds
         /\ UNCHANGED <<captureMode, bill, intents, handedOut, posts, IntentIds, RowIds>>
         /\ rows'[r.row].ref = rows[r.row].ref /\ rows'[r.row].status = "CANCELLED"
         /\ \A k \in RowIds \ {r.row} : rows'[k] = rows[k]
         /\ causes \subseteq causes'
         /\ "CROSSED" \notin causes' => /\ rows[r.row].ref = r.intent
                                        /\ rows[r.row].status \in {"AUTHORIZED", "PENDING_AUTH", "CANCELLED"}
                                        /\ ~bill.mock \/ r.intent \notin Paid
         /\ \E s : requests' = (requests \ {r}) \cup {s} /\ s.op = "cancel" /\ s.at = "read"
<1>1. FlowTypeOK /\ r \in FlowRequest /\ RequestFits(r)
  BY RequestBasics DEF FlowTyped
<1>2. r.op = "cancel" /\ r.at = "voided" /\ r.row \in RowIds /\ r.intent \in IntentIds
  BY <1>1 DEF CancelWrite, RequestFits
<1>3. rows[r.row] \in [status : RowStatuses, ref : IntentIds]
  BY <1>1, <1>2, Listed
<1>4. [rows[r.row] EXCEPT !.status = "CANCELLED"] \in [status : RowStatuses, ref : IntentIds]
  BY <1>3 DEF RowStatuses
<1>5. rows' = [rows EXCEPT ![r.row] = [rows[r.row] EXCEPT !.status = "CANCELLED"]]
  BY DEF CancelWrite
<1>6. RowIds' = RowIds /\ rows'[r.row] = [rows[r.row] EXCEPT !.status = "CANCELLED"]
      /\ \A k \in RowIds \ {r.row} : rows'[k] = rows[k]
  BY <1>1, <1>2, <1>4, <1>5, RowWritten
<1>7. rows'[r.row].ref = rows[r.row].ref /\ rows'[r.row].status = "CANCELLED"
  BY <1>3, <1>6
<1>8. UNCHANGED <<captureMode, bill, intents, handedOut, posts, IntentIds>>
  BY DEF CancelWrite, IntentIds
<1>9. /\ causes \subseteq causes'
      /\ "CROSSED" \notin causes' => /\ rows[r.row].ref = r.intent
                                     /\ rows[r.row].status \in {"AUTHORIZED", "PENDING_AUTH", "CANCELLED"}
                                     /\ ~bill.mock \/ r.intent \notin Paid
  BY DEF CancelWrite, Caused, CauseIf
<1>10. PICK s : s = [r EXCEPT !.at = "read", !.row = NoRow, !.intent = 0]
  OBVIOUS
<1>11. requests' = (requests \ {r}) \cup {s} /\ s.op = "cancel" /\ s.at = "read"
  BY <1>1, <1>2, <1>10 DEF CancelWrite, MoveOn, FlowRequest
<1> QED
  BY <1>2, <1>6, <1>7, <1>8, <1>9, <1>11

LEMMA CancelVoidDoes ==
  ASSUME FlowTyped, NEW r \in requests, NEW p \in r.todo, CancelVoid(r, p)
  PROVE  /\ p.ref \in IntentIds /\ CancelAtGateway(p.ref, {}) /\ r.op = "cancel" /\ r.at = "read"
         /\ UNCHANGED <<captureMode, bill, rows, handedOut, RowIds>>
         /\ \E s : /\ requests' = (requests \ {r}) \cup {s}
                   /\ s.op = "cancel" /\ s.at = "voided" /\ s.intent = p.ref
<1>1. r \in FlowRequest /\ RequestFits(r)
  BY RequestBasics
<1>2. PICK s : s = [r EXCEPT !.at = "voided", !.row = p.row, !.intent = p.ref, !.todo = @ \ {p}]
  OBVIOUS
<1>3. requests' = (requests \ {r}) \cup {s} /\ s.op = "cancel" /\ s.at = "voided" /\ s.intent = p.ref
  BY <1>1, <1>2 DEF CancelVoid, MoveOn, FlowRequest
<1>4. p.ref \in IntentIds
  BY <1>1 DEF RequestFits
<1> QED
  BY <1>3, <1>4 DEF CancelVoid, RowIds

LEMMA SweepVoidDoes ==
  ASSUME FlowTyped, NEW r \in requests, NEW p \in r.todo, SweepVoid(r, p)
  PROVE  /\ p.ref \in IntentIds /\ CancelAtGateway(p.ref, CauseIf("VOIDED_PAID", p.ref \in Paid)) /\ r.op = "sweep"
         /\ UNCHANGED <<captureMode, bill, rows, handedOut, RowIds>>
         /\ \E s : /\ requests' = (requests \ {r}) \cup {s} /\ s.op = "sweep" /\ s.at = r.at
                   /\ s.intent = r.intent /\ s.todo = r.todo \ {p} /\ s.seen = r.seen
<1>1. r \in FlowRequest /\ RequestFits(r)
  BY RequestBasics
<1>2. PICK s : s = [r EXCEPT !.todo = @ \ {p}]
  OBVIOUS
<1>3. requests' = (requests \ {r}) \cup {s} /\ s.op = "sweep" /\ s.at = r.at
      /\ s.intent = r.intent /\ s.todo = r.todo \ {p} /\ s.seen = r.seen
  BY <1>1, <1>2 DEF SweepVoid, MoveOn, FlowRequest
<1>4. p.ref \in IntentIds
  BY <1>1 DEF RequestFits
<1> QED
  BY <1>3, <1>4 DEF SweepVoid, RowIds

LEMMA SweepWriteDoes ==
  ASSUME FlowTyped, NEW r \in requests, SweepWrite(r)
  PROVE  /\ r.op = "sweep" /\ r.todo = {} /\ requests' = requests \ {r}
         /\ UNCHANGED <<captureMode, intents, handedOut, posts, IntentIds, RowIds>>
         /\ causes \subseteq causes'
         /\ IF Awaiting
            THEN /\ bill'.status = "PAYMENT_EXPIRED"
                 /\ \A k \in RowIds : /\ rows'[k].ref = rows[k].ref
                                      /\ rows'[k].status = IF rows[k].status = "PENDING_AUTH" THEN "CANCELLED"
                                                           ELSE rows[k].status
                 /\ "CROSSED" \notin causes' => ToCancel({"PENDING_AUTH"}) \subseteq r.seen
                 /\ "DECLINED_OPEN" \notin causes' =>
                      \A k \in RowsIn({"FAILED"}) : intents[rows[k].ref] = "CANCELED"
            ELSE UNCHANGED <<bill, rows>>
<1>1. FlowTypeOK
  BY DEF FlowTyped
<1>2. r.op = "sweep" /\ r.todo = {} /\ requests' = requests \ {r}
      /\ UNCHANGED <<captureMode, intents, handedOut, posts, IntentIds>>
  BY DEF SweepWrite, Leave, IntentIds
<1>3. CASE Awaiting
  <2>1. rows' = [k \in RowIds |-> IF k \in RowsIn({"PENDING_AUTH"})
                                  THEN [rows[k] EXCEPT !.status = "CANCELLED"] ELSE rows[k]]
    BY <1>3 DEF SweepWrite
  <2>2. bill' = [bill EXCEPT !.status = "PAYMENT_EXPIRED", !.escrow = FALSE]
    BY <1>3 DEF SweepWrite
  <2>3. bill'.status = "PAYMENT_EXPIRED"
    BY <1>1, <2>2 DEF FlowTypeOK
  <2>4. /\ causes \subseteq causes'
        /\ "CROSSED" \notin causes' => ToCancel({"PENDING_AUTH"}) \subseteq r.seen
        /\ "DECLINED_OPEN" \notin causes' =>
              \A k \in RowsIn({"FAILED"}) : intents[rows[k].ref] = "CANCELED"
    BY <1>3 DEF SweepWrite, Caused, CauseIf
  <2>5. /\ RowIds' = RowIds
        /\ \A k \in RowIds : /\ rows'[k].ref = rows[k].ref
                             /\ rows'[k].status = IF rows[k].status = "PENDING_AUTH" THEN "CANCELLED"
                                                  ELSE rows[k].status
    BY <1>1, <2>1, SweptRows
  <2> QED
    BY <1>2, <1>3, <2>3, <2>4, <2>5
<1>4. CASE ~Awaiting
  BY <1>2, <1>4 DEF SweepWrite, RowIds
<1> QED
  BY <1>3, <1>4

\* Requests that only come or only leave.
LEMMA ComesOrLeaves ==
  ASSUME FlowTyped,
         DeadlinePasses \/ AskToCancel \/ SweepRead \/ (\E k \in RowIds : AskToConfirm(k))
         \/ (\E r \in requests : CancelDone(r) \/ Die(r))
  PROVE  /\ UNCHANGED <<captureMode, rows, intents, handedOut, posts, IntentIds, RowIds>>
         /\ bill'.status = bill.status /\ bill'.mock = bill.mock /\ causes \subseteq causes'
         /\ \/ bill'.escrow = bill.escrow /\ UNCHANGED requests
            \/ /\ bill'.escrow = bill.escrow
               /\ \E s : requests' = requests \cup {s} /\ s.op = "cancel" /\ s.at = "read"
            \/ /\ bill'.escrow = bill.escrow
               /\ \E s : requests' = requests \cup {s} /\ s.op = "sweep" /\ s.at = "read" /\ s.seen = s.todo
            \/ /\ bill'.escrow = bill.escrow /\ bill.mock
               /\ \E s : requests' = requests \cup {s} /\ s.op = "confirm" /\ s.at = "read"
            \/ /\ bill'.escrow = FALSE
               /\ \E r \in requests : requests' = requests \ {r} /\ r.op = "cancel" /\ r.at = "read"
            \/ /\ bill'.escrow = bill.escrow
               /\ \E r \in requests : /\ requests' = requests \ {r}
                                      /\ "CANCEL_DIED" \notin causes' => r.op # "cancel"
                                      /\ "CONFIRM_DIED" \notin causes' => r.at # "confirmed"
<1>1. FlowTypeOK
  BY DEF FlowTyped
<1>2. UNCHANGED <<captureMode, rows, intents, handedOut, posts, IntentIds, RowIds>>
  BY DEF DeadlinePasses, AskToCancel, SweepRead, CancelDone, AskToConfirm, Die, IntentIds, RowIds
<1>3. bill'.status = bill.status /\ bill'.mock = bill.mock /\ causes \subseteq causes'
  BY <1>1 DEF DeadlinePasses, AskToCancel, SweepRead, CancelDone, AskToConfirm, Die, Caused, FlowTypeOK
<1>4. CASE DeadlinePasses
  BY <1>1, <1>2, <1>3, <1>4 DEF DeadlinePasses, FlowTypeOK
<1>5. CASE AskToCancel
  <2>1. PICK s : s = [Begun("cancel") EXCEPT !.todo = ToCancel({"AUTHORIZED", "PENDING_AUTH"})]
    OBVIOUS
  <2>2. requests' = requests \cup {s} /\ UNCHANGED bill
    BY <1>5, <2>1 DEF AskToCancel, Enter
  <2>3. s.op = "cancel" /\ s.at = "read"
    BY <2>1 DEF Begun
  <2> QED
    BY <1>2, <1>3, <2>2, <2>3
<1>6. CASE SweepRead
  <2>1. PICK todo : todo = ToCancel({"PENDING_AUTH"})
    OBVIOUS
  <2>2. PICK s : s = [Begun("sweep") EXCEPT !.todo = todo, !.seen = todo]
    OBVIOUS
  <2>3. requests' = requests \cup {s} /\ UNCHANGED bill
    BY <1>6, <2>1, <2>2 DEF SweepRead, Enter
  <2>4. s.op = "sweep" /\ s.at = "read" /\ s.seen = s.todo
    BY <2>2 DEF Begun
  <2> QED
    BY <1>2, <1>3, <2>3, <2>4
<1>7. ASSUME NEW r \in requests, CancelDone(r)
      PROVE  bill'.escrow = FALSE /\ requests' = requests \ {r} /\ r.op = "cancel" /\ r.at = "read"
  BY <1>1, <1>7 DEF CancelDone, Leave, FlowTypeOK
<1>8. ASSUME NEW k \in RowIds, AskToConfirm(k)
      PROVE  bill'.escrow = bill.escrow /\ bill.mock
             /\ \E s : requests' = requests \cup {s} /\ s.op = "confirm" /\ s.at = "read"
  <2>1. PICK s : s = [Begun("confirm") EXCEPT !.row = k, !.intent = rows[k].ref]
    OBVIOUS
  <2>2. requests' = requests \cup {s} /\ UNCHANGED bill /\ bill.mock
    BY <1>8, <2>1 DEF AskToConfirm, Enter
  <2>3. s.op = "confirm" /\ s.at = "read"
    BY <2>1 DEF Begun
  <2> QED
    BY <2>2, <2>3
<1>9. ASSUME NEW r \in requests, Die(r)
      PROVE  /\ bill'.escrow = bill.escrow /\ requests' = requests \ {r}
             /\ "CANCEL_DIED" \notin causes' => r.op # "cancel"
             /\ "CONFIRM_DIED" \notin causes' => r.at # "confirmed"
  BY <1>9 DEF Die, Leave, Caused, CauseIf
<1> QED
  BY <1>2, <1>3, <1>4, <1>5, <1>6, <1>7, <1>8, <1>9

\* The mock answers.
LEMMA AtMockDoes ==
  ASSUME FlowTyped, NEW r \in requests, ConfirmAtMock(r)
  PROVE  /\ r.op = "confirm" /\ r.at = "read" /\ r.intent \in IntentIds
         /\ UNCHANGED <<captureMode, bill, rows, handedOut, posts, IntentIds, RowIds>>
         /\ causes \subseteq causes' /\ \A j \in IntentIds \ {r.intent} : intents'[j] = intents[j]
         /\ \E s : /\ requests' = (requests \ {r}) \cup {s} /\ s.op = "confirm" /\ s.intent = r.intent
                   /\ \/ /\ s.at = "confirmed" /\ intents'[r.intent] = WhenPaid
                         /\ "OLD_PAGE" \notin causes' => \E k \in RowIds : rows[k].ref = r.intent
                      \/ /\ s.at = "declined" /\ intents'[r.intent] = "OPEN"
                         /\ "DECLINED_PAID" \notin causes' => r.intent \notin Paid
<1>1. FlowTypeOK /\ r \in FlowRequest /\ RequestFits(r)
  BY RequestBasics DEF FlowTyped
<1>2. r.op = "confirm" /\ r.at = "read" /\ r.intent \in IntentIds
  BY <1>1 DEF ConfirmAtMock, RequestFits
<1>3. UNCHANGED <<captureMode, bill, rows, handedOut, posts, RowIds>>
  BY DEF ConfirmAtMock, RowIds
<1>4. causes \subseteq causes'
  BY DEF ConfirmAtMock, Caused
<1>5. CASE /\ intents' = [intents EXCEPT ![r.intent] = WhenPaid] /\ MoveOn(r, [r EXCEPT !.at = "confirmed"])
           /\ Caused(CauseIf("OLD_PAGE", \A k \in RowIds : rows[k].ref # r.intent))
  <2>1. IntentIds' = IntentIds /\ intents'[r.intent] = WhenPaid
        /\ \A j \in IntentIds \ {r.intent} : intents'[j] = intents[j]
    <3>1. PICK st \in {"OPEN", "HELD", "CHARGED", "CANCELED"} : st = WhenPaid
      BY DEF WhenPaid
    <3> QED
      BY <1>1, <1>2, <1>5, <3>1, IntentMoved
  <2>2. PICK s : s = [r EXCEPT !.at = "confirmed"]
    OBVIOUS
  <2>3. requests' = (requests \ {r}) \cup {s} /\ s.op = "confirm" /\ s.intent = r.intent /\ s.at = "confirmed"
    BY <1>1, <1>2, <1>5, <2>2 DEF MoveOn, FlowRequest
  <2>4. \/ \A k \in RowIds : rows[k].ref # r.intent
        \/ \E k \in RowIds : rows[k].ref = r.intent
    OBVIOUS
  <2>5. "OLD_PAGE" \notin causes' => \E k \in RowIds : rows[k].ref = r.intent
    BY <1>5, <2>4 DEF Caused, CauseIf
  <2>6. \E t : /\ requests' = (requests \ {r}) \cup {t} /\ t.op = "confirm" /\ t.intent = r.intent
               /\ t.at = "confirmed" /\ intents'[r.intent] = WhenPaid
               /\ "OLD_PAGE" \notin causes' => \E k \in RowIds : rows[k].ref = r.intent
    BY <2>1, <2>3, <2>5
  <2> QED
    BY <1>2, <1>3, <1>4, <2>1, <2>6
<1>6. CASE /\ intents' = [intents EXCEPT ![r.intent] = "OPEN"] /\ MoveOn(r, [r EXCEPT !.at = "declined"])
           /\ Caused(CauseIf("DECLINED_PAID", r.intent \in Paid))
  <2>1. IntentIds' = IntentIds /\ intents'[r.intent] = "OPEN"
        /\ \A j \in IntentIds \ {r.intent} : intents'[j] = intents[j]
    BY <1>1, <1>2, <1>6, IntentMoved
  <2>2. PICK s : s = [r EXCEPT !.at = "declined"]
    OBVIOUS
  <2>3. requests' = (requests \ {r}) \cup {s} /\ s.op = "confirm" /\ s.intent = r.intent /\ s.at = "declined"
    BY <1>1, <1>2, <1>6, <2>2 DEF MoveOn, FlowRequest
  <2>4. "DECLINED_PAID" \notin causes' => r.intent \notin Paid
    BY <1>6 DEF Caused, CauseIf
  <2> QED
    BY <1>2, <1>3, <1>4, <2>1, <2>3, <2>4
<1> QED
  BY <1>5, <1>6 DEF ConfirmAtMock

\* What it answered is written.
LEMMA WriteDoes ==
  ASSUME FlowTyped, NEW r \in requests, WriteConfirmed(r) \/ WriteDeclined(r)
  PROVE  /\ r.op = "confirm" /\ r.row \in RowIds /\ r.intent \in IntentIds
         /\ UNCHANGED <<captureMode, intents, handedOut, posts, IntentIds, RowIds>>
         /\ rows'[r.row].ref = rows[r.row].ref /\ \A k \in RowIds \ {r.row} : rows'[k] = rows[k]
         /\ requests' = requests \ {r} /\ causes \subseteq causes' /\ bill'.mock = bill.mock
         /\ "CROSSED" \notin causes' => rows[r.row].ref = r.intent
         /\ WriteConfirmed(r) => /\ rows'[r.row].status = RowAfterPaid /\ bill'.status = "PAID"
                                 /\ "CROSSED" \notin causes' => r.intent \in Paid
         /\ WriteDeclined(r) => /\ rows'[r.row].status = "FAILED" /\ UNCHANGED bill /\ r.at = "declined"
                                /\ "CROSSED" \notin causes' => r.intent \notin Paid
<1>1. FlowTypeOK /\ r \in FlowRequest /\ RequestFits(r)
  BY RequestBasics DEF FlowTyped
<1>2. r.op = "confirm" /\ r.row \in RowIds /\ r.intent \in IntentIds
  BY <1>1 DEF WriteConfirmed, WriteDeclined, RequestFits
<1>3. rows[r.row] \in [status : RowStatuses, ref : IntentIds]
  BY <1>1, <1>2, Listed
<1>4. PICK status \in RowStatuses : /\ rows' = [rows EXCEPT ![r.row].status = status]
                                    /\ WriteConfirmed(r) => status = RowAfterPaid
                                    /\ WriteDeclined(r) => status = "FAILED"
  <2>1. ~(WriteConfirmed(r) /\ WriteDeclined(r))
    BY DEF WriteConfirmed, WriteDeclined
  <2>2. CASE WriteConfirmed(r)
    BY <2>1, <2>2 DEF WriteConfirmed, RowAfterPaid, RowStatuses
  <2>3. CASE WriteDeclined(r)
    BY <2>1, <2>3 DEF WriteDeclined, RowStatuses
  <2> QED
    BY <2>2, <2>3
<1>5. [rows[r.row] EXCEPT !.status = status] \in [status : RowStatuses, ref : IntentIds]
  BY <1>3
<1>6. RowIds' = RowIds /\ rows'[r.row] = [rows[r.row] EXCEPT !.status = status]
      /\ \A k \in RowIds \ {r.row} : rows'[k] = rows[k]
  BY <1>1, <1>2, <1>4, <1>5, RowWritten
<1>7. rows'[r.row].ref = rows[r.row].ref /\ rows'[r.row].status = status
  BY <1>3, <1>6
<1>8. UNCHANGED <<captureMode, intents, handedOut, posts, IntentIds>> /\ requests' = requests \ {r}
      /\ causes \subseteq causes'
  BY DEF WriteConfirmed, WriteDeclined, Leave, Caused, IntentIds
<1>9. bill'.mock = bill.mock
  BY <1>1 DEF WriteConfirmed, WriteDeclined, FlowTypeOK
<1>10. ASSUME WriteConfirmed(r)
       PROVE  bill'.status = "PAID" /\ ("CROSSED" \notin causes' => rows[r.row].ref = r.intent /\ r.intent \in Paid)
  BY <1>1, <1>10 DEF WriteConfirmed, Caused, CauseIf, FlowTypeOK
<1>11. ASSUME WriteDeclined(r)
       PROVE  /\ UNCHANGED bill /\ r.at = "declined"
              /\ "CROSSED" \notin causes' => rows[r.row].ref = r.intent /\ r.intent \notin Paid
  BY <1>11 DEF WriteDeclined, Caused, CauseIf
<1> QED
  BY <1>2, <1>4, <1>6, <1>7, <1>8, <1>9, <1>10, <1>11

\* Which gateway it is does not change, and only with the mock is it asked to confirm.
LEMMA MockSame ==
  ASSUME FlowTyped, [FlowNext]_flowVars
  PROVE  bill'.mock = bill.mock
<1>1. FlowTypeOK
  BY DEF FlowTyped
<1>2. ASSUME NEW r \in requests, LinkRow(r) \/ HandlePost(r) \/ CancelDone(r) \/ SweepWrite(r) \/ WriteConfirmed(r)
      PROVE  bill'.mock = bill.mock
  BY <1>1, <1>2 DEF LinkRow, HandlePost, CancelDone, SweepWrite, WriteConfirmed, FlowTypeOK
<1>3. ASSUME NEW r \in requests,
             \/ ReplaceIntent(r) \/ NewRow(r) \/ ConfirmAtMock(r) \/ WriteDeclined(r) \/ CancelWrite(r) \/ Die(r)
             \/ \E p \in r.todo : CancelVoid(r, p) \/ SweepVoid(r, p)
      PROVE  UNCHANGED bill
  BY <1>3 DEF ReplaceIntent, NewRow, ConfirmAtMock, WriteDeclined, CancelWrite, Die, CancelVoid, SweepVoid
<1>4. CASE AskForIntent \/ AskToCancel \/ SweepRead \/ (\E i \in IntentIds : ConfirmIntent(i))
           \/ (\E k \in RowIds : AskToConfirm(k)) \/ (\E e \in posts : ReceivePost(e)) \/ UNCHANGED flowVars
  BY <1>4 DEF AskForIntent, AskToCancel, SweepRead, ConfirmIntent, AskToConfirm, ReceivePost, flowVars
<1>5. CASE DeadlinePasses
  BY <1>1, <1>5 DEF DeadlinePasses, FlowTypeOK
<1> QED
  BY <1>2, <1>3, <1>4, <1>5 DEF FlowNext, FlowStep

LEMMA MockOnly ==
  ASSUME FlowTyped, MockFits, NEW r \in requests
  PROVE  /\ ConfirmAtMock(r) \/ WriteConfirmed(r) \/ WriteDeclined(r) => bill.mock
         /\ r.op = "event" => ~bill.mock
  BY RequestBasics DEF MockFits, RequestFits, ConfirmAtMock, WriteConfirmed, WriteDeclined

-----------------------------------------------------------------------------
(* Intents and rows belong together. *)

\* Steps that put no intent on a row and hand none out.
LEMMA ApartStays ==
  ASSUME IntentsApart, UNCHANGED <<handedOut, RowIds>>, \A k \in RowIds : rows'[k].ref = rows[k].ref,
         \A r \in requests' : r.op = "create" => r \in requests
  PROVE  IntentsApart'
<1>1. Making' \subseteq Making
  BY DEF Making
<1>2. \A j, k \in RowIds' : rows'[j].ref = rows'[k].ref => j = k
  BY DEF IntentsApart
<1>3. \A r \in Making' : r.intent \notin handedOut' /\ \A k \in RowIds' : rows'[k].ref # r.intent
  BY <1>1 DEF IntentsApart
<1>4. \A r \in requests', q \in Making' : r.op = "create" /\ r.intent = q.intent => r = q
  BY <1>1 DEF IntentsApart
<1> QED
  BY <1>2, <1>3, <1>4 DEF IntentsApart

LEMMA ApartStep == FlowTyped /\ IntentsApart /\ [FlowNext]_flowVars => IntentsApart'
<1> SUFFICES ASSUME FlowTyped, IntentsApart, [FlowNext]_flowVars PROVE IntentsApart'
  OBVIOUS
<1>0. FlowTypeOK /\ \A r \in requests : RequestFits(r)
  BY RequestBasics DEF FlowTyped
<1>1. CASE AskForIntent
  <2>1. PICK n, r :
              /\ n \notin IntentIds /\ IntentIds' = IntentIds \cup {n}
              /\ requests' = requests \cup {r}
              /\ r.op = "create" /\ r.at = "read" /\ r.intent = n
    BY <1>1, AskDoes
  <2>2. UNCHANGED <<rows, handedOut, RowIds>>
    BY <1>1, AskDoes DEF RowIds
  <2>3. \A q \in requests : q.op = "create" => q.intent \in IntentIds
    BY <1>0 DEF RequestFits
  <2>4. Making' = Making \cup {r} /\ \A q \in Making : q \in requests /\ q.op = "create"
    BY <2>1 DEF Making
  <2>5. handedOut \subseteq IntentIds /\ \A k \in RowIds : rows[k].ref \in IntentIds
    BY <1>0, Listed DEF FlowTypeOK
  <2>6. \A j, k \in RowIds' : rows'[j].ref = rows'[k].ref => j = k
    BY <2>2 DEF IntentsApart
  <2>7. \A q \in Making' : q.intent \notin handedOut' /\ \A k \in RowIds' : rows'[k].ref # q.intent
    BY <2>1, <2>2, <2>4, <2>5 DEF IntentsApart
  <2>8. \A s \in requests', q \in Making' : s.op = "create" /\ s.intent = q.intent => s = q
    BY <2>1, <2>3, <2>4 DEF IntentsApart
  <2> QED
    BY <2>6, <2>7, <2>8 DEF IntentsApart
<1>2. ASSUME NEW r \in requests, ReplaceIntent(r) PROVE IntentsApart'
  <2>1. /\ r \in Making /\ r.row \in RowIds /\ RowIds' = RowIds
        /\ rows'[r.row].ref = r.intent /\ \A k \in RowIds \ {r.row} : rows'[k] = rows[k]
        /\ handedOut' = handedOut \cup {r.intent} /\ requests' = requests \ {r}
    BY <1>2, ReplaceDoes
  <2>2. Making' = Making \ {r} /\ r.op = "create"
    BY <2>1 DEF Making
  <2>3. \A q \in Making' : q \in Making /\ q.intent # r.intent
    BY <2>2 DEF IntentsApart
  <2>4. \A j, k \in RowIds' : rows'[j].ref = rows'[k].ref => j = k
    BY <2>1 DEF IntentsApart
  <2>5. \A q \in Making' : q.intent \notin handedOut' /\ \A k \in RowIds' : rows'[k].ref # q.intent
    BY <2>1, <2>3 DEF IntentsApart
  <2>6. \A s \in requests', q \in Making' : s.op = "create" /\ s.intent = q.intent => s = q
    BY <2>1, <2>2 DEF IntentsApart
  <2> QED
    BY <2>4, <2>5, <2>6 DEF IntentsApart
<1>3. ASSUME NEW r \in requests, NewRow(r) PROVE IntentsApart'
  <2>1. r \in Making /\ UNCHANGED handedOut
    BY <1>3, NewRowDoes
  <2>2. PICK n, s :
              /\ n \notin RowIds /\ RowIds' = RowIds \cup {n} /\ \A k \in RowIds : rows'[k] = rows[k]
              /\ rows'[n].ref = r.intent
              /\ requests' = (requests \ {r}) \cup {s}
              /\ s.op = "create" /\ s.at = "linked" /\ s.intent = r.intent
    BY <1>3, NewRowDoes
  <2>3. Making' = Making \ {r} /\ r.op = "create"
    BY <2>1, <2>2 DEF Making
  <2>4. \A q \in Making' : q \in Making /\ q.intent # r.intent
    BY <2>3 DEF IntentsApart, Making
  <2>5. \A j, k \in RowIds' : rows'[j].ref = rows'[k].ref => j = k
    BY <2>1, <2>2 DEF IntentsApart
  <2>6. \A q \in Making' : q.intent \notin handedOut' /\ \A k \in RowIds' : rows'[k].ref # q.intent
    BY <2>1, <2>2, <2>4 DEF IntentsApart
  <2>7. \A t \in requests', q \in Making' : t.op = "create" /\ t.intent = q.intent => t = q
    BY <2>2, <2>3, <2>4 DEF IntentsApart
  <2> QED
    BY <2>5, <2>6, <2>7 DEF IntentsApart
<1>4. ASSUME NEW r \in requests, LinkRow(r) PROVE IntentsApart'
  <2>1. /\ r.op = "create" /\ r \notin Making /\ UNCHANGED <<rows, RowIds>>
        /\ handedOut' = handedOut \cup {r.intent} /\ requests' = requests \ {r}
    BY <1>4, LinkDoes
  <2>2. Making' = Making
    BY <2>1 DEF Making
  <2>3. \A q \in Making : q.intent # r.intent
    BY <2>1 DEF IntentsApart
  <2>4. \A q \in Making' : q.intent \notin handedOut' /\ \A k \in RowIds' : rows'[k].ref # q.intent
    BY <2>1, <2>2, <2>3 DEF IntentsApart
  <2>5. \A s \in requests', q \in Making' : s.op = "create" /\ s.intent = q.intent => s = q
    BY <2>1, <2>2 DEF IntentsApart
  <2>6. \A j, k \in RowIds' : rows'[j].ref = rows'[k].ref => j = k
    BY <2>1 DEF IntentsApart
  <2> QED
    BY <2>4, <2>5, <2>6 DEF IntentsApart
<1>5. ASSUME NEW i \in IntentIds, ConfirmIntent(i) PROVE IntentsApart'
  BY <1>5, ConfirmDoes, ApartStays
<1>6. ASSUME NEW e \in posts, ReceivePost(e) PROVE IntentsApart'
  <2>1. UNCHANGED <<rows, handedOut, RowIds>>
    BY <1>6, ReceiveDoes
  <2>2. \A r \in requests' : r.op = "create" => r \in requests
    BY <1>6, ReceiveDoes
  <2> QED
    BY <2>1, <2>2, ApartStays
<1>7. ASSUME NEW r \in requests, HandlePost(r) PROVE IntentsApart'
  <2>1. UNCHANGED <<handedOut, RowIds>> /\ (\A k \in RowIds : rows'[k].ref = rows[k].ref) /\ requests' = requests \ {r}
    BY <1>7, HandleDoes
  <2> QED
    BY <2>1, ApartStays
<1>8. ASSUME NEW r \in requests, CancelWrite(r) PROVE IntentsApart'
  <2>1. UNCHANGED <<handedOut, RowIds>> /\ \A k \in RowIds : rows'[k].ref = rows[k].ref
    BY <1>8, CancelWriteDoes
  <2>2. \A s \in requests' : s.op = "create" => s \in requests
    BY <1>8, CancelWriteDoes
  <2> QED
    BY <2>1, <2>2, ApartStays
<1>9. ASSUME NEW r \in requests, NEW p \in r.todo, CancelVoid(r, p) \/ SweepVoid(r, p) PROVE IntentsApart'
  <2>1. UNCHANGED <<handedOut, RowIds, rows>>
    BY <1>9, CancelVoidDoes, SweepVoidDoes
  <2>2. \A s \in requests' : s.op = "create" => s \in requests
    BY <1>9, CancelVoidDoes, SweepVoidDoes
  <2> QED
    BY <2>1, <2>2, ApartStays
<1>10. ASSUME NEW r \in requests, SweepWrite(r) PROVE IntentsApart'
  <2>1. UNCHANGED <<handedOut, RowIds>> /\ (\A k \in RowIds : rows'[k].ref = rows[k].ref) /\ requests' = requests \ {r}
    BY <1>10, SweepWriteDoes
  <2> QED
    BY <2>1, ApartStays
<1>11. CASE DeadlinePasses \/ AskToCancel \/ SweepRead \/ (\E k \in RowIds : AskToConfirm(k))
             \/ (\E r \in requests : CancelDone(r) \/ Die(r))
  <2>1. UNCHANGED <<handedOut, RowIds, rows>>
    BY <1>11, ComesOrLeaves
  <2>2. \A s \in requests' : s.op = "create" => s \in requests
    BY <1>11, ComesOrLeaves
  <2> QED
    BY <2>1, <2>2, ApartStays
<1>12. CASE UNCHANGED flowVars
  <2>1. UNCHANGED <<handedOut, RowIds, rows, requests>>
    BY <1>12 DEF flowVars, RowIds
  <2> QED
    BY <2>1, ApartStays
<1>13. ASSUME NEW r \in requests, ConfirmAtMock(r) PROVE IntentsApart'
  <2>1. UNCHANGED <<handedOut, RowIds, rows>>
    BY <1>13, AtMockDoes
  <2>2. \A s \in requests' : s.op = "create" => s \in requests
    BY <1>13, AtMockDoes
  <2> QED
    BY <2>1, <2>2, ApartStays
<1>14. ASSUME NEW r \in requests, WriteConfirmed(r) \/ WriteDeclined(r) PROVE IntentsApart'
  <2>1. /\ UNCHANGED <<handedOut, RowIds>> /\ requests' = requests \ {r}
        /\ r.row \in RowIds /\ rows'[r.row].ref = rows[r.row].ref /\ \A k \in RowIds \ {r.row} : rows'[k] = rows[k]
    BY <1>14, WriteDoes
  <2> QED
    BY <2>1, ApartStays
<1> QED
  BY <1>1, <1>2, <1>3, <1>4, <1>5, <1>6, <1>7, <1>8, <1>9, <1>10, <1>11, <1>12, <1>13, <1>14 DEF FlowNext, FlowStep

-----------------------------------------------------------------------------
(* What the gateway reports is so. *)

\* Events come from what was posted.
NoNewEvents ==
    \A r \in requests' : r.op = "event" =>
        r \in requests \/ [intent |-> r.intent, kind |-> r.kind] \in posts

LEMMA ReportsFrom ==
  ASSUME NEW a, NEW b, posts' \subseteq posts \cup {[intent |-> a, kind |-> b]}, NoNewEvents,
         NEW kind, NEW i, Reported(kind, i)'
  PROVE  Reported(kind, i) \/ (i = a /\ kind = b)
<1>1. CASE [intent |-> i, kind |-> kind] \in posts'
  BY <1>1 DEF Reported
<1>2. ASSUME NEW r \in requests', r.op = "event", r.intent = i, r.kind = kind PROVE Reported(kind, i)
  <2>1. r \in requests \/ [intent |-> i, kind |-> kind] \in posts
    BY <1>2 DEF NoNewEvents
  <2> QED
    BY <1>2, <2>1 DEF Reported
<1> QED
  BY <1>1, <1>2 DEF Reported

LEMMA ReportsSame ==
  ASSUME posts' \subseteq posts, NoNewEvents, NEW kind, NEW i, Reported(kind, i)'
  PROVE  Reported(kind, i)
<1>1. CASE [intent |-> i, kind |-> kind] \in posts'
  BY <1>1 DEF Reported
<1>2. ASSUME NEW r \in requests', r.op = "event", r.intent = i, r.kind = kind PROVE Reported(kind, i)
  <2>1. r \in requests \/ [intent |-> i, kind |-> kind] \in posts
    BY <1>2 DEF NoNewEvents
  <2> QED
    BY <1>2, <2>1 DEF Reported
<1> QED
  BY <1>1, <1>2 DEF Reported

LEMMA ReportsTyped ==
  ASSUME FlowTyped, NEW kind, NEW i, Reported(kind, i)
  PROVE  i \in IntentIds
<1>1. CASE [intent |-> i, kind |-> kind] \in posts
  BY <1>1 DEF FlowTyped, FlowTypeOK
<1>2. ASSUME NEW r \in requests, r.op = "event", r.intent = i PROVE i \in IntentIds
  BY <1>2, RequestBasics DEF RequestFits
<1> QED
  BY <1>1, <1>2 DEF Reported

\* Steps after which nothing is at the gateway that was not before.
LEMMA GatewayStays ==
  ASSUME FlowTyped, GatewayFits, UNCHANGED captureMode, bill'.mock = bill.mock, handedOut \subseteq handedOut',
         IntentIds \subseteq IntentIds', \A i \in IntentIds : intents'[i] = intents[i],
         \A i \in IntentIds' \ IntentIds : intents'[i] = "OPEN",
         \A k \in RowIds' : rows'[k].status = "AUTHORIZED" => k \in RowIds /\ rows[k].status = "AUTHORIZED",
         posts' \subseteq posts, NoNewEvents
  PROVE  GatewayFits'
<1>1. \A i \in IntentIds' : /\ intents'[i] = "HELD" => captureMode = "manual" /\ (bill'.mock \/ i \in handedOut')
                            /\ intents'[i] = "CHARGED" => captureMode = "automatic" /\ (bill'.mock \/ i \in handedOut')
  BY DEF GatewayFits
<1>2. \A k \in RowIds' : rows'[k].status = "AUTHORIZED" => captureMode = "manual"
  BY DEF GatewayFits
<1>3. ASSUME NEW i \in IntentIds', NEW kind \in {"PAID", "CANCELED"}, Reported(kind, i)' PROVE SaidTruly(kind, i)'
  <2>1. Reported(kind, i) /\ i \in IntentIds
    BY <1>3, ReportsSame, ReportsTyped
  <2>2. SaidTruly(kind, i)
    BY <2>1 DEF GatewayFits
  <2> QED
    BY <2>1, <2>2 DEF SaidTruly
<1> QED
  BY <1>1, <1>2, <1>3 DEF GatewayFits

\* An intent that was not charged is cancelled, and the gateway says so.
LEMMA GatewayVoids ==
  ASSUME FlowTyped, GatewayFits, UNCHANGED <<captureMode, bill, handedOut, rows, RowIds, IntentIds>>, ~bill.mock,
         NEW i \in IntentIds,
         \A j \in IntentIds \ {i} : intents'[j] = intents[j], intents[i] # "CHARGED", intents'[i] = "CANCELED",
         posts' = posts \cup {[intent |-> i, kind |-> "CANCELED"]}, NoNewEvents
  PROVE  GatewayFits'
<1>1. \A j \in IntentIds' : /\ intents'[j] = "HELD" => captureMode = "manual" /\ (bill'.mock \/ j \in handedOut')
                            /\ intents'[j] = "CHARGED" => captureMode = "automatic" /\ (bill'.mock \/ j \in handedOut')
  BY DEF GatewayFits
<1>2. \A k \in RowIds' : rows'[k].status = "AUTHORIZED" => captureMode = "manual"
  BY DEF GatewayFits
<1>3. ASSUME NEW j \in IntentIds', NEW kind \in {"PAID", "CANCELED"}, Reported(kind, j)' PROVE SaidTruly(kind, j)'
  <2>1. Reported(kind, j) \/ (j = i /\ kind = "CANCELED")
    BY <1>3, ReportsFrom
  <2>2. CASE Reported(kind, j)
    <3>1. SaidTruly(kind, j) /\ j \in IntentIds
      BY <2>2, ReportsTyped DEF GatewayFits
    <3>2. CASE j = i
      BY <3>1, <3>2 DEF SaidTruly
    <3>3. CASE j # i
      BY <3>1, <3>3 DEF SaidTruly
    <3> QED
      BY <3>2, <3>3
  <2>3. CASE j = i /\ kind = "CANCELED"
    BY <2>3 DEF SaidTruly
  <2> QED
    BY <2>1, <2>2, <2>3
<1> QED
  BY <1>1, <1>2, <1>3 DEF GatewayFits

\* The mock posts nothing, and says what it has in the order's way.
LEMMA GatewayMocked ==
  ASSUME FlowTyped, GatewayFits, MockFits, bill.mock, UNCHANGED <<captureMode, bill, rows, RowIds, IntentIds, posts>>,
         NoNewEvents, NEW i \in IntentIds, \A j \in IntentIds \ {i} : intents'[j] = intents[j],
         intents'[i] \in {"OPEN", "CANCELED", WhenPaid}
  PROVE  GatewayFits'
<1>0. captureMode \in {"manual", "automatic"}
  BY DEF FlowTyped, FlowTypeOK
<1>1. \A j \in IntentIds' : /\ intents'[j] = "HELD" => captureMode = "manual" /\ (bill'.mock \/ j \in handedOut')
                            /\ intents'[j] = "CHARGED" => captureMode = "automatic" /\ (bill'.mock \/ j \in handedOut')
  BY <1>0 DEF GatewayFits, WhenPaid
<1>2. \A k \in RowIds' : rows'[k].status = "AUTHORIZED" => captureMode = "manual"
  BY DEF GatewayFits
<1>3. ASSUME NEW j \in IntentIds', NEW kind \in {"PAID", "CANCELED"}, Reported(kind, j)' PROVE FALSE
  BY <1>3, ReportsSame DEF MockFits, Reported
<1> QED
  BY <1>1, <1>2, <1>3 DEF GatewayFits

LEMMA GatewayStep == FlowTyped /\ GatewayFits /\ MockFits /\ [FlowNext]_flowVars => GatewayFits'
<1> SUFFICES ASSUME FlowTyped, GatewayFits, MockFits, [FlowNext]_flowVars PROVE GatewayFits'
  OBVIOUS
<1>0. FlowTypeOK
  BY DEF FlowTyped
<1>m. bill'.mock = bill.mock
  BY MockSame
<1>1. CASE AskForIntent
  <2>1. UNCHANGED <<captureMode, rows, handedOut, posts, RowIds>>
    BY <1>1, AskDoes DEF RowIds
  <2>2. IntentIds \subseteq IntentIds' /\ (\A i \in IntentIds : intents'[i] = intents[i])
        /\ \A i \in IntentIds' \ IntentIds : intents'[i] = "OPEN"
    BY <1>1, AskDoes
  <2>3. NoNewEvents
    BY <1>1, AskDoes DEF NoNewEvents
  <2> QED
    BY <2>1, <2>2, <2>3, <1>m, GatewayStays
<1>2. ASSUME NEW r \in requests, ReplaceIntent(r) PROVE GatewayFits'
  <2>1. UNCHANGED <<captureMode, intents, posts, IntentIds, RowIds>> /\ handedOut \subseteq handedOut'
        /\ requests' \subseteq requests /\ \A k \in RowIds : rows'[k].status = rows[k].status
    BY <1>2, ReplaceDoes
  <2>2. NoNewEvents
    BY <2>1 DEF NoNewEvents
  <2> QED
    BY <2>1, <2>2, <1>m, GatewayStays
<1>3. ASSUME NEW r \in requests, NewRow(r) PROVE GatewayFits'
  <2>1. UNCHANGED <<captureMode, intents, posts, IntentIds, handedOut>>
    BY <1>3, NewRowDoes
  <2>2. \A k \in RowIds' : rows'[k].status = "AUTHORIZED" => k \in RowIds /\ rows[k].status = "AUTHORIZED"
    BY <1>3, NewRowDoes
  <2>3. NoNewEvents
    BY <1>3, NewRowDoes DEF NoNewEvents
  <2> QED
    BY <2>1, <2>2, <2>3, <1>m, GatewayStays
<1>4. ASSUME NEW r \in requests, LinkRow(r) PROVE GatewayFits'
  <2>1. UNCHANGED <<captureMode, intents, rows, posts, IntentIds, RowIds>> /\ handedOut \subseteq handedOut'
        /\ requests' \subseteq requests
    BY <1>4, LinkDoes
  <2>2. NoNewEvents
    BY <2>1 DEF NoNewEvents
  <2> QED
    BY <2>1, <2>2, <1>m, GatewayStays
<1>5. ASSUME NEW i \in IntentIds, ConfirmIntent(i) PROVE GatewayFits'
  <2>1. /\ i \in handedOut /\ intents[i] = "OPEN"
        /\ UNCHANGED <<captureMode, rows, handedOut, requests, IntentIds, RowIds>>
        /\ \A j \in IntentIds \ {i} : intents'[j] = intents[j]
    BY <1>5, ConfirmDoes
  <2>2. PICK what \in {"PAID", "FAILED"} :
           /\ posts' = posts \cup {[intent |-> i, kind |-> what]}
           /\ intents'[i] = IF what = "FAILED" THEN "OPEN"
                            ELSE IF captureMode = "manual" THEN "HELD" ELSE "CHARGED"
    <3>1. CASE /\ intents'[i] = IF captureMode = "manual" THEN "HELD" ELSE "CHARGED"
               /\ posts' = posts \cup {[intent |-> i, kind |-> "PAID"]}
      BY <3>1
    <3>2. CASE intents'[i] = "OPEN" /\ posts' = posts \cup {[intent |-> i, kind |-> "FAILED"]}
      BY <3>2
    <3> QED
      BY <1>5, <3>1, <3>2, ConfirmDoes
  <2>3. NoNewEvents
    BY <2>1 DEF NoNewEvents
  <2>4. captureMode \in {"manual", "automatic"}
    BY <1>0 DEF FlowTypeOK
  <2>5. \A j \in IntentIds' :
           /\ intents'[j] = "HELD" => captureMode = "manual" /\ (bill'.mock \/ j \in handedOut')
           /\ intents'[j] = "CHARGED" => captureMode = "automatic" /\ (bill'.mock \/ j \in handedOut')
    BY <1>m, <2>1, <2>2, <2>4 DEF GatewayFits
  <2>6. \A k \in RowIds' : rows'[k].status = "AUTHORIZED" => captureMode = "manual"
    BY <2>1 DEF GatewayFits
  <2>7. ASSUME NEW j \in IntentIds', NEW kind \in {"PAID", "CANCELED"}, Reported(kind, j)' PROVE SaidTruly(kind, j)'
    <3>1. Reported(kind, j) \/ (j = i /\ kind = what)
      BY <2>2, <2>3, <2>7, ReportsFrom
    <3>2. CASE Reported(kind, j)
      <4>1. SaidTruly(kind, j) /\ j \in IntentIds
        BY <3>2, ReportsTyped DEF GatewayFits
      <4>2. j # i
        BY <2>1, <2>4, <4>1 DEF SaidTruly
      <4> QED
        BY <2>1, <4>1, <4>2 DEF SaidTruly
    <3>3. CASE j = i /\ kind = what
      BY <2>1, <2>2, <2>4, <2>7, <3>3 DEF SaidTruly
    <3> QED
      BY <3>1, <3>2, <3>3
  <2>8. UNCHANGED captureMode
    BY <2>1
  <2> QED
    BY <1>m, <2>5, <2>6, <2>7, <2>8 DEF GatewayFits
<1>6. ASSUME NEW e \in posts, ReceivePost(e) PROVE GatewayFits'
  <2>1. UNCHANGED <<captureMode, rows, intents, handedOut, IntentIds, RowIds>>
    BY <1>6, ReceiveDoes
  <2>2. posts' \subseteq posts
    BY <1>6, ReceiveDoes
  <2>3. e = [intent |-> e.intent, kind |-> e.kind]
    BY <1>0 DEF FlowTypeOK
  <2>4. NoNewEvents
    <3>1. CASE UNCHANGED requests
      BY <3>1 DEF NoNewEvents
    <3>2. ASSUME NEW r, requests' = requests \cup {r}, r.intent = e.intent, r.kind = e.kind
          PROVE  NoNewEvents
      BY <2>3, <3>2 DEF NoNewEvents
    <3> QED
      BY <1>6, <3>1, <3>2, ReceiveDoes
  <2> QED
    BY <2>1, <2>2, <2>4, <1>m, GatewayStays
<1>7. ASSUME NEW r \in requests, HandlePost(r) PROVE GatewayFits'
  <2>1. /\ r.op = "event" /\ r.row \in RowIds /\ r.intent \in IntentIds /\ r.kind \in {"PAID", "FAILED", "CANCELED"}
        /\ UNCHANGED <<captureMode, intents, handedOut, IntentIds, RowIds>>
        /\ rows'[r.row].status = RowAfterEvent(r.kind)
        /\ \A k \in RowIds \ {r.row} : rows'[k] = rows[k]
        /\ posts' \subseteq posts /\ requests' \subseteq requests
    BY <1>7, HandleDoes
  <2>2. NoNewEvents
    BY <2>1 DEF NoNewEvents
  <2>3. \A k \in RowIds' : rows'[k].status = "AUTHORIZED" => captureMode = "manual"
    BY <2>1 DEF GatewayFits, RowAfterEvent, RowAfterPaid
  <2>4. ASSUME NEW i \in IntentIds', NEW kind \in {"PAID", "CANCELED"}, Reported(kind, i)' PROVE SaidTruly(kind, i)'
    <3>1. Reported(kind, i) /\ i \in IntentIds
      BY <2>1, <2>2, <2>4, ReportsSame, ReportsTyped
    <3>2. SaidTruly(kind, i)
      BY <3>1 DEF GatewayFits
    <3> QED
      BY <2>1, <3>1, <3>2 DEF SaidTruly
  <2> QED
    BY <1>m, <2>1, <2>3, <2>4 DEF GatewayFits
<1>8. ASSUME NEW r \in requests, CancelWrite(r) PROVE GatewayFits'
  <2>1. /\ UNCHANGED <<captureMode, intents, handedOut, posts, IntentIds, RowIds>>
        /\ r.row \in RowIds /\ rows'[r.row].status = "CANCELLED"
        /\ \A k \in RowIds \ {r.row} : rows'[k] = rows[k]
    BY <1>8, CancelWriteDoes
  <2>2. NoNewEvents
    BY <1>8, CancelWriteDoes DEF NoNewEvents
  <2>3. \A k \in RowIds' : rows'[k].status = "AUTHORIZED" => k \in RowIds /\ rows[k].status = "AUTHORIZED"
    BY <2>1
  <2> QED
    BY <2>1, <2>2, <2>3, <1>m, GatewayStays
<1>9. ASSUME NEW i \in IntentIds, NEW cause, CancelAtGateway(i, cause),
             UNCHANGED <<captureMode, bill, handedOut, rows, RowIds>>, NoNewEvents
      PROVE  GatewayFits'
  <2>1. UNCHANGED IntentIds /\ \A j \in IntentIds \ {i} : intents'[j] = intents[j]
    BY <1>9, GatewayDoes
  <2>2. CASE intents'[i] = intents[i] /\ UNCHANGED posts
    BY <1>9, <1>m, <2>1, <2>2, GatewayStays
  <2>3. CASE ~bill.mock /\ intents[i] # "CHARGED" /\ intents'[i] = "CANCELED"
             /\ posts' = posts \cup {[intent |-> i, kind |-> "CANCELED"]}
    BY <1>9, <2>1, <2>3, GatewayVoids
  <2>4. CASE bill.mock /\ intents'[i] = "CANCELED" /\ UNCHANGED posts
    BY <1>9, <2>1, <2>4, GatewayMocked
  <2> QED
    BY <1>9, <2>2, <2>3, <2>4, GatewayDoes
<1>10. ASSUME NEW r \in requests, NEW p \in r.todo, CancelVoid(r, p) PROVE GatewayFits'
  <2>1. p.ref \in IntentIds /\ CancelAtGateway(p.ref, {}) /\ UNCHANGED <<captureMode, bill, handedOut, rows, RowIds>>
    BY <1>10, CancelVoidDoes
  <2>2. NoNewEvents
    BY <1>10, CancelVoidDoes DEF NoNewEvents
  <2> QED
    BY <1>9, <2>1, <2>2
<1>11. ASSUME NEW r \in requests, NEW p \in r.todo, SweepVoid(r, p) PROVE GatewayFits'
  <2>1. p.ref \in IntentIds /\ CancelAtGateway(p.ref, CauseIf("VOIDED_PAID", p.ref \in Paid))
        /\ UNCHANGED <<captureMode, bill, handedOut, rows, RowIds>>
    BY <1>11, SweepVoidDoes
  <2>2. NoNewEvents
    BY <1>11, SweepVoidDoes DEF NoNewEvents
  <2> QED
    BY <1>9, <2>1, <2>2
<1>12. ASSUME NEW r \in requests, SweepWrite(r) PROVE GatewayFits'
  <2>1. UNCHANGED <<captureMode, intents, handedOut, posts, IntentIds, RowIds>> /\ requests' \subseteq requests
    BY <1>12, SweepWriteDoes
  <2>2. NoNewEvents
    BY <2>1 DEF NoNewEvents
  <2>3. \A k \in RowIds' : rows'[k].status = "AUTHORIZED" => k \in RowIds /\ rows[k].status = "AUTHORIZED"
    BY <1>12, <2>1, SweepWriteDoes
  <2> QED
    BY <2>1, <2>2, <2>3, <1>m, GatewayStays
<1>13. CASE DeadlinePasses \/ AskToCancel \/ SweepRead \/ (\E k \in RowIds : AskToConfirm(k))
             \/ (\E r \in requests : CancelDone(r) \/ Die(r))
  <2>1. UNCHANGED <<captureMode, rows, intents, handedOut, posts, IntentIds, RowIds>>
    BY <1>13, ComesOrLeaves
  <2>2. NoNewEvents
    BY <1>13, ComesOrLeaves DEF NoNewEvents
  <2> QED
    BY <2>1, <2>2, <1>m, GatewayStays
<1>14. CASE UNCHANGED flowVars
  <2>1. UNCHANGED <<captureMode, rows, intents, handedOut, posts, requests, IntentIds, RowIds>>
    BY <1>14 DEF flowVars, IntentIds, RowIds
  <2>2. NoNewEvents
    BY <2>1 DEF NoNewEvents
  <2> QED
    BY <2>1, <2>2, <1>m, GatewayStays
<1>15. ASSUME NEW r \in requests, ConfirmAtMock(r) PROVE GatewayFits'
  <2>1. /\ r.intent \in IntentIds /\ UNCHANGED <<captureMode, bill, rows, RowIds, IntentIds, posts>>
        /\ \A j \in IntentIds \ {r.intent} : intents'[j] = intents[j]
        /\ intents'[r.intent] \in {"OPEN", WhenPaid}
    BY <1>15, AtMockDoes
  <2>2. NoNewEvents
    BY <1>15, AtMockDoes DEF NoNewEvents
  <2>3. bill.mock
    BY <1>15, MockOnly
  <2> QED
    BY <2>1, <2>2, <2>3, GatewayMocked
<1>16. ASSUME NEW r \in requests, WriteConfirmed(r) \/ WriteDeclined(r) PROVE GatewayFits'
  <2>1. /\ UNCHANGED <<captureMode, intents, handedOut, posts, IntentIds, RowIds>> /\ requests' = requests \ {r}
        /\ r.row \in RowIds /\ rows'[r.row].status \in {RowAfterPaid, "FAILED"}
        /\ \A k \in RowIds \ {r.row} : rows'[k] = rows[k]
    BY <1>16, WriteDoes
  <2>2. NoNewEvents
    BY <2>1 DEF NoNewEvents
  <2>3. \A k \in RowIds' : rows'[k].status = "AUTHORIZED" => captureMode = "manual"
    BY <2>1 DEF GatewayFits, RowAfterPaid
  <2>4. ASSUME NEW i \in IntentIds', NEW kind \in {"PAID", "CANCELED"}, Reported(kind, i)' PROVE SaidTruly(kind, i)'
    <3>1. Reported(kind, i) /\ i \in IntentIds
      BY <2>1, <2>2, <2>4, ReportsSame, ReportsTyped
    <3>2. SaidTruly(kind, i)
      BY <3>1 DEF GatewayFits
    <3> QED
      BY <2>1, <3>1, <3>2 DEF SaidTruly
  <2> QED
    BY <1>m, <2>1, <2>3, <2>4 DEF GatewayFits
<1> QED
  BY <1>1, <1>2, <1>3, <1>4, <1>5, <1>6, <1>7, <1>8, <1>10, <1>11, <1>12, <1>13, <1>14, <1>15, <1>16
  DEF FlowNext, FlowStep

-----------------------------------------------------------------------------
(* What is settled at the gateway stays settled. *)

LEMMA SettledStays ==
  ASSUME FlowTyped, [FlowNext]_flowVars
  PROVE  /\ IntentIds \subseteq IntentIds' /\ causes \subseteq causes' /\ UNCHANGED captureMode
         /\ MockFits /\ ~bill.mock =>
               \A i \in IntentIds : intents[i] \in {"CANCELED", "CHARGED"} => intents'[i] = intents[i]
<1> DEFINE Goal == /\ IntentIds \subseteq IntentIds' /\ causes \subseteq causes' /\ UNCHANGED captureMode
                   /\ MockFits /\ ~bill.mock =>
                        \A i \in IntentIds : intents[i] \in {"CANCELED", "CHARGED"} => intents'[i] = intents[i]
<1>1. CASE AskForIntent
  BY <1>1, AskDoes
<1>2. ASSUME NEW r \in requests, ReplaceIntent(r) PROVE Goal
  BY <1>2, ReplaceDoes
<1>3. ASSUME NEW r \in requests, NewRow(r) PROVE Goal
  BY <1>3, NewRowDoes
<1>4. ASSUME NEW r \in requests, LinkRow(r) PROVE Goal
  BY <1>4, LinkDoes
<1>5. ASSUME NEW i \in IntentIds, ConfirmIntent(i) PROVE Goal
  <2>1. /\ intents[i] = "OPEN" /\ UNCHANGED <<captureMode, IntentIds>> /\ causes \subseteq causes'
        /\ \A j \in IntentIds \ {i} : intents'[j] = intents[j]
    BY <1>5, ConfirmDoes
  <2> QED
    BY <2>1
<1>6. ASSUME NEW e \in posts, ReceivePost(e) PROVE Goal
  <2>1. UNCHANGED <<captureMode, intents, causes, IntentIds>>
    BY <1>6, ReceiveDoes
  <2> QED
    BY <2>1
<1>7. ASSUME NEW r \in requests, HandlePost(r) PROVE Goal
  <2>1. UNCHANGED <<captureMode, intents, IntentIds>> /\ causes \subseteq causes'
    BY <1>7, HandleDoes
  <2> QED
    BY <2>1
<1>8. ASSUME NEW r \in requests, CancelWrite(r) PROVE Goal
  <2>1. UNCHANGED <<captureMode, intents, IntentIds>> /\ causes \subseteq causes'
    BY <1>8, CancelWriteDoes
  <2> QED
    BY <2>1
<1>9. ASSUME NEW i \in IntentIds, NEW cause, CancelAtGateway(i, cause)
      PROVE  /\ IntentIds \subseteq IntentIds' /\ causes \subseteq causes'
             /\ ~bill.mock => \A j \in IntentIds : intents[j] \in {"CANCELED", "CHARGED"} => intents'[j] = intents[j]
  <2>1. IntentIds' = IntentIds /\ causes \subseteq causes' /\ \A j \in IntentIds \ {i} : intents'[j] = intents[j]
    BY <1>9, GatewayDoes
  <2>2. intents'[i] = intents[i] \/ bill.mock \/ (intents[i] # "CHARGED" /\ intents'[i] = "CANCELED")
    BY <1>9, GatewayDoes
  <2> QED
    BY <2>1, <2>2
<1>10. ASSUME NEW r \in requests, NEW p \in r.todo, CancelVoid(r, p) PROVE Goal
  <2>1. p.ref \in IntentIds /\ CancelAtGateway(p.ref, {}) /\ UNCHANGED captureMode
    BY <1>10, CancelVoidDoes
  <2> QED
    BY <1>9, <2>1
<1>11. ASSUME NEW r \in requests, NEW p \in r.todo, SweepVoid(r, p) PROVE Goal
  <2>1. p.ref \in IntentIds /\ UNCHANGED captureMode
        /\ CancelAtGateway(p.ref, CauseIf("VOIDED_PAID", p.ref \in Paid))
    BY <1>11, SweepVoidDoes
  <2> QED
    BY <1>9, <2>1
<1>12. ASSUME NEW r \in requests, SweepWrite(r) PROVE Goal
  <2>1. UNCHANGED <<captureMode, intents, IntentIds>> /\ causes \subseteq causes'
    BY <1>12, SweepWriteDoes
  <2> QED
    BY <2>1
<1>13. CASE DeadlinePasses \/ AskToCancel \/ SweepRead \/ (\E k \in RowIds : AskToConfirm(k))
             \/ (\E r \in requests : CancelDone(r) \/ Die(r))
  <2>1. UNCHANGED <<captureMode, intents, IntentIds>> /\ causes \subseteq causes'
    BY <1>13, ComesOrLeaves
  <2> QED
    BY <2>1
<1>14. CASE UNCHANGED flowVars
  BY <1>14 DEF flowVars, IntentIds
<1>15. ASSUME NEW r \in requests, ConfirmAtMock(r) PROVE Goal
  <2>1. UNCHANGED <<captureMode, IntentIds>> /\ causes \subseteq causes'
    BY <1>15, AtMockDoes
  <2> QED
    BY <1>15, <2>1, MockOnly
<1>16. ASSUME NEW r \in requests, WriteConfirmed(r) \/ WriteDeclined(r) PROVE Goal
  <2>1. UNCHANGED <<captureMode, intents, IntentIds>> /\ causes \subseteq causes'
    BY <1>16, WriteDoes
  <2> QED
    BY <2>1
<1> QED
  BY <1>1, <1>2, <1>3, <1>4, <1>5, <1>6, <1>7, <1>8, <1>10, <1>11, <1>12, <1>13, <1>14, <1>15, <1>16
  DEF FlowNext, FlowStep

LEMMA VoidedStays ==
  ASSUME FlowTyped, MockFits, ~bill.mock, [FlowNext]_flowVars
  PROVE  \A i \in IntentIds : Voided(i) => Voided(i)'
  BY SettledStays DEF Voided

\* A step that counts as clean was taken from a clean state.
LEMMA CleanBefore ==
  ASSUME FlowTyped, [FlowNext]_flowVars
  PROVE  /\ Clean' => Clean /\ {"CROSSED", "OLD_PAGE", "GATEWAY_ERROR", "CONFIRM_DIED"} \cap causes' = {}
         /\ \A what : NoneOf(what)' => NoneOf(what)
<1>1. causes \subseteq causes'
  BY SettledStays
<1> QED
  BY <1>1 DEF Clean, NoneOf

-----------------------------------------------------------------------------
(* The mock gateway. *)

\* Nothing is posted, and only what asks it to confirm comes.
LEMMA MockPosts ==
  ASSUME FlowTyped, MockFits, [FlowNext]_flowVars
  PROVE  /\ bill.mock => posts' = {}
         /\ \A r \in requests' : r \in requests \/ (IF bill.mock THEN r.op # "event" ELSE r.op # "confirm")
<1> DEFINE Goal == /\ bill.mock => posts' = {}
                   /\ \A r \in requests' : r \in requests \/ (IF bill.mock THEN r.op # "event" ELSE r.op # "confirm")
<1>1. bill.mock => posts = {}
  BY DEF MockFits
<1>2. CASE AskForIntent
  <2>1. UNCHANGED posts /\ \A r \in requests' : r \in requests \/ r.op = "create"
    BY <1>2, AskDoes
  <2> QED
    BY <1>1, <2>1
<1>3. ASSUME NEW r \in requests, ReplaceIntent(r) \/ NewRow(r) \/ LinkRow(r) PROVE Goal
  <2>1. UNCHANGED posts /\ \A q \in requests' : q \in requests \/ q.op = "create"
    BY <1>3, ReplaceDoes, NewRowDoes, LinkDoes
  <2> QED
    BY <1>1, <2>1
<1>4. ASSUME NEW i \in IntentIds, ConfirmIntent(i) PROVE Goal
  BY <1>4 DEF ConfirmIntent
<1>5. ASSUME NEW e \in posts, ReceivePost(e) PROVE Goal
  <2>1. \A r \in requests' : r \in requests \/ r.op = "event"
    BY <1>5, ReceiveDoes
  <2> QED
    BY <1>1, <1>5, <2>1
<1>6. ASSUME NEW r \in requests, HandlePost(r) PROVE Goal
  <2>1. r.op = "event" /\ requests' \subseteq requests
    BY <1>6, HandleDoes
  <2> QED
    BY <2>1, MockOnly
<1>7. ASSUME NEW r \in requests, CancelWrite(r) PROVE Goal
  <2>1. UNCHANGED posts /\ \A q \in requests' : q \in requests \/ q.op = "cancel"
    BY <1>7, CancelWriteDoes
  <2> QED
    BY <1>1, <2>1
<1>8. ASSUME NEW i \in IntentIds, NEW cause, CancelAtGateway(i, cause) PROVE bill.mock => UNCHANGED posts
  BY <1>8, GatewayDoes
<1>9. ASSUME NEW r \in requests, NEW p \in r.todo, CancelVoid(r, p) PROVE Goal
  <2>1. p.ref \in IntentIds /\ CancelAtGateway(p.ref, {}) /\ \A q \in requests' : q \in requests \/ q.op = "cancel"
    BY <1>9, CancelVoidDoes
  <2> QED
    BY <1>1, <1>8, <2>1
<1>10. ASSUME NEW r \in requests, NEW p \in r.todo, SweepVoid(r, p) PROVE Goal
  <2>1. p.ref \in IntentIds /\ CancelAtGateway(p.ref, CauseIf("VOIDED_PAID", p.ref \in Paid))
        /\ \A q \in requests' : q \in requests \/ q.op = "sweep"
    BY <1>10, SweepVoidDoes
  <2> QED
    BY <1>1, <1>8, <2>1
<1>11. ASSUME NEW r \in requests, SweepWrite(r) \/ WriteConfirmed(r) \/ WriteDeclined(r) PROVE Goal
  <2>1. UNCHANGED posts /\ requests' \subseteq requests
    BY <1>11, SweepWriteDoes, WriteDoes
  <2> QED
    BY <1>1, <2>1
<1>12. CASE DeadlinePasses \/ AskToCancel \/ SweepRead \/ (\E k \in RowIds : AskToConfirm(k))
            \/ (\E r \in requests : CancelDone(r) \/ Die(r))
  <2>1. UNCHANGED posts
    BY <1>12, ComesOrLeaves
  <2>2. \A q \in requests' : q \in requests \/ q.op \in {"cancel", "sweep"} \/ (q.op = "confirm" /\ bill.mock)
    BY <1>12, ComesOrLeaves
  <2> QED
    BY <1>1, <2>1, <2>2
<1>13. ASSUME NEW r \in requests, ConfirmAtMock(r) PROVE Goal
  <2>1. UNCHANGED posts /\ \A q \in requests' : q \in requests \/ q.op = "confirm"
    BY <1>13, AtMockDoes
  <2> QED
    BY <1>1, <1>13, <2>1, MockOnly
<1>14. CASE UNCHANGED flowVars
  BY <1>1, <1>14 DEF flowVars
<1> QED
  BY <1>2, <1>3, <1>4, <1>5, <1>6, <1>7, <1>9, <1>10, <1>11, <1>12, <1>13, <1>14 DEF FlowNext, FlowStep

\* A confirmation the mock has answered waits until it is written.
LEMMA ConfirmsStay ==
  ASSUME FlowTyped, [FlowNext]_flowVars, "CONFIRM_DIED" \notin causes', \A r \in requests : ~WriteConfirmed(r)
  PROVE  \A i : Confirmed(i) => Confirmed(i)'
<1> DEFINE Goal == \A r \in requests : r.op = "confirm" /\ r.at = "confirmed" => r \in requests'
<1>1. ASSUME NEW r \in requests,
             \/ ReplaceIntent(r) \/ NewRow(r) \/ LinkRow(r) \/ HandlePost(r) \/ CancelWrite(r) \/ CancelDone(r)
             \/ SweepWrite(r) \/ ConfirmAtMock(r) \/ WriteDeclined(r)
             \/ \E p \in r.todo : CancelVoid(r, p) \/ SweepVoid(r, p)
      PROVE  Goal
  <2>1. requests \ {r} \subseteq requests'
    BY <1>1 DEF ReplaceIntent, NewRow, LinkRow, HandlePost, CancelWrite, CancelDone, SweepWrite, ConfirmAtMock,
                WriteDeclined, CancelVoid, SweepVoid, Leave, MoveOn
  <2>2. r.op # "confirm" \/ r.at # "confirmed"
    BY <1>1 DEF ReplaceIntent, NewRow, LinkRow, HandlePost, CancelWrite, CancelDone, SweepWrite, ConfirmAtMock,
                WriteDeclined, CancelVoid, SweepVoid
  <2> QED
    BY <2>1, <2>2
<1>2. ASSUME NEW r \in requests, Die(r) PROVE Goal
  BY <1>2 DEF Die, Leave, Caused, CauseIf
<1>3. ASSUME \/ AskForIntent \/ AskToCancel \/ DeadlinePasses \/ SweepRead \/ \E i \in IntentIds : ConfirmIntent(i)
             \/ (\E k \in RowIds : AskToConfirm(k)) \/ (\E e \in posts : ReceivePost(e)) \/ UNCHANGED flowVars
      PROVE  Goal
  <2>1. requests \subseteq requests'
    BY <1>3 DEF AskForIntent, AskToCancel, DeadlinePasses, SweepRead, ConfirmIntent, AskToConfirm, ReceivePost,
                Enter, flowVars
  <2> QED
    BY <2>1
<1>4. Goal
  BY <1>1, <1>2, <1>3 DEF FlowNext, FlowStep
<1> QED
  BY <1>4 DEF Confirmed

LEMMA PaidStays ==
  ASSUME IntentIds \subseteq IntentIds', \A i \in IntentIds : intents'[i] = intents[i] \/ intents'[i] = "CANCELED",
         \A i \in IntentIds' \ IntentIds : intents'[i] = "OPEN"
  PROVE  Paid' \subseteq Paid
  BY DEF Paid

\* Money is taken only when a buyer confirms.
LEMMA PaidStep ==
  ASSUME FlowTyped, [FlowNext]_flowVars,
         \A i \in IntentIds : ~ConfirmIntent(i), \A r \in requests : ~ConfirmAtMock(r)
  PROVE  Paid' \subseteq Paid
<1>1. CASE AskForIntent
  BY <1>1, AskDoes, PaidStays
<1>2. ASSUME NEW r \in requests, NEW p \in r.todo, CancelVoid(r, p) \/ SweepVoid(r, p) PROVE Paid' \subseteq Paid
  <2>1. PICK cause : p.ref \in IntentIds /\ CancelAtGateway(p.ref, cause)
    BY <1>2, CancelVoidDoes, SweepVoidDoes
  <2>2. /\ IntentIds' = IntentIds /\ \A j \in IntentIds \ {p.ref} : intents'[j] = intents[j]
        /\ intents'[p.ref] = "CANCELED" \/ intents'[p.ref] = intents[p.ref]
    BY <2>1, GatewayDoes
  <2>3. \A i \in IntentIds : intents'[i] = intents[i] \/ intents'[i] = "CANCELED"
    BY <2>2
  <2> QED
    BY <2>2, <2>3, PaidStays
<1>3. CASE UNCHANGED intents
  BY <1>3 DEF Paid, IntentIds
<1>4. ASSUME NEW r \in requests,
             \/ ReplaceIntent(r) \/ NewRow(r) \/ LinkRow(r) \/ HandlePost(r) \/ CancelWrite(r) \/ CancelDone(r)
             \/ SweepWrite(r) \/ WriteConfirmed(r) \/ WriteDeclined(r) \/ Die(r)
      PROVE  UNCHANGED intents
  BY <1>4 DEF ReplaceIntent, NewRow, LinkRow, HandlePost, CancelWrite, CancelDone, SweepWrite, WriteConfirmed,
              WriteDeclined, Die
<1>5. CASE AskToCancel \/ DeadlinePasses \/ SweepRead \/ (\E k \in RowIds : AskToConfirm(k))
           \/ (\E e \in posts : ReceivePost(e)) \/ UNCHANGED flowVars
  BY <1>3, <1>5 DEF AskToCancel, DeadlinePasses, SweepRead, AskToConfirm, ReceivePost, flowVars
<1> QED
  BY <1>1, <1>2, <1>3, <1>4, <1>5 DEF FlowNext, FlowStep

\* A paid order stays so, and an expired one is not waiting.
LEMMA StatusStep ==
  ASSUME FlowTyped, [FlowNext]_flowVars
  PROVE  bill.status = "PAID" => bill'.status = "PAID"
<1>1. FlowTypeOK
  BY DEF FlowTyped
<1>2. ASSUME NEW r \in requests, LinkRow(r) \/ HandlePost(r) \/ CancelDone(r) \/ SweepWrite(r) \/ WriteConfirmed(r)
      PROVE  bill.status = "PAID" => bill'.status = "PAID"
  BY <1>1, <1>2 DEF LinkRow, HandlePost, CancelDone, SweepWrite, WriteConfirmed, FlowTypeOK, Awaiting
<1>3. ASSUME NEW r \in requests,
             \/ ReplaceIntent(r) \/ NewRow(r) \/ ConfirmAtMock(r) \/ WriteDeclined(r) \/ CancelWrite(r) \/ Die(r)
             \/ \E p \in r.todo : CancelVoid(r, p) \/ SweepVoid(r, p)
      PROVE  UNCHANGED bill
  BY <1>3 DEF ReplaceIntent, NewRow, ConfirmAtMock, WriteDeclined, CancelWrite, Die, CancelVoid, SweepVoid
<1>4. CASE AskForIntent \/ AskToCancel \/ SweepRead \/ (\E i \in IntentIds : ConfirmIntent(i))
           \/ (\E k \in RowIds : AskToConfirm(k)) \/ (\E e \in posts : ReceivePost(e)) \/ UNCHANGED flowVars
  BY <1>4 DEF AskForIntent, AskToCancel, SweepRead, ConfirmIntent, AskToConfirm, ReceivePost, flowVars
<1>5. CASE DeadlinePasses
  BY <1>1, <1>5 DEF DeadlinePasses, FlowTypeOK
<1> QED
  BY <1>2, <1>3, <1>4, <1>5 DEF FlowNext, FlowStep

LEMMA MockStep == FlowTyped /\ MockFits /\ [FlowNext]_flowVars => MockFits'
<1> SUFFICES ASSUME FlowTyped, MockFits, [FlowNext]_flowVars PROVE MockFits'
  OBVIOUS
<1>1. bill'.mock = bill.mock /\ causes \subseteq causes'
  BY MockSame, SettledStays
<1>2. bill'.mock => posts' = {} /\ \A r \in requests' : r.op # "event"
  BY <1>1, MockPosts DEF MockFits
<1>3. ~bill'.mock => \A r \in requests' : r.op # "confirm"
  BY <1>1, MockPosts DEF MockFits
<1>4. ASSUME bill.mock, "CONFIRM_DIED" \notin causes', bill'.status # "PAID", NEW i \in Paid' PROVE Confirmed(i)'
  <2>1. \A r \in requests : ~WriteConfirmed(r)
    BY <1>4, WriteDoes
  <2>2. bill.status # "PAID"
    BY <1>4, StatusStep
  <2>3. \A j \in Paid : Confirmed(j)
    BY <1>1, <1>4, <2>2 DEF MockFits, NoneOf
  <2>4. CASE i \in Paid
    BY <1>4, <2>1, <2>3, <2>4, ConfirmsStay
  <2>5. ASSUME NEW r \in requests, ConfirmAtMock(r), i \notin Paid PROVE Confirmed(i)'
    <3>1. /\ IntentIds' = IntentIds /\ \A j \in IntentIds \ {r.intent} : intents'[j] = intents[j]
          /\ r.intent \in IntentIds
      BY <2>5, AtMockDoes
    <3>2. i = r.intent /\ intents'[i] # "OPEN"
      BY <2>5, <3>1 DEF Paid
    <3>3. \E s : requests' = (requests \ {r}) \cup {s} /\ s.op = "confirm" /\ s.intent = i /\ s.at = "confirmed"
      BY <2>5, <3>2, AtMockDoes
    <3> QED
      BY <3>3 DEF Confirmed
  <2>6. \A j \in IntentIds : ~ConfirmIntent(j)
    BY <1>4 DEF ConfirmIntent
  <2> QED
    BY <2>4, <2>5, <2>6, PaidStep
<1> QED
  BY <1>1, <1>2, <1>3, <1>4 DEF MockFits, NoneOf

-----------------------------------------------------------------------------
(* A cancelled row has no open intent. *)

LEMMA RowsVoided ==
  ASSUME FlowTyped, MockFits, ~bill.mock, [FlowNext]_flowVars,
         \A k \in RowIds' : rows'[k].status = "CANCELLED" => \E i \in IntentIds : rows'[k].ref = i /\ Voided(i)
  PROVE  \A k \in RowIds' : rows'[k].status = "CANCELLED" =>
            intents'[rows'[k].ref] = "CANCELED" \/ (intents'[rows'[k].ref] = "CHARGED" /\ "LATE_CHARGE" \in causes')
<1>1. ASSUME NEW k \in RowIds', rows'[k].status = "CANCELLED"
      PROVE  \/ intents'[rows'[k].ref] = "CANCELED"
             \/ intents'[rows'[k].ref] = "CHARGED" /\ "LATE_CHARGE" \in causes'
  <2>1. PICK i \in IntentIds : rows'[k].ref = i /\ Voided(i)
    BY <1>1
  <2>2. Voided(i)'
    BY <2>1, VoidedStays
  <2> QED
    BY <2>1, <2>2 DEF Voided
<1> QED
  BY <1>1

LEMMA RequestVoided ==
  ASSUME FlowTyped, MockFits, ~bill.mock, [FlowNext]_flowVars, CancelledAreVoided, NEW r \in requests
  PROVE  /\ r.at = "voided" => Voided(r.intent)'
         /\ r.op = "sweep" => \A p \in r.seen \ r.todo : Voided(p.ref)'
<1>1. ASSUME r.at = "voided" PROVE Voided(r.intent)'
  <2>1. Voided(r.intent)
    BY <1>1 DEF CancelledAreVoided
  <2>2. r.intent \in IntentIds
    BY <1>1, RequestBasics DEF RequestFits
  <2> QED
    BY <2>1, <2>2, VoidedStays
<1>2. ASSUME r.op = "sweep", NEW p \in r.seen \ r.todo PROVE Voided(p.ref)'
  <2>1. Voided(p.ref)
    BY <1>2 DEF CancelledAreVoided
  <2>2. p.ref \in IntentIds
    BY RequestBasics DEF RequestFits
  <2> QED
    BY <2>1, <2>2, VoidedStays
<1> QED
  BY <1>1, <1>2

LEMMA CancelledRefs ==
  ASSUME FlowTyped, ~bill.mock, CancelledAreVoided, NEW k \in RowIds, rows[k].status = "CANCELLED"
  PROVE  rows[k].ref \in IntentIds /\ Voided(rows[k].ref)
  BY Listed DEF FlowTyped, CancelledAreVoided

\* Steps that let no request believe an intent is void.
LEMMA CancelledStays ==
  ASSUME FlowTyped, MockFits, ~bill.mock, [FlowNext]_flowVars, CancelledAreVoided,
         \A k \in RowIds' : rows'[k].status = "CANCELLED" => \E i \in IntentIds : rows'[k].ref = i /\ Voided(i),
         \A r \in requests' : r.at = "voided" \/ r.op = "sweep" => r \in requests
  PROVE  CancelledAreVoided'
<1>1. \A r \in requests' : /\ r.at = "voided" => Voided(r.intent)'
                           /\ r.op = "sweep" => \A p \in r.seen \ r.todo : Voided(p.ref)'
  BY RequestVoided
<1> QED
  BY <1>1, RowsVoided DEF CancelledAreVoided, Voided

LEMMA CancelledStep ==
  FlowTyped /\ GatewayFits /\ MockFits /\ CancelledAreVoided /\ Clean' /\ [FlowNext]_flowVars => CancelledAreVoided'
<1> SUFFICES ASSUME FlowTyped, GatewayFits, MockFits, CancelledAreVoided, Clean', [FlowNext]_flowVars, ~bill.mock
             PROVE  CancelledAreVoided'
  BY MockSame DEF CancelledAreVoided
<1> DEFINE AsBefore(k) == k \in RowIds /\ rows[k].status = "CANCELLED" /\ rows'[k].ref = rows[k].ref
           Backed == \A k \in RowIds' :
                        rows'[k].status = "CANCELLED" => \E i \in IntentIds : rows'[k].ref = i /\ Voided(i)
<1>a. {"CROSSED", "OLD_PAGE", "GATEWAY_ERROR", "CONFIRM_DIED"} \cap causes' = {}
  BY CleanBefore
<1>b. ASSUME \A k \in RowIds' : rows'[k].status = "CANCELLED" => AsBefore(k) PROVE Backed
  BY <1>b, CancelledRefs
<1>c. ASSUME UNCHANGED <<rows, RowIds>> PROVE Backed
  BY <1>b, <1>c
<1>1. CASE AskForIntent
  <2>1. UNCHANGED <<rows, RowIds>>
    BY <1>1, AskDoes DEF RowIds
  <2>2. \A r \in requests' : r.at = "voided" \/ r.op = "sweep" => r \in requests
    BY <1>1, AskDoes
  <2> QED
    BY <1>c, <2>1, <2>2, CancelledStays
<1>2. ASSUME NEW r \in requests, ReplaceIntent(r) PROVE CancelledAreVoided'
  <2>1. /\ r.row \in RowIds /\ RowIds' = RowIds /\ rows'[r.row].status = "PENDING_AUTH"
        /\ \A k \in RowIds \ {r.row} : rows'[k] = rows[k]
        /\ requests' = requests \ {r}
    BY <1>2, <1>a, ReplaceDoes
  <2>2. Backed
    BY <1>b, <2>1
  <2> QED
    BY <2>1, <2>2, CancelledStays
<1>3. ASSUME NEW r \in requests, NewRow(r) PROVE CancelledAreVoided'
  <2>1. \A k \in RowIds' : rows'[k].status = "CANCELLED" => AsBefore(k)
    BY <1>3, NewRowDoes
  <2>2. \A q \in requests' : q.at = "voided" \/ q.op = "sweep" => q \in requests
    BY <1>3, NewRowDoes
  <2> QED
    BY <1>b, <2>1, <2>2, CancelledStays
<1>4. ASSUME NEW r \in requests, LinkRow(r) PROVE CancelledAreVoided'
  BY <1>4, <1>c, LinkDoes, CancelledStays
<1>5. ASSUME NEW i \in IntentIds, ConfirmIntent(i) PROVE CancelledAreVoided'
  <2>1. UNCHANGED <<rows, RowIds, requests>>
    BY <1>5, ConfirmDoes
  <2> QED
    BY <1>c, <2>1, CancelledStays
<1>6. ASSUME NEW e \in posts, ReceivePost(e) PROVE CancelledAreVoided'
  <2>1. UNCHANGED <<rows, RowIds>>
    BY <1>6, ReceiveDoes
  <2>2. \A r \in requests' : r.at = "voided" \/ r.op = "sweep" => r \in requests
    BY <1>6, ReceiveDoes
  <2> QED
    BY <1>c, <2>1, <2>2, CancelledStays
<1>7. ASSUME NEW r \in requests, HandlePost(r) PROVE CancelledAreVoided'
  <2>1. /\ r.op = "event" /\ r.row \in RowIds /\ r.intent \in IntentIds /\ r.kind \in {"PAID", "FAILED", "CANCELED"}
        /\ RowIds' = RowIds /\ rows'[r.row].ref = rows[r.row].ref
        /\ rows'[r.row].status = RowAfterEvent(r.kind)
        /\ \A k \in RowIds \ {r.row} : rows'[k] = rows[k]
        /\ requests' = requests \ {r} /\ rows[r.row].ref = r.intent
    BY <1>7, <1>a, HandleDoes
  <2>2. CASE r.kind = "CANCELED"
    <3>1. SaidTruly(r.kind, r.intent)
      BY <2>1, <2>2 DEF GatewayFits, Reported
    <3>2. Voided(r.intent)
      BY <2>2, <3>1 DEF SaidTruly, Voided
    <3>3. Backed
      <4>1. ASSUME NEW k \in RowIds', rows'[k].status = "CANCELLED"
            PROVE  \E i \in IntentIds : rows'[k].ref = i /\ Voided(i)
        <5>1. CASE k = r.row
          BY <2>1, <3>2, <5>1
        <5>2. CASE k # r.row
          BY <2>1, <4>1, <5>2, CancelledRefs
        <5> QED
          BY <5>1, <5>2
      <4> QED
        BY <4>1
    <3> QED
      BY <2>1, <3>3, CancelledStays
  <2>3. CASE r.kind # "CANCELED"
    <3>1. rows'[r.row].status # "CANCELLED"
      BY <2>1, <2>3 DEF RowAfterEvent, RowAfterPaid
    <3>2. Backed
      BY <1>b, <2>1, <3>1
    <3> QED
      BY <2>1, <3>2, CancelledStays
  <2> QED
    BY <2>2, <2>3
<1>8. ASSUME NEW r \in requests, CancelWrite(r) PROVE CancelledAreVoided'
  <2>1. /\ r.at = "voided" /\ r.row \in RowIds /\ r.intent \in IntentIds
        /\ RowIds' = RowIds /\ rows'[r.row].ref = rows[r.row].ref
        /\ \A k \in RowIds \ {r.row} : rows'[k] = rows[k]
        /\ rows[r.row].ref = r.intent
    BY <1>8, <1>a, CancelWriteDoes
  <2>2. \A q \in requests' : q.at = "voided" \/ q.op = "sweep" => q \in requests
    BY <1>8, CancelWriteDoes
  <2>3. Voided(r.intent)
    BY <2>1 DEF CancelledAreVoided
  <2>4. Backed
    <3>1. ASSUME NEW k \in RowIds', rows'[k].status = "CANCELLED"
          PROVE  \E i \in IntentIds : rows'[k].ref = i /\ Voided(i)
      <4>1. CASE k = r.row
        BY <2>1, <2>3, <4>1
      <4>2. CASE k # r.row
        BY <2>1, <3>1, <4>2, CancelledRefs
      <4> QED
        BY <4>1, <4>2
    <3> QED
      BY <3>1
  <2> QED
    BY <2>2, <2>4, CancelledStays
<1>9. ASSUME NEW i \in IntentIds, NEW cause, CancelAtGateway(i, cause) PROVE Voided(i)'
  <2>1. \/ intents'[i] = "CANCELED"
        \/ intents'[i] = "CHARGED" /\ "LATE_CHARGE" \in causes'
    BY <1>9, <1>a, GatewayDoes
  <2> QED
    BY <2>1 DEF Voided
<1>d. ASSUME UNCHANGED <<rows, RowIds>>, NEW s, requests' \subseteq requests \cup {s},
             s.at = "voided" => Voided(s.intent)',
             s.op = "sweep" => \A p \in s.seen \ s.todo : Voided(p.ref)'
      PROVE  CancelledAreVoided'
  <2>1. Backed
    BY <1>c, <1>d
  <2>2. \A r \in requests' : /\ r.at = "voided" => Voided(r.intent)'
                             /\ r.op = "sweep" => \A p \in r.seen \ r.todo : Voided(p.ref)'
    BY <1>d, RequestVoided
  <2> QED
    BY <2>1, <2>2, RowsVoided DEF CancelledAreVoided, Voided
<1>10. ASSUME NEW r \in requests, NEW p \in r.todo, CancelVoid(r, p) PROVE CancelledAreVoided'
  <2>1. p.ref \in IntentIds /\ CancelAtGateway(p.ref, {}) /\ UNCHANGED <<rows, RowIds>>
    BY <1>10, CancelVoidDoes
  <2>2. PICK s : /\ requests' = (requests \ {r}) \cup {s}
                 /\ s.op = "cancel" /\ s.at = "voided" /\ s.intent = p.ref
    BY <1>10, CancelVoidDoes
  <2>3. Voided(s.intent)'
    BY <1>9, <2>1, <2>2
  <2> QED
    BY <1>d, <2>1, <2>2, <2>3
<1>11. ASSUME NEW r \in requests, NEW p \in r.todo, SweepVoid(r, p) PROVE CancelledAreVoided'
  <2>1. p.ref \in IntentIds /\ UNCHANGED <<rows, RowIds>> /\ r.op = "sweep"
        /\ CancelAtGateway(p.ref, CauseIf("VOIDED_PAID", p.ref \in Paid))
    BY <1>11, SweepVoidDoes
  <2>2. PICK s : /\ requests' = (requests \ {r}) \cup {s} /\ s.op = "sweep" /\ s.at = r.at
                 /\ s.intent = r.intent /\ s.todo = r.todo \ {p} /\ s.seen = r.seen
    BY <1>11, SweepVoidDoes
  <2>3. Voided(p.ref)'
    BY <1>9, <2>1
  <2>4. s.at = "voided" => Voided(s.intent)'
    BY <2>2, RequestVoided
  <2>5. \A q \in s.seen \ s.todo : Voided(q.ref)'
    <3>1. ASSUME NEW q \in s.seen \ s.todo PROVE Voided(q.ref)'
      <4>1. q = p \/ q \in r.seen \ r.todo
        BY <2>2
      <4> QED
        BY <2>1, <2>3, <4>1, RequestVoided
    <3> QED
      BY <3>1
  <2> QED
    BY <1>d, <2>1, <2>2, <2>4, <2>5
<1>12. ASSUME NEW r \in requests, SweepWrite(r) PROVE CancelledAreVoided'
  <2>1. r.op = "sweep" /\ r.todo = {} /\ requests' = requests \ {r} /\ RowIds' = RowIds
    BY <1>12, SweepWriteDoes
  <2>2. CASE Awaiting
    <3>1. /\ \A k \in RowIds : /\ rows'[k].ref = rows[k].ref
                               /\ rows'[k].status = IF rows[k].status = "PENDING_AUTH" THEN "CANCELLED"
                                                    ELSE rows[k].status
          /\ ToCancel({"PENDING_AUTH"}) \subseteq r.seen
      BY <1>12, <1>a, <2>2, SweepWriteDoes
    <3>2. ASSUME NEW k \in RowIds', rows'[k].status = "CANCELLED"
          PROVE  \E i \in IntentIds : rows'[k].ref = i /\ Voided(i)
      <4>1. k \in RowIds /\ rows[k].ref \in IntentIds
        BY <2>1, Listed DEF FlowTyped
      <4>2. CASE rows[k].status = "PENDING_AUTH"
        <5>1. PICK p : p = [row |-> k, ref |-> rows[k].ref]
          OBVIOUS
        <5>2. p \in ToCancel({"PENDING_AUTH"})
          BY <4>1, <4>2, <5>1 DEF ToCancel, RowsIn
        <5>3. Voided(p.ref) /\ p.ref = rows[k].ref
          BY <2>1, <3>1, <5>1, <5>2 DEF CancelledAreVoided
        <5> QED
          BY <3>1, <4>1, <5>3
      <4>3. CASE rows[k].status # "PENDING_AUTH"
        BY <3>1, <3>2, <4>1, <4>3, CancelledRefs
      <4> QED
        BY <4>2, <4>3
    <3> QED
      BY <2>1, <3>2, CancelledStays
  <2>3. CASE ~Awaiting
    <3>1. UNCHANGED rows
      BY <1>12, <2>3, SweepWriteDoes
    <3> QED
      BY <1>c, <2>1, <3>1, CancelledStays
  <2> QED
    BY <2>2, <2>3
<1>13. CASE DeadlinePasses \/ AskToCancel \/ SweepRead \/ (\E k \in RowIds : AskToConfirm(k))
             \/ (\E r \in requests : CancelDone(r) \/ Die(r))
  <2>1. UNCHANGED <<rows, RowIds>>
    BY <1>13, ComesOrLeaves
  <2>2. CASE requests' \subseteq requests
    BY <1>c, <2>1, <2>2, CancelledStays
  <2>3. ASSUME NEW s, requests' = requests \cup {s}, s.at = "read", s.op # "sweep" \/ s.seen = s.todo
        PROVE  CancelledAreVoided'
    <3>1. s.op = "sweep" => \A p \in s.seen \ s.todo : Voided(p.ref)'
      BY <2>3
    <3> QED
      BY <1>d, <2>1, <2>3, <3>1
  <2>4. \/ requests' \subseteq requests
        \/ \E s : requests' = requests \cup {s} /\ s.at = "read" /\ (s.op # "sweep" \/ s.seen = s.todo)
    <3>1. \/ UNCHANGED requests \/ \E r \in requests : requests' = requests \ {r}
          \/ \E s : /\ requests' = requests \cup {s} /\ s.at = "read"
                    /\ s.op = "cancel" \/ s.op = "confirm" \/ s.seen = s.todo
      BY <1>13, ComesOrLeaves
    <3> QED
      BY <3>1
  <2> QED
    BY <2>2, <2>3, <2>4
<1>14. CASE UNCHANGED flowVars
  <2>1. UNCHANGED <<rows, requests, RowIds>>
    BY <1>14 DEF flowVars, RowIds
  <2> QED
    BY <1>c, <2>1, CancelledStays
<1> QED
  BY <1>1, <1>2, <1>3, <1>4, <1>5, <1>6, <1>7, <1>8, <1>10, <1>11, <1>12, <1>13, <1>14, MockOnly DEF FlowNext, FlowStep

-----------------------------------------------------------------------------
(* Money that was taken is told of, or on record. *)

Kept == {"AUTHORIZED", "CAPTURED"}

\* Steps that take no money and lose sight of none.
LEMMA MoneyStays ==
  ASSUME MoneyIsToldOf, Paid' \subseteq Paid,
         \A k \in RowIds : rows[k].ref \in Paid' =>
             k \in RowIds' /\ rows'[k].ref = rows[k].ref /\ (rows[k].status \in Kept => rows'[k].status \in Kept),
         \A i \in Paid' : [intent |-> i, kind |-> "PAID"] \in posts \ posts' => OnRecord(i),
         \A i \in Paid' : Confirmed(i) => Confirmed(i)',
         bill'.status = bill.status \/ ~Awaiting',
         \A k \in RowIds' : rows'[k].status \in Kept => k \in RowIds /\ rows[k].status \in Kept
  PROVE  MoneyIsToldOf'
<1>1. ASSUME NEW i \in Paid'
      PROVE  /\ \E k \in RowIds' : rows'[k].ref = i
             /\ \/ [intent |-> i, kind |-> "PAID"] \in posts' \/ Confirmed(i)'
                \/ \E k \in RowIds' : rows'[k].status \in Kept /\ rows'[k].ref = i
  <2>1. i \in Paid
    OBVIOUS
  <2>2. PICK k \in RowIds : rows[k].ref = i
    BY <2>1 DEF MoneyIsToldOf
  <2>3. \E j \in RowIds' : rows'[j].ref = i
    BY <2>2
  <2>4. [intent |-> i, kind |-> "PAID"] \in posts' \/ OnRecord(i) \/ Confirmed(i)'
    BY <2>1 DEF MoneyIsToldOf
  <2>5. ASSUME OnRecord(i) PROVE \E j \in RowIds' : rows'[j].status \in Kept /\ rows'[j].ref = i
    BY <2>5 DEF OnRecord, RowsIn, Kept
  <2> QED
    BY <2>3, <2>4, <2>5
<1>2. ASSUME Awaiting' PROVE RowsIn({"AUTHORIZED", "CAPTURED"})' = {}
  <2>1. Awaiting
    BY <1>2 DEF Awaiting
  <2>2. \A k \in RowIds : rows[k].status \notin Kept
    BY <2>1 DEF MoneyIsToldOf, RowsIn, Kept
  <2> QED
    BY <2>2 DEF RowsIn, Kept
<1>3. \A i \in Paid' : OnRecord(i)' <=> \E k \in RowIds' : rows'[k].status \in Kept /\ rows'[k].ref = i
  BY DEF OnRecord, RowsIn, Kept
<1> QED
  BY <1>1, <1>2, <1>3 DEF MoneyIsToldOf

LEMMA MoneyStep ==
  FlowTyped /\ GatewayFits /\ MockFits /\ CancelledAreVoided /\ MoneyIsToldOf /\ Clean' /\ [FlowNext]_flowVars
  => MoneyIsToldOf'
<1> SUFFICES ASSUME FlowTyped, GatewayFits, MockFits, CancelledAreVoided, MoneyIsToldOf, Clean', [FlowNext]_flowVars
             PROVE  MoneyIsToldOf'
  OBVIOUS
<1>a. {"CROSSED", "OLD_PAGE", "GATEWAY_ERROR", "CONFIRM_DIED"} \cap causes' = {}
  BY CleanBefore
<1>b. captureMode \in {"manual", "automatic"} /\ \A k \in RowIds : rows[k].status \in RowStatuses
  BY Listed DEF FlowTyped, FlowTypeOK
<1>c. ASSUME UNCHANGED <<intents, IntentIds>> PROVE Paid' = Paid
  BY <1>c DEF Paid
<1>15. ASSUME NEW r \in requests, WriteConfirmed(r) PROVE MoneyIsToldOf'
  <2>1. /\ r.row \in RowIds /\ UNCHANGED <<intents, posts, IntentIds, RowIds>> /\ requests' = requests \ {r}
        /\ rows'[r.row].ref = rows[r.row].ref /\ rows'[r.row].status = RowAfterPaid
        /\ \A k \in RowIds \ {r.row} : rows'[k] = rows[k]
        /\ rows[r.row].ref = r.intent /\ bill'.status = "PAID"
    BY <1>15, <1>a, WriteDoes
  <2>2. Paid' = Paid /\ rows'[r.row].status \in Kept
    BY <1>c, <2>1 DEF RowAfterPaid, Kept
  <2>3. ASSUME NEW i \in Paid'
        PROVE  /\ \E k \in RowIds' : rows'[k].ref = i
               /\ [intent |-> i, kind |-> "PAID"] \in posts' \/ OnRecord(i)' \/ Confirmed(i)'
    <3>1. \E k \in RowIds' : rows'[k].ref = i
      BY <2>1, <2>2 DEF MoneyIsToldOf
    <3>2. CASE i = r.intent
      BY <2>1, <2>2, <3>1, <3>2 DEF OnRecord, RowsIn, Kept
    <3>3. CASE i # r.intent
      <4>1. [intent |-> i, kind |-> "PAID"] \in posts \/ OnRecord(i) \/ Confirmed(i)
        BY <2>2 DEF MoneyIsToldOf
      <4>2. OnRecord(i) => OnRecord(i)'
        BY <2>1, <3>3 DEF OnRecord, RowsIn
      <4>3. Confirmed(i) => Confirmed(i)'
        BY <2>1, <3>3 DEF Confirmed
      <4> QED
        BY <2>1, <3>1, <4>1, <4>2, <4>3
    <3> QED
      BY <3>2, <3>3
  <2> QED
    BY <2>1, <2>3 DEF MoneyIsToldOf, Awaiting
<1>16. SUFFICES ASSUME \A r \in requests : ~WriteConfirmed(r) PROVE MoneyIsToldOf'
  BY <1>15
<1>d. \A i : Confirmed(i) => Confirmed(i)'
  BY <1>a, <1>16, ConfirmsStay
<1>1. CASE AskForIntent
  <2>1. UNCHANGED <<bill, rows, RowIds, posts>>
    BY <1>1, AskDoes DEF RowIds
  <2>2. IntentIds \subseteq IntentIds' /\ (\A i \in IntentIds : intents'[i] = intents[i])
        /\ \A i \in IntentIds' \ IntentIds : intents'[i] = "OPEN"
    BY <1>1, AskDoes
  <2>3. Paid' \subseteq Paid
    BY <2>2, PaidStays
  <2> QED
    BY <2>1, <2>3, <1>d, MoneyStays
<1>2. ASSUME NEW r \in requests, ReplaceIntent(r) PROVE MoneyIsToldOf'
  <2>1. /\ r.row \in RowIds /\ RowIds' = RowIds
        /\ rows[r.row].status = "PENDING_AUTH" /\ rows'[r.row].status = "PENDING_AUTH"
        /\ rows[r.row].ref \notin Paid /\ \A k \in RowIds \ {r.row} : rows'[k] = rows[k]
        /\ UNCHANGED <<bill, posts, intents, IntentIds>>
    BY <1>2, <1>a, ReplaceDoes
  <2>2. Paid' = Paid
    BY <1>c, <2>1
  <2> QED
    BY <2>1, <2>2, <1>d, MoneyStays DEF Kept
<1>3. ASSUME NEW r \in requests, NewRow(r) PROVE MoneyIsToldOf'
  <2>1. UNCHANGED <<bill, posts, intents, IntentIds>>
    BY <1>3, NewRowDoes
  <2>2. Paid' = Paid
    BY <1>c, <2>1
  <2>3. RowIds \subseteq RowIds' /\ (\A k \in RowIds : rows'[k] = rows[k])
        /\ \A k \in RowIds' \ RowIds : rows'[k].status = "PENDING_AUTH"
    BY <1>3, NewRowDoes
  <2> QED
    BY <2>1, <2>2, <2>3, <1>d, MoneyStays DEF Kept
<1>4. ASSUME NEW r \in requests, LinkRow(r) PROVE MoneyIsToldOf'
  <2>1. UNCHANGED <<rows, posts, intents, IntentIds, RowIds>> /\ bill'.status = bill.status
    BY <1>4, LinkDoes
  <2>2. Paid' = Paid
    BY <1>c, <2>1
  <2> QED
    BY <2>1, <2>2, <1>d, MoneyStays
<1>5. ASSUME NEW i \in IntentIds, ConfirmIntent(i) PROVE MoneyIsToldOf'
  <2>1. /\ intents[i] = "OPEN" /\ UNCHANGED <<bill, rows, IntentIds, RowIds>>
        /\ \A j \in IntentIds \ {i} : intents'[j] = intents[j]
    BY <1>5, ConfirmDoes
  <2>2. CASE intents'[i] = "OPEN" /\ posts' = posts \cup {[intent |-> i, kind |-> "FAILED"]}
    <3>1. Paid' \subseteq Paid
      BY <2>1, <2>2, PaidStays
    <3> QED
      BY <2>1, <2>2, <3>1, <1>d, MoneyStays
  <2>3. CASE /\ posts' = posts \cup {[intent |-> i, kind |-> "PAID"]}
             /\ \E k \in RowIds : rows[k].ref = i
    <3>1. Paid' \subseteq Paid \cup {i}
      BY <2>1 DEF Paid
    <3>2. \A j \in Paid' : \E k \in RowIds' : rows'[k].ref = j
      BY <2>1, <2>3, <3>1 DEF MoneyIsToldOf
    <3>3. \A j \in Paid' : [intent |-> j, kind |-> "PAID"] \in posts' \/ OnRecord(j) \/ Confirmed(j)
      BY <2>3, <3>1 DEF MoneyIsToldOf
    <3>4. \A j : OnRecord(j)' <=> OnRecord(j)
      BY <2>1 DEF OnRecord, RowsIn
    <3>5. Awaiting' => RowsIn({"AUTHORIZED", "CAPTURED"})' = {}
      BY <2>1 DEF MoneyIsToldOf, RowsIn, Awaiting
    <3> QED
      BY <1>d, <3>2, <3>3, <3>4, <3>5 DEF MoneyIsToldOf
  <2>4. \/ intents'[i] = "OPEN" /\ posts' = posts \cup {[intent |-> i, kind |-> "FAILED"]}
        \/ /\ posts' = posts \cup {[intent |-> i, kind |-> "PAID"]}
           /\ \E k \in RowIds : rows[k].ref = i
    BY <1>5, <1>a, ConfirmDoes
  <2> QED
    BY <2>2, <2>3, <2>4
<1>6. ASSUME NEW e \in posts, ReceivePost(e) PROVE MoneyIsToldOf'
  <2>1. UNCHANGED <<bill, rows, intents, IntentIds, RowIds>>
    BY <1>6, ReceiveDoes
  <2>2. Paid' = Paid
    BY <1>c, <2>1
  <2>3. CASE UNCHANGED posts
    BY <2>1, <2>2, <2>3, <1>d, MoneyStays
  <2>4. CASE /\ \A k \in RowIds : rows[k].ref = e.intent => ~AppliesTo(e.kind, rows[k].status)
             /\ posts' = posts \ {e}
    <3>1. ASSUME NEW i \in Paid, [intent |-> i, kind |-> "PAID"] \in posts \ posts' PROVE OnRecord(i)
      <4>1. e.intent = i /\ e.kind = "PAID"
        BY <2>4, <3>1
      <4>2. PICK k \in RowIds : rows[k].ref = i
        BY DEF MoneyIsToldOf
      <4>3. ~AppliesTo("PAID", rows[k].status)
        BY <2>4, <4>1, <4>2
      <4>4. rows[k].status \in Kept \/ (rows[k].status = "CANCELLED" /\ captureMode = "manual")
        BY <1>b, <4>3 DEF AppliesTo, RowStatuses, Kept
      <4>5. CASE rows[k].status = "CANCELLED" /\ captureMode = "manual"
        <5>1. Voided(i) /\ i \in IntentIds
          BY <4>2, <4>5, CancelledRefs DEF MockFits
        <5>2. intents[i] = "CHARGED"
          BY <5>1 DEF Voided, Paid
        <5> QED
          BY <4>5, <5>1, <5>2 DEF GatewayFits
      <4>6. CASE rows[k].status \in Kept
        BY <4>2, <4>6 DEF OnRecord, RowsIn, Kept
      <4> QED
        BY <4>4, <4>5, <4>6
    <3> QED
      BY <2>1, <2>2, <3>1, <1>d, MoneyStays
  <2> QED
    BY <1>6, <2>3, <2>4, ReceiveDoes
<1>7. ASSUME NEW r \in requests, HandlePost(r) PROVE MoneyIsToldOf'
  <2>1. /\ r.op = "event" /\ r.row \in RowIds /\ r.intent \in IntentIds /\ r.kind \in {"PAID", "FAILED", "CANCELED"}
        /\ UNCHANGED <<intents, IntentIds, RowIds>>
        /\ rows'[r.row].ref = rows[r.row].ref /\ rows'[r.row].status = RowAfterEvent(r.kind)
        /\ \A k \in RowIds \ {r.row} : rows'[k] = rows[k]
        /\ rows[r.row].ref = r.intent /\ AppliesTo(r.kind, rows[r.row].status)
    BY <1>7, <1>a, HandleDoes
  <2>2. \A i \in Paid : [intent |-> i, kind |-> "PAID"] \in posts \ posts' => i = r.intent /\ r.kind = "PAID"
    BY <1>7, HandleDoes
  <2>3. Paid' = Paid
    BY <1>c, <2>1
  <2>4. CASE r.kind = "PAID"
    <3>1. rows'[r.row].status \in Kept /\ rows'[r.row].ref = r.intent
      BY <2>1, <2>4 DEF RowAfterEvent, RowAfterPaid, Kept
    <3>2. ~Awaiting'
      <4>1. IF r.awaiting THEN bill'.status = "PAID" ELSE UNCHANGED bill
        BY <1>7, <2>4, HandleDoes
      <4>2. r.awaiting = Awaiting
        BY <1>7, <1>a, <2>4, HandleDoes
      <4> QED
        BY <4>1, <4>2 DEF Awaiting
    <3>3. ASSUME NEW i \in Paid'
          PROVE  /\ \E k \in RowIds' : rows'[k].ref = i
                 /\ [intent |-> i, kind |-> "PAID"] \in posts' \/ OnRecord(i)' \/ Confirmed(i)'
      <4>1. \E k \in RowIds' : rows'[k].ref = i
        BY <2>1, <2>3 DEF MoneyIsToldOf
      <4>2. CASE i = r.intent
        BY <2>1, <3>1, <4>1, <4>2 DEF OnRecord, RowsIn, Kept
      <4>3. CASE i # r.intent
        <5>1. [intent |-> i, kind |-> "PAID"] \in posts' \/ OnRecord(i) \/ Confirmed(i)'
          BY <1>d, <2>2, <2>3, <4>3 DEF MoneyIsToldOf
        <5>2. OnRecord(i) => OnRecord(i)'
          BY <2>1, <4>3 DEF OnRecord, RowsIn
        <5> QED
          BY <4>1, <5>1, <5>2
      <4> QED
        BY <4>2, <4>3
    <3> QED
      BY <3>2, <3>3 DEF MoneyIsToldOf
  <2>5. CASE r.kind # "PAID"
    <3>1. rows'[r.row].status \notin Kept
      BY <2>1, <2>5 DEF RowAfterEvent, RowAfterPaid, Kept
    <3>2. rows[r.row].status \notin Kept \/ rows[r.row].ref \notin Paid
      <4>1. CASE r.kind = "FAILED"
        BY <2>1, <4>1 DEF AppliesTo, Kept
      <4>2. CASE r.kind = "CANCELED"
        <5>1. SaidTruly(r.kind, r.intent)
          BY <2>1, <4>2 DEF GatewayFits, Reported
        <5> QED
          BY <2>1, <4>2, <5>1 DEF SaidTruly, Paid
      <4> QED
        BY <2>1, <2>5, <4>1, <4>2
    <3>3. UNCHANGED bill
      BY <1>7, <2>5, HandleDoes
    <3> QED
      BY <2>1, <2>2, <2>3, <2>5, <3>1, <3>2, <3>3, <1>d, MoneyStays
  <2> QED
    BY <2>4, <2>5
<1>8. ASSUME NEW r \in requests, CancelWrite(r) PROVE MoneyIsToldOf'
  <2>1. /\ r.at = "voided" /\ r.row \in RowIds /\ r.intent \in IntentIds
        /\ UNCHANGED <<bill, posts, intents, IntentIds, RowIds>>
        /\ rows'[r.row].ref = rows[r.row].ref /\ rows'[r.row].status = "CANCELLED"
        /\ \A k \in RowIds \ {r.row} : rows'[k] = rows[k]
        /\ rows[r.row].ref = r.intent /\ rows[r.row].status \in {"AUTHORIZED", "PENDING_AUTH", "CANCELLED"}
    BY <1>8, <1>a, CancelWriteDoes
  <2>2. Voided(r.intent) \/ r.intent \notin Paid
    BY <1>8, <1>a, <2>1, CancelWriteDoes DEF CancelledAreVoided
  <2>3. rows[r.row].status \notin Kept \/ rows[r.row].ref \notin Paid
    <3>1. CASE intents[r.intent] = "CANCELED"
      BY <2>1, <3>1 DEF Paid
    <3>2. CASE intents[r.intent] = "CHARGED"
      BY <2>1, <3>2 DEF GatewayFits, Kept
    <3>3. CASE r.intent \notin Paid
      BY <2>1, <3>3
    <3> QED
      BY <2>2, <3>1, <3>2, <3>3 DEF Voided
  <2>4. Paid' = Paid /\ rows'[r.row].status \notin Kept
    BY <1>c, <2>1 DEF Kept
  <2> QED
    BY <2>1, <2>3, <2>4, <1>d, MoneyStays
<1>9. ASSUME NEW i \in IntentIds, NEW cause, CancelAtGateway(i, cause), UNCHANGED <<rows, RowIds, bill>> PROVE MoneyIsToldOf'
  <2>1. IntentIds' = IntentIds /\ \A j \in IntentIds \ {i} : intents'[j] = intents[j]
    BY <1>9, GatewayDoes
  <2>2. intents'[i] = intents[i] \/ intents'[i] = "CANCELED"
    BY <1>9, GatewayDoes
  <2>3. posts \subseteq posts'
    BY <1>9, GatewayDoes
  <2>4. Paid' \subseteq Paid
    BY <2>1, <2>2, PaidStays
  <2> QED
    BY <1>9, <2>3, <2>4, <1>d, MoneyStays
<1>10. ASSUME NEW r \in requests, NEW p \in r.todo, CancelVoid(r, p) PROVE MoneyIsToldOf'
  <2>1. p.ref \in IntentIds /\ CancelAtGateway(p.ref, {}) /\ UNCHANGED <<rows, RowIds, bill>>
    BY <1>10, CancelVoidDoes
  <2> QED
    BY <1>9, <2>1
<1>11. ASSUME NEW r \in requests, NEW p \in r.todo, SweepVoid(r, p) PROVE MoneyIsToldOf'
  <2>1. p.ref \in IntentIds /\ UNCHANGED <<rows, RowIds, bill>>
        /\ CancelAtGateway(p.ref, CauseIf("VOIDED_PAID", p.ref \in Paid))
    BY <1>11, SweepVoidDoes
  <2> QED
    BY <1>9, <2>1
<1>12. ASSUME NEW r \in requests, SweepWrite(r) PROVE MoneyIsToldOf'
  <2>1. UNCHANGED <<intents, posts, IntentIds, RowIds>>
    BY <1>12, SweepWriteDoes
  <2>2. Paid' = Paid
    BY <1>c, <2>1
  <2>3. CASE Awaiting
    <3>1. /\ bill'.status = "PAYMENT_EXPIRED"
          /\ \A k \in RowIds : /\ rows'[k].ref = rows[k].ref
                               /\ rows'[k].status = IF rows[k].status = "PENDING_AUTH" THEN "CANCELLED"
                                                    ELSE rows[k].status
      BY <1>12, <2>3, SweepWriteDoes
    <3>2. ~Awaiting'
      BY <3>1 DEF Awaiting
    <3> QED
      BY <2>1, <2>2, <3>1, <3>2, <1>d, MoneyStays DEF Kept
  <2>4. CASE ~Awaiting
    <3>1. UNCHANGED <<bill, rows>>
      BY <1>12, <2>4, SweepWriteDoes
    <3> QED
      BY <2>1, <2>2, <3>1, <1>d, MoneyStays
  <2> QED
    BY <2>3, <2>4
<1>13. CASE DeadlinePasses \/ AskToCancel \/ SweepRead \/ (\E k \in RowIds : AskToConfirm(k))
             \/ (\E r \in requests : CancelDone(r) \/ Die(r))
  <2>1. UNCHANGED <<rows, intents, posts, IntentIds, RowIds>> /\ bill'.status = bill.status
    BY <1>13, ComesOrLeaves
  <2>2. Paid' = Paid
    BY <1>c, <2>1
  <2> QED
    BY <2>1, <2>2, <1>d, MoneyStays
<1>14. CASE UNCHANGED flowVars
  <2>1. UNCHANGED <<bill, rows, intents, posts, IntentIds, RowIds>>
    BY <1>14 DEF flowVars, IntentIds, RowIds
  <2>2. Paid' = Paid
    BY <1>c, <2>1
  <2> QED
    BY <2>1, <2>2, <1>d, MoneyStays
<1>17. ASSUME NEW r \in requests, ConfirmAtMock(r) PROVE MoneyIsToldOf'
  <2>1. /\ r.intent \in IntentIds /\ UNCHANGED <<bill, rows, posts, IntentIds, RowIds>>
        /\ \A j \in IntentIds \ {r.intent} : intents'[j] = intents[j]
    BY <1>17, AtMockDoes
  <2>2. CASE intents'[r.intent] = "OPEN"
    <3>1. Paid' \subseteq Paid
      BY <2>1, <2>2 DEF Paid
    <3> QED
      BY <2>1, <3>1, <1>d, MoneyStays
  <2>3. CASE (\E k \in RowIds : rows[k].ref = r.intent) /\ Confirmed(r.intent)'
    <3>1. Paid' \subseteq Paid \cup {r.intent}
      BY <2>1 DEF Paid
    <3>2. \A j \in Paid' : \E k \in RowIds' : rows'[k].ref = j
      BY <2>1, <2>3, <3>1 DEF MoneyIsToldOf
    <3>3. \A j \in Paid' : [intent |-> j, kind |-> "PAID"] \in posts' \/ OnRecord(j) \/ Confirmed(j)'
      BY <1>d, <2>1, <2>3, <3>1 DEF MoneyIsToldOf
    <3>4. \A j : OnRecord(j)' <=> OnRecord(j)
      BY <2>1 DEF OnRecord, RowsIn
    <3>5. Awaiting' => RowsIn({"AUTHORIZED", "CAPTURED"})' = {}
      BY <2>1 DEF MoneyIsToldOf, RowsIn, Awaiting
    <3> QED
      BY <3>2, <3>3, <3>4, <3>5 DEF MoneyIsToldOf
  <2>4. PICK s : /\ requests' = (requests \ {r}) \cup {s} /\ s.op = "confirm" /\ s.intent = r.intent
                 /\ \/ s.at = "confirmed" /\ \E k \in RowIds : rows[k].ref = r.intent
                    \/ intents'[r.intent] = "OPEN"
    BY <1>17, <1>a, AtMockDoes
  <2>5. s.at = "confirmed" => Confirmed(r.intent)'
    BY <2>4 DEF Confirmed
  <2> QED
    BY <2>2, <2>3, <2>4, <2>5
<1>18. ASSUME NEW r \in requests, WriteDeclined(r) PROVE MoneyIsToldOf'
  <2>1. /\ r.row \in RowIds /\ UNCHANGED <<bill, intents, posts, IntentIds, RowIds>>
        /\ rows'[r.row].ref = rows[r.row].ref /\ rows'[r.row].status = "FAILED"
        /\ \A k \in RowIds \ {r.row} : rows'[k] = rows[k]
        /\ rows[r.row].ref \notin Paid
    BY <1>18, <1>a, WriteDoes
  <2>2. Paid' = Paid /\ rows'[r.row].status \notin Kept
    BY <1>c, <2>1 DEF Kept
  <2> QED
    BY <2>1, <2>2, <1>d, MoneyStays
<1> QED
  BY <1>1, <1>2, <1>3, <1>4, <1>5, <1>6, <1>7, <1>8, <1>10, <1>11, <1>12, <1>13, <1>14, <1>15, <1>17, <1>18
  DEF FlowNext, FlowStep

-----------------------------------------------------------------------------
(* A payment that was reported is only void if it is being cancelled, or was. *)

LEMMA VoidedPaymentStays ==
  ASSUME FlowTyped, PaidThenVoided, NoNewEvents,
         NEW a, NEW what, posts' \subseteq posts \cup {[intent |-> a, kind |-> what]},
         what = "PAID" => intents'[a] # "CANCELED",
         \A r \in requests : r.op = "cancel" /\ r.at = "voided" => r \in requests',
         \A i \in IntentIds : Reported("PAID", i) /\ intents'[i] = "CANCELED" =>
             /\ intents[i] = "CANCELED"
             /\ \A k \in RowIds' : rows'[k].ref = i =>
                    /\ k \in RowIds /\ rows[k].ref = i
                    /\ rows[k].status = "CANCELLED" => rows'[k].status = "CANCELLED"
  PROVE  PaidThenVoided'
<1>1. ASSUME NEW i \in IntentIds', Reported("PAID", i)', intents'[i] = "CANCELED"
      PROVE  Cancelling(i)' \/ (\A k \in RowIds' : rows'[k].ref = i => rows'[k].status = "CANCELLED")
  <2>1. Reported("PAID", i) \/ (i = a /\ what = "PAID")
    BY <1>1, ReportsFrom
  <2>2. Reported("PAID", i) /\ i \in IntentIds
    BY <1>1, <2>1, ReportsTyped
  <2>3. CASE Cancelling(i)
    BY <2>3 DEF Cancelling
  <2>4. CASE \A k \in RowIds : rows[k].ref = i => rows[k].status = "CANCELLED"
    BY <1>1, <2>2, <2>4
  <2> QED
    BY <1>1, <2>2, <2>3, <2>4 DEF PaidThenVoided
<1> QED
  BY <1>1 DEF PaidThenVoided

LEMMA NothingPosted ==
  ASSUME posts' \subseteq posts
  PROVE  \A a : posts' \subseteq posts \cup {[intent |-> a, kind |-> "CANCELED"]}
  OBVIOUS

LEMMA PaidReports ==
  ASSUME GatewayFits, FlowTyped, NEW i \in IntentIds, Reported("PAID", i)
  PROVE  /\ i \in handedOut
         /\ \/ captureMode = "manual" /\ intents[i] \in {"HELD", "CANCELED"}
            \/ captureMode = "automatic" /\ intents[i] = "CHARGED"
<1>1. SaidTruly("PAID", i) /\ captureMode \in {"manual", "automatic"}
  BY DEF GatewayFits, FlowTyped, FlowTypeOK
<1> QED
  BY <1>1 DEF SaidTruly

LEMMA VoidedPaymentStep ==
  /\ FlowTyped /\ IntentsApart /\ GatewayFits /\ MockFits /\ PaidThenVoided
  /\ Clean' /\ NoneOf({"VOIDED_PAID", "CANCEL_DIED", "DECLINED_PAID"})' /\ [FlowNext]_flowVars
  => PaidThenVoided'
<1> SUFFICES ASSUME FlowTyped, IntentsApart, GatewayFits, MockFits, PaidThenVoided, ~bill.mock,
                    Clean', NoneOf({"VOIDED_PAID", "CANCEL_DIED", "DECLINED_PAID"})', [FlowNext]_flowVars
             PROVE  PaidThenVoided'
  <2>1. ASSUME FlowTyped, MockFits, [FlowNext]_flowVars, bill.mock PROVE PaidThenVoided'
    <3>1. MockFits' /\ bill'.mock
      BY <2>1, MockStep, MockSame
    <3>2. \A i \in IntentIds' : ~Reported("PAID", i)'
      BY <3>1 DEF MockFits, Reported
    <3> QED
      BY <3>2 DEF PaidThenVoided
  <2> QED
    BY <2>1
<1>a. {"CROSSED", "OLD_PAGE", "GATEWAY_ERROR", "CONFIRM_DIED", "VOIDED_PAID", "CANCEL_DIED", "DECLINED_PAID"}
        \cap causes' = {}
  BY CleanBefore DEF NoneOf
<1>1. CASE AskForIntent
  <2>1. UNCHANGED <<rows, RowIds, posts>>
    BY <1>1, AskDoes DEF RowIds
  <2>2. (\A i \in IntentIds : intents'[i] = intents[i]) /\ requests \subseteq requests'
    BY <1>1, AskDoes
  <2>3. NoNewEvents
    BY <1>1, AskDoes DEF NoNewEvents
  <2> QED
    BY <2>1, <2>2, <2>3, NothingPosted, VoidedPaymentStays
<1>2. ASSUME NEW r \in requests, ReplaceIntent(r) PROVE PaidThenVoided'
  <2>1. /\ r \in Making /\ r.row \in RowIds /\ RowIds' = RowIds /\ rows'[r.row].ref = r.intent
        /\ \A k \in RowIds \ {r.row} : rows'[k] = rows[k]
        /\ UNCHANGED <<posts, intents>> /\ requests' = requests \ {r}
    BY <1>2, ReplaceDoes
  <2>2. r.op = "create" /\ r.intent \notin handedOut
    BY <2>1 DEF Making, IntentsApart
  <2>3. NoNewEvents
    BY <2>1 DEF NoNewEvents
  <2>4. \A i \in IntentIds : Reported("PAID", i) => i # r.intent
    BY <2>2, PaidReports
  <2> QED
    BY <2>1, <2>2, <2>3, <2>4, NothingPosted, VoidedPaymentStays
<1>3. ASSUME NEW r \in requests, NewRow(r) PROVE PaidThenVoided'
  <2>1. r \in Making /\ UNCHANGED <<posts, intents>>
    BY <1>3, NewRowDoes
  <2>2. r.op = "create" /\ r.intent \notin handedOut
    BY <2>1 DEF Making, IntentsApart
  <2>3. /\ \A k \in RowIds' : (k \in RowIds /\ rows'[k] = rows[k]) \/ rows'[k].ref = r.intent
        /\ \A q \in requests : q.op = "cancel" => q \in requests'
    BY <1>3, <2>2, NewRowDoes
  <2>4. NoNewEvents
    BY <1>3, NewRowDoes DEF NoNewEvents
  <2>5. \A i \in IntentIds : Reported("PAID", i) => i # r.intent
    BY <2>2, PaidReports
  <2> QED
    BY <2>1, <2>3, <2>4, <2>5, NothingPosted, VoidedPaymentStays
<1>4. ASSUME NEW r \in requests, LinkRow(r) PROVE PaidThenVoided'
  <2>1. r.op = "create" /\ UNCHANGED <<rows, intents, posts, RowIds>> /\ requests' = requests \ {r}
    BY <1>4, LinkDoes
  <2>2. NoNewEvents
    BY <2>1 DEF NoNewEvents
  <2> QED
    BY <2>1, <2>2, NothingPosted, VoidedPaymentStays
<1>5. ASSUME NEW i \in IntentIds, ConfirmIntent(i) PROVE PaidThenVoided'
  <2>1. /\ UNCHANGED <<rows, requests, RowIds>> /\ \A j \in IntentIds \ {i} : intents'[j] = intents[j]
    BY <1>5, ConfirmDoes
  <2>2. intents'[i] # "CANCELED"
    BY <1>5, ConfirmDoes
  <2>3. \E what : posts' = posts \cup {[intent |-> i, kind |-> what]}
    BY <1>5, ConfirmDoes
  <2>4. NoNewEvents
    BY <2>1 DEF NoNewEvents
  <2> QED
    BY <2>1, <2>2, <2>3, <2>4, VoidedPaymentStays
<1>6. ASSUME NEW e \in posts, ReceivePost(e) PROVE PaidThenVoided'
  <2>1. UNCHANGED <<rows, intents, RowIds>>
    BY <1>6, ReceiveDoes
  <2>2. posts' \subseteq posts /\ requests \subseteq requests'
    BY <1>6, ReceiveDoes
  <2>3. e = [intent |-> e.intent, kind |-> e.kind]
    BY DEF FlowTyped, FlowTypeOK
  <2>4. NoNewEvents
    <3>1. CASE UNCHANGED requests
      BY <3>1 DEF NoNewEvents
    <3>2. ASSUME NEW r, requests' = requests \cup {r}, r.intent = e.intent, r.kind = e.kind
          PROVE  NoNewEvents
      BY <2>3, <3>2 DEF NoNewEvents
    <3> QED
      BY <1>6, <3>1, <3>2, ReceiveDoes
  <2> QED
    BY <2>1, <2>2, <2>4, NothingPosted, VoidedPaymentStays
<1>7. ASSUME NEW r \in requests, HandlePost(r) PROVE PaidThenVoided'
  <2>1. /\ r.op = "event" /\ r.row \in RowIds /\ r.kind \in {"PAID", "FAILED", "CANCELED"}
        /\ UNCHANGED <<intents, RowIds>>
        /\ rows'[r.row].ref = rows[r.row].ref /\ rows'[r.row].status = RowAfterEvent(r.kind)
        /\ \A k \in RowIds \ {r.row} : rows'[k] = rows[k]
        /\ requests' = requests \ {r} /\ AppliesTo(r.kind, rows[r.row].status)
    BY <1>7, <1>a, HandleDoes
  <2>2. posts' \subseteq posts
    BY <1>7, HandleDoes
  <2>3. NoNewEvents
    BY <2>1 DEF NoNewEvents
  <2>4. \/ captureMode = "automatic"
        \/ rows[r.row].status = "CANCELLED" => rows'[r.row].status = "CANCELLED"
    <3>1. captureMode \in {"manual", "automatic"}
      BY DEF FlowTyped, FlowTypeOK
    <3> QED
      BY <2>1, <3>1 DEF AppliesTo
  <2>5. \A i \in IntentIds : Reported("PAID", i) /\ intents[i] = "CANCELED" => captureMode = "manual"
    BY PaidReports
  <2> QED
    BY <2>1, <2>2, <2>3, <2>4, <2>5, NothingPosted, VoidedPaymentStays
<1>8. ASSUME NEW r \in requests, CancelWrite(r) PROVE PaidThenVoided'
  <2>1. /\ r.row \in RowIds /\ UNCHANGED <<intents, posts, IntentIds, RowIds>>
        /\ rows'[r.row].ref = rows[r.row].ref /\ rows'[r.row].status = "CANCELLED"
        /\ \A k \in RowIds \ {r.row} : rows'[k] = rows[k]
        /\ rows[r.row].ref = r.intent
    BY <1>8, <1>a, CancelWriteDoes
  <2>2. NoNewEvents
    BY <1>8, CancelWriteDoes DEF NoNewEvents
  <2>3. requests \ {r} \subseteq requests'
    BY <1>8, CancelWriteDoes
  <2>4. ASSUME NEW i \in IntentIds', Reported("PAID", i)', intents'[i] = "CANCELED"
        PROVE  Cancelling(i)' \/ (\A k \in RowIds' : rows'[k].ref = i => rows'[k].status = "CANCELLED")
    <3>1. Reported("PAID", i) /\ i \in IntentIds
      BY <2>1, <2>2, <2>4, ReportsSame
    <3>2. CASE i = r.intent
      BY <2>1, <3>2 DEF IntentsApart
    <3>3. CASE i # r.intent /\ Cancelling(i)
      BY <2>3, <3>3 DEF Cancelling
    <3>4. CASE \A k \in RowIds : rows[k].ref = i => rows[k].status = "CANCELLED"
      BY <2>1, <3>4
    <3> QED
      BY <2>1, <2>4, <3>1, <3>2, <3>3, <3>4 DEF PaidThenVoided
  <2> QED
    BY <2>4 DEF PaidThenVoided
<1>10. ASSUME NEW r \in requests, NEW p \in r.todo, CancelVoid(r, p) PROVE PaidThenVoided'
  <2>1. p.ref \in IntentIds /\ CancelAtGateway(p.ref, {}) /\ UNCHANGED <<rows, RowIds>> /\ r.op = "cancel" /\ r.at = "read"
    BY <1>10, CancelVoidDoes
  <2>2. PICK s : /\ requests' = (requests \ {r}) \cup {s}
                 /\ s.op = "cancel" /\ s.at = "voided" /\ s.intent = p.ref
    BY <1>10, CancelVoidDoes
  <2>3. IntentIds' = IntentIds /\ \A j \in IntentIds \ {p.ref} : intents'[j] = intents[j]
    BY <2>1, GatewayDoes
  <2>4. posts' \subseteq posts \cup {[intent |-> p.ref, kind |-> "CANCELED"]}
    BY <2>1, GatewayDoes
  <2>5. NoNewEvents
    BY <2>2 DEF NoNewEvents
  <2>6. ASSUME NEW i \in IntentIds', Reported("PAID", i)', intents'[i] = "CANCELED"
        PROVE  Cancelling(i)' \/ (\A k \in RowIds' : rows'[k].ref = i => rows'[k].status = "CANCELLED")
    <3>1. Reported("PAID", i) /\ i \in IntentIds
      BY <2>3, <2>4, <2>5, <2>6, ReportsFrom
    <3>2. CASE i = p.ref
      BY <2>2, <3>2 DEF Cancelling
    <3>3. CASE i # p.ref /\ Cancelling(i)
      BY <2>1, <2>2, <3>3 DEF Cancelling
    <3>4. CASE \A k \in RowIds : rows[k].ref = i => rows[k].status = "CANCELLED"
      BY <2>1, <3>4
    <3> QED
      BY <2>3, <2>6, <3>1, <3>2, <3>3, <3>4 DEF PaidThenVoided
  <2> QED
    BY <2>6 DEF PaidThenVoided
<1>11. ASSUME NEW r \in requests, NEW p \in r.todo, SweepVoid(r, p) PROVE PaidThenVoided'
  <2>1. p.ref \in IntentIds /\ UNCHANGED <<rows, RowIds>> /\ r.op = "sweep"
        /\ CancelAtGateway(p.ref, CauseIf("VOIDED_PAID", p.ref \in Paid))
    BY <1>11, SweepVoidDoes
  <2>2. \A j \in IntentIds \ {p.ref} : intents'[j] = intents[j]
    BY <2>1, GatewayDoes
  <2>3. posts' \subseteq posts \cup {[intent |-> p.ref, kind |-> "CANCELED"]}
    BY <2>1, GatewayDoes
  <2>4. NoNewEvents /\ \A q \in requests : q.op = "cancel" => q \in requests'
    BY <1>11, <2>1, SweepVoidDoes DEF NoNewEvents
  <2>5. intents'[p.ref] = intents[p.ref] \/ p.ref \notin Paid
    BY <1>a, <2>1, GatewayDoes DEF CauseIf
  <2>6. \A i \in IntentIds : Reported("PAID", i) /\ intents'[i] = "CANCELED" => intents[i] = "CANCELED"
    <3>1. ASSUME NEW i \in IntentIds, Reported("PAID", i), intents'[i] = "CANCELED" PROVE intents[i] = "CANCELED"
      BY <2>1, <2>2, <2>5, <3>1, PaidReports DEF Paid
    <3> QED
      BY <3>1
  <2> QED
    BY <2>1, <2>3, <2>4, <2>6, VoidedPaymentStays
<1>12. ASSUME NEW r \in requests, SweepWrite(r) PROVE PaidThenVoided'
  <2>1. r.op = "sweep" /\ UNCHANGED <<intents, posts, RowIds>> /\ requests' = requests \ {r}
    BY <1>12, SweepWriteDoes
  <2>2. NoNewEvents
    BY <2>1 DEF NoNewEvents
  <2>3. \A k \in RowIds : /\ rows'[k].ref = rows[k].ref
                          /\ rows[k].status = "CANCELLED" => rows'[k].status = "CANCELLED"
    BY <1>12, SweepWriteDoes
  <2> QED
    BY <2>1, <2>2, <2>3, NothingPosted, VoidedPaymentStays
<1>13. CASE DeadlinePasses \/ AskToCancel \/ SweepRead \/ (\E k \in RowIds : AskToConfirm(k))
             \/ (\E r \in requests : CancelDone(r) \/ Die(r))
  <2>1. UNCHANGED <<rows, intents, posts, RowIds>>
    BY <1>13, ComesOrLeaves
  <2>2. NoNewEvents /\ \A r \in requests : r.op = "cancel" /\ r.at = "voided" => r \in requests'
    BY <1>13, <1>a, ComesOrLeaves DEF NoNewEvents
  <2> QED
    BY <2>1, <2>2, NothingPosted, VoidedPaymentStays
<1>14. CASE UNCHANGED flowVars
  <2>1. UNCHANGED <<rows, intents, posts, requests, RowIds>>
    BY <1>14 DEF flowVars, RowIds
  <2>2. NoNewEvents
    BY <2>1 DEF NoNewEvents
  <2> QED
    BY <2>1, <2>2, NothingPosted, VoidedPaymentStays
<1> QED
  BY <1>1, <1>2, <1>3, <1>4, <1>5, <1>6, <1>7, <1>8, <1>10, <1>11, <1>12, <1>13, <1>14, MockOnly DEF FlowNext, FlowStep

-----------------------------------------------------------------------------
(* An order that is flagged as held in escrow has money, or is being cancelled. *)

LEMMA EscrowStays ==
  ASSUME EscrowIsBacked, bill'.status = "PAID" /\ bill'.escrow => bill.status = "PAID" /\ bill.escrow,
         \A k \in RowIds : rows[k].status \in Kept /\ rows[k].ref \in Paid =>
             k \in RowIds' /\ rows'[k].ref = rows[k].ref /\ rows'[k].status \in Kept,
         Paid \subseteq Paid',
         \A r \in requests : r.op = "cancel" => r \in requests'
  PROVE  EscrowIsBacked'
<1>1. CASE \E r \in requests : r.op = "cancel"
  BY <1>1 DEF EscrowIsBacked
<1>2. CASE \E k \in RowsIn({"AUTHORIZED", "CAPTURED"}) : rows[k].ref \in Paid
  BY <1>2 DEF EscrowIsBacked, RowsIn, Kept
<1> QED
  BY <1>1, <1>2 DEF EscrowIsBacked

LEMMA PaidKept ==
  ASSUME IntentIds \subseteq IntentIds', \A i \in Paid : intents'[i] \in {"HELD", "CHARGED"}
  PROVE  Paid \subseteq Paid'
  BY DEF Paid

LEMMA EscrowStep ==
  /\ FlowTyped /\ GatewayFits /\ PaidThenVoided /\ EscrowIsBacked
  /\ Clean' /\ NoneOf({"VOIDED_PAID", "CANCEL_DIED", "DECLINED_PAID"})' /\ [FlowNext]_flowVars
  => EscrowIsBacked'
<1> SUFFICES ASSUME FlowTyped, GatewayFits, PaidThenVoided, EscrowIsBacked,
                    Clean', NoneOf({"VOIDED_PAID", "CANCEL_DIED", "DECLINED_PAID"})', [FlowNext]_flowVars
             PROVE  EscrowIsBacked'
  OBVIOUS
<1>a. {"CROSSED", "OLD_PAGE", "GATEWAY_ERROR", "CONFIRM_DIED", "VOIDED_PAID", "CANCEL_DIED", "DECLINED_PAID"}
        \cap causes' = {}
  BY CleanBefore DEF NoneOf
<1>b. \A i \in Paid : intents[i] \in {"HELD", "CHARGED"} /\ i \in IntentIds
  BY DEF Paid
<1>c. ASSUME UNCHANGED <<intents, IntentIds>> PROVE Paid' = Paid
  BY <1>c DEF Paid
<1>1. CASE AskForIntent
  <2>1. UNCHANGED <<bill, rows, RowIds>>
    BY <1>1, AskDoes DEF RowIds
  <2>2. (\A i \in IntentIds : intents'[i] = intents[i]) /\ IntentIds \subseteq IntentIds' /\ requests \subseteq requests'
    BY <1>1, AskDoes
  <2>3. Paid \subseteq Paid'
    BY <1>b, <2>2, PaidKept
  <2> QED
    BY <2>1, <2>2, <2>3, EscrowStays
<1>2. ASSUME NEW r \in requests, ReplaceIntent(r) PROVE EscrowIsBacked'
  <2>1. /\ r \in Making /\ r.row \in RowIds /\ RowIds' = RowIds
        /\ rows[r.row].status = "PENDING_AUTH"
        /\ \A k \in RowIds \ {r.row} : rows'[k] = rows[k]
        /\ UNCHANGED <<bill, intents, IntentIds>> /\ requests' = requests \ {r}
    BY <1>2, <1>a, ReplaceDoes
  <2>2. r.op = "create" /\ Paid' = Paid
    BY <1>c, <2>1 DEF Making
  <2> QED
    BY <2>1, <2>2, EscrowStays DEF Kept
<1>3. ASSUME NEW r \in requests, NewRow(r) PROVE EscrowIsBacked'
  <2>1. r \in Making /\ UNCHANGED <<bill, intents, IntentIds>>
    BY <1>3, NewRowDoes
  <2>2. r.op = "create" /\ Paid' = Paid
    BY <1>c, <2>1 DEF Making
  <2>3. /\ RowIds \subseteq RowIds' /\ \A k \in RowIds : rows'[k] = rows[k]
        /\ \A q \in requests : q.op = "cancel" => q \in requests'
    BY <1>3, <2>2, NewRowDoes
  <2> QED
    BY <2>1, <2>2, <2>3, EscrowStays
<1>4. ASSUME NEW r \in requests, LinkRow(r) PROVE EscrowIsBacked'
  <2>1. r.op = "create" /\ UNCHANGED <<rows, intents, IntentIds, RowIds>> /\ requests' = requests \ {r}
        /\ bill'.status = bill.status /\ bill'.escrow = bill.escrow
    BY <1>4, LinkDoes
  <2>2. Paid' = Paid
    BY <1>c, <2>1
  <2> QED
    BY <2>1, <2>2, EscrowStays
<1>5. ASSUME NEW i \in IntentIds, ConfirmIntent(i) PROVE EscrowIsBacked'
  <2>1. /\ UNCHANGED <<bill, rows, requests, RowIds, IntentIds>> /\ intents[i] = "OPEN"
        /\ \A j \in IntentIds \ {i} : intents'[j] = intents[j]
    BY <1>5, ConfirmDoes
  <2>2. Paid \subseteq Paid'
    BY <1>b, <2>1, PaidKept
  <2> QED
    BY <2>1, <2>2, EscrowStays
<1>6. ASSUME NEW e \in posts, ReceivePost(e) PROVE EscrowIsBacked'
  <2>1. UNCHANGED <<bill, rows, intents, RowIds, IntentIds>>
    BY <1>6, ReceiveDoes
  <2>2. requests \subseteq requests'
    BY <1>6, ReceiveDoes
  <2>3. Paid' = Paid
    BY <1>c, <2>1
  <2> QED
    BY <2>1, <2>2, <2>3, EscrowStays
<1>7. ASSUME NEW r \in requests, HandlePost(r) PROVE EscrowIsBacked'
  <2>1. /\ r.op = "event" /\ r.row \in RowIds /\ r.intent \in IntentIds /\ r.kind \in {"PAID", "FAILED", "CANCELED"}
        /\ UNCHANGED <<captureMode, intents, IntentIds, RowIds>>
        /\ rows'[r.row].ref = rows[r.row].ref /\ rows'[r.row].status = RowAfterEvent(r.kind)
        /\ \A k \in RowIds \ {r.row} : rows'[k] = rows[k]
        /\ requests' = requests \ {r} /\ AppliesTo(r.kind, rows[r.row].status) /\ rows[r.row].ref = r.intent
    BY <1>7, <1>a, HandleDoes
  <2>2. Paid' = Paid
    BY <1>c, <2>1
  <2>3. CASE r.kind = "PAID"
    <3>1. rows'[r.row].status \in Kept
      BY <2>1, <2>3 DEF RowAfterEvent, RowAfterPaid, Kept
    <3>2. Reported("PAID", r.intent)
      BY <2>1, <2>3 DEF Reported
    <3>3. CASE r.intent \in Paid
      BY <2>1, <2>2, <3>1, <3>3 DEF EscrowIsBacked, RowsIn, Kept
    <3>4. CASE r.intent \notin Paid
      <4>1. captureMode = "manual" /\ intents[r.intent] = "CANCELED"
        BY <2>1, <3>2, <3>4, PaidReports DEF Paid
      <4>2. rows[r.row].status # "CANCELLED"
        BY <2>1, <2>3, <4>1 DEF AppliesTo
      <4>3. Cancelling(r.intent)
        BY <2>1, <3>2, <4>1, <4>2 DEF PaidThenVoided
      <4>4. PICK q \in requests : q.op = "cancel"
        BY <4>3 DEF Cancelling
      <4>5. q \in requests'
        BY <2>1, <4>4
      <4> QED
        BY <4>4, <4>5 DEF EscrowIsBacked
    <3> QED
      BY <3>3, <3>4
  <2>4. CASE r.kind # "PAID"
    <3>1. UNCHANGED bill
      BY <1>7, <2>4, HandleDoes
    <3>2. rows[r.row].status \notin Kept \/ rows[r.row].ref \notin Paid
      <4>1. CASE r.kind = "FAILED"
        BY <2>1, <4>1 DEF AppliesTo, Kept
      <4>2. CASE r.kind = "CANCELED"
        <5>1. SaidTruly(r.kind, r.intent)
          BY <2>1, <4>2 DEF GatewayFits, Reported
        <5> QED
          BY <2>1, <4>2, <5>1 DEF SaidTruly, Paid
      <4> QED
        BY <2>1, <2>4, <4>1, <4>2
    <3> QED
      BY <2>1, <2>2, <3>1, <3>2, EscrowStays
  <2> QED
    BY <2>3, <2>4
<1>8. ASSUME NEW s \in requests', s.op = "cancel" PROVE EscrowIsBacked'
  BY <1>8 DEF EscrowIsBacked
<1>9. ASSUME NEW r \in requests, CancelWrite(r) PROVE EscrowIsBacked'
  BY <1>8, <1>9, CancelWriteDoes
<1>10. ASSUME NEW r \in requests, NEW p \in r.todo, CancelVoid(r, p) PROVE EscrowIsBacked'
  BY <1>8, <1>10, CancelVoidDoes
<1>11. ASSUME NEW r \in requests, NEW p \in r.todo, SweepVoid(r, p) PROVE EscrowIsBacked'
  <2>1. p.ref \in IntentIds /\ UNCHANGED <<bill, rows, RowIds>> /\ r.op = "sweep"
        /\ CancelAtGateway(p.ref, CauseIf("VOIDED_PAID", p.ref \in Paid))
    BY <1>11, SweepVoidDoes
  <2>2. IntentIds' = IntentIds /\ \A j \in IntentIds \ {p.ref} : intents'[j] = intents[j]
    BY <2>1, GatewayDoes
  <2>3. intents'[p.ref] = intents[p.ref] \/ p.ref \notin Paid
    BY <1>a, <2>1, GatewayDoes DEF CauseIf
  <2>4. Paid \subseteq Paid'
    BY <1>b, <2>1, <2>2, <2>3, PaidKept
  <2>5. \A q \in requests : q.op = "cancel" => q \in requests'
    BY <1>11, <2>1, SweepVoidDoes
  <2> QED
    BY <2>1, <2>4, <2>5, EscrowStays
<1>12. ASSUME NEW r \in requests, SweepWrite(r) PROVE EscrowIsBacked'
  <2>1. r.op = "sweep" /\ UNCHANGED <<intents, IntentIds, RowIds>> /\ requests' = requests \ {r}
    BY <1>12, SweepWriteDoes
  <2>2. Paid' = Paid
    BY <1>c, <2>1
  <2>3. \A k \in RowIds : rows'[k].ref = rows[k].ref /\ (rows[k].status \in Kept => rows'[k].status \in Kept)
    BY <1>12, SweepWriteDoes DEF Kept
  <2>4. UNCHANGED bill \/ bill'.status = "PAYMENT_EXPIRED"
    BY <1>12, SweepWriteDoes
  <2> QED
    BY <2>1, <2>2, <2>3, <2>4, EscrowStays
<1>13. CASE DeadlinePasses \/ AskToCancel \/ SweepRead \/ (\E k \in RowIds : AskToConfirm(k))
             \/ (\E r \in requests : CancelDone(r) \/ Die(r))
  <2>1. UNCHANGED <<rows, intents, IntentIds, RowIds>> /\ bill'.status = bill.status
    BY <1>13, ComesOrLeaves
  <2>2. Paid' = Paid
    BY <1>c, <2>1
  <2>3. \/ bill'.escrow = FALSE
        \/ bill'.escrow = bill.escrow /\ \A r \in requests : r.op = "cancel" => r \in requests'
    BY <1>13, <1>a, ComesOrLeaves
  <2>4. CASE bill'.escrow = FALSE
    BY <2>4 DEF EscrowIsBacked
  <2>5. CASE bill'.escrow = bill.escrow /\ \A r \in requests : r.op = "cancel" => r \in requests'
    BY <2>1, <2>2, <2>5, EscrowStays
  <2> QED
    BY <2>3, <2>4, <2>5
<1>14. CASE UNCHANGED flowVars
  <2>1. UNCHANGED <<bill, rows, intents, requests, IntentIds, RowIds>>
    BY <1>14 DEF flowVars, IntentIds, RowIds
  <2>2. Paid' = Paid
    BY <1>c, <2>1
  <2> QED
    BY <2>1, <2>2, EscrowStays
<1>15. ASSUME NEW r \in requests, ConfirmAtMock(r) PROVE EscrowIsBacked'
  <2>1. /\ r.op = "confirm" /\ UNCHANGED <<bill, rows, IntentIds, RowIds>>
        /\ \A j \in IntentIds \ {r.intent} : intents'[j] = intents[j]
        /\ intents'[r.intent] = WhenPaid \/ r.intent \notin Paid
    BY <1>15, <1>a, AtMockDoes
  <2>2. Paid \subseteq Paid'
    BY <1>b, <2>1, PaidKept DEF WhenPaid
  <2>3. \A q \in requests : q.op = "cancel" => q \in requests'
    BY <1>15, <2>1, AtMockDoes
  <2> QED
    BY <2>1, <2>2, <2>3, EscrowStays
<1>16. ASSUME NEW r \in requests, WriteConfirmed(r) PROVE EscrowIsBacked'
  <2>1. /\ r.row \in RowIds /\ UNCHANGED <<intents, IntentIds, RowIds>>
        /\ rows'[r.row].status = RowAfterPaid /\ rows'[r.row].ref = r.intent /\ r.intent \in Paid
    BY <1>16, <1>a, WriteDoes
  <2>2. r.row \in RowsIn({"AUTHORIZED", "CAPTURED"})' /\ Paid' = Paid
    BY <1>c, <2>1 DEF RowsIn, RowAfterPaid
  <2> QED
    BY <2>1, <2>2 DEF EscrowIsBacked
<1>17. ASSUME NEW r \in requests, WriteDeclined(r) PROVE EscrowIsBacked'
  <2>1. /\ r.op = "confirm" /\ UNCHANGED <<bill, intents, IntentIds, RowIds>> /\ requests' = requests \ {r}
        /\ \A k \in RowIds \ {r.row} : rows'[k] = rows[k]
        /\ rows[r.row].ref \notin Paid
    BY <1>17, <1>a, WriteDoes
  <2>2. Paid' = Paid
    BY <1>c, <2>1
  <2> QED
    BY <2>1, <2>2, EscrowStays
<1> QED
  BY <1>1, <1>2, <1>3, <1>4, <1>5, <1>6, <1>7, <1>9, <1>10, <1>11, <1>12, <1>13, <1>14, <1>15, <1>16, <1>17
  DEF FlowNext, FlowStep

-----------------------------------------------------------------------------
(* When the order has expired, every intent a page holds is void. *)

LEMMA ExpiredStays ==
  ASSUME FlowTyped, MockFits, ~bill.mock, [FlowNext]_flowVars, ExpiredAreVoided,
         bill'.status = "PAYMENT_EXPIRED" =>
             /\ bill.status = "PAYMENT_EXPIRED"
             /\ \A k \in RowIds' : rows'[k].ref \in handedOut' =>
                   \E j \in RowIds : rows[j].ref = rows'[k].ref /\ rows[j].ref \in handedOut
  PROVE  ExpiredAreVoided'
<1>1. ASSUME bill'.status = "PAYMENT_EXPIRED", NEW k \in RowIds', rows'[k].ref \in handedOut'
      PROVE  intents'[rows'[k].ref] = "CANCELED"
  <2>1. PICK j \in RowIds : rows[j].ref = rows'[k].ref /\ rows[j].ref \in handedOut
    BY <1>1
  <2>2. PICK i \in IntentIds : i = rows[j].ref
    BY Listed DEF FlowTyped
  <2>3. intents[i] = "CANCELED"
    BY <1>1, <2>1, <2>2 DEF ExpiredAreVoided
  <2>4. intents'[i] = "CANCELED"
    BY <2>3, SettledStays
  <2> QED
    BY <2>1, <2>2, <2>4
<1> QED
  BY <1>1 DEF ExpiredAreVoided

LEMMA ExpiredStep ==
  /\ FlowTyped /\ IntentsApart /\ MockFits /\ CancelledAreVoided /\ MoneyIsToldOf /\ ExpiredAreVoided
  /\ Clean' /\ NoneOf({"LATE_INTENT", "LATE_CHARGE", "DECLINED_OPEN"})' /\ [FlowNext]_flowVars
  => ExpiredAreVoided'
<1> SUFFICES ASSUME FlowTyped, IntentsApart, MockFits, CancelledAreVoided, MoneyIsToldOf, ExpiredAreVoided,
                    Clean', NoneOf({"LATE_INTENT", "LATE_CHARGE", "DECLINED_OPEN"})', [FlowNext]_flowVars, ~bill.mock
             PROVE  ExpiredAreVoided'
  BY MockSame DEF ExpiredAreVoided
<1>a. {"CROSSED", "LATE_INTENT", "LATE_CHARGE", "DECLINED_OPEN"} \cap causes' = {}
  BY CleanBefore DEF NoneOf
<1>b. "LATE_CHARGE" \notin causes
  BY <1>a, SettledStays
<1>c. ASSUME UNCHANGED <<handedOut, RowIds>>, \A k \in RowIds : rows'[k].ref = rows[k].ref,
             bill'.status = bill.status \/ bill'.status = "PAID"
      PROVE  ExpiredAreVoided'
  <2>1. bill'.status = "PAYMENT_EXPIRED" => bill.status = "PAYMENT_EXPIRED"
    BY <1>c
  <2>2. \A k \in RowIds' : rows'[k].ref \in handedOut' =>
            \E j \in RowIds : rows[j].ref = rows'[k].ref /\ rows[j].ref \in handedOut
    BY <1>c
  <2> QED
    BY <2>1, <2>2, ExpiredStays
<1>d. ASSUME bill'.status # "PAYMENT_EXPIRED" PROVE ExpiredAreVoided'
  BY <1>d DEF ExpiredAreVoided
<1>1. CASE AskForIntent
  <2>1. UNCHANGED <<bill, rows, handedOut, RowIds>>
    BY <1>1, AskDoes DEF RowIds
  <2> QED
    BY <1>c, <2>1
<1>2. ASSUME NEW r \in requests, ReplaceIntent(r) PROVE ExpiredAreVoided'
  <2>1. Awaiting /\ UNCHANGED bill
    BY <1>2, <1>a, ReplaceDoes
  <2> QED
    BY <1>d, <2>1 DEF Awaiting
<1>3. ASSUME NEW r \in requests, NewRow(r) PROVE ExpiredAreVoided'
  <2>1. r \in Making /\ UNCHANGED <<bill, handedOut>>
    BY <1>3, NewRowDoes
  <2>2. r.intent \notin handedOut
    BY <2>1 DEF IntentsApart
  <2>3. \A k \in RowIds' : (k \in RowIds /\ rows'[k] = rows[k]) \/ rows'[k].ref = r.intent
    BY <1>3, NewRowDoes
  <2> QED
    BY <2>1, <2>2, <2>3, ExpiredStays
<1>4. ASSUME NEW r \in requests, LinkRow(r) PROVE ExpiredAreVoided'
  <2>1. Awaiting /\ bill'.status = bill.status
    BY <1>4, <1>a, LinkDoes
  <2> QED
    BY <1>d, <2>1 DEF Awaiting
<1>5. ASSUME NEW i \in IntentIds, ConfirmIntent(i) PROVE ExpiredAreVoided'
  <2>1. UNCHANGED <<bill, rows, handedOut, RowIds>>
    BY <1>5, ConfirmDoes
  <2> QED
    BY <1>c, <2>1
<1>6. ASSUME NEW e \in posts, ReceivePost(e) PROVE ExpiredAreVoided'
  <2>1. UNCHANGED <<bill, rows, handedOut, RowIds>>
    BY <1>6, ReceiveDoes
  <2> QED
    BY <1>c, <2>1
<1>7. ASSUME NEW r \in requests, HandlePost(r) PROVE ExpiredAreVoided'
  <2>1. UNCHANGED <<handedOut, RowIds>> /\ (\A k \in RowIds : rows'[k].ref = rows[k].ref)
    BY <1>7, HandleDoes
  <2>2. bill'.status = bill.status \/ bill'.status = "PAID"
    BY <1>7, HandleDoes
  <2> QED
    BY <1>c, <2>1, <2>2
<1>8. ASSUME NEW r \in requests, CancelWrite(r) PROVE ExpiredAreVoided'
  <2>1. UNCHANGED <<bill, handedOut, RowIds>> /\ (\A k \in RowIds : rows'[k].ref = rows[k].ref)
    BY <1>8, CancelWriteDoes
  <2> QED
    BY <1>c, <2>1
<1>9. ASSUME NEW r \in requests, NEW p \in r.todo, CancelVoid(r, p) \/ SweepVoid(r, p) PROVE ExpiredAreVoided'
  <2>1. UNCHANGED <<bill, rows, handedOut, RowIds>>
    BY <1>9, CancelVoidDoes, SweepVoidDoes
  <2> QED
    BY <1>c, <2>1
<1>10. ASSUME NEW r \in requests, SweepWrite(r) PROVE ExpiredAreVoided'
  <2>1. r.op = "sweep" /\ r.todo = {} /\ UNCHANGED <<intents, handedOut, RowIds>>
    BY <1>10, SweepWriteDoes
  <2>2. CASE Awaiting
    <3>1. /\ \A k \in RowIds : rows'[k].ref = rows[k].ref
          /\ ToCancel({"PENDING_AUTH"}) \subseteq r.seen
          /\ \A k \in RowsIn({"FAILED"}) : intents[rows[k].ref] = "CANCELED"
      BY <1>10, <1>a, <2>2, SweepWriteDoes
    <3>2. ASSUME NEW k \in RowIds PROVE intents[rows[k].ref] = "CANCELED"
      <4>1. rows[k].status \in RowStatuses
        BY Listed DEF FlowTyped
      <4>2. rows[k].status \notin {"AUTHORIZED", "CAPTURED"}
        BY <2>2 DEF MoneyIsToldOf, RowsIn
      <4>3. CASE rows[k].status = "PENDING_AUTH"
        <5>1. PICK p : p = [row |-> k, ref |-> rows[k].ref]
          OBVIOUS
        <5>2. p \in ToCancel({"PENDING_AUTH"})
          BY <4>3, <5>1 DEF ToCancel, RowsIn
        <5>3. Voided(p.ref) /\ p.ref = rows[k].ref
          BY <2>1, <3>1, <5>1, <5>2 DEF CancelledAreVoided
        <5> QED
          BY <1>b, <5>3 DEF Voided
      <4>4. CASE rows[k].status = "FAILED"
        BY <3>1, <4>4 DEF RowsIn
      <4>5. CASE rows[k].status = "CANCELLED"
        BY <1>b, <4>5, CancelledRefs DEF Voided
      <4> QED
        BY <4>1, <4>2, <4>3, <4>4, <4>5 DEF RowStatuses
    <3> QED
      BY <2>1, <3>1, <3>2 DEF ExpiredAreVoided
  <2>3. CASE ~Awaiting
    <3>1. UNCHANGED <<bill, rows>>
      BY <1>10, <2>3, SweepWriteDoes
    <3> QED
      BY <1>c, <2>1, <3>1
  <2> QED
    BY <2>2, <2>3
<1>11. CASE DeadlinePasses \/ AskToCancel \/ SweepRead \/ (\E k \in RowIds : AskToConfirm(k))
             \/ (\E r \in requests : CancelDone(r) \/ Die(r))
  <2>1. UNCHANGED <<rows, handedOut, RowIds>> /\ bill'.status = bill.status
    BY <1>11, ComesOrLeaves
  <2> QED
    BY <1>c, <2>1
<1>12. CASE UNCHANGED flowVars
  <2>1. UNCHANGED <<bill, rows, handedOut, RowIds>>
    BY <1>12 DEF flowVars, RowIds
  <2> QED
    BY <1>c, <2>1
<1> QED
  BY <1>1, <1>2, <1>3, <1>4, <1>5, <1>6, <1>7, <1>8, <1>9, <1>10, <1>11, <1>12, MockOnly DEF FlowNext, FlowStep

-----------------------------------------------------------------------------
(* The invariant, and what it says of money. *)

LEMMA FlowInitially == FlowInit => FlowInv
<1> SUFFICES ASSUME FlowInit PROVE FlowInv
  OBVIOUS
<1>1. FlowTyped
  BY FlowInitTyped
<1>2. rows = <<>> /\ intents = <<>> /\ RowIds = {} /\ IntentIds = {}
  BY DEF FlowInit, RowIds, IntentIds
<1>3. requests = {} /\ posts = {} /\ handedOut = {} /\ bill.status = "AWAITING_PAYMENT"
  BY DEF FlowInit
<1>4. IntentsApart
  BY <1>2, <1>3 DEF IntentsApart, Making
<1>5. GatewayFits
  BY <1>2, <1>3 DEF GatewayFits
<1>6. CancelledAreVoided /\ MoneyIsToldOf
  BY <1>2, <1>3 DEF CancelledAreVoided, MoneyIsToldOf, Paid, RowsIn
<1>7. PaidThenVoided /\ EscrowIsBacked /\ ExpiredAreVoided
  BY <1>2, <1>3 DEF PaidThenVoided, EscrowIsBacked, ExpiredAreVoided
<1>8. MockFits
  BY <1>2, <1>3 DEF MockFits, Paid
<1> QED
  BY <1>1, <1>4, <1>5, <1>6, <1>7, <1>8 DEF FlowInv

LEMMA FlowStays == FlowInv /\ [FlowNext]_flowVars => FlowInv'
<1> SUFFICES ASSUME FlowInv, [FlowNext]_flowVars PROVE FlowInv'
  OBVIOUS
<1>1. FlowTyped /\ IntentsApart /\ GatewayFits /\ MockFits
  BY DEF FlowInv
<1>2. FlowTyped' /\ IntentsApart' /\ GatewayFits' /\ MockFits'
  BY <1>1, FlowStepTyped, ApartStep, GatewayStep, MockStep
<1>3. ASSUME Clean' PROVE CancelledAreVoided /\ MoneyIsToldOf /\ CancelledAreVoided' /\ MoneyIsToldOf'
  BY <1>1, <1>3, CleanBefore, CancelledStep, MoneyStep DEF FlowInv
<1>4. ASSUME Clean', NoneOf({"VOIDED_PAID", "CANCEL_DIED", "DECLINED_PAID"})' PROVE PaidThenVoided' /\ EscrowIsBacked'
  BY <1>1, <1>4, CleanBefore, VoidedPaymentStep, EscrowStep DEF FlowInv
<1>5. ASSUME Clean', NoneOf({"LATE_INTENT", "LATE_CHARGE", "DECLINED_OPEN"})' PROVE ExpiredAreVoided'
  <2>1. Clean /\ NoneOf({"LATE_INTENT", "LATE_CHARGE", "DECLINED_OPEN"})
    BY <1>1, <1>5, CleanBefore
  <2> QED
    BY <1>1, <1>3, <1>5, <2>1, ExpiredStep DEF FlowInv
<1> QED
  BY <1>2, <1>3, <1>4, <1>5 DEF FlowInv

LEMMA FlowInvariance == FlowSpec => []FlowInv
  BY FlowInitially, FlowStays, PTL DEF FlowSpec

(* MoneyOnRecord, for any number of intents and requests, with the gateway or   *)
(* its mock: once nothing is in flight, money that was taken is on a row that    *)
(* says so, and an order flagged as held has such money, unless one of the        *)
(* causes that the property names has happened, a request that died on its way     *)
(* among them (createIntent, confirmFromMock, handleGatewayEvent, cancelHold).     *)
THEOREM MoneyStaysOnRecord == FlowSpec => []MoneyOnRecord
<1>1. FlowInv => MoneyOnRecord
  <2> SUFFICES ASSUME FlowInv, AtRest, NoneOf({"CROSSED", "OLD_PAGE", "GATEWAY_ERROR", "CONFIRM_DIED"})
               PROVE  /\ \A i \in Paid : \E k \in RowsIn({"AUTHORIZED", "CAPTURED"}) : rows[k].ref = i
                      /\ bill.status = "PAID" /\ bill.escrow
                         /\ NoneOf({"VOIDED_PAID", "CANCEL_DIED", "DECLINED_PAID"}) =>
                            \E k \in RowsIn({"AUTHORIZED", "CAPTURED"}) : rows[k].ref \in Paid
    BY DEF MoneyOnRecord
  <2>1. MoneyIsToldOf /\ (NoneOf({"VOIDED_PAID", "CANCEL_DIED", "DECLINED_PAID"}) => EscrowIsBacked)
    BY DEF FlowInv, Clean
  <2>2. posts = {} /\ requests = {}
    BY DEF AtRest
  <2> QED
    BY <2>1, <2>2 DEF MoneyIsToldOf, OnRecord, Confirmed, EscrowIsBacked
<1> QED
  BY <1>1, FlowInvariance, PTL

(* ExpiredKeepsNoMoney, for any number of intents and requests: the order      *)
(* expires only after everything pending was voided, and what the gateway voids  *)
(* or refuses to void was settled before (sweepPaymentExpired).  With the mock,   *)
(* which settles nothing, whoever pays makes the order a paid one                 *)
(* (confirmFromMock).                                                          *)
THEOREM ExpiryFreesMoney == FlowSpec => []ExpiredKeepsNoMoney
<1>1. FlowInv => ExpiredKeepsNoMoney
  <2> SUFFICES ASSUME FlowInv, AtRest, bill.status = "PAYMENT_EXPIRED",
                      NoneOf({"CROSSED", "OLD_PAGE", "GATEWAY_ERROR", "LATE_INTENT", "LATE_CHARGE",
                              "DECLINED_OPEN", "CONFIRM_DIED"})
               PROVE  Paid = {}
    BY DEF ExpiredKeepsNoMoney
  <2>1. MoneyIsToldOf /\ ExpiredAreVoided /\ GatewayFits /\ MockFits
    BY DEF FlowInv, Clean, NoneOf
  <2>2. CASE bill.mock
    BY <2>1, <2>2 DEF MockFits, NoneOf, AtRest, Confirmed
  <2>3. ASSUME ~bill.mock, NEW i \in Paid PROVE FALSE
    <3>1. intents[i] \in {"HELD", "CHARGED"} /\ i \in IntentIds
      BY DEF Paid
    <3>2. i \in handedOut
      BY <2>1, <2>3, <3>1 DEF GatewayFits
    <3>3. PICK k \in RowIds : rows[k].ref = i
      BY <2>1 DEF MoneyIsToldOf
    <3> QED
      BY <2>1, <2>3, <3>1, <3>2, <3>3 DEF ExpiredAreVoided
  <2> QED
    BY <2>2, <2>3
<1> QED
  BY <1>1, FlowInvariance, PTL
=============================================================================
