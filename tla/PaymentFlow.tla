---------------------------- MODULE PaymentFlow -----------------------------
(***************************************************************************)
(* The Payment rows and gateway intents of one order from checkout until    *)
(* it is paid, cancelled or expires (payments.service.ts, the payment sweep  *)
(* of orders.service.ts, mock-stripe/server.ts).  OrderFlow follows the      *)
(* active row only; here are the others: a checkout that is refreshed gives   *)
(* its row a new intent, one after a declined card makes a new row, and the   *)
(* buyer may confirm any intent whose secret was handed out.  With the mock    *)
(* gateway inside the server there are no events: confirmFromMock confirms the  *)
(* intent of any row of the buyer's and writes the outcome itself.              *)
(*                                                                         *)
(* A request may die between any two of its steps.                            *)
(*                                                                         *)
(* The history variable causes collects the events after which money may be  *)
(* where the rows do not say; no action depends on it.  An event the gateway  *)
(* gives up on after three attempts is left out: nothing makes up for one.    *)
(***************************************************************************)
EXTENDS Naturals, Sequences, FiniteSets

CONSTANTS
    MAX_INTENTS,    \* bound: intents made at the gateway
    MAX_REQUESTS,   \* bound: requests, webhooks and sweeps in flight together
    FLOW_ON         \* bound: whether behaviours continue after the first cause

ASSUME PaymentFlowAssumption ==
    /\ {MAX_INTENTS, MAX_REQUESTS} \subseteq Nat \ {0}
    /\ FLOW_ON \in BOOLEAN

VARIABLES
    captureMode,    \* "manual" holds the money, "automatic" charges it
    bill,           \* the order: status, active row, whether its deadline has passed and
                    \* its escrow is flagged as held, and whether the gateway is the mock
    rows,           \* rows of Payment, oldest first: status and intent (gatewayRef)
    intents,        \* state of every intent at the gateway
    handedOut,      \* intents whose secret a checkout page holds
    posts,          \* events the gateway is posting
    requests,       \* requests in flight
    causes          \* history

flowVars == <<captureMode, bill, rows, intents, handedOut, posts, requests, causes>>

RowStatuses == {"PENDING_AUTH", "AUTHORIZED", "CAPTURED", "CANCELLED", "FAILED"}
RowIds == DOMAIN rows
IntentIds == DOMAIN intents
NoRow == 0

RowsIn(statuses) == { k \in RowIds : rows[k].status \in statuses }
Paid == { i \in IntentIds : intents[i] \in {"HELD", "CHARGED"} }
Awaiting == bill.status = "AWAITING_PAYMENT"

\* What a request has read, and how far it is.  todo: rows, with the intents they had,
\* that are still to be cancelled; seen: those a sweep has found.
FlowRequest == [op : {"create", "event", "cancel", "sweep", "confirm"},
            at : {"read", "linked", "voided", "confirmed", "declined"},
            row : 0..MAX_INTENTS, intent : 0..MAX_INTENTS, kind : {"", "PAID", "FAILED", "CANCELED"},
            awaiting : BOOLEAN, todo : SUBSET [row : 1..MAX_INTENTS, ref : 1..MAX_INTENTS],
                seen : SUBSET [row : 1..MAX_INTENTS, ref : 1..MAX_INTENTS]]
Begun(op) == [op |-> op, at |-> "read", row |-> NoRow, intent |-> 0, kind |-> "",
              awaiting |-> FALSE, todo |-> {}, seen |-> {}]
ToCancel(statuses) == { [row |-> k, ref |-> rows[k].ref] : k \in RowsIn(statuses) }

\* Bound: one cancellation and one sweep at a time, and equal requests count as one.
Enter(r) ==
    /\ Cardinality(requests) < MAX_REQUESTS
    /\ r.op \in {"cancel", "sweep"} => \A q \in requests : q.op # r.op
    /\ requests' = requests \cup {r}
MoveOn(r, s) == requests' = (requests \ {r}) \cup {s}
Leave(r) == requests' = requests \ {r}

CauseIf(what, happened) == IF happened THEN {what} ELSE {}
Caused(what) == causes' = causes \cup what

-----------------------------------------------------------------------------
(* createIntent *)

\* The request reads, then has the gateway make an intent nobody knows of yet.
AskForIntent ==
    /\ Awaiting
    /\ ~bill.overdue
    /\ Len(intents) < MAX_INTENTS
    /\ intents' = Append(intents, "OPEN")
    /\ Enter([Begun("create") EXCEPT !.intent = Len(intents) + 1,
                !.row = IF bill.active \in RowsIn({"PENDING_AUTH"}) THEN bill.active ELSE NoRow])
    /\ UNCHANGED <<captureMode, bill, rows, handedOut, posts, causes>>

\* A row that was pending when it was read gets the new intent, whatever it is now;
\* the intent it had stays open.
ReplaceIntent(r) ==
    /\ r.op = "create"
    /\ r.at = "read"
    /\ r.row # NoRow
    /\ rows' = [rows EXCEPT ![r.row].ref = r.intent]
    /\ handedOut' = handedOut \cup {r.intent}
    /\ Caused(CauseIf("CROSSED", rows[r.row].status # "PENDING_AUTH" \/ rows[r.row].ref \in Paid)
              \cup CauseIf("LATE_INTENT", ~Awaiting))
    /\ Leave(r)
    /\ UNCHANGED <<captureMode, bill, intents, posts>>

NewRow(r) ==
    /\ r.op = "create"
    /\ r.at = "read"
    /\ r.row = NoRow
    /\ rows' = Append(rows, [status |-> "PENDING_AUTH", ref |-> r.intent])
    /\ MoveOn(r, [r EXCEPT !.at = "linked", !.row = Len(rows) + 1])
    /\ UNCHANGED <<captureMode, bill, intents, handedOut, posts, causes>>

LinkRow(r) ==
    /\ r.op = "create"
    /\ r.at = "linked"
    /\ bill' = [bill EXCEPT !.active = r.row]
    /\ handedOut' = handedOut \cup {r.intent}
    /\ Caused(CauseIf("LATE_INTENT", ~Awaiting))
    /\ Leave(r)
    /\ UNCHANGED <<captureMode, rows, intents, posts>>

(* The buyer's browser and the gateway. *)

ToldOf(i, kind) == posts' = posts \cup {[intent |-> i, kind |-> kind]}
WhenPaid == IF captureMode = "manual" THEN "HELD" ELSE "CHARGED"

\* A declined card leaves the intent open.
ConfirmIntent(i) ==
    /\ ~bill.mock
    /\ i \in handedOut
    /\ intents[i] = "OPEN"
    /\ \/ /\ intents' = [intents EXCEPT ![i] = WhenPaid]
          /\ ToldOf(i, "PAID")
          /\ Caused(CauseIf("OLD_PAGE", \A k \in RowIds : rows[k].ref # i))
       \/ /\ ToldOf(i, "FAILED")
          /\ UNCHANGED <<intents, causes>>
    /\ UNCHANGED <<captureMode, bill, rows, handedOut, requests>>

\* The gateway cancels what was not charged, and says so; the mock cancels anything.
\* Both callers ignore an error.
CancelAtGateway(i, cause) ==
    \/ /\ bill.mock \/ intents[i] # "CHARGED"
       /\ intents' = [intents EXCEPT ![i] = "CANCELED"]
       /\ IF bill.mock THEN UNCHANGED posts ELSE ToldOf(i, "CANCELED")
       /\ Caused(cause)
    \/ /\ Caused({IF intents[i] = "CHARGED" /\ ~bill.mock THEN "LATE_CHARGE" ELSE "GATEWAY_ERROR"})
       /\ UNCHANGED <<intents, posts>>

-----------------------------------------------------------------------------
(* confirmFromMock: reads a row, has the mock confirm its intent, writes. *)

AskToConfirm(k) ==
    /\ bill.mock
    /\ Enter([Begun("confirm") EXCEPT !.row = k, !.intent = rows[k].ref])
    /\ UNCHANGED <<captureMode, bill, rows, intents, handedOut, posts, causes>>

\* The mock confirms an intent, or declines it, whatever became of it before.
ConfirmAtMock(r) ==
    /\ r.op = "confirm"
    /\ r.at = "read"
    /\ \/ /\ intents' = [intents EXCEPT ![r.intent] = WhenPaid]
          /\ MoveOn(r, [r EXCEPT !.at = "confirmed"])
          /\ Caused(CauseIf("OLD_PAGE", \A k \in RowIds : rows[k].ref # r.intent))
       \/ /\ intents' = [intents EXCEPT ![r.intent] = "OPEN"]
          /\ MoveOn(r, [r EXCEPT !.at = "declined"])
          /\ Caused(CauseIf("DECLINED_PAID", r.intent \in Paid))
    /\ UNCHANGED <<captureMode, bill, rows, handedOut, posts>>

RowAfterPaid == IF captureMode = "manual" THEN "AUTHORIZED" ELSE "CAPTURED"

\* One transaction; the order is paid whatever it was.
WriteConfirmed(r) ==
    /\ r.at = "confirmed"
    /\ rows' = [rows EXCEPT ![r.row].status = RowAfterPaid]
    /\ bill' = [bill EXCEPT !.status = "PAID", !.escrow = TRUE]
    /\ Caused(CauseIf("CROSSED", rows[r.row].ref # r.intent \/ r.intent \notin Paid))
    /\ Leave(r)
    /\ UNCHANGED <<captureMode, intents, handedOut, posts>>

WriteDeclined(r) ==
    /\ r.at = "declined"
    /\ rows' = [rows EXCEPT ![r.row].status = "FAILED"]
    /\ Caused(CauseIf("CROSSED", rows[r.row].ref # r.intent \/ r.intent \in Paid))
    /\ Leave(r)
    /\ UNCHANGED <<captureMode, bill, intents, handedOut, posts>>

-----------------------------------------------------------------------------
(* handleGatewayEvent: finds the row and the order, decides, writes. *)

\* Whether an event changes a row.
AppliesTo(kind, status) ==
    CASE kind = "PAID" /\ captureMode = "manual" -> status \in {"PENDING_AUTH", "FAILED"}
      [] kind = "PAID" /\ captureMode = "automatic" -> status # "CAPTURED"
      [] kind = "FAILED" -> status \in {"PENDING_AUTH", "FAILED"}
      [] kind = "CANCELED" -> status \notin {"CAPTURED", "CANCELLED"}

\* Variant: the gateway's spelling stored in our column.
RowAfterEventMisspelt(kind) == IF kind = "CANCELED" THEN kind ELSE "AUTHORIZED"

RowAfterEvent(kind) ==
    CASE kind = "PAID" -> RowAfterPaid
      [] kind = "FAILED" -> "FAILED"
      [] kind = "CANCELED" -> "CANCELLED"

\* Variant: an event is dropped once the row has been declined.
ReceivePostOnce(e) ==
    /\ posts' = posts \ {e}
    /\ \/ UNCHANGED requests
       \/ \E k \in RowIds : /\ rows[k].ref = e.intent
                            /\ rows[k].status = "PENDING_AUTH"
                            /\ Enter([Begun("event") EXCEPT !.row = k, !.intent = e.intent, !.kind = e.kind,
                                             !.awaiting = e.kind = "PAID" /\ Awaiting])
    /\ UNCHANGED <<captureMode, bill, rows, intents, handedOut, causes>>

\* An event that changes nothing, or about an intent no row has, is acknowledged.
ReceivePost(e) ==
    /\ \/ /\ \A k \in RowIds : rows[k].ref = e.intent => ~AppliesTo(e.kind, rows[k].status)
          /\ posts' = posts \ {e}
          /\ UNCHANGED requests
       \/ /\ \E k \in RowIds :
                /\ rows[k].ref = e.intent
                /\ AppliesTo(e.kind, rows[k].status)
                /\ Enter([Begun("event") EXCEPT !.row = k, !.intent = e.intent, !.kind = e.kind,
                                 !.awaiting = e.kind = "PAID" /\ Awaiting])
          /\ UNCHANGED posts
    /\ UNCHANGED <<captureMode, bill, rows, intents, handedOut, causes>>

\* One transaction for row and order.  The gateway may not hear that it succeeded,
\* and post again.
HandlePost(r) ==
    /\ r.op = "event"
    /\ rows' = [rows EXCEPT ![r.row].status = RowAfterEvent(r.kind)]
    /\ bill' = IF r.kind = "PAID" /\ r.awaiting THEN [bill EXCEPT !.status = "PAID", !.escrow = TRUE]
                                               ELSE bill
    /\ posts' \in {posts, posts \ {[intent |-> r.intent, kind |-> r.kind]}}
    /\ Leave(r)
    /\ Caused(CauseIf("CROSSED", \/ rows[r.row].ref # r.intent
                                 \/ ~AppliesTo(r.kind, rows[r.row].status)
                                 \/ r.kind = "PAID" /\ r.awaiting # Awaiting))
    /\ UNCHANGED <<captureMode, intents, handedOut>>

-----------------------------------------------------------------------------
(* cancelHold: row by row, first at the gateway, then here. *)

AskToCancel ==
    /\ Enter([Begun("cancel") EXCEPT !.todo = ToCancel({"AUTHORIZED", "PENDING_AUTH"})])
    /\ UNCHANGED <<captureMode, bill, rows, intents, handedOut, posts, causes>>

CancelVoid(r, p) ==
    /\ r.op = "cancel"
    /\ r.at = "read"
    /\ CancelAtGateway(p.ref, {})
    /\ MoveOn(r, [r EXCEPT !.at = "voided", !.row = p.row, !.intent = p.ref, !.todo = @ \ {p}])
    /\ UNCHANGED <<captureMode, bill, rows, handedOut>>

CancelWrite(r) ==
    /\ r.op = "cancel"
    /\ r.at = "voided"
    /\ rows' = [rows EXCEPT ![r.row].status = "CANCELLED"]
    /\ MoveOn(r, [r EXCEPT !.at = "read", !.row = NoRow, !.intent = 0])
    /\ Caused(CauseIf("CROSSED", \/ rows[r.row].ref # r.intent
                                 \/ rows[r.row].status \notin {"AUTHORIZED", "PENDING_AUTH", "CANCELLED"}
                                 \/ bill.mock /\ r.intent \in Paid))
    /\ UNCHANGED <<captureMode, bill, intents, handedOut, posts>>

CancelDone(r) ==
    /\ r.op = "cancel"
    /\ r.at = "read"
    /\ r.todo = {}
    /\ bill' = [bill EXCEPT !.escrow = FALSE]
    /\ Leave(r)
    /\ UNCHANGED <<captureMode, rows, intents, handedOut, posts, causes>>

(* sweepPaymentExpired: every pending intent at the gateway, then one transaction. *)

DeadlinePasses ==
    /\ ~bill.overdue
    /\ bill' = [bill EXCEPT !.overdue = TRUE]
    /\ UNCHANGED <<captureMode, rows, intents, handedOut, posts, requests, causes>>

SweepRead ==
    /\ Awaiting
    /\ bill.overdue
    /\ RowsIn({"AUTHORIZED", "CAPTURED"}) = {}
    /\ Enter([Begun("sweep") EXCEPT !.todo = ToCancel({"PENDING_AUTH"}), !.seen = ToCancel({"PENDING_AUTH"})])
    /\ UNCHANGED <<captureMode, bill, rows, intents, handedOut, posts, causes>>

\* Variant: the gateway is not told.
SweepVoidHere(r, p) ==
    /\ r.op = "sweep"
    /\ MoveOn(r, [r EXCEPT !.todo = @ \ {p}])
    /\ UNCHANGED <<captureMode, bill, rows, intents, handedOut, posts, causes>>

SweepVoid(r, p) ==
    /\ r.op = "sweep"
    /\ CancelAtGateway(p.ref, CauseIf("VOIDED_PAID", p.ref \in Paid))
    /\ MoveOn(r, [r EXCEPT !.todo = @ \ {p}])
    /\ UNCHANGED <<captureMode, bill, rows, handedOut>>

SweepWrite(r) ==
    /\ r.op = "sweep"
    /\ r.todo = {}
    /\ IF Awaiting
       THEN /\ bill' = [bill EXCEPT !.status = "PAYMENT_EXPIRED", !.escrow = FALSE]
            /\ rows' = [k \in RowIds |-> IF k \in RowsIn({"PENDING_AUTH"})
                                         THEN [rows[k] EXCEPT !.status = "CANCELLED"] ELSE rows[k]]
            /\ Caused(CauseIf("CROSSED", ~ToCancel({"PENDING_AUTH"}) \subseteq r.seen)
                      \cup CauseIf("DECLINED_OPEN",
                                   \E k \in RowsIn({"FAILED"}) : intents[rows[k].ref] # "CANCELED"))
       ELSE UNCHANGED <<bill, rows, causes>>
    /\ Leave(r)
    /\ UNCHANGED <<captureMode, intents, handedOut, posts>>

-----------------------------------------------------------------------------
\* A request ends between two steps: the server stops, or a call throws.  The gateway
\* posts again what was not acknowledged.
Die(r) ==
    /\ Leave(r)
    /\ Caused(CauseIf("CANCEL_DIED", r.op = "cancel") \cup CauseIf("CONFIRM_DIED", r.at = "confirmed"))
    /\ UNCHANGED <<captureMode, bill, rows, intents, handedOut, posts>>

FlowInit ==
    /\ captureMode \in {"manual", "automatic"}
    /\ bill \in [status : {"AWAITING_PAYMENT"}, active : {NoRow}, overdue : {FALSE}, escrow : {TRUE},
                 mock : BOOLEAN]
    /\ rows = <<>>
    /\ intents = <<>>
    /\ handedOut = {}
    /\ posts = {}
    /\ requests = {}
    /\ causes = {}

FlowStep ==
    \/ AskForIntent \/ AskToCancel \/ DeadlinePasses \/ SweepRead
    \/ \E i \in IntentIds : ConfirmIntent(i)
    \/ \E k \in RowIds : AskToConfirm(k)
    \/ \E e \in posts : ReceivePost(e)
    \/ \E r \in requests :
          \/ ReplaceIntent(r) \/ NewRow(r) \/ LinkRow(r)
          \/ ConfirmAtMock(r) \/ WriteConfirmed(r) \/ WriteDeclined(r)
          \/ HandlePost(r) \/ CancelWrite(r) \/ CancelDone(r) \/ SweepWrite(r) \/ Die(r)
          \/ \E p \in r.todo : CancelVoid(r, p) \/ SweepVoid(r, p)

FlowNext == (FLOW_ON \/ causes = {}) /\ FlowStep

FlowSpec == FlowInit /\ [][FlowNext]_flowVars

-----------------------------------------------------------------------------
(* Properties. *)

FlowCauses == {"CROSSED", "OLD_PAGE", "LATE_INTENT", "GATEWAY_ERROR", "LATE_CHARGE",
               "VOIDED_PAID", "DECLINED_OPEN", "DECLINED_PAID", "CANCEL_DIED", "CONFIRM_DIED"}

FlowTypeOK ==
    /\ captureMode \in {"manual", "automatic"}
    /\ bill \in [status : {"AWAITING_PAYMENT", "PAID", "PAYMENT_EXPIRED"}, active : 0..MAX_INTENTS,
                 overdue : BOOLEAN, escrow : BOOLEAN, mock : BOOLEAN]
    /\ rows \in Seq([status : RowStatuses, ref : IntentIds])
    /\ intents \in Seq({"OPEN", "HELD", "CHARGED", "CANCELED"})
    /\ handedOut \subseteq IntentIds
    /\ posts \subseteq [intent : IntentIds, kind : {"PAID", "FAILED", "CANCELED"}]
    /\ requests \subseteq FlowRequest
    /\ causes \subseteq FlowCauses

AtRest == posts = {} /\ requests = {}
NoneOf(what) == causes \cap what = {}

(* Money the gateway has taken is on a row that says so, however often the    *)
(* checkout was refreshed, declined, cancelled or swept, as long as the buyer  *)
(* pays on the newest page, the gateway answers, no two requests write over     *)
(* each other and none dies between the mock's answer and the rows              *)
(* (createIntent: "idempotent - buyer refresh", handleGatewayEvent: "MUST be    *)
(* idempotent").  A paid order that is flagged as held in escrow has such money  *)
(* (cancelHold), unless the sweep voided it, a cancellation died before it        *)
(* cleared the flag, or the buyer confirmed it again with a card that is declined. *)
MoneyOnRecord ==
    AtRest /\ NoneOf({"CROSSED", "OLD_PAGE", "GATEWAY_ERROR", "CONFIRM_DIED"}) =>
        /\ \A i \in Paid : \E k \in RowsIn({"AUTHORIZED", "CAPTURED"}) : rows[k].ref = i
        /\ bill.status = "PAID" /\ bill.escrow
           /\ NoneOf({"VOIDED_PAID", "CANCEL_DIED", "DECLINED_PAID"}) =>
              \E k \in RowsIn({"AUTHORIZED", "CAPTURED"}) : rows[k].ref \in Paid

(* An expired order has no money at the gateway (sweepPaymentExpired: "void   *)
(* every open intent at the gateway FIRST").  It may after a declined card,    *)
(* whose intent is not voided, or when a request dies between the mock's        *)
(* confirmation and the order.                                                *)
ExpiredKeepsNoMoney ==
    AtRest /\ bill.status = "PAYMENT_EXPIRED"
           /\ NoneOf({"CROSSED", "OLD_PAGE", "GATEWAY_ERROR", "LATE_INTENT", "LATE_CHARGE",
                      "DECLINED_OPEN", "CONFIRM_DIED"}) =>
        Paid = {}
=============================================================================
