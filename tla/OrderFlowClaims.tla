--------------------------- MODULE OrderFlowClaims ---------------------------
(***************************************************************************)
(* What comments of the code and of the schema say of an order, stated     *)
(* over OrderFlow.  The code does not keep these promises; each is checked *)
(* by a run of its own that shows how.                                     *)
(***************************************************************************)
EXTENDS MCOrderFlow

\* "auto-complete can never race a fresh dispute" (orders.service.ts:1174): an
\* order the sweep completed is not turned into a disputed one.
AutoCompleteNeverRacesDispute ==
    [][order.status = "COMPLETED" => order'.status # "DISPUTED"]_vars

\* cashoutEligibleAt is "set in same tx as completedAt ... when entering
\* COMPLETED" (schema.prisma:664-666): a completed order can be cashed out.
CompletedCanCashOut == order.completedAt => order.cashoutEligible

\* "FAILED or INCONCLUSIVE: refund buyer immediately" (orders.service.ts:893):
\* a buyer who was charged, as the Payment row records, has the money back when
\* the verdict makes the order REFUNDED, a status no later operation of the back office accepts.
FailedVerdictReturnsMoney ==
    [][order.status = "CUSTODY" /\ order'.status = "REFUNDED" /\ payment = "CAPTURED"
         /\ order'.verdict \in {"FAILED", "INCONCLUSIVE"} => intent' # "CHARGED"]_vars

\* "Void every open intent at the gateway FIRST (no confirming after expiry)"
\* (orders.service.ts:1304): after a declined card and the expiry of the order,
\* the buyer's next card is refused.
ExpiredCannotBePaid ==
    [][order.status = "PAYMENT_EXPIRED" /\ payment = "FAILED" /\ intent = "OPEN" =>
         intent' \notin {"HELD", "CHARGED"}]_vars

\* "frozen state, external legal resolution" (orders.service.ts:995):
\* a disputed order is not put back to work.
DisputedIsFrozen == [][order.status = "DISPUTED" => order'.status # "PAID"]_vars
=============================================================================
