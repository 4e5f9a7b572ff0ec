----------------------------- MODULE OrderDeal ------------------------------
(***************************************************************************)
(* An order implements a deal: the eighteen statuses of the row and the    *)
(* status of its listing, seen from outside, follow module Deal as long as *)
(* handlers and sweeps do not overlap, whichever of their steps fail.      *)
(***************************************************************************)
EXTENDS OrderFlow

DealOf(status) ==
    CASE status = "COMPLETED" -> "sold"
      [] status = "REFUNDED" -> "returned"
      [] status = "DISPUTED" -> "frozen"
      [] status = "PAYMENT_EXPIRED" -> "lapsed"
      [] OTHER -> "open"

D == INSTANCE Deal WITH deal <- DealOf(order.status), item <- listing, mock <- plan.mock

\* Every handler, sweep, webhook and back-office call moves the order the way
\* a deal may move, or not at all: with a real gateway it ends once, with the
\* mock an end lasts until the order is paid again.
ImplementsDeal == D!Spec
=============================================================================
