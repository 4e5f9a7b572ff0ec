----------------------------- MODULE MCServices -----------------------------
(***************************************************************************)
(* Model checking of the services that share no rows with each other: the   *)
(* offers of a conversation, the price of a listing, the payment of an order *)
(* at the gateway, the settling of payouts, the conversations of an order,   *)
(* and the platform's staff.  A behaviour works one of them while the others *)
(* rest; letting them run at once would only multiply their states.          *)
(***************************************************************************)
EXTENDS Negotiation, PriceDrop, PaymentFlow, Payouts, LiveChat, Staff

VARIABLE focus      \* the service at work

CONSTANT p1         \* the payout

Init ==
    /\ focus \in {"offers", "prices", "payments", "payouts", "chat", "staff"}
    /\ TalkInit /\ PriceInit /\ FlowInit /\ PayoutsInit /\ ChatInit /\ StaffInit
    /\ focus = "prices" \/ offer.price = 1
    /\ focus = "payments" \/ (captureMode = "manual" /\ bill.mock)
    /\ focus = "staff" \/ roles = [u \in Users |-> {"SUPER_ADMIN"}]

Next ==
    /\ UNCHANGED focus
    /\ \/ focus = "offers" /\ TalkNext
          /\ UNCHANGED <<priceVars, flowVars, payoutVars, chatVars, staffVars>>
       \/ focus = "prices" /\ PriceNext
          /\ UNCHANGED <<talkVars, flowVars, payoutVars, chatVars, staffVars>>
       \/ focus = "payments" /\ FlowNext
          /\ UNCHANGED <<talkVars, priceVars, payoutVars, chatVars, staffVars>>
       \/ focus = "payouts" /\ PayoutsNext
          /\ UNCHANGED <<talkVars, priceVars, flowVars, chatVars, staffVars>>
       \/ focus = "chat" /\ ChatNext
          /\ UNCHANGED <<talkVars, priceVars, flowVars, payoutVars, staffVars>>
       \/ focus = "staff" /\ StaffNext
          /\ UNCHANGED <<talkVars, priceVars, flowVars, payoutVars, chatVars>>

vars == <<focus, talkVars, priceVars, flowVars, payoutVars, chatVars, staffVars>>

Spec == Init /\ [][Next]_vars /\ PayoutsFairness

(* Every service's state is well typed.                                    *)
TypeOK ==
    /\ TalkTypeOK /\ PriceTypeOK /\ FlowTypeOK
    /\ PayoutsTypeOK /\ ChatTypeOK /\ StaffTypeOK
=============================================================================
