---------------------------- MODULE MCOrderFlow ----------------------------
(* Model-checking instances of OrderFlow.                                  *)
EXTENDS OrderDeal, OrderRules, TLC

CONSTANTS r1, r2

\* Orders of every kind.  A tier 3 order differs from tier 2 in that it must have an
\* authenticator, so tiers 1 and 2 show every behaviour.
SweepPlans == { p \in LegalPlans : p.tier \in {1, 2} }

\* Where what is held or charged makes no difference, one tier is enough.
SerialPlans == { p \in LegalPlans : p.tier = 2 }

\* Orders at a server with a real gateway.
StripePlans == { p \in SweepPlans : ~p.mock }

\* Orders at a server with the mock gateway.
MockPlans == { p \in SerialPlans : p.mock }

\* Each clock of the four with the flow that stops it: a parcel paid online, with
\* either gateway, and a handover paid in cash.
DeadlinePlans ==
    { p \in SerialPlans : \/ p.method = "SHIP" /\ p.auth
                          \/ p.method = "MEETUP_AUTH" /\ p.pay = "OFFLINE_CASH" }

\* Requests are interchangeable.
Symmetry == Permutations(Requests)
=============================================================================
