------------------------------ MODULE Payouts -------------------------------
(***************************************************************************)
(* The way of a payout after it was requested (scheduleMockTransitions and  *)
(* onModuleInit of wallet.service.ts, setPayoutStatus of                    *)
(* admin.controller.ts).  Two timers of the API process move it: one to     *)
(* PROCESSING after 3 seconds, one to its end after 8.  Both are lost when  *)
(* the process goes down, and made anew from the rows when it comes up.     *)
(* A member of the back office may move it too.                             *)
(*                                                                         *)
(* The history variable mishap names the first event after which a payout   *)
(* may stay unsettled or be settled twice; no action depends on it.         *)
(***************************************************************************)
EXTENDS Naturals

CONSTANTS
    PayoutIds,      \* payouts that may be requested
    MAX_CRASHES,    \* bound: how often the process goes down
    Nothing         \* no payout

ASSUME PayoutsAssumption ==
    /\ MAX_CRASHES \in Nat
    /\ Nothing \notin PayoutIds

VARIABLES
    payout,     \* row of every PayoutRequest: its status
    age,        \* FRESH, 3 seconds old or 8 seconds old
    timers,     \* what the process will do for a payout
    office,     \* what the back office has checked and is about to write
    up,         \* whether the API process runs
    crashes,
    mishap      \* history

payoutVars == <<payout, age, timers, office, up, crashes, mishap>>

PayoutStates == {"NONE", "PENDING", "PROCESSING", "SUCCEEDED", "FAILED", "REVERSED"}
Ages == {"FRESH", "THREE", "EIGHT"}

\* "schedule" is left to do by createRequest, "settle" by a timer that has read the row.
Duties == {"schedule", "toProcessing", "toFinal", "settle"}
BothTimers == {"toProcessing", "toFinal"}

Mishaps == {"NONE", "STALE_WRITE", "GAVE_UP", "WRITE_FAILED"}
NoteMishap(what) == mishap' = IF mishap = "NONE" THEN what ELSE mishap

Underway(p) == payout[p] \in {"PENDING", "PROCESSING"}
Settled(p) == payout[p] \in {"SUCCEEDED", "FAILED", "REVERSED"}

\* setPayoutStatus: where a payout may go from a status.
Allowed(st) == CASE st = "PENDING" -> {"PROCESSING", "FAILED"}
                 [] st = "PROCESSING" -> {"SUCCEEDED", "FAILED", "REVERSED"}
                 [] OTHER -> {}

DueFor(p, duty) == up /\ duty \in timers[p]
Discharged(p, duty) == timers' = [timers EXCEPT ![p] = @ \ {duty}]
MoveTo(p, st) == payout' = [payout EXCEPT ![p] = st]

-----------------------------------------------------------------------------
(* createRequest: the row is committed, then the timers are set. *)

RequestPayout(p) ==
    /\ up
    /\ payout[p] = "NONE"
    /\ MoveTo(p, "PENDING")
    /\ timers' = [timers EXCEPT ![p] = {"schedule"}]
    /\ UNCHANGED <<age, office, up, crashes, mishap>>

ScheduleTransitions(p) ==
    /\ DueFor(p, "schedule")
    /\ timers' = [timers EXCEPT ![p] = BothTimers]
    /\ UNCHANGED <<payout, age, office, up, crashes, mishap>>

(* The timers. *)

\* Variant: the first timer does not look at the row.
TimerToProcessingBlind(p) ==
    /\ DueFor(p, "toProcessing")
    /\ age[p] # "FRESH"
    /\ MoveTo(p, "PROCESSING")
    /\ Discharged(p, "toProcessing")
    /\ UNCHANGED <<age, office, up, crashes, mishap>>

TimerToProcessing(p) ==
    /\ DueFor(p, "toProcessing")
    /\ age[p] # "FRESH"
    /\ IF payout[p] = "PENDING" THEN MoveTo(p, "PROCESSING") ELSE UNCHANGED payout
    /\ Discharged(p, "toProcessing")
    /\ UNCHANGED <<age, office, up, crashes, mishap>>

\* The final timer reads the row and gives up on a payout that is not PROCESSING.
TimerToFinal(p) ==
    /\ DueFor(p, "toFinal")
    /\ age[p] = "EIGHT"
    /\ IF payout[p] = "PROCESSING"
       THEN /\ timers' = [timers EXCEPT ![p] = (@ \ {"toFinal"}) \cup {"settle"}]
            /\ UNCHANGED mishap
       ELSE /\ Discharged(p, "toFinal")
            /\ IF payout[p] = "PENDING" THEN NoteMishap("GAVE_UP") ELSE UNCHANGED mishap
    /\ UNCHANGED <<payout, age, office, up, crashes>>

SettlePayout(p) ==
    /\ DueFor(p, "settle")
    /\ \E st \in {"SUCCEEDED", "FAILED"} : MoveTo(p, st)
    /\ Discharged(p, "settle")
    /\ IF payout[p] # "PROCESSING" THEN NoteMishap("STALE_WRITE") ELSE UNCHANGED mishap
    /\ UNCHANGED <<age, office, up, crashes>>

\* A failed write is logged and not tried again.
TimerFails(p) ==
    /\ \E duty \in {"toProcessing", "settle"} : DueFor(p, duty) /\ Discharged(p, duty)
    /\ age[p] # "FRESH"
    /\ NoteMishap("WRITE_FAILED")
    /\ UNCHANGED <<payout, age, office, up, crashes>>

-----------------------------------------------------------------------------
(* setPayoutStatus: reads, checks, and writes unconditionally. *)

NoDecision == [id |-> Nothing, to |-> "NONE"]

SetPayoutStatus ==
    \/ /\ up
       /\ office = NoDecision
       /\ \E p \in PayoutIds : \E st \in Allowed(payout[p]) : office' = [id |-> p, to |-> st]
       /\ UNCHANGED <<payout, age, timers, up, crashes, mishap>>
    \/ /\ office # NoDecision
       /\ MoveTo(office.id, office.to)
       /\ IF office.to \in Allowed(payout[office.id])
          THEN UNCHANGED mishap
          ELSE NoteMishap("STALE_WRITE")
       /\ office' = NoDecision
       /\ UNCHANGED <<age, timers, up, crashes>>

-----------------------------------------------------------------------------
(* Time, and the process. *)

\* While the process runs, what is due at 3 seconds is written before 8 have passed.
Older(p) ==
    /\ payout[p] # "NONE"
    /\ \/ age[p] = "FRESH" /\ (up => "schedule" \notin timers[p])
       \/ age[p] = "THREE" /\ (up => "toProcessing" \notin timers[p])
    /\ age' = [age EXCEPT ![p] = IF @ = "FRESH" THEN "THREE" ELSE "EIGHT"]
    /\ UNCHANGED <<payout, timers, office, up, crashes, mishap>>

Crash ==
    /\ up
    /\ crashes < MAX_CRASHES
    /\ up' = FALSE
    /\ crashes' = crashes + 1
    /\ timers' = [p \in PayoutIds |-> {}]
    /\ office' = NoDecision
    /\ UNCHANGED <<payout, age, mishap>>

\* Variant: only payouts that reached PROCESSING are taken up again.
RehydrateProcessing ==
    /\ ~up
    /\ up' = TRUE
    /\ timers' = [p \in PayoutIds |-> IF payout[p] = "PROCESSING" THEN BothTimers ELSE {}]
    /\ UNCHANGED <<payout, age, office, crashes, mishap>>

\* onModuleInit
Rehydrate ==
    /\ ~up
    /\ up' = TRUE
    /\ timers' = [p \in PayoutIds |-> IF Underway(p) THEN BothTimers ELSE {}]
    /\ UNCHANGED <<payout, age, office, crashes, mishap>>

PayoutsInit ==
    /\ payout = [p \in PayoutIds |-> "NONE"]
    /\ age = [p \in PayoutIds |-> "FRESH"]
    /\ timers = [p \in PayoutIds |-> {}]
    /\ office = NoDecision
    /\ up = TRUE
    /\ crashes = 0
    /\ mishap = "NONE"

TimerStep(p) == ScheduleTransitions(p) \/ TimerToProcessing(p) \/ TimerToFinal(p) \/ SettlePayout(p)

PayoutsNext ==
    \/ \E p \in PayoutIds : RequestPayout(p) \/ TimerStep(p) \/ TimerFails(p) \/ Older(p)
    \/ SetPayoutStatus
    \/ Crash
    \/ Rehydrate

\* The event loop runs due timers, time goes on, and the process is started again.
PayoutsFairness ==
    /\ \A p \in PayoutIds : /\ WF_payoutVars(TimerStep(p))
                            /\ WF_payoutVars(Older(p))
    /\ WF_payoutVars(Rehydrate)

PayoutsSpec == PayoutsInit /\ [][PayoutsNext]_payoutVars /\ PayoutsFairness

-----------------------------------------------------------------------------
(* Properties. *)

PayoutsTypeOK ==
    /\ payout \in [PayoutIds -> PayoutStates]
    /\ age \in [PayoutIds -> Ages]
    /\ timers \in [PayoutIds -> SUBSET Duties]
    /\ office \in [id : PayoutIds \cup {Nothing}, to : PayoutStates]
    /\ up \in BOOLEAN
    /\ crashes \in 0..MAX_CRASHES
    /\ mishap \in Mishaps

(* Timers, back office and restarts together move a payout only along the  *)
(* life Wallet gives it, unless a write outlived its check: what is settled *)
(* stays settled (setPayoutStatus, the final timer).                        *)
PayoutLife ==
    [][ mishap' = "NONE" => \A p \in PayoutIds :
          \/ payout'[p] \in {payout[p]} \cup Allowed(payout[p])
          \/ payout[p] = "NONE" /\ payout'[p] = "PENDING" ]_payoutVars

(* Every requested payout is settled, across restarts, unless a write failed *)
(* or outlived its check, or both timers were due at once and the final one  *)
(* looked first.                                                             *)
EveryPayoutSettles ==
    \A p \in PayoutIds : payout[p] = "PENDING" ~> Settled(p) \/ mishap # "NONE"
=============================================================================
