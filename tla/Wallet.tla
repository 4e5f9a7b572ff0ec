------------------------------- MODULE Wallet -------------------------------
(***************************************************************************)
(* One user's wallet (wallet.service.ts) and the one-time codes that guard  *)
(* it (auth.service.ts).  Drawing money and adding an account both take two *)
(* requests: the first freezes what is asked in an intent and mails a code, *)
(* the second brings the code, uses up code and intent, and only then acts. *)
(*                                                                         *)
(* A confirmation awaits between its steps, so its progress is kept in      *)
(* busy[s].at and other requests run in between.  A step that writes what   *)
(* an earlier read allowed, when the read would no longer allow it, sets    *)
(* the history variable stale; no action depends on it.                     *)
(*                                                                         *)
(* What becomes of a payout after it was requested is Payouts; here it      *)
(* follows the same life in single steps.                                   *)
(***************************************************************************)
EXTENDS Integers, FiniteSets

CONSTANTS
    Intents,        \* intents that may be made; a payout bears its intent's name
    Methods,        \* payout methods that may be added
    Slots,          \* requests that may be in flight together
    MAX_CODES,      \* bound: one-time codes that may be sent
    Amounts,        \* amounts between PAYOUT_MIN_HKD and PAYOUT_MAX_HKD
    MAX_EARNED,     \* bound: what the user's orders may come to
    CODE_LIMIT,     \* OTP_EMAIL_RATE_LIMIT.count (3 in the code)
    MAX_ATTEMPTS,   \* OTP_MAX_ATTEMPTS (5 in the code)
    GO_ON,          \* bound: whether behaviours continue after the first stale write
    NONE

ASSUME WalletAssumption ==
    /\ IsFiniteSet(Intents)
    /\ Amounts \subseteq Nat \ {0}
    /\ {MAX_EARNED, MAX_CODES, CODE_LIMIT, MAX_ATTEMPTS} \subseteq Nat
    /\ GO_ON \in BOOLEAN
    /\ NONE \notin Intents \cup Methods

VARIABLES
    earned,     \* sum of completed orders past their 72 hours
    methods,    \* rows of PayoutMethod
    intents,    \* rows of PayoutIntent
    codes,      \* rows of EmailOtpRequest with purpose PAYOUT_CONFIRM
    payouts,    \* status of the PayoutRequest an intent led to
    busy,       \* requests in flight
    ran,        \* history: how often an intent's action was started
    stale       \* history: some write outlived the check that allowed it

rows == <<earned, methods, intents, codes, payouts>>
vars == <<rows, busy, ran, stale>>

-----------------------------------------------------------------------------
(* Rows. *)

\* Codes are named in the order they are sent.
Codes == 1..MAX_CODES

PayoutStatuses == {"NONE", "PENDING", "PROCESSING", "SUCCEEDED", "FAILED", "REVERSED"}
InFlight == {"PENDING", "PROCESSING"}

\* Variant: a payout may be called off.
OutcomesCancelled == {"SUCCEEDED", "FAILED", "CANCELLED"}

Outcomes == {"SUCCEEDED", "FAILED", "REVERSED"}

MethodRow == [state : {"ABSENT", "LIVE", "DELETED"}, isDefault : BOOLEAN]
NoMethod == [state |-> "ABSENT", isDefault |-> FALSE]

\* PAYOUT_REQUEST freezes a method and an amount, ADD_METHOD whether to make it default.
Payloads == [kind : {"PAYOUT_REQUEST"}, method : Methods, amount : Amounts, isDefault : {FALSE}]
            \cup [kind : {"ADD_METHOD"}, method : {NONE}, amount : {0}, isDefault : BOOLEAN]
NoPayload == [kind |-> "ABSENT", method |-> NONE, amount |-> 0, isDefault |-> FALSE]
IntentRow == [payload : Payloads \cup {NoPayload}, consumed : BOOLEAN, expired : BOOLEAN]
NoIntent == [payload |-> NoPayload, consumed |-> FALSE, expired |-> FALSE]

\* FRESH codes are valid (5 minutes); EXPIRED ones still count against the limit
\* (10 minutes); OLD ones do neither.  uses is a history of how often it was spent.
CodeRow == [age : {"ABSENT", "FRESH", "EXPIRED", "OLD"}, left : Int, used : BOOLEAN, uses : Nat]
NoCode == [age |-> "ABSENT", left |-> MAX_ATTEMPTS, used |-> FALSE, uses |-> 0]

Steps == {"idle", "sendCode", "wrongCode", "useCode", "claim", "check", "create",
          "count", "add", "setDefault", "delete"}
Request == [at : Steps, intent : Intents \cup {NONE}, code : Codes \cup {NONE},
            method : Methods \cup {NONE}, seen : SUBSET Methods]
Idle == [at |-> "idle", intent |-> NONE, code |-> NONE, method |-> NONE, seen |-> {}]

Live == { m \in Methods : methods[m].state = "LIVE" }
AmountOf(i) == intents[i].payload.amount
MethodOf(i) == intents[i].payload.method
Made(i) == intents[i].payload # NoPayload

\* The sum of f[x] over S: its units, counted.
Units(f, S) == UNION { {x} \X (1..f[x]) : x \in S }
SumOf(f, S) == Cardinality(Units(f, S))

\* PENDING, PROCESSING and SUCCEEDED payouts are subtracted from what was earned.
Drawn == { i \in Intents : payouts[i] \in InFlight \cup {"SUCCEEDED"} }
Outstanding == SumOf([i \in Intents |-> AmountOf(i)], Drawn)

\* Variant: what was drawn before is forgotten.
AffordableOnce(i) == AmountOf(i) <= earned

Affordable(i) == AmountOf(i) <= earned - Outstanding

\* The code a confirmation is compared with: the latest that is neither used nor expired.
Usable == { c \in Codes : codes[c].age = "FRESH" /\ ~codes[c].used }
IsLatest(c) == c \in Usable /\ \A d \in Usable : d <= c

\* Codes that count against the limit of the last ten minutes.
Recent == { c \in Codes : codes[c].age \in {"FRESH", "EXPIRED"} }

\* Variant: the limit is off by one.
UnderLimitOrAt == Cardinality(Recent) <= CODE_LIMIT

UnderLimit == Cardinality(Recent) < CODE_LIMIT

Unsent == { c \in Codes : codes[c].age = "ABSENT" }

-----------------------------------------------------------------------------
(* The course of a request. *)

At(s, step) == busy[s].at = step
Begin(s, request) == /\ At(s, "idle")
                     /\ busy' = [busy EXCEPT ![s] = request]
Goto(s, step) == busy' = [busy EXCEPT ![s].at = step]
End(s) == busy' = [busy EXCEPT ![s] = Idle]

\* fresh: what the request has read would still allow this write.
Checked(fresh) == stale' = (stale \/ ~fresh)

-----------------------------------------------------------------------------
(* initiatePayout, initiateAddMethod *)

Initiate(s, i, payload) ==
    /\ ~Made(i)
    /\ intents' = [intents EXCEPT ![i].payload = payload]
    \* sendEmailOtp counts what was sent; over the limit the intent stays without a code.
    /\ IF UnderLimit
       THEN Begin(s, [Idle EXCEPT !.at = "sendCode"])
       ELSE At(s, "idle") /\ UNCHANGED busy
    /\ UNCHANGED <<earned, methods, codes, payouts, ran, stale>>

InitiatePayout(s) ==
    \E i \in Intents, m \in Live, a \in Amounts :
        /\ a <= earned - Outstanding
        /\ Initiate(s, i, [kind |-> "PAYOUT_REQUEST", method |-> m, amount |-> a,
                           isDefault |-> FALSE])

InitiateAddMethod(s) ==
    \E i \in Intents, d \in BOOLEAN :
        Initiate(s, i, [kind |-> "ADD_METHOD", method |-> NONE, amount |-> 0, isDefault |-> d])

SendCode(s) ==
    /\ At(s, "sendCode")
    /\ \E c \in Unsent : /\ \A d \in Unsent : c <= d
                         /\ codes' = [codes EXCEPT ![c].age = "FRESH"]
    /\ Checked(UnderLimit)
    /\ End(s)
    /\ UNCHANGED <<earned, methods, intents, payouts, ran>>

-----------------------------------------------------------------------------
(* confirmPayout, confirmAddMethod *)

\* consumeIntent and consumeEmailOtp read the intent and the code; the code is right or wrong.
Confirm(s) ==
    /\ \E i \in Intents, c \in Codes :
          /\ Made(i)
          /\ ~intents[i].consumed
          /\ ~intents[i].expired
          /\ IsLatest(c)
          /\ codes[c].left > 0
          /\ \E step \in {"useCode", "wrongCode"} :
                Begin(s, [Idle EXCEPT !.at = step, !.intent = i, !.code = c])
    /\ UNCHANGED <<rows, ran, stale>>

\* A wrong code costs an attempt and nothing else.
WrongCode(s) ==
    /\ At(s, "wrongCode")
    /\ codes' = [codes EXCEPT ![busy[s].code].left = @ - 1]
    /\ Checked(codes[busy[s].code].left > 0)
    /\ End(s)
    /\ UNCHANGED <<earned, methods, intents, payouts, ran>>

\* Variant: the code stays valid.
UseCodeKept(s) ==
    /\ At(s, "useCode")
    /\ Goto(s, "claim")
    /\ UNCHANGED <<rows, ran, stale>>

UseCode(s) ==
    /\ At(s, "useCode")
    /\ LET c == busy[s].code
       IN /\ codes' = [codes EXCEPT ![c].used = TRUE, ![c].uses = @ + 1]
          /\ Checked(~codes[c].used)
    /\ Goto(s, "claim")
    /\ UNCHANGED <<earned, methods, intents, payouts, ran>>

\* The executor's first step.
FirstStep(i) == IF intents[i].payload.kind = "ADD_METHOD" THEN "count" ELSE "check"

\* Variant: the update is not conditional.
ClaimIntentAlways(s) ==
    /\ At(s, "claim")
    /\ LET i == busy[s].intent
       IN /\ intents' = [intents EXCEPT ![i].consumed = TRUE]
          /\ ran' = [ran EXCEPT ![i] = @ + 1]
          /\ Goto(s, FirstStep(i))
    /\ UNCHANGED <<earned, methods, codes, payouts, stale>>

\* The guarded update: only one of several confirmations of an intent goes on.
ClaimIntent(s) ==
    /\ At(s, "claim")
    /\ LET i == busy[s].intent
       IN IF intents[i].consumed
          THEN End(s) /\ UNCHANGED <<intents, ran>>
          ELSE /\ intents' = [intents EXCEPT ![i].consumed = TRUE]
               /\ ran' = [ran EXCEPT ![i] = @ + 1]
               /\ Goto(s, FirstStep(i))
    /\ UNCHANGED <<earned, methods, codes, payouts, stale>>

\* createRequest validates the method and reads the balance, or fails.
MayDraw(i) == MethodOf(i) \in Live /\ Affordable(i)
CheckRequest(s) ==
    /\ At(s, "check")
    /\ IF MayDraw(busy[s].intent) THEN Goto(s, "create") ELSE End(s)
    /\ UNCHANGED <<rows, ran, stale>>

CreateRequest(s) ==
    /\ At(s, "create")
    /\ payouts' = [payouts EXCEPT ![busy[s].intent] = "PENDING"]
    /\ Checked(MayDraw(busy[s].intent))
    /\ End(s)
    /\ UNCHANGED <<earned, methods, intents, codes, ran>>

-----------------------------------------------------------------------------
(* Payout methods. *)

\* createMethod's transaction sees the rows that were committed before it.
CountMethods(s) ==
    /\ At(s, "count")
    /\ busy' = [busy EXCEPT ![s].at = "add", ![s].seen = Live]
    /\ UNCHANGED <<rows, ran, stale>>

ClearDefault(seen) == [ m \in Methods |-> IF m \in seen THEN [methods[m] EXCEPT !.isDefault = FALSE]
                                          ELSE methods[m] ]

CreateMethod(s) ==
    /\ At(s, "add")
    /\ LET asked == intents[busy[s].intent].payload.isDefault
           seen == busy[s].seen
           others == IF asked THEN ClearDefault(seen) ELSE methods
       IN /\ \E m \in Methods :
                /\ methods[m].state = "ABSENT"
                /\ methods' = [others EXCEPT ![m] = [state |-> "LIVE",
                                                     isDefault |-> asked \/ seen = {}]]
          /\ Checked(seen = Live)
    /\ End(s)
    /\ UNCHANGED <<earned, intents, codes, payouts, ran>>

SetDefaultMethod(s) ==
    \/ /\ \E m \in Live : Begin(s, [Idle EXCEPT !.at = "setDefault", !.method = m])
       /\ UNCHANGED <<rows, ran, stale>>
    \/ /\ At(s, "setDefault")
       /\ methods' = [ClearDefault(Live) EXCEPT ![busy[s].method].isDefault = TRUE]
       /\ Checked(busy[s].method \in Live)
       /\ End(s)
       /\ UNCHANGED <<earned, intents, codes, payouts, ran>>

Awaited(m) == \E i \in Intents : payouts[i] \in InFlight /\ MethodOf(i) = m

\* Variant: the count of unfinished payouts is not looked at.
MayDeleteAlways(m) == m \in Live

MayDelete(m) == m \in Live /\ ~Awaited(m)

DeleteMethod(s) ==
    \/ /\ \E m \in Methods :
             MayDelete(m) /\ Begin(s, [Idle EXCEPT !.at = "delete", !.method = m])
       /\ UNCHANGED <<rows, ran, stale>>
    \/ /\ At(s, "delete")
       /\ methods' = [methods EXCEPT ![busy[s].method] = [state |-> "DELETED", isDefault |-> FALSE]]
       /\ Checked(MayDelete(busy[s].method))
       /\ End(s)
       /\ UNCHANGED <<earned, intents, codes, payouts, ran>>

-----------------------------------------------------------------------------
(* What happens around the requests. *)

\* An order is completed and its 72 hours pass.
Earn ==
    /\ earned < MAX_EARNED
    /\ earned' = earned + 1
    /\ UNCHANGED <<methods, intents, codes, payouts, busy, ran, stale>>

\* The life of a payout, which Payouts follows in detail.
MovePayout ==
    /\ \E i \in Intents :
          \/ /\ payouts[i] = "PENDING"
             /\ \E st \in {"PROCESSING", "FAILED"} : payouts' = [payouts EXCEPT ![i] = st]
          \/ /\ payouts[i] = "PROCESSING"
             /\ \E st \in Outcomes : payouts' = [payouts EXCEPT ![i] = st]
    /\ UNCHANGED <<earned, methods, intents, codes, busy, ran, stale>>

TimePasses ==
    /\ \/ \E i \in Intents : /\ Made(i)
                             /\ ~intents[i].expired
                             /\ intents' = [intents EXCEPT ![i].expired = TRUE]
                             /\ UNCHANGED codes
       \/ \E c \in Codes : /\ codes[c].age \in {"FRESH", "EXPIRED"}
                           /\ codes' = [codes EXCEPT ![c].age =
                                           IF @ = "FRESH" THEN "EXPIRED" ELSE "OLD"]
                           /\ UNCHANGED intents
    /\ UNCHANGED <<earned, methods, payouts, busy, ran, stale>>

\* A request dies between two of its steps.
Fail(s) ==
    /\ ~At(s, "idle")
    /\ End(s)
    /\ UNCHANGED <<rows, ran, stale>>

Init ==
    /\ earned = 0
    \* The user comes with no account, or with one from before.
    /\ methods \in { [m \in Methods |-> IF m \in old THEN [state |-> "LIVE", isDefault |-> TRUE]
                                                     ELSE NoMethod]
                      : old \in {{}} \cup { {m} : m \in Methods } }
    /\ intents = [i \in Intents |-> NoIntent]
    /\ codes = [c \in Codes |-> NoCode]
    /\ payouts = [i \in Intents |-> "NONE"]
    /\ busy = [s \in Slots |-> Idle]
    /\ ran = [i \in Intents |-> 0]
    /\ stale = FALSE

Step(s) ==
    \/ InitiatePayout(s) \/ InitiateAddMethod(s) \/ SendCode(s)
    \/ Confirm(s) \/ WrongCode(s) \/ UseCode(s) \/ ClaimIntent(s)
    \/ CheckRequest(s) \/ CreateRequest(s)
    \/ CountMethods(s) \/ CreateMethod(s) \/ SetDefaultMethod(s) \/ DeleteMethod(s)
    \/ Fail(s)

Next ==
    /\ GO_ON \/ ~stale
    /\ \/ \E s \in Slots : Step(s)
       \/ Earn
       \/ MovePayout
       \/ TimePasses

Spec == Init /\ [][Next]_vars

-----------------------------------------------------------------------------
(* Properties. *)

\* Every row has a shape the schema allows.
TypeOK ==
    /\ earned \in 0..MAX_EARNED
    /\ methods \in [Methods -> MethodRow]
    /\ intents \in [Intents -> IntentRow]
    /\ codes \in [Codes -> CodeRow]
    /\ payouts \in [Intents -> PayoutStatuses]
    /\ busy \in [Slots -> Request]
    /\ ran \in [Intents -> Nat]
    /\ stale \in BOOLEAN

(* However confirmations interleave, an intent is acted on at most once    *)
(* (the guarded update of consumeIntent).                                  *)
IntentRunsOnce == \A i \in Intents : ran[i] <= 1

(* Every action that was started used up a code, even when requests of the *)
(* two interleave or die: codes are spent before intents are.              *)
RunsBackedByCodes ==
    SumOf(ran, Intents) <= SumOf([c \in Codes |-> codes[c].uses], Codes)

(* Unless a write outlived its check, a code is spent once, its attempts   *)
(* are never overdrawn, and no more codes are sent than the limit allows.  *)
CodesAreBounded ==
    ~stale => /\ \A c \in Codes : codes[c].uses <= 1 /\ codes[c].left >= 0
              /\ Cardinality(Recent) <= CODE_LIMIT

(* Unless a write outlived its check, no more is paid out, or promised,    *)
(* than was earned (createRequest, getBalance).                            *)
NeverOverdrawn == ~stale => Outstanding <= earned

(* Unless a write outlived its check, at most one account is the default and *)
(* never a deleted one (createMethod, setDefaultMethod), and a payout that    *)
(* has yet to arrive has an account to arrive at (deleteMethod).              *)
AccountsInOrder ==
    ~stale => /\ \A m, n \in Methods : methods[m].isDefault /\ methods[n].isDefault
                                           => m = n /\ m \in Live
              /\ \A i \in Intents : payouts[i] \in InFlight => MethodOf(i) \in Live
=============================================================================
