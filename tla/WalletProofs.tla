---------------------------- MODULE WalletProofs -----------------------------
(***************************************************************************)
(* Proofs about Wallet, for any intents, accounts, amounts, limits and      *)
(* number of requests in flight, and about Payouts, for any number of       *)
(* payouts and restarts.                                                    *)
(***************************************************************************)
EXTENDS Wallet, Payouts, FiniteSetTheorems, TLAPS

-----------------------------------------------------------------------------
(* Type correctness. *)

\* What a request at a step works on.
Fits(s) ==
    /\ busy[s].at \in {"wrongCode", "useCode"} => busy[s].intent \in Intents /\ busy[s].code \in Codes
    /\ busy[s].at \in {"claim", "check", "create", "count", "add"} => busy[s].intent \in Intents
    /\ busy[s].at \in {"setDefault", "delete"} => busy[s].method \in Methods
RequestsFit == \A s \in Slots : Fits(s)

Typed == TypeOK /\ RequestsFit

\* A request that ends or goes on, while the others stay where they are.
LEMMA EndType ==
  ASSUME Typed, NEW s \in Slots, End(s)
  PROVE  busy' \in [Slots -> Request] /\ RequestsFit'
<1>1. Idle \in Request
  BY DEF Idle, Request, Steps
<1> QED
  BY <1>1 DEF Typed, TypeOK, RequestsFit, Fits, End, Idle

LEMMA GotoType ==
  ASSUME Typed, NEW s \in Slots, NEW step \in {"claim", "check", "create", "count"}, Goto(s, step),
         busy[s].intent \in Intents
  PROVE  busy' \in [Slots -> Request] /\ RequestsFit'
<1>1. [busy[s] EXCEPT !.at = step] \in Request
  BY DEF Typed, TypeOK, Request, Steps
<1>2. busy' = [busy EXCEPT ![s] = [busy[s] EXCEPT !.at = step]]
  BY DEF Goto
<1>3. busy[s] \in Request
  BY DEF Typed, TypeOK
<1>4. busy'[s] = [busy[s] EXCEPT !.at = step] /\ \A t \in Slots \ {s} : busy'[t] = busy[t]
  BY <1>2 DEF Typed, TypeOK
<1>5. busy'[s].at = step /\ busy'[s].intent = busy[s].intent
  BY <1>3, <1>4 DEF Request
<1>6. ASSUME NEW t \in Slots PROVE Fits(t)'
  <2>1. CASE t = s
    BY <1>5, <2>1 DEF Fits
  <2>2. CASE t # s
    BY <1>4, <2>2 DEF Typed, RequestsFit, Fits
  <2> QED
    BY <2>1, <2>2
<1> QED
  BY <1>1, <1>2, <1>6 DEF Typed, TypeOK, RequestsFit

LEMMA BeginType ==
  ASSUME Typed, NEW s \in Slots, NEW r \in Request, Begin(s, r),
         r.at \in {"wrongCode", "useCode"} => r.intent \in Intents /\ r.code \in Codes,
         r.at \in {"claim", "check", "create", "count", "add"} => r.intent \in Intents,
         r.at \in {"setDefault", "delete"} => r.method \in Methods
  PROVE  busy' \in [Slots -> Request] /\ RequestsFit'
  BY DEF Typed, TypeOK, RequestsFit, Fits, Begin

\* The rows that are written.
LEMMA CodeTypes ==
  ASSUME NEW row \in CodeRow
  PROVE  /\ \A a \in {"FRESH", "EXPIRED", "OLD"} : [row EXCEPT !.age = a] \in CodeRow
         /\ [row EXCEPT !.left = row.left - 1] \in CodeRow
         /\ [row EXCEPT !.used = TRUE, !.uses = row.uses + 1] \in CodeRow
<1>1. row.left - 1 \in Int /\ row.uses + 1 \in Nat
  BY DEF CodeRow
<1> QED
  BY <1>1 DEF CodeRow

LEMMA IntentTypes ==
  ASSUME NEW row \in IntentRow
  PROVE  /\ \A p \in Payloads : [row EXCEPT !.payload = p] \in IntentRow
         /\ [row EXCEPT !.consumed = TRUE] \in IntentRow
         /\ [row EXCEPT !.expired = TRUE] \in IntentRow
  BY DEF IntentRow

LEMMA MethodTypes ==
    /\ \A row \in MethodRow, b \in BOOLEAN : [row EXCEPT !.isDefault = b] \in MethodRow
    /\ \A st \in {"LIVE", "DELETED"}, b \in BOOLEAN : [state |-> st, isDefault |-> b] \in MethodRow
    /\ NoMethod \in MethodRow
  BY DEF MethodRow, NoMethod

LEMMA InitiateType ==
  ASSUME Typed, NEW s \in Slots, NEW i \in Intents, NEW payload \in Payloads, Initiate(s, i, payload)
  PROVE  Typed'
<1>1. intents' \in [Intents -> IntentRow]
  <2>1. [intents[i] EXCEPT !.payload = payload] \in IntentRow
    BY IntentTypes DEF Typed, TypeOK
  <2> QED
    BY <2>1 DEF Initiate, Typed, TypeOK
<1>2. busy' \in [Slots -> Request] /\ RequestsFit'
  <2>1. CASE UnderLimit
    <3>1. [Idle EXCEPT !.at = "sendCode"] \in Request
      BY DEF Idle, Request, Steps
    <3> QED
      BY <2>1, <3>1, BeginType DEF Initiate, Idle
  <2>2. CASE ~UnderLimit
    BY <2>2 DEF Initiate, Typed, TypeOK, RequestsFit, Fits
  <2> QED
    BY <2>1, <2>2
<1> QED
  BY <1>1, <1>2 DEF Initiate, Typed, TypeOK

LEMMA CheckedType ==
  ASSUME TypeOK, NEW fresh \in BOOLEAN, Checked(fresh) \/ UNCHANGED stale
  PROVE  stale' \in BOOLEAN
  BY DEF TypeOK, Checked

LEMMA CodeStepType ==
  ASSUME Typed, NEW s \in Slots,
         SendCode(s) \/ Confirm(s) \/ WrongCode(s) \/ UseCode(s)
  PROVE  Typed'
<1>1. CASE SendCode(s)
  <2>0. PICK c \in Codes : codes' = [codes EXCEPT ![c].age = "FRESH"]
    BY <1>1 DEF SendCode, Unsent
  <2>1. codes' \in [Codes -> CodeRow]
    <3>1. [codes[c] EXCEPT !.age = "FRESH"] \in CodeRow
      BY CodeTypes DEF Typed, TypeOK
    <3> QED
      BY <2>0, <3>1 DEF Typed, TypeOK
  <2>2. stale' \in BOOLEAN
    BY <1>1, CheckedType DEF SendCode, Checked, Typed, TypeOK, UnderLimit
  <2> QED
    BY <1>1, <2>1, <2>2, EndType DEF SendCode, Typed, TypeOK
<1>2. CASE Confirm(s)
  <2>1. PICK i \in Intents, c \in Codes, step \in {"useCode", "wrongCode"} :
           Begin(s, [Idle EXCEPT !.at = step, !.intent = i, !.code = c])
    BY <1>2 DEF Confirm
  <2>2. [Idle EXCEPT !.at = step, !.intent = i, !.code = c] \in Request
    BY DEF Idle, Request, Steps
  <2> QED
    BY <1>2, <2>1, <2>2, BeginType DEF Confirm, rows, Typed, TypeOK, Idle
<1>3. CASE WrongCode(s)
  <2>1. busy[s].code \in Codes
    BY <1>3 DEF WrongCode, At, Typed, RequestsFit, Fits
  <2>2. codes' \in [Codes -> CodeRow]
    BY <1>3, <2>1, CodeTypes DEF WrongCode, Typed, TypeOK
  <2>3. stale' \in BOOLEAN
    BY <1>3 DEF WrongCode, Checked, Typed, TypeOK
  <2> QED
    BY <1>3, <2>2, <2>3, EndType DEF WrongCode, Typed, TypeOK
<1>4. CASE UseCode(s)
  <2>1. busy[s].code \in Codes /\ busy[s].intent \in Intents
    BY <1>4 DEF UseCode, At, Typed, RequestsFit, Fits
  <2>2. codes' \in [Codes -> CodeRow]
    BY <1>4, <2>1, CodeTypes DEF UseCode, Typed, TypeOK
  <2>3. stale' \in BOOLEAN
    BY <1>4 DEF UseCode, Checked, Typed, TypeOK
  <2> QED
    BY <1>4, <2>1, <2>2, <2>3, GotoType DEF UseCode, Typed, TypeOK
<1> QED
  BY <1>1, <1>2, <1>3, <1>4

LEMMA ExecuteType ==
  ASSUME Typed, NEW s \in Slots,
         ClaimIntent(s) \/ CheckRequest(s) \/ CreateRequest(s) \/ CountMethods(s)
  PROVE  Typed'
<1>0. busy[s].intent \in Intents
  BY DEF ClaimIntent, CheckRequest, CreateRequest, CountMethods, At, Typed, RequestsFit, Fits
<1>1. CASE ClaimIntent(s)
  <2>1. CASE intents[busy[s].intent].consumed
    BY <1>1, <2>1, EndType DEF ClaimIntent, Typed, TypeOK
  <2>2. CASE ~intents[busy[s].intent].consumed
    <3>1. [intents[busy[s].intent] EXCEPT !.consumed = TRUE] \in IntentRow
      BY <1>0, IntentTypes DEF Typed, TypeOK
    <3>2. intents' \in [Intents -> IntentRow]
      BY <1>0, <1>1, <2>2, <3>1 DEF ClaimIntent, Typed, TypeOK
    <3>3. ran' \in [Intents -> Nat]
      BY <1>0, <1>1, <2>2 DEF ClaimIntent, Typed, TypeOK
    <3>4. busy' \in [Slots -> Request] /\ RequestsFit'
      BY <1>0, <1>1, <2>2, GotoType DEF ClaimIntent, FirstStep
    <3> QED
      BY <1>1, <2>2, <3>2, <3>3, <3>4 DEF ClaimIntent, Typed, TypeOK
  <2> QED
    BY <2>1, <2>2
<1>2. CASE CheckRequest(s)
  BY <1>0, <1>2, GotoType, EndType DEF CheckRequest, rows, Typed, TypeOK
<1>3. CASE CreateRequest(s)
  <2>1. payouts' \in [Intents -> PayoutStatuses]
    BY <1>0, <1>3 DEF CreateRequest, Typed, TypeOK, PayoutStatuses
  <2>2. stale' \in BOOLEAN
    BY <1>3 DEF CreateRequest, Checked, Typed, TypeOK
  <2> QED
    BY <1>3, <2>1, <2>2, EndType DEF CreateRequest, Typed, TypeOK
<1>4. CASE CountMethods(s)
  <2>1. busy' = [busy EXCEPT ![s] = [busy[s] EXCEPT !.at = "add", !.seen = Live]]
    BY <1>4 DEF CountMethods
  <2>2. busy[s] \in Request /\ Live \in SUBSET Methods
    BY DEF Typed, TypeOK, Live
  <2>3. [busy[s] EXCEPT !.at = "add", !.seen = Live] \in Request
    BY <2>2 DEF Request, Steps
  <2>4. busy'[s].at = "add" /\ busy'[s].intent = busy[s].intent
    BY <2>1, <2>2 DEF Typed, TypeOK, Request
  <2>5. \A t \in Slots \ {s} : busy'[t] = busy[t]
    BY <2>1 DEF Typed, TypeOK
  <2>6. RequestsFit'
    BY <1>0, <2>4, <2>5 DEF Typed, RequestsFit, Fits
  <2>7. busy' \in [Slots -> Request]
    BY <2>1, <2>3 DEF Typed, TypeOK
  <2> QED
    BY <1>4, <2>6, <2>7 DEF CountMethods, rows, Typed, TypeOK
<1> QED
  BY <1>1, <1>2, <1>3, <1>4

LEMMA ClearType ==
  ASSUME TypeOK, NEW seen
  PROVE  ClearDefault(seen) \in [Methods -> MethodRow]
  BY MethodTypes DEF ClearDefault, TypeOK

LEMMA MethodStepType ==
  ASSUME Typed, NEW s \in Slots,
         CreateMethod(s) \/ SetDefaultMethod(s) \/ DeleteMethod(s)
  PROVE  Typed'
<1>1. CASE CreateMethod(s)
  <2> DEFINE asked == intents[busy[s].intent].payload.isDefault
             seen == busy[s].seen
             others == IF asked THEN ClearDefault(seen) ELSE methods
  <2>1. others \in [Methods -> MethodRow]
    BY ClearType DEF Typed, TypeOK
  <2>2. PICK m \in Methods :
           methods' = [others EXCEPT ![m] = [state |-> "LIVE", isDefault |-> asked \/ seen = {}]]
    BY <1>1 DEF CreateMethod
  <2>3. [state |-> "LIVE", isDefault |-> asked \/ seen = {}] \in MethodRow
    <3>1. (asked \/ seen = {}) \in BOOLEAN
      OBVIOUS
    <3> HIDE DEF asked, seen
    <3> QED
      BY <3>1 DEF MethodRow
  <2> HIDE DEF asked, seen, others
  <2>4. methods' \in [Methods -> MethodRow]
    BY <2>1, <2>2, <2>3
  <2>5. stale' \in BOOLEAN
    BY <1>1 DEF CreateMethod, Checked, Typed, TypeOK
  <2> QED
    BY <1>1, <2>4, <2>5, EndType DEF CreateMethod, Typed, TypeOK
<1>2. CASE \E m \in Live, step \in {"setDefault", "delete"} :
             Begin(s, [Idle EXCEPT !.at = step, !.method = m]) /\ UNCHANGED <<rows, ran, stale>>
  <2>1. PICK m \in Methods, step \in {"setDefault", "delete"} :
           Begin(s, [Idle EXCEPT !.at = step, !.method = m]) /\ UNCHANGED <<rows, ran, stale>>
    BY <1>2 DEF Live
  <2>2. [Idle EXCEPT !.at = step, !.method = m] \in Request
    BY DEF Idle, Request, Steps
  <2> QED
    BY <2>1, <2>2, BeginType DEF rows, Typed, TypeOK, Idle
<1>3. CASE SetDefaultMethod(s) /\ At(s, "setDefault")
  <2>1. busy[s].method \in Methods
    BY <1>3 DEF At, Typed, RequestsFit, Fits
  <2>2. methods' = [ClearDefault(Live) EXCEPT ![busy[s].method].isDefault = TRUE] /\ End(s)
        /\ Checked(busy[s].method \in Live) /\ UNCHANGED <<earned, intents, codes, payouts, ran>>
    BY <1>3 DEF SetDefaultMethod, At, Begin
  <2>3. methods' \in [Methods -> MethodRow]
    BY <2>1, <2>2, ClearType, MethodTypes DEF Typed
  <2>4. stale' \in BOOLEAN
    BY <2>2 DEF Checked, Typed, TypeOK
  <2> QED
    BY <2>2, <2>3, <2>4, EndType DEF Typed, TypeOK
<1>4. CASE DeleteMethod(s) /\ At(s, "delete")
  <2>1. busy[s].method \in Methods
    BY <1>4 DEF At, Typed, RequestsFit, Fits
  <2>2. methods' = [methods EXCEPT ![busy[s].method] = [state |-> "DELETED", isDefault |-> FALSE]]
        /\ End(s) /\ Checked(MayDelete(busy[s].method)) /\ UNCHANGED <<earned, intents, codes, payouts, ran>>
    BY <1>4 DEF DeleteMethod, At, Begin
  <2>3. methods' \in [Methods -> MethodRow]
    BY <2>1, <2>2, MethodTypes DEF Typed, TypeOK
  <2>4. stale' \in BOOLEAN
    BY <2>2 DEF Checked, Typed, TypeOK
  <2> QED
    BY <2>2, <2>3, <2>4, EndType DEF Typed, TypeOK
<1> QED
  BY <1>1, <1>2, <1>3, <1>4 DEF SetDefaultMethod, DeleteMethod, MayDelete

LEMMA SurroundingsType ==
  ASSUME Typed, Earn \/ MovePayout \/ TimePasses \/ \E s \in Slots : Fail(s)
  PROVE  Typed'
<1>1. CASE Earn
  BY <1>1, WalletAssumption DEF Earn, Typed, TypeOK, RequestsFit, Fits
<1>2. CASE MovePayout
  <2>1. payouts' \in [Intents -> PayoutStatuses]
    BY <1>2 DEF MovePayout, Outcomes, Typed, TypeOK, PayoutStatuses
  <2> QED
    BY <1>2, <2>1 DEF MovePayout, Typed, TypeOK, RequestsFit, Fits
<1>3. CASE TimePasses
  <2>1. \A i \in Intents : [intents[i] EXCEPT !.expired = TRUE] \in IntentRow
    BY IntentTypes DEF Typed, TypeOK
  <2>2. \A c \in Codes : \A a \in {"EXPIRED", "OLD"} : [codes[c] EXCEPT !.age = a] \in CodeRow
    BY CodeTypes DEF Typed, TypeOK
  <2>3. intents' \in [Intents -> IntentRow] /\ codes' \in [Codes -> CodeRow]
    BY <1>3, <2>1, <2>2 DEF TimePasses, Typed, TypeOK
  <2> QED
    BY <1>3, <2>3 DEF TimePasses, Typed, TypeOK, RequestsFit, Fits
<1>4. ASSUME NEW s \in Slots, Fail(s) PROVE Typed'
  BY <1>4, EndType DEF Fail, rows, Typed, TypeOK
<1> QED
  BY <1>1, <1>2, <1>3, <1>4

LEMMA StepType == Typed /\ [Next]_vars => Typed'
<1> SUFFICES ASSUME Typed, [Next]_vars PROVE Typed'
  OBVIOUS
<1>1. CASE UNCHANGED vars
  BY <1>1 DEF vars, rows, Typed, TypeOK, RequestsFit, Fits
<1>2. ASSUME NEW s \in Slots, InitiatePayout(s) \/ InitiateAddMethod(s) PROVE Typed'
  <2>1. CASE InitiatePayout(s)
    BY <2>1, InitiateType DEF InitiatePayout, Payloads, Live
  <2>2. CASE InitiateAddMethod(s)
    BY <2>2, InitiateType DEF InitiateAddMethod, Payloads
  <2> QED
    BY <1>2, <2>1, <2>2
<1>3. CASE Next
  BY <1>2, <1>3, CodeStepType, ExecuteType, MethodStepType, SurroundingsType DEF Next, Step
<1> QED
  BY <1>1, <1>3

LEMMA InitType == Init => Typed
<1> SUFFICES ASSUME Init PROVE Typed
  OBVIOUS
<1>1. methods \in [Methods -> MethodRow]
  BY MethodTypes DEF Init
<1>2. NoIntent \in IntentRow
  BY DEF NoIntent, IntentRow
<1>3. NoCode \in CodeRow
  BY WalletAssumption DEF NoCode, CodeRow
<1>4. Idle \in Request
  BY DEF Idle, Request, Steps
<1>5. earned \in 0..MAX_EARNED
  BY WalletAssumption DEF Init
<1> QED
  BY <1>1, <1>2, <1>3, <1>4, <1>5 DEF Init, Typed, TypeOK, RequestsFit, Fits, Idle, PayoutStatuses

(* The wallet's types, and that a request in flight is at a step of its own    *)
(* operation, hold in every reachable state.                                  *)
THEOREM TypedAlways == Spec => []Typed
  BY InitType, StepType, PTL DEF Spec

(* Every reachable state of the wallet is well typed. *)
THEOREM TypeCorrect == Spec => []TypeOK
<1>1. Typed => TypeOK
  BY DEF Typed
<1> QED
  BY <1>1, TypedAlways, PTL

-----------------------------------------------------------------------------
(* An intent is acted on once. *)

RunIsConsumed == \A i \in Intents : ran[i] = 0 \/ (ran[i] = 1 /\ intents[i].consumed)

\* Steps that start no action and reopen no intent.
LEMMA NoRun ==
  ASSUME Typed, UNCHANGED ran,
         \A i \in Intents : intents[i].consumed => intents'[i].consumed,
         RunIsConsumed
  PROVE  RunIsConsumed'
  BY DEF RunIsConsumed

LEMMA RunsStep == Typed /\ RunIsConsumed /\ [Next]_vars => RunIsConsumed'
<1> SUFFICES ASSUME Typed, RunIsConsumed, [Next]_vars PROVE RunIsConsumed'
  OBVIOUS
<1>1. ASSUME NEW s \in Slots, ClaimIntent(s) PROVE RunIsConsumed'
  <2>1. busy[s].intent \in Intents
    BY <1>1 DEF ClaimIntent, At, Typed, RequestsFit, Fits
  <2>2. CASE intents[busy[s].intent].consumed
    BY <1>1, <2>2 DEF ClaimIntent, RunIsConsumed
  <2>3. CASE ~intents[busy[s].intent].consumed
    <3>1. ran[busy[s].intent] = 0
      BY <2>1, <2>3 DEF RunIsConsumed
    <3> QED
      BY <1>1, <2>1, <2>3, <3>1 DEF ClaimIntent, RunIsConsumed, Typed, TypeOK, IntentRow
  <2> QED
    BY <2>2, <2>3
<1>2. ASSUME NEW s \in Slots, Step(s), ~ClaimIntent(s)
      PROVE  UNCHANGED ran /\ \A i \in Intents : intents[i].consumed => intents'[i].consumed
  BY <1>2 DEF Step, InitiatePayout, InitiateAddMethod, Initiate, SendCode, Confirm, WrongCode, UseCode,
              CheckRequest, CreateRequest, CountMethods, CreateMethod, SetDefaultMethod, DeleteMethod,
              Fail, rows, Typed, TypeOK, IntentRow
<1>3. CASE Earn \/ MovePayout \/ TimePasses \/ UNCHANGED vars
  BY <1>3, NoRun DEF Earn, MovePayout, TimePasses, vars, rows, Typed, TypeOK, IntentRow
<1> QED
  BY <1>1, <1>2, <1>3, NoRun DEF Next

(* However confirmations interleave, an intent is acted on at most once      *)
(* (the guarded update of consumeIntent).                                    *)
THEOREM RunsOnce == Spec => []IntentRunsOnce
<1>1. Init => RunIsConsumed
  BY DEF Init, RunIsConsumed
<1>2. RunIsConsumed => IntentRunsOnce
  BY DEF RunIsConsumed, IntentRunsOnce
<1> QED
  BY <1>1, <1>2, RunsStep, TypedAlways, PTL DEF Spec

-----------------------------------------------------------------------------
(* Codes. *)

SpentOnce == \A c \in Codes : codes[c].left >= 0 /\ codes[c].uses = IF codes[c].used THEN 1 ELSE 0
CodesInBounds == ~stale => SpentOnce /\ Cardinality(Recent) <= CODE_LIMIT

LEMMA RecentFinite == IsFiniteSet(Recent) /\ Cardinality(Recent) \in Nat
<1>1. IsFiniteSet(Codes)
  BY WalletAssumption, FS_Interval DEF Codes
<1>2. Recent \in SUBSET Codes
  BY DEF Recent
<1> QED
  BY <1>1, <1>2, FS_Subset, FS_CardinalityType

\* Steps that leave the codes alone.
LEMMA SameCodes ==
  ASSUME CodesInBounds, UNCHANGED codes, stale' = FALSE => stale = FALSE, stale \in BOOLEAN, stale' \in BOOLEAN
  PROVE  CodesInBounds'
  BY DEF CodesInBounds, SpentOnce, Recent

LEMMA CodesStep == Typed /\ CodesInBounds /\ [Next]_vars => CodesInBounds'
<1> SUFFICES ASSUME Typed, CodesInBounds, [Next]_vars, stale' = FALSE PROVE CodesInBounds'
  BY StepType DEF CodesInBounds, Typed, TypeOK
<1>0. stale \in BOOLEAN
  BY DEF Typed, TypeOK
<1>1. ASSUME NEW s \in Slots, SendCode(s) PROVE CodesInBounds'
  <2>1. stale = FALSE /\ UnderLimit
    BY <1>0, <1>1 DEF SendCode, Checked, UnderLimit
  <2>2. PICK c \in Unsent : codes' = [codes EXCEPT ![c].age = "FRESH"]
    BY <1>1 DEF SendCode
  <2>3. Recent' = Recent \cup {c} /\ c \notin Recent
    BY <2>2 DEF Recent, Unsent, Typed, TypeOK, CodeRow
  <2>4. Cardinality(Recent') = Cardinality(Recent) + 1
    BY <2>3, RecentFinite, FS_AddElement
  <2>5. Cardinality(Recent') <= CODE_LIMIT
    BY <2>1, <2>4, RecentFinite, WalletAssumption DEF UnderLimit
  <2>6. SpentOnce'
    BY <2>1, <2>2 DEF CodesInBounds, SpentOnce, Unsent, Typed, TypeOK, CodeRow
  <2> QED
    BY <2>5, <2>6 DEF CodesInBounds
<1>2. ASSUME NEW s \in Slots, WrongCode(s) \/ UseCode(s) PROVE CodesInBounds'
  <2>1. PICK c \in Codes : c = busy[s].code
    BY <1>2 DEF WrongCode, UseCode, At, Typed, RequestsFit, Fits
  <2>2. stale = FALSE /\ \A d \in Codes : codes'[d].age = codes[d].age
    <3>1. stale = FALSE
      BY <1>0, <1>2 DEF WrongCode, UseCode, Checked
    <3>2. CASE WrongCode(s)
      BY <3>1, <3>2 DEF WrongCode, Typed, TypeOK, CodeRow
    <3>3. CASE UseCode(s)
      BY <3>1, <3>3 DEF UseCode, Typed, TypeOK, CodeRow
    <3> QED
      BY <1>2, <3>1, <3>2, <3>3
  <2>3. Recent' = Recent
    BY <2>2 DEF Recent
  <2>4. CASE WrongCode(s)
    <3>1. codes[c].left > 0 /\ codes' = [codes EXCEPT ![c].left = @ - 1]
      BY <1>0, <2>1, <2>4 DEF WrongCode, Checked
    <3>2. SpentOnce'
      BY <2>2, <3>1 DEF CodesInBounds, SpentOnce, Typed, TypeOK, CodeRow
    <3> QED
      BY <2>2, <2>3, <3>2 DEF CodesInBounds
  <2>5. CASE UseCode(s)
    <3>1. ~codes[c].used /\ codes' = [codes EXCEPT ![c].used = TRUE, ![c].uses = @ + 1]
      BY <1>0, <2>1, <2>5 DEF UseCode, Checked
    <3>2. codes[c].uses = 0
      BY <2>2, <3>1 DEF CodesInBounds, SpentOnce
    <3>3. SpentOnce'
      BY <2>2, <3>1, <3>2 DEF CodesInBounds, SpentOnce, Typed, TypeOK, CodeRow
    <3> QED
      BY <2>2, <2>3, <3>3 DEF CodesInBounds
  <2> QED
    BY <1>2, <2>4, <2>5
<1>3. CASE TimePasses
  <2>1. stale = FALSE
    BY <1>3 DEF TimePasses
  <2>2. \A c \in Codes : codes'[c].left = codes[c].left /\ codes'[c].uses = codes[c].uses
                         /\ codes'[c].used = codes[c].used
    BY <1>3 DEF TimePasses, Typed, TypeOK, CodeRow
  <2>3. Recent' \in SUBSET Recent
    BY <1>3 DEF TimePasses, Recent, Typed, TypeOK, CodeRow
  <2>4. Cardinality(Recent') <= Cardinality(Recent) /\ Cardinality(Recent') \in Nat
    BY <2>3, RecentFinite, FS_Subset, FS_CardinalityType
  <2>5. Cardinality(Recent') <= CODE_LIMIT
    BY <2>1, <2>4, RecentFinite, WalletAssumption DEF CodesInBounds
  <2> QED
    BY <2>1, <2>2, <2>5 DEF CodesInBounds, SpentOnce
<1>4. ASSUME UNCHANGED codes, stale' = FALSE => stale = FALSE PROVE CodesInBounds'
  BY <1>0, <1>4, SameCodes
<1>5. ASSUME NEW s \in Slots, Step(s), ~SendCode(s), ~WrongCode(s), ~UseCode(s)
      PROVE  UNCHANGED codes /\ (stale' = FALSE => stale = FALSE)
  BY <1>0, <1>5 DEF Step, InitiatePayout, InitiateAddMethod, Initiate, Confirm, ClaimIntent,
              CheckRequest, CreateRequest, CountMethods, CreateMethod, SetDefaultMethod, DeleteMethod,
              Fail, rows, Checked
<1>6. CASE Earn \/ MovePayout \/ UNCHANGED vars
  BY <1>4, <1>6 DEF Earn, MovePayout, vars, rows
<1> QED
  BY <1>1, <1>2, <1>3, <1>4, <1>5, <1>6 DEF Next

(* Unless a write outlived its check, a code is spent once, its attempts are *)
(* never overdrawn, and no more codes are sent than the limit allows         *)
(* (sendEmailOtp, consumeEmailOtp).                                          *)
THEOREM CodesBounded == Spec => []CodesAreBounded
<1>1. Init => CodesInBounds
  <2> SUFFICES ASSUME Init PROVE SpentOnce /\ Cardinality(Recent) <= CODE_LIMIT
    BY DEF CodesInBounds
  <2>1. Recent = {}
    BY DEF Init, Recent, NoCode
  <2>2. Cardinality(Recent) = 0
    BY <2>1, FS_EmptySet
  <2> QED
    BY <2>2, WalletAssumption DEF Init, SpentOnce, NoCode
<1>2. Typed /\ CodesInBounds => CodesAreBounded
  BY DEF CodesInBounds, SpentOnce, CodesAreBounded, Typed, TypeOK, CodeRow
<1> QED
  BY <1>1, <1>2, CodesStep, TypedAlways, PTL DEF Spec

-----------------------------------------------------------------------------
(* Accounts. *)

Accounts == ~stale =>
    /\ \A m, n \in Methods : methods[m].isDefault /\ methods[n].isDefault => m = n
    /\ \A m \in Methods : methods[m].isDefault => m \in Live
    /\ \A i \in Intents : payouts[i] \in InFlight => MethodOf(i) \in Live

\* Steps that change neither accounts nor payouts, and no intent that was made.
LEMMA SameAccounts ==
  ASSUME Typed, Accounts, UNCHANGED methods, stale' = FALSE => stale = FALSE, stale' \in BOOLEAN,
         \A i \in Intents : payouts'[i] \in InFlight => payouts[i] \in InFlight,
         \A i \in Intents : MethodOf(i) \in Live => MethodOf(i)' = MethodOf(i)
  PROVE  Accounts'
<1>1. stale \in BOOLEAN /\ Live' = Live
  BY DEF Typed, TypeOK, Live
<1> QED
  BY <1>1 DEF Accounts

LEMMA CreateMethodAccounts ==
  ASSUME Typed, Accounts, NEW s \in Slots, CreateMethod(s), stale' = FALSE
  PROVE  Accounts'
<1> DEFINE asked == intents[busy[s].intent].payload.isDefault
           others == IF asked THEN ClearDefault(Live) ELSE methods
<1>1. stale = FALSE /\ busy[s].seen = Live
  BY DEF CreateMethod, Checked, Typed, TypeOK
<1>2. PICK m \in Methods :
         /\ methods[m].state = "ABSENT"
         /\ methods' = [others EXCEPT ![m] = [state |-> "LIVE", isDefault |-> asked \/ Live = {}]]
  BY <1>1 DEF CreateMethod
<1>3. UNCHANGED <<intents, payouts>>
  BY DEF CreateMethod
<1>4. \A n \in Methods \ {m} :
        /\ methods'[n].state = methods[n].state
        /\ methods'[n].isDefault => methods[n].isDefault /\ ~asked /\ Live # {}
  <2>1. CASE asked
    BY <1>1, <1>2, <2>1 DEF ClearDefault, Typed, TypeOK, MethodRow, Accounts
  <2>2. CASE ~asked
    BY <1>1, <1>2, <2>2 DEF Typed, TypeOK, MethodRow, Accounts
  <2> QED
    BY <2>1, <2>2
<1>5. methods'[m].state = "LIVE" /\ (methods'[m].isDefault => asked \/ Live = {})
  BY <1>2, ClearType DEF Typed, TypeOK
<1> HIDE DEF asked, others
<1>6. Live' = Live \cup {m}
  BY <1>2, <1>4, <1>5 DEF Live
<1>7. \A k, n \in Methods : methods'[k].isDefault /\ methods'[n].isDefault => k = n
  BY <1>1, <1>4, <1>5 DEF Accounts
<1>8. \A n \in Methods : methods'[n].isDefault => n \in Live'
  BY <1>1, <1>4, <1>6 DEF Accounts
<1> QED
  BY <1>1, <1>3, <1>6, <1>7, <1>8 DEF Accounts, MethodOf

LEMMA ChangeAccounts ==
  ASSUME Typed, Accounts, NEW s \in Slots, SetDefaultMethod(s) \/ DeleteMethod(s), stale' = FALSE
  PROVE  Accounts'
<1>1. CASE ~At(s, "setDefault") /\ ~At(s, "delete")
  BY <1>1, SameAccounts DEF SetDefaultMethod, DeleteMethod, rows, MethodOf
<1>2. CASE SetDefaultMethod(s) /\ At(s, "setDefault")
  <2>1. PICK m \in Methods : m = busy[s].method
    BY <1>2 DEF At, Typed, RequestsFit, Fits
  <2>2. /\ methods' = [ClearDefault(Live) EXCEPT ![m].isDefault = TRUE]
        /\ stale = FALSE /\ m \in Live /\ UNCHANGED <<intents, payouts>>
    BY <1>2, <2>1 DEF SetDefaultMethod, At, Begin, Checked, Typed, TypeOK
  <2>3. \A n \in Methods : methods'[n].state = methods[n].state /\ (methods'[n].isDefault => n = m)
    BY <2>2 DEF ClearDefault, Typed, TypeOK, MethodRow, Accounts
  <2>4. Live' = Live
    BY <2>3 DEF Live
  <2> QED
    BY <2>2, <2>3, <2>4 DEF Accounts, MethodOf
<1>3. CASE DeleteMethod(s) /\ At(s, "delete")
  <2>1. PICK m \in Methods : m = busy[s].method
    BY <1>3 DEF At, Typed, RequestsFit, Fits
  <2>2. /\ methods' = [methods EXCEPT ![m] = [state |-> "DELETED", isDefault |-> FALSE]]
        /\ stale = FALSE /\ MayDelete(m) /\ UNCHANGED <<intents, payouts>>
    BY <1>3, <2>1 DEF DeleteMethod, At, Begin, Checked, Typed, TypeOK, MayDelete
  <2>3. \A n \in Methods : methods'[n].isDefault => n # m /\ methods[n].isDefault
    BY <2>2 DEF Typed, TypeOK, MethodRow
  <2>4. Live' = Live \ {m}
    BY <2>2 DEF Live, Typed, TypeOK
  <2>5. \A i \in Intents : payouts[i] \in InFlight => MethodOf(i) # m
    BY <2>2 DEF MayDelete, Awaited
  <2> QED
    BY <2>2, <2>3, <2>4, <2>5 DEF Accounts, MethodOf
<1> QED
  BY <1>1, <1>2, <1>3 DEF SetDefaultMethod, DeleteMethod, Begin, At

LEMMA AccountsStep == Typed /\ Accounts /\ [Next]_vars => Accounts'
<1> SUFFICES ASSUME Typed, Accounts, [Next]_vars, stale' = FALSE PROVE Accounts'
  BY StepType DEF Accounts, Typed, TypeOK
<1>1. ASSUME NEW s \in Slots, CreateRequest(s) PROVE Accounts'
  <2>1. busy[s].intent \in Intents
    BY <1>1 DEF CreateRequest, At, Typed, RequestsFit, Fits
  <2>2. stale = FALSE /\ MayDraw(busy[s].intent)
    BY <1>1 DEF CreateRequest, Checked, Typed, TypeOK
  <2>3. Live' = Live
    BY <1>1 DEF CreateRequest, Live
  <2> QED
    BY <1>1, <2>1, <2>2, <2>3 DEF CreateRequest, Accounts, MayDraw, MethodOf, Typed, TypeOK
<1>2. ASSUME NEW s \in Slots, InitiatePayout(s) \/ InitiateAddMethod(s) PROVE Accounts'
  <2>1. PICK i \in Intents, p \in Payloads : Initiate(s, i, p)
    BY <1>2 DEF InitiatePayout, InitiateAddMethod, Payloads, Live
  <2>2. MethodOf(i) \notin Live
    BY <2>1, WalletAssumption DEF Initiate, Made, MethodOf, NoPayload, Live
  <2>3. \A j \in Intents \ {i} : intents'[j] = intents[j]
    BY <2>1 DEF Initiate, Typed, TypeOK
  <2> QED
    BY <2>1, <2>2, <2>3, SameAccounts DEF Initiate, MethodOf
<1>3. CASE MovePayout
  <2>1. \A i \in Intents : payouts'[i] \in InFlight => payouts[i] \in InFlight
    BY <1>3 DEF MovePayout, InFlight, Typed, TypeOK
  <2> QED
    BY <1>3, <2>1, SameAccounts DEF MovePayout, MethodOf
<1>4. CASE TimePasses
  <2>1. \A i \in Intents : intents'[i].payload = intents[i].payload
    BY <1>4 DEF TimePasses, Typed, TypeOK, IntentRow
  <2> QED
    BY <1>4, <2>1, SameAccounts DEF TimePasses, MethodOf
<1>5. ASSUME NEW s \in Slots, ClaimIntent(s) PROVE Accounts'
  <2>1. \A i \in Intents : intents'[i].payload = intents[i].payload
    BY <1>5 DEF ClaimIntent, Typed, TypeOK, IntentRow
  <2> QED
    BY <1>5, <2>1, SameAccounts DEF ClaimIntent, MethodOf
<1>6. ASSUME NEW s \in Slots,
             \/ SendCode(s) \/ Confirm(s) \/ WrongCode(s) \/ UseCode(s)
             \/ CheckRequest(s) \/ CountMethods(s) \/ Fail(s)
      PROVE  Accounts'
  <2>1. UNCHANGED <<methods, payouts, intents>> /\ stale = FALSE
    BY <1>6 DEF SendCode, Confirm, WrongCode, UseCode, CheckRequest, CountMethods, Fail, rows, Checked,
                Typed, TypeOK
  <2> QED
    BY <2>1, SameAccounts DEF MethodOf
<1>7. CASE Earn \/ UNCHANGED vars
  BY <1>7, SameAccounts DEF Earn, vars, rows, MethodOf
<1> QED
  BY <1>1, <1>2, <1>3, <1>4, <1>5, <1>6, <1>7, CreateMethodAccounts, ChangeAccounts DEF Next, Step

LEMMA AccountsInit == Init => Accounts
<1> SUFFICES ASSUME Init PROVE Accounts
  OBVIOUS
<1>1. PICK old \in {{}} \cup { {m} : m \in Methods } :
         methods = [m \in Methods |-> IF m \in old THEN [state |-> "LIVE", isDefault |-> TRUE]
                                                   ELSE NoMethod]
  BY DEF Init
<1> QED
  BY <1>1 DEF Init, Accounts, Live, NoMethod, InFlight

(* The accounts invariant (at most one live default while no write outlived    *)
(* its check; deleted accounts are no default) holds in every reachable state. *)
THEOREM AccountsHold == Spec => []Accounts
  BY AccountsInit, AccountsStep, TypedAlways, PTL DEF Spec

(* Unless a write outlived its check, at most one account is the default and *)
(* never a deleted one, and a payout that has yet to arrive has an account to *)
(* arrive at (createMethod, setDefaultMethod, deleteMethod, createRequest).    *)
THEOREM AccountsStayInOrder == Spec => []AccountsInOrder
<1>1. Accounts => AccountsInOrder
  BY DEF Accounts, AccountsInOrder
<1> QED
  BY <1>1, AccountsHold, PTL

-----------------------------------------------------------------------------
(* Sums over a finite set. *)

\* One element's units.
LEMMA UnitsOfOne ==
  ASSUME NEW a, NEW n \in Nat
  PROVE  IsFiniteSet({a} \X (1..n)) /\ Cardinality({a} \X (1..n)) = n
<1>1. IsFiniteSet({a}) /\ Cardinality({a}) = 1
  BY FS_Singleton
<1>2. IsFiniteSet(1..n) /\ Cardinality(1..n) = n
  BY FS_Interval
<1>3. IsFiniteSet({a} \X (1..n)) /\ Cardinality({a} \X (1..n)) = Cardinality({a}) * Cardinality(1..n)
  BY <1>1, <1>2, FS_Product
<1> QED
  BY <1>1, <1>2, <1>3

LEMMA SumIsNat ==
  ASSUME NEW f, NEW S, IsFiniteSet(S), \A x \in S : f[x] \in Nat
  PROVE  IsFiniteSet(Units(f, S)) /\ SumOf(f, S) \in Nat
<1> DEFINE parts == { {x} \X (1..f[x]) : x \in S }
           part == [x \in S |-> {x} \X (1..f[x])]
<1>1. part \in Surjection(S, parts)
  BY DEF Surjection
<1>2. IsFiniteSet(parts)
  BY <1>1, FS_Surjection
<1>3. ASSUME NEW p \in parts PROVE IsFiniteSet(p)
  <2>1. PICK x \in S : p = {x} \X (1..f[x])
    OBVIOUS
  <2> QED
    BY <2>1, UnitsOfOne
<1>4. IsFiniteSet(UNION parts)
  BY <1>2, <1>3, FS_UNION
<1> QED
  BY <1>4, FS_CardinalityType DEF Units, SumOf

\* A sum depends only on its terms.
LEMMA SumSame ==
  ASSUME NEW f, NEW g, NEW S, \A x \in S : f[x] = g[x]
  PROVE  SumOf(f, S) = SumOf(g, S)
<1>1. { {x} \X (1..f[x]) : x \in S } = { {x} \X (1..g[x]) : x \in S }
  OBVIOUS
<1> QED
  BY <1>1 DEF SumOf, Units

LEMMA SumOfNone == ASSUME NEW f PROVE SumOf(f, {}) = 0
<1>1. Units(f, {}) = {}
  BY DEF Units
<1> QED
  BY <1>1, FS_EmptySet DEF SumOf

LEMMA SumAdd ==
  ASSUME NEW f, NEW S, IsFiniteSet(S), NEW a, a \notin S, \A x \in S \cup {a} : f[x] \in Nat
  PROVE  SumOf(f, S \cup {a}) = SumOf(f, S) + f[a]
<1> DEFINE one == {a} \X (1..f[a])
<1>1. Units(f, S \cup {a}) = Units(f, S) \cup one
  BY DEF Units
<1>2. Units(f, S) \cap one = {}
  BY DEF Units
<1>3. IsFiniteSet(Units(f, S)) /\ Cardinality(Units(f, S)) \in Nat
  BY SumIsNat DEF SumOf
<1>4. IsFiniteSet(one) /\ Cardinality(one) = f[a]
  BY UnitsOfOne
<1> HIDE DEF one
<1>5. Cardinality(Units(f, S) \cup one) = Cardinality(Units(f, S)) + Cardinality(one) - Cardinality({})
  BY <1>2, <1>3, <1>4, FS_Union
<1>6. Cardinality({}) = 0 /\ f[a] \in Nat
  BY FS_EmptySet
<1>7. Cardinality(Units(f, S) \cup one) = Cardinality(Units(f, S)) + f[a]
  BY <1>3, <1>4, <1>5, <1>6
<1> QED
  BY <1>1, <1>7 DEF SumOf

\* Fewer terms make no larger sum.
LEMMA SumShrinks ==
  ASSUME NEW f, NEW S, IsFiniteSet(S), NEW T \in SUBSET S, \A x \in S : f[x] \in Nat
  PROVE  SumOf(f, T) <= SumOf(f, S)
<1>1. Units(f, T) \in SUBSET Units(f, S)
  BY DEF Units
<1> QED
  BY <1>1, SumIsNat, FS_Subset DEF SumOf

\* One term grows.
LEMMA SumBump ==
  ASSUME NEW f, NEW g, NEW S, IsFiniteSet(S), NEW a \in S, \A x \in S : f[x] \in Nat,
         \A x \in S \ {a} : g[x] = f[x], g[a] = f[a] + 1
  PROVE  SumOf(g, S) = SumOf(f, S) + 1
<1> DEFINE R == S \ {a}
<1>1. IsFiniteSet(R) /\ a \notin R /\ S = R \cup {a}
  BY FS_RemoveElement
<1>2. SumOf(f, R \cup {a}) = SumOf(f, R) + f[a]
  BY <1>1, SumAdd
<1>3. SumOf(g, R \cup {a}) = SumOf(g, R) + g[a]
  <2>1. \A x \in R \cup {a} : g[x] \in Nat
    OBVIOUS
  <2> QED
    BY <1>1, <2>1, SumAdd
<1>4. SumOf(g, R) = SumOf(f, R)
  BY SumSame
<1>5. SumOf(f, R) \in Nat
  BY <1>1, SumIsNat
<1> QED
  BY <1>1, <1>2, <1>3, <1>4, <1>5

-----------------------------------------------------------------------------
(* No more is drawn than was earned. *)

\* Only an intent that was made is worked on or drawn, so what it is for is settled.
MadeBeforeUse ==
    /\ \A i \in Intents : payouts[i] # "NONE" => Made(i)
    /\ \A s \in Slots : busy[s].intent \in Intents => Made(busy[s].intent)

LEMMA MadeStep == Typed /\ MadeBeforeUse /\ [Next]_vars => MadeBeforeUse'
<1> SUFFICES ASSUME Typed, MadeBeforeUse, [Next]_vars PROVE MadeBeforeUse'
  OBVIOUS
<1>0. Typed'
  BY StepType
<1>1. \A i \in Intents : Made(i) => Made(i)'
  <2>1. CASE TimePasses
    BY <2>1 DEF TimePasses, Made, Typed, TypeOK, IntentRow
  <2>2. ASSUME NEW s \in Slots, Step(s) PROVE \A i \in Intents : Made(i) => Made(i)'
    <3>1. CASE ClaimIntent(s)
      <4>1. \A i \in Intents : intents'[i].payload = intents[i].payload
        BY <3>1 DEF ClaimIntent, Typed, TypeOK, IntentRow
      <4> QED
        BY <4>1 DEF Made
    <3>2. CASE InitiatePayout(s) \/ InitiateAddMethod(s)
      <4>1. PICK i \in Intents, p \in Payloads : Initiate(s, i, p)
        BY <3>2 DEF InitiatePayout, InitiateAddMethod, Payloads, Live
      <4>2. ~Made(i) /\ \A j \in Intents \ {i} : intents'[j] = intents[j]
        BY <4>1 DEF Initiate, Typed, TypeOK
      <4> QED
        BY <4>2 DEF Made
    <3>3. CASE UNCHANGED intents
      BY <3>3 DEF Made
    <3> QED
      BY <2>2, <3>1, <3>2, <3>3 DEF Step, SendCode, Confirm, WrongCode, UseCode, CheckRequest, CreateRequest,
              CountMethods, CreateMethod, SetDefaultMethod, DeleteMethod, Fail, rows
  <2>3. CASE Earn \/ MovePayout \/ UNCHANGED vars
    BY <2>3 DEF Earn, MovePayout, vars, rows, Made
  <2> QED
    BY <2>1, <2>2, <2>3 DEF Next
<1>2. \A i \in Intents : payouts'[i] # "NONE" => payouts[i] # "NONE" \/ Made(i)
  <2>1. ASSUME NEW s \in Slots, CreateRequest(s)
        PROVE  \A i \in Intents : payouts'[i] # "NONE" => payouts[i] # "NONE" \/ Made(i)
    <3>1. busy[s].intent \in Intents
      BY <2>1 DEF CreateRequest, At, Typed, RequestsFit, Fits
    <3> QED
      BY <2>1, <3>1 DEF CreateRequest, MadeBeforeUse, Typed, TypeOK
  <2>2. CASE MovePayout
    BY <2>2 DEF MovePayout, Typed, TypeOK
  <2>3. ASSUME NEW s \in Slots, Step(s), ~CreateRequest(s) PROVE UNCHANGED payouts
    BY <2>3 DEF Step, InitiatePayout, InitiateAddMethod, Initiate, SendCode, Confirm, WrongCode, UseCode,
              ClaimIntent, CheckRequest, CountMethods, CreateMethod, SetDefaultMethod, DeleteMethod, Fail, rows
  <2>4. CASE Earn \/ TimePasses \/ UNCHANGED vars
    BY <2>4 DEF Earn, TimePasses, vars, rows
  <2> QED
    BY <2>1, <2>2, <2>3, <2>4 DEF Next
<1>3. ASSUME NEW t \in Slots, busy'[t].intent \in Intents
      PROVE  Made(busy'[t].intent)
  <2>0. busy \in [Slots -> Request] /\ NONE \notin Intents
    BY WalletAssumption DEF Typed, TypeOK
  <2>1. ASSUME NEW s \in Slots, Confirm(s) PROVE Made(busy'[t].intent)
    <3>1. PICK i \in Intents, c \in Codes, step \in {"useCode", "wrongCode"} :
             Made(i) /\ Begin(s, [Idle EXCEPT !.at = step, !.intent = i, !.code = c])
      BY <2>1 DEF Confirm
    <3> QED
      BY <1>3, <2>0, <3>1 DEF Begin, Idle, MadeBeforeUse
  <2>2. ASSUME NEW s \in Slots, Step(s), ~Confirm(s)
        PROVE  busy'[t].intent = busy[t].intent \/ busy'[t].intent = NONE
    <3>1. ASSUME NEW r, Begin(s, r), r.intent = NONE
          PROVE  busy'[t].intent = busy[t].intent \/ busy'[t].intent = NONE
      BY <2>0, <3>1 DEF Begin
    <3>2. ASSUME NEW step, Goto(s, step) PROVE busy'[t].intent = busy[t].intent
      BY <2>0, <3>2 DEF Goto, Request
    <3>3. ASSUME End(s) PROVE busy'[t].intent = busy[t].intent \/ busy'[t].intent = NONE
      BY <2>0, <3>3 DEF End, Idle
    <3>4. CASE UNCHANGED busy
      BY <3>4
    <3>5. CASE InitiatePayout(s) \/ InitiateAddMethod(s)
      BY <3>1, <3>4, <3>5 DEF InitiatePayout, InitiateAddMethod, Initiate, Idle
    <3>6. CASE SetDefaultMethod(s) \/ DeleteMethod(s)
      BY <3>1, <3>3, <3>6 DEF SetDefaultMethod, DeleteMethod, Idle
    <3>7. CASE CountMethods(s)
      BY <2>0, <3>7 DEF CountMethods, Request
    <3>8. CASE ClaimIntent(s) \/ UseCode(s) \/ CheckRequest(s)
      BY <3>2, <3>3, <3>8 DEF ClaimIntent, UseCode, CheckRequest
    <3>9. CASE SendCode(s) \/ WrongCode(s) \/ CreateRequest(s) \/ CreateMethod(s) \/ Fail(s)
      BY <3>3, <3>9 DEF SendCode, WrongCode, CreateRequest, CreateMethod, Fail
    <3> QED
      BY <2>2, <3>5, <3>6, <3>7, <3>8, <3>9 DEF Step
  <2>3. CASE Earn \/ MovePayout \/ TimePasses \/ UNCHANGED vars
    BY <1>3, <2>3 DEF Earn, MovePayout, TimePasses, vars, rows, MadeBeforeUse
  <2> QED
    BY <1>3, <2>0, <2>1, <2>2, <2>3 DEF Next, MadeBeforeUse
<1>4. MadeBeforeUse' <=> /\ \A i \in Intents : payouts'[i] # "NONE" => Made(i)'
                         /\ \A s \in Slots : busy'[s].intent \in Intents
                               => intents'[busy'[s].intent].payload # NoPayload
  BY DEF MadeBeforeUse, Made
<1> QED
  BY <1>1, <1>2, <1>3, <1>4 DEF MadeBeforeUse, Made

LEMMA AmountsAreNat == ASSUME Typed PROVE \A i \in Intents : AmountOf(i) \in Nat
<1>1. ASSUME NEW p \in Payloads \cup {NoPayload} PROVE p.amount \in Nat
  <2>1. CASE p \in [kind : {"PAYOUT_REQUEST"}, method : Methods, amount : Amounts, isDefault : {FALSE}]
    BY <2>1, WalletAssumption
  <2>2. CASE p \in [kind : {"ADD_METHOD"}, method : {NONE}, amount : {0}, isDefault : BOOLEAN]
    BY <2>2
  <2>3. CASE p = NoPayload
    BY <2>3 DEF NoPayload
  <2> QED
    BY <2>1, <2>2, <2>3 DEF Payloads
<1> QED
  BY <1>1 DEF Typed, TypeOK, IntentRow, AmountOf

LEMMA DrawnFinite == IsFiniteSet(Drawn) /\ Drawn \in SUBSET Intents
<1>1. Drawn \in SUBSET Intents
  BY DEF Drawn
<1> QED
  BY <1>1, WalletAssumption, FS_Subset

\* Steps that draw nothing new and forget nothing that was earned.
LEMMA NothingDrawn ==
  ASSUME Typed, Typed', NeverOverdrawn, stale' = FALSE => stale = FALSE,
         Drawn' \in SUBSET Drawn, \A i \in Drawn' : AmountOf(i)' = AmountOf(i), earned' >= earned
  PROVE  NeverOverdrawn'
<1> DEFINE f == [i \in Intents |-> AmountOf(i)]
           g == [i \in Intents |-> AmountOf(i)']
<1>1. Outstanding = SumOf(f, Drawn) /\ Outstanding' = SumOf(g, Drawn')
  BY DEF Outstanding, SumOf, Units
<1>2. \A i \in Intents : f[i] \in Nat
  BY AmountsAreNat
<1>3. Drawn' \in SUBSET Intents
  BY DrawnFinite
<1>4. \A i \in Drawn' : f[i] = g[i]
  BY <1>3
<1> HIDE DEF f, g
<1>5. SumOf(g, Drawn') = SumOf(f, Drawn')
  BY <1>4, SumSame
<1>6. SumOf(f, Drawn') <= SumOf(f, Drawn)
  BY <1>2, DrawnFinite, SumShrinks
<1>7. SumOf(f, Drawn) \in Nat /\ SumOf(f, Drawn') \in Nat
  <2>1. IsFiniteSet(Drawn')
    BY DrawnFinite, FS_Subset
  <2> QED
    BY <1>2, <1>3, <2>1, DrawnFinite, SumIsNat
<1>8. earned \in Nat /\ earned' \in Nat /\ stale \in BOOLEAN /\ stale' \in BOOLEAN
  BY WalletAssumption DEF Typed, TypeOK
<1> QED
  BY <1>1, <1>5, <1>6, <1>7, <1>8 DEF NeverOverdrawn

LEMMA CreateDraws ==
  ASSUME Typed, NeverOverdrawn, NEW s \in Slots, CreateRequest(s), stale' = FALSE
  PROVE  NeverOverdrawn'
<1> DEFINE i == busy[s].intent
           f == [j \in Intents |-> AmountOf(j)]
<1>1. i \in Intents
  BY DEF CreateRequest, At, Typed, RequestsFit, Fits
<1>2. stale = FALSE /\ AmountOf(i) <= earned - Outstanding
  BY DEF CreateRequest, Checked, MayDraw, Affordable, Typed, TypeOK
<1>3. payouts' = [payouts EXCEPT ![i] = "PENDING"] /\ UNCHANGED <<intents, earned>>
  BY DEF CreateRequest
<1>4. Drawn' = Drawn \cup {i}
  BY <1>1, <1>3 DEF Drawn, InFlight, Typed, TypeOK
<1>5. Outstanding = SumOf(f, Drawn) /\ Outstanding' = SumOf(f, Drawn')
  BY <1>3 DEF Outstanding, AmountOf, SumOf, Units
<1>6. \A j \in Intents : f[j] \in Nat
  BY AmountsAreNat
<1>7. f[i] = AmountOf(i)
  BY <1>1
<1>8. SumOf(f, Drawn) \in Nat
  BY <1>6, DrawnFinite, SumIsNat
<1>9. earned \in Nat
  BY WalletAssumption DEF Typed, TypeOK
<1> HIDE DEF i, f
<1>10. CASE i \in Drawn
  BY <1>2, <1>3, <1>4, <1>5, <1>10 DEF NeverOverdrawn
<1>11. CASE i \notin Drawn
  <2>1. SumOf(f, Drawn') = SumOf(f, Drawn) + f[i]
    BY <1>1, <1>4, <1>6, <1>11, DrawnFinite, SumAdd
  <2> QED
    BY <1>1, <1>2, <1>3, <1>5, <1>6, <1>7, <1>8, <1>9, <2>1 DEF NeverOverdrawn
<1> QED
  BY <1>10, <1>11
LEMMA DrawStep == Typed /\ MadeBeforeUse /\ NeverOverdrawn /\ [Next]_vars => NeverOverdrawn'
<1> SUFFICES ASSUME Typed, MadeBeforeUse, NeverOverdrawn, [Next]_vars, stale' = FALSE PROVE NeverOverdrawn'
  BY StepType DEF NeverOverdrawn, Typed, TypeOK
<1>0. Typed' /\ stale \in BOOLEAN
  BY StepType DEF Typed, TypeOK
<1>1. ASSUME NEW s \in Slots, InitiatePayout(s) \/ InitiateAddMethod(s) PROVE NeverOverdrawn'
  <2>1. PICK i \in Intents, p \in Payloads : Initiate(s, i, p)
    BY <1>1 DEF InitiatePayout, InitiateAddMethod, Payloads, Live
  <2>2. ~Made(i) /\ UNCHANGED <<payouts, earned, stale>> /\ \A j \in Intents \ {i} : intents'[j] = intents[j]
    BY <2>1 DEF Initiate, Typed, TypeOK
  <2>3. Drawn' = Drawn
    BY <2>2 DEF Drawn
  <2>4. i \notin Drawn
    BY <2>2 DEF MadeBeforeUse, Drawn, InFlight
  <2>5. \A j \in Drawn' : AmountOf(j)' = AmountOf(j)
    BY <2>2, <2>3, <2>4, DrawnFinite DEF AmountOf
  <2>6. earned' >= earned
    BY <2>2 DEF Typed, TypeOK
  <2> QED
    BY <1>0, <2>2, <2>3, <2>5, <2>6, NothingDrawn
<1>2. ASSUME \A i \in Intents : intents'[i].payload = intents[i].payload,
             stale' = FALSE => stale = FALSE, Drawn' \in SUBSET Drawn, earned' >= earned
      PROVE  NeverOverdrawn'
  <2>1. \A i \in Drawn' : AmountOf(i)' = AmountOf(i)
    BY <1>2, DrawnFinite DEF AmountOf
  <2> QED
    BY <1>0, <1>2, <2>1, NothingDrawn
<1>3. earned >= earned
  BY DEF Typed, TypeOK
<1>4. CASE TimePasses
  <2>1. \A i \in Intents : intents'[i].payload = intents[i].payload
    BY <1>4 DEF TimePasses, Typed, TypeOK, IntentRow
  <2>2. Drawn' = Drawn
    BY <1>4 DEF TimePasses, Drawn
  <2> QED
    BY <1>2, <1>3, <1>4, <2>1, <2>2 DEF TimePasses
<1>5. CASE MovePayout
  <2>1. Drawn' \in SUBSET Drawn
    BY <1>5 DEF MovePayout, Drawn, InFlight, Typed, TypeOK
  <2> QED
    BY <1>2, <1>3, <1>5, <2>1 DEF MovePayout
<1>6. CASE Earn
  <2>1. earned' >= earned
    BY <1>6 DEF Earn, Typed, TypeOK
  <2>2. Drawn' = Drawn
    BY <1>6 DEF Earn, Drawn
  <2> QED
    BY <1>2, <1>6, <2>1, <2>2 DEF Earn
<1>7. ASSUME NEW s \in Slots, ClaimIntent(s) PROVE NeverOverdrawn'
  <2>1. \A i \in Intents : intents'[i].payload = intents[i].payload
    BY <1>7 DEF ClaimIntent, Typed, TypeOK, IntentRow
  <2>2. Drawn' = Drawn
    BY <1>7 DEF ClaimIntent, Drawn
  <2> QED
    BY <1>2, <1>3, <1>7, <2>1, <2>2 DEF ClaimIntent
<1>8. ASSUME NEW s \in Slots, Step(s), ~InitiatePayout(s), ~InitiateAddMethod(s), ~ClaimIntent(s),
             ~CreateRequest(s)
      PROVE  NeverOverdrawn'
  <2>1. UNCHANGED <<intents, payouts, earned>> /\ stale = FALSE
    BY <1>0, <1>8 DEF Step, SendCode, Confirm, WrongCode, UseCode, CheckRequest, CountMethods, CreateMethod,
              SetDefaultMethod, DeleteMethod, Fail, rows, Checked
  <2>2. Drawn' = Drawn
    BY <2>1 DEF Drawn
  <2> QED
    BY <1>2, <1>3, <2>1, <2>2
<1>9. CASE UNCHANGED vars
  <2>1. Drawn' = Drawn
    BY <1>9 DEF vars, rows, Drawn
  <2> QED
    BY <1>2, <1>3, <1>9, <2>1 DEF vars, rows
<1> QED
  BY <1>1, <1>4, <1>5, <1>6, <1>7, <1>8, <1>9, CreateDraws DEF Next

(* Unless a write outlived its check, no more is paid out, or promised, than *)
(* was earned (createRequest, getBalance).                                   *)
THEOREM NeverDrawnTwice == Spec => []NeverOverdrawn
<1>1. Init => MadeBeforeUse
  BY WalletAssumption DEF Init, MadeBeforeUse, Idle
<1>2. Init => NeverOverdrawn
  <2> SUFFICES ASSUME Init PROVE Outstanding <= earned
    BY DEF NeverOverdrawn
  <2>1. Drawn = {}
    BY DEF Init, Drawn, InFlight
  <2> QED
    BY <2>1, SumOfNone DEF Outstanding, Init
<1> QED
  BY <1>1, <1>2, MadeStep, DrawStep, TypedAlways, PTL DEF Spec

-----------------------------------------------------------------------------
(* What was started was paid for with a code. *)

Uses == [c \in Codes |-> codes[c].uses]

\* Requests that have spent their code and not yet their intent.
Claims == { s \in Slots : busy[s].at = "claim" }

RunsPaid == IsFiniteSet(Claims) /\ SumOf(ran, Intents) + Cardinality(Claims) <= SumOf(Uses, Codes)

LEMMA SumsAreNat ==
  ASSUME Typed
  PROVE  /\ IsFiniteSet(Codes) /\ \A c \in Codes : Uses[c] \in Nat
         /\ \A i \in Intents : ran[i] \in Nat
         /\ SumOf(ran, Intents) \in Nat /\ SumOf(Uses, Codes) \in Nat
<1>1. IsFiniteSet(Codes)
  BY WalletAssumption, FS_Interval DEF Codes
<1>2. \A c \in Codes : Uses[c] \in Nat
  BY DEF Uses, Typed, TypeOK, CodeRow
<1>3. \A i \in Intents : ran[i] \in Nat
  BY DEF Typed, TypeOK
<1> QED
  BY <1>1, <1>2, <1>3, WalletAssumption, SumIsNat

\* Steps that spend no code, start nothing and give no request a claim.
LEMMA NothingStarted ==
  ASSUME Typed, Typed', RunsPaid, UNCHANGED ran, \A c \in Codes : codes'[c].uses = codes[c].uses,
         Claims' \in SUBSET Claims
  PROVE  RunsPaid'
<1>1. Uses' = Uses
  BY DEF Uses
<1>2. IsFiniteSet(Claims') /\ Cardinality(Claims') <= Cardinality(Claims)
  BY FS_Subset DEF RunsPaid
<1>3. Cardinality(Claims) \in Nat /\ Cardinality(Claims') \in Nat
  BY <1>2, FS_CardinalityType DEF RunsPaid
<1> QED
  BY <1>1, <1>2, <1>3, SumsAreNat DEF RunsPaid

LEMMA UseCodePays ==
  ASSUME Typed, Typed', RunsPaid, NEW s \in Slots, UseCode(s)
  PROVE  RunsPaid'
<1>1. PICK c \in Codes : c = busy[s].code
  BY DEF UseCode, At, Typed, RequestsFit, Fits
<1>2. busy[s].at = "useCode" /\ busy'[s].at = "claim" /\ \A t \in Slots \ {s} : busy'[t] = busy[t]
  BY DEF UseCode, At, Goto, Typed, TypeOK, Request
<1>3. Claims' = Claims \cup {s} /\ s \notin Claims
  BY <1>2 DEF Claims
<1>4. IsFiniteSet(Claims') /\ Cardinality(Claims') = Cardinality(Claims) + 1
  BY <1>3, FS_AddElement DEF RunsPaid
<1>5. Uses'[c] = Uses[c] + 1 /\ \A d \in Codes \ {c} : Uses'[d] = Uses[d]
  BY <1>1 DEF UseCode, Uses, Typed, TypeOK, CodeRow
<1>6. SumOf(Uses', Codes) = SumOf(Uses, Codes) + 1
  BY <1>5, SumsAreNat, SumBump
<1>7. SumOf(Uses, Codes)' = SumOf(Uses', Codes)
  BY DEF SumOf, Units, Codes
<1>8. SumOf(ran, Intents)' = SumOf(ran, Intents)
  BY DEF UseCode, SumOf, Units
<1>9. Cardinality(Claims) \in Nat
  BY FS_CardinalityType DEF RunsPaid
<1> QED
  BY <1>4, <1>6, <1>7, <1>8, <1>9, SumsAreNat DEF RunsPaid

LEMMA ClaimStarts ==
  ASSUME Typed, Typed', RunsPaid, NEW s \in Slots, ClaimIntent(s)
  PROVE  RunsPaid'
<1>1. PICK i \in Intents : i = busy[s].intent
  BY DEF ClaimIntent, At, Typed, RequestsFit, Fits
<1>2. UNCHANGED codes
  BY DEF ClaimIntent
<1>3. Uses' = Uses
  BY <1>2 DEF Uses
<1>4. busy[s].at = "claim" /\ busy'[s].at # "claim" /\ \A t \in Slots \ {s} : busy'[t] = busy[t]
  BY DEF ClaimIntent, At, Goto, End, Idle, FirstStep, Typed, TypeOK, Request
<1>5. Claims' = Claims \ {s} /\ s \in Claims
  BY <1>4 DEF Claims
<1>6. IsFiniteSet(Claims') /\ Cardinality(Claims') = Cardinality(Claims) - 1
  BY <1>5, FS_RemoveElement DEF RunsPaid
<1>7. CASE intents[i].consumed
  BY <1>1, <1>2, <1>5, <1>7, NothingStarted DEF ClaimIntent
<1>8. CASE ~intents[i].consumed
  <2>1. ran'[i] = ran[i] + 1 /\ \A j \in Intents \ {i} : ran'[j] = ran[j]
    BY <1>1, <1>8 DEF ClaimIntent, Typed, TypeOK
  <2>2. SumOf(ran', Intents) = SumOf(ran, Intents) + 1
    BY <2>1, SumsAreNat, WalletAssumption, SumBump
  <2>3. Cardinality(Claims) \in Nat
    BY FS_CardinalityType DEF RunsPaid
  <2> QED
    BY <1>3, <1>6, <2>2, <2>3, SumsAreNat DEF RunsPaid
<1> QED
  BY <1>7, <1>8

LEMMA PaidStep == Typed /\ RunsPaid /\ [Next]_vars => RunsPaid'
<1> SUFFICES ASSUME Typed, RunsPaid, [Next]_vars PROVE RunsPaid'
  OBVIOUS
<1>0. Typed'
  BY StepType
<1>1. ASSUME NEW s \in Slots, Step(s), ~UseCode(s), ~ClaimIntent(s) PROVE RunsPaid'
  <2>1. UNCHANGED ran
    BY <1>1 DEF Step, InitiatePayout, InitiateAddMethod, Initiate, SendCode, Confirm, WrongCode, CheckRequest,
              CreateRequest, CountMethods, CreateMethod, SetDefaultMethod, DeleteMethod, Fail, rows
  <2>2. \A c \in Codes : codes'[c].uses = codes[c].uses
    <3>1. CASE SendCode(s) \/ WrongCode(s)
      BY <3>1 DEF SendCode, WrongCode, Typed, TypeOK, CodeRow
    <3>2. CASE ~SendCode(s) /\ ~WrongCode(s)
      BY <1>1, <3>2 DEF Step, InitiatePayout, InitiateAddMethod, Initiate, Confirm, CheckRequest,
              CreateRequest, CountMethods, CreateMethod, SetDefaultMethod, DeleteMethod, Fail, rows
    <3> QED
      BY <3>1, <3>2
  <2>3. \A t \in Slots : busy'[t].at = "claim" => busy[t].at = "claim"
    <3>0. busy \in [Slots -> Request]
      BY DEF Typed, TypeOK
    <3>1. ASSUME NEW r, Begin(s, r), r.at # "claim"
          PROVE  \A t \in Slots : busy'[t].at = "claim" => busy[t].at = "claim"
      BY <3>0, <3>1 DEF Begin
    <3>2. ASSUME End(s) PROVE \A t \in Slots : busy'[t].at = "claim" => busy[t].at = "claim"
      BY <3>0, <3>2 DEF End, Idle
    <3>3. CASE InitiatePayout(s) \/ InitiateAddMethod(s)
      BY <3>1, <3>3 DEF InitiatePayout, InitiateAddMethod, Initiate, Idle
    <3>4. CASE SetDefaultMethod(s) \/ DeleteMethod(s)
      BY <3>1, <3>2, <3>4 DEF SetDefaultMethod, DeleteMethod, Idle
    <3>5. CASE Confirm(s)
      BY <3>1, <3>5 DEF Confirm, Idle
    <3>6. CASE CountMethods(s)
      BY <3>0, <3>6 DEF CountMethods, Request
    <3>7. CASE CheckRequest(s)
      BY <3>0, <3>2, <3>7 DEF CheckRequest, Goto, Request
    <3>8. CASE SendCode(s) \/ WrongCode(s) \/ CreateRequest(s) \/ CreateMethod(s) \/ Fail(s)
      BY <3>2, <3>8 DEF SendCode, WrongCode, CreateRequest, CreateMethod, Fail
    <3> QED
      BY <1>1, <3>3, <3>4, <3>5, <3>6, <3>7, <3>8 DEF Step
  <2>4. Claims' \in SUBSET Claims
    BY <2>3 DEF Claims
  <2> QED
    BY <1>0, <2>1, <2>2, <2>4, NothingStarted
<1>2. CASE Earn \/ MovePayout \/ TimePasses \/ UNCHANGED vars
  <2>1. UNCHANGED <<ran, busy>> /\ \A c \in Codes : codes'[c].uses = codes[c].uses
    BY <1>2 DEF Earn, MovePayout, TimePasses, vars, rows, Typed, TypeOK, CodeRow
  <2>2. Claims' = Claims
    BY <2>1 DEF Claims
  <2> QED
    BY <1>0, <2>1, <2>2, NothingStarted
<1> QED
  BY <1>0, <1>1, <1>2, UseCodePays, ClaimStarts DEF Next

(* Every action that was started used up a code, even when requests of the *)
(* two interleave or die: codes are spent before intents are               *)
(* (consumeEmailOtp, consumeIntent).                                       *)
THEOREM RunsWerePaid == Spec => []RunsBackedByCodes
<1>1. Init => RunsPaid
  <2> SUFFICES ASSUME Init PROVE RunsPaid
    OBVIOUS
  <2>1. Claims = {}
    BY DEF Init, Claims, Idle
  <2>2. \A i \in Intents : ran[i] = 0
    BY DEF Init
  <2>3. Units(ran, Intents) = {}
    <3>1. 1..0 = {}
      OBVIOUS
    <3> QED
      BY <2>2, <3>1 DEF Units
  <2>4. SumOf(ran, Intents) = 0
    BY <2>3, FS_EmptySet DEF SumOf
  <2>5. SumOf(Uses, Codes) \in Nat
    BY InitType, SumsAreNat
  <2> QED
    BY <2>1, <2>4, <2>5, FS_EmptySet DEF RunsPaid
<1>2. Typed /\ RunsPaid => RunsBackedByCodes
  <2> SUFFICES ASSUME Typed, RunsPaid PROVE RunsBackedByCodes
    OBVIOUS
  <2>1. Cardinality(Claims) \in Nat
    BY FS_CardinalityType DEF RunsPaid
  <2> QED
    BY <2>1, SumsAreNat DEF RunsPaid, RunsBackedByCodes, Uses
<1> QED
  BY <1>1, <1>2, PaidStep, TypedAlways, PTL DEF Spec

-----------------------------------------------------------------------------
(* The life of a payout.  The type invariant is inductive as it stands, and    *)
(* PayoutLife follows from it: every write that does not follow a check it      *)
(* repeats leaves its mark in mishap.                                          *)

\* A note of a mishap is one of the mishaps, and is never taken back.
LEMMA NoteTyped ==
    ASSUME mishap \in Mishaps, NEW what \in Mishaps \ {"NONE"}, NoteMishap(what)
    PROVE  mishap' \in Mishaps /\ mishap' # "NONE"
BY DEF NoteMishap, Mishaps

LEMMA PayoutsInitTyped == PayoutsInit => PayoutsTypeOK
<1> SUFFICES ASSUME PayoutsInit PROVE PayoutsTypeOK
  OBVIOUS
<1>1. payout \in [PayoutIds -> PayoutStates] /\ age \in [PayoutIds -> Ages]
  BY DEF PayoutsInit, PayoutStates, Ages
<1>2. office \in [id : PayoutIds \cup {Nothing}, to : PayoutStates]
  BY DEF PayoutsInit, NoDecision, PayoutStates
<1>3. mishap \in Mishaps /\ crashes \in 0..MAX_CRASHES
  BY PayoutsAssumption DEF PayoutsInit, Mishaps
<1> QED
  BY <1>1, <1>2, <1>3 DEF PayoutsInit, PayoutsTypeOK

\* What timers do to a payout keeps the types.
LEMMA TimersTyped ==
    ASSUME PayoutsTypeOK, NEW p \in PayoutIds, TimerStep(p) \/ TimerFails(p)
    PROVE  PayoutsTypeOK'
<1>1. CASE ScheduleTransitions(p)
  BY <1>1 DEF ScheduleTransitions, PayoutsTypeOK, BothTimers, Duties
<1>2. CASE TimerToProcessing(p)
  <2>1. UNCHANGED payout \/ payout' = [payout EXCEPT ![p] = "PROCESSING"]
    BY <1>2 DEF TimerToProcessing, MoveTo
  <2>2. payout' \in [PayoutIds -> PayoutStates]
    BY <2>1 DEF PayoutsTypeOK, PayoutStates
  <2> QED
    BY <1>2, <2>2 DEF TimerToProcessing, Discharged, PayoutsTypeOK
<1>3. CASE TimerToFinal(p)
  <2>1. timers' \in [PayoutIds -> SUBSET Duties]
    BY <1>3 DEF TimerToFinal, Discharged, PayoutsTypeOK, Duties
  <2>2. UNCHANGED mishap \/ NoteMishap("GAVE_UP")
    BY <1>3 DEF TimerToFinal
  <2>3. mishap' \in Mishaps
    BY <2>2 DEF NoteMishap, Mishaps, PayoutsTypeOK
  <2> QED
    BY <1>3, <2>1, <2>3 DEF TimerToFinal, PayoutsTypeOK
<1>4. CASE SettlePayout(p)
  <2>1. PICK st \in {"SUCCEEDED", "FAILED"} : payout' = [payout EXCEPT ![p] = st]
    BY <1>4 DEF SettlePayout, MoveTo
  <2>2. payout' \in [PayoutIds -> PayoutStates]
    BY <2>1 DEF PayoutsTypeOK, PayoutStates
  <2>3. mishap' \in Mishaps
    BY <1>4 DEF SettlePayout, NoteMishap, Mishaps, PayoutsTypeOK
  <2> QED
    BY <1>4, <2>2, <2>3 DEF SettlePayout, Discharged, PayoutsTypeOK
<1>5. CASE TimerFails(p)
  <2>1. mishap' \in Mishaps
    BY <1>5 DEF TimerFails, NoteMishap, Mishaps, PayoutsTypeOK
  <2>2. timers' \in [PayoutIds -> SUBSET Duties]
    BY <1>5 DEF TimerFails, Discharged, PayoutsTypeOK
  <2> QED
    BY <1>5, <2>1, <2>2 DEF TimerFails, PayoutsTypeOK
<1> QED
  BY <1>1, <1>2, <1>3, <1>4, <1>5 DEF TimerStep

\* What the back office may choose is a status.
LEMMA AllowedTyped == \A st : Allowed(st) \subseteq PayoutStates
BY DEF Allowed, PayoutStates

LEMMA OfficeTyped ==
    ASSUME PayoutsTypeOK, SetPayoutStatus
    PROVE  PayoutsTypeOK'
<1>1. CASE /\ office = NoDecision
           /\ \E p \in PayoutIds : \E st \in Allowed(payout[p]) : office' = [id |-> p, to |-> st]
           /\ UNCHANGED <<payout, age, timers, up, crashes, mishap>>
  <2>1. PICK p \in PayoutIds : \E st \in Allowed(payout[p]) : office' = [id |-> p, to |-> st]
    BY <1>1
  <2> PICK st \in Allowed(payout[p]) : office' = [id |-> p, to |-> st]
    BY <2>1
  <2>2. st \in PayoutStates
    BY AllowedTyped
  <2>3. office' \in [id : PayoutIds \cup {Nothing}, to : PayoutStates]
    BY <2>2
  <2> QED
    BY <1>1, <2>3 DEF PayoutsTypeOK
<1>2. CASE /\ office # NoDecision
           /\ MoveTo(office.id, office.to)
           /\ IF office.to \in Allowed(payout[office.id]) THEN UNCHANGED mishap ELSE NoteMishap("STALE_WRITE")
           /\ office' = NoDecision
           /\ UNCHANGED <<age, timers, up, crashes>>
  <2>1. office.to \in PayoutStates
    BY DEF PayoutsTypeOK
  <2>2. payout' \in [PayoutIds -> PayoutStates]
    BY <1>2, <2>1 DEF MoveTo, PayoutsTypeOK
  <2>3. mishap' \in Mishaps
    BY <1>2 DEF NoteMishap, Mishaps, PayoutsTypeOK
  <2>4. office' \in [id : PayoutIds \cup {Nothing}, to : PayoutStates]
    BY <1>2 DEF NoDecision, PayoutStates
  <2> QED
    BY <1>2, <2>2, <2>3, <2>4 DEF PayoutsTypeOK
<1> QED
  BY <1>1, <1>2 DEF SetPayoutStatus

LEMMA PayoutsStepTyped == PayoutsTypeOK /\ [PayoutsNext]_payoutVars => PayoutsTypeOK'
<1> SUFFICES ASSUME PayoutsTypeOK, [PayoutsNext]_payoutVars PROVE PayoutsTypeOK'
  OBVIOUS
<1>1. CASE UNCHANGED payoutVars
  BY <1>1 DEF payoutVars, PayoutsTypeOK
<1>2. ASSUME NEW p \in PayoutIds, RequestPayout(p) PROVE PayoutsTypeOK'
  <2>1. payout' \in [PayoutIds -> PayoutStates]
    BY <1>2 DEF RequestPayout, MoveTo, PayoutsTypeOK, PayoutStates
  <2> QED
    BY <1>2, <2>1 DEF RequestPayout, PayoutsTypeOK, Duties
<1>3. ASSUME NEW p \in PayoutIds, Older(p) PROVE PayoutsTypeOK'
  BY <1>3 DEF Older, PayoutsTypeOK, Ages
<1>4. CASE Crash
  <2>1. crashes' \in 0..MAX_CRASHES
    BY <1>4, PayoutsAssumption DEF Crash, PayoutsTypeOK
  <2>2. office' \in [id : PayoutIds \cup {Nothing}, to : PayoutStates]
    BY <1>4 DEF Crash, NoDecision, PayoutStates
  <2> QED
    BY <1>4, <2>1, <2>2 DEF Crash, PayoutsTypeOK
<1>5. CASE Rehydrate
  BY <1>5 DEF Rehydrate, PayoutsTypeOK, BothTimers, Duties
<1> QED
  BY <1>1, <1>2, <1>3, <1>4, <1>5, TimersTyped, OfficeTyped DEF PayoutsNext

(* Every reachable state of payouts, timers and back office is well typed,  *)
(* across any number of restarts.                                          *)
THEOREM PayoutsTyped == PayoutsSpec => []PayoutsTypeOK
BY PayoutsInitTyped, PayoutsStepTyped, PTL DEF PayoutsSpec

-----------------------------------------------------------------------------
\* One write to a payout, along its life.
LEMMA MoveAlong ==
    ASSUME PayoutsTypeOK, NEW p \in PayoutIds \cup {Nothing}, NEW st, MoveTo(p, st),
           p \in PayoutIds => \/ st \in Allowed(payout[p])
                              \/ payout[p] = "NONE" /\ st = "PENDING"
    PROVE  \A q \in PayoutIds : \/ payout'[q] \in {payout[q]} \cup Allowed(payout[q])
                                \/ payout[q] = "NONE" /\ payout'[q] = "PENDING"
BY DEF MoveTo, PayoutsTypeOK

LEMMA LifeStep ==
    ASSUME PayoutsTypeOK, PayoutsNext, mishap' = "NONE"
    PROVE  \A q \in PayoutIds : \/ payout'[q] \in {payout[q]} \cup Allowed(payout[q])
                                \/ payout[q] = "NONE" /\ payout'[q] = "PENDING"
<1>1. CASE UNCHANGED payout
  BY <1>1
<1>2. ASSUME NEW p \in PayoutIds, RequestPayout(p) PROVE MoveTo(p, "PENDING") /\ payout[p] = "NONE"
  BY <1>2 DEF RequestPayout
<1>3. ASSUME NEW p \in PayoutIds, TimerToProcessing(p), ~UNCHANGED payout
      PROVE  MoveTo(p, "PROCESSING") /\ "PROCESSING" \in Allowed(payout[p])
  BY <1>3 DEF TimerToProcessing, Allowed
<1>4. ASSUME NEW p \in PayoutIds, SettlePayout(p)
      PROVE  \E st \in {"SUCCEEDED", "FAILED"} : MoveTo(p, st) /\ st \in Allowed(payout[p])
  <2>1. payout[p] = "PROCESSING"
    BY <1>4, NoteTyped DEF SettlePayout, PayoutsTypeOK, Mishaps
  <2> QED
    BY <1>4, <2>1 DEF SettlePayout, Allowed
<1>5. ASSUME SetPayoutStatus, ~UNCHANGED payout
      PROVE  MoveTo(office.id, office.to) /\ office.to \in Allowed(payout[office.id])
  BY <1>5, NoteTyped DEF SetPayoutStatus, PayoutsTypeOK, Mishaps
<1>6. office.id \in PayoutIds \cup {Nothing}
  BY DEF PayoutsTypeOK
<1>7. ASSUME NEW p \in PayoutIds,
             ScheduleTransitions(p) \/ TimerToFinal(p) \/ TimerFails(p) \/ Older(p)
      PROVE  UNCHANGED payout
  BY <1>7 DEF ScheduleTransitions, TimerToFinal, TimerFails, Older
<1>8. Crash \/ Rehydrate => UNCHANGED payout
  BY DEF Crash, Rehydrate
<1> QED
  BY <1>1, <1>2, <1>3, <1>4, <1>5, <1>6, <1>7, <1>8, MoveAlong DEF PayoutsNext, TimerStep

(* However timers, back office and restarts interleave, a payout moves only  *)
(* along its life and what is settled stays settled, until a write outlives   *)
(* its check or fails (scheduleMockTransitions, setPayoutStatus).            *)
THEOREM PayoutsKeepToTheirLife == PayoutsSpec => PayoutLife
<1>1. PayoutsTypeOK /\ [PayoutsNext]_payoutVars =>
        [ mishap' = "NONE" => \A p \in PayoutIds :
            \/ payout'[p] \in {payout[p]} \cup Allowed(payout[p])
            \/ payout[p] = "NONE" /\ payout'[p] = "PENDING" ]_payoutVars
  BY LifeStep
<1> QED
  BY <1>1, PayoutsTyped, PTL DEF PayoutsSpec, PayoutLife
=============================================================================
