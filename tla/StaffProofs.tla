---------------------------- MODULE StaffProofs -----------------------------
(***************************************************************************)
(* Proofs about Staff, for any users, applicants, role sets and bounds.     *)
(*                                                                         *)
(* A request in flight carries what it read.  TasksFit says what of it       *)
(* cannot change before it is written: the form it names is there and         *)
(* belongs to the user it is about, and a profile, once made, stays.  With    *)
(* it, what holds until a write outlives its check is inductive.              *)
(***************************************************************************)
EXTENDS Staff, TLAPS

TasksFit ==
    \A k \in tasks :
        /\ k.form # NoForm => k.form \in FormIds /\ forms[k.form].by = k.on
        /\ k.op \in {"review", "approve"} => k.form # NoForm
        /\ k.op = "submit" => k.by = k.on
        /\ k.op = "submit" /\ k.form # NoForm => k.to = "SUBMITTED"
        /\ k.op = "review" => k.to \in {"WITHDRAWN", "REJECTED", "NEEDS_MORE_INFO"}
        /\ k.op = "status" => k.to \in ProfileStates \ {"NONE"} /\ profile[k.on] # "NONE"

Typed == StaffTypeOK /\ Len(forms) <= MAX_FORMS /\ TasksFit

-----------------------------------------------------------------------------
(* Types, and what requests in flight rest on. *)

\* Marking a form keeps the forms, their number and whom they are of.
LEMMA MarkKeeps ==
    ASSUME StaffTypeOK, NEW f \in FormIds, NEW st \in FormStates, MarkForm(f, st)
    PROVE  /\ forms' \in Seq(FormRow)
           /\ Len(forms') = Len(forms) /\ DOMAIN forms' = DOMAIN forms
           /\ \A g \in FormIds : /\ forms'[g].by = forms[g].by
                                 /\ forms'[g].status = IF g = f THEN st ELSE forms[g].status
<1>1. forms \in Seq(FormRow)
  BY DEF StaffTypeOK
<1>2. [forms[f] EXCEPT !.status = st] \in FormRow
  <2>1. forms[f] \in FormRow
    BY <1>1 DEF FormIds
  <2> QED
    BY <2>1 DEF FormRow
<1>3. forms' = [forms EXCEPT ![f] = [forms[f] EXCEPT !.status = st]]
  BY DEF MarkForm
<1>4. /\ forms' \in Seq(FormRow)
      /\ Len(forms') = Len(forms) /\ DOMAIN forms' = DOMAIN forms
  <2> DEFINE new == [forms[f] EXCEPT !.status = st]
  <2>1. forms' = [forms EXCEPT ![f] = new] /\ new \in FormRow
    BY <1>2, <1>3
  <2> HIDE DEF new
  <2> QED
    BY <1>1, <2>1 DEF FormIds
<1>5. \A g \in FormIds : /\ forms'[g].by = forms[g].by
                         /\ forms'[g].status = IF g = f THEN st ELSE forms[g].status
  <2> SUFFICES ASSUME NEW g \in FormIds
               PROVE  /\ forms'[g].by = forms[g].by
                      /\ forms'[g].status = IF g = f THEN st ELSE forms[g].status
    OBVIOUS
  <2>1. forms[g] \in FormRow
    BY <1>1 DEF FormIds
  <2>2. forms'[g] = IF g = f THEN [forms[f] EXCEPT !.status = st] ELSE forms[g]
    BY <1>1, <1>3 DEF FormIds
  <2> QED
    BY <2>1, <2>2 DEF FormRow
<1> QED
  BY <1>4, <1>5

\* A request is typed when its parts are.
LEMMA PlainTyped ==
    ASSUME NEW op \in {"roles", "submit", "review", "approve", "status", "order"}, NEW on \in Users
    PROVE  Plain(op, on) \in Task
BY StaffAssumption DEF Plain, Task, NoForm, ProfileStates

\* Taking up a request that fits keeps all types.
LEMMA EnqueueKeeps ==
    ASSUME Typed, NEW k \in Task, Enqueue(k),
           k.form # NoForm => k.form \in FormIds /\ forms[k.form].by = k.on,
           k.op \in {"review", "approve"} => k.form # NoForm,
           k.op = "submit" => k.by = k.on,
           k.op = "submit" /\ k.form # NoForm => k.to = "SUBMITTED",
           k.op = "review" => k.to \in {"WITHDRAWN", "REJECTED", "NEEDS_MORE_INFO"},
           k.op = "status" => k.to \in ProfileStates \ {"NONE"} /\ profile[k.on] # "NONE"
    PROVE  Typed'
<1>1. tasks' = tasks \cup {k} /\ UNCHANGED <<roles, forms, profile, working, slipped>>
  BY DEF Enqueue
<1>2. StaffTypeOK'
  BY <1>1 DEF Typed, StaffTypeOK
<1>3. TasksFit'
  BY <1>1 DEF Typed, TasksFit, FormIds
<1> QED
  BY <1>1, <1>2, <1>3 DEF Typed

\* A finished request leaves the others fitting, if no form and no profile is lost.
LEMMA DequeueKeeps ==
    ASSUME Typed, NEW k \in tasks, NEW stillSo \in BOOLEAN, Dequeue(k, stillSo),
           FormIds \subseteq FormIds',
           \A f \in FormIds : forms'[f].by = forms[f].by,
           \A u \in Users : profile[u] # "NONE" => profile'[u] # "NONE"
    PROVE  tasks' \subseteq Task /\ TasksFit' /\ slipped' \in BOOLEAN
<1>1. tasks' \subseteq tasks /\ slipped' = (slipped \/ ~stillSo)
  BY DEF Dequeue
<1>2. \A t \in tasks : t.on \in Users
  BY DEF Typed, StaffTypeOK, Task
<1> QED
  BY <1>1, <1>2 DEF Typed, StaffTypeOK, TasksFit

\* The forms that are there have an owner.
LEMMA FormOwner ==
    ASSUME Typed, NEW f \in FormIds
    PROVE  f \in 1..MAX_FORMS /\ forms[f].by \in Users /\ forms[f].status \in FormStates
<1>1. forms \in Seq(FormRow) /\ Len(forms) <= MAX_FORMS /\ MAX_FORMS \in Nat
  BY StaffAssumption DEF Typed, StaffTypeOK
<1>2. f \in 1..Len(forms) /\ Len(forms) \in Nat
  BY <1>1 DEF FormIds
<1>3. forms[f] \in FormRow
  BY <1>1, <1>2
<1> QED
  BY <1>1, <1>2, <1>3 DEF FormRow

-----------------------------------------------------------------------------
LEMMA AskRolesTyped ==
    ASSUME Typed, NEW actor \in Users, NEW u \in Users, NEW new \in RoleSets, AskRoles(actor, u, new)
    PROVE  Typed'
<1> DEFINE k == [Plain("roles", u) EXCEPT !.by = actor, !.roles = new]
<1>1. k \in Task
  BY PlainTyped, StaffAssumption DEF Task, Plain, StaffRoles, ADMIN_ROLES
<1>2. k.form = NoForm /\ k.op = "roles"
  BY DEF Plain
<1>3. Enqueue(k)
  BY DEF AskRoles
<1> HIDE DEF k
<1> QED
  BY <1>1, <1>2, <1>3, EnqueueKeeps

LEMMA AskToSubmitTyped ==
    ASSUME Typed, NEW u \in Users, AskToSubmit(u)
    PROVE  Typed'
<1>1. CASE Enqueue(Plain("submit", u))
  <2> DEFINE k == Plain("submit", u)
  <2>1. k \in Task /\ k.form = NoForm /\ k.op = "submit" /\ k.by = k.on
    BY PlainTyped DEF Plain
  <2> HIDE DEF k
  <2> QED
    BY <1>1, <2>1, EnqueueKeeps DEF k
<1>2. ASSUME NEW f \in OpenForms(u), Enqueue([Plain("submit", u) EXCEPT !.form = f, !.to = "SUBMITTED"])
      PROVE  Typed'
  <2> DEFINE k == [Plain("submit", u) EXCEPT !.form = f, !.to = "SUBMITTED"]
  <2>1. f \in FormIds /\ forms[f].by = u
    BY DEF OpenForms, FormsOf
  <2>2. k \in Task
    <3>1. Plain("submit", u) \in Task
      BY PlainTyped
    <3>2. f \in 0..MAX_FORMS
      BY <2>1, FormOwner, StaffAssumption
    <3> QED
      BY <3>1, <3>2 DEF Task, FormStates
  <2>3. k.form = f /\ k.op = "submit" /\ k.by = u /\ k.on = u /\ k.to = "SUBMITTED"
    BY DEF Plain
  <2>4. Enqueue(k)
    BY <1>2
  <2> HIDE DEF k
  <2> QED
    BY <2>1, <2>2, <2>3, <2>4, EnqueueKeeps
<1> QED
  BY <1>1, <1>2 DEF AskToSubmit

LEMMA AskToReviewTyped ==
    ASSUME Typed, NEW actor \in Users, NEW f \in FormIds, NEW st \in FormStates, AskToReview(actor, f, st)
    PROVE  Typed'
<1> DEFINE k == [Plain("review", forms[f].by) EXCEPT !.form = f, !.to = st]
<1>1. k \in Task
  <2>1. f \in 0..MAX_FORMS /\ forms[f].by \in Users
    BY FormOwner, StaffAssumption
  <2>2. Plain("review", forms[f].by) \in Task
    BY <2>1, PlainTyped
  <2> QED
    BY <2>1, <2>2 DEF Task
<1>2. k.form = f /\ k.op = "review" /\ k.on = forms[f].by /\ k.to = st
  BY DEF Plain
<1>3. Enqueue(k) /\ st \in {"WITHDRAWN", "REJECTED", "NEEDS_MORE_INFO"}
  BY DEF AskToReview
<1>4. f # NoForm
  BY FormOwner, StaffAssumption DEF NoForm
<1> HIDE DEF k
<1> QED
  BY <1>1, <1>2, <1>3, <1>4, EnqueueKeeps

LEMMA AskToApproveTyped ==
    ASSUME Typed, NEW actor \in Users, NEW f \in FormIds, AskToApprove(actor, f)
    PROVE  Typed'
<1> DEFINE new == roles[forms[f].by] \cup {"AUTHENTICATOR"}
           k == [Plain("approve", forms[f].by) EXCEPT !.form = f, !.roles = new]
<1>1. new \in SUBSET StaffRoles
  BY FormOwner DEF Typed, StaffTypeOK, StaffRoles
<1>2. k \in Task
  <2>1. f \in 0..MAX_FORMS /\ forms[f].by \in Users
    BY FormOwner, StaffAssumption
  <2>2. Plain("approve", forms[f].by) \in Task
    BY <2>1, PlainTyped
  <2> HIDE DEF new
  <2> QED
    BY <1>1, <2>1, <2>2 DEF Task
<1>3. k.form = f /\ k.op = "approve" /\ k.on = forms[f].by
  BY DEF Plain
<1>4. Enqueue(k) /\ f # NoForm
  BY FormOwner, StaffAssumption DEF AskToApprove, NoForm
<1> HIDE DEF k
<1> QED
  BY <1>2, <1>3, <1>4, EnqueueKeeps

LEMMA AskStatusTyped ==
    ASSUME Typed, NEW actor \in Users, NEW u \in Users, NEW st \in ProfileStates \ {"NONE"},
           AskStatus(actor, u, st)
    PROVE  Typed'
<1> DEFINE k == [Plain("status", u) EXCEPT !.to = st]
<1>1. k \in Task
  BY PlainTyped DEF Task, Plain
<1>2. k.form = NoForm /\ k.op = "status" /\ k.on = u /\ k.to = st
  BY DEF Plain
<1>3. Enqueue(k) /\ profile[u] # "NONE"
  BY DEF AskStatus
<1> HIDE DEF k
<1> QED
  BY <1>1, <1>2, <1>3, EnqueueKeeps

LEMMA AskToOrderTyped ==
    ASSUME Typed, NEW u \in Users, AskToOrder(u)
    PROVE  Typed'
<1> DEFINE k == Plain("order", u)
<1>1. k \in Task /\ k.form = NoForm /\ k.op = "order"
  BY PlainTyped DEF Plain
<1>2. Enqueue(k)
  BY DEF AskToOrder
<1> HIDE DEF k
<1> QED
  BY <1>1, <1>2, EnqueueKeeps

LEMMA SubmitFormTyped ==
    ASSUME Typed, NEW k \in tasks, SubmitForm(k)
    PROVE  Typed'
<1> DEFINE stillSo == profile[k.by] = "NONE" /\ OpenForms(k.by) = {k.form} \ {NoForm}
           new == [by |-> k.by, status |-> "SUBMITTED"]
<1>1. k \in Task /\ k.op = "submit" /\ k.by \in Users /\ Dequeue(k, stillSo) /\ UNCHANGED <<roles, profile, working>>
  BY DEF SubmitForm, Typed, StaffTypeOK, Task
<1>2. forms \in Seq(FormRow) /\ new \in FormRow
  BY <1>1 DEF Typed, StaffTypeOK, FormStates, FormRow
<1>3. /\ forms' \in Seq(FormRow)
      /\ Len(forms') <= MAX_FORMS
      /\ FormIds \subseteq FormIds'
      /\ \A f \in FormIds : forms'[f].by = forms[f].by
  <2>1. CASE k.form = NoForm
    <3>1. forms' = Append(forms, new) /\ Len(forms) < MAX_FORMS
      BY <2>1 DEF SubmitForm
    <3> HIDE DEF new
    <3> QED
      BY <3>1, <1>2, StaffAssumption DEF FormIds
  <2>2. CASE k.form # NoForm
    <3>1. MarkForm(k.form, "SUBMITTED") /\ k.form \in FormIds
      BY <2>2, <1>1 DEF SubmitForm, Typed, TasksFit
    <3> QED
      BY <3>1, MarkKeeps DEF Typed, FormStates, FormIds
  <2> QED
    BY <2>1, <2>2
<1>4. stillSo \in BOOLEAN
  OBVIOUS
<1>5. tasks' \subseteq Task /\ TasksFit' /\ slipped' \in BOOLEAN
  <2> HIDE DEF stillSo
  <2> QED
    BY <1>1, <1>3, <1>4, DequeueKeeps
<1> QED
  BY <1>1, <1>3, <1>5 DEF Typed, StaffTypeOK

LEMMA WriteReviewTyped ==
    ASSUME Typed, NEW k \in tasks, WriteReview(k)
    PROVE  Typed'
<1>1. /\ k.op = "review" /\ Dequeue(k, InReview(k.form)) /\ MarkForm(k.form, k.to)
      /\ UNCHANGED <<roles, profile, working>>
  BY DEF WriteReview
<1>2. k.form \in FormIds /\ k.to \in FormStates
  BY <1>1 DEF Typed, TasksFit, FormStates
<1>3. InReview(k.form) \in BOOLEAN
  BY DEF InReview
<1>4. /\ forms' \in Seq(FormRow)
      /\ Len(forms') <= MAX_FORMS /\ FormIds' = FormIds
      /\ \A f \in FormIds : forms'[f].by = forms[f].by
  BY <1>1, <1>2, MarkKeeps DEF Typed, FormIds
<1>5. tasks' \subseteq Task /\ TasksFit' /\ slipped' \in BOOLEAN
  BY <1>1, <1>3, <1>4, DequeueKeeps
<1> QED
  BY <1>1, <1>4, <1>5 DEF Typed, StaffTypeOK

LEMMA ApproveTyped ==
    ASSUME Typed, NEW k \in tasks, Approve(k)
    PROVE  Typed'
<1> DEFINE stillSo == k.roles = roles[k.on] \cup {"AUTHENTICATOR"}
<1>1. /\ k \in Task /\ k.op = "approve" /\ Dequeue(k, stillSo) /\ UNCHANGED working
      /\ k.on \in Users /\ k.roles \in SUBSET StaffRoles /\ k.form \in FormIds
  BY DEF Approve, Typed, StaffTypeOK, TasksFit, Task
<1>2. /\ forms' \in Seq(FormRow)
      /\ Len(forms') <= MAX_FORMS /\ FormIds' = FormIds
      /\ \A f \in FormIds : forms'[f].by = forms[f].by
      /\ roles' \in [Users -> SUBSET StaffRoles]
      /\ profile' \in [Users -> ProfileStates]
      /\ \A u \in Users : profile[u] # "NONE" => profile'[u] # "NONE"
  <2>1. CASE profile[k.on] = "NONE"
    <3>1. /\ MarkForm(k.form, "APPROVED") /\ roles' = [roles EXCEPT ![k.on] = k.roles]
          /\ profile' = [profile EXCEPT ![k.on] = "ACTIVE"]
      BY <2>1 DEF Approve
    <3>2. "APPROVED" \in FormStates /\ "ACTIVE" \in ProfileStates
      BY DEF FormStates, ProfileStates
    <3> QED
      BY <3>1, <3>2, <1>1, MarkKeeps DEF Typed, StaffTypeOK, FormIds
  <2>2. CASE profile[k.on] # "NONE"
    BY <2>2 DEF Approve, Typed, StaffTypeOK, FormIds
  <2> QED
    BY <2>1, <2>2
<1>3. stillSo \in BOOLEAN
  OBVIOUS
<1>4. tasks' \subseteq Task /\ TasksFit' /\ slipped' \in BOOLEAN
  <2> HIDE DEF stillSo
  <2> QED
    BY <1>1, <1>2, <1>3, DequeueKeeps
<1> QED
  BY <1>1, <1>2, <1>4 DEF Typed, StaffTypeOK

\* Writes that leave the forms alone.
LEMMA WriteTyped ==
    ASSUME Typed, NEW k \in tasks, WriteRoles(k) \/ WriteStatus(k) \/ PlaceOrder(k)
    PROVE  Typed'
<1>1. PICK stillSo \in BOOLEAN : Dequeue(k, stillSo)
  BY DEF WriteRoles, WriteStatus, PlaceOrder, MayChangeRoles
<1>2. k \in Task /\ k.on \in Users /\ k.roles \in SUBSET StaffRoles /\ UNCHANGED forms
  BY DEF WriteRoles, WriteStatus, PlaceOrder, Typed, StaffTypeOK, Task
<1>3. /\ roles' \in [Users -> SUBSET StaffRoles] /\ working' \subseteq Users
      /\ profile' \in [Users -> ProfileStates]
      /\ \A u \in Users : profile[u] # "NONE" => profile'[u] # "NONE"
  <2>1. CASE WriteRoles(k)
    BY <2>1, <1>2 DEF WriteRoles, Typed, StaffTypeOK
  <2>2. CASE WriteStatus(k)
    <3>1. k.to \in ProfileStates \ {"NONE"}
      BY <2>2 DEF WriteStatus, Typed, TasksFit
    <3> QED
      BY <2>2, <3>1, <1>2 DEF WriteStatus, Typed, StaffTypeOK
  <2>3. CASE PlaceOrder(k)
    BY <2>3, <1>2 DEF PlaceOrder, Typed, StaffTypeOK
  <2> QED
    BY <2>1, <2>2, <2>3
<1>4. tasks' \subseteq Task /\ TasksFit' /\ slipped' \in BOOLEAN
  BY <1>1, <1>2, <1>3, DequeueKeeps DEF FormIds
<1> QED
  BY <1>2, <1>3, <1>4 DEF Typed, StaffTypeOK

LEMMA TypedInit == StaffInit => Typed
<1> SUFFICES ASSUME StaffInit PROVE Typed
  OBVIOUS
<1>1. roles \in [Users -> SUBSET StaffRoles]
  BY DEF StaffInit, StaffRoles, ADMIN_ROLES, OPS_ADMIN_ROLES
<1>2. profile \in [Users -> ProfileStates]
  BY DEF StaffInit, ProfileStates
<1>3. forms = <<>> /\ Len(forms) <= MAX_FORMS
  BY StaffAssumption DEF StaffInit
<1>4. forms \in Seq(FormRow)
  BY <1>3
<1>5. TasksFit /\ tasks \subseteq Task /\ working \subseteq Users /\ slipped \in BOOLEAN
  BY DEF StaffInit, TasksFit
<1> QED
  BY <1>1, <1>2, <1>3, <1>4, <1>5 DEF Typed, StaffTypeOK

LEMMA TypedStep == Typed /\ [StaffNext]_staffVars => Typed'
<1> SUFFICES ASSUME Typed, [StaffNext]_staffVars PROVE Typed'
  OBVIOUS
<1>1. CASE UNCHANGED staffVars
  BY <1>1 DEF staffVars, Typed, StaffTypeOK, TasksFit, FormIds
<1>2. ASSUME NEW u \in Users, FinishOrders(u) PROVE Typed'
  BY <1>2 DEF FinishOrders, Typed, StaffTypeOK, TasksFit, FormIds
<1>3. CASE StaffStep
  BY <1>2, <1>3, AskRolesTyped, AskStatusTyped, AskToApproveTyped, AskToReviewTyped, AskToOrderTyped,
     AskToSubmitTyped, SubmitFormTyped, WriteReviewTyped, ApproveTyped, WriteTyped, StaffAssumption
     DEF StaffStep
<1> QED
  BY <1>1, <1>3 DEF StaffNext

\* Types and what requests in flight rest on hold in every reachable state of the staff.
LEMMA TypedAlways == StaffSpec => []Typed
BY TypedInit, TypedStep, PTL DEF StaffSpec

(* Every reachable state of roles, applications and profiles is well typed. *)
THEOREM StaffTyped == StaffSpec => []StaffTypeOK
<1>1. Typed => StaffTypeOK
  BY DEF Typed
<1> QED
  BY <1>1, TypedAlways, PTL

-----------------------------------------------------------------------------
(* A SUPER_ADMIN remains. *)

\* A write of roles that were checked, or of more than the user has, leaves a SUPER_ADMIN.
LEMMA SuperStep == Typed /\ SuperRemains /\ [StaffNext]_staffVars => SuperRemains'
<1> SUFFICES ASSUME Typed, SuperRemains, [StaffNext]_staffVars, ~slipped' PROVE Supers' # {}
  BY DEF SuperRemains
<1>1. CASE UNCHANGED <<roles, slipped>>
  BY <1>1 DEF SuperRemains, Supers
<1>2. ASSUME NEW k \in tasks, NEW stillSo \in BOOLEAN, Dequeue(k, stillSo) PROVE Supers # {} /\ stillSo
  BY <1>2 DEF Dequeue, SuperRemains
<1>3. \A k \in tasks : k.on \in Users /\ k.roles \in SUBSET StaffRoles
  BY DEF Typed, StaffTypeOK, Task
<1>4. ASSUME NEW k \in tasks, roles' = [roles EXCEPT ![k.on] = k.roles], Supers # {},
             k.on \in Supers /\ "SUPER_ADMIN" \notin k.roles => Supers \ {k.on} # {}
      PROVE  Supers' # {}
  <2>1. PICK s \in Supers : s # k.on \/ "SUPER_ADMIN" \in k.roles
    BY <1>4
  <2> QED
    BY <2>1, <1>3, <1>4 DEF Supers, Typed, StaffTypeOK
<1>5. ASSUME NEW k \in tasks, WriteRoles(k) PROVE Supers' # {}
  <2>1. Supers # {} /\ MayChangeRoles(k.by, k.on, k.roles)
    BY <1>2, <1>5 DEF WriteRoles, MayChangeRoles
  <2> QED
    BY <1>4, <1>5, <2>1 DEF WriteRoles, MayChangeRoles
<1>6. ASSUME NEW k \in tasks, Approve(k) PROVE Supers' # {}
  <2>1. Supers # {} /\ k.roles = roles[k.on] \cup {"AUTHENTICATOR"}
    BY <1>2, <1>6 DEF Approve
  <2>2. k.on \in Supers => "SUPER_ADMIN" \in k.roles
    BY <2>1 DEF Supers
  <2>3. CASE roles' = [roles EXCEPT ![k.on] = k.roles]
    BY <1>4, <2>1, <2>2, <2>3
  <2>4. CASE UNCHANGED roles
    BY <2>1, <2>4 DEF Supers
  <2> QED
    BY <2>3, <2>4, <1>6 DEF Approve
<1>7. ASSUME NEW k \in tasks, SubmitForm(k) \/ WriteReview(k) \/ WriteStatus(k) \/ PlaceOrder(k)
      PROVE  Supers' # {}
  <2>1. ~slipped /\ UNCHANGED roles
    BY <1>7 DEF SubmitForm, WriteReview, WriteStatus, PlaceOrder, Dequeue
  <2> QED
    BY <2>1 DEF SuperRemains, Supers
<1>8. CASE StaffStep
  BY <1>1, <1>5, <1>6, <1>7, <1>8 DEF StaffStep, AskRoles, AskStatus, AskToApprove, AskToReview,
     AskToOrder, AskToSubmit, FinishOrders, Enqueue
<1> QED
  BY <1>1, <1>8 DEF StaffNext, staffVars

(* Unless a write outlived its check, the system keeps a SUPER_ADMIN, however    *)
(* many users grant, revoke and approve (setRoles, approveAuthenticator).       *)
THEOREM ASuperRemains == StaffSpec => []SuperRemains
<1>1. StaffInit => SuperRemains
  BY DEF StaffInit, SuperRemains
<1> QED
  BY <1>1, SuperStep, TypedAlways, PTL DEF StaffSpec

-----------------------------------------------------------------------------
(* Who is an authenticator, and by which form. *)

\* A step that touches neither forms nor profiles nor orders keeps the agreement.
LEMMA FitUnchanged ==
    ASSUME AuthenticatorsFit, UNCHANGED <<forms, profile, working>>, slipped => slipped'
    PROVE  AuthenticatorsFit'
BY DEF AuthenticatorsFit, AppointedOnce, RemovedHasNoWork, OpenForms, FormsOf, FormIds, InReview

\* A write whose check still held came to a staff that was in order.
LEMMA NoSlip ==
    ASSUME AuthenticatorsFit, NEW k \in tasks, NEW stillSo \in BOOLEAN, Dequeue(k, stillSo), ~slipped'
    PROVE  stillSo /\ AppointedOnce /\ RemovedHasNoWork
BY DEF Dequeue, AuthenticatorsFit

LEMMA SubmitFormFits ==
    ASSUME Typed, AuthenticatorsFit, NEW k \in tasks, SubmitForm(k)
    PROVE  AuthenticatorsFit'
<1> SUFFICES ASSUME ~slipped' PROVE AppointedOnce' /\ RemovedHasNoWork'
  BY DEF AuthenticatorsFit
<1>1. /\ OpenForms(k.by) = {k.form} \ {NoForm} /\ AppointedOnce /\ RemovedHasNoWork
      /\ UNCHANGED <<profile, working>>
  <2> DEFINE stillSo == profile[k.by] = "NONE" /\ OpenForms(k.by) = {k.form} \ {NoForm}
  <2>1. stillSo \in BOOLEAN /\ Dequeue(k, stillSo) /\ UNCHANGED <<profile, working>>
    BY DEF SubmitForm
  <2>2. stillSo /\ AppointedOnce /\ RemovedHasNoWork
    <3> HIDE DEF stillSo
    <3> QED
      BY <2>1, NoSlip
  <2> QED
    BY <2>1, <2>2
<1>2. CASE k.form = NoForm
  <2> DEFINE new == [by |-> k.by, status |-> "SUBMITTED"]
             n == Len(forms) + 1
  <2>1. forms' = Append(forms, new) /\ forms \in Seq(FormRow) /\ OpenForms(k.by) = {}
    BY <1>1, <1>2 DEF SubmitForm, Typed, StaffTypeOK
  <2>2. /\ FormIds' = FormIds \cup {n} /\ n \notin FormIds
        /\ \A f \in FormIds : forms'[f] = forms[f]
        /\ forms'[n].by = k.by /\ forms'[n].status = "SUBMITTED"
    <3>1. forms'[n] = new
      <4> HIDE DEF new
      <4> QED
        BY <2>1 DEF FormIds
    <3>2. FormIds' = FormIds \cup {n} /\ n \notin FormIds /\ \A f \in FormIds : forms'[f] = forms[f]
      <4> HIDE DEF new
      <4> QED
        BY <2>1 DEF FormIds
    <3> QED
      BY <3>1, <3>2
  <2> HIDE DEF n, new
  <2>3. \A u \in Users, f \in FormIds' :
           f \in OpenForms(u)' <=> IF f = n THEN u = k.by ELSE f \in OpenForms(u)
    BY <2>2 DEF OpenForms, FormsOf, InReview
  <2>4. \A u \in Users, f \in FormIds' :
           f \in FormsOf(u)' /\ forms'[f].status = "APPROVED" <=> f \in FormsOf(u) /\ forms[f].status = "APPROVED"
    BY <2>2 DEF FormsOf
  <2>5. \A u \in Users : \A i, j \in OpenForms(u)' : i = j
    <3> SUFFICES ASSUME NEW u \in Users, NEW i \in OpenForms(u)', NEW j \in OpenForms(u)' PROVE i = j
      OBVIOUS
    <3>1. i \in FormIds' /\ j \in FormIds'
      BY DEF OpenForms, FormsOf
    <3>2. CASE u = k.by
      BY <2>1, <2>3, <3>1, <3>2
    <3>3. CASE u # k.by
      BY <1>1, <2>3, <3>1, <3>3 DEF AppointedOnce
    <3> QED
      BY <3>2, <3>3
  <2>6. AppointedOnce'
    BY <1>1, <2>2, <2>4, <2>5 DEF AppointedOnce, FormsOf
  <2> QED
    BY <1>1, <2>6 DEF RemovedHasNoWork
<1>3. CASE k.form # NoForm
  <2>1. /\ MarkForm(k.form, "SUBMITTED") /\ k.form \in FormIds /\ "SUBMITTED" \in FormStates
        /\ k.form \in OpenForms(k.by)
    BY <1>1, <1>3 DEF SubmitForm, Typed, TasksFit, FormStates
  <2>2. \A u \in Users : OpenForms(u)' = OpenForms(u)
    BY <2>1, MarkKeeps DEF OpenForms, FormsOf, InReview, Typed, FormIds
  <2>3. \A u \in Users : /\ FormsOf(u)' = FormsOf(u)
                         /\ \A f \in FormsOf(u) : forms'[f].status = "APPROVED" <=> forms[f].status = "APPROVED"
    BY <2>1, MarkKeeps DEF OpenForms, FormsOf, InReview, Typed, FormIds
  <2>4. AppointedOnce'
    BY <1>1, <2>2, <2>3 DEF AppointedOnce
  <2> QED
    BY <1>1, <2>4 DEF RemovedHasNoWork
<1> QED
  BY <1>2, <1>3

LEMMA WriteReviewFits ==
    ASSUME Typed, AuthenticatorsFit, NEW k \in tasks, WriteReview(k)
    PROVE  AuthenticatorsFit'
<1> SUFFICES ASSUME ~slipped' PROVE AppointedOnce' /\ RemovedHasNoWork'
  BY DEF AuthenticatorsFit
<1>1. InReview(k.form) \in BOOLEAN
  BY DEF InReview
<1>2. InReview(k.form) /\ AppointedOnce /\ RemovedHasNoWork /\ UNCHANGED <<profile, working>>
  BY <1>1, NoSlip DEF WriteReview
<1>3. /\ MarkForm(k.form, k.to) /\ k.form \in FormIds /\ k.to \in FormStates /\ k.to # "APPROVED"
  BY DEF WriteReview, Typed, TasksFit, FormStates
<1>4. \A u \in Users : OpenForms(u)' \subseteq OpenForms(u)
  BY <1>2, <1>3, MarkKeeps DEF OpenForms, FormsOf, InReview, Typed, FormIds
<1>5. \A u \in Users : /\ FormsOf(u)' = FormsOf(u)
                       /\ \A f \in FormsOf(u) : forms'[f].status = "APPROVED" <=> forms[f].status = "APPROVED"
  BY <1>2, <1>3, MarkKeeps DEF FormsOf, InReview, Typed, FormIds
<1>6. AppointedOnce'
  BY <1>2, <1>4, <1>5 DEF AppointedOnce
<1> QED
  BY <1>2, <1>6 DEF RemovedHasNoWork

LEMMA ApproveFits ==
    ASSUME Typed, AuthenticatorsFit, NEW k \in tasks, Approve(k)
    PROVE  AuthenticatorsFit'
<1>1. CASE profile[k.on] # "NONE"
  <2>1. UNCHANGED <<forms, profile, working>> /\ (slipped => slipped')
    BY <1>1 DEF Approve, Dequeue
  <2> QED
    BY <2>1, FitUnchanged
<1>2. CASE profile[k.on] = "NONE"
  <2> SUFFICES ASSUME ~slipped' PROVE AppointedOnce' /\ RemovedHasNoWork'
    BY DEF AuthenticatorsFit
  <2>1. AppointedOnce /\ RemovedHasNoWork
    BY DEF Approve, Dequeue, AuthenticatorsFit
  <2>2. /\ MarkForm(k.form, "APPROVED") /\ profile' = [profile EXCEPT ![k.on] = "ACTIVE"] /\ UNCHANGED working
        /\ k.form \in FormIds /\ forms[k.form].by = k.on /\ "APPROVED" \in FormStates /\ k.on \in Users
    BY <1>2 DEF Approve, Typed, StaffTypeOK, TasksFit, Task, FormStates
  <2>3. \A u \in Users : /\ OpenForms(u)' \subseteq OpenForms(u)
                         /\ FormsOf(u)' = FormsOf(u)
                         /\ \A f \in FormsOf(u) : forms'[f].status = "APPROVED"
                                                    <=> f = k.form \/ forms[f].status = "APPROVED"
    BY <2>2, MarkKeeps DEF OpenForms, FormsOf, InReview, Typed, FormIds
  <2>4. \A u \in Users : profile'[u] = IF u = k.on THEN "ACTIVE" ELSE profile[u]
    BY <2>2 DEF Typed, StaffTypeOK
  <2>5. k.form \in FormsOf(k.on) /\ \A u \in Users \ {k.on} : k.form \notin FormsOf(u)
    BY <2>2 DEF FormsOf
  <2>6. \A f \in FormsOf(k.on) : forms[f].status # "APPROVED"
    BY <1>2, <2>1, <2>2 DEF AppointedOnce
  <2>7. AppointedOnce'
    BY <2>1, <2>2, <2>3, <2>4, <2>5, <2>6 DEF AppointedOnce
  <2>8. RemovedHasNoWork'
    BY <2>1, <2>2, <2>4 DEF RemovedHasNoWork, Typed, StaffTypeOK
  <2> QED
    BY <2>7, <2>8
<1> QED
  BY <1>1, <1>2

LEMMA WriteStatusFits ==
    ASSUME Typed, AuthenticatorsFit, NEW k \in tasks, WriteStatus(k)
    PROVE  AuthenticatorsFit'
<1> SUFFICES ASSUME ~slipped' PROVE AppointedOnce' /\ RemovedHasNoWork'
  BY DEF AuthenticatorsFit
<1>1. /\ k.to = "REMOVED" => k.on \notin working
      /\ AppointedOnce /\ RemovedHasNoWork /\ UNCHANGED <<forms, working>>
      /\ profile' = [profile EXCEPT ![k.on] = k.to]
  BY NoSlip DEF WriteStatus
<1>2. k.to \in ProfileStates \ {"NONE"} /\ profile[k.on] # "NONE" /\ k.on \in Users
  BY DEF WriteStatus, Typed, StaffTypeOK, TasksFit, Task
<1>3. \A u \in Users : /\ OpenForms(u)' = OpenForms(u) /\ FormsOf(u)' = FormsOf(u)
                       /\ profile'[u] = IF u = k.on THEN k.to ELSE profile[u]
  BY <1>1 DEF OpenForms, FormsOf, FormIds, InReview, Typed, StaffTypeOK
<1>4. AppointedOnce'
  BY <1>1, <1>2, <1>3 DEF AppointedOnce
<1>5. RemovedHasNoWork'
  BY <1>1, <1>3 DEF RemovedHasNoWork, Typed, StaffTypeOK
<1> QED
  BY <1>4, <1>5

LEMMA PlaceOrderFits ==
    ASSUME Typed, AuthenticatorsFit, NEW k \in tasks, PlaceOrder(k)
    PROVE  AuthenticatorsFit'
<1> SUFFICES ASSUME ~slipped' PROVE AppointedOnce' /\ RemovedHasNoWork'
  BY DEF AuthenticatorsFit
<1>1. /\ profile[k.on] # "REMOVED" /\ AppointedOnce /\ RemovedHasNoWork
      /\ UNCHANGED <<forms, profile>> /\ working' = working \cup {k.on}
  BY NoSlip DEF PlaceOrder
<1>2. AppointedOnce'
  BY <1>1 DEF AppointedOnce, OpenForms, FormsOf, FormIds, InReview
<1> QED
  BY <1>1, <1>2 DEF RemovedHasNoWork

LEMMA FitStep == Typed /\ AuthenticatorsFit /\ [StaffNext]_staffVars => AuthenticatorsFit'
<1> SUFFICES ASSUME Typed, AuthenticatorsFit, [StaffNext]_staffVars PROVE AuthenticatorsFit'
  OBVIOUS
<1>1. CASE UNCHANGED <<forms, profile, working, slipped>>
  BY <1>1, FitUnchanged
<1>2. ASSUME NEW k \in tasks, WriteRoles(k) PROVE AuthenticatorsFit'
  <2>1. UNCHANGED <<forms, profile, working>> /\ (slipped => slipped')
    BY <1>2 DEF WriteRoles, Dequeue
  <2> QED
    BY <2>1, FitUnchanged
<1>3. ASSUME NEW u \in Users, FinishOrders(u) PROVE AuthenticatorsFit'
  BY <1>3 DEF FinishOrders, AuthenticatorsFit, AppointedOnce, RemovedHasNoWork, OpenForms, FormsOf,
     FormIds, InReview
<1>4. CASE StaffStep
  BY <1>1, <1>2, <1>3, <1>4, SubmitFormFits, WriteReviewFits, ApproveFits, WriteStatusFits, PlaceOrderFits
     DEF StaffStep, AskRoles, AskStatus, AskToApprove, AskToReview, AskToOrder, AskToSubmit, Enqueue
<1> QED
  BY <1>1, <1>4 DEF StaffNext, staffVars

(* Unless a write outlived its check: an applicant has one form in review at    *)
(* most, is an authenticator by exactly one approved form, and once removed      *)
(* has no order in progress (submitApplication, approveAuthenticator,            *)
(* setAuthenticatorStatus).                                                    *)
THEOREM AuthenticatorsStayFit == StaffSpec => []AuthenticatorsFit
<1>1. StaffInit => AuthenticatorsFit
  BY DEF StaffInit, AuthenticatorsFit, AppointedOnce, RemovedHasNoWork, OpenForms, FormsOf, FormIds
<1> QED
  BY <1>1, FitStep, TypedAlways, PTL DEF StaffSpec
=============================================================================
