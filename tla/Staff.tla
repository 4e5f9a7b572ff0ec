------------------------------- MODULE Staff --------------------------------
(***************************************************************************)
(* Who works for the platform: the roles of its users, applications to      *)
(* become an authenticator, and the authenticators (admin.controller.ts,     *)
(* authenticators.controller.ts).  A request reads and checks, awaits, and    *)
(* writes; tasks holds what it is about to write.                            *)
(*                                                                         *)
(* The history variable slipped says that a write came after what its        *)
(* request had checked ceased to be so; no action depends on it.             *)
(***************************************************************************)
EXTENDS Naturals, Sequences, FiniteSets

CONSTANTS
    Users,
    Applicants,     \* bound: users who apply
    RoleSets,       \* bound: sets of roles that are granted
    MAX_FORMS,      \* bound: applications
    MAX_TASKS,      \* bound: requests in flight together
    STAFF_ON        \* bound: whether behaviours continue once a request has slipped

ASSUME StaffAssumption ==
    /\ Applicants \subseteq Users
    /\ RoleSets \subseteq SUBSET {"AUTHENTICATOR", "OPS_AGENT", "OPS_ADMIN", "SUPER_ADMIN"}
    /\ {MAX_FORMS, MAX_TASKS} \subseteq Nat
    /\ STAFF_ON \in BOOLEAN

VARIABLES
    roles,      \* User.roles without BUYER and SELLER, which decide nothing here
    forms,      \* rows of AuthenticatorApplication, oldest first
    profile,    \* row of Authenticator: its status
    working,    \* authenticators with an order in progress
    tasks,      \* requests in flight
    slipped     \* history

staffVars == <<roles, forms, profile, working, tasks, slipped>>

ADMIN_ROLES == {"OPS_AGENT", "OPS_ADMIN", "SUPER_ADMIN"}
StaffRoles == {"AUTHENTICATOR"} \cup ADMIN_ROLES
OPS_ADMIN_ROLES == {"OPS_ADMIN", "SUPER_ADMIN"}
OpsAdmins == { u \in Users : roles[u] \cap OPS_ADMIN_ROLES # {} }
Supers == { u \in Users : "SUPER_ADMIN" \in roles[u] }

FormStates == {"SUBMITTED", "NEEDS_MORE_INFO", "APPROVED", "REJECTED", "WITHDRAWN"}
FormRow == [by : Users, status : FormStates]
ProfileStates == {"NONE", "ACTIVE", "SUSPENDED", "REMOVED"}
FormIds == DOMAIN forms
NoForm == 0
InReview(k) == forms[k].status \in {"SUBMITTED", "NEEDS_MORE_INFO"}
FormsOf(u) == { k \in FormIds : forms[k].by = u }
OpenForms(u) == { k \in FormsOf(u) : InReview(k) }
IsLatest(k) == \A j \in OpenForms(forms[k].by) : j <= k

\* What a request is about to write: the roles of a user, the status of a form or of a profile.
Task == [op : {"roles", "submit", "review", "approve", "status", "order"}, by : Users, on : Users,
         form : 0..MAX_FORMS, roles : SUBSET StaffRoles, to : FormStates \cup ProfileStates]
Plain(op, on) == [op |-> op, by |-> on, on |-> on, form |-> NoForm, roles |-> {}, to |-> "NONE"]

Enqueue(k) ==
    /\ Cardinality(tasks) < MAX_TASKS
    /\ tasks' = tasks \cup {k}
    /\ UNCHANGED <<roles, forms, profile, working, slipped>>

Dequeue(k, stillSo) ==
    /\ tasks' = tasks \ {k}
    /\ slipped' = (slipped \/ ~stillSo)

MarkForm(k, st) == forms' = [forms EXCEPT ![k].status = st]

-----------------------------------------------------------------------------
(* setRoles *)

\* Variant: the user whose roles change is counted among the others.
MayChangeRolesCounted(actor, u, new) ==
    /\ actor \in OpsAdmins
    /\ ((roles[u] \ new) \cup (new \ roles[u])) \cap OPS_ADMIN_ROLES # {} => actor \in Supers
    /\ actor = u => new \cap ADMIN_ROLES # {}
    /\ u \in Supers /\ "SUPER_ADMIN" \notin new => Supers # {}

\* Only a SUPER_ADMIN touches the admin roles, nobody drops their own last one, and one
\* SUPER_ADMIN remains.
MayChangeRoles(actor, u, new) ==
    /\ actor \in OpsAdmins
    /\ ((roles[u] \ new) \cup (new \ roles[u])) \cap OPS_ADMIN_ROLES # {} => actor \in Supers
    /\ actor = u => new \cap ADMIN_ROLES # {}
    /\ u \in Supers /\ "SUPER_ADMIN" \notin new => Supers \ {u} # {}

AskRoles(actor, u, new) ==
    /\ new # roles[u]
    /\ MayChangeRoles(actor, u, new)
    /\ Enqueue([Plain("roles", u) EXCEPT !.by = actor, !.roles = new])

WriteRoles(k) ==
    /\ k.op = "roles"
    /\ roles' = [roles EXCEPT ![k.on] = k.roles]
    /\ Dequeue(k, MayChangeRoles(k.by, k.on, k.roles))
    /\ UNCHANGED <<forms, profile, working>>

-----------------------------------------------------------------------------
(* Applications: submitApplication, withdrawApplication, and their review. *)

\* The form in review is written again; without one, a new form is made.
AskToSubmit(u) ==
    /\ profile[u] = "NONE"
    /\ IF OpenForms(u) = {}
       THEN Len(forms) < MAX_FORMS /\ Enqueue(Plain("submit", u))
       ELSE \E k \in OpenForms(u) :
               IsLatest(k) /\ Enqueue([Plain("submit", u) EXCEPT !.form = k, !.to = "SUBMITTED"])

SubmitForm(k) ==
    /\ k.op = "submit"
    /\ IF k.form = NoForm
       THEN /\ Len(forms) < MAX_FORMS
            /\ forms' = Append(forms, [by |-> k.by, status |-> "SUBMITTED"])
       ELSE MarkForm(k.form, "SUBMITTED")
    /\ Dequeue(k, profile[k.by] = "NONE" /\ OpenForms(k.by) = {k.form} \ {NoForm})
    /\ UNCHANGED <<roles, profile, working>>

\* Withdrawal by the applicant, rejection, and the request for more information.
AskToReview(actor, f, st) ==
    /\ InReview(f)
    /\ IF st = "WITHDRAWN" THEN actor = forms[f].by /\ IsLatest(f)
                           ELSE st \in {"REJECTED", "NEEDS_MORE_INFO"} /\ actor \in OpsAdmins
    /\ Enqueue([Plain("review", forms[f].by) EXCEPT !.form = f, !.to = st])

WriteReview(k) ==
    /\ k.op = "review"
    /\ MarkForm(k.form, k.to)
    /\ Dequeue(k, InReview(k.form))
    /\ UNCHANGED <<roles, profile, working>>

\* A form may be approved after it was rejected or withdrawn.
AskToApprove(actor, f) ==
    /\ actor \in OpsAdmins
    /\ forms[f].status # "APPROVED"
    /\ profile[forms[f].by] = "NONE"
    /\ Enqueue([Plain("approve", forms[f].by) EXCEPT
                   !.form = f, !.roles = roles[forms[f].by] \cup {"AUTHENTICATOR"}])

\* Variant: the form is left as it was.
ApproveFormless(k) ==
    /\ k.op = "approve"
    /\ profile[k.on] = "NONE"
    /\ profile' = [profile EXCEPT ![k.on] = "ACTIVE"]
    /\ roles' = [roles EXCEPT ![k.on] = k.roles]
    /\ Dequeue(k, k.roles = roles[k.on] \cup {"AUTHENTICATOR"})
    /\ UNCHANGED <<forms, working>>

\* One transaction; it fails if the user has a profile by now (userId is unique).
Approve(k) ==
    /\ k.op = "approve"
    /\ IF profile[k.on] = "NONE"
       THEN /\ profile' = [profile EXCEPT ![k.on] = "ACTIVE"]
            /\ MarkForm(k.form, "APPROVED")
            /\ roles' = [roles EXCEPT ![k.on] = k.roles]
       ELSE UNCHANGED <<profile, forms, roles>>
    /\ Dequeue(k, k.roles = roles[k.on] \cup {"AUTHENTICATOR"})
    /\ UNCHANGED working

-----------------------------------------------------------------------------
(* setAuthenticatorStatus, and the orders that authenticators get. *)

AskStatus(actor, u, st) ==
    /\ actor \in OpsAdmins
    /\ profile[u] \notin {"NONE", st}
    /\ st = "REMOVED" => u \notin working
    /\ Enqueue([Plain("status", u) EXCEPT !.to = st])

WriteStatus(k) ==
    /\ k.op = "status"
    /\ profile' = [profile EXCEPT ![k.on] = k.to]
    /\ Dequeue(k, k.to = "REMOVED" => k.on \notin working)
    /\ UNCHANGED <<roles, forms, working>>

\* createFromListing: only an active authenticator may be chosen.
AskToOrder(u) ==
    /\ profile[u] = "ACTIVE"
    /\ Enqueue(Plain("order", u))

PlaceOrder(k) ==
    /\ k.op = "order"
    /\ working' = working \cup {k.on}
    /\ Dequeue(k, profile[k.on] # "REMOVED")
    /\ UNCHANGED <<roles, forms, profile>>

\* The last order in progress is completed, refunded, disputed or failed.
FinishOrders(u) ==
    /\ u \in working
    /\ working' = working \ {u}
    /\ UNCHANGED <<roles, forms, profile, tasks, slipped>>

StaffInit ==
    /\ roles \in [Users -> SUBSET OPS_ADMIN_ROLES]
    /\ Supers # {}
    /\ forms = <<>>
    /\ profile = [u \in Users |-> "NONE"]
    /\ working = {}
    /\ tasks = {}
    /\ slipped = FALSE

StaffStep ==
    \/ \E actor, u \in Users :
          \/ \E new \in RoleSets : AskRoles(actor, u, new)
          \/ \E st \in ProfileStates \ {"NONE"} : AskStatus(actor, u, st)
    \/ \E actor \in Users, f \in FormIds :
          AskToApprove(actor, f) \/ \E st \in FormStates : AskToReview(actor, f, st)
    \/ \E u \in Users : AskToOrder(u) \/ FinishOrders(u)
    \/ \E u \in Applicants : AskToSubmit(u)
    \/ \E k \in tasks : \/ WriteRoles(k) \/ SubmitForm(k) \/ WriteReview(k) \/ Approve(k)
                        \/ WriteStatus(k) \/ PlaceOrder(k)

StaffNext == (STAFF_ON \/ ~slipped) /\ StaffStep

StaffSpec == StaffInit /\ [][StaffNext]_staffVars

-----------------------------------------------------------------------------
(* Properties. *)

StaffTypeOK ==
    /\ roles \in [Users -> SUBSET StaffRoles]
    /\ forms \in Seq(FormRow)
    /\ profile \in [Users -> ProfileStates]
    /\ working \subseteq Users
    /\ tasks \subseteq Task
    /\ slipped \in BOOLEAN

(* Unless a write outlived its check, the system keeps a SUPER_ADMIN, whoever  *)
(* grants, revokes and approves (setRoles: "Cannot remove the last             *)
(* SUPER_ADMIN", approveAuthenticator).                                        *)
SuperRemains == ~slipped => Supers # {}

\* One form in review at most, and a profile for exactly one approved form.
AppointedOnce ==
    \A u \in Users :
        /\ \A j, k \in OpenForms(u) : j = k
        /\ \A j, k \in FormsOf(u) : forms[j].status = "APPROVED" /\ forms[k].status = "APPROVED" => j = k
        /\ profile[u] # "NONE" <=> \E k \in FormsOf(u) : forms[k].status = "APPROVED"

RemovedHasNoWork == \A u \in working : profile[u] # "REMOVED"

(* Unless a write outlived its check: an applicant has one form in review at    *)
(* most, is an authenticator by exactly one approved form (submitApplication,    *)
(* approveAuthenticator), and once removed has no order in progress             *)
(* (setAuthenticatorStatus).                                                   *)
AuthenticatorsFit == ~slipped => AppointedOnce /\ RemovedHasNoWork
=============================================================================
