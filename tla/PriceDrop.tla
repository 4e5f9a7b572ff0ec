----------------------------- MODULE PriceDrop ------------------------------
(***************************************************************************)
(* The price of one listing (listings.service.ts).  A seller may raise it   *)
(* at once; a lower price waits 48 hours as a pending drop and is then       *)
(* promoted by whoever next reads the listings.  Every change leaves a       *)
(* PriceChange row, and the first drop freezes the price it came from.       *)
(*                                                                         *)
(* update and promoteExpiredDrops both read the listing, await and write by  *)
(* what they read; jobs holds what they read.  The history variable          *)
(* outdated says that one of them wrote over a listing it had not seen; no    *)
(* action depends on it.                                                     *)
(***************************************************************************)
EXTENDS Naturals, Sequences

CONSTANTS
    DropPrices,     \* prices a seller may ask for
    MAX_CHANGES,    \* bound: PriceChange rows
    MAX_JOBS        \* bound: edits and promotions in flight together

ASSUME PriceDropAssumption ==
    /\ DropPrices \subseteq Nat \ {0}
    /\ {MAX_CHANGES, MAX_JOBS} \subseteq Nat

VARIABLES
    offer,      \* columns of the listing: status, price, anchor (originalPriceHKD),
                \* pending (pendingPriceHKD) and whether its 48 hours have passed
    changes,    \* rows of PriceChange, oldest first
    jobs,       \* requests in flight, with the listing they read
    outdated    \* history

priceVars == <<offer, changes, jobs, outdated>>

Unset == 0

Columns == [status : {"ACTIVE", "RESERVED"}, price : DropPrices, anchor : DropPrices \cup {Unset},
            pending : DropPrices \cup {Unset}, due : BOOLEAN]
Change == [old : DropPrices, new : DropPrices, status : {"PENDING", "APPLIED", "CANCELLED", "DIRECT_EDIT"}]

\* Who reads the listings starts a promotion (ask = Unset); a seller's edit asks for a price.
Job == [read : Columns, ask : DropPrices \cup {Unset}, try : 1..MAX_JOBS]

\* Pending changes are settled.
Settle(rows, st) ==
    [i \in DOMAIN rows |-> IF rows[i].status = "PENDING" THEN [rows[i] EXCEPT !.status = st] ELSE rows[i]]

Begin(ask) ==
    /\ \E k \in 1..MAX_JOBS :
          /\ \A j \in jobs : j.try # k
          /\ jobs' = jobs \cup {[read |-> offer, ask |-> ask, try |-> k]}
    /\ UNCHANGED <<offer, changes, outdated>>

End(j) ==
    /\ jobs' = jobs \ {j}
    /\ outdated' = (outdated \/ j.read # offer)

-----------------------------------------------------------------------------
(* promoteExpiredDrops *)

ReadExpired ==
    /\ offer.status = "ACTIVE"
    /\ offer.pending # Unset
    /\ offer.due
    /\ Begin(Unset)

\* The row as the promotion writes it.
Promoted(j) ==
    [offer EXCEPT !.price = j.read.pending,
                  !.anchor = IF j.read.anchor = Unset THEN j.read.price ELSE j.read.anchor,
                  !.pending = Unset, !.due = FALSE]

\* The status is checked again, and the log is settled whether or not it held.
Promote(j) ==
    /\ j.ask = Unset
    /\ offer' = IF offer.status = "ACTIVE" THEN Promoted(j) ELSE offer
    /\ changes' = Settle(changes, "APPLIED")
    /\ End(j)

(* update *)

ReadForEdit(p) ==
    /\ offer.status = "ACTIVE"
    /\ p # offer.price
    /\ Begin(p)

\* Variant: an earlier pending change stays in the log.
LoggedBeside(j) ==
    Append(changes, [old |-> j.read.price, new |-> j.ask,
                     status |-> IF j.ask < j.read.price THEN "PENDING" ELSE "DIRECT_EDIT"])

\* The log after the edit: an earlier pending change is superseded.
Logged(j) ==
    Append(IF j.read.pending = Unset THEN changes ELSE Settle(changes, "CANCELLED"),
           [old |-> j.read.price, new |-> j.ask,
            status |-> IF j.ask < j.read.price THEN "PENDING" ELSE "DIRECT_EDIT"])

Scheduled(j) == [offer EXCEPT !.pending = j.ask, !.due = FALSE]
Raised(j) ==
    IF j.read.pending = Unset
    THEN [offer EXCEPT !.price = j.ask]
    ELSE [offer EXCEPT !.price = j.ask, !.pending = Unset, !.due = FALSE]

Edit(j) ==
    /\ j.ask # Unset
    /\ Len(changes) < MAX_CHANGES
    /\ offer' = IF j.ask < j.read.price THEN Scheduled(j) ELSE Raised(j)
    /\ changes' = Logged(j)
    /\ End(j)

(* Time, and buyers. *)

DelayPasses ==
    /\ offer.pending # Unset
    /\ ~offer.due
    /\ offer' = [offer EXCEPT !.due = TRUE]
    /\ UNCHANGED <<changes, jobs, outdated>>

ReserveOrRelease ==
    /\ offer' = [offer EXCEPT !.status = IF @ = "ACTIVE" THEN "RESERVED" ELSE "ACTIVE"]
    /\ UNCHANGED <<changes, jobs, outdated>>

PriceInit ==
    /\ offer \in [status : {"ACTIVE"}, price : DropPrices, anchor : {Unset}, pending : {Unset}, due : {FALSE}]
    /\ changes = <<>>
    /\ jobs = {}
    /\ outdated = FALSE

PriceNext ==
    \/ ReadExpired
    \/ \E p \in DropPrices : ReadForEdit(p)
    \/ \E j \in jobs : Promote(j) \/ Edit(j)
    \/ DelayPasses
    \/ ReserveOrRelease

PriceSpec == PriceInit /\ [][PriceNext]_priceVars

-----------------------------------------------------------------------------
(* Properties. *)

PriceTypeOK ==
    /\ offer \in Columns
    /\ changes \in Seq(Change)
    /\ jobs \subseteq Job
    /\ outdated \in BOOLEAN

WithStatus(st) == { i \in DOMAIN changes : changes[i].status = st }
InForce == WithStatus("APPLIED") \cup WithStatus("DIRECT_EDIT")
First(s) == CHOOSE i \in s : \A k \in s : i <= k
Last(s) == CHOOSE i \in s : \A k \in s : k <= i

(* The log and the listing agree while requests do not write over each       *)
(* other: what is pending is logged as pending, exactly once, the price is    *)
(* the one of the last change in force, and the anchor is the price before    *)
(* the first drop that took effect, however often the price moves afterwards. *)
LogMatchesListing ==
    ~outdated =>
        /\ { changes[i].new : i \in WithStatus("PENDING") } = {offer.pending} \ {Unset}
        /\ \A i, k \in WithStatus("PENDING") : i = k
        /\ InForce # {} => offer.price = changes[Last(InForce)].new
        /\ offer.anchor = IF WithStatus("APPLIED") = {} THEN Unset
                          ELSE changes[First(WithStatus("APPLIED"))].old

=============================================================================
