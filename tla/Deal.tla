-------------------------------- MODULE Deal --------------------------------
(***************************************************************************)
(* What an order promises the outside world: one deal about one item.      *)
(* While the deal is open the item may be taken off the market; the deal   *)
(* ends exactly once, with the item sold or back on sale, and the two      *)
(* change together.  A disputed deal is frozen until it is ended.  A deal  *)
(* nobody paid for lapses; a lapsed deal may still be disputed.            *)
(*                                                                         *)
(* Where payments are a mock, paying again opens any deal again, and that   *)
(* is all it does: the item stays as it is until the deal ends once more.  *)
(***************************************************************************)
VARIABLES deal, item,
    mock    \* payments are a mock; never changes

DealStates == {"open", "frozen", "lapsed", "sold", "returned"}
ItemStates == {"ACTIVE", "RESERVED", "SOLD"}

Ended == deal \in {"sold", "returned"}

Init == deal = "open" /\ item \in {"ACTIVE", "RESERVED"} /\ mock \in BOOLEAN

Reserve == deal = "open" /\ item' = "RESERVED" /\ UNCHANGED deal

Freeze == deal \in {"open", "lapsed"} /\ deal' = "frozen" /\ UNCHANGED item

\* A deal lapses with its item back on sale; one that never reserved the item
\* leaves it to whoever did.
Lapse == deal = "open" /\ deal' = "lapsed" /\ item' \in {"ACTIVE", item}

Sell == ~Ended /\ deal' = "sold" /\ item' = "SOLD"

Return == ~Ended /\ deal' = "returned" /\ item' = "ACTIVE"

Reopen == mock /\ deal # "open" /\ deal' = "open" /\ UNCHANGED item

Next == (Reserve \/ Freeze \/ Lapse \/ Sell \/ Return \/ Reopen) /\ UNCHANGED mock

Spec == Init /\ [][Next]_<<deal, item, mock>>
=============================================================================
