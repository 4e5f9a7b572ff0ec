--------------------------- MODULE MCReservation ---------------------------
(* Model-checking instances of Reservation.                                *)
EXTENDS Reservation, TLC

CONSTANTS o1, o2, f1, f2, s1, s2

\* Orders, offers and slots are interchangeable.
Symmetry == Permutations(Orders) \cup Permutations(Offers)
            \cup Permutations(Slots)
=============================================================================
