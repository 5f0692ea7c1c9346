--------------------------- MODULE MCReservation ---------------------------
(* Small instances of Reservation.                                         *)
EXTENDS Reservation, TLC

Total3 == [s \in Sessions |-> 3]
Total5 == [s \in Sessions |-> 5]

Symmetric == Permutations(Procs) \cup Permutations(Keys)
=============================================================================
