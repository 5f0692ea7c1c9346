---------------------------- MODULE MCSettlement ----------------------------
(* Small instances of Settlement.                                          *)
EXTENDS Settlement, TLC

Symmetric == Permutations(Procs) \cup Permutations(Keys) \cup Permutations(Ops)
=============================================================================
