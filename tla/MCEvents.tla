------------------------------ MODULE MCEvents ------------------------------
(* OrderEvents on a small instance. *)
EXTENDS OrderEvents, TLC

Symmetry == Permutations(Events) \cup Permutations(Relays)
=============================================================================
