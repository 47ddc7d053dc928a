------------------------------- MODULE MCVme -------------------------------
(* A small instance of Vme: two addresses for handles and two results. *)
EXTENDS Vme, TLC

Symmetric == Permutations(Addr) \cup Permutations(Slot)
=============================================================================
