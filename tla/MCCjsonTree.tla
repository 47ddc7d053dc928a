---------------------------- MODULE MCCjsonTree ----------------------------
(* Four items: arrays, objects and texts, with keys that differ in case   *)
(* only.                                                                   *)
EXTENDS CjsonTree, TLC

MCLower == [n \in Name |-> "k"]
Symmetric == Permutations(Item)
=============================================================================
