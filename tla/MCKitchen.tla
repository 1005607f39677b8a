---------------------------- MODULE MCKitchen ----------------------------
(* One ingredient, and calls which run in interchangeable slots.           *)
EXTENDS Kitchen, TLC

CONSTANTS c1, c2

Symmetry == Permutations({c1, c2})
=============================================================================
