---------------------------- MODULE MCSessions ----------------------------
(* Sessions on a few sessions, links and calls, which run in               *)
(* interchangeable slots.                                                  *)
EXTENDS Sessions, TLC

CONSTANTS c1, c2

Symmetry == Permutations({c1, c2})
=============================================================================
