---------------------------- MODULE MCBackground ----------------------------
(* What goes on behind the screens.                                        *)
EXTENDS Background, TLC

\* Two calls, searches, streams, requests or savers of images at once, and two places of one name.
CONSTANTS c1, c2, p1, p2

MCNameOf == [p \in {p1, p2} |-> "town"]

Symmetry == Permutations({c1, c2}) \cup Permutations({p1, p2})
=============================================================================
