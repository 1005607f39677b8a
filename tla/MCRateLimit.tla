------------------------------ MODULE MCRateLimit ------------------------------
(* Two keys of one policy with a burst of two and a window of three        *)
(* seconds.  The idle time of the sweep is as long as the window, a        *)
(* refusal count lasts two seconds, and one key fills the map of refusals. *)
EXTENDS RateLimit

CONSTANTS k1, k2

MCKeys == {k1, k2}
===============================================================================
