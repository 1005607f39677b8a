---------------------------- MODULE MCCampaigns ----------------------------
(* Campaigns on a few people, batches and calls.  People are interchangeable, *)
(* and so are the slots calls run in.                                          *)
EXTENDS Campaigns, TLC

CONSTANTS ada, bola, c1, c2

Both == {"sweep", "composer"}
OnlySweep == {"sweep"}
Symmetry == Permutations({ada, bola}) \cup Permutations({c1, c2})
=============================================================================
