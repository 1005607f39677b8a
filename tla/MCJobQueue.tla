------------------------------ MODULE MCJobQueue ------------------------------
(* Small instances of JobQueue: job 1 is a person's, the last one system's. *)
EXTENDS JobQueue, TLC

CONSTANTS t1, t2, s1, s2, s3, r1, r2

MCTicks == {t1, t2}
MCOneTick == {t1}
MCSlots == {s1, s2}
MCSlots3 == {s1, s2, s3}
MCRequests == {r1, r2}
MCOneRequest == {r1}

MCOwned == {1}
MCOperated == {1}
Nobodys == {}
MCMaxAttempts == [j \in Jobs |-> IF j \in Touched THEN 2 ELSE 1]

Symmetric == Permutations(Ticks) \cup Permutations(Slots) \cup Permutations(Requests)
===============================================================================
