------------------------------- MODULE Sweeps -------------------------------
(***************************************************************************)
(* The chain of notification sweeps (features/notifications): a sweep job  *)
(* waits in the queue for its hour, drafts the day's mail, and plants its  *)
(* successor before it returns; booting plants one when none is waiting.   *)
(* The daily and the weekly chain are two copies of this.                  *)
(*                                                                         *)
(* Counting what waits and planting are two calls of the database, made by *)
(* the boot and by every sweep that runs. A sweep that throws has spent    *)
(* its only attempt. A process that dies leaves its running sweeps to the  *)
(* lease: the next process's queue puts them back.                         *)
(***************************************************************************)
EXTENDS Integers, FiniteSets

CONSTANTS
    Jobs,         \* bound: sweep jobs ever planted
    MaxCrashes,   \* bound: deaths of the process
    MaxThrows     \* bound: sweeps and boots whose database fails them

ASSUME SweepsAssumption ==
    MaxCrashes \in Nat /\ MaxThrows \in Nat /\ IsFiniteSet(Jobs)

VARIABLES
    jobs,      \* where the job of each sweep is
    boot,      \* where main() is; "down" while no process runs
    crashes,   \* how often the process has died
    throws     \* how often the database has failed a sweep or a boot

vars == <<jobs, boot, crashes, throws>>

\* "counted": found none waiting, and has its successor still to plant.
Running == {"drafting", "counting", "counted"}
Place == {"unplanted", "queued", "orphan", "done", "failed"} \cup Running

In(places) == {j \in Jobs : jobs[j] \in places}

TypeOK ==
    /\ jobs \in [Jobs -> Place]
    /\ boot \in {"down", "counting", "counted", "up"}
    /\ crashes \in 0..MaxCrashes /\ throws \in 0..MaxThrows

Init ==
    /\ jobs = [j \in Jobs |-> "unplanted"] /\ boot = "down"
    /\ crashes = 0 /\ throws = 0

----------------------------------------------------------------------------
\* scheduleSweep(), its first call: how many wait. A running sweep is not counted.
NothingRuns == In({"queued"} \cup Running) = {}     \* counts the running ones too
NothingWaits == In({"queued"}) = {}

\* Its second: plant one.
Plant(rest) == \E j \in In({"unplanted"}) : jobs' = [rest EXCEPT ![j] = "queued"]

----------------------------------------------------------------------------
(* main(): the worker is started, then the first sweep is planted. *)

Boot ==
    /\ boot = "down" /\ boot' = "counting"
    /\ UNCHANGED <<jobs, crashes, throws>>

BootCounts ==
    /\ boot = "counting"
    /\ boot' = IF NothingWaits THEN "counted" ELSE "up"
    /\ UNCHANGED <<jobs, crashes, throws>>

BootPlants ==
    /\ boot = "counted" /\ boot' = "up"
    /\ Plant(jobs)
    /\ UNCHANGED <<crashes, throws>>

\* A boot that cannot reach the database exits.
BootFails ==
    /\ boot \in {"counting", "counted"} /\ boot' = "down"
    /\ throws < MaxThrows /\ throws' = throws + 1
    /\ jobs' = [j \in Jobs |-> IF jobs[j] \in Running THEN "orphan" ELSE jobs[j]]
    /\ UNCHANGED crashes

----------------------------------------------------------------------------
(* The queue and the handler. *)

Claim(j) ==
    /\ boot # "down" /\ jobs[j] = "queued"
    /\ jobs' = [jobs EXCEPT ![j] = "drafting"]
    /\ UNCHANGED <<boot, crashes, throws>>

Drafted(j) ==
    /\ jobs[j] = "drafting"
    /\ jobs' = [jobs EXCEPT ![j] = "counting"]
    /\ UNCHANGED <<boot, crashes, throws>>

Counts(j) ==
    /\ jobs[j] = "counting"
    /\ jobs' = [jobs EXCEPT ![j] = IF NothingWaits THEN "counted" ELSE "done"]
    /\ UNCHANGED <<boot, crashes, throws>>

Plants(j) ==
    /\ jobs[j] = "counted"
    /\ Plant([jobs EXCEPT ![j] = "done"])
    /\ UNCHANGED <<boot, crashes, throws>>

\* maxAttempts is one.
Throws(j) ==
    /\ jobs[j] \in Running /\ throws < MaxThrows /\ throws' = throws + 1
    /\ jobs' = [jobs EXCEPT ![j] = "failed"]
    /\ UNCHANGED <<boot, crashes>>

Crash ==
    /\ boot # "down" /\ boot' = "down"
    /\ crashes < MaxCrashes /\ crashes' = crashes + 1
    /\ jobs' = [j \in Jobs |-> IF jobs[j] \in Running THEN "orphan" ELSE jobs[j]]
    /\ UNCHANGED throws

\* reclaimStalled(), once the lease is over: it asks nothing about attempts.
Reclaim(j) ==
    /\ boot # "down" /\ jobs[j] = "orphan"
    /\ jobs' = [jobs EXCEPT ![j] = "queued"]
    /\ UNCHANGED <<boot, crashes, throws>>

Next ==
    \/ Boot \/ BootCounts \/ BootPlants \/ BootFails \/ Crash
    \/ \E j \in Jobs : Claim(j) \/ Drafted(j) \/ Counts(j) \/ Plants(j) \/ Throws(j) \/ Reclaim(j)

Spec == Init /\ [][Next]_vars

----------------------------------------------------------------------------
(* Properties. *)

Alive == In({"queued", "orphan"} \cup Running)

\* The chain breaks only where a sweep throws: once the server is up there is always a sweep
\* that waits, runs or will be put back, through every crash and every order of the counts.
ChainAlive == (boot = "up" /\ throws = 0) => Alive # {}

\* A restart is harmless: whatever it interrupts adds one sweep at the most.
NoPileUp == Cardinality(Alive) <= 1 + crashes + throws

\* notifications.jobs.ts: a missed re-queue means email silently stops.
NeverStops == boot = "up" => Alive # {}
=============================================================================
