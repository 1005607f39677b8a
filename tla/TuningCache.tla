----------------------------- MODULE TuningCache -----------------------------
(***************************************************************************)
(* The tuning of the ranking, kept in memory in front of its document      *)
(* (lib/ranking).  Requests that find it stale share one load, which       *)
(* starts its time to live afresh when it is answered and when it fails;   *)
(* saving writes the document and marks the memory stale in the next step, *)
(* also while a load is under way that has read the old tuning.            *)
(*                                                                         *)
(* Time is counted in ticks, as in FlagsCache.                             *)
(***************************************************************************)
EXTENDS Naturals

CONSTANTS
    TTL,       \* TTL_MS: how long what was loaded is served
    MaxRead,   \* how long the database may take over a load
    MaxTime,   \* bound: ticks looked at
    MaxSaves   \* bound: saves

TuningAssumption ==
    /\ TTL \in Nat \ {0} /\ MaxRead \in Nat \ {0} /\ MaxTime \in Nat /\ MaxSaves \in Nat

VARIABLES
    now,
    tuning,      \* the saved tuning: the number of its save, 0 for the defaults
    tuned,       \* the tuning in memory, and until when it is served
    load,        \* the one load under way: inFlight
    saving,      \* saves that are written and not yet followed by invalidate()
    saved,       \* history: when the tuning was last written
    failed       \* history: a load has failed since

vars == <<now, tuning, tuned, load, saving, saved, failed>>

Shipped == [value |-> 0, until |-> 0]
NoLoad == [pc |-> "none", value |-> 0, since |-> 0]

TypeOK ==
    /\ now \in 0..MaxTime /\ tuning \in 0..MaxSaves /\ saved \in 0..MaxTime
    /\ tuned \in [value : 0..MaxSaves, until : 0..(MaxTime + MaxTime + TTL)]
    /\ load \in [pc : {"none", "asked", "answered"}, value : 0..MaxSaves, since : 0..MaxTime]
    /\ saving \in 0..MaxSaves /\ failed \in BOOLEAN

Init ==
    /\ now = 0 /\ tuning = 0 /\ tuned = Shipped /\ load = NoLoad
    /\ saving = 0 /\ saved = 0 /\ failed = FALSE

Fresh == now < tuned.until

----------------------------------------------------------------------------
(* current(). *)

\* Whoever comes while a load is under way is given its promise.
BeginLoad ==
    /\ ~Fresh /\ load = NoLoad
    /\ load' = [pc |-> "asked", value |-> 0, since |-> now]
    /\ UNCHANGED <<now, tuning, tuned, saving, saved, failed>>

FindTuning ==
    /\ load.pc = "asked" /\ load' = [load EXCEPT !.pc = "answered", !.value = tuning]
    /\ UNCHANGED <<now, tuning, tuned, saving, saved, failed>>

KeepUntilInvalidated ==     \* what was loaded never runs out by itself
    /\ load.pc = "answered" /\ load' = NoLoad
    /\ tuned' = [value |-> load.value, until |-> MaxTime + TTL]
    /\ UNCHANGED <<now, tuning, saving, saved, failed>>
KeepTuning ==
    /\ load.pc = "answered" /\ load' = NoLoad
    /\ tuned' = [value |-> load.value, until |-> now + TTL]
    /\ UNCHANGED <<now, tuning, saving, saved, failed>>

LoadFails ==
    /\ load.pc # "none" /\ load' = NoLoad
    /\ tuned' = [tuned EXCEPT !.until = now + TTL] /\ failed' = TRUE
    /\ UNCHANGED <<now, tuning, saving, saved>>

----------------------------------------------------------------------------
(* saveRankingConfig(), the clock and the process. *)

SaveTuning ==
    /\ tuning < MaxSaves /\ tuning' = tuning + 1
    /\ saved' = now /\ saving' = saving + 1 /\ failed' = FALSE
    /\ UNCHANGED <<now, tuned, load>>

Invalidate ==
    /\ saving > 0 /\ saving' = saving - 1 /\ tuned' = [tuned EXCEPT !.until = 0]
    /\ UNCHANGED <<now, tuning, load, saved, failed>>

Tick ==
    /\ now < MaxTime /\ now' = now + 1
    /\ load.pc = "none" \/ now < load.since + MaxRead
    /\ UNCHANGED <<tuning, tuned, load, saving, saved, failed>>

Restart ==
    /\ tuned' = Shipped /\ load' = NoLoad /\ saving' = 0
    /\ UNCHANGED <<now, tuning, saved, failed>>

Next ==
    \/ BeginLoad \/ FindTuning \/ KeepTuning \/ LoadFails
    \/ SaveTuning \/ Invalidate \/ Tick \/ Restart

Spec == Init /\ [][Next]_vars

----------------------------------------------------------------------------
(* Properties. *)

\* A tuning that was saved ranks every request once a time to live and a load have gone by,
\* whatever load it crossed and whether or not its process lived to invalidate the memory,
\* unless a load has failed since.
TuningCatchesUp == (Fresh /\ now >= saved + TTL + MaxRead /\ ~failed) => tuned.value = tuning

\* admin.controller.ts, of a saved tuning: visible on the next request rather than up to a
\* minute later.  A load under way while it is saved brings the old one for that minute.
SeenAtOnce == (Fresh /\ saving = 0) => tuned.value = tuning
=============================================================================
