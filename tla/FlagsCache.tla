----------------------------- MODULE FlagsCache -----------------------------
(***************************************************************************)
(* One feature flag and the cache in front of it (lib/flags).  A request   *)
(* that finds the cache stale reads the flags for itself and keeps what it *)
(* read; a switch writes the row and empties the cache in the next step,   *)
(* and a read it has overtaken fills the cache with the old value again.   *)
(*                                                                         *)
(* Time is counted in ticks.  The database answers a read, or fails it,    *)
(* within a time of its own.                                               *)
(***************************************************************************)
EXTENDS Naturals, FiniteSets

CONSTANTS
    FailClosed,   \* whether the flag is one of FAIL_CLOSED_FLAGS
    Readers,      \* bound: reads at once
    TTL,          \* CACHE_MS: how long what was read is answered
    MaxRead,      \* how long the database may take over a read
    MaxTime,      \* bound: ticks looked at
    MaxSwitches   \* bound: switches

FlagsAssumption ==
    /\ FailClosed \in BOOLEAN /\ IsFiniteSet(Readers) /\ TTL \in Nat \ {0}
    /\ MaxRead \in Nat \ {0} /\ MaxTime \in Nat /\ MaxSwitches \in Nat

VARIABLES
    now,
    row,         \* the flag's document, "absent" before the first switch
    cache,       \* what the cache holds, and until when
    readers,     \* the reads under way
    dropping,    \* switches that are written and whose cache is not emptied yet
    switched,    \* history: when the row was last written
    switches

vars == <<now, row, cache, readers, dropping, switched, switches>>

Row == {"absent", "on", "off"}
Empty == [value |-> "absent", until |-> 0]
NoRead == [pc |-> "none", value |-> "absent", since |-> 0]

TypeOK ==
    /\ now \in 0..MaxTime /\ row \in Row /\ switched \in 0..MaxTime
    /\ cache \in [value : Row, until : 0..(MaxTime + TTL)]
    /\ readers \in [Readers -> [pc : {"none", "asked", "answered"}, value : Row,
                                since : 0..MaxTime]]
    /\ dropping \in 0..MaxSwitches /\ switches \in 0..MaxSwitches

Init ==
    /\ now = 0 /\ row = "absent" /\ cache = Empty /\ readers = [r \in Readers |-> NoRead]
    /\ dropping = 0 /\ switched = 0 /\ switches = 0

\* What a row means: defaults() where there is none.
IsOn(value) == IF value = "absent" THEN ~FailClosed ELSE value = "on"

FreshForever == cache # Empty     \* never looks at the clock
Fresh == now < cache.until

----------------------------------------------------------------------------
(* state(). *)

AskFlags(r) ==
    /\ ~Fresh /\ readers[r].pc = "none"
    /\ readers' = [readers EXCEPT ![r] = [pc |-> "asked", value |-> "absent", since |-> now]]
    /\ UNCHANGED <<now, row, cache, dropping, switched, switches>>

FindFlags(r) ==
    /\ readers[r].pc = "asked"
    /\ readers' = [readers EXCEPT ![r].pc = "answered", ![r].value = row]
    /\ UNCHANGED <<now, row, cache, dropping, switched, switches>>

KeepFlags(r) ==
    /\ readers[r].pc = "answered" /\ readers' = [readers EXCEPT ![r] = NoRead]
    /\ cache' = [value |-> readers[r].value, until |-> now + TTL]
    /\ UNCHANGED <<now, row, dropping, switched, switches>>

\* The defaults are answered, and not kept.
ReadFails(r) ==
    /\ readers[r].pc # "none" /\ readers' = [readers EXCEPT ![r] = NoRead]
    /\ UNCHANGED <<now, row, cache, dropping, switched, switches>>

----------------------------------------------------------------------------
(* set(), the clock and the process. *)

Switch(value) ==
    /\ switches < MaxSwitches /\ switches' = switches + 1
    /\ row' = value /\ switched' = now /\ dropping' = dropping + 1
    /\ UNCHANGED <<now, cache, readers>>

DropFlags ==
    /\ dropping > 0 /\ dropping' = dropping - 1 /\ cache' = Empty
    /\ UNCHANGED <<now, row, readers, switched, switches>>

Tick ==
    /\ now < MaxTime /\ now' = now + 1
    /\ \A r \in Readers : readers[r].pc = "none" \/ now < readers[r].since + MaxRead
    /\ UNCHANGED <<row, cache, readers, dropping, switched, switches>>

Restart ==
    /\ cache' = Empty /\ readers' = [r \in Readers |-> NoRead] /\ dropping' = 0
    /\ UNCHANGED <<now, row, switched, switches>>

Next ==
    \/ \E r \in Readers : AskFlags(r) \/ FindFlags(r) \/ KeepFlags(r) \/ ReadFails(r)
    \/ (\E value \in {"on", "off"} : Switch(value)) \/ DropFlags \/ Tick \/ Restart

Spec == Init /\ [][Next]_vars

----------------------------------------------------------------------------
(* Properties. *)

\* Whatever reads a switch overtakes, and whether or not its process lives to empty the cache,
\* the flag that requests and analytics are answered from the cache is the row's, the default
\* of a missing row included, once a time to live and a read have gone by since the switch.
FlagsCatchUp == (Fresh /\ now >= switched + TTL + MaxRead) => IsOn(cache.value) = IsOn(row)
=============================================================================
