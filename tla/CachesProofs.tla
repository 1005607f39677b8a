---------------------------- MODULE CachesProofs ----------------------------
(***************************************************************************)
(* That the chain of sweeps survives restarts, and that restarts do not    *)
(* multiply it; that what is served from memory catches up with the        *)
(* database; that the trail of a recipe adds up to its status; that no     *)
(* offer of a restaurant gets older; and that the row of restaurants is in *)
(* order: for any number of jobs, reads, calls and processes, for every    *)
(* time to live and however long the database takes over a read.           *)
(***************************************************************************)
EXTENDS Caches, FiniteSetTheorems, WellFoundedInduction, TLAPS

----------------------------------------------------------------------------
(* The chain of sweeps. *)

\* Every variable of the sweeps keeps its type.
THEOREM Typed == Spec => []TypeOK
<1>1. Init => TypeOK
  BY SweepsAssumption DEF Init, TypeOK, Place
<1>2. TypeOK /\ [Next]_vars => TypeOK'
  <2> SUFFICES ASSUME TypeOK, [Next]_vars PROVE TypeOK'
    OBVIOUS
  <2> USE SweepsAssumption DEF TypeOK, Place, Running
  <2>1. CASE Boot \/ BootCounts \/ BootFails \/ Crash
    BY <2>1 DEF Boot, BootCounts, BootFails, Crash
  <2>2. CASE BootPlants
    BY <2>2 DEF BootPlants, Plant, In
  <2>3. ASSUME NEW j \in Jobs, Claim(j) \/ Drafted(j) \/ Counts(j) \/ Throws(j) \/ Reclaim(j)
        PROVE  TypeOK'
    BY <2>3 DEF Claim, Drafted, Counts, Throws, Reclaim
  <2>4. ASSUME NEW j \in Jobs, Plants(j)
        PROVE  TypeOK'
    BY <2>4 DEF Plants, Plant, In
  <2>5. CASE UNCHANGED vars
    BY <2>5 DEF vars
  <2> QED
    BY <2>1, <2>2, <2>3, <2>4, <2>5 DEF Next
<1> QED
  BY <1>1, <1>2, PTL DEF Spec

----------------------------------------------------------------------------
(* The chain does not break. *)

\* ChainAlive is inductive: a sweep ends only after it has planted another or has seen one wait.
LEMMA ChainKept == TypeOK /\ ChainAlive /\ [Next]_vars => ChainAlive'
<1> SUFFICES ASSUME TypeOK, ChainAlive, [Next]_vars PROVE ChainAlive'
  OBVIOUS
<1> USE SweepsAssumption DEF TypeOK, ChainAlive, Alive, In, Place, Running
<1>1. CASE Boot \/ BootFails \/ Crash
  BY <1>1 DEF Boot, BootFails, Crash
<1>2. CASE BootCounts
  BY <1>2 DEF BootCounts, NothingWaits
<1>3. CASE BootPlants
  <2>1. PICK j \in Jobs : jobs[j] = "unplanted" /\ jobs' = [jobs EXCEPT ![j] = "queued"]
    BY <1>3 DEF BootPlants, Plant
  <2> QED
    BY <2>1
<1>4. ASSUME NEW j \in Jobs, Claim(j) \/ Drafted(j) \/ Reclaim(j)
      PROVE  ChainAlive'
  BY <1>4 DEF Claim, Drafted, Reclaim
<1>5. ASSUME NEW j \in Jobs, Counts(j)
      PROVE  ChainAlive'
  <2>1. CASE NothingWaits
    BY <1>5, <2>1 DEF Counts
  <2>2. CASE ~NothingWaits
    <3>1. PICK k \in Jobs : jobs[k] = "queued"
      BY <2>2 DEF NothingWaits
    <3> QED
      BY <1>5, <3>1 DEF Counts
  <2> QED
    BY <2>1, <2>2
<1>6. ASSUME NEW j \in Jobs, Plants(j)
      PROVE  ChainAlive'
  <2>1. PICK k \in Jobs : /\ jobs[k] = "unplanted"
                          /\ jobs' = [[jobs EXCEPT ![j] = "done"] EXCEPT ![k] = "queued"]
    BY <1>6 DEF Plants, Plant
  <2> QED
    BY <2>1
<1>7. ASSUME NEW j \in Jobs, Throws(j)
      PROVE  ChainAlive'
  BY <1>7 DEF Throws
<1>8. CASE UNCHANGED vars
  BY <1>8 DEF vars
<1> QED
  BY <1>1, <1>2, <1>3, <1>4, <1>5, <1>6, <1>7, <1>8 DEF Next

\* Once the server is up, and unless a sweep throws, some sweep waits, runs or will be put back
\* (scheduleSweep is called at the end of each and at every boot).
THEOREM ChainIsAlive == Spec => []ChainAlive
<1>1. Init => ChainAlive
  BY DEF Init, ChainAlive
<1> QED
  BY <1>1, ChainKept, Typed, PTL DEF Spec

----------------------------------------------------------------------------
(* Restarts do not multiply the sweeps. *)

\* What a boot that has not come up may still plant is counted as planted.
Booked == Cardinality(Alive) + (IF boot = "up" THEN 0 ELSE 1) <= 1 + crashes + throws

\* The jobs alive, and those of them that a step takes away and adds.
LEMMA AliveCounts ==
    TypeOK => IsFiniteSet(Alive) /\ Cardinality(Alive) \in Nat
BY SweepsAssumption, FS_Subset, FS_CardinalityType DEF TypeOK, Alive, In

\* A step that leaves the same jobs alive, or plants one.
LEMMA OneMore ==
    ASSUME TypeOK, NEW j, Alive' \subseteq Alive \cup {j}
    PROVE  IsFiniteSet(Alive') /\ Cardinality(Alive') <= Cardinality(Alive) + 1
<1>1. IsFiniteSet(Alive) /\ Cardinality(Alive) \in Nat
  BY AliveCounts
<1>2. IsFiniteSet(Alive \cup {j}) /\ Cardinality(Alive \cup {j}) <= Cardinality(Alive) + 1
  <2>1. /\ IsFiniteSet(Alive \cup {j})
        /\ Cardinality(Alive \cup {j}) =
             IF j \in Alive THEN Cardinality(Alive) ELSE Cardinality(Alive) + 1
    BY <1>1, FS_AddElement, Zenon
  <2> QED
    BY <1>1, <2>1
<1>3. IsFiniteSet(Alive') /\ Cardinality(Alive') <= Cardinality(Alive \cup {j})
  BY <1>2, FS_Subset
<1>4. Cardinality(Alive') \in Nat /\ Cardinality(Alive \cup {j}) \in Nat
  BY <1>2, <1>3, FS_CardinalityType
<1> QED
  BY <1>1, <1>2, <1>3, <1>4

LEMMA NoMore ==
    ASSUME TypeOK, Alive' \subseteq Alive
    PROVE  Cardinality(Alive') \in Nat /\ Cardinality(Alive') <= Cardinality(Alive)
BY AliveCounts, FS_Subset, FS_CardinalityType

\* A sweep that plants its successor is over itself.
LEMMA OneForOne ==
    ASSUME TypeOK, NEW j \in Alive, NEW k, Alive' \subseteq (Alive \ {j}) \cup {k}
    PROVE  Cardinality(Alive') \in Nat /\ Cardinality(Alive') <= Cardinality(Alive)
<1>1. IsFiniteSet(Alive) /\ Cardinality(Alive) \in Nat
  BY AliveCounts
<1>2. IsFiniteSet(Alive \ {j}) /\ Cardinality(Alive \ {j}) = Cardinality(Alive) - 1
  BY <1>1, FS_RemoveElement
<1>3. /\ IsFiniteSet((Alive \ {j}) \cup {k})
      /\ Cardinality((Alive \ {j}) \cup {k}) <= Cardinality(Alive)
  <2>1. /\ IsFiniteSet((Alive \ {j}) \cup {k})
        /\ Cardinality((Alive \ {j}) \cup {k}) =
             IF k \in Alive \ {j} THEN Cardinality(Alive \ {j})
                                  ELSE Cardinality(Alive \ {j}) + 1
    BY <1>2, FS_AddElement, Zenon
  <2> QED
    BY <1>1, <1>2, <2>1
<1>4. IsFiniteSet(Alive') /\ Cardinality(Alive') <= Cardinality((Alive \ {j}) \cup {k})
  BY <1>3, FS_Subset
<1>5. Cardinality(Alive') \in Nat /\ Cardinality((Alive \ {j}) \cup {k}) \in Nat
  BY <1>3, <1>4, FS_CardinalityType
<1> QED
  BY <1>1, <1>3, <1>4, <1>5

LEMMA BookedKept == TypeOK /\ TypeOK' /\ Booked /\ [Next]_vars => Booked'
<1> SUFFICES ASSUME TypeOK, TypeOK', Booked, [Next]_vars PROVE Booked'
  OBVIOUS
<1>0. /\ Cardinality(Alive) \in Nat /\ Cardinality(Alive') \in Nat
      /\ crashes \in Nat /\ throws \in Nat
  BY AliveCounts, NoMore, SweepsAssumption, FS_Subset, FS_CardinalityType
     DEF TypeOK, Alive, In
<1>1. CASE Boot \/ BootCounts
  <2>1. Alive' = Alive
    BY <1>1 DEF Boot, BootCounts, Alive, In
  <2> QED
    BY <1>0, <1>1, <2>1 DEF Booked, Boot, BootCounts
<1>2. CASE BootPlants
  <2>1. PICK j \in Jobs : jobs[j] = "unplanted" /\ jobs' = [jobs EXCEPT ![j] = "queued"]
    BY <1>2 DEF BootPlants, Plant, In
  <2>2. Alive' \subseteq Alive \cup {j}
    BY <2>1 DEF Alive, In, TypeOK
  <2>3. Cardinality(Alive') <= Cardinality(Alive) + 1
    BY <2>2, OneMore
  <2> QED
    BY <1>0, <1>2, <2>3 DEF Booked, BootPlants
<1>3. CASE BootFails \/ Crash
  <2>1. Alive' \subseteq Alive
    BY <1>3 DEF BootFails, Crash, Alive, In, Running, TypeOK
  <2>2. Cardinality(Alive') <= Cardinality(Alive)
    BY <2>1, NoMore
  <2>3. CASE BootFails
    BY <1>0, <2>2, <2>3 DEF Booked, BootFails
  <2>4. CASE Crash
    BY <1>0, <2>2, <2>4 DEF Booked, Crash
  <2> QED
    BY <1>3, <2>3, <2>4
<1>4. ASSUME NEW j \in Jobs, Claim(j) \/ Drafted(j) \/ Reclaim(j) \/ Counts(j) \/ Throws(j)
      PROVE  Booked'
  <2>1. Alive' \subseteq Alive
    BY <1>4 DEF Claim, Drafted, Reclaim, Counts, Throws, Alive, In, Running, TypeOK
  <2>2. Cardinality(Alive') <= Cardinality(Alive)
    BY <2>1, NoMore
  <2>3. boot' = boot /\ crashes' = crashes /\ throws' \in {throws, throws + 1}
    BY <1>4 DEF Claim, Drafted, Reclaim, Counts, Throws
  <2> QED
    BY <1>0, <2>2, <2>3 DEF Booked
<1>5. ASSUME NEW j \in Jobs, Plants(j)
      PROVE  Booked'
  <2>1. PICK k \in Jobs : /\ jobs[k] = "unplanted"
                          /\ jobs' = [[jobs EXCEPT ![j] = "done"] EXCEPT ![k] = "queued"]
    BY <1>5 DEF Plants, Plant, In
  <2>2. j \in Alive /\ j # k
    BY <1>5, <2>1 DEF Plants, Alive, In, Running
  <2>3. Alive' \subseteq (Alive \ {j}) \cup {k}
    BY <2>1, <2>2 DEF Alive, In, Running, TypeOK
  <2>4. Cardinality(Alive') <= Cardinality(Alive)
    BY <2>2, <2>3, OneForOne
  <2> QED
    BY <1>0, <1>5, <2>4 DEF Booked, Plants
<1>6. CASE UNCHANGED vars
  <2>1. Alive' = Alive
    BY <1>6 DEF vars, Alive, In
  <2> QED
    BY <1>6, <2>1 DEF vars, Booked
<1> QED
  BY <1>1, <1>2, <1>3, <1>4, <1>5, <1>6 DEF Next

\* However often the server is restarted, whatever a restart interrupts adds one sweep at the
\* most: what scheduleSweep counts is only what is queued, and that is enough.
THEOREM SweepsDoNotPileUp == Spec => []NoPileUp
<1>1. Init => Booked
  <2> SUFFICES ASSUME Init PROVE Booked
    OBVIOUS
  <2>1. Alive = {}
    BY DEF Init, Alive, In, Running
  <2>2. Cardinality(Alive) = 0
    BY <2>1, FS_EmptySet
  <2> QED
    BY <2>2 DEF Init, Booked
<1>2. TypeOK /\ Booked => NoPileUp
  BY AliveCounts, SweepsAssumption DEF Booked, NoPileUp, TypeOK
<1> QED
  BY <1>1, <1>2, BookedKept, Typed, PTL DEF Spec

----------------------------------------------------------------------------
(* The flag. *)

\* What a read brings, and what the cache holds, is the row's unless the read was asked before the
\* row was last written: then it runs out a read and a time to live after the writing.
FlagsIInv ==
    /\ F!TypeOK /\ switched <= flagsNow /\ dropping <= switches
    /\ \A r \in Readers : readers[r].pc # "none" =>
          /\ readers[r].since <= flagsNow /\ flagsNow <= readers[r].since + FlagsMaxRead
          /\ readers[r].pc = "answered" => readers[r].value = row \/ readers[r].since <= switched
    /\ cache.until <= flagsNow + FlagsTTL
    /\ cache.value = row \/ cache.until <= switched + FlagsTTL + FlagsMaxRead

LEMMA FlagsKept == FlagsIInv /\ [F!Next]_(F!vars) => FlagsIInv'
<1> SUFFICES ASSUME FlagsIInv, [F!Next]_(F!vars) PROVE FlagsIInv'
  OBVIOUS
<1> USE FlagsAssumption DEF F!FlagsAssumption, FlagsIInv, F!TypeOK, F!NoRead, F!Empty, F!Row
<1>1. ASSUME NEW r \in Readers, F!AskFlags(r) \/ F!FindFlags(r)
      PROVE  FlagsIInv'
  BY <1>1 DEF F!AskFlags, F!FindFlags
<1>2. ASSUME NEW r \in Readers, F!KeepFlags(r) \/ F!ReadFails(r)
      PROVE  FlagsIInv'
  BY <1>2 DEF F!KeepFlags, F!ReadFails
<1>3. ASSUME NEW value \in {"on", "off"}, F!Switch(value)
      PROVE  FlagsIInv'
  <2>1. F!TypeOK' /\ switched' <= flagsNow' /\ dropping' <= switches'
    BY <1>3 DEF F!Switch
  <2>2. /\ flagsNow' = flagsNow /\ cache' = cache /\ readers' = readers /\ switched' = flagsNow
        /\ row' = value
    BY <1>3 DEF F!Switch
  <2>3. cache.until <= switched' + FlagsTTL + FlagsMaxRead
    BY <2>2
  <2> QED
    BY <2>1, <2>2, <2>3
<1>4. CASE F!DropFlags \/ F!Restart
  BY <1>4 DEF F!DropFlags, F!Restart
<1>5. CASE F!Tick
  BY <1>5 DEF F!Tick
<1>6. CASE UNCHANGED F!vars
  BY <1>6 DEF F!vars
<1> QED
  BY <1>1, <1>2, <1>3, <1>4, <1>5, <1>6 DEF F!Next

LEMMA FlagsInvariant == F!Spec => []FlagsIInv
<1>1. F!Init => FlagsIInv
  BY FlagsAssumption
  DEF F!FlagsAssumption, F!Init, FlagsIInv, F!TypeOK, F!NoRead, F!Empty, F!Row
<1> QED
  BY <1>1, FlagsKept, PTL DEF F!Spec

----------------------------------------------------------------------------
(* The tuning of the ranking. *)

\* The same of the one load there is, as long as no load has failed since the save: a failure
\* serves what is in memory for another time to live.
TuningIInv ==
    /\ T!TypeOK /\ saved <= now /\ saving <= tuning
    /\ load.pc # "none" => load.since <= now /\ now <= load.since + TuningMaxRead
    /\ load.pc = "answered" => load.value = tuning \/ load.since <= saved
    /\ tuned.until <= now + TuningTTL
    /\ failed = TRUE \/ tuned.value = tuning \/ tuned.until <= saved + TuningTTL + TuningMaxRead

LEMMA TuningKept == TuningIInv /\ [T!Next]_(T!vars) => TuningIInv'
<1> SUFFICES ASSUME TuningIInv, [T!Next]_(T!vars) PROVE TuningIInv'
  OBVIOUS
<1> USE TuningAssumption DEF T!TuningAssumption, TuningIInv, T!TypeOK, T!NoLoad, T!Shipped
<1>1. CASE T!BeginLoad \/ T!FindTuning
  <2>1. CASE T!BeginLoad
    BY <2>1 DEF T!BeginLoad
  <2>2. CASE T!FindTuning
    <3>1. load' = [pc |-> "answered", value |-> tuning, since |-> load.since]
      BY <2>2 DEF T!FindTuning
    <3> QED
      BY <2>2, <3>1 DEF T!FindTuning
  <2> QED
    BY <1>1, <2>1, <2>2
<1>2. CASE T!KeepTuning \/ T!LoadFails
  <2>1. now + TuningTTL \in 0..(TuningMaxTime + TuningMaxTime + TuningTTL)
    OBVIOUS
  <2>2. CASE T!KeepTuning
    BY <2>1, <2>2 DEF T!KeepTuning
  <2>3. CASE T!LoadFails
    <3>1. tuned' = [value |-> tuned.value, until |-> now + TuningTTL]
      BY <2>3 DEF T!LoadFails
    <3> QED
      BY <2>1, <2>3, <3>1 DEF T!LoadFails
  <2> QED
    BY <1>2, <2>2, <2>3
<1>3. CASE T!SaveTuning
  <2>1. /\ tuning + 1 \in 0..MaxTunings /\ saving + 1 \in 0..MaxTunings /\ saving + 1 <= tuning + 1
        /\ FALSE \in BOOLEAN
    BY <1>3 DEF T!SaveTuning
  <2>2. now' = now /\ tuned' = tuned /\ load' = load /\ saved' = now
    BY <1>3 DEF T!SaveTuning
  <2>3. tuned.until <= saved' + TuningTTL + TuningMaxRead
    BY <2>2
  <2>4. tuning' = tuning + 1 /\ saving' = saving + 1 /\ failed' = FALSE
    BY <1>3 DEF T!SaveTuning
  <2>5. T!TypeOK'
    BY <2>1, <2>2, <2>4
  <2> QED
    BY <2>1, <2>2, <2>3, <2>4, <2>5
<1>4. CASE T!Invalidate \/ T!Restart
  BY <1>4 DEF T!Invalidate, T!Restart
<1>5. CASE T!Tick
  BY <1>5 DEF T!Tick
<1>6. CASE UNCHANGED T!vars
  BY <1>6 DEF T!vars
<1> QED
  BY <1>1, <1>2, <1>3, <1>4, <1>5, <1>6 DEF T!Next

LEMMA TuningInvariant == T!Spec => []TuningIInv
<1>1. T!Init => TuningIInv
  <2> SUFFICES ASSUME T!Init PROVE TuningIInv
    OBVIOUS
  <2> USE TuningAssumption DEF T!TuningAssumption, T!Init, T!NoLoad, T!Shipped
  <2>1. tuned \in [value : 0..MaxTunings, until : 0..(TuningMaxTime + TuningMaxTime + TuningTTL)]
    OBVIOUS
  <2>2. failed \in BOOLEAN
    OBVIOUS
  <2>3. T!TypeOK
    BY <2>1, <2>2 DEF T!TypeOK
  <2> QED
    BY <2>3 DEF TuningIInv
<1> QED
  BY <1>1, TuningKept, PTL DEF T!Spec

----------------------------------------------------------------------------
(* The provider of the mail. *)

\* A choice is remembered from the moment its read was asked: a read that misses the choice was
\* asked before it, and may take as long as it likes.
ProviderIInv ==
    /\ P!TypeOK /\ chosenAt <= clock
    /\ \A p \in Processes : forgetting[p] <= choices
    /\ \A s \in Sends : /\ looks[s].readAt <= clock
                        /\ looks[s].pc = "answered" => /\ looks[s].provider \in P!Providers
                                                       /\ \/ looks[s].provider = P!Active
                                                          \/ looks[s].readAt <= chosenAt
    /\ \A p \in Processes : \/ known[p] = P!Forgotten
                             \/ /\ known[p].provider \in P!Providers
                                /\ known[p].readAt <= clock
                                /\ \/ known[p].provider = P!Active
                                   \/ known[p].readAt <= chosenAt

LEMMA ProviderKept == ProviderIInv /\ [P!Next]_(P!vars) => ProviderIInv'
<1> SUFFICES ASSUME ProviderIInv, [P!Next]_(P!vars) PROVE ProviderIInv'
  OBVIOUS
<1>0. (CHOOSE p \in Processes : TRUE) \in Processes
  BY ProviderAssumption DEF P!ProviderAssumption
<1> USE ProviderAssumption, <1>0
    DEF P!ProviderAssumption, ProviderIInv, P!TypeOK, P!NoLook, P!Forgotten, P!Providers, P!Active,
        P!Seed
<1>1. ASSUME NEW s \in Sends, NEW p \in Processes, P!AskProvider(s, p)
      PROVE  ProviderIInv'
  BY <1>1 DEF P!AskProvider
<1>2. ASSUME NEW s \in Sends, P!FindProvider(s)
      PROVE  ProviderIInv'
  <2>1. P!Active \in P!Providers /\ P!Active' = P!Active
    BY <1>2 DEF P!FindProvider
  <2>2. looks'[s] = [looks[s] EXCEPT !.pc = "answered", !.provider = P!Active]
    BY <1>2 DEF P!FindProvider
  <2>4. looks'[s] \in [pc : {"none", "asked", "answered"}, by : Processes,
                            provider : P!Providers \cup {"none"}, readAt : 0..ProviderMaxTime]
    BY <2>1, <2>2
  <2>5. P!TypeOK'
    BY <1>2, <2>4 DEF P!FindProvider
  <2>3. ASSUME NEW t \in Sends, looks'[t].pc = "answered"
        PROVE  looks'[t].provider \in P!Providers /\ (\/ looks'[t].provider = P!Active
                                                      \/ looks'[t].readAt <= chosenAt)
    BY <1>2, <2>1, <2>3 DEF P!FindProvider
  <2> QED
    BY <1>2, <2>1, <2>3, <2>5 DEF P!FindProvider
<1>3. ASSUME NEW s \in Sends, P!KeepProvider(s)
      PROVE  ProviderIInv'
  BY <1>3 DEF P!KeepProvider, P!Keeps
<1>4. ASSUME NEW s \in Sends, P!LookFails(s)
      PROVE  ProviderIInv'
  BY <1>4 DEF P!LookFails
<1>5. ASSUME NEW p \in Processes, NEW provider \in P!Providers, P!SetProvider(p, provider)
      PROVE  ProviderIInv'
  BY <1>5 DEF P!SetProvider
<1>6. ASSUME NEW p \in Processes, P!Forget(p)
      PROVE  ProviderIInv'
  BY <1>6 DEF P!Forget
<1>7. ASSUME NEW p \in Processes, P!Restart(p)
      PROVE  ProviderIInv'
  BY <1>7 DEF P!Restart
<1>8. CASE P!Tick
  BY <1>8 DEF P!Tick
<1>9. CASE UNCHANGED P!vars
  BY <1>9 DEF P!vars
<1> QED
  BY <1>1, <1>2, <1>3, <1>4, <1>5, <1>6, <1>7, <1>8, <1>9 DEF P!Next

LEMMA ProviderInvariant == P!Spec => []ProviderIInv
<1>0. (CHOOSE p \in Processes : TRUE) \in Processes
  BY ProviderAssumption DEF P!ProviderAssumption
<1>1. P!Init => ProviderIInv
  BY <1>0, ProviderAssumption
  DEF P!ProviderAssumption, P!Init, ProviderIInv, P!TypeOK, P!NoLook, P!Forgotten
<1> QED
  BY <1>1, ProviderKept, PTL DEF P!Spec

----------------------------------------------------------------------------
(* What the three have in common. *)

\* Whatever reads and restarts a switch, a save or a choice crosses, what is served from memory is
\* what the document says once its time to live, and the longest read, have gone by.
THEOREM MemoryCatchesUp == F!Spec /\ T!Spec /\ P!Spec => []CachesCatchUp
<1>1. FlagsIInv => F!FlagsCatchUp
  BY FlagsAssumption
  DEF F!FlagsAssumption, FlagsIInv, F!FlagsCatchUp, F!Fresh, F!TypeOK, F!Row
<1>2. TuningIInv => T!TuningCatchesUp
  BY TuningAssumption
  DEF T!TuningAssumption, TuningIInv, T!TuningCatchesUp, T!Fresh, T!TypeOK
<1>3. ProviderIInv => P!ChoiceCatchesUp
  BY ProviderAssumption
  DEF P!ProviderAssumption, ProviderIInv, P!ChoiceCatchesUp, P!Trusted, P!TypeOK, P!Forgotten
<1>4. F!FlagsCatchUp /\ T!TuningCatchesUp /\ P!ChoiceCatchesUp => CachesCatchUp
  BY DEF CachesCatchUp
<1> QED
  BY <1>1, <1>2, <1>3, <1>4, FlagsInvariant, TuningInvariant, ProviderInvariant, PTL

----------------------------------------------------------------------------
(* The least number. *)

LEMMA LeastNumber ==
    ASSUME NEW S, S \subseteq Nat, S # {}
    PROVE  \E x \in S : \A y \in S : x <= y
<1>1. \A x, y \in Nat : <<x, y>> \in OpToRel(<, Nat) <=> x < y
  BY DEF OpToRel
<1>2. \E x \in S : \A y \in S : ~(<<y, x>> \in OpToRel(<, Nat))
  BY NatLessThanWellFounded, WFMin
<1>3. PICK x \in S : \A y \in S : ~(<<y, x>> \in OpToRel(<, Nat))
  BY <1>2
<1>4. \A y \in S : x <= y
  <2> TAKE y \in S
  <2>1. x \in Nat /\ y \in Nat /\ ~(y < x)
    BY <1>1, <1>3
  <2> QED
    BY <2>1
<1> QED
  BY <1>4

\* The least of a set of numbers is one of them.
LEMMA LeastIsOne ==
    ASSUME NEW S, S \subseteq Nat, S # {}
    PROVE  R!Min(S) \in S /\ O!Min(S) \in S /\ K!Min(S) \in S
BY LeastNumber DEF R!Min, O!Min, K!Min

----------------------------------------------------------------------------
(* The recipes and their trail. *)

\* What a call knows of itself: an edit, a change of status and a removal are of one recipe, a
\* change of status has its status, and a change that is still to be recorded was of recipes that
\* had one.
Removing == {"remove", "removeMany"}
CallsWellFormed ==
    {call \in R!Call :
        /\ call.pc \in {"read", "write"} =>
              /\ call.op \in {"update", "setStatus", "remove"} => \E r \in R!Ids : call.on = {r}
              /\ call.op \in {"setStatus", "setStatusMany"} => call.to \in R!Statuses
        /\ call.pc = "record" /\ call.op \notin Removing =>
              call.to \in R!Statuses /\ \A r \in call.on : call.seen[r] # "none"}

RecipesTyped == R!TypeOK /\ calls \in [Calls -> CallsWellFormed]

LEMMA IdleIsACall == R!Idle \in R!Call /\ R!Idle \in CallsWellFormed
<1>1. (CHOOSE d \in Dishes : TRUE) \in Dishes
  BY RecipesAssumption DEF R!RecipesAssumption
<1> QED
  BY <1>1 DEF R!Idle, R!Call, R!Step, R!Op, R!Statuses, R!Seen, R!NothingSeen, CallsWellFormed

\* A recipe is made under a number that was free.
LEMMA MakeTyped ==
    ASSUME R!TypeOK, R!Free # {}, NEW d \in Dishes, NEW status \in R!Statuses, R!Make(d, status)
    PROVE  /\ R!Min(R!Free) \in R!Ids /\ recipes[R!Min(R!Free)].status = "none"
           /\ recipes' \in [R!Ids -> R!Recipe] /\ first' \in [R!Ids -> R!Statuses \cup {"none"}]
<1>1. R!Free \subseteq R!Ids /\ R!Free \subseteq Nat
  BY RecipesAssumption DEF R!RecipesAssumption, R!Free, R!Ids
<1>2. R!Min(R!Free) \in R!Free
  BY <1>1, LeastIsOne
<1>3. R!Min(R!Free) \in R!Ids /\ recipes[R!Min(R!Free)].status = "none"
  BY <1>2 DEF R!Free
<1> HIDE DEF R!Free
<1> QED
  BY <1>3 DEF R!Make, R!TypeOK, R!Recipe

LEMMA RecipesTypeKept == RecipesTyped /\ [R!Next]_(R!vars) => RecipesTyped'
<1> SUFFICES ASSUME RecipesTyped, [R!Next]_(R!vars) PROVE RecipesTyped'
  OBVIOUS
<1> USE RecipesAssumption DEF R!RecipesAssumption, RecipesTyped
<1>0. ASSUME NEW f \in [Calls -> CallsWellFormed]
      PROVE  f \in [Calls -> R!Call]
  BY <1>0 DEF CallsWellFormed
<1>1. ASSUME NEW c \in Calls, NEW call \in CallsWellFormed, R!Begin(c, call)
      PROVE  calls' \in [Calls -> CallsWellFormed] /\ begun' \in 0..MaxCalls
  BY <1>1 DEF R!Begin, R!TypeOK
<1>2. ASSUME NEW c \in Calls, R!Ends(c)
      PROVE  calls' \in [Calls -> CallsWellFormed]
  BY <1>2, IdleIsACall DEF R!Ends, R!TypeOK
<1>3. ASSUME NEW d \in Dishes, NEW status \in R!Statuses, R!Create(d, status)
      PROVE  RecipesTyped'
  <2>1. recipes' \in [R!Ids -> R!Recipe] /\ first' \in [R!Ids -> R!Statuses \cup {"none"}]
    BY <1>3, MakeTyped DEF R!Create
  <2> QED
    BY <1>0, <1>3, <2>1 DEF R!Create, R!TypeOK
<1>4. ASSUME NEW c \in Calls, NEW d \in Dishes, R!BeginGenerate(c, d)
      PROVE  RecipesTyped'
  <2>1. [R!Idle EXCEPT !.pc = "ask", !.op = "generate", !.dish = d] \in CallsWellFormed
    BY IdleIsACall DEF CallsWellFormed, R!Call, R!Step, R!Op
  <2> QED
    BY <1>0, <1>1, <1>4, <2>1 DEF R!BeginGenerate, R!TypeOK, R!history
<1>5. ASSUME NEW c \in Calls, NEW d \in Dishes, R!Generate(c, d)
      PROVE  RecipesTyped'
  <2>1. calls[c] \in R!Call /\ calls'[c] = [calls[c] EXCEPT !.pc = "create", !.dish = d]
    BY <1>5 DEF R!Generate, R!TypeOK
  <2>2. calls'[c] \in CallsWellFormed
    BY <2>1 DEF CallsWellFormed, R!Call, R!Step
  <2> QED
    BY <1>0, <1>5, <2>2 DEF R!Generate, R!TypeOK, R!history
<1>6. ASSUME NEW c \in Calls, R!NotGenerated(c) \/ R!Dies(c)
      PROVE  RecipesTyped'
  BY <1>0, <1>2, <1>6 DEF R!NotGenerated, R!Dies, R!TypeOK, R!history
<1>7. ASSUME NEW c \in Calls, R!SaveGenerated(c)
      PROVE  RecipesTyped'
  <2>1. calls[c].dish \in Dishes
    BY DEF R!TypeOK, R!Call
  <2>2. recipes' \in [R!Ids -> R!Recipe] /\ first' \in [R!Ids -> R!Statuses \cup {"none"}]
    BY <1>7, <2>1, MakeTyped DEF R!SaveGenerated, R!Statuses, R!TypeOK
  <2> QED
    BY <1>0, <1>2, <1>7, <2>2 DEF R!SaveGenerated, R!TypeOK
<1>8. ASSUME NEW c \in Calls, NEW r \in R!Ids, NEW d \in Dishes, NEW to \in R!Statuses \cup {"keep"},
             R!BeginUpdate(c, r, d, to)
      PROVE  RecipesTyped'
  <2>1. [R!Idle EXCEPT !.pc = "read", !.op = "update", !.on = {r}, !.to = to, !.dish = d]
          \in CallsWellFormed
    BY IdleIsACall DEF CallsWellFormed, R!Call, R!Step, R!Op
  <2> QED
    BY <1>0, <1>1, <1>8, <2>1 DEF R!BeginUpdate, R!TypeOK, R!history
<1>9. ASSUME NEW c \in Calls, NEW op \in {"setStatus", "setStatusMany"}, NEW on \in SUBSET R!Ids,
             NEW to \in R!Statuses, op = "setStatus" => \E r \in R!Ids : on = {r},
             R!BeginStatus(c, op, on, to)
      PROVE  RecipesTyped'
  <2>1. [R!Idle EXCEPT !.pc = IF op = "setStatus" THEN "write" ELSE "read",
                       !.op = op, !.on = on, !.to = to] \in CallsWellFormed
    BY <1>9, IdleIsACall DEF CallsWellFormed, R!Call, R!Step, R!Op
  <2> QED
    BY <1>0, <1>1, <1>9, <2>1 DEF R!BeginStatus, R!TypeOK, R!history
<1>10. ASSUME NEW c \in Calls, NEW op \in {"remove", "removeMany"}, NEW on \in SUBSET R!Ids,
              op = "remove" => \E r \in R!Ids : on = {r}, R!BeginRemove(c, op, on)
       PROVE  RecipesTyped'
  <2>1. [R!Idle EXCEPT !.pc = "read", !.op = op, !.on = on] \in CallsWellFormed
    BY <1>10, IdleIsACall DEF CallsWellFormed, R!Call, R!Step, R!Op
  <2> QED
    BY <1>0, <1>1, <1>10, <2>1 DEF R!BeginRemove, R!TypeOK, R!history
<1>11. ASSUME NEW on \in SUBSET R!Ids
       PROVE  R!StatusOf(on) \in [R!Ids -> R!Seen]
  BY DEF R!StatusOf, R!Kept, R!Seen
<1>12. ASSUME NEW c \in Calls, R!Read(c)
       PROVE  RecipesTyped'
  <2>1. calls'[c] = [calls[c] EXCEPT !.pc = "write", !.seen = R!StatusOf(calls[c].on)]
    BY <1>12 DEF R!Read, R!TypeOK
  <2>0. /\ calls[c] \in R!Call /\ calls[c].pc = "read"
        /\ calls[c].op \in {"update", "setStatus", "remove"} => \E r \in R!Ids : calls[c].on = {r}
        /\ calls[c].op \in {"setStatus", "setStatusMany"} => calls[c].to \in R!Statuses
    BY <1>12 DEF R!Read, R!TypeOK, CallsWellFormed
  <2>2. R!StatusOf(calls[c].on) \in [R!Ids -> R!Seen]
    BY <1>11 DEF R!TypeOK, R!Call
  <2>3. calls'[c] \in CallsWellFormed
    BY <2>0, <2>1, <2>2 DEF CallsWellFormed, R!Call, R!Step
  <2> QED
    BY <1>0, <1>12, <2>3 DEF R!Read, R!TypeOK, R!history
<1>13. ASSUME NEW c \in Calls, R!Update(c)
       PROVE  RecipesTyped'
  <2>0. /\ calls[c] \in R!Call
        /\ \A r \in R!Found(calls[c]) : r \in R!Ids /\ calls[c].seen[r] \in R!Statuses
    BY DEF R!TypeOK, R!Call, R!Found, R!Seen
  <2>1. recipes' \in [R!Ids -> R!Recipe]
    <3>1. ASSUME NEW r \in R!Ids
          PROVE  recipes'[r] \in R!Recipe
      <4>1. \/ recipes'[r] = recipes[r]
            \/ \E to \in R!Statuses : recipes'[r] = [recipes[r] EXCEPT !.status = to,
                                                                       !.name = calls[c].dish]
        BY <1>13, <2>0 DEF R!Update, R!Call
      <4> QED
        BY <2>0, <4>1 DEF R!TypeOK, R!Recipe, R!Call
    <3> QED
      BY <1>13, <3>1 DEF R!Update
  <2>2. CASE R!Found(calls[c]) = {}
    BY <1>0, <1>2, <1>13, <2>1, <2>2 DEF R!Update, R!TypeOK
  <2>3. CASE R!Found(calls[c]) # {}
    <3>1. PICK q \in R!Ids : calls[c].on = {q}
      BY <1>13 DEF R!Update, CallsWellFormed
    <3>2. R!Min({q}) = q
      BY LeastIsOne DEF R!Ids
    <3>3. calls[c].seen[q] \in R!Statuses
      BY <2>0, <2>3, <3>1 DEF R!Found
    <3>4. calls'[c] = [calls[c] EXCEPT !.pc = "record",
                                       !.to = IF calls[c].to = "keep" THEN calls[c].seen[q]
                                              ELSE calls[c].to]
      <4>1. calls' = [calls EXCEPT ![c] =
                        [calls[c] EXCEPT !.pc = "record",
                                         !.to = IF calls[c].to = "keep"
                                                THEN calls[c].seen[R!Min(calls[c].on)]
                                                ELSE calls[c].to]]
        BY <1>13, <2>3 DEF R!Update
      <4> QED
        BY <3>1, <3>2, <4>1 DEF R!TypeOK
    <3>5. calls'[c] \in CallsWellFormed
      BY <2>0, <3>1, <3>3, <3>4 DEF CallsWellFormed, R!Call, R!Step, R!Statuses
    <3>6. calls' \in [Calls -> CallsWellFormed]
      BY <1>13, <2>3, <3>5 DEF R!Update
    <3> QED
      BY <1>0, <1>13, <2>1, <3>6 DEF R!Update, R!TypeOK, R!Found, R!Call
  <2> QED
    BY <2>2, <2>3
<1>14. ASSUME NEW c \in Calls, R!SetStatus(c)
       PROVE  RecipesTyped'
  <2>1. calls[c] \in R!Call /\ calls[c].to \in R!Statuses /\ \E r \in R!Ids : calls[c].on = {r}
    BY <1>14 DEF R!SetStatus, CallsWellFormed
  <2> DEFINE found == {r \in calls[c].on : R!Kept(r)}
  <2>2. recipes' \in [R!Ids -> R!Recipe]
    BY <1>14, <2>1 DEF R!SetStatus, R!TypeOK, R!Recipe
  <2>3. CASE found = {}
    BY <1>0, <1>2, <1>14, <2>2, <2>3 DEF R!SetStatus, R!TypeOK, R!history
  <2>4. CASE found # {}
    <3>1. calls' = [calls EXCEPT ![c] = [calls[c] EXCEPT !.pc = "record",
                                                         !.seen = R!StatusOf(found)]]
      BY <1>14, <2>4 DEF R!SetStatus
    <3>2. found = calls[c].on /\ found \in SUBSET R!Ids
      BY <2>1, <2>4
    <3>3. \A r \in found : R!StatusOf(found)[r] # "none"
      BY <3>2 DEF R!StatusOf, R!Kept, R!Statuses
    <3> HIDE DEF found
    <3>4. [calls[c] EXCEPT !.pc = "record", !.seen = R!StatusOf(found)] \in CallsWellFormed
      BY <1>11, <2>1, <3>2, <3>3 DEF CallsWellFormed, R!Call, R!Step
    <3>5. calls' \in [Calls -> CallsWellFormed]
      BY <3>1, <3>4
    <3> QED
      BY <1>0, <1>14, <2>2, <3>5 DEF R!SetStatus, R!TypeOK, R!history
  <2> QED
    BY <2>3, <2>4
<1>15. ASSUME NEW c \in Calls, R!SetStatusMany(c)
       PROVE  RecipesTyped'
  <2>1. calls[c] \in R!Call /\ calls[c].to \in R!Statuses
    BY <1>15 DEF R!SetStatusMany, CallsWellFormed
  <2>2. recipes' \in [R!Ids -> R!Recipe]
    BY <1>15, <2>1 DEF R!SetStatusMany, R!TypeOK, R!Recipe
  <2>3. calls' = [calls EXCEPT ![c] = [calls[c] EXCEPT !.pc = "record",
                                                       !.on = R!Changing(calls[c])]]
    BY <1>15 DEF R!SetStatusMany
  <2>4. /\ R!Changing(calls[c]) \in SUBSET R!Ids
        /\ \A r \in R!Changing(calls[c]) : calls[c].seen[r] # "none"
    BY <2>1 DEF R!Changing, R!Found, R!Call
  <2>5. [calls[c] EXCEPT !.pc = "record", !.on = R!Changing(calls[c])] \in CallsWellFormed
    BY <2>1, <2>4 DEF CallsWellFormed, R!Call, R!Step
  <2>6. calls' \in [Calls -> CallsWellFormed]
    BY <2>3, <2>5
  <2> QED
    BY <1>0, <1>15, <2>2, <2>4, <2>6 DEF R!SetStatusMany, R!TypeOK
<1>16. ASSUME NEW on \in SUBSET R!Ids
       PROVE  R!Removed(on) \in [R!Ids -> R!Recipe]
  BY DEF R!Removed, R!TypeOK, R!Recipe
<1>17. ASSUME NEW c \in Calls, R!Remove(c)
       PROVE  RecipesTyped'
  <2>1. calls[c] \in R!Call /\ calls[c].op = "remove" /\ calls[c].on \in SUBSET R!Ids
    BY <1>17 DEF R!Remove, R!TypeOK, R!Call
  <2>2. [calls[c] EXCEPT !.pc = "record"] \in CallsWellFormed
    BY <2>1 DEF CallsWellFormed, R!Call, R!Step, Removing
  <2>3. \/ calls' = [calls EXCEPT ![c] = [calls[c] EXCEPT !.pc = "record"]]
        \/ R!Ends(c)
    BY <1>17 DEF R!Remove
  <2>4. calls' \in [Calls -> CallsWellFormed]
    BY <1>2, <2>2, <2>3
  <2> QED
    BY <1>0, <1>16, <1>17, <2>1, <2>4 DEF R!Remove, R!TypeOK, R!history
<1>18. ASSUME NEW c \in Calls, R!RemoveMany(c)
       PROVE  RecipesTyped'
  <2>1. calls[c] \in R!Call /\ calls[c].op = "removeMany" /\ R!Found(calls[c]) \in SUBSET R!Ids
    BY <1>18 DEF R!RemoveMany, R!TypeOK, R!Call, R!Found
  <2>2. [calls[c] EXCEPT !.pc = "record", !.on = R!Found(calls[c])] \in CallsWellFormed
    BY <2>1 DEF CallsWellFormed, R!Call, R!Step, Removing
  <2>3. calls' = [calls EXCEPT ![c] = [calls[c] EXCEPT !.pc = "record", !.on = R!Found(calls[c])]]
    BY <1>18 DEF R!RemoveMany
  <2>4. calls' \in [Calls -> CallsWellFormed]
    BY <2>2, <2>3
  <2> QED
    BY <1>0, <1>16, <1>18, <2>1, <2>4 DEF R!RemoveMany, R!TypeOK, R!history
<1>19. ASSUME NEW c \in Calls, NEW lost, NEW difference \in [R!Ids -> Int]
       PROVE  R!Entered(c, lost, difference) \in [R!Ids -> R!Entries]
  BY DEF R!Entered, R!TypeOK, R!Entries
<1>20. ASSUME NEW c \in Calls
       PROVE  [r \in R!Ids |-> R!Worth(calls[c].to) - R!Worth(calls[c].seen[r])]
                \in [R!Ids -> Int]
  BY DEF R!Worth
<1>21. ASSUME NEW c \in Calls, R!Record(c)
       PROVE  RecipesTyped'
  BY <1>0, <1>2, <1>19, <1>20, <1>21 DEF R!Record, R!TypeOK, R!history
<1>22. ASSUME NEW c \in Calls, R!RecordFails(c)
       PROVE  RecipesTyped'
  <2>1. calls[c].on \in SUBSET R!Ids
    BY DEF R!TypeOK, R!Call
  <2> QED
    BY <1>0, <1>2, <1>19, <1>20, <1>22, <2>1 DEF R!RecordFails, R!TypeOK
<1>23. CASE UNCHANGED R!vars
  BY <1>23 DEF R!vars, R!history, R!TypeOK
<1>24. ASSUME NEW c \in Calls, NEW r \in R!Ids, NEW to \in R!Statuses,
              R!BeginStatus(c, "setStatus", {r}, to)
       PROVE  RecipesTyped'
  BY <1>9, <1>24
<1>25. ASSUME NEW c \in Calls, NEW r \in R!Ids, R!BeginRemove(c, "remove", {r})
       PROVE  RecipesTyped'
  BY <1>10, <1>25
<1> QED
  BY <1>3, <1>4, <1>5, <1>6, <1>7, <1>8, <1>9, <1>10, <1>12, <1>13, <1>14, <1>15, <1>17, <1>18,
     <1>21, <1>22, <1>23, <1>24, <1>25 DEF R!Next

LEMMA RecipesStartTyped == R!Init => RecipesTyped
BY RecipesAssumption, IdleIsACall
DEF R!RecipesAssumption, R!Init, RecipesTyped, R!TypeOK, R!Recipe, R!Entries, R!Call, R!Statuses

\* The set of calls that count for one thing and not another, when one call has changed.
LEMMA OneMoreOrLess ==
    ASSUME NEW S, NEW U, NEW c, IsFiniteSet(S), S \ {c} = U \ {c}
    PROVE  /\ IsFiniteSet(U) /\ Cardinality(S) \in Nat /\ Cardinality(U) \in Nat
           /\ Cardinality(U) = Cardinality(S) + (IF c \in U THEN 1 ELSE 0)
                                              - (IF c \in S THEN 1 ELSE 0)
<1>1. CASE c \in S /\ c \in U
  <2>1. U = S
    BY <1>1
  <2> QED
    BY <1>1, <2>1, FS_CardinalityType
<1>2. CASE c \in S /\ c \notin U
  <2>1. U = S \ {c}
    BY <1>2
  <2> QED
    <3>1. IsFiniteSet(U) /\ Cardinality(U) = Cardinality(S) - 1
      BY <1>2, <2>1, FS_RemoveElement
    <3>2. Cardinality(S) \in Nat /\ Cardinality(U) \in Nat
      BY <3>1, FS_CardinalityType
    <3> QED
      BY <1>2, <3>1, <3>2
<1>3. CASE c \notin S /\ c \in U
  <2>1. U = S \cup {c}
    BY <1>3
  <2> QED
    BY <1>3, <2>1, FS_AddElement, FS_CardinalityType
<1>4. CASE c \notin S /\ c \notin U
  <2>1. U = S
    BY <1>4
  <2> QED
    BY <1>4, <2>1, FS_CardinalityType
<1> QED
  BY <1>1, <1>2, <1>3, <1>4

\* What a call will add to the entries of a recipe when it records its change, and what all of
\* them will.
Difference(c, r) ==
    IF calls[c].pc = "record" /\ calls[c].op \notin Removing /\ r \in calls[c].on
    THEN R!Worth(calls[c].to) - R!Worth(calls[c].seen[r]) ELSE 0
Rising(r) == {c \in Calls : Difference(c, r) = 1}
Falling(r) == {c \in Calls : Difference(c, r) = -1}
Pending(r) == Cardinality(Rising(r)) - Cardinality(Falling(r))

LEMMA DifferenceIsSmall == \A c, r : Difference(c, r) \in {-1, 0, 1}
BY DEF Difference, R!Worth

LEMMA PendingCounts == \A r : Pending(r) \in Int
<1>1. IsFiniteSet(Calls)
  BY RecipesAssumption DEF R!RecipesAssumption, R!IsFiniteSet, IsFiniteSet
<1> QED
  BY <1>1, FS_Subset, FS_CardinalityType DEF Pending, Rising, Falling

\* A step of one call changes what is pending by what it changes of that call.
LEMMA PendingChanges ==
    ASSUME NEW c \in Calls, \A d \in Calls \ {c} : calls'[d] = calls[d], NEW r
    PROVE  Pending(r)' = Pending(r) + Difference(c, r)' - Difference(c, r)
<1>1. IsFiniteSet(Calls)
  BY RecipesAssumption DEF R!RecipesAssumption, R!IsFiniteSet, IsFiniteSet
<1>2. \A d \in Calls \ {c} : Difference(d, r)' = Difference(d, r)
  BY DEF Difference
<1>3. Rising(r) \ {c} = Rising(r)' \ {c} /\ Falling(r) \ {c} = Falling(r)' \ {c}
  BY <1>2 DEF Rising, Falling
<1>4. IsFiniteSet(Rising(r)) /\ IsFiniteSet(Falling(r))
  BY <1>1, FS_Subset DEF Rising, Falling
<1>5. /\ Cardinality(Rising(r)) \in Nat /\ Cardinality(Rising(r)') \in Nat
      /\ Cardinality(Rising(r)') = Cardinality(Rising(r)) + (IF c \in Rising(r)' THEN 1 ELSE 0)
                                                          - (IF c \in Rising(r) THEN 1 ELSE 0)
  BY <1>3, <1>4, OneMoreOrLess
<1>6. /\ Cardinality(Falling(r)) \in Nat /\ Cardinality(Falling(r)') \in Nat
      /\ Cardinality(Falling(r)') = Cardinality(Falling(r)) + (IF c \in Falling(r)' THEN 1 ELSE 0)
                                                            - (IF c \in Falling(r) THEN 1 ELSE 0)
  BY <1>3, <1>4, OneMoreOrLess
<1>7. /\ Difference(c, r) \in {-1, 0, 1} /\ Difference(c, r)' \in {-1, 0, 1}
      /\ c \in Rising(r) <=> Difference(c, r) = 1 
      /\ c \in Falling(r) <=> Difference(c, r) = -1
      /\ c \in Rising(r)' <=> Difference(c, r)' = 1 
      /\ c \in Falling(r)' <=> Difference(c, r)' = -1
  BY DifferenceIsSmall DEF Rising, Falling, Difference, R!Worth
<1> HIDE DEF Difference, Rising, Falling
<1> QED
  BY <1>5, <1>6, <1>7 DEF Pending

LEMMA NothingPending ==
    ASSUME NEW r, \A c \in Calls : Difference(c, r) = 0
    PROVE  Pending(r) = 0
<1>1. Rising(r) = {} /\ Falling(r) = {}
  BY DEF Rising, Falling
<1> QED
  BY <1>1, FS_EmptySet DEF Pending

\* The entries of a recipe, with what is pending, add up to its status, unless one was lost or it
\* was written from a status that had changed; and its removal is said or will be.
AddsUp(r) ==
    R!Kept(r) /\ r \notin stale /\ r \notin unsaid =>
        R!Worth(recipes[r].status) = R!Worth(first[r]) + trail[r].published + Pending(r)
RemovalSaid(r) ==
    recipes[r].status = "removed" /\ r \notin unsaid =>
        \/ trail[r].removed > 0
        \/ \E c \in Calls : calls[c].pc = "record" /\ calls[c].op \in Removing /\ r \in calls[c].on
TrailIInv ==
    /\ RecipesTyped
    /\ \A c \in Calls : \A r \in calls[c].on : recipes[r].status # "none"
    /\ \A r \in R!Ids : recipes[r].status = "none" => trail[r].published = 0
    /\ \A r \in R!Ids : AddsUp(r) /\ RemovalSaid(r)

\* A step of one call keeps the invariant when it keeps it of every recipe, with what is pending
\* changed by what it changed of that call.
LEMMA TrailStep ==
    ASSUME TrailIInv, RecipesTyped', NEW c \in Calls, \A d \in Calls \ {c} : calls'[d] = calls[d],
           \A r \in R!Ids : recipes[r].status # "none" => recipes'[r].status # "none",
           \A r \in calls'[c].on : recipes'[r].status # "none",
           \A r \in R!Ids : recipes'[r].status = "none" => trail'[r] = trail[r],
           \A r \in R!Ids :
              R!Kept(r)' /\ r \notin stale' /\ r \notin unsaid' =>
                 R!Worth(recipes'[r].status) =
                    R!Worth(first'[r]) + trail'[r].published
                      + (Pending(r) + Difference(c, r)' - Difference(c, r)),
           \A r \in R!Ids : RemovalSaid(r)'
    PROVE  TrailIInv'
<1>1. \A r \in R!Ids : Pending(r)' = Pending(r) + Difference(c, r)' - Difference(c, r)
  BY PendingChanges
<1>2. \A r \in R!Ids : AddsUp(r)'
  BY <1>1 DEF AddsUp
<1>3. ASSUME NEW d \in Calls, NEW r \in calls'[d].on
      PROVE  recipes'[r].status # "none"
  <2>1. CASE d = c
    BY <2>1
  <2>2. CASE d # c
    <3>1. calls'[d] = calls[d] /\ r \in R!Ids
      BY <2>2 DEF TrailIInv, RecipesTyped, R!TypeOK, R!Call
    <3> QED
      BY <3>1 DEF TrailIInv
  <2> QED
    BY <2>1, <2>2
<1>4. ASSUME NEW r \in R!Ids, recipes'[r].status = "none"
      PROVE  trail'[r].published = 0
  BY <1>4 DEF TrailIInv
<1> QED
  BY <1>2, <1>3, <1>4 DEF TrailIInv

\* The removals that are still to be said stay so while another call takes a step.
LEMMA RemovalStep ==
    ASSUME TrailIInv, NEW c \in Calls, \A d \in Calls \ {c} : calls'[d] = calls[d],
           calls[c].pc # "record", NEW r \in R!Ids, trail'[r] = trail[r], unsaid' = unsaid,
           recipes'[r].status = "removed" =>
              \/ recipes[r].status = "removed"
              \/ calls'[c].pc = "record" /\ calls'[c].op \in Removing /\ r \in calls'[c].on
    PROVE  RemovalSaid(r)'
BY DEF RemovalSaid, TrailIInv

\* A step that neither records nor is about to, and touches no recipe and no entry.
LEMMA TrailUntouched ==
    ASSUME TrailIInv, RecipesTyped', NEW c \in Calls, \A d \in Calls \ {c} : calls'[d] = calls[d],
           calls[c].pc # "record", calls'[c].pc # "record",
           UNCHANGED <<recipes, trail, first, stale, unsaid>>,
           \A r \in calls'[c].on : recipes[r].status # "none"
    PROVE  TrailIInv'
<1>1. \A r : Difference(c, r) = 0 /\ Difference(c, r)' = 0
  BY DEF Difference
<1>2. ASSUME NEW r \in R!Ids, R!Kept(r)', r \notin stale', r \notin unsaid'
      PROVE  R!Worth(recipes'[r].status) =
                R!Worth(first'[r]) + trail'[r].published
                  + (Pending(r) + Difference(c, r)' - Difference(c, r))
  <2>1. R!Worth(recipes[r].status) = R!Worth(first[r]) + trail[r].published + Pending(r)
    BY <1>2 DEF TrailIInv, AddsUp, R!Kept
  <2> QED
    BY <1>1, <2>1, PendingCounts
<1>3. \A r \in R!Ids : RemovalSaid(r)'
  BY RemovalStep
<1> QED
  BY <1>2, <1>3, TrailStep

\* A recipe that is made is new to every call and to the trail.
LEMMA TrailOfTheNew ==
    ASSUME TrailIInv, RecipesTyped', NEW d \in Dishes, NEW status \in R!Statuses, R!Free # {},
           R!Make(d, status), UNCHANGED <<trail, stale, unsaid>>,
           \A c \in Calls : \/ calls'[c] = calls[c]
                            \/ calls[c].pc # "record" /\ calls'[c] = R!Idle
    PROVE  TrailIInv'
<1> DEFINE new == R!Min(R!Free)
<1>1. new \in R!Ids /\ recipes[new].status = "none"
  BY MakeTyped DEF TrailIInv, RecipesTyped
<1>2. /\ recipes' = [recipes EXCEPT ![new] = [status |-> status, name |-> d, slug |-> d]]
      /\ first' = [first EXCEPT ![new] = status]
  BY DEF R!Make
<1> HIDE DEF new
<1>0. R!Idle.pc = "idle" /\ R!Idle.on = {}
  BY DEF R!Idle
<1>3. ASSUME NEW c \in Calls, NEW r
      PROVE  Difference(c, r)' = Difference(c, r)
  <2>1. CASE calls'[c] = calls[c]
    BY <2>1 DEF Difference
  <2>2. CASE calls[c].pc # "record" /\ calls'[c] = R!Idle
    BY <1>0, <2>2 DEF Difference
  <2> QED
    BY <2>1, <2>2
<1>4. \A r : Pending(r)' = Pending(r)
  BY <1>3 DEF Pending, Rising, Falling
<1>5. Pending(new) = 0
  <2>1. \A c \in Calls : new \notin calls[c].on
    BY <1>1 DEF TrailIInv
  <2>2. \A c \in Calls : Difference(c, new) = 0
    BY <2>1 DEF Difference
  <2> QED
    BY <2>2, NothingPending
<1>6. \A r \in R!Ids : r # new => recipes'[r] = recipes[r] /\ first'[r] = first[r]
  BY <1>1, <1>2 DEF TrailIInv, RecipesTyped, R!TypeOK
<1>7. recipes'[new].status = status /\ first'[new] = status
  BY <1>1, <1>2 DEF TrailIInv, RecipesTyped, R!TypeOK
<1>8. ASSUME NEW r \in R!Ids
      PROVE  AddsUp(r)'
  <2>1. CASE r = new
    <3>1. trail[r].published = 0
      BY <1>1, <2>1 DEF TrailIInv
    <3> QED
      BY <1>4, <1>5, <1>7, <2>1, <3>1 DEF AddsUp, R!Worth
  <2>2. CASE r # new
    BY <1>4, <1>6, <2>2 DEF AddsUp, TrailIInv, R!Kept
  <2> QED
    BY <2>1, <2>2
<1>9. ASSUME NEW r \in R!Ids
      PROVE  RemovalSaid(r)'
  <2>1. CASE r = new
    BY <1>7, <2>1 DEF RemovalSaid, R!Statuses
  <2>2. CASE r # new
    <3>1. \A c \in Calls : calls[c].pc = "record" => calls'[c] = calls[c]
      OBVIOUS
    <3> QED
      BY <1>6, <2>2, <3>1 DEF RemovalSaid, TrailIInv
  <2> QED
    BY <2>1, <2>2
<1>10. ASSUME NEW c \in Calls, NEW r \in calls'[c].on
       PROVE  recipes'[r].status # "none"
  <2>1. calls'[c] = calls[c]
    BY <1>0, <1>10
  <2>2. recipes[r].status # "none" /\ r \in R!Ids
    BY <2>1 DEF TrailIInv, RecipesTyped, R!TypeOK, R!Call
  <2> QED
    BY <1>1, <1>6, <2>2
<1>11. ASSUME NEW r \in R!Ids, recipes'[r].status = "none"
       PROVE  trail'[r].published = 0
  BY <1>6, <1>7, <1>11 DEF TrailIInv, R!Statuses
<1> QED
  BY <1>8, <1>9, <1>10, <1>11 DEF TrailIInv

\* A change of status by one call: what it wrote over the status of a recipe it will record as the
\* difference between what it set and what it saw, and it saw what was there or the recipe is
\* noted as written from a status that had changed.
LEMMA TrailOfAChange ==
    ASSUME TrailIInv, RecipesTyped', NEW c \in Calls, \A d \in Calls \ {c} : calls'[d] = calls[d],
           calls[c].pc = "write", calls[c].op \notin Removing, calls'[c].op = calls[c].op,
           calls'[c].pc \in {"record", "idle"}, calls'[c].on \subseteq calls[c].on,
           UNCHANGED <<trail, first, unsaid>>, stale \subseteq stale',
           \A r \in R!Ids :
              \/ recipes'[r].status = recipes[r].status
                   /\ ~(calls'[c].pc = "record" /\ r \in calls'[c].on)
              \/ ~R!Kept(r) /\ recipes'[r].status = recipes[r].status
              \/ R!Kept(r) /\ calls'[c].pc = "record" /\ r \in calls'[c].on
                   /\ recipes'[r].status = calls'[c].to /\ calls'[c].to \in R!Statuses
                   /\ (recipes[r].status = calls'[c].seen[r] \/ r \in stale')
    PROVE  TrailIInv'
<1>1. \A r : Difference(c, r) = 0
  BY DEF Difference
<1>2. ASSUME NEW r \in R!Ids
      PROVE  /\ recipes'[r].status = "removed" => recipes[r].status = "removed"
             /\ recipes[r].status # "none" <=> recipes'[r].status # "none"
  BY DEF R!Statuses, R!Kept
<1>3. \A r \in R!Ids : RemovalSaid(r)'
  BY <1>2, RemovalStep
<1>4. ASSUME NEW r \in R!Ids, R!Kept(r)', r \notin stale', r \notin unsaid'
      PROVE  R!Worth(recipes'[r].status) =
                R!Worth(first'[r]) + trail'[r].published
                  + (Pending(r) + Difference(c, r)' - Difference(c, r))
  <2>1. R!Kept(r)
    BY <1>4 DEF R!Kept
  <2>2. R!Worth(recipes[r].status) = R!Worth(first[r]) + trail[r].published + Pending(r)
    BY <1>4, <2>1 DEF TrailIInv, AddsUp
  <2>3. Pending(r) \in Int /\ trail[r].published \in Int /\ \A x : R!Worth(x) \in {0, 1}
    BY PendingCounts DEF TrailIInv, RecipesTyped, R!TypeOK, R!Entries, R!Worth
  <2>4. CASE calls'[c].pc = "record" /\ r \in calls'[c].on
    <3>1. recipes'[r].status = calls'[c].to /\ recipes[r].status = calls'[c].seen[r]
      BY <1>4, <2>1, <2>4
    <3>2. Difference(c, r)' = R!Worth(calls'[c].to) - R!Worth(calls'[c].seen[r])
      BY <2>4 DEF Difference, R!Worth
    <3> QED
      BY <1>1, <2>2, <2>3, <3>1, <3>2
  <2>5. CASE ~(calls'[c].pc = "record" /\ r \in calls'[c].on)
    <3>1. recipes'[r].status = recipes[r].status /\ Difference(c, r)' = 0
      BY <2>5 DEF Difference
    <3> QED
      BY <1>1, <2>2, <2>3, <3>1
  <2> QED
    BY <2>4, <2>5
<1>5. \A r \in calls'[c].on : recipes'[r].status # "none"
  <2>1. calls[c].on \subseteq R!Ids
    BY DEF TrailIInv, RecipesTyped, R!TypeOK, R!Call
  <2> QED
    BY <1>2, <2>1 DEF TrailIInv
<1> QED
  BY <1>2, <1>3, <1>4, <1>5, TrailStep

\* A recording adds to the entries what was pending of it.
LEMMA TrailOfARecord ==
    ASSUME TrailIInv, RecipesTyped', NEW c \in Calls, calls[c].pc = "record", R!Ends(c),
           NEW lost, trail' = R!Entered(c, lost, [r \in R!Ids |-> R!Worth(calls[c].to)
                                                               - R!Worth(calls[c].seen[r])]),
           unsaid' = unsaid \cup lost, UNCHANGED <<recipes, first, stale>>
    PROVE  TrailIInv'
<1>0. R!Idle.pc = "idle" /\ R!Idle.on = {}
  BY DEF R!Idle
<1>1. calls'[c] = R!Idle /\ \A d \in Calls \ {c} : calls'[d] = calls[d]
  BY DEF R!Ends, TrailIInv, RecipesTyped, R!TypeOK
<1>2. \A r : Difference(c, r)' = 0
  BY <1>0, <1>1 DEF Difference
<1>3. ASSUME NEW r \in R!Ids, r \notin lost
      PROVE  /\ trail'[r].published = trail[r].published + Difference(c, r)
             /\ trail[r].removed > 0 => trail'[r].removed > 0
             /\ calls[c].op \in Removing /\ r \in calls[c].on => trail'[r].removed > 0
  <2>1. trail[r] \in R!Entries /\ calls[c].on \subseteq R!Ids
    BY DEF TrailIInv, RecipesTyped, R!TypeOK, R!Call
  <2>2. trail'[r] = IF r \notin calls[c].on \ lost THEN trail[r]
                    ELSE IF calls[c].op \in Removing
                    THEN [trail[r] EXCEPT !.removed = @ + 1]
                    ELSE [trail[r] EXCEPT !.published = @ + (R!Worth(calls[c].to)
                                                             - R!Worth(calls[c].seen[r]))]
    BY DEF R!Entered, Removing
  <2> QED
    BY <1>3, <2>1, <2>2 DEF R!Entries, Difference
<1>4. ASSUME NEW r \in R!Ids, R!Kept(r)', r \notin stale', r \notin unsaid'
      PROVE  R!Worth(recipes'[r].status) =
                R!Worth(first'[r]) + trail'[r].published
                  + (Pending(r) + Difference(c, r)' - Difference(c, r))
  <2>1. R!Worth(recipes[r].status) = R!Worth(first[r]) + trail[r].published + Pending(r)
    BY <1>4 DEF TrailIInv, AddsUp, R!Kept
  <2>2. /\ Pending(r) \in Int /\ trail[r].published \in Int /\ \A x : R!Worth(x) \in {0, 1}
        /\ Difference(c, r) \in Int
    BY PendingCounts, DifferenceIsSmall
    DEF TrailIInv, RecipesTyped, R!TypeOK, R!Entries, R!Worth
  <2>3. trail'[r].published = trail[r].published + Difference(c, r)
    BY <1>3, <1>4
  <2> QED
    BY <1>2, <2>1, <2>2, <2>3
<1>5. ASSUME NEW r \in R!Ids
      PROVE  RemovalSaid(r)'
  <2> SUFFICES ASSUME recipes[r].status = "removed", r \notin unsaid, r \notin lost,
                      ~(trail'[r].removed > 0)
               PROVE  \E d \in Calls : /\ calls'[d].pc = "record" /\ calls'[d].op \in Removing
                                       /\ r \in calls'[d].on
    BY DEF RemovalSaid
  <2>1. PICK d \in Calls : /\ calls[d].pc = "record" /\ calls[d].op \in Removing
                           /\ r \in calls[d].on
    BY <1>3 DEF RemovalSaid, TrailIInv
  <2>2. d # c
    BY <1>3, <2>1
  <2> QED
    BY <1>1, <2>1, <2>2
<1>6. ASSUME NEW r \in R!Ids, recipes'[r].status = "none"
      PROVE  trail'[r] = trail[r]
  <2>1. r \notin calls[c].on
    BY <1>6 DEF TrailIInv
  <2> QED
    BY <2>1 DEF R!Entered, TrailIInv, RecipesTyped, R!TypeOK
<1> QED
  BY <1>0, <1>1, <1>4, <1>5, <1>6, TrailStep

LEMMA TrailKept == TrailIInv /\ [R!Next]_(R!vars) => TrailIInv'
<1> SUFFICES ASSUME TrailIInv, [R!Next]_(R!vars) PROVE TrailIInv'
  OBVIOUS
<1>0. /\ RecipesTyped /\ RecipesTyped' /\ calls \in [Calls -> R!Call] /\ calls' \in [Calls -> R!Call]
      /\ R!Idle.pc = "idle" /\ R!Idle.on = {}
  BY RecipesTypeKept DEF TrailIInv, RecipesTyped, R!TypeOK, R!Idle
<1>1. ASSUME NEW d \in Dishes, NEW status \in R!Statuses, R!Create(d, status)
      PROVE  TrailIInv'
  BY <1>0, <1>1, TrailOfTheNew DEF R!Create
<1>2. ASSUME NEW c \in Calls, NEW call, R!Begin(c, call), call.pc # "record",
             \A r \in call.on : R!Kept(r),
             UNCHANGED <<recipes, trail, first, stale, unsaid>>
      PROVE  TrailIInv'
  <2>1. calls[c].pc # "record" /\ calls'[c] = call /\ \A d \in Calls \ {c} : calls'[d] = calls[d]
    BY <1>0, <1>2 DEF R!Begin
  <2>2. \A r \in call.on : recipes[r].status # "none"
    BY <1>2 DEF R!Kept, R!Statuses
  <2> QED
    BY <1>0, <1>2, <2>1, <2>2, TrailUntouched
<1>3. ASSUME NEW c \in Calls, NEW d \in Dishes, R!BeginGenerate(c, d)
      PROVE  TrailIInv'
  <2>1. /\ [R!Idle EXCEPT !.pc = "ask", !.op = "generate", !.dish = d].pc # "record"
        /\ [R!Idle EXCEPT !.pc = "ask", !.op = "generate", !.dish = d].on = {}
    BY DEF R!Idle
  <2> QED
    BY <1>2, <1>3, <2>1 DEF R!BeginGenerate, R!history
<1>4. ASSUME NEW c \in Calls, NEW r \in R!Ids, NEW d \in Dishes, NEW to \in R!Statuses \cup {"keep"},
             R!BeginUpdate(c, r, d, to)
      PROVE  TrailIInv'
  <2> DEFINE call == [R!Idle EXCEPT !.pc = "read", !.op = "update", !.on = {r}, !.to = to,
                                    !.dish = d]
  <2>1. call.pc # "record" /\ call.on = {r}
    BY DEF R!Idle
  <2>2. R!Begin(c, call) /\ R!Kept(r) /\ UNCHANGED <<recipes, trail, first, stale, unsaid>>
    BY <1>4 DEF R!BeginUpdate, R!history
  <2> QED
    BY <1>2, <2>1, <2>2
<1>5. ASSUME NEW c \in Calls, NEW op, NEW on \in SUBSET R!Ids, NEW to \in R!Statuses,
             R!BeginStatus(c, op, on, to)
      PROVE  TrailIInv'
  <2> DEFINE call == [R!Idle EXCEPT !.pc = IF op = "setStatus" THEN "write" ELSE "read",
                                    !.op = op, !.on = on, !.to = to]
  <2>1. call.pc # "record" /\ call.on = on
    BY DEF R!Idle
  <2>2. /\ R!Begin(c, call) /\ \A r \in on : R!Kept(r)
        /\ UNCHANGED <<recipes, trail, first, stale, unsaid>>
    BY <1>5 DEF R!BeginStatus, R!history
  <2> QED
    BY <1>2, <2>1, <2>2
<1>6. ASSUME NEW c \in Calls, NEW op, NEW on \in SUBSET R!Ids, R!BeginRemove(c, op, on)
      PROVE  TrailIInv'
  <2> DEFINE call == [R!Idle EXCEPT !.pc = "read", !.op = op, !.on = on]
  <2>1. call.pc # "record" /\ call.on = on
    BY DEF R!Idle
  <2>2. /\ R!Begin(c, call) /\ \A r \in on : R!Kept(r)
        /\ UNCHANGED <<recipes, trail, first, stale, unsaid>>
    BY <1>6 DEF R!BeginRemove, R!history
  <2> QED
    BY <1>2, <2>1, <2>2
<1>7. ASSUME NEW c \in Calls, NEW d \in Dishes, R!Generate(c, d)
      PROVE  TrailIInv'
  <2>1. /\ calls[c].pc = "ask" /\ calls'[c].pc = "create" /\ calls'[c].on = calls[c].on
        /\ \A e \in Calls \ {c} : calls'[e] = calls[e]
    BY <1>0, <1>7 DEF R!Generate, R!Call
  <2> QED
    BY <1>0, <1>7, <2>1, TrailUntouched DEF R!Generate, R!history, TrailIInv
<1>8. ASSUME NEW c \in Calls, R!NotGenerated(c) \/ R!Dies(c)
      PROVE  TrailIInv'
  <2>1. /\ calls[c].pc # "record" /\ calls'[c] = R!Idle
        /\ \A e \in Calls \ {c} : calls'[e] = calls[e]
    BY <1>0, <1>8 DEF R!NotGenerated, R!Dies, R!Ends
  <2> QED
    BY <1>0, <1>8, <2>1, TrailUntouched DEF R!NotGenerated, R!Dies, R!history
<1>9. ASSUME NEW c \in Calls, R!SaveGenerated(c)
      PROVE  TrailIInv'
  <2>1. /\ calls[c].pc = "create" /\ calls'[c] = R!Idle /\ calls[c].dish \in Dishes
        /\ \A e \in Calls \ {c} : calls'[e] = calls[e]
    BY <1>0, <1>9 DEF R!SaveGenerated, R!Ends, R!Call
  <2>2. CASE R!SlugTaken(calls[c].dish)
    BY <1>0, <1>9, <2>1, <2>2, TrailUntouched DEF R!SaveGenerated
  <2>3. CASE ~R!SlugTaken(calls[c].dish)
    <3>1. /\ R!Free # {} /\ R!Make(calls[c].dish, "published") /\ "published" \in R!Statuses
          /\ UNCHANGED <<trail, stale, unsaid>>
      BY <1>9, <2>3 DEF R!SaveGenerated, R!Statuses
    <3>2. \A d \in Calls : \/ calls'[d] = calls[d]
                           \/ calls[d].pc # "record" /\ calls'[d] = R!Idle
      BY <2>1
    <3> QED
      BY <1>0, <2>1, <3>1, <3>2, TrailOfTheNew
  <2> QED
    BY <2>2, <2>3
<1>10. ASSUME NEW c \in Calls, R!Read(c)
       PROVE  TrailIInv'
  <2>1. /\ calls[c].pc = "read" /\ calls'[c].pc = "write" /\ calls'[c].on = calls[c].on
        /\ \A e \in Calls \ {c} : calls'[e] = calls[e]
    BY <1>0, <1>10 DEF R!Read, R!Call
  <2> QED
    BY <1>0, <1>10, <2>1, TrailUntouched DEF R!Read, R!history, TrailIInv
<1>11. ASSUME NEW c \in Calls, R!Update(c)
       PROVE  TrailIInv'
  <2>1. /\ calls[c].pc = "write" /\ calls[c].op = "update" /\ calls[c].op \notin Removing
        /\ UNCHANGED <<trail, first, unsaid>> /\ stale \subseteq stale' /\ calls[c] \in R!Call
    BY <1>0, <1>11 DEF R!Update, Removing
  <2>2. PICK q \in R!Ids : calls[c].on = {q}
    BY <1>0, <2>1 DEF RecipesTyped, CallsWellFormed
  <2>3. R!Min({q}) = q
    BY <2>2, LeastIsOne DEF R!Ids
  <2>4. CASE R!Found(calls[c]) = {}
    <3>1. calls'[c] = R!Idle /\ (\A e \in Calls \ {c} : calls'[e] = calls[e]) /\ stale' = stale
      BY <1>0, <1>11, <2>4 DEF R!Update, R!Ends
    <3>2. recipes' = recipes
      BY <1>0, <1>11, <2>4 DEF R!Update, RecipesTyped, R!TypeOK
    <3> QED
      BY <1>0, <2>1, <3>1, <3>2, TrailUntouched
  <2>5. CASE R!Found(calls[c]) # {}
    <3>1. R!Found(calls[c]) = {q} /\ calls[c].seen[q] \in R!Statuses
      BY <2>1, <2>2, <2>5 DEF R!Found, R!Call, R!Seen
    <3>2. calls' = [calls EXCEPT ![c] =
                      [calls[c] EXCEPT !.pc = "record",
                                       !.to = IF calls[c].to = "keep"
                                              THEN calls[c].seen[R!Min(calls[c].on)]
                                              ELSE calls[c].to]]
      BY <1>11, <2>5 DEF R!Update
    <3>3. calls'[c] = [calls[c] EXCEPT !.pc = "record",
                                       !.to = IF calls[c].to = "keep" THEN calls[c].seen[q]
                                              ELSE calls[c].to]
      BY <1>0, <2>2, <2>3, <3>2
    <3>4. /\ calls'[c].pc = "record" /\ calls'[c].on = {q} /\ calls'[c].op = "update"
          /\ calls'[c].seen = calls[c].seen /\ calls'[c].to \in R!Statuses
          /\ calls'[c].to = IF calls[c].to = "keep" THEN calls[c].seen[q] ELSE calls[c].to
          /\ \A e \in Calls \ {c} : calls'[e] = calls[e]
      BY <1>0, <2>1, <2>2, <3>1, <3>2, <3>3 DEF R!Call
    <3>5. ASSUME NEW r \in R!Ids, r # q
          PROVE  recipes'[r] = recipes[r]
      BY <1>11, <3>1, <3>5 DEF R!Update
    <3>6. CASE R!Kept(q)
      <4>1. recipes'[q].status = calls'[c].to
        BY <1>0, <1>11, <3>1, <3>4, <3>6 DEF R!Update, RecipesTyped, R!TypeOK, R!Recipe
      <4>2. recipes[q].status = calls'[c].seen[q] \/ q \in stale'
        BY <1>11, <3>1, <3>4 DEF R!Update
      <4> QED
        BY <1>0, <2>1, <2>2, <3>4, <3>5, <3>6, <4>1, <4>2, TrailOfAChange
    <3>7. CASE ~R!Kept(q)
      <4>1. recipes'[q] = recipes[q]
        BY <1>11, <3>7 DEF R!Update
      <4> QED
        BY <1>0, <2>1, <2>2, <3>4, <3>5, <3>7, <4>1, TrailOfAChange
    <3> QED
      BY <3>6, <3>7
  <2> QED
    BY <2>4, <2>5
<1>12. ASSUME NEW c \in Calls, R!SetStatus(c)
       PROVE  TrailIInv'
  <2>1. /\ calls[c].pc = "write" /\ calls[c].op = "setStatus" /\ calls[c].op \notin Removing
        /\ UNCHANGED <<trail, first, stale, unsaid>> /\ calls[c] \in R!Call
        /\ calls[c].to \in R!Statuses
    BY <1>0, <1>12 DEF R!SetStatus, R!history, Removing, RecipesTyped, CallsWellFormed
  <2>2. PICK q \in R!Ids : calls[c].on = {q}
    BY <1>0, <2>1 DEF RecipesTyped, CallsWellFormed
  <2>3. CASE R!Kept(q)
    <3>1. {r \in calls[c].on : R!Kept(r)} = {q}
      BY <2>2, <2>3
    <3>2. calls' = [calls EXCEPT ![c] = [calls[c] EXCEPT !.pc = "record",
                                                         !.seen = R!StatusOf({q})]]
      BY <1>12, <3>1 DEF R!SetStatus
    <3>3. /\ calls'[c].pc = "record" /\ calls'[c].on = {q} /\ calls'[c].op = "setStatus"
          /\ calls'[c].seen = R!StatusOf({q}) /\ calls'[c].to = calls[c].to
          /\ \A e \in Calls \ {c} : calls'[e] = calls[e]
      BY <1>0, <2>1, <2>2, <3>2 DEF R!Call
    <3>4. R!StatusOf({q})[q] = recipes[q].status
      BY <2>3 DEF R!StatusOf
    <3>5. ASSUME NEW r \in R!Ids, r # q
          PROVE  recipes'[r] = recipes[r]
      BY <1>12, <2>2, <3>5 DEF R!SetStatus
    <3>6. recipes'[q].status = calls[c].to
      BY <1>0, <1>12, <2>2, <2>3 DEF R!SetStatus, RecipesTyped, R!TypeOK, R!Recipe
    <3> QED
      BY <1>0, <2>1, <2>2, <2>3, <3>3, <3>4, <3>5, <3>6, TrailOfAChange
  <2>4. CASE ~R!Kept(q)
    <3>1. {r \in calls[c].on : R!Kept(r)} = {}
      BY <2>2, <2>4
    <3>2. calls'[c] = R!Idle /\ \A e \in Calls \ {c} : calls'[e] = calls[e]
      BY <1>0, <1>12, <3>1 DEF R!SetStatus, R!Ends
    <3>3. recipes' = recipes
      BY <1>0, <1>12, <3>1 DEF R!SetStatus, RecipesTyped, R!TypeOK
    <3> QED
      BY <1>0, <2>1, <3>2, <3>3, TrailUntouched
  <2> QED
    BY <2>3, <2>4
<1>13. ASSUME NEW c \in Calls, R!SetStatusMany(c)
       PROVE  TrailIInv'
  <2>1. /\ calls[c].pc = "write" /\ calls[c].op = "setStatusMany" /\ calls[c].op \notin Removing
        /\ UNCHANGED <<trail, first, unsaid>> /\ stale \subseteq stale' /\ calls[c] \in R!Call
        /\ calls[c].to \in R!Statuses
    BY <1>0, <1>13 DEF R!SetStatusMany, Removing, RecipesTyped, CallsWellFormed
  <2>2. /\ calls'[c].pc = "record" /\ calls'[c].on = R!Changing(calls[c])
        /\ calls'[c].op = "setStatusMany" /\ calls'[c].to = calls[c].to
        /\ calls'[c].seen = calls[c].seen /\ \A e \in Calls \ {c} : calls'[e] = calls[e]
    <3>1. calls' = [calls EXCEPT ![c] = [calls[c] EXCEPT !.pc = "record",
                                                         !.on = R!Changing(calls[c])]]
      BY <1>13 DEF R!SetStatusMany
    <3> QED
      BY <1>0, <2>1, <3>1 DEF R!Call
  <2>3. R!Changing(calls[c]) \subseteq calls[c].on
    BY DEF R!Changing, R!Found
  <2>4. ASSUME NEW r \in R!Ids, r \notin R!Changing(calls[c]) \/ ~R!Kept(r)
        PROVE  recipes'[r] = recipes[r]
    BY <1>13, <2>4 DEF R!SetStatusMany
  <2>5. ASSUME NEW r \in R!Ids, r \in R!Changing(calls[c]), R!Kept(r)
        PROVE  /\ recipes'[r].status = calls[c].to
               /\ recipes[r].status = calls[c].seen[r] \/ r \in stale'
    BY <1>0, <1>13, <2>5 DEF R!SetStatusMany, RecipesTyped, R!TypeOK, R!Recipe
  <2>6. \A r \in R!Ids :
          \/ recipes'[r].status = recipes[r].status
               /\ ~(calls'[c].pc = "record" /\ r \in calls'[c].on)
          \/ ~R!Kept(r) /\ recipes'[r].status = recipes[r].status
          \/ R!Kept(r) /\ calls'[c].pc = "record" /\ r \in calls'[c].on
               /\ recipes'[r].status = calls'[c].to /\ calls'[c].to \in R!Statuses
               /\ (recipes[r].status = calls'[c].seen[r] \/ r \in stale')
    BY <2>1, <2>2, <2>4, <2>5
  <2> QED
    BY <1>0, <2>1, <2>2, <2>3, <2>6, TrailOfAChange
<1>14. ASSUME NEW c \in Calls, calls[c].pc = "write", calls[c].op \in Removing,
              NEW on \in SUBSET R!Ids, recipes' = R!Removed(on),
              UNCHANGED <<trail, first, stale, unsaid>>, \A d \in Calls \ {c} : calls'[d] = calls[d],
              calls'[c].on \subseteq calls[c].on,
              \/ calls'[c].pc = "record" /\ calls'[c].op = calls[c].op /\ on \subseteq calls'[c].on
              \/ calls'[c].pc = "idle" /\ \A r \in on : ~R!Kept(r)
       PROVE  TrailIInv'
  <2>1. \A r : Difference(c, r) = 0 /\ Difference(c, r)' = 0
    BY <1>14 DEF Difference
  <2>2. ASSUME NEW r \in R!Ids
        PROVE  \/ recipes'[r] = recipes[r]
               \/ recipes'[r].status = "removed" /\ R!Kept(r) /\ r \in on
    BY <1>0, <1>14 DEF R!Removed, RecipesTyped, R!TypeOK, R!Recipe
  <2>3. ASSUME NEW r \in R!Ids, R!Kept(r)', r \notin stale', r \notin unsaid'
        PROVE  R!Worth(recipes'[r].status) =
                  R!Worth(first'[r]) + trail'[r].published
                    + (Pending(r) + Difference(c, r)' - Difference(c, r))
    <3>1. recipes'[r] = recipes[r]
      BY <2>2, <2>3 DEF R!Kept, R!Statuses
    <3>2. R!Worth(recipes[r].status) = R!Worth(first[r]) + trail[r].published + Pending(r)
      BY <1>14, <2>3, <3>1 DEF TrailIInv, AddsUp, R!Kept
    <3> QED
      BY <1>14, <2>1, <3>1, <3>2, PendingCounts
  <2>4. ASSUME NEW r \in R!Ids
        PROVE  RemovalSaid(r)'
    BY <1>14, <2>2, RemovalStep
  <2>5. \A r \in R!Ids : recipes[r].status # "none" <=> recipes'[r].status # "none"
    BY <2>2 DEF R!Kept, R!Statuses
  <2>6. \A r \in calls'[c].on : recipes'[r].status # "none"
    <3>1. calls[c].on \subseteq R!Ids
      BY <1>0 DEF R!Call
    <3> QED
      BY <1>14, <2>5, <3>1 DEF TrailIInv
  <2> QED
    BY <1>0, <1>14, <2>3, <2>4, <2>5, <2>6, TrailStep
<1>15. ASSUME NEW c \in Calls, R!Remove(c)
       PROVE  TrailIInv'
  <2>1. /\ calls[c].pc = "write" /\ calls[c].op \in Removing /\ recipes' = R!Removed(calls[c].on)
        /\ UNCHANGED <<trail, first, stale, unsaid>> /\ calls[c] \in R!Call
        /\ calls[c].on \in SUBSET R!Ids
    BY <1>0, <1>15 DEF R!Remove, R!history, Removing, R!Call
  <2>2. CASE {r \in calls[c].on : R!Kept(r)} = {}
    <3>1. calls'[c] = R!Idle /\ \A e \in Calls \ {c} : calls'[e] = calls[e]
      BY <1>0, <1>15, <2>2 DEF R!Remove, R!Ends
    <3>2. \A r \in calls[c].on : ~R!Kept(r)
      BY <2>2
    <3>3. calls'[c].pc = "idle" /\ calls'[c].on \subseteq calls[c].on
      BY <1>0, <3>1
    <3> QED
      BY <1>14, <2>1, <3>1, <3>2, <3>3
  <2>3. CASE {r \in calls[c].on : R!Kept(r)} # {}
    <3>1. /\ calls'[c].pc = "record" /\ calls'[c].op = calls[c].op /\ calls'[c].on = calls[c].on
          /\ \A e \in Calls \ {c} : calls'[e] = calls[e]
      BY <1>0, <1>15, <2>1, <2>3 DEF R!Remove, R!Call
    <3> QED
      BY <1>14, <2>1, <3>1
  <2> QED
    BY <2>2, <2>3
<1>16. ASSUME NEW c \in Calls, R!RemoveMany(c)
       PROVE  TrailIInv'
  <2>1. /\ calls[c].pc = "write" /\ calls[c].op \in Removing
        /\ recipes' = R!Removed(R!Found(calls[c]))
        /\ UNCHANGED <<trail, first, stale, unsaid>> /\ calls[c] \in R!Call
        /\ R!Found(calls[c]) \subseteq calls[c].on /\ R!Found(calls[c]) \in SUBSET R!Ids
    BY <1>0, <1>16 DEF R!RemoveMany, R!history, Removing, R!Call, R!Found
  <2>2. calls' = [calls EXCEPT ![c] = [calls[c] EXCEPT !.pc = "record", !.on = R!Found(calls[c])]]
    BY <1>16 DEF R!RemoveMany
  <2>3. /\ calls'[c].pc = "record" /\ calls'[c].op = calls[c].op
        /\ calls'[c].on = R!Found(calls[c]) /\ \A e \in Calls \ {c} : calls'[e] = calls[e]
    BY <1>0, <2>1, <2>2 DEF R!Call
  <2> QED
    BY <1>14, <2>1, <2>3
<1>17. ASSUME NEW c \in Calls, R!Record(c)
       PROVE  TrailIInv'
  <2>1. unsaid' = unsaid \cup {}
    BY <1>17 DEF R!Record, R!history
  <2> QED
    BY <1>0, <1>17, <2>1, TrailOfARecord DEF R!Record, R!history
<1>18. ASSUME NEW c \in Calls, R!RecordFails(c)
       PROVE  TrailIInv'
  BY <1>0, <1>18, TrailOfARecord DEF R!RecordFails
<1>19. CASE UNCHANGED R!vars
  <2>1. UNCHANGED <<recipes, trail, calls, first, stale, unsaid>>
    BY <1>19 DEF R!vars, R!history
  <2>2. \A r : Pending(r)' = Pending(r)
    BY <2>1 DEF Pending, Rising, Falling, Difference
  <2>3. \A r \in R!Ids : AddsUp(r)' /\ RemovalSaid(r)'
    BY <2>1, <2>2 DEF TrailIInv, AddsUp, RemovalSaid, R!Kept
  <2> QED
    BY <1>0, <2>1, <2>3 DEF TrailIInv
<1> QED
  BY <1>1, <1>3, <1>4, <1>5, <1>6, <1>7, <1>8, <1>9, <1>10, <1>11, <1>12, <1>13, <1>15, <1>16,
     <1>17, <1>18, <1>19 DEF R!Next

\* Whatever edits, changes of status, removals and bulk changes cross one another, the trail of a
\* recipe adds up to the status it has and says that it was removed, unless an entry was lost or a
\* write went over a status that had changed since it was read.
THEOREM TrailAddsUp == R!Spec => []TrailAccounts
<1>1. R!Init => TrailIInv
  <2> SUFFICES ASSUME R!Init PROVE TrailIInv
    OBVIOUS
  <2>1. RecipesTyped
    BY RecipesStartTyped
  <2>2. \A r \in R!Ids : recipes[r].status = "none" /\ trail[r].published = 0
    BY DEF R!Init
  <2>3. \A c \in Calls : calls[c].on = {}
    BY DEF R!Init, R!Idle
  <2> QED
    BY <2>1, <2>2, <2>3 DEF TrailIInv, AddsUp, RemovalSaid, R!Kept, R!Statuses
<1>2. TrailIInv => TrailAccounts
  <2> SUFFICES ASSUME TrailIInv, NEW r \in R!Ids, R!Settled(r), r \notin unsaid
               PROVE  /\ R!Kept(r) /\ r \notin stale =>
                            R!Worth(recipes[r].status) = R!Worth(first[r]) + trail[r].published
                      /\ recipes[r].status = "removed" => trail[r].removed > 0
    BY DEF TrailAccounts, R!TrailAccounts
  <2>1. \A c \in Calls : Difference(c, r) = 0
    BY DEF R!Settled, Difference
  <2>2. Pending(r) = 0
    BY <2>1, NothingPending
  <2>3. trail[r].published \in Int /\ R!Worth(first[r]) \in {0, 1}
    BY DEF TrailIInv, RecipesTyped, R!TypeOK, R!Entries, R!Worth
  <2>4. recipes[r].status = "removed" => trail[r].removed > 0
    BY DEF TrailIInv, RemovalSaid, R!Settled
  <2> QED
    BY <2>2, <2>3, <2>4 DEF TrailIInv, AddsUp
<1> QED
  BY <1>1, <1>2, TrailKept, PTL DEF R!Spec

----------------------------------------------------------------------------
(* The offers. *)

\* Every search under way is the one that is shared for its key, and what a search has been answered
\* with is no older than the row of its key.
FlightsShared ==
    /\ \A f \in O!Flights : \/ flights[f] = O!Landed
                            \/ /\ flights[f].pc # "idle" /\ flights[f].key \in O!Keys
                               /\ inFlight[flights[f].key] = f
    /\ \A k \in O!Keys : inFlight[k] # O!NoFlight =>
          flights[inFlight[k]].pc # "idle" /\ flights[inFlight[k]].key = k
AnswersGrow ==
    /\ \A k \in O!Keys : rows[k].answer <= answers
    /\ \A f \in O!Flights : flights[f].pc = "answered" =>
          flights[f].answer <= answers /\ rows[flights[f].key].answer <= flights[f].answer
OffersIInv ==
    /\ O!TypeOK /\ FlightsShared /\ AnswersGrow
    /\ \A c \in Cooks : cooks[c].pc # "idle" => cooks[c].key \in O!Keys

LEMMA LandedIsAFlight ==
    /\ O!Landed \in O!Flight /\ O!Landed.pc = "idle"
    /\ O!Away \in O!Cook /\ O!Away.pc = "idle" /\ O!NoJob \in O!Job
    /\ O!NoRow \in O!Row /\ O!NoRow.answer = 0 /\ O!NoFlight = 0
BY DEF O!Landed, O!Flight, O!Away, O!Cook, O!NoJob, O!Job, O!NoRow, O!Row, O!NoKey, O!NoFlight,
       O!Young, O!Old

\* Whoever joins a search finds the one there is, or begins one that is free.
LEMMA JoinShares ==
    ASSUME OffersIInv, NEW k \in O!Keys, NEW waits \in BOOLEAN, O!Join(k, waits), rows' = rows,
           answers' = answers
    PROVE  /\ O!FlightFor(k) \in O!Flights
           /\ inFlight' \in [O!Keys -> O!Flights \cup {O!NoFlight}]
           /\ flights' \in [O!Flights -> O!Flight]
           /\ FlightsShared' /\ AnswersGrow'
<1> USE OffersAssumption DEF O!OffersAssumption
<1>0. O!TypeOK /\ FlightsShared /\ AnswersGrow
  BY DEF OffersIInv
<1>1. CASE inFlight[k] # O!NoFlight
  <2>1. UNCHANGED <<inFlight, flights, rows, answers>> /\ O!FlightFor(k) = inFlight[k]
    BY <1>1 DEF O!Join, O!FlightFor
  <2> QED
    BY <1>0, <1>1, <2>1 DEF O!TypeOK, FlightsShared, AnswersGrow
<1>2. CASE inFlight[k] = O!NoFlight
  <2> DEFINE f == O!Min(O!Free)
             new == [O!Landed EXCEPT !.pc = "gate", !.key = k, !.waits = waits]
  <2>1. O!Free # {} /\ O!FlightFor(k) = f
    BY <1>2 DEF O!Join, O!FlightFor
  <2>2. f \in O!Free
    BY <2>1, LeastIsOne DEF O!Free, O!Flights
  <2>3. f \in O!Flights /\ flights[f] = O!Landed /\ f # O!NoFlight
    BY <2>2 DEF O!Free, O!Flights, O!NoFlight
  <2>4. inFlight' = [inFlight EXCEPT ![k] = f] /\ flights' = [flights EXCEPT ![f] = new]
    BY <1>2, <2>1 DEF O!Join
  <2>5. new \in O!Flight /\ new.pc = "gate" /\ new.key = k
    BY LandedIsAFlight DEF O!Flight, O!Landed
  <2> HIDE DEF f, new
  <2>6. /\ inFlight' \in [O!Keys -> O!Flights \cup {O!NoFlight}]
        /\ flights' \in [O!Flights -> O!Flight]
        /\ inFlight'[k] = f /\ flights'[f] = new
        /\ \A j \in O!Keys : j # k => inFlight'[j] = inFlight[j]
        /\ \A g \in O!Flights : g # f => flights'[g] = flights[g]
    BY <1>0, <2>3, <2>4, <2>5 DEF O!TypeOK
  <2>7. ASSUME NEW g \in O!Flights
        PROVE  \/ flights'[g] = O!Landed
               \/ /\ flights'[g].pc # "idle" /\ flights'[g].key \in O!Keys
                  /\ inFlight'[flights'[g].key] = g
    <3>1. CASE g = f
      BY <2>5, <2>6, <3>1
    <3>2. CASE g # f
      BY <1>0, <1>2, <2>6, <3>2 DEF FlightsShared, O!Flights, O!NoFlight
    <3> QED
      BY <3>1, <3>2
  <2>8. ASSUME NEW j \in O!Keys, inFlight'[j] # O!NoFlight
        PROVE  flights'[inFlight'[j]].pc # "idle" /\ flights'[inFlight'[j]].key = j
    <3>1. CASE j = k
      BY <2>5, <2>6, <3>1
    <3>2. CASE j # k
      <4>1. inFlight[j] # f /\ inFlight[j] \in O!Flights
        BY <1>0, <2>3, <2>6, <2>8, <3>2, LandedIsAFlight DEF FlightsShared, O!TypeOK
      <4> QED
        BY <1>0, <2>6, <2>8, <3>2, <4>1 DEF FlightsShared
    <3> QED
      BY <3>1, <3>2
  <2>9. AnswersGrow'
    BY <1>0, <2>5, <2>6 DEF AnswersGrow
  <2> QED
    BY <2>1, <2>3, <2>6, <2>7, <2>8, <2>9 DEF FlightsShared
<1> QED
  BY <1>1, <1>2

\* A search that ends leaves its key free, and the searches of other keys as they were.
LEMMA LandFrees ==
    ASSUME OffersIInv, NEW f \in O!Flights, NEW stops \in BOOLEAN, O!Land(f, stops)
    PROVE  /\ inFlight' \in [O!Keys -> O!Flights \cup {O!NoFlight}]
           /\ flights' \in [O!Flights -> O!Flight]
           /\ flights'[f] = O!Landed /\ \A g \in O!Flights : g # f => flights'[g] = flights[g]
           /\ FlightsShared'
           /\ cooks' \in [Cooks -> O!Cook]
           /\ \A c \in Cooks : cooks'[c].pc # "idle" => cooks'[c].key \in O!Keys
           /\ job' \in O!Job
<1>0. O!TypeOK /\ FlightsShared
  BY DEF OffersIInv
<1>1. /\ inFlight' = [k \in O!Keys |-> IF inFlight[k] = f THEN O!NoFlight ELSE inFlight[k]]
      /\ flights' = [flights EXCEPT ![f] = O!Landed]
      /\ cooks' = [c \in Cooks |-> IF cooks[c].on = f THEN O!Away ELSE cooks[c]]
  BY DEF O!Land
<1>2. /\ inFlight' \in [O!Keys -> O!Flights \cup {O!NoFlight}]
      /\ flights' \in [O!Flights -> O!Flight]
      /\ flights'[f] = O!Landed /\ \A g \in O!Flights : g # f => flights'[g] = flights[g]
  BY <1>0, <1>1, LandedIsAFlight DEF O!TypeOK
<1>3. ASSUME NEW g \in O!Flights
      PROVE  \/ flights'[g] = O!Landed
             \/ /\ flights'[g].pc # "idle" /\ flights'[g].key \in O!Keys
                /\ inFlight'[flights'[g].key] = g
  BY <1>0, <1>1, <1>2 DEF FlightsShared
<1>4. ASSUME NEW k \in O!Keys, inFlight'[k] # O!NoFlight
      PROVE  flights'[inFlight'[k]].pc # "idle" /\ flights'[inFlight'[k]].key = k
  <2>1. inFlight'[k] = inFlight[k] /\ inFlight[k] # f /\ inFlight[k] \in O!Flights
    BY <1>0, <1>1, <1>4 DEF O!TypeOK
  <2> QED
    BY <1>0, <1>2, <1>4, <2>1 DEF FlightsShared
<1>5. cooks' \in [Cooks -> O!Cook] /\ \A c \in Cooks : cooks'[c].pc # "idle" => cooks'[c].key \in O!Keys
  BY <1>1, LandedIsAFlight DEF OffersIInv, O!TypeOK
<1>6. job' \in O!Job
  <2>1. \/ job' = job \/ job' = O!NoJob
        \/ job' = [job EXCEPT !.pc = "next", !.left = @ \ {O!Min(@)}, !.on = O!NoFlight]
    BY DEF O!Land
  <2>2. job \in O!Job /\ job.left \ {O!Min(job.left)} \in SUBSET O!Keys
    BY <1>0 DEF O!TypeOK, O!Job
  <2>3. [job EXCEPT !.pc = "next", !.left = @ \ {O!Min(@)}, !.on = O!NoFlight] \in O!Job
    BY <2>2 DEF O!Job
  <2> QED
    BY <2>1, <2>2, <2>3, LandedIsAFlight
<1> QED
  BY <1>2, <1>3, <1>4, <1>5, <1>6 DEF FlightsShared

LEMMA OffersKept == OffersIInv /\ [O!Next]_(O!vars) => OffersIInv'
<1> SUFFICES ASSUME OffersIInv, [O!Next]_(O!vars) PROVE OffersIInv'
  OBVIOUS
<1> USE OffersAssumption DEF O!OffersAssumption
<1>0. /\ O!TypeOK /\ FlightsShared /\ AnswersGrow
      /\ \A c \in Cooks : cooks[c].pc # "idle" => cooks[c].key \in O!Keys
  BY DEF OffersIInv
\* Nothing of the searches changes.
<1>1. ASSUME UNCHANGED <<inFlight, flights, rows, answers>>, O!TypeOK',
             \A c \in Cooks : cooks'[c].pc # "idle" => cooks'[c].key \in O!Keys
      PROVE  OffersIInv'
  BY <1>0, <1>1 DEF OffersIInv, FlightsShared, AnswersGrow
<1>2. ASSUME NEW c \in Cooks, NEW k \in O!Keys, O!CookAsks(c, k)
      PROVE  OffersIInv'
  <2>1. [O!Away EXCEPT !.pc = "reading", !.key = k] \in O!Cook
    BY LandedIsAFlight DEF O!Cook
  <2>2. O!TypeOK'
    BY <1>0, <1>2, <2>1 DEF O!CookAsks, O!TypeOK
  <2>3. \A d \in Cooks : cooks'[d].pc # "idle" => cooks'[d].key \in O!Keys
    BY <1>0, <1>2 DEF O!CookAsks, O!TypeOK, O!Away
  <2> QED
    BY <1>1, <1>2, <2>2, <2>3 DEF O!CookAsks
<1>3. ASSUME NEW c \in Cooks, O!CookReads(c)
      PROVE  OffersIInv'
  <2> DEFINE k == cooks[c].key
  <2>1. /\ cooks[c].pc = "reading" /\ k \in O!Keys
        /\ UNCHANGED <<places, clearing, rows, job, answers, called, O!spent>>
    BY <1>0, <1>3 DEF O!CookReads
  <2>2. CASE cooks' = [cooks EXCEPT ![c] = O!Away] /\ UNCHANGED <<inFlight, flights>>
    <3>1. O!TypeOK'
      BY <1>0, <2>1, <2>2, LandedIsAFlight DEF O!TypeOK, O!spent
    <3>2. \A d \in Cooks : cooks'[d].pc # "idle" => cooks'[d].key \in O!Keys
      BY <1>0, <2>2, LandedIsAFlight DEF O!TypeOK
    <3> QED
      BY <1>1, <2>1, <2>2, <3>1, <3>2
  <2>3. CASE cooks' = [cooks EXCEPT ![c] = O!Away] /\ O!Join(k, FALSE)
    <3>1. /\ inFlight' \in [O!Keys -> O!Flights \cup {O!NoFlight}]
          /\ flights' \in [O!Flights -> O!Flight] /\ FlightsShared' /\ AnswersGrow'
      BY <2>1, <2>3, JoinShares
    <3>2. O!TypeOK'
      BY <1>0, <2>1, <2>3, <3>1, LandedIsAFlight DEF O!TypeOK, O!spent
    <3>3. \A d \in Cooks : cooks'[d].pc # "idle" => cooks'[d].key \in O!Keys
      BY <1>0, <2>3, LandedIsAFlight DEF O!TypeOK
    <3> QED
      BY <3>1, <3>2, <3>3 DEF OffersIInv
  <2>4. CASE /\ O!Join(k, FALSE)
             /\ cooks' = [cooks EXCEPT ![c].pc = "waiting", ![c].on = O!FlightFor(k)]
    <3>1. /\ inFlight' \in [O!Keys -> O!Flights \cup {O!NoFlight}]
          /\ flights' \in [O!Flights -> O!Flight] /\ FlightsShared' /\ AnswersGrow'
          /\ O!FlightFor(k) \in O!Flights
      BY <2>1, <2>4, JoinShares
    <3>2. cooks'[c] = [cooks[c] EXCEPT !.pc = "waiting", !.on = O!FlightFor(k)]
      BY <1>0, <2>4 DEF O!TypeOK
    <3>3. cooks'[c] \in O!Cook /\ cooks'[c].key = k
      <4>1. cooks[c] \in O!Cook /\ O!FlightFor(k) \in O!Flights
        BY <1>0, <3>1 DEF O!TypeOK
      <4> HIDE DEF k
      <4>2. [cooks[c] EXCEPT !.pc = "waiting", !.on = O!FlightFor(k)] \in O!Cook
        BY <4>1 DEF O!Cook
      <4> QED
        BY <3>2, <4>1, <4>2 DEF O!Cook, k
    <3>4. O!TypeOK'
      BY <1>0, <2>1, <2>4, <3>1, <3>3 DEF O!TypeOK, O!spent
    <3>5. \A d \in Cooks : cooks'[d].pc # "idle" => cooks'[d].key \in O!Keys
      BY <1>0, <2>1, <2>4, <3>3 DEF O!TypeOK
    <3> QED
      BY <3>1, <3>4, <3>5 DEF OffersIInv
  <2> QED
    BY <1>3, <2>2, <2>3, <2>4 DEF O!CookReads
\* A search ends, and its key's row is written by nobody else.
<1>4. ASSUME NEW f \in O!Flights, NEW stops \in BOOLEAN, O!Land(f, stops), flights[f].pc # "idle",
             UNCHANGED <<places, clearing, answers, asks, fetches>>,
             faults' \in 0..MaxFaults, called' \in SUBSET O!Keys, rows' \in [O!Keys -> O!Row],
             \A k \in O!Keys : rows'[k] # rows[k] => k = flights[f].key /\ rows'[k].answer <= answers
      PROVE  OffersIInv'
  <2>1. /\ inFlight' \in [O!Keys -> O!Flights \cup {O!NoFlight}]
        /\ flights' \in [O!Flights -> O!Flight]
        /\ flights'[f] = O!Landed /\ \A g \in O!Flights : g # f => flights'[g] = flights[g]
        /\ FlightsShared'
        /\ cooks' \in [Cooks -> O!Cook]
        /\ \A c \in Cooks : cooks'[c].pc # "idle" => cooks'[c].key \in O!Keys
        /\ job' \in O!Job
    BY <1>4, LandFrees
  <2>2. ASSUME NEW g \in O!Flights, flights'[g].pc = "answered"
        PROVE  flights'[g].answer <= answers' /\ rows'[flights'[g].key].answer <= flights'[g].answer
    <3>1. g # f /\ flights'[g] = flights[g]
      BY <2>1, <2>2, LandedIsAFlight
    <3>2. flights[g].key \in O!Keys /\ inFlight[flights[g].key] = g
      BY <1>0, <2>2, <3>1, LandedIsAFlight DEF FlightsShared
    <3>3. flights[g].key # flights[f].key
      BY <1>0, <1>4, <3>1, <3>2, LandedIsAFlight DEF FlightsShared
    <3> QED
      BY <1>0, <1>4, <2>2, <3>1, <3>2, <3>3 DEF AnswersGrow
  <2>3. AnswersGrow'
    BY <1>0, <1>4, <2>2 DEF AnswersGrow
  <2>4. O!TypeOK'
    BY <1>0, <1>4, <2>1 DEF O!TypeOK
  <2> QED
    BY <2>1, <2>3, <2>4 DEF OffersIInv
<1>5. ASSUME NEW f \in O!Flights, O!Refuse(f) \/ O!StoreThrows(f)
      PROVE  OffersIInv'
  <2>1. PICK stops \in BOOLEAN : O!Land(f, stops)
    BY <1>5 DEF O!Refuse, O!StoreThrows
  <2>2. /\ flights[f].pc # "idle"
        /\ UNCHANGED <<places, clearing, rows, answers, called, asks, fetches>>
    BY <1>5 DEF O!Refuse, O!StoreThrows, O!spent
  <2>3. faults' \in 0..MaxFaults
    <3>1. faults \in 0..MaxFaults
      BY <1>0 DEF O!TypeOK
    <3>2. CASE O!Refuse(f)
      BY <3>1, <3>2 DEF O!Refuse, O!spent
    <3>3. CASE O!StoreThrows(f)
      BY <3>1, <3>3 DEF O!StoreThrows
    <3> QED
      BY <1>5, <3>2, <3>3
  <2>4. /\ called' \in SUBSET O!Keys /\ rows' \in [O!Keys -> O!Row]
        /\ \A k \in O!Keys : rows'[k] # rows[k] => k = flights[f].key /\ rows'[k].answer <= answers
    BY <1>0, <2>2 DEF O!TypeOK
  <2>5. UNCHANGED <<places, clearing, answers, asks, fetches>>
    BY <2>2
  <2> QED
    BY <1>4, <2>1, <2>2, <2>3, <2>4, <2>5
<1>6. ASSUME NEW f \in O!Flights, O!Fail(f)
      PROVE  OffersIInv'
  <2>1. flights[f].key \in O!Keys
    BY <1>0, <1>6, LandedIsAFlight DEF O!Fail, FlightsShared
  <2>2. called' \in SUBSET O!Keys
    BY <1>0, <1>6, <2>1 DEF O!Fail, O!TypeOK
  <2>3. /\ O!Land(f, FALSE) /\ flights[f].pc # "idle" /\ FALSE \in BOOLEAN
        /\ UNCHANGED <<places, clearing, rows, answers, asks, fetches, faults>>
    BY <1>6 DEF O!Fail, O!spent
  <2>4. /\ faults' \in 0..MaxFaults /\ rows' \in [O!Keys -> O!Row]
        /\ \A k \in O!Keys : rows'[k] # rows[k] => k = flights[f].key /\ rows'[k].answer <= answers
    BY <1>0, <2>3 DEF O!TypeOK
  <2>5. UNCHANGED <<places, clearing, answers, asks, fetches>>
    BY <2>3
  <2> QED
    BY <1>4, <2>2, <2>3, <2>4, <2>5
<1>7. ASSUME NEW f \in O!Flights, O!Store(f)
      PROVE  OffersIInv'
  <2>1. /\ flights[f].key \in O!Keys /\ flights[f].answer <= answers
        /\ flights[f] \in O!Flight
    BY <1>0, <1>7, LandedIsAFlight DEF O!Store, FlightsShared, AnswersGrow, O!TypeOK
  <2>2. [status |-> flights[f].status, age |-> O!Young, answer |-> flights[f].answer] \in O!Row
    BY <2>1 DEF O!Flight, O!Row, O!Young, O!Old
  <2>3. rows' \in [O!Keys -> O!Row]
    BY <1>0, <1>7, <2>2 DEF O!Store, O!TypeOK
  <2>4. \A k \in O!Keys : rows'[k] # rows[k] => k = flights[f].key /\ rows'[k].answer <= answers
    <3>1. /\ rows' = [rows EXCEPT ![flights[f].key] =
               [status |-> flights[f].status, age |-> O!Young, answer |-> flights[f].answer]]
          /\ rows \in [O!Keys -> O!Row]
      BY <1>0, <1>7 DEF O!Store, O!TypeOK
    <3>2. /\ rows'[flights[f].key].answer = flights[f].answer
          /\ \A k \in O!Keys : k # flights[f].key => rows'[k] = rows[k]
      BY <2>1, <3>1
    <3>3. rows'[flights[f].key].answer <= answers
      BY <2>1, <3>2
    <3> QED
      BY <3>2, <3>3
  <2>5. /\ O!Land(f, FALSE) /\ flights[f].pc # "idle" /\ FALSE \in BOOLEAN
        /\ UNCHANGED <<places, clearing, answers, called, asks, fetches, faults>>
    BY <1>7 DEF O!Store, O!spent
  <2>6. faults' \in 0..MaxFaults /\ called' \in SUBSET O!Keys
    BY <1>0, <2>5 DEF O!TypeOK
  <2> QED
    BY <1>4, <2>3, <2>4, <2>5, <2>6
\* A search takes a step and is still the one of its key.
<1>8. ASSUME NEW f \in O!Flights, flights[f].pc # "idle", NEW flight \in O!Flight,
             flights' = [flights EXCEPT ![f] = flight], flight.pc # "idle",
             flight.key = flights[f].key,
             UNCHANGED <<places, clearing, rows, inFlight, cooks, job, O!spent>>,
             answers <= answers', answers' \in 0..MaxAnswers, called' \in SUBSET O!Keys,
             flight.pc = "answered" => answers < flight.answer /\ flight.answer <= answers'
      PROVE  OffersIInv'
  <2>1. O!TypeOK'
    BY <1>0, <1>8 DEF O!TypeOK, O!spent
  <2>2. flights'[f] = flight /\ \A g \in O!Flights : g # f => flights'[g] = flights[g]
    BY <1>0, <1>8 DEF O!TypeOK
  <2>3. flight.key \in O!Keys /\ inFlight[flight.key] = f
    BY <1>0, <1>8, LandedIsAFlight DEF FlightsShared
  <2>4. FlightsShared'
    <3>1. ASSUME NEW k \in O!Keys, inFlight'[k] # O!NoFlight
          PROVE  flights'[inFlight'[k]].pc # "idle" /\ flights'[inFlight'[k]].key = k
      <4>1. inFlight[k] \in O!Flights /\ flights[inFlight[k]].key = k
            /\ flights[inFlight[k]].pc # "idle"
        BY <1>0, <1>8, <3>1 DEF FlightsShared, O!TypeOK
      <4> QED
        BY <1>8, <2>2, <4>1
    <3> QED
      BY <1>0, <1>8, <2>2, <2>3, <3>1 DEF FlightsShared
  <2>5. AnswersGrow'
    <3>1. /\ answers \in Int /\ answers' \in Int /\ flight.answer \in Int
          /\ \A k \in O!Keys : rows[k].answer \in Int
          /\ \A g \in O!Flights : flights[g].answer \in Int
      BY <1>0, <1>8 DEF O!TypeOK, O!Flight, O!Row
    <3>2. \A k \in O!Keys : rows'[k].answer <= answers'
      BY <1>0, <1>8, <3>1 DEF AnswersGrow
    <3>3. ASSUME NEW g \in O!Flights, flights'[g].pc = "answered"
          PROVE  /\ flights'[g].answer <= answers'
                 /\ rows'[flights'[g].key].answer <= flights'[g].answer
      <4>1. CASE g = f
        BY <1>0, <1>8, <2>2, <2>3, <3>1, <3>3, <4>1 DEF AnswersGrow
      <4>2. CASE g # f
        BY <1>0, <1>8, <2>2, <3>1, <3>3, <4>2 DEF AnswersGrow
      <4> QED
        BY <4>1, <4>2
    <3> QED
      BY <3>2, <3>3 DEF AnswersGrow
  <2> QED
    BY <1>0, <1>8, <2>1, <2>4, <2>5 DEF OffersIInv
<1>9. ASSUME NEW f \in O!Flights, O!Sleep(f) \/ O!Send(f)
      PROVE  OffersIInv'
  <2>1. PICK pc \in {"asleep", "sent"} : flights' = [flights EXCEPT ![f].pc = pc]
    BY <1>9 DEF O!Sleep, O!Send
  <2> DEFINE flight == [flights[f] EXCEPT !.pc = pc]
  <2>2. /\ flights[f] \in O!Flight /\ flights[f].pc # "idle" /\ answers \in 0..MaxAnswers
        /\ called \in SUBSET O!Keys
    BY <1>0, <1>9 DEF O!TypeOK, O!Sleep, O!Send
  <2>3. /\ flight \in O!Flight /\ flight.pc # "idle" /\ flight.pc # "answered"
        /\ flight.key = flights[f].key
    BY <2>2 DEF O!Flight
  <2>4. flights' = [flights EXCEPT ![f] = flight]
    BY <2>1
  <2>5. UNCHANGED <<places, clearing, rows, inFlight, cooks, job, answers, called, O!spent>>
    BY <1>9 DEF O!Sleep, O!Send
  <2>6. answers <= answers' /\ answers' \in 0..MaxAnswers /\ called' \in SUBSET O!Keys
    BY <2>2, <2>5
  <2> HIDE DEF flight
  <2> QED
    BY <1>8, <2>2, <2>3, <2>4, <2>5, <2>6
<1>10. ASSUME NEW f \in O!Flights, NEW status \in {"ok", "empty"}, O!Answer(f, status)
       PROVE  OffersIInv'
  <2> DEFINE flight == [flights[f] EXCEPT !.pc = "answered", !.status = status,
                                          !.answer = answers + 1]
  <2>1. /\ flights[f] \in O!Flight /\ flights[f].pc = "sent" /\ answers \in 0..MaxAnswers
        /\ called \in SUBSET O!Keys /\ answers' = answers + 1 /\ answers < MaxAnswers
    BY <1>0, <1>10 DEF O!TypeOK, O!Answer
  <2>2. /\ flight \in O!Flight /\ flight.pc # "idle" /\ flight.key = flights[f].key
        /\ flight.answer = answers + 1
    <3>1. answers + 1 \in Nat /\ status \in {"none", "ok", "empty"}
      BY <2>1
    <3> HIDE DEF O!Keys
    <3> QED
      BY <2>1, <3>1 DEF O!Flight
  <2>3. flights' = [flights EXCEPT ![f] = flight]
    BY <1>10 DEF O!Answer
  <2>4. UNCHANGED <<places, clearing, rows, inFlight, cooks, job, O!spent>>
    BY <1>10 DEF O!Answer
  <2>5. flights[f].key \in O!Keys
    BY <1>0, <2>1, LandedIsAFlight DEF FlightsShared
  <2>6. called' \in SUBSET O!Keys
    BY <1>10, <2>1, <2>5 DEF O!Answer
  <2>7. answers <= answers' /\ answers' \in 0..MaxAnswers
        /\ (answers < flight.answer /\ flight.answer <= answers')
    BY <2>1, <2>2
  <2> HIDE DEF flight
  <2> QED
    BY <1>8, <2>1, <2>2, <2>3, <2>4, <2>6, <2>7
\* A search is asked for by the job or the console.
<1>11. CASE O!JobNext
  <2> DEFINE k == O!Min(job.left)
  <2>1. /\ job.pc = "next" /\ job.left # {}
        /\ UNCHANGED <<places, clearing, rows, cooks, answers, called, O!spent>>
    BY <1>11 DEF O!JobNext
  <2>2. job \in O!Job /\ job.left \in SUBSET O!Keys
    BY <1>0 DEF O!TypeOK, O!Job
  <2>3. k \in O!Keys
    BY <2>1, <2>2, LeastIsOne DEF O!Keys
  <2>4. CASE UNCHANGED <<inFlight, flights>> /\ job' = [job EXCEPT !.left = @ \ {k}]
    <3>1. job' \in O!Job
      BY <2>2, <2>4 DEF O!Job
    <3>2. O!TypeOK'
      BY <1>0, <2>1, <2>4, <3>1 DEF O!TypeOK, O!spent
    <3> QED
      BY <1>0, <1>1, <2>1, <2>4, <3>2
  <2>5. CASE O!Join(k, TRUE) /\ job' = [job EXCEPT !.pc = "waiting", !.on = O!FlightFor(k)]
    <3> HIDE DEF k
    <3>0. TRUE \in BOOLEAN
      OBVIOUS
    <3>1. /\ inFlight' \in [O!Keys -> O!Flights \cup {O!NoFlight}]
          /\ flights' \in [O!Flights -> O!Flight] /\ FlightsShared' /\ AnswersGrow'
          /\ O!FlightFor(k) \in O!Flights
      BY <2>1, <2>3, <2>5, <3>0, JoinShares
    <3>2. job' \in O!Job
      BY <2>2, <2>5, <3>1 DEF O!Job
    <3>3. O!TypeOK'
      BY <1>0, <2>1, <3>1, <3>2 DEF O!TypeOK, O!spent
    <3> QED
      BY <1>0, <2>1, <3>1, <3>3 DEF OffersIInv
  <2> QED
    BY <1>11, <2>4, <2>5 DEF O!JobNext
<1>12. ASSUME NEW k \in O!Keys, O!RefreshCache(k) \/ O!Replay(k)
       PROVE  OffersIInv'
  <2>1. /\ asks < MaxAsks /\ asks' = asks + 1 /\ O!Join(k, FALSE) /\ FALSE \in BOOLEAN
        /\ UNCHANGED <<places, clearing, rows, cooks, job, answers, called, fetches, faults>>
    BY <1>12 DEF O!RefreshCache, O!Replay, O!Refetch
  <2>2. /\ inFlight' \in [O!Keys -> O!Flights \cup {O!NoFlight}]
        /\ flights' \in [O!Flights -> O!Flight] /\ FlightsShared' /\ AnswersGrow'
    BY <2>1, JoinShares
  <2>3. O!TypeOK'
    BY <1>0, <2>1, <2>2 DEF O!TypeOK
  <2> QED
    BY <1>0, <2>1, <2>2, <2>3 DEF OffersIInv
\* Rows go, or age.
<1>13. ASSUME UNCHANGED <<places, inFlight, flights, cooks, job, answers, called, O!spent>>,
              clearing' \in SUBSET Places, rows' \in [O!Keys -> O!Row],
              \A k \in O!Keys : rows'[k].answer <= rows[k].answer
       PROVE  OffersIInv'
  <2>1. O!TypeOK'
    BY <1>0, <1>13 DEF O!TypeOK, O!spent
  <2>2. /\ answers \in Int
        /\ \A k \in O!Keys : rows[k].answer \in Int /\ rows'[k].answer \in Int
        /\ \A f \in O!Flights : flights[f].answer \in Int
    BY <1>0, <1>13 DEF O!TypeOK, O!Flight, O!Row
  <2>3. ASSUME NEW f \in O!Flights, flights[f].pc = "answered"
        PROVE  flights[f].answer <= answers /\ rows'[flights[f].key].answer <= flights[f].answer
    <3>1. flights[f].key \in O!Keys
      BY <1>0, <2>3, LandedIsAFlight DEF FlightsShared
    <3>2. /\ rows'[flights[f].key].answer <= rows[flights[f].key].answer
          /\ rows[flights[f].key].answer <= flights[f].answer /\ flights[f].answer <= answers
      BY <1>0, <1>13, <2>3, <3>1 DEF AnswersGrow
    <3> QED
      BY <2>2, <3>1, <3>2
  <2>4. \A k \in O!Keys : rows'[k].answer <= answers
    BY <1>0, <1>13, <2>2 DEF AnswersGrow
  <2>5. AnswersGrow'
    BY <1>13, <2>3, <2>4 DEF AnswersGrow
  <2> QED
    BY <1>0, <1>13, <2>1, <2>5 DEF OffersIInv, FlightsShared
<1>14. \A k \in O!Keys : O!NoRow.answer <= rows[k].answer /\ rows[k] \in O!Row
  BY <1>0, LandedIsAFlight DEF O!TypeOK, O!Row
<1>15. ASSUME NEW cleared \in SUBSET O!Keys, O!ClearCache(cleared)
       PROVE  OffersIInv'
  <2>1. /\ rows' = [k \in O!Keys |-> IF k \in cleared THEN O!NoRow ELSE rows[k]]
        /\ UNCHANGED <<places, clearing, inFlight, flights, cooks, job, answers, called, O!spent>>
    BY <1>15 DEF O!ClearCache
  <2>2. /\ rows' \in [O!Keys -> O!Row]
        /\ \A k \in O!Keys : rows'[k] = O!NoRow \/ rows'[k] = rows[k]
    BY <1>14, <2>1, LandedIsAFlight
  <2>3. \A k \in O!Keys : rows'[k].answer <= rows[k].answer
    BY <1>14, <2>2 DEF O!Row
  <2> QED
    BY <1>0, <1>13, <2>1, <2>2, <2>3 DEF O!TypeOK
<1>16. ASSUME NEW p \in Places, O!ClearRowsOf(p)
       PROVE  OffersIInv'
  <2>1. /\ rows' = [k \in O!Keys |-> IF PlaceOf[k] = p THEN O!NoRow ELSE rows[k]]
        /\ clearing' = clearing \ {p}
        /\ UNCHANGED <<places, inFlight, flights, cooks, job, answers, called, O!spent>>
    BY <1>16 DEF O!ClearRowsOf
  <2>2. /\ rows' \in [O!Keys -> O!Row]
        /\ \A k \in O!Keys : rows'[k] = O!NoRow \/ rows'[k] = rows[k]
    BY <1>14, <2>1, LandedIsAFlight
  <2>3. \A k \in O!Keys : rows'[k].answer <= rows[k].answer
    BY <1>14, <2>2 DEF O!Row
  <2> QED
    BY <1>0, <1>13, <2>1, <2>2, <2>3 DEF O!TypeOK
<1>17. ASSUME NEW k \in O!Keys, O!RowAges(k)
       PROVE  OffersIInv'
  <2>1. /\ rows' = [rows EXCEPT ![k] = [rows[k] EXCEPT !.age = rows[k].age + 1]]
        /\ rows[k].age < O!Old
        /\ UNCHANGED <<places, clearing, inFlight, flights, cooks, job, answers, called, O!spent>>
    BY <1>0, <1>17 DEF O!RowAges, O!TypeOK
  <2>2. /\ [rows[k] EXCEPT !.age = rows[k].age + 1] \in O!Row
        /\ [rows[k] EXCEPT !.age = rows[k].age + 1].answer = rows[k].answer
    BY <1>14, <2>1 DEF O!Row, O!Young, O!Old
  <2>3. /\ rows' \in [O!Keys -> O!Row]
        /\ \A j \in O!Keys : rows'[j].answer = rows[j].answer
    BY <1>0, <2>1, <2>2 DEF O!TypeOK
  <2>4. \A j \in O!Keys : rows'[j].answer <= rows[j].answer
    BY <1>14, <2>3 DEF O!Row
  <2> QED
    BY <1>0, <1>13, <2>1, <2>3, <2>4 DEF O!TypeOK
<1>18. CASE O!Restart
  <2>1. /\ inFlight' = [k \in O!Keys |-> O!NoFlight]
        /\ flights' = [f \in O!Flights |-> O!Landed]
        /\ cooks' = [c \in Cooks |-> O!Away] /\ clearing' = {}
        /\ job' = IF job = O!NoJob THEN O!NoJob
                  ELSE [O!NoJob EXCEPT !.pc = "queued", !.force = job.force]
        /\ faults' \in 0..MaxFaults
        /\ UNCHANGED <<places, rows, answers, called, asks, fetches>>
    BY <1>0, <1>18 DEF O!Restart, O!TypeOK
  <2>2. job' \in O!Job
    <3>1. job \in O!Job
      BY <1>0 DEF O!TypeOK
    <3> QED
      BY <2>1, <3>1 DEF O!Job, O!NoJob, O!NoFlight
  <2>3. O!TypeOK'
    BY <1>0, <2>1, <2>2, LandedIsAFlight DEF O!TypeOK
  <2>4. FlightsShared' /\ AnswersGrow'
    BY <1>0, <2>1, LandedIsAFlight DEF FlightsShared, AnswersGrow
  <2> QED
    BY <2>1, <2>3, <2>4, LandedIsAFlight DEF OffersIInv
<1>19. ASSUME NEW force \in BOOLEAN, O!FetchAhead(force)
       PROVE  OffersIInv'
  <2>1. [O!NoJob EXCEPT !.pc = "queued", !.force = force] \in O!Job
    BY DEF O!Job, O!NoJob, O!NoFlight
  <2>2. O!TypeOK'
    BY <1>0, <1>19, <2>1 DEF O!FetchAhead, O!TypeOK
  <2> QED
    BY <1>0, <1>1, <1>19, <2>2 DEF O!FetchAhead
<1>20. CASE O!StartJob \/ O!JobEnds
  <2>1. job' \in O!Job
    <3>1. job \in O!Job /\ {k \in O!Keys : places[PlaceOf[k]] = "shown"} \in SUBSET O!Keys
      BY <1>0 DEF O!TypeOK
    <3>2. [job EXCEPT !.pc = "next", !.left = {k \in O!Keys : places[PlaceOf[k]] = "shown"}]
             \in O!Job
      BY <3>1 DEF O!Job
    <3> QED
      BY <1>20, <3>2, LandedIsAFlight DEF O!StartJob, O!JobEnds
  <2>2. UNCHANGED <<places, clearing, rows, inFlight, flights, cooks, answers, called, O!spent>>
    BY <1>20 DEF O!StartJob, O!JobEnds
  <2>3. O!TypeOK'
    BY <1>0, <2>1, <2>2 DEF O!TypeOK, O!spent
  <2> QED
    BY <1>0, <1>1, <2>2, <2>3
\* A place is saved, shown, hidden or deleted.
<1>21. ASSUME asks' \in 0..MaxAsks, clearing' \in SUBSET Places,
              places' \in [Places -> {"absent", "hidden", "shown"}],
              UNCHANGED <<rows, inFlight, flights, cooks, job, answers, called, fetches, faults>>
       PROVE  OffersIInv'
  <2>1. O!TypeOK'
    BY <1>0, <1>21 DEF O!TypeOK
  <2> QED
    BY <1>0, <1>1, <1>21, <2>1
<1>22. ASSUME NEW p \in Places, NEW as \in {"shown", "hidden"}, O!SavePlace(p) \/ O!UpdatePlace(p, as)
       PROVE  OffersIInv'
  <2>1. /\ asks \in 0..MaxAsks /\ clearing \in SUBSET Places
        /\ places \in [Places -> {"absent", "hidden", "shown"}]
    BY <1>0 DEF O!TypeOK
  <2>2. CASE O!SavePlace(p)
    BY <1>21, <2>1, <2>2 DEF O!SavePlace
  <2>3. CASE O!UpdatePlace(p, as)
    <3>1. /\ places' = [places EXCEPT ![p] = as] /\ asks' = asks + 1 /\ asks < MaxAsks
          /\ UNCHANGED <<clearing, rows, inFlight, flights, cooks, job, answers, called, fetches,
                         faults>>
      BY <2>3 DEF O!UpdatePlace
    <3>2. places' \in [Places -> {"absent", "hidden", "shown"}]
      BY <2>1, <3>1
    <3>3. asks' \in 0..MaxAsks /\ clearing' \in SUBSET Places
      BY <2>1, <3>1
    <3> QED
      BY <1>21, <3>1, <3>2, <3>3
  <2> QED
    BY <1>22, <2>2, <2>3
<1>23. ASSUME NEW gone \in SUBSET Places, O!DeletePlaces(gone)
       PROVE  OffersIInv'
  BY <1>0, <1>21, <1>23 DEF O!DeletePlaces, O!TypeOK
<1>24. CASE UNCHANGED O!vars
  BY <1>0, <1>1, <1>24 DEF O!vars, O!spent, O!TypeOK
<1>25. \A p \in Places : O!SavePlace(p) => OffersIInv'
  BY <1>22
<1>26. ASSUME NEW f \in O!Flights, O!Flies(f) PROVE OffersIInv'
  BY <1>5, <1>6, <1>7, <1>9, <1>10, <1>26 DEF O!Flies
<1>27. CASE O!Console
  BY <1>12, <1>15, <1>16, <1>22, <1>23, <1>25, <1>27 DEF O!Console
<1> QED
  BY <1>2, <1>3, <1>11, <1>17, <1>18, <1>19, <1>20, <1>24, <1>26, <1>27 DEF O!Next

\* Only a search that has been answered, a purge and the clock write a row (chowdeck.service.ts:270-294,
\* chowdeck.admin.service.ts), and of the answers to a key's searches the later is stored last.
LEMMA AStepIsNeverOlder ==
    ASSUME OffersIInv, [O!Next]_(O!vars)
    PROVE  \A k \in O!Keys : rows[k] # O!NoRow /\ rows'[k] # O!NoRow =>
              rows'[k].answer >= rows[k].answer
<1>0. /\ O!TypeOK /\ FlightsShared /\ AnswersGrow
      /\ \A k \in O!Keys : rows[k].answer \in Int
  BY DEF OffersIInv, O!TypeOK, O!Row
<1>1. ASSUME NEW f \in O!Flights, O!Store(f)
      PROVE  \A k \in O!Keys : rows'[k].answer >= rows[k].answer
  <2>1. /\ flights[f].key \in O!Keys /\ rows[flights[f].key].answer <= flights[f].answer
        /\ flights[f].answer \in Int
    BY <1>0, <1>1, LandedIsAFlight DEF O!Store, FlightsShared, AnswersGrow, O!TypeOK, O!Flight
  <2>2. rows' = [rows EXCEPT ![flights[f].key] =
           [status |-> flights[f].status, age |-> O!Young, answer |-> flights[f].answer]]
    BY <1>1 DEF O!Store
  <2>3. /\ rows'[flights[f].key].answer = flights[f].answer
        /\ \A k \in O!Keys : k # flights[f].key => rows'[k] = rows[k]
    BY <1>0, <2>1, <2>2 DEF O!TypeOK
  <2> QED
    BY <1>0, <2>1, <2>3
<1>2. ASSUME NEW f \in O!Flights, O!Flies(f), ~O!Store(f)
      PROVE  rows' = rows
  BY <1>2 DEF O!Flies, O!Refuse, O!Sleep, O!Send, O!Fail, O!StoreThrows, O!Answer
<1>3. ASSUME O!Console
      PROVE  \A k \in O!Keys : rows'[k] = O!NoRow \/ rows'[k] = rows[k]
  BY <1>0, <1>3 DEF O!Console, O!RefreshCache, O!Replay, O!Refetch, O!ClearCache, O!SavePlace,
     O!UpdatePlace, O!DeletePlaces, O!ClearRowsOf, O!TypeOK
<1>4. ASSUME NEW k \in O!Keys, O!RowAges(k)
      PROVE  \A j \in O!Keys : rows'[j].answer = rows[j].answer
  BY <1>0, <1>4 DEF O!RowAges, O!TypeOK, O!Row
<1>5. CASE UNCHANGED O!vars
  BY <1>0, <1>5 DEF O!vars
<1>6. CASE (\E c \in Cooks : O!CookReads(c) \/ \E k \in O!Keys : O!CookAsks(c, k))
           \/ O!StartJob \/ O!JobNext \/ O!JobEnds \/ O!Restart
           \/ \E force \in BOOLEAN : O!FetchAhead(force)
  <2>1. rows' = rows
    BY <1>6 DEF O!CookReads, O!CookAsks, O!StartJob, O!JobNext, O!JobEnds, O!Restart, O!FetchAhead
  <2> QED
    BY <1>0, <2>1
<1> QED
  BY <1>0, <1>1, <1>2, <1>3, <1>4, <1>5, <1>6 DEF O!Next

LEMMA OffersInit == O!Init => OffersIInv
<1> SUFFICES ASSUME O!Init PROVE OffersIInv
  OBVIOUS
<1> USE OffersAssumption DEF O!OffersAssumption
<1>1. O!TypeOK
  BY LandedIsAFlight DEF O!Init, O!TypeOK
<1> QED
  BY <1>1, LandedIsAFlight DEF O!Init, OffersIInv, FlightsShared, AnswersGrow

LEMMA OffersInvariant == O!Spec => []OffersIInv
<1> QED
  BY OffersInit, OffersKept, PTL DEF O!Spec

\* A cached search is never overwritten with an older answer, whoever asks for it at once
\* (chowdeck.client.ts:194, chowdeck.service.ts:270-294): at most one search of a key is under way
\* until a restart, and a restart takes them all.
THEOREM AnswersOnlyGetNewer == O!Spec => NeverOlder
<1>1. OffersIInv /\ [O!Next]_(O!vars) =>
        [\A k \in O!Keys : rows[k] # O!NoRow /\ rows'[k] # O!NoRow =>
            rows'[k].answer >= rows[k].answer]_(O!vars)
  BY AStepIsNeverOlder
<1> QED
  BY <1>1, OffersInvariant, PTL DEF O!Spec, NeverOlder, O!NeverOlder

-------------------------------------------------------------------------------
(* The row of restaurants.                                                 *)

\* What the cache holds: no restaurant twice.
RowIInv == K!TypeOK /\ K!IsInjective(vendors)

\* The day before is a day of the week, and so is the next.
LEMMA DaysGoRound ==
    /\ \A d \in K!WeekDays : K!Yesterday(d) \in K!WeekDays
    /\ \A d \in K!WeekDays : (d + 1) % NDays \in K!WeekDays
    /\ \A m \in K!Minutes : (m + 1) % DayLength \in K!Minutes
<1>1. NDays \in Nat /\ NDays > 0 /\ DayLength \in Nat /\ DayLength > 0
  BY RankingAssumption DEF K!OfferRankingAssumption
<1>2. \A x \in Int, n \in Nat : n > 0 => x % n \in 0..(n - 1)
  OBVIOUS
<1>3. \A d \in K!WeekDays : d + NDays - 1 \in Int /\ d + 1 \in Int
  BY <1>1 DEF K!WeekDays
<1>4. \A m \in K!Minutes : m + 1 \in Int
  BY <1>1 DEF K!Minutes
<1> QED
  BY <1>1, <1>2, <1>3, <1>4 DEF K!WeekDays, K!Minutes, K!Yesterday

LEMMA RowKept == RowIInv /\ [K!Next]_(K!vars) => RowIInv'
<1> SUFFICES ASSUME RowIInv, [K!Next]_(K!vars) PROVE RowIInv'
  OBVIOUS
<1>1. 0 \in K!WeekDays
  BY RankingAssumption DEF K!OfferRankingAssumption, K!WeekDays
<1>2. CASE K!Tick
  <2>1. minute' \in K!Minutes /\ day' \in K!WeekDays /\ vendors' = vendors
    BY <1>2, DaysGoRound DEF K!Tick, RowIInv, K!TypeOK
  <2> QED
    BY <2>1 DEF RowIInv, K!TypeOK, K!IsInjective
<1>3. CASE K!Refetch
  <2>1. vendors' = [i \in 1..Len(vendors) |-> vendors[(Len(vendors) - i) + 1]]
    BY <1>3 DEF K!Refetch, K!Reverse
  <2>2. vendors \in [1..Len(vendors) -> Vendors] /\ Len(vendors) \in Nat
    BY DEF RowIInv, K!TypeOK
  <2>3. vendors' \in [1..Len(vendors) -> Vendors]
    BY <2>1, <2>2
  <2>4. vendors' \in Seq(Vendors)
    BY <2>2, <2>3
  <2>5. \A i, j \in 1..Len(vendors) : vendors[i] = vendors[j] => i = j
    BY <2>2 DEF RowIInv, K!IsInjective
  <2>6. \A i, j \in 1..Len(vendors) : vendors'[i] = vendors'[j] => i = j
    BY <2>1, <2>2, <2>5
  <2>7. \A i, j \in DOMAIN vendors' : vendors'[i] = vendors'[j] => i = j
    BY <2>1, <2>6
  <2> QED
    BY <1>3, <2>4, <2>7 DEF K!Refetch, RowIInv, K!TypeOK, K!IsInjective
<1>4. CASE UNCHANGED K!vars
  BY <1>4 DEF K!vars, RowIInv, K!TypeOK, K!IsInjective
<1> QED
  BY <1>2, <1>3, <1>4 DEF K!Next

LEMMA RowInit == K!Init => RowIInv
<1> SUFFICES ASSUME K!Init PROVE RowIInv
  OBVIOUS
<1>1. 0 \in K!WeekDays /\ 0 \in K!Minutes
  BY RankingAssumption DEF K!OfferRankingAssumption, K!WeekDays, K!Minutes
<1>2. vendors \in Seq(Vendors)
  BY RankingAssumption DEF K!OfferRankingAssumption, K!Init
<1> QED
  BY <1>1, <1>2 DEF K!Init, RowIInv, K!TypeOK

-------------------------------------------------------------------------------
(* What is compared.                                                       *)

IsOffer(o) ==
    /\ K!IsVendor(o.vendor)
    /\ o.price \in Nat
    /\ o.state.open \in BOOLEAN

\* Stars per vote, crosswise: being no better is transitive.
LEMMA ScaleUp ==
    ASSUME NEW x \in Int, NEW y \in Int, NEW v \in Nat, v > 0
    PROVE  (x <= y <=> x * v <= y * v) /\ (x = y <=> x * v = y * v)
OBVIOUS

LEMMA CrosswiseTransitive ==
    ASSUME NEW p \in Int, NEW q \in Int, NEW r \in Int,
           NEW u \in Nat, u > 0, NEW v \in Nat, v > 0, NEW w \in Nat, w > 0,
           q * u <= p * v, r * v <= q * w
    PROVE  r * u <= p * w /\ (r * u = p * w => q * u = p * v /\ r * v = q * w)
<1>1. (q * u) * w <= (p * v) * w
  <2>1. q * u \in Int /\ p * v \in Int
    OBVIOUS
  <2> QED
    BY <2>1, ScaleUp
<1>2. (r * v) * u <= (q * w) * u
  <2>1. r * v \in Int /\ q * w \in Int
    OBVIOUS
  <2> QED
    BY <2>1, ScaleUp
<1>3. (q * u) * w = (q * w) * u /\ (r * v) * u = (r * u) * v /\ (p * v) * w = (p * w) * v
  OBVIOUS
<1>4. r * u \in Int /\ p * w \in Int /\ q * u \in Int /\ p * v \in Int /\ r * v \in Int /\ q * w \in Int
  OBVIOUS
<1>5. /\ (r * u) * v \in Int /\ (p * w) * v \in Int /\ (q * w) * u \in Int
      /\ (q * u) * w \in Int /\ (p * v) * w \in Int /\ (r * v) * u \in Int
  BY <1>4
<1>6. (r * u) * v <= (p * w) * v
  BY <1>1, <1>2, <1>3, <1>5
<1>7. r * u <= p * w
  BY <1>4, <1>6, ScaleUp
<1>8. ASSUME r * u = p * w PROVE q * u = p * v /\ r * v = q * w
  <2>1. (r * u) * v = (p * w) * v
    BY <1>8
  <2>2. (q * u) * w = (p * v) * w /\ (r * v) * u = (q * w) * u
    BY <1>1, <1>2, <1>3, <1>5, <2>1
  <2> QED
    BY <1>4, <2>2, ScaleUp
<1> QED
  BY <1>7, <1>8

\* The first difference that is not zero decides.
Before(x) ==
    \/ x[1] < 0
    \/ x[1] = 0 /\ x[2] < 0
    \/ x[1] = 0 /\ x[2] = 0 /\ x[3] < 0
    \/ x[1] = 0 /\ x[2] = 0 /\ x[3] = 0 /\ x[4] < 0
    \/ x[1] = 0 /\ x[2] = 0 /\ x[3] = 0 /\ x[4] = 0 /\ x[5] < 0
    \/ x[1] = 0 /\ x[2] = 0 /\ x[3] = 0 /\ x[4] = 0 /\ x[5] = 0 /\ x[6] < 0

LEMMA PrecedesIsBefore ==
    ASSUME NEW x \in [1..6 -> Int]
    PROVE  K!Precedes(x) <=> Before(x)
<1>1. DOMAIN x = 1..6 /\ \A i \in 1..6 : x[i] \in Int
  OBVIOUS
<1>2. ASSUME NEW i \in 1..6, x[i] < 0, \A j \in 1..(i - 1) : x[j] = 0 PROVE Before(x)
  <2>1. /\ i > 1 => x[1] = 0
        /\ i > 2 => x[2] = 0
        /\ i > 3 => x[3] = 0
        /\ i > 4 => x[4] = 0
        /\ i > 5 => x[5] = 0
    BY <1>2
  <2>2. i = 1 \/ i = 2 \/ i = 3 \/ i = 4 \/ i = 5 \/ i = 6
    OBVIOUS
  <2> QED
    BY <1>2, <2>1, <2>2 DEF Before
<1>3. ASSUME Before(x) PROVE \E i \in 1..6 : x[i] < 0 /\ \A j \in 1..(i - 1) : x[j] = 0
  <2>1. CASE x[1] < 0
    <3>1. \A j \in 1..(1 - 1) : x[j] = 0
      OBVIOUS
    <3> QED
      BY <2>1, <3>1
  <2>2. CASE x[1] = 0 /\ x[2] < 0
    <3>1. \A j \in 1..(2 - 1) : j = 1
      OBVIOUS
    <3> QED
      BY <2>2, <3>1
  <2>3. CASE x[1] = 0 /\ x[2] = 0 /\ x[3] < 0
    <3>1. \A j \in 1..(3 - 1) : j = 1 \/ j = 2
      OBVIOUS
    <3> QED
      BY <2>3, <3>1
  <2>4. CASE x[1] = 0 /\ x[2] = 0 /\ x[3] = 0 /\ x[4] < 0
    <3>1. \A j \in 1..(4 - 1) : j = 1 \/ j = 2 \/ j = 3
      OBVIOUS
    <3> QED
      BY <2>4, <3>1
  <2>5. CASE x[1] = 0 /\ x[2] = 0 /\ x[3] = 0 /\ x[4] = 0 /\ x[5] < 0
    <3>1. \A j \in 1..(5 - 1) : j = 1 \/ j = 2 \/ j = 3 \/ j = 4
      OBVIOUS
    <3> QED
      BY <2>5, <3>1
  <2>6. CASE x[1] = 0 /\ x[2] = 0 /\ x[3] = 0 /\ x[4] = 0 /\ x[5] = 0 /\ x[6] < 0
    <3>1. \A j \in 1..(6 - 1) : j = 1 \/ j = 2 \/ j = 3 \/ j = 4 \/ j = 5
      OBVIOUS
    <3> QED
      BY <2>6, <3>1
  <2> QED
    BY <1>3, <2>1, <2>2, <2>3, <2>4, <2>5, <2>6 DEF Before
<1> QED
  BY <1>1, <1>2, <1>3 DEF K!Precedes

\* Three offers: where the first is no worse than the second, and the second than the third, the
\* first is no worse than the third, and as good only if all are.
AddsUpTo(x, y, z) ==
    \A k \in 1..6 :
        x[k] <= 0 /\ y[k] <= 0 => z[k] <= 0 /\ (z[k] = 0 <=> x[k] = 0 /\ y[k] = 0)

LEMMA BeforeTransitive ==
    ASSUME NEW x \in [1..6 -> Int], NEW y \in [1..6 -> Int], NEW z \in [1..6 -> Int],
           AddsUpTo(x, y, z), Before(x), Before(y)
    PROVE  Before(z)
<1>1. /\ x[1] \in Int /\ x[2] \in Int /\ x[3] \in Int /\ x[4] \in Int /\ x[5] \in Int /\ x[6] \in Int
      /\ y[1] \in Int /\ y[2] \in Int /\ y[3] \in Int /\ y[4] \in Int /\ y[5] \in Int /\ y[6] \in Int
      /\ z[1] \in Int /\ z[2] \in Int /\ z[3] \in Int /\ z[4] \in Int /\ z[5] \in Int /\ z[6] \in Int
  OBVIOUS
<1>2. /\ x[1] <= 0 /\ y[1] <= 0 => z[1] <= 0 /\ (z[1] = 0 <=> x[1] = 0 /\ y[1] = 0)
      /\ x[2] <= 0 /\ y[2] <= 0 => z[2] <= 0 /\ (z[2] = 0 <=> x[2] = 0 /\ y[2] = 0)
      /\ x[3] <= 0 /\ y[3] <= 0 => z[3] <= 0 /\ (z[3] = 0 <=> x[3] = 0 /\ y[3] = 0)
      /\ x[4] <= 0 /\ y[4] <= 0 => z[4] <= 0 /\ (z[4] = 0 <=> x[4] = 0 /\ y[4] = 0)
      /\ x[5] <= 0 /\ y[5] <= 0 => z[5] <= 0 /\ (z[5] = 0 <=> x[5] = 0 /\ y[5] = 0)
      /\ x[6] <= 0 /\ y[6] <= 0 => z[6] <= 0 /\ (z[6] = 0 <=> x[6] = 0 /\ y[6] = 0)
  BY DEF AddsUpTo
<1> QED
  BY <1>1, <1>2 DEF Before

\* The numbers an offer is compared by.
LEMMA OfferNumbers ==
    ASSUME NEW o, IsOffer(o)
    PROVE  /\ K!deliveryBand(o.vendor) \in Int /\ o.vendor.distance \in Int
           /\ o.vendor.id \in Int /\ o.price \in Int
           /\ K!Stars(o.vendor) \in Int /\ K!Votes(o.vendor) \in Nat /\ K!Votes(o.vendor) > 0
<1>1. /\ o.vendor.delivery \in Nat /\ o.vendor.distance \in Nat /\ o.vendor.id \in Nat
      /\ o.price \in Nat /\ o.vendor.stars \in 0..50 /\ o.vendor.ratings \in Nat
  BY DEF IsOffer, K!IsVendor
<1>2. Unknown \in Nat
  BY RankingAssumption DEF K!OfferRankingAssumption
<1>3. \A n \in Nat : (n + 9) \div 10 \in Int
  OBVIOUS
<1>4. K!deliveryBand(o.vendor) \in Int
  BY <1>1, <1>2, <1>3 DEF K!deliveryBand
<1>5. \A s \in 0..50, n \in Nat : 38 * 5 + s * n \in Int
  OBVIOUS
<1>6. K!Stars(o.vendor) \in Int
  BY <1>1, <1>5 DEF K!Stars, K!PriorStars, K!PriorWeight
<1>7. K!Votes(o.vendor) \in Nat /\ K!Votes(o.vendor) > 0
  BY <1>1 DEF K!Votes, K!PriorWeight
<1> QED
  BY <1>1, <1>4, <1>6, <1>7

\* How two offers differ: six numbers, which are the opposites the other way round, all zero of an
\* offer and itself, and the last not zero of different restaurants.
LEMMA RespectsOfOffers ==
    ASSUME NEW a, NEW b, IsOffer(a), IsOffer(b)
    PROVE  /\ K!Respects(a, b) \in [1..6 -> Int]
           /\ \A k \in 1..6 : K!Respects(b, a)[k] = -K!Respects(a, b)[k]
           /\ K!Respects(a, b)[6] = 0 <=> a.vendor.id = b.vendor.id
<1>2. /\ K!deliveryBand(a.vendor) \in Int /\ K!deliveryBand(b.vendor) \in Int
      /\ a.vendor.distance \in Int /\ b.vendor.distance \in Int
      /\ a.vendor.id \in Int /\ b.vendor.id \in Int
      /\ a.price \in Int /\ b.price \in Int
  BY OfferNumbers
<1>3. /\ K!Stars(a.vendor) \in Int /\ K!Stars(b.vendor) \in Int
      /\ K!Votes(a.vendor) \in Int /\ K!Votes(b.vendor) \in Int
  BY OfferNumbers
<1>4. K!Stars(a.vendor) * K!Votes(b.vendor) \in Int /\ K!Stars(b.vendor) * K!Votes(a.vendor) \in Int
  BY <1>3
<1> DEFINE x == K!Respects(a, b)
           y == K!Respects(b, a)
<1>5. /\ x[1] = (IF a.state.open THEN 0 ELSE 1) - (IF b.state.open THEN 0 ELSE 1)
      /\ x[2] = K!deliveryBand(a.vendor) - K!deliveryBand(b.vendor)
      /\ x[3] = K!Stars(b.vendor) * K!Votes(a.vendor) - K!Stars(a.vendor) * K!Votes(b.vendor)
      /\ x[4] = a.price - b.price
      /\ x[5] = a.vendor.distance - b.vendor.distance
      /\ x[6] = a.vendor.id - b.vendor.id
      /\ DOMAIN x = 1..6 /\ x = [k \in 1..6 |-> x[k]]
  BY DEF K!Respects
<1>6. /\ y[1] = (IF b.state.open THEN 0 ELSE 1) - (IF a.state.open THEN 0 ELSE 1)
      /\ y[2] = K!deliveryBand(b.vendor) - K!deliveryBand(a.vendor)
      /\ y[3] = K!Stars(a.vendor) * K!Votes(b.vendor) - K!Stars(b.vendor) * K!Votes(a.vendor)
      /\ y[4] = b.price - a.price
      /\ y[5] = b.vendor.distance - a.vendor.distance
      /\ y[6] = b.vendor.id - a.vendor.id
  BY DEF K!Respects
<1>7. x[1] \in Int /\ x[2] \in Int /\ x[3] \in Int /\ x[4] \in Int /\ x[5] \in Int /\ x[6] \in Int
  BY <1>2, <1>4, <1>5
<1>8. /\ y[1] = -x[1] /\ y[2] = -x[2] /\ y[3] = -x[3]
      /\ y[4] = -x[4] /\ y[5] = -x[5] /\ y[6] = -x[6]
  BY <1>2, <1>4, <1>5, <1>6
<1>9. x[6] = 0 <=> a.vendor.id = b.vendor.id
  <2>1. x[6] = a.vendor.id - b.vendor.id
    BY <1>5
  <2>2. \A m, n \in Int : m - n = 0 <=> m = n
    OBVIOUS
  <2> HIDE DEF x
  <2> QED
    BY <1>2, <2>1, <2>2
<1> HIDE DEF x, y
<1>10. \A k \in 1..6 : k = 1 \/ k = 2 \/ k = 3 \/ k = 4 \/ k = 5 \/ k = 6
  OBVIOUS
<1>11. \A k \in 1..6 : x[k] \in Int /\ y[k] = -x[k]
  BY <1>7, <1>8, <1>10
<1>12. x \in [1..6 -> Int]
  BY <1>5, <1>11
<1> QED
  BY <1>9, <1>11, <1>12 DEF x, y

LEMMA RespectsAddUp ==
    ASSUME NEW a, NEW b, NEW c, IsOffer(a), IsOffer(b), IsOffer(c)
    PROVE  AddsUpTo(K!Respects(a, b), K!Respects(b, c), K!Respects(a, c))
<1> DEFINE x == K!Respects(a, b)
           y == K!Respects(b, c)
           z == K!Respects(a, c)
           Add(k) == x[k] <= 0 /\ y[k] <= 0 => z[k] <= 0 /\ (z[k] = 0 <=> x[k] = 0 /\ y[k] = 0)
<1>2. ASSUME NEW o, IsOffer(o)
      PROVE  /\ K!deliveryBand(o.vendor) \in Int /\ o.vendor.distance \in Int
             /\ o.vendor.id \in Int /\ o.price \in Int
             /\ K!Stars(o.vendor) \in Int /\ K!Votes(o.vendor) \in Nat /\ K!Votes(o.vendor) > 0
  BY <1>2, OfferNumbers
<1>3. Add(1)
  BY DEF K!Respects, IsOffer
<1>4. Add(2)
  BY <1>2 DEF K!Respects
<1>5. Add(3)
  <2> DEFINE p == K!Stars(a.vendor)
             q == K!Stars(b.vendor)
             r == K!Stars(c.vendor)
             u == K!Votes(a.vendor)
             v == K!Votes(b.vendor)
             w == K!Votes(c.vendor)
  <2>1. /\ p \in Int /\ q \in Int /\ r \in Int
        /\ u \in Nat /\ u > 0 /\ v \in Nat /\ v > 0 /\ w \in Nat /\ w > 0
    BY <1>2
  <2>2. x[3] = q * u - p * v /\ y[3] = r * v - q * w /\ z[3] = r * u - p * w
    BY DEF K!Respects
  <2> HIDE DEF p, q, r, u, v, w, x, y, z
  <2>3. /\ q * u \in Int /\ p * v \in Int /\ r * v \in Int
        /\ q * w \in Int /\ r * u \in Int /\ p * w \in Int
    BY <2>1
  <2>4. q * u <= p * v /\ r * v <= q * w =>
            r * u <= p * w /\ (r * u = p * w => q * u = p * v /\ r * v = q * w)
    BY <2>1, CrosswiseTransitive
  <2>5. q * u = p * v /\ r * v = q * w => p * w <= r * u
    BY <2>1, <2>3, CrosswiseTransitive
  <2> QED
    BY <2>2, <2>3, <2>4, <2>5
<1>6. Add(4)
  BY <1>2 DEF K!Respects
<1>7. Add(5)
  BY <1>2 DEF K!Respects
<1>8. Add(6)
  BY <1>2 DEF K!Respects
<1>9. \A k \in 1..6 : k = 1 \/ k = 2 \/ k = 3 \/ k = 4 \/ k = 5 \/ k = 6
  OBVIOUS
<1> HIDE DEF x, y, z
<1>10. \A k \in 1..6 : Add(k)
  <2> HIDE DEF Add
  <2> QED
    BY <1>3, <1>4, <1>5, <1>6, <1>7, <1>8, <1>9
<1> QED
  BY <1>10 DEF AddsUpTo, x, y, z

\* compare orders the offers of different restaurants.
LEMMA CompareOrders ==
    /\ \A a : IsOffer(a) => ~K!Compare(a, a)
    /\ \A a, b : IsOffer(a) /\ IsOffer(b) /\ a.vendor.id # b.vendor.id =>
          K!Compare(a, b) \/ K!Compare(b, a)
    /\ \A a, b, c : IsOffer(a) /\ IsOffer(b) /\ IsOffer(c) /\ K!Compare(a, b) /\ K!Compare(b, c) =>
          K!Compare(a, c)
<1>1. ASSUME NEW a, IsOffer(a) PROVE ~K!Compare(a, a)
  <2> DEFINE x == K!Respects(a, a)
  <2>1. x \in [1..6 -> Int] /\ \A k \in 1..6 : x[k] = -x[k]
    BY <1>1, RespectsOfOffers
  <2> HIDE DEF x
  <2>2. \A k \in 1..6 : x[k] = 0
    BY <2>1
  <2>3. ~Before(x)
    BY <2>2 DEF Before
  <2> QED
    BY <2>1, <2>3, PrecedesIsBefore DEF K!Compare, x
<1>2. ASSUME NEW a, NEW b, IsOffer(a), IsOffer(b), a.vendor.id # b.vendor.id
      PROVE  K!Compare(a, b) \/ K!Compare(b, a)
  <2> DEFINE x == K!Respects(a, b)
             y == K!Respects(b, a)
  <2>1. /\ x \in [1..6 -> Int] /\ y \in [1..6 -> Int]
        /\ \A k \in 1..6 : y[k] = -x[k]
        /\ x[6] # 0
    BY <1>2, RespectsOfOffers
  <2> HIDE DEF x, y
  <2>2. /\ x[1] \in Int /\ x[2] \in Int /\ x[3] \in Int /\ x[4] \in Int /\ x[5] \in Int /\ x[6] \in Int
        /\ y[1] = -x[1] /\ y[2] = -x[2] /\ y[3] = -x[3]
        /\ y[4] = -x[4] /\ y[5] = -x[5] /\ y[6] = -x[6]
    BY <2>1
  <2>3. Before(x) \/ Before(y)
    BY <2>1, <2>2 DEF Before
  <2> QED
    BY <2>1, <2>3, PrecedesIsBefore DEF K!Compare, x, y
<1>3. ASSUME NEW a, NEW b, NEW c, IsOffer(a), IsOffer(b), IsOffer(c), K!Compare(a, b), K!Compare(b, c)
      PROVE  K!Compare(a, c)
  <2> DEFINE x == K!Respects(a, b)
             y == K!Respects(b, c)
             z == K!Respects(a, c)
  <2>1. x \in [1..6 -> Int] /\ y \in [1..6 -> Int] /\ z \in [1..6 -> Int] /\ AddsUpTo(x, y, z)
    BY <1>3, RespectsOfOffers, RespectsAddUp
  <2>2. K!Precedes(x) /\ K!Precedes(y)
    BY <1>3 DEF K!Compare
  <2>3. K!Precedes(z) => K!Compare(a, c)
    BY DEF K!Compare
  <2> HIDE DEF x, y, z
  <2>4. Before(z)
    BY <2>1, <2>2, PrecedesIsBefore, BeforeTransitive
  <2> QED
    BY <2>1, <2>3, <2>4, PrecedesIsBefore
<1> QED
  BY <1>1, <1>2, <1>3

-------------------------------------------------------------------------------
(* An order of finitely many things.                                       *)

Orders(S, rel) ==
    /\ \A i \in S : <<i, i>> \notin rel
    /\ \A i, j \in S : i # j => <<i, j>> \in rel \/ <<j, i>> \in rel
    /\ \A i, j, k \in S : <<i, j>> \in rel /\ <<j, k>> \in rel => <<i, k>> \in rel

\* How many are ahead.
Rank(S, rel, i) == Cardinality({j \in S : <<j, i>> \in rel})

\* Whoever is ahead has fewer ahead, so that everybody has a place, and no place is empty.
LEMMA RanksAreFilled ==
    ASSUME NEW S, IsFiniteSet(S), NEW rel, Orders(S, rel)
    PROVE  /\ Cardinality(S) \in Nat
           /\ \A i \in S : Rank(S, rel, i) \in 0..(Cardinality(S) - 1)
           /\ \A i, j \in S : <<i, j>> \in rel => Rank(S, rel, i) < Rank(S, rel, j)
           /\ \A n \in 0..(Cardinality(S) - 1) : \E i \in S : Rank(S, rel, i) = n
<1> DEFINE Behind(i) == {j \in S : <<j, i>> \in rel}
<1>1. \A i \in S : IsFiniteSet(Behind(i)) /\ Cardinality(Behind(i)) \in Nat
  <2> TAKE i \in S
  <2>1. Behind(i) \subseteq S
    OBVIOUS
  <2> HIDE DEF Behind
  <2> QED
    BY <2>1, FS_Subset, FS_CardinalityType
<1>2. Cardinality(S) \in Nat
  BY FS_CardinalityType
<1>3. ASSUME NEW i \in S PROVE Rank(S, rel, i) \in 0..(Cardinality(S) - 1)
  <2>1. Behind(i) \subseteq S \ {i}
    BY DEF Orders
  <2>2. IsFiniteSet(S \ {i}) /\ Cardinality(S \ {i}) = Cardinality(S) - 1
    BY FS_RemoveElement
  <2>3. Cardinality(Behind(i)) <= Cardinality(S) - 1
    <3> HIDE DEF Behind
    <3> QED
      BY <2>1, <2>2, FS_Subset
  <2>4. Rank(S, rel, i) = Cardinality(Behind(i))
    BY DEF Rank
  <2> HIDE DEF Behind
  <2> QED
    BY <1>1, <1>2, <2>3, <2>4
<1>4. ASSUME NEW i \in S, NEW j \in S, <<i, j>> \in rel PROVE Rank(S, rel, i) < Rank(S, rel, j)
  <2>1. Behind(i) \cup {i} \subseteq Behind(j) /\ i \notin Behind(i)
    BY <1>4 DEF Orders
  <2>2. Rank(S, rel, i) = Cardinality(Behind(i)) /\ Rank(S, rel, j) = Cardinality(Behind(j))
    BY DEF Rank
  <2> HIDE DEF Behind
  <2>3. Cardinality(Behind(i) \cup {i}) = Cardinality(Behind(i)) + 1
    BY <1>1, <2>1, FS_AddElement
  <2>4. Cardinality(Behind(i) \cup {i}) <= Cardinality(Behind(j))
    BY <1>1, <2>1, FS_Subset
  <2> QED
    BY <1>1, <2>2, <2>3, <2>4
<1>5. \A n \in 0..(Cardinality(S) - 1) : \E i \in S : Rank(S, rel, i) = n
  <2> DEFINE numbers == 0..(Cardinality(S) - 1)
             f == [i \in S |-> Rank(S, rel, i)]
  <2>1. \A i, j \in S : f[i] = f[j] => i = j
    <3> SUFFICES ASSUME NEW i \in S, NEW j \in S, f[i] = f[j], i # j PROVE FALSE
      OBVIOUS
    <3>1. Rank(S, rel, i) < Rank(S, rel, j) \/ Rank(S, rel, j) < Rank(S, rel, i)
      BY <1>4 DEF Orders
    <3>2. Rank(S, rel, i) \in Int /\ Rank(S, rel, j) \in Int
      BY <1>3
    <3>3. Rank(S, rel, i) = Rank(S, rel, j)
      OBVIOUS
    <3> QED
      BY <3>1, <3>2, <3>3
  <2>2. f \in Injection(S, numbers)
    <3>1. f \in [S -> numbers]
      BY <1>3
    <3>2. DOMAIN f = S
      OBVIOUS
    <3> HIDE DEF f
    <3> QED
      BY <2>1, <3>1, <3>2 DEF Injection, IsInjective
  <2>3. IsFiniteSet(numbers) /\ Cardinality(numbers) = Cardinality(S)
    <3>1. 0 \in Int /\ Cardinality(S) - 1 \in Int
      BY <1>2
    <3>2. IsFiniteSet(numbers)
          /\ Cardinality(numbers) = IF 0 > Cardinality(S) - 1 THEN 0 ELSE Cardinality(S) - 1 - 0 + 1
      BY <3>1, FS_Interval
    <3> HIDE DEF numbers
    <3> QED
      BY <1>2, <3>2
  <2>4. f \in Surjection(S, numbers)
    <3> HIDE DEF f, numbers
    <3> QED
      BY <2>2, <2>3, FS_Injection
  <2>5. \A n \in numbers : \E i \in S : f[i] = n
    <3> HIDE DEF f, numbers
    <3> QED
      BY <2>4 DEF Surjection
  <2> QED
    BY <2>5
<1> QED
  BY <1>2, <1>3, <1>4, <1>5

Arranges(S, rel, order) ==
    /\ DOMAIN order = 1..Cardinality(S)
    /\ \A n \in DOMAIN order :
          (\E i \in S : Rank(S, rel, i) = n - 1) => order[n] \in S /\ Rank(S, rel, order[n]) = n - 1

\* Put by how many are ahead of them, nobody stands before who is ahead, and nobody is missing.
LEMMA RanksArrange ==
    ASSUME NEW S, IsFiniteSet(S), NEW rel, Orders(S, rel), NEW order,
           Arranges(S, rel, order)
    PROVE  /\ \A n \in DOMAIN order : order[n] \in S
           /\ \A m, n \in DOMAIN order : m < n => <<order[m], order[n]>> \in rel
           /\ \A i \in S : \E n \in DOMAIN order : order[n] = i
<1>1. /\ Cardinality(S) \in Nat
      /\ \A i \in S : Rank(S, rel, i) \in 0..(Cardinality(S) - 1)
      /\ \A i, j \in S : <<i, j>> \in rel => Rank(S, rel, i) < Rank(S, rel, j)
      /\ \A n \in 0..(Cardinality(S) - 1) : \E i \in S : Rank(S, rel, i) = n
  BY RanksAreFilled
<1>2. DOMAIN order = 1..Cardinality(S)
  BY DEF Arranges
<1>3. ASSUME NEW n \in 1..Cardinality(S) PROVE order[n] \in S /\ Rank(S, rel, order[n]) = n - 1
  <2>1. n - 1 \in 0..(Cardinality(S) - 1)
    BY <1>1
  <2>2. \E i \in S : Rank(S, rel, i) = n - 1
    BY <1>1, <2>1
  <2> QED
    BY <1>2, <2>2 DEF Arranges
<1>4. ASSUME NEW m \in 1..Cardinality(S), NEW n \in 1..Cardinality(S), m < n
      PROVE  <<order[m], order[n]>> \in rel
  <2>1. /\ order[m] \in S /\ Rank(S, rel, order[m]) = m - 1
        /\ order[n] \in S /\ Rank(S, rel, order[n]) = n - 1
    BY <1>3
  <2>2. m - 1 < n - 1 /\ m - 1 \in Int /\ n - 1 \in Int
    BY <1>1, <1>4
  <2>3. order[m] # order[n]
    BY <2>1, <2>2
  <2>4. <<order[m], order[n]>> \in rel \/ <<order[n], order[m]>> \in rel
    BY <2>1, <2>3 DEF Orders
  <2>5. <<order[n], order[m]>> \in rel => n - 1 < m - 1
    BY <1>1, <2>1
  <2> QED
    BY <2>2, <2>4, <2>5
<1>5. ASSUME NEW i \in S PROVE \E n \in 1..Cardinality(S) : order[n] = i
  <2> DEFINE n == Rank(S, rel, i) + 1
  <2>1. n \in 1..Cardinality(S) /\ n - 1 = Rank(S, rel, i)
    BY <1>1
  <2> HIDE DEF n
  <2>2. order[n] \in S /\ Rank(S, rel, order[n]) = Rank(S, rel, i) /\ Rank(S, rel, i) \in Int
    BY <1>1, <1>3, <2>1
  <2>3. order[n] = i
    <3>1. ASSUME order[n] # i
          PROVE  Rank(S, rel, order[n]) < Rank(S, rel, i) \/ Rank(S, rel, i) < Rank(S, rel, order[n])
      BY <1>1, <2>2, <3>1 DEF Orders
    <3> QED
      BY <2>2, <3>1
  <2> QED
    BY <2>1, <2>3
<1> QED
  BY <1>2, <1>3, <1>4, <1>5

-------------------------------------------------------------------------------
(* What is ranked.                                                         *)

LEMMA StateIsOne ==
    ASSUME NEW v, K!IsVendor(v), NEW d \in K!WeekDays, NEW m
    PROVE  K!openState(v, d, m) \in {K!Open, K!Later, K!Shut}
<1>1. v.hours[d].kind \in {"absent", "closed", "unreadable", "stated"}
  BY DEF K!IsVendor, K!Hours
<1>2. v.paused \in BOOLEAN
  BY DEF K!IsVendor
<1>3. CASE v.paused
  BY <1>3 DEF K!openState
<1>4. CASE ~v.paused
  BY <1>1, <1>4 DEF K!openState
<1> QED
  BY <1>2, <1>3, <1>4

LEMMA OffersAreOffers ==
    ASSUME NEW v, K!IsVendor(v), K!Stocked(v) # {}, NEW d \in K!WeekDays, NEW m
    PROVE  IsOffer(K!Offer(v, d, m)) /\ K!Offer(v, d, m).vendor = v
<1>1. v.products \in Seq([stocked : BOOLEAN, price : Nat])
  BY DEF K!IsVendor
<1>2. DOMAIN v.products \subseteq Nat
  BY <1>1
<1>3. K!Stocked(v) \subseteq DOMAIN v.products
  BY DEF K!Stocked
<1>4. K!Min(K!Stocked(v)) \in DOMAIN v.products
  <2>1. K!Stocked(v) \subseteq Nat
    BY <1>2, <1>3
  <2> QED
    BY <1>3, <2>1, LeastIsOne
<1>5. v.products[K!Min(K!Stocked(v))].price \in Nat
  <2>1. \A set : \A s \in Seq(set) : \A n \in DOMAIN s : s[n] \in set
    OBVIOUS
  <2>2. v.products[K!Min(K!Stocked(v))] \in [stocked : BOOLEAN, price : Nat]
    BY <1>1, <1>4, <2>1
  <2> QED
    BY <2>2
<1>6. K!openState(v, d, m).open \in BOOLEAN
  <2>1. K!openState(v, d, m) \in {K!Open, K!Later, K!Shut}
    BY StateIsOne
  <2>2. K!Open.open = TRUE /\ K!Later.open = FALSE /\ K!Shut.open = FALSE
    BY DEF K!Open, K!Later, K!Shut
  <2> QED
    BY <2>1, <2>2
<1> QED
  BY <1>5, <1>6 DEF K!Offer, IsOffer

Now(v) == K!Offer(v, day, minute)

LEMMA VendorsAreVendors ==
    ASSUME RowIInv
    PROVE  /\ DOMAIN vendors = 1..Len(vendors) /\ Len(vendors) \in Nat
           /\ day \in K!WeekDays /\ minute \in K!Minutes
           /\ \A i \in DOMAIN vendors : vendors[i] \in Vendors /\ K!IsVendor(vendors[i])
           /\ \A i, j \in DOMAIN vendors : i # j => vendors[i].id # vendors[j].id
<1>1. /\ DOMAIN vendors = 1..Len(vendors) /\ Len(vendors) \in Nat
      /\ \A i \in DOMAIN vendors : vendors[i] \in Vendors
      /\ day \in K!WeekDays /\ minute \in K!Minutes
  BY DEF RowIInv, K!TypeOK
<1>2. \A i, j \in DOMAIN vendors : i # j => vendors[i] # vendors[j]
  BY DEF RowIInv, K!IsInjective
<1>3. /\ \A v \in Vendors : K!IsVendor(v)
      /\ \A v, w \in Vendors : v.id = w.id => v = w
  BY RankingAssumption DEF K!OfferRankingAssumption
<1> QED
  BY <1>1, <1>2, <1>3

Orderable == K!Scored(day, minute)

LEMMA OrderableOffers ==
    ASSUME RowIInv
    PROVE  /\ Orderable \subseteq DOMAIN vendors /\ IsFiniteSet(Orderable)
           /\ \A i \in Orderable : IsOffer(Now(vendors[i])) /\ Now(vendors[i]).vendor = vendors[i]
           /\ \A i, j \in Orderable : i # j => vendors[i].id # vendors[j].id
<1>1. Orderable \subseteq DOMAIN vendors
  BY DEF Orderable, K!Scored
<1>2. IsFiniteSet(1..Len(vendors))
  BY VendorsAreVendors, FS_Interval
<1>3. IsFiniteSet(Orderable)
  BY <1>1, <1>2, VendorsAreVendors, FS_Subset
<1>4. ASSUME NEW i \in Orderable
      PROVE  IsOffer(Now(vendors[i])) /\ Now(vendors[i]).vendor = vendors[i]
  <2>1. K!Stocked(vendors[i]) # {}
    BY <1>4 DEF Orderable, K!Scored
  <2>2. K!IsVendor(vendors[i]) /\ day \in K!WeekDays
    BY <1>1, VendorsAreVendors
  <2> QED
    BY <2>1, <2>2, OffersAreOffers DEF Now
<1> QED
  BY <1>1, <1>3, <1>4, VendorsAreVendors

\* The sort is by compare alone: nothing ties.
LEMMA AheadIsCompare ==
    ASSUME RowIInv, NEW i \in Orderable, NEW j \in Orderable
    PROVE  K!Ahead(i, j, day, minute) <=> i # j /\ K!Compare(Now(vendors[i]), Now(vendors[j]))
<1>1. IsOffer(Now(vendors[i])) /\ IsOffer(Now(vendors[j]))
  BY OrderableOffers
<1>2. i # j => Now(vendors[i]).vendor.id # Now(vendors[j]).vendor.id
  BY OrderableOffers
<1>3. i # j => \/ K!Compare(Now(vendors[i]), Now(vendors[j]))
               \/ K!Compare(Now(vendors[j]), Now(vendors[i]))
  BY <1>1, <1>2, CompareOrders
<1>4. ~K!Compare(Now(vendors[i]), Now(vendors[i]))
  BY <1>1, CompareOrders
<1>5. K!Compare(Now(vendors[i]), Now(vendors[j])) =>
        ~(K!Compare(Now(vendors[j]), Now(vendors[i])))
  BY <1>1, <1>4, CompareOrders
<1>6. i \in Int /\ j \in Int
  BY OrderableOffers, VendorsAreVendors
<1>7. K!Ahead(i, j, day, minute) <=>
        \/ K!Compare(Now(vendors[i]), Now(vendors[j]))
        \/ ~K!Compare(Now(vendors[j]), Now(vendors[i])) /\ i < j
  BY DEF K!Ahead, Now
<1> QED
  BY <1>3, <1>4, <1>5, <1>6, <1>7

AheadPairs == {p \in Orderable \X Orderable : K!Ahead(p[1], p[2], day, minute)}

LEMMA AheadOrders ==
    ASSUME RowIInv, NEW kept, kept \subseteq Orderable
    PROVE  Orders(kept, AheadPairs)
<1>1. \A i, j \in Orderable : <<i, j>> \in AheadPairs <=>
         i # j /\ K!Compare(Now(vendors[i]), Now(vendors[j]))
  BY AheadIsCompare DEF AheadPairs
<1>2. \A i \in Orderable : IsOffer(Now(vendors[i]))
  BY OrderableOffers
<1>3. \A i, j \in Orderable : i # j => Now(vendors[i]).vendor.id # Now(vendors[j]).vendor.id
  BY OrderableOffers
<1>4. ASSUME NEW i \in Orderable, NEW j \in Orderable, NEW k \in Orderable,
             <<i, j>> \in AheadPairs, <<j, k>> \in AheadPairs
      PROVE  <<i, k>> \in AheadPairs
  <2>1. K!Compare(Now(vendors[i]), Now(vendors[j])) /\ K!Compare(Now(vendors[j]), Now(vendors[k]))
    BY <1>1, <1>4
  <2>2. K!Compare(Now(vendors[i]), Now(vendors[k]))
    BY <1>2, <2>1, CompareOrders
  <2>3. i # k
    BY <1>2, <2>2, CompareOrders
  <2> QED
    BY <1>1, <2>2, <2>3
<1>5. \A i, j \in Orderable : i # j => <<i, j>> \in AheadPairs \/ <<j, i>> \in AheadPairs
  BY <1>1, <1>2, <1>3, CompareOrders
<1>6. \A i \in Orderable : <<i, i>> \notin AheadPairs
  BY <1>1
<1> QED
  BY <1>4, <1>5, <1>6 DEF Orders

\* Of what is ahead of an offer and of its brand, there is a first, and it is kept.
LEMMA BestIsKept ==
    ASSUME RowIInv, NEW i \in Orderable
    PROVE  \E k \in K!FirstOfBrand(day, minute) :
              /\ vendors[k].brand = vendors[i].brand
              /\ k = i \/ K!Compare(Now(vendors[k]), Now(vendors[i]))
<1> DEFINE branches == {k \in Orderable : /\ vendors[k].brand = vendors[i].brand
                                          /\ k = i \/ <<k, i>> \in AheadPairs}
           ranks == {Rank(Orderable, AheadPairs, k) : k \in branches}
<1>1. Orders(Orderable, AheadPairs) /\ IsFiniteSet(Orderable)
  BY AheadOrders, OrderableOffers
<1>2. /\ Cardinality(Orderable) \in Nat
      /\ \A k \in Orderable : Rank(Orderable, AheadPairs, k) \in 0..(Cardinality(Orderable) - 1)
      /\ \A j, k \in Orderable :
            <<j, k>> \in AheadPairs => Rank(Orderable, AheadPairs, j) < Rank(Orderable, AheadPairs, k)
  BY <1>1, RanksAreFilled
<1>3. \A k \in Orderable : Rank(Orderable, AheadPairs, k) \in Nat
  BY <1>2
<1>4. ranks \subseteq Nat /\ ranks # {}
  <2>1. i \in branches
    OBVIOUS
  <2> QED
    BY <1>3, <2>1
<1>5. PICK least \in ranks : \A rank \in ranks : least <= rank
  <2> HIDE DEF ranks
  <2> QED
    BY <1>4, LeastNumber
<1>6. PICK k \in branches : least = Rank(Orderable, AheadPairs, k)
  OBVIOUS
<1>7. \A j \in branches : Rank(Orderable, AheadPairs, k) <= Rank(Orderable, AheadPairs, j)
  BY <1>5, <1>6
<1>8. ASSUME NEW j \in Orderable, vendors[j].brand = vendors[k].brand, <<j, k>> \in AheadPairs
      PROVE  FALSE
  <2>1. k \in Orderable /\ vendors[j].brand = vendors[i].brand
    BY <1>8
  <2>2. <<j, i>> \in AheadPairs
    <3>1. k = i \/ <<k, i>> \in AheadPairs
      OBVIOUS
    <3> QED
      BY <1>1, <1>8, <2>1, <3>1 DEF Orders
  <2>3. j \in branches
    BY <2>1, <2>2
  <2>4. Rank(Orderable, AheadPairs, j) < Rank(Orderable, AheadPairs, k)
    BY <1>2, <1>8, <2>1
  <2> HIDE DEF branches
  <2> QED
    BY <1>3, <1>7, <2>1, <2>3, <2>4
<1>9. \A j, l \in Orderable : <<j, l>> \in AheadPairs <=> K!Ahead(j, l, day, minute)
  BY DEF AheadPairs
<1>10. k \in K!FirstOfBrand(day, minute)
  BY <1>8, <1>9 DEF K!FirstOfBrand, Orderable
<1>11. <<k, i>> \in AheadPairs => K!Compare(Now(vendors[k]), Now(vendors[i]))
  BY <1>9, AheadIsCompare
<1> QED
  BY <1>10, <1>11

\* The row: the best branch of each brand, whoever compares ahead first.
LEMMA RowIsArranged ==
    ASSUME RowIInv
    PROVE  LET ranked == K!rankOffers
               kept == K!FirstOfBrand(day, minute)
           IN /\ \A n \in DOMAIN ranked : \E i \in kept : ranked[n] = Now(vendors[i])
              /\ \A m, n \in DOMAIN ranked : m < n => K!Compare(ranked[m], ranked[n])
              /\ \A i \in kept : \E n \in DOMAIN ranked : ranked[n] = Now(vendors[i])
<1> DEFINE kept == K!FirstOfBrand(day, minute)
           order == K!Sorted(kept, day, minute)
           ranked == K!rankOffers
<1>1. kept \subseteq Orderable
  BY DEF K!FirstOfBrand, Orderable
<1>2. IsFiniteSet(kept) /\ Orders(kept, AheadPairs)
  <2> HIDE DEF kept
  <2> QED
    BY <1>1, OrderableOffers, AheadOrders, FS_Subset
<1>3. \A set : K!Cardinality(set) = Cardinality(set)
  BY DEF K!Cardinality, Cardinality
<1> HIDE DEF kept
<1>4. order = [n \in 1..Cardinality(kept) |->
                 CHOOSE i \in kept : K!Cardinality({j \in kept : K!Ahead(j, i, day, minute)}) = n - 1]
  BY <1>3 DEF K!Sorted
<1>5. DOMAIN order = 1..Cardinality(kept)
  BY <1>4
<1>6. \A i \in kept :
         K!Cardinality({j \in kept : K!Ahead(j, i, day, minute)}) = Rank(kept, AheadPairs, i)
  <2> TAKE i \in kept
  <2>1. {j \in kept : K!Ahead(j, i, day, minute)} = {j \in kept : <<j, i>> \in AheadPairs}
    BY <1>1 DEF AheadPairs
  <2> QED
    BY <1>3, <2>1 DEF Rank
<1>7. ASSUME NEW n \in DOMAIN order, NEW i \in kept, Rank(kept, AheadPairs, i) = n - 1
      PROVE  order[n] \in kept /\ Rank(kept, AheadPairs, order[n]) = n - 1
  <2>1. order[n] =
          CHOOSE j \in kept : K!Cardinality({l \in kept : K!Ahead(l, j, day, minute)}) = n - 1
    BY <1>4
  <2>2. K!Cardinality({l \in kept : K!Ahead(l, i, day, minute)}) = n - 1
    BY <1>6, <1>7
  <2> HIDE DEF order
  <2>3. /\ order[n] \in kept
        /\ K!Cardinality({l \in kept : K!Ahead(l, order[n], day, minute)}) = n - 1
    BY <2>1, <2>2
  <2> QED
    BY <1>6, <2>3
<1>8. /\ \A n \in DOMAIN order : order[n] \in kept
      /\ \A m, n \in DOMAIN order : m < n => <<order[m], order[n]>> \in AheadPairs
      /\ \A i \in kept : \E n \in DOMAIN order : order[n] = i
  <2>1. Arranges(kept, AheadPairs, order)
    <3> HIDE DEF order
    <3> QED
      BY <1>5, <1>7 DEF Arranges
  <2> HIDE DEF order
  <2> QED
    BY <1>2, <2>1, RanksArrange
<1>9. ranked = [n \in DOMAIN order |-> Now(vendors[order[n]])]
  BY DEF K!rankOffers, Now, kept
<1> HIDE DEF order, ranked
<1>10. ASSUME NEW m \in DOMAIN order, NEW n \in DOMAIN order, m < n
       PROVE  K!Compare(Now(vendors[order[m]]), Now(vendors[order[n]]))
  <2>1. <<order[m], order[n]>> \in AheadPairs
    BY <1>8, <1>10
  <2>2. /\ order[m] \in Orderable /\ order[n] \in Orderable
        /\ K!Ahead(order[m], order[n], day, minute)
    BY <2>1 DEF AheadPairs
  <2> QED
    BY <2>2, AheadIsCompare
<1>11. DOMAIN ranked = DOMAIN order /\ \A n \in DOMAIN order : ranked[n] = Now(vendors[order[n]])
  BY <1>9
<1> QED
  BY <1>8, <1>10, <1>11 DEF ranked, kept

\* Of hours that say the same of two days in a row, or end before midnight, open is what the week
\* says.
LEMMA OpenIsByTheWeek ==
    ASSUME NEW v, K!IsVendor(v), NEW d \in K!WeekDays, NEW m \in K!Minutes,
           K!Plain(v), v.hours[d].kind = "stated", ~v.paused
    PROVE  K!openState(v, d, m).open = K!OpenByTheWeek(v, d, m)
<1> DEFINE h == v.hours[d]
           night == v.hours[K!Yesterday(d)]
<1>1. K!Yesterday(d) \in K!WeekDays
  BY DaysGoRound
<1>2. DayLength \in Nat
  BY RankingAssumption DEF K!OfferRankingAssumption
<1>3. v.hours \in [K!WeekDays -> K!Hours]
  BY DEF K!IsVendor
<1>4. h \in K!Hours /\ night \in K!Hours
  BY <1>1, <1>3
<1>5. /\ h.opening \in Int /\ night.opening \in Int
      /\ K!Closing(h) \in Int /\ K!Closing(night) \in Int /\ m \in Int
  <2> HIDE DEF h, night
  <2> QED
    BY <1>2, <1>4 DEF K!Hours, K!Closing, K!Minutes
<1>6. /\ K!Closing(h) < h.opening => night = h
      /\ night.kind = "stated" /\ K!Closing(night) < night.opening => h = night
  BY <1>1 DEF K!Plain
<1>7. K!openState(v, d, m) =
        IF h.opening = K!Closing(h) \/ K!Within(h, m) THEN K!Open
        ELSE IF m < h.opening THEN K!Later ELSE K!Shut
  BY DEF K!openState
<1>8. K!Open.open = TRUE /\ K!Later.open = FALSE /\ K!Shut.open = FALSE
  BY DEF K!Open, K!Later, K!Shut
<1>9. /\ K!openState(v, d, m).open \in BOOLEAN
      /\ K!openState(v, d, m).open = TRUE <=> h.opening = K!Closing(h) \/ K!Within(h, m)
  BY <1>7, <1>8
<1>10. K!OpenByTheWeek(v, d, m) <=>
          \/ h.opening = K!Closing(h)
          \/ h.opening <= m /\ (K!Closing(h) > h.opening => m < K!Closing(h))
          \/ night.kind = "stated" /\ K!Closing(night) < night.opening /\ m < K!Closing(night)
  BY DEF K!OpenByTheWeek
<1>11. K!Within(h, m) <=> IF K!Closing(h) > h.opening THEN h.opening <= m /\ m < K!Closing(h)
                          ELSE h.opening <= m \/ m < K!Closing(h)
  BY DEF K!Within
<1>12. h.kind = "stated"
  OBVIOUS
<1> HIDE DEF h, night
<1>13. K!openState(v, d, m).open = TRUE <=> K!OpenByTheWeek(v, d, m)
  <2>1. CASE h.opening = K!Closing(h)
    BY <1>9, <1>10, <2>1
  <2>2. CASE K!Closing(h) > h.opening
    BY <1>5, <1>6, <1>9, <1>10, <1>11, <2>2
  <2>3. CASE K!Closing(h) < h.opening
    BY <1>5, <1>6, <1>9, <1>10, <1>11, <1>12, <2>3
  <2>4. h.opening = K!Closing(h) \/ K!Closing(h) > h.opening \/ K!Closing(h) < h.opening
    BY <1>5
  <2> QED
    BY <2>1, <2>2, <2>3, <2>4
<1>14. K!OpenByTheWeek(v, d, m) \in BOOLEAN
  BY DEF K!OpenByTheWeek
<1> QED
  BY <1>9, <1>13, <1>14

\* What a cook is shown (chowdeck.offers.ts:378-418), whatever restaurants there are and in
\* whatever order they came: nobody is behind a worse one, each brand is there once, by its best
\* branch, and whoever is open by plain hours is shown as open.
THEOREM RowIsInOrder == K!Spec => []RowIsRight
<1> DEFINE ranked == K!rankOffers
           all == K!ToSet(vendors)
           shown == {ranked[i].vendor : i \in DOMAIN ranked}
           orderable == {v \in all : K!Stocked(v) # {} /\ K!openState(v, day, minute) # K!Shut}
           kept == K!FirstOfBrand(day, minute)
<1>1. ASSUME RowIInv PROVE RowIsRight
  <2> USE <1>1
  <2>1. /\ \A n \in DOMAIN ranked : \E i \in kept : ranked[n] = Now(vendors[i])
        /\ \A i, j \in DOMAIN ranked : i < j => K!Compare(ranked[i], ranked[j])
        /\ \A i \in kept : \E n \in DOMAIN ranked : ranked[n] = Now(vendors[i])
    BY RowIsArranged
  <2>2. kept \subseteq Orderable
    BY DEF K!FirstOfBrand, Orderable
  <2>3. \A i \in Orderable : Now(vendors[i]).vendor = vendors[i]
    BY OrderableOffers
  <2>4. \A v, w : K!Beats(v, w) <=> K!Compare(Now(v), Now(w))
    BY DEF K!Beats, Now
  <2>5. all = {vendors[i] : i \in DOMAIN vendors}
    BY DEF K!ToSet
  <2>6. \A v \in orderable : \E i \in Orderable : v = vendors[i]
    BY <2>5 DEF Orderable, K!Scored
  <2>7. \A v \in shown : \E i \in kept : v = vendors[i]
    <3> HIDE DEF ranked, kept
    <3> QED
      BY <2>1, <2>2, <2>3
  <2>8. \A i \in kept : vendors[i] \in shown
    <3> HIDE DEF ranked, kept
    <3> QED
      BY <2>1, <2>2, <2>3
  <2>9. \A n \in DOMAIN ranked : ranked[n] = Now(ranked[n].vendor)
    <3> HIDE DEF ranked, kept
    <3> QED
      BY <2>1, <2>2, <2>3
  <2>10. /\ \A i \in DOMAIN vendors : K!IsVendor(vendors[i])
         /\ day \in K!WeekDays /\ minute \in K!Minutes /\ Orderable \subseteq DOMAIN vendors
    BY VendorsAreVendors, OrderableOffers
  <2>11. \A i, j \in DOMAIN ranked : i < j => K!Beats(ranked[i].vendor, ranked[j].vendor)
    <3> HIDE DEF ranked, kept
    <3> QED
      BY <2>1, <2>4, <2>9
  <2>12. ASSUME NEW v \in orderable
         PROVE  \E w \in shown : w.brand = v.brand /\ (w = v \/ K!Beats(w, v))
    <3>1. PICK i \in Orderable : v = vendors[i]
      BY <2>6
    <3>2. PICK k \in kept : /\ vendors[k].brand = vendors[i].brand
                            /\ k = i \/ K!Compare(Now(vendors[k]), Now(vendors[i]))
      BY BestIsKept
    <3>3. vendors[k] \in shown
      BY <2>8
    <3> HIDE DEF shown, orderable, kept
    <3> QED
      BY <2>4, <3>1, <3>2, <3>3
  <2>13. ASSUME NEW v \in shown, NEW w \in shown, v.brand = w.brand PROVE v = w
    <3>1. PICK i \in kept : v = vendors[i]
      BY <2>7
    <3>2. PICK j \in kept : w = vendors[j]
      BY <2>7
    <3>3. i \in Orderable /\ j \in Orderable
      BY <2>2
    <3>4. ~K!Ahead(i, j, day, minute) /\ ~K!Ahead(j, i, day, minute)
      BY <2>13, <3>1, <3>2, <3>3 DEF K!FirstOfBrand, Orderable
    <3>5. <<i, j>> \notin AheadPairs /\ <<j, i>> \notin AheadPairs
      BY <3>4 DEF AheadPairs
    <3>6. i = j
      BY <3>3, <3>5, AheadOrders DEF Orders
    <3> QED
      BY <3>1, <3>2, <3>6
  <2>14. ASSUME NEW n \in DOMAIN ranked, K!Plain(ranked[n].vendor),
                ranked[n].vendor.hours[day].kind = "stated"
         PROVE  ranked[n].state.open = K!OpenByTheWeek(ranked[n].vendor, day, minute)
    <3> DEFINE v == ranked[n].vendor
    <3>1. PICK i \in kept : v = vendors[i]
      BY <2>7
    <3>2. K!IsVendor(v) /\ K!openState(v, day, minute) # K!Shut
      BY <2>2, <2>10, <3>1 DEF Orderable, K!Scored
    <3>3. ~v.paused
      BY <3>2 DEF K!openState
    <3>4. ranked[n] = Now(v)
      BY <2>9
    <3> HIDE DEF v
    <3>5. ranked[n].state = K!openState(v, day, minute)
      BY <3>4 DEF Now, K!Offer
    <3>6. K!Plain(v) /\ v.hours[day].kind = "stated"
      BY <2>14 DEF v
    <3>7. ranked[n].state.open = K!OpenByTheWeek(v, day, minute)
      BY <2>10, <3>2, <3>3, <3>5, <3>6, OpenIsByTheWeek
    <3> QED
      BY <3>7 DEF v
  <2>15. ASSUME NEW v \in all \ orderable, K!Plain(v), K!Stocked(v) # {}, ~v.paused,
                v.hours[day].kind = "stated"
         PROVE  ~K!OpenByTheWeek(v, day, minute)
    <3>1. K!openState(v, day, minute) = K!Shut
      BY <2>15
    <3>2. K!IsVendor(v)
      BY <2>5, <2>10
    <3>3. K!openState(v, day, minute).open = K!OpenByTheWeek(v, day, minute)
      BY <2>10, <2>15, <3>2, OpenIsByTheWeek
    <3>4. K!Shut.open = FALSE
      BY DEF K!Shut
    <3> QED
      BY <3>1, <3>3, <3>4
  <2> QED
    BY <2>11, <2>12, <2>13, <2>14, <2>15 DEF RowIsRight, K!RowIsRight
<1> QED
  BY <1>1, RowInit, RowKept, PTL DEF K!Spec

\* What a row is, said of which restaurants there are and not of where they stand in the answer.
KeptOf(set, d, m) ==
    LET offered == {v \in set : K!Stocked(v) # {} /\ K!openState(v, d, m) # K!Shut}
    IN {v \in offered : \A w \in offered :
           w.brand = v.brand => ~K!Compare(K!Offer(w, d, m), K!Offer(v, d, m))}

RowOf(list, set, d, m) ==
    /\ \E n \in Nat : list \in [1..n -> {K!Offer(v, d, m) : v \in KeptOf(set, d, m)}]
    /\ \A v \in KeptOf(set, d, m) : \E n \in DOMAIN list : list[n] = K!Offer(v, d, m)
    /\ \A i, j \in DOMAIN list : i < j => K!Compare(list[i], list[j])

LEMMA RowIsARow == RowIInv => RowOf(K!rankOffers, K!ToSet(vendors), day, minute)
<1> SUFFICES ASSUME RowIInv PROVE RowOf(K!rankOffers, K!ToSet(vendors), day, minute)
  OBVIOUS
<1> DEFINE list == K!rankOffers
           set == K!ToSet(vendors)
           kept == K!FirstOfBrand(day, minute)
           offered == {v \in set : K!Stocked(v) # {} /\ K!openState(v, day, minute) # K!Shut}
<1>1. /\ \A n \in DOMAIN list : \E i \in kept : list[n] = Now(vendors[i])
      /\ \A i, j \in DOMAIN list : i < j => K!Compare(list[i], list[j])
      /\ \A i \in kept : \E n \in DOMAIN list : list[n] = Now(vendors[i])
  BY RowIsArranged
<1>2. /\ set = {vendors[i] : i \in DOMAIN vendors}
      /\ Orderable \subseteq DOMAIN vendors
      /\ kept \subseteq Orderable
  BY OrderableOffers DEF K!ToSet, K!FirstOfBrand, Orderable
<1>3. offered = {vendors[i] : i \in Orderable}
  BY <1>2 DEF Orderable, K!Scored
<1>4. \A i, j \in Orderable : K!Ahead(i, j, day, minute) <=>
         i # j /\ K!Compare(Now(vendors[i]), Now(vendors[j]))
  BY AheadIsCompare
<1>5. \A i \in Orderable : ~K!Compare(Now(vendors[i]), Now(vendors[i]))
  BY OrderableOffers, CompareOrders
<1>6. \A i \in Orderable : i \in kept <=>
         \A j \in Orderable : vendors[j].brand = vendors[i].brand =>
            ~K!Compare(Now(vendors[j]), Now(vendors[i]))
  BY <1>4, <1>5 DEF K!FirstOfBrand, Orderable
<1>7. KeptOf(set, day, minute) = {vendors[i] : i \in kept}
  <2>1. KeptOf(set, day, minute) =
           {v \in offered : \A w \in offered : w.brand = v.brand => ~K!Compare(Now(w), Now(v))}
    BY DEF KeptOf, Now
  <2> HIDE DEF offered, kept
  <2>2. ASSUME NEW v \in KeptOf(set, day, minute) PROVE \E i \in kept : v = vendors[i]
    <3>1. PICK i \in Orderable : v = vendors[i]
      BY <1>3, <2>1
    <3>2. \A j \in Orderable : vendors[j].brand = vendors[i].brand =>
             ~K!Compare(Now(vendors[j]), Now(vendors[i]))
      BY <1>3, <2>1, <3>1
    <3> QED
      BY <1>6, <3>1, <3>2
  <2>3. ASSUME NEW i \in kept PROVE vendors[i] \in KeptOf(set, day, minute)
    <3>1. i \in Orderable /\ vendors[i] \in offered
      BY <1>2, <1>3
    <3>2. \A w \in offered : w.brand = vendors[i].brand => ~K!Compare(Now(w), Now(vendors[i]))
      BY <1>3, <1>6, <3>1
    <3> QED
      BY <2>1, <3>1, <3>2
  <2> QED
    BY <2>2, <2>3
<1>8. \E n \in Nat : list \in [1..n -> {Now(v) : v \in KeptOf(set, day, minute)}]
  <2> DEFINE order == K!Sorted(kept, day, minute)
  <2>1. list = [n \in DOMAIN order |-> Now(vendors[order[n]])]
    BY DEF K!rankOffers, Now
  <2>2. DOMAIN order = 1..K!Cardinality(kept)
    BY DEF K!Sorted
  <2>3. K!Cardinality(kept) = Cardinality(kept)
    BY DEF K!Cardinality, Cardinality
  <2>4. Cardinality(kept) \in Nat
    <3> HIDE DEF kept
    <3> QED
      BY <1>2, OrderableOffers, FS_Subset, FS_CardinalityType
  <2> HIDE DEF order, kept
  <2>5. DOMAIN list = 1..Cardinality(kept) /\ list = [n \in 1..Cardinality(kept) |-> list[n]]
    BY <2>1, <2>2, <2>3
  <2> HIDE DEF list
  <2>6. \A n \in 1..Cardinality(kept) : list[n] \in {Now(v) : v \in KeptOf(set, day, minute)}
    BY <1>1, <1>7, <2>5
  <2> QED
    BY <2>4, <2>5, <2>6
<1> HIDE DEF list, set, kept
<1>9. \A v \in KeptOf(set, day, minute) : \E n \in DOMAIN list : list[n] = Now(v)
  BY <1>1, <1>7
<1> QED
  BY <1>1, <1>8, <1>9 DEF RowOf, Now, list, set

\* Where one row goes on that agrees with another so far, so does the other, with the same or with
\* what compares ahead.
LEMMA RowsGoOn ==
    ASSUME NEW set, NEW d, NEW m, \A v \in KeptOf(set, d, m) : IsOffer(K!Offer(v, d, m)),
           NEW one, NEW other, RowOf(one, set, d, m), RowOf(other, set, d, m),
           NEW i \in DOMAIN one,
           \A j \in DOMAIN one : j < i => j \in DOMAIN other /\ one[j] = other[j]
    PROVE  i \in DOMAIN other /\ (one[i] # other[i] => K!Compare(other[i], one[i]))
<1>1. PICK n \in Nat : one \in [1..n -> {K!Offer(v, d, m) : v \in KeptOf(set, d, m)}]
  BY DEF RowOf
<1>2. PICK l \in Nat : other \in [1..l -> {K!Offer(v, d, m) : v \in KeptOf(set, d, m)}]
  BY DEF RowOf
<1>3. DOMAIN one = 1..n /\ DOMAIN other = 1..l
  BY <1>1, <1>2
<1>4. PICK v \in KeptOf(set, d, m) : one[i] = K!Offer(v, d, m)
  BY <1>1, <1>3
<1>5. PICK k \in DOMAIN other : other[k] = one[i]
  BY <1>4 DEF RowOf
<1>6. ~K!Compare(one[i], one[i])
  BY <1>4, CompareOrders
<1>7. ~(k < i)
  <2> SUFFICES ASSUME k < i PROVE FALSE
    OBVIOUS
  <2>1. k \in DOMAIN one
    BY <1>3
  <2>2. one[k] = one[i]
    BY <1>5, <2>1
  <2>3. K!Compare(one[k], one[i])
    BY <2>1 DEF RowOf
  <2> QED
    BY <1>6, <2>2, <2>3
<1>8. i \in DOMAIN other
  BY <1>3, <1>7
<1>9. ASSUME i # k PROVE K!Compare(other[i], one[i])
  <2>1. i < k
    BY <1>3, <1>7, <1>9
  <2>2. K!Compare(other[i], other[k])
    BY <1>8, <2>1 DEF RowOf
  <2> QED
    BY <1>5, <2>2
<1> QED
  BY <1>5, <1>8, <1>9

LEMMA RowsAgree ==
    ASSUME NEW set, NEW d, NEW m, \A v \in KeptOf(set, d, m) : IsOffer(K!Offer(v, d, m)),
           NEW one, NEW other, RowOf(one, set, d, m), RowOf(other, set, d, m)
    PROVE  one = other
<1>1. PICK n \in Nat : one \in [1..n -> {K!Offer(v, d, m) : v \in KeptOf(set, d, m)}]
  BY DEF RowOf
<1>2. PICK l \in Nat : other \in [1..l -> {K!Offer(v, d, m) : v \in KeptOf(set, d, m)}]
  BY DEF RowOf
<1>3. DOMAIN one = 1..n /\ DOMAIN other = 1..l
  BY <1>1, <1>2
<1> DEFINE apart == {i \in DOMAIN one \cup DOMAIN other :
                        ~(i \in DOMAIN one /\ i \in DOMAIN other /\ one[i] = other[i])}
<1>4. CASE apart = {}
  <2>1. \A i \in 1..n : i \in 1..l /\ one[i] = other[i]
    BY <1>3, <1>4
  <2>2. \A i \in 1..l : i \in 1..n
    BY <1>3, <1>4
  <2>3. n = l
    <3>1. n > 0 => n \in 1..n
      OBVIOUS
    <3>2. l > 0 => l \in 1..l
      OBVIOUS
    <3>3. n > 0 => n <= l
      BY <2>1, <3>1
    <3>4. l > 0 => l <= n
      BY <2>2, <3>2
    <3> QED
      BY <3>3, <3>4
  <2> QED
    BY <1>1, <1>2, <2>1, <2>3
<1>5. CASE apart # {}
  <2>1. apart \subseteq Nat
    BY <1>3
  <2>2. PICK i \in apart : \A j \in apart : i <= j
    <3> HIDE DEF apart
    <3> QED
      BY <1>5, <2>1, LeastNumber
  <2>3. i \in 1..n \/ i \in 1..l
    BY <1>3
  <2>4. ASSUME NEW j \in 1..n \cup 1..l, j < i
        PROVE  j \in DOMAIN one /\ j \in DOMAIN other /\ one[j] = other[j]
    <3>1. j \notin apart
      BY <2>2, <2>3, <2>4
    <3> QED
      BY <1>3, <2>4, <3>1
  <2>5. i \in DOMAIN one => i \in DOMAIN other /\ (one[i] # other[i] => K!Compare(other[i], one[i]))
    BY <1>3, <2>4, RowsGoOn
  <2>6. i \in DOMAIN other => i \in DOMAIN one /\ (other[i] # one[i] => K!Compare(one[i], other[i]))
    BY <1>3, <2>4, RowsGoOn
  <2>7. i \in DOMAIN one /\ i \in DOMAIN other /\ one[i] # other[i]
    BY <1>3, <2>3, <2>5, <2>6
  <2>8. K!Compare(other[i], one[i]) /\ K!Compare(one[i], other[i])
    BY <2>5, <2>6, <2>7
  <2>9. IsOffer(one[i]) /\ IsOffer(other[i])
    <3>1. /\ \E v \in KeptOf(set, d, m) : one[i] = K!Offer(v, d, m)
          /\ \E v \in KeptOf(set, d, m) : other[i] = K!Offer(v, d, m)
      BY <1>1, <1>2, <1>3, <2>7
    <3> QED
      BY <3>1
  <2> QED
    BY <2>8, <2>9, CompareOrders
<1> QED
  BY <1>4, <1>5

\* "Deterministic, so a refresh does not reshuffle the row" (chowdeck.offers.ts:375): an answer with
\* the same restaurants, whatever their order, is the same row.
THEOREM RefreshKeepsTheRow == K!Spec => K!NotReshuffled
<1>1. RowIInv /\ [K!Next]_(K!vars) => RowIInv'
  BY RowKept
<1>2. RowIInv' => RowOf(K!rankOffers, K!ToSet(vendors), day, minute)'
  BY RowIsARow, PTL
<1>3. ASSUME RowIInv, RowIInv', K!ToSet(vendors') = K!ToSet(vendors), UNCHANGED <<day, minute>>
      PROVE  K!rankOffers' = K!rankOffers
  <2>1. RowOf(K!rankOffers, K!ToSet(vendors), day, minute)
    BY <1>3, RowIsARow
  <2>2. RowOf(K!rankOffers', K!ToSet(vendors), day, minute)
    BY <1>2, <1>3
  <2>3. \A v \in KeptOf(K!ToSet(vendors), day, minute) : IsOffer(K!Offer(v, day, minute))
    <3>1. \A v \in K!ToSet(vendors) : K!IsVendor(v)
      BY <1>3, VendorsAreVendors DEF K!ToSet
    <3>2. day \in K!WeekDays
      BY <1>3, VendorsAreVendors
    <3> QED
      BY <3>1, <3>2, OffersAreOffers DEF KeptOf
  <2> QED
    BY <2>1, <2>2, <2>3, RowsAgree
<1>4. RowIInv /\ [K!Next]_(K!vars) =>
        [K!ToSet(vendors') = K!ToSet(vendors) /\ UNCHANGED <<day, minute>> =>
            K!rankOffers' = K!rankOffers]_(K!vars)
  BY <1>1, <1>3
<1> QED
  BY <1>4, RowInit, RowKept, PTL DEF K!Spec, K!NotReshuffled

-------------------------------------------------------------------------------
(* The parts together.                                                     *)

\* Putting the parts behind one choice adds no step to any of them: what the process does is, to
\* each part, its own steps or none, so that every theorem above holds of the whole.
THEOREM WholeIsItsParts ==
    CachesSpec =>
        Spec /\ O!FairSpec /\ F!Spec /\ T!Spec /\ P!Spec /\ W!Spec /\ K!Spec /\ R!Spec
<1> DEFINE all == <<looking, vars, offersVars, rankingVars, flagsVars, tuningVars, providerVars, weekVars, recipesVars>>
<1>1. CachesInit => Init /\ O!Init /\ K!Init /\ F!Init /\ T!Init /\ P!Init /\ W!Init /\ R!Init
  BY DEF CachesInit
<1>2. ASSUME [CachesNext]_all
      PROVE  /\ Next \/ UNCHANGED vars
             /\ O!Next \/ UNCHANGED offersVars
             /\ K!Next \/ UNCHANGED rankingVars
             /\ F!Next \/ UNCHANGED flagsVars
             /\ T!Next \/ UNCHANGED tuningVars
             /\ P!Next \/ UNCHANGED providerVars
             /\ W!Next \/ UNCHANGED weekVars
             /\ R!Next \/ UNCHANGED recipesVars
  <2>1. CASE CachesNext
    BY <2>1, Zenon DEF CachesNext, Rest
  <2>2. CASE UNCHANGED all
    BY <2>2
  <2> QED
    BY <1>2, <2>1, <2>2
<1>3. /\ UNCHANGED offersVars => UNCHANGED O!vars
      /\ UNCHANGED rankingVars => UNCHANGED K!vars
      /\ UNCHANGED flagsVars => UNCHANGED F!vars
      /\ UNCHANGED tuningVars => UNCHANGED T!vars
      /\ UNCHANGED providerVars => UNCHANGED P!vars
      /\ UNCHANGED weekVars => UNCHANGED W!vars
      /\ UNCHANGED recipesVars => UNCHANGED R!vars
  <2>1. UNCHANGED offersVars => UNCHANGED O!vars
    BY DEF offersVars, O!vars, O!spent
  <2>2. UNCHANGED rankingVars => UNCHANGED K!vars
    BY DEF rankingVars, K!vars
  <2>3. UNCHANGED flagsVars => UNCHANGED F!vars
    BY DEF flagsVars, F!vars
  <2>4. UNCHANGED tuningVars => UNCHANGED T!vars
    BY DEF tuningVars, T!vars
  <2>5. UNCHANGED providerVars => UNCHANGED P!vars
    BY DEF providerVars, P!vars
  <2>6. UNCHANGED weekVars => UNCHANGED W!vars
    BY DEF weekVars, W!vars
  <2>7. UNCHANGED recipesVars => UNCHANGED R!vars
    BY DEF recipesVars, R!vars, R!history
  <2> QED
    BY <2>1, <2>2, <2>3, <2>4, <2>5, <2>6, <2>7
<1>4. [CachesNext]_all =>
         /\ [Next]_vars /\ [O!Next]_(O!vars) /\ [K!Next]_(K!vars) /\ [F!Next]_(F!vars)
         /\ [T!Next]_(T!vars) /\ [P!Next]_(P!vars) /\ [W!Next]_(W!vars) /\ [R!Next]_(R!vars)
  BY <1>2, <1>3
<1> QED
  BY <1>1, <1>4, PTL DEF CachesSpec, Spec, O!Spec, K!Spec, F!Spec, T!Spec, P!Spec, W!Spec, R!Spec, O!FairSpec
=============================================================================
