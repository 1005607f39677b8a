---------------------------- MODULE ChowdeckPlaces ----------------------------
(***************************************************************************)
(* The places a cook may choose (chowdeck_places): the import of the       *)
(* default list, which the first search of an empty table queues by        *)
(* itself, the import a person asks for, and what a person saves, hides or *)
(* deletes (chowdeck.jobs.ts, chowdeck.admin.service.ts).                  *)
(*                                                                         *)
(* Which place Chowdeck answers a seed with is a choice: two seeds may     *)
(* come back as one place, and two places may have one name.               *)
(***************************************************************************)
EXTENDS Integers, FiniteSets

CONSTANTS
    Places, NameOf,  \* what Chowdeck knows
    NSeeds,          \* the length of the list that is imported
    Searches,        \* searches of places that check the table at once
    MaxImports,      \* bound: import jobs
    MaxEdits,        \* bound: what people save, hide and delete
    MaxFaults        \* bound: restarts and reads that fail

Imports == 1..MaxImports
NoPlace == "none"

PlacesAssumption ==
    /\ NSeeds \in Nat /\ MaxImports \in Nat /\ MaxEdits \in Nat /\ MaxFaults \in Nat
    /\ NoPlace \notin Places

VARIABLES
    fetchOn,   \* the flag `chowdeck_fetch`
    places,    \* chowdeck_places
    settled,   \* autoImportChecked
    searches,  \* where each check of the table is
    imports,   \* the import jobs
    queued,    \* how many there are
    edits, faults,  \* what has been spent of each bound
    raced      \* history: a search passed the flag while another was past it

spent == <<edits, faults>>
vars == <<fetchOn, places, settled, searches, imports, queued, spent, raced>>

(* `state` is NULL for a place saved by hand, so its name is not compared. *)
Place == [saved : BOOLEAN, active : BOOLEAN, byHand : BOOLEAN]
Unsaved == [saved |-> FALSE, active |-> FALSE, byHand |-> FALSE]

(* `recent` is whether the job was queued within the last day.             *)
Import == [pc : {"none", "queued", "ask", "look", "create", "ended"}, at : 1..NSeeds + 1,
           top : Places \cup {NoPlace}, auto : BOOLEAN, recent : BOOLEAN]
NoImport == [pc |-> "none", at |-> 1, top |-> NoPlace, auto |-> FALSE, recent |-> FALSE]

Init ==
    /\ fetchOn \in BOOLEAN
    /\ places = [p \in Places |-> Unsaved]
    /\ settled = FALSE
    /\ searches = [s \in Searches |-> "idle"]
    /\ imports = [i \in Imports |-> NoImport]
    /\ queued = 0
    /\ edits = 0 /\ faults = 0
    /\ raced = FALSE

Enqueue(auto) ==
    /\ queued < MaxImports /\ queued' = queued + 1
    /\ imports' = [imports EXCEPT ![queued + 1] =
                     [NoImport EXCEPT !.pc = "queued", !.auto = auto, !.recent = TRUE]]

-------------------------------------------------------------------------------
(* ensurePlacesSeeded: a search that found nothing.                        *)

SearchTo(s, pc) == searches' = [searches EXCEPT ![s] = pc]

BeginSearch(s) ==
    /\ searches[s] = "idle" /\ ~settled
    /\ \A p \in Places : ~(places[p].saved /\ places[p].active)
    /\ SearchTo(s, "flag")
    /\ UNCHANGED <<fetchOn, places, settled, imports, queued, spent, raced>>

OthersPast == \E s \in Searches : searches[s] \in {"count", "recent", "enqueue"}

(* The answer is settled once the flag is on; whoever else waits for the   *)
(* flag is not told.                                                       *)
CheckFlag(s) ==
    /\ searches[s] = "flag"
    /\ IF fetchOn THEN SearchTo(s, "count") /\ settled' = TRUE /\ raced' = (raced \/ OthersPast)
                  ELSE SearchTo(s, "idle") /\ UNCHANGED <<settled, raced>>
    /\ UNCHANGED <<fetchOn, places, imports, queued, spent>>

CountPlaces(s) ==
    /\ searches[s] = "count"
    /\ SearchTo(s, IF \E p \in Places : places[p].saved THEN "idle" ELSE "recent")
    /\ UNCHANGED <<fetchOn, places, settled, imports, queued, spent, raced>>

(* An import that is over does not count.                                  *)
LookForUnderWay(s) ==
    /\ searches[s] = "recent"
    /\ SearchTo(s, IF \E i \in Imports : imports[i].auto /\ imports[i].pc \notin {"none", "ended"}
                     THEN "idle" ELSE "enqueue")
    /\ UNCHANGED <<fetchOn, places, settled, imports, queued, spent, raced>>

LookForRecent(s) ==
    /\ searches[s] = "recent"
    /\ SearchTo(s, IF \E i \in Imports : imports[i].recent THEN "idle" ELSE "enqueue")
    /\ UNCHANGED <<fetchOn, places, settled, imports, queued, spent, raced>>

QueueDefault(s) ==
    /\ searches[s] = "enqueue"
    /\ Enqueue(TRUE)
    /\ SearchTo(s, "idle")
    /\ UNCHANGED <<fetchOn, places, settled, spent, raced>>

(* A failed check must not stick.                                          *)
SearchThrows(s) ==
    /\ searches[s] # "idle"
    /\ faults < MaxFaults /\ faults' = faults + 1
    /\ SearchTo(s, "idle") /\ settled' = FALSE
    /\ UNCHANGED <<fetchOn, places, imports, queued, edits, raced>>

-------------------------------------------------------------------------------
(* runPlaceImport.                                                         *)

ImportTo(i, job) == imports' = [imports EXCEPT ![i] = job]

Advance(job) ==
    IF job.at < NSeeds THEN [job EXCEPT !.pc = "ask", !.at = @ + 1, !.top = NoPlace]
                       ELSE [job EXCEPT !.pc = "ended", !.top = NoPlace]

StartImport(i) ==
    /\ imports[i].pc = "queued"
    /\ ImportTo(i, [imports[i] EXCEPT !.pc = IF NSeeds = 0 THEN "ended" ELSE "ask"])
    /\ UNCHANGED <<fetchOn, places, settled, searches, queued, spent, raced>>

(* A cancel or a refusal ends it, a seed that failed or is nowhere is left *)
(* out.                                                                    *)
AskSeed(i) ==
    /\ imports[i].pc = "ask"
    /\ \/ ImportTo(i, [imports[i] EXCEPT !.pc = "ended"])
       \/ ImportTo(i, Advance(imports[i]))
       \/ \E p \in Places : ImportTo(i, [imports[i] EXCEPT !.pc = "look", !.top = p])
    /\ UNCHANGED <<fetchOn, places, settled, searches, queued, spent, raced>>

(* The id, or the name in the same state, which a place saved by hand does *)
(* not have.                                                               *)
Duplicate(p) ==
    \/ places[p].saved
    \/ \E q \in Places : places[q].saved /\ ~places[q].byHand /\ NameOf[q] = NameOf[p]

LookForDuplicate(i) ==
    /\ imports[i].pc = "look"
    /\ ImportTo(i, IF Duplicate(imports[i].top) THEN Advance(imports[i])
                   ELSE [imports[i] EXCEPT !.pc = "create"])
    /\ UNCHANGED <<fetchOn, places, settled, searches, queued, spent, raced>>

(* An id that is there by now is a duplicate key, which fails the job.     *)
CreatePlace(i) ==
    LET p == imports[i].top
    IN /\ imports[i].pc = "create"
       /\ IF places[p].saved
            THEN ImportTo(i, [imports[i] EXCEPT !.pc = "ended"]) /\ UNCHANGED places
            ELSE /\ ImportTo(i, Advance(imports[i]))
                 /\ places' = [places EXCEPT ![p] =
                      [saved |-> TRUE, active |-> TRUE, byHand |-> FALSE]]
       /\ UNCHANGED <<fetchOn, settled, searches, queued, spent, raced>>

-------------------------------------------------------------------------------
(* People, the clock and the process.                                      *)

Edit(change) ==
    /\ edits < MaxEdits /\ edits' = edits + 1
    /\ places' = change
    /\ UNCHANGED <<fetchOn, settled, searches, imports, queued, faults, raced>>

(* An upsert: active only when it is new.                                  *)
SavePlace(p) ==
    Edit([places EXCEPT ![p] =
            IF places[p].saved THEN @ ELSE [saved |-> TRUE, active |-> TRUE, byHand |-> TRUE]])

UpdatePlace(p) == places[p].saved /\ Edit([places EXCEPT ![p].active = ~@])

DeletePlaces(gone) ==
    /\ \E p \in gone : places[p].saved
    /\ Edit([p \in Places |-> IF p \in gone THEN Unsaved ELSE places[p]])

ImportPlaces ==
    /\ Enqueue(FALSE)
    /\ UNCHANGED <<fetchOn, places, settled, searches, spent, raced>>

ThrowSwitch ==
    /\ edits < MaxEdits /\ edits' = edits + 1
    /\ fetchOn' = ~fetchOn
    /\ UNCHANGED <<places, settled, searches, imports, queued, faults, raced>>

(* Nothing is looked for further back than a day.                          *)
DayPasses ==
    /\ \E i \in Imports : imports[i].recent
    /\ imports' = [i \in Imports |-> [imports[i] EXCEPT !.recent = FALSE]]
    /\ UNCHANGED <<fetchOn, places, settled, searches, queued, spent, raced>>

(* A job that was running is found by its lease and starts anew.           *)
Restart ==
    /\ faults < MaxFaults /\ faults' = faults + 1
    /\ settled' = FALSE
    /\ searches' = [s \in Searches |-> "idle"]
    /\ imports' = [i \in Imports |->
          IF imports[i].pc \in {"ask", "look", "create"}
            THEN [imports[i] EXCEPT !.pc = "queued", !.at = 1, !.top = NoPlace]
            ELSE imports[i]]
    /\ UNCHANGED <<fetchOn, places, queued, edits, raced>>

Checks(s) ==
    \/ BeginSearch(s) \/ CheckFlag(s) \/ CountPlaces(s)
    \/ LookForRecent(s) \/ QueueDefault(s) \/ SearchThrows(s)

Runs(i) == StartImport(i) \/ AskSeed(i) \/ LookForDuplicate(i) \/ CreatePlace(i)

People ==
    \/ \E p \in Places : SavePlace(p) \/ UpdatePlace(p)
    \/ \E gone \in SUBSET Places : DeletePlaces(gone)
    \/ ImportPlaces \/ ThrowSwitch

Next ==
    \/ \E s \in Searches : Checks(s)
    \/ \E i \in Imports : Runs(i)
    \/ People \/ DayPasses \/ Restart

Spec == Init /\ [][Next]_vars

-------------------------------------------------------------------------------
(* Properties.                                                             *)

TypeOK ==
    /\ fetchOn \in BOOLEAN /\ settled \in BOOLEAN /\ raced \in BOOLEAN
    /\ places \in [Places -> Place]
    /\ searches \in [Searches -> {"idle", "flag", "count", "recent", "enqueue"}]
    /\ imports \in [Imports -> Import] /\ queued \in 0..MaxImports
    /\ edits \in 0..MaxEdits /\ faults \in 0..MaxFaults

(* The default list is imported by itself once a day at most, over         *)
(* restarts, failed checks and imports of a person                         *)
(* (chowdeck.jobs.ts:236-265), unless a search passed the flag while       *)
(* another was between it and the queue.                                   *)
OneAutoImport ==
    ~raced => Cardinality({i \in Imports : imports[i].auto /\ imports[i].recent}) <= 1

(* "Imports the default places ONCE" (chowdeck.jobs.ts:223).               *)
ImportedOnce == Cardinality({i \in Imports : imports[i].auto /\ imports[i].recent}) <= 1
===============================================================================
