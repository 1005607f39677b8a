---------------------------- MODULE Background ----------------------------
(***************************************************************************)
(* What goes on behind the screens: the gate that every call to Chowdeck   *)
(* passes, the table of places, the streams of a job and of an Ask turn,   *)
(* the runs of an operator script and the images of a recipe, parts that   *)
(* share nothing but the process.  A behaviour is one of them, while the   *)
(* others rest in a first state.                                           *)
(***************************************************************************)
EXTENDS ChowdeckGate

\* The table of places.
CONSTANTS Places, NameOf, NSeeds, Searches, MaxImports, MaxEdits, MaxPlaceFaults

\* The streams of a job and of a turn.
CONSTANTS Streams, Workers, MaxClaims, MaxAsks, MaxStreamFaults
CONSTANTS MaxRead, Lifetime, MaxTime, MaxSettles

\* The runs of a script, and the images of a recipe.
CONSTANTS MaxRuns, Requests, MaxRetries, MaxCrashes
CONSTANTS MaxImages, MaxRecipeImages, Savers, MaxSaves

VARIABLES
    looking,
    switch, places, settled, searches, imports, queued, edits, placeFaults, raced,
    status, working, unsaid, ask, streams, told, claims, asks, streamFaults, late, hushed,
    state, held, payload, requests, retries, crashes, overlooked,
    beat, turn, stream, polls, pushed, settles, settledAt, openedAt, wroteAfter,
    images, primary, arrived, made, saves, opened, crossed

P == INSTANCE ChowdeckPlaces WITH
        MaxFaults <- MaxPlaceFaults, fetchOn <- switch, faults <- placeFaults

J == INSTANCE JobStream WITH MaxFaults <- MaxStreamFaults, faults <- streamFaults

A == INSTANCE TurnStream

R == INSTANCE Scripts WITH crossed <- overlooked

I == INSTANCE RecipeImages WITH
        Cap <- MaxRecipeImages, Calls <- Savers, MaxCalls <- MaxSaves,
        calls <- saves, begun <- opened

ASSUME PlacesAssumption == P!PlacesAssumption
ASSUME StreamAssumption == J!StreamAssumption
ASSUME TurnStreamAssumption == A!TurnStreamAssumption
ASSUME ScriptsAssumption == R!ScriptsAssumption
ASSUME ImagesAssumption == I!ImagesAssumption

placesVars == <<switch, places, settled, searches, imports, queued, edits, placeFaults, raced>>
streamVars == <<status, working, unsaid, ask, streams, told, claims, asks, streamFaults, late,
                hushed>>
turnVars == <<beat, turn, stream, polls, pushed, settles, settledAt, openedAt, wroteAfter>>
scriptVars == <<state, held, payload, requests, retries, crashes, overlooked>>
imageVars == <<images, primary, arrived, made, saves, opened, crossed>>

BackgroundInit ==
    /\ looking \in {"gate", "places", "stream", "turn", "scripts", "images"}
    /\ Init /\ P!Init /\ J!Init /\ A!Init /\ R!Init /\ I!Init
    /\ looking # "places" => ~switch
    /\ looking # "turn" => turn.status = "pending" /\ ~turn.text

Rest(part, partVars) == looking # part => UNCHANGED partVars

BackgroundNext ==
    /\ UNCHANGED looking
    /\ \/ looking = "gate" /\ Next
       \/ looking = "places" /\ P!Next
       \/ looking = "stream" /\ J!Next
       \/ looking = "turn" /\ A!Next
       \/ looking = "scripts" /\ R!Next
       \/ looking = "images" /\ I!Next
    /\ Rest("gate", vars) /\ Rest("places", placesVars) /\ Rest("stream", streamVars)
    /\ Rest("turn", turnVars) /\ Rest("scripts", scriptVars) /\ Rest("images", imageVars)

BackgroundSpec ==
    /\ BackgroundInit
    /\ [][BackgroundNext]_<<looking, vars, placesVars, streamVars, turnVars, scriptVars,
                            imageVars>>

(* Nobody waits for what was said and will not be said again: the end of a *)
(* job, and that of a turn.                                                *)
NobodyWaitsInVain == J!NobodyWaitsInVain /\ A!NobodyWaitsInVain

OneAutoImport == P!OneAutoImport
AppliedOnce == R!AppliedOnce
PrimaryStands == I!PrimaryStands
=============================================================================
