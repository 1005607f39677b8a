------------------------------- MODULE Caches -------------------------------
(***************************************************************************)
(* The caches in front of the database and of the model, of offers, of a   *)
(* flag, of the tuning of the ranking, of the provider of the mail and of  *)
(* the reading of a week; the row that is ranked from cached offers; the   *)
(* recipes and the trail of what staff do to them; and the chain of        *)
(* notification sweeps: parts that share nothing but the process.  A       *)
(* behaviour is one of them, while the others rest in their first states.  *)
(***************************************************************************)
EXTENDS Sweeps, Sequences

\* The offers.
CONSTANTS NKeys, Places, PlaceOf, Cooks, NFlights, MaxAsks, MaxFetches, MaxAnswers, MaxFaults

\* The flag, the tuning and the provider: each has a time to live, a time its database may take
\* over a read, and bounds.
CONSTANTS FailClosed, Readers, FlagsTTL, FlagsMaxRead, FlagsMaxTime, MaxSwitches
CONSTANTS TuningTTL, TuningMaxRead, TuningMaxTime, MaxTunings
CONSTANTS Processes, Sends, ProviderTTL, ProviderMaxTime, MaxChoices

\* The week, the restaurants, and the recipes.
CONSTANTS WeekJobs, MaxWeeks, MaxRefusals
CONSTANTS Vendors, MaxVendors, DayLength, NDays, Unknown
CONSTANTS Dishes, NRecipes, Calls, MaxCalls, MaxLapses

VARIABLES
    looking,
    places, clearing, rows, inFlight, flights, cooks, job, answers, called, asks, fetches, faults,
    flagsNow, row, cache, readers, dropping, switched, switches,
    now, tuning, tuned, load, saving, saved, failed,
    clock, chosen, known, looks, forgetting, chosenAt, choices,
    week, reading, asking, readingJobs, refusals,
    vendors, day, minute,
    recipes, trail, calls, begun, lapses, first, stale, unsaid

O == INSTANCE ChowdeckOffers WITH MaxJobs <- MaxFetches, jobs <- fetches

F == INSTANCE FlagsCache WITH
        TTL <- FlagsTTL, MaxRead <- FlagsMaxRead, MaxTime <- FlagsMaxTime, now <- flagsNow

T == INSTANCE TuningCache WITH
        TTL <- TuningTTL, MaxRead <- TuningMaxRead, MaxTime <- TuningMaxTime,
        MaxSaves <- MaxTunings

P == INSTANCE ProviderCache WITH TTL <- ProviderTTL, MaxTime <- ProviderMaxTime

W == INSTANCE WeekReading WITH
        Jobs <- WeekJobs, MaxFaults <- MaxRefusals, jobs <- readingJobs, faults <- refusals

K == INSTANCE OfferRanking

R == INSTANCE Recipes WITH MaxFaults <- MaxLapses, faults <- lapses

ASSUME RankingAssumption == K!OfferRankingAssumption
ASSUME RecipesAssumption == R!RecipesAssumption
ASSUME OffersAssumption == O!OffersAssumption
ASSUME FlagsAssumption == F!FlagsAssumption
ASSUME TuningAssumption == T!TuningAssumption
ASSUME ProviderAssumption == P!ProviderAssumption
ASSUME WeekAssumption == W!WeekAssumption

offersVars == <<places, clearing, rows, inFlight, flights, cooks, job, answers, called, asks,
                fetches, faults>>
flagsVars == <<flagsNow, row, cache, readers, dropping, switched, switches>>
tuningVars == <<now, tuning, tuned, load, saving, saved, failed>>
providerVars == <<clock, chosen, known, looks, forgetting, chosenAt, choices>>
weekVars == <<week, reading, asking, readingJobs, refusals>>

rankingVars == <<vendors, day, minute>>
recipesVars == <<recipes, trail, calls, begun, lapses, first, stale, unsaid>>

(* The row rests in its first state without restaurants. *)
CachesInit ==
    /\ looking \in {"offers", "ranking", "flags", "tuning", "provider", "week", "recipes", "sweeps"}
    /\ Init /\ O!Init /\ F!Init /\ T!Init /\ P!Init /\ W!Init /\ R!Init
    /\ K!Init /\ (looking # "ranking" => vendors = <<>>)

Rest(part, partVars) == looking # part => UNCHANGED partVars

CachesNext ==
    /\ UNCHANGED looking
    /\ \/ looking = "offers" /\ O!Next
       \/ looking = "ranking" /\ K!Next
       \/ looking = "flags" /\ F!Next
       \/ looking = "tuning" /\ T!Next
       \/ looking = "provider" /\ P!Next
       \/ looking = "week" /\ W!Next
       \/ looking = "recipes" /\ R!Next
       \/ looking = "sweeps" /\ Next
    /\ Rest("offers", offersVars) /\ Rest("ranking", rankingVars)
    /\ Rest("flags", flagsVars) /\ Rest("tuning", tuningVars)
    /\ Rest("provider", providerVars) /\ Rest("week", weekVars)
    /\ Rest("recipes", recipesVars) /\ Rest("sweeps", vars)

(* While the offers rest, no step of theirs is enabled but the questions   *)
(* and the console's, and none of the reading's while that rests but those *)
(* of whoever asks or cooks: their fairness is all it was.                 *)
CachesSpec ==
    /\ CachesInit
    /\ [][CachesNext]_<<looking, vars, offersVars, rankingVars, flagsVars, tuningVars, providerVars,
                    weekVars, recipesVars>>
    /\ O!Fairness /\ W!Fairness

(* What is served from memory is what the document says, once its time to  *)
(* live has gone by since the document was written: the flag, the tuning   *)
(* and the provider, whatever reads the writing crossed.                   *)
CachesCatchUp == F!FlagsCatchUp /\ T!TuningCatchesUp /\ P!ChoiceCatchesUp

RowIsRight == K!RowIsRight
TrailAccounts == R!TrailAccounts
NeverOlder == O!NeverOlder
CooksAnswered == O!CooksAnswered
ReadingCatchesUp == W!ReadingCatchesUp
=============================================================================
