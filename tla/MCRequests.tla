----------------------------- MODULE MCRequests -----------------------------
(* Exchanges, with the meals, the kitchens, the weather and the tuning of  *)
(* the decisions that are looked at.                                       *)
EXTENDS Exchanges, TLC

CONSTANTS rice, ofada, salt, egg, owner, colleague, spoken, typed, note, c1, c2, j1, j2, j3

(* The catalogue and the requests that are looked at. *)
Dish(cook, weights, needs, extras, quality, difficulty, family, published) ==
    [cook |-> cook, weights |-> weights, needs |-> needs, extras |-> extras, quality |-> quality,
     difficulty |-> difficulty, family |-> family, published |-> published]

MCRecipes ==
    {Dish(15, {"light"}, {egg, salt}, {}, "simple", "medium", 1, TRUE),
     Dish(30, {"solid"}, {rice}, {egg}, "full", "easy", 2, TRUE),
     Dish(60, {"solid", "light"}, {rice, egg}, {salt}, "full", "involved", 3, TRUE),
     Dish(15, {"solid"}, {}, {egg}, "minimal", "easy", 4, TRUE),
     Dish(15, {"solid"}, {egg}, {}, "full", "easy", 1, FALSE)}

Asked(kitchen, mood, weight, minutes, mode) ==
    [kitchen |-> kitchen, skipped |-> FALSE, mood |-> mood, weight |-> weight, minutes |-> minutes,
     mode |-> mode, rejected |-> {}, signedIn |-> FALSE, nearby |-> {}]

MCRequestsMade ==
    {Asked(kitchen, mood, weight, minutes, "cook") :
        kitchen \in SUBSET {ofada, salt, egg}, mood \in {"tired", "fast"},
        weight \in {"solid", "light"}, minutes \in {15, 40}}
    \cup {[Asked({}, "proper", "solid", 40, "cook") EXCEPT !.signedIn = TRUE, !.skipped = skip,
                                                        !.rejected = refused] :
        skip \in BOOLEAN, refused \in {{}, {1}}}
    \cup {[Asked({rice}, mood, "light", 40, "order") EXCEPT !.nearby = near, !.rejected = {3}] :
        mood \in {"comfort", "surprise"}, near \in SUBSET {1, 2}}

MCTuning ==     \* the defaults of ranking.config.ts, rounded to twentieths
    [quality |-> [full |-> 20, simple |-> 14, minimal |-> 9], tiredEasy |-> 26,
     tiredInvolved |-> 10, tiredComplete |-> 25, fastPressure |-> 20, properInvolved |-> 24,
     comfort |-> 6, emptyBase |-> 10, scoreWeight |-> 15, stapleWeight |-> 10,
     requireSomeMatch |-> TRUE, collapseVariants |-> TRUE]

MCSkies == {[m \in Meals |-> 20], [m \in Meals |-> IF m = 1 THEN 11 ELSE 23]}

Symmetry == Permutations({c1, c2}) \cup Permutations({j1, j2, j3})
=============================================================================
