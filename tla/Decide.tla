------------------------------- MODULE Decide -------------------------------
(***************************************************************************)
(* One decision: a person says how the day feels, what they want, how long *)
(* they have and what is in the kitchen, and is told what to cook          *)
(* (features/decide). The ranker picks; the model may promote another of   *)
(* the first three and write one sentence, within nine seconds.            *)
(*                                                                         *)
(* decide() reads the place, the stock of a signed-in cook, the meals, the  *)
(* weather and the tuning once each, so that what changes meanwhile might  *)
(* as well have changed before or after: they are inputs here. Only the    *)
(* model's reply, its retry and the clock race.                            *)
(*                                                                         *)
(* Abstracted: an ingredient is one thing, found by catalogue id or by     *)
(* name; what a meal's words admit it to is its set of weights; weather    *)
(* and time of day are one factor per meal, chosen when it is ranked.      *)
(* Factors are counted in twentieths and scores in Parts.                  *)
(***************************************************************************)
EXTENDS Integers, FiniteSets

CONSTANTS
    Meals,        \* meals, as numbers: the order of their ids
    Recipes,      \* what a meal may be (see IsRecipe)
    Things,       \* what a kitchen may hold and a recipe name
    Staples,      \* things of the groups a meal is built around
    Pantry,       \* things taken for granted
    SwapGroups,   \* sets of things a cook swaps without comment
    Requests,     \* what a client may send (see IsRequest)
    Skies,        \* what weather and time of day may do to the meals, in twentieths
    Tuning,       \* the ranking configuration, factors in twentieths
    Parts,        \* a score of one; every count of ingredients divides it
    PoolSize,     \* the length of the shortlist
    ForModel,     \* how many of it the model chooses from
    NoMeal

Weights == {"solid", "light", "soupy", "swallow", "rice", "street"}
Moods == {"tired", "fast", "proper", "comfort", "surprise"}

IsRecipe(r) ==
    /\ r.cook \in Nat /\ r.weights \subseteq Weights
    /\ r.needs \subseteq Things /\ r.extras \subseteq Things
    /\ r.quality \in {"full", "simple", "minimal"}
    /\ r.difficulty \in {"easy", "medium", "involved"}
    /\ r.family \in Nat /\ r.published \in BOOLEAN

IsRequest(q) ==
    q \in [kitchen : SUBSET Things, skipped : BOOLEAN, mood : Moods, weight : Weights,
           minutes : {15, 40, 90}, mode : {"cook", "order"}, rejected : SUBSET Meals,
           signedIn : BOOLEAN, nearby : SUBSET Meals]

ASSUME DecideAssumption ==
    /\ Meals \subseteq Nat /\ IsFiniteSet(Meals) /\ NoMeal \notin Meals
    /\ \A r \in Recipes : IsRecipe(r)
    /\ \A q \in Requests : IsRequest(q)
    /\ Skies \subseteq [Meals -> Nat]
    /\ Parts \in Nat \ {0} /\ PoolSize \in Nat \ {0} /\ ForModel \in 1..PoolSize
    /\ Tuning.requireSomeMatch \in BOOLEAN /\ Tuning.collapseVariants \in BOOLEAN

VARIABLES
    catalogue,    \* what each meal is
    stock,        \* what a signed-in cook has in the house
    phase,        \* which wait decide() is in
    request,      \* the input, its kitchen filled from stock once that is read
    shortlist,    \* the candidates
    ranks,        \* the rank of each meal, for the order of the shortlist
    tries,        \* attempts of the call to the model
    answer        \* what the person was told

vars == <<catalogue, stock, phase, request, shortlist, ranks, tries, answer>>

----------------------------------------------------------------------------
(* The matcher: a recipe against the things in a kitchen. A tapped thing   *)
(* has no unit, so that there is always enough of it.                      *)

Found(thing, kitchen) ==
    \/ thing \in kitchen
    \/ \E group \in SwapGroups : thing \in group /\ group \cap kitchen # {}

Have(r, kitchen) == {t \in r.needs \cup r.extras : Found(t, kitchen)}

Missing(r, kitchen) == {t \in r.needs \ Pantry : ~Found(t, kitchen)}

\* What counts towards the score: all that is needed but the pantry's own that was not tapped.
Required(r, kitchen) == {t \in r.needs : Found(t, kitchen) \/ t \notin Pantry}

\* `part` of `whole` in Parts; a meal that needs nothing is fully makeable.
Share(part, whole) ==
    IF whole = {} THEN Parts ELSE (Parts * Cardinality(part)) \div Cardinality(whole)

Score(r, kitchen) ==
    Share(Required(r, kitchen) \ Missing(r, kitchen), Required(r, kitchen))

\* What having the staple adds, in twentieths: none for a meal that has no staple.
StapleBonus(r, kitchen) ==
    LET staples == r.needs \cap Staples IN
    IF staples = {} THEN 20
    ELSE 20 + (Tuning.stapleWeight * Share({t \in staples : Found(t, kitchen)}, staples)) \div Parts

----------------------------------------------------------------------------
(* The ranker. *)

Least(a, b) == IF a <= b THEN a ELSE b
Most(a, b) == IF a >= b THEN a ELSE b

Shortened(mood, minutes) ==     \* rounded to the minute
    (CASE mood = "tired" -> minutes * 8 + 5
       [] mood = "fast" -> minutes * 7 + 5
       [] OTHER -> minutes * 10) \div 10

\* A mood shortens the budget to 35 minutes at the least, and never lengthens it.
CeilingUnheld(mood, minutes) == Most(35, Shortened(mood, minutes))  \* the floor raises it
CeilingFor(mood, minutes) == Least(minutes, Most(35, Shortened(mood, minutes)))

MoodFactor(q, r) ==
    CASE q.mode = "order" -> 400
      [] q.mode = "cook" /\ q.mood = "tired" ->
            (CASE r.difficulty = "easy" -> Tuning.tiredEasy
               [] r.difficulty = "medium" -> 20
               [] r.difficulty = "involved" -> Tuning.tiredInvolved)
            * (IF Missing(r, q.kitchen) = {} THEN Tuning.tiredComplete ELSE 20)
      [] q.mode = "cook" /\ q.mood = "fast" ->
            20 * (20 + Most(0, ((60 - r.cook) * Tuning.fastPressure) \div 60))
      [] q.mode = "cook" /\ q.mood = "proper" ->
            20 * (IF r.difficulty = "involved" THEN Tuning.properInvolved ELSE 20)
      [] q.mode = "cook" /\ q.mood = "comfort" ->
            20 * (20 + (Score(r, q.kitchen) * Tuning.comfort) \div Parts)
      [] OTHER -> 400

\* base * quality * mood * weather and hour * nearby, in powers of twentieths.
Rank(q, r, sky, nearby) ==
    (IF q.kitchen = {} THEN 20 * Parts * Tuning.emptyBase
     ELSE ((20 - Tuning.scoreWeight) * Parts + Tuning.scoreWeight * Score(r, q.kitchen))
          * StapleBonus(r, q.kitchen))
    * Tuning.quality[r.quality] * MoodFactor(q, r) * sky
    * (IF q.mode = "order" /\ nearby THEN 3 ELSE 2)

Narrowed(kept, all) == IF kept # {} THEN kept ELSE all

\* Stages 1 and 2: published, not refused, in time; the dish itself when ordering; of the
\* weight asked for. The last two narrow, and never to nothing.
PoolOf(q, relaxed) ==
    LET published == {m \in Meals :
                        /\ catalogue[m].published
                        /\ m \notin q.rejected
                        /\ \/ relaxed \/ q.mode = "order"
                           \/ catalogue[m].cook <= CeilingFor(q.mood, q.minutes)}
        eligible == IF q.mode = "order"
                    THEN Narrowed({m \in published : catalogue[m].quality = "full"}, published)
                    ELSE published
    IN  Narrowed({m \in eligible : q.weight \in catalogue[m].weights}, eligible)

Told(q) == Tuning.requireSomeMatch /\ q.kitchen # {}

WithSomeMatch(q, pool) ==
    IF Told(q) THEN {m \in pool : Have(catalogue[m], q.kitchen) # {}} ELSE pool

\* The meals to rank: those that use something, else the same without the clock, else none.
UsableOrAny(q) ==       \* serves what it rejected when nothing matches, as it once did
    Narrowed(WithSomeMatch(q, PoolOf(q, FALSE)), PoolOf(q, FALSE))
Usable(q) ==
    IF Told(q) /\ WithSomeMatch(q, PoolOf(q, FALSE)) = {}
    THEN WithSomeMatch(q, PoolOf(q, TRUE))
    ELSE WithSomeMatch(q, PoolOf(q, FALSE))

\* The best version of each dish. Of equals the first that was read stays, in no stated order.
Collapsed(usable, rank) ==
    IF ~Tuning.collapseVariants THEN {usable}
    ELSE {kept \in SUBSET usable :
            /\ \A m \in usable : \E k \in kept :
                    catalogue[k].family = catalogue[m].family /\ rank[k] >= rank[m]
            /\ \A k, m \in kept : k # m => catalogue[k].family # catalogue[m].family}

\* The order of the shortlist: rank, fewer things missing, quicker, id.
Before(q, rank, a, b) ==
    LET short(m) == Cardinality(Missing(catalogue[m], q.kitchen)) IN
    \/ rank[a] > rank[b]
    \/ /\ rank[a] = rank[b]
       /\ \/ short(a) < short(b)
          \/ /\ short(a) = short(b)
             /\ \/ catalogue[a].cook < catalogue[b].cook
                \/ catalogue[a].cook = catalogue[b].cook /\ a < b

First(n, q, rank, kept) ==
    {m \in kept : Cardinality({k \in kept : Before(q, rank, k, m)}) < n}

----------------------------------------------------------------------------
(* The call. *)

NoAnswer == [meal |-> NoMeal, why |-> NoMeal, framing |-> NoMeal,
             provenance |-> "deterministic", pool |-> {}]

Init ==
    /\ catalogue \in [Meals -> Recipes] /\ stock \in SUBSET Things
    /\ phase = "asked" /\ request \in Requests
    /\ ~request.signedIn => stock = {}
    /\ shortlist = {} /\ ranks = [m \in Meals |-> 0] /\ tries = 0 /\ answer = NoAnswer

\* withKitchenOf(): nobody's stock when ordering; the stock of a signed-in cook who sent
\* nothing and did not skip; what they sent when that cannot be read or is empty.
ReadKitchen ==
    /\ phase = "asked" /\ phase' = "kitchen"
    /\ \E readable \in BOOLEAN :
        request' =
            IF request.mode = "order"
            THEN [request EXCEPT !.kitchen = {}, !.skipped = TRUE]
            ELSE IF /\ request.signedIn /\ request.kitchen = {} /\ ~request.skipped
                    /\ readable
                 THEN [request EXCEPT !.kitchen = stock]
                 ELSE request
    /\ UNCHANGED <<catalogue, stock, shortlist, ranks, tries, answer>>

\* Meals, weather and tuning are there: rankCandidates(), and the call to the model if there is any.
RankThem ==
    /\ phase = "kitchen"
    /\ \E sky \in Skies :
        LET rank == [m \in Meals |-> Rank(request, catalogue[m], sky[m], m \in request.nearby)] IN
        /\ ranks' = rank
        /\ \E kept \in Collapsed(Usable(request), rank) :
            shortlist' = First(PoolSize, request, rank, kept)
    /\ phase' = IF shortlist' = {} THEN "answered" ELSE "framing"
    /\ tries' = IF shortlist' = {} THEN 0 ELSE 1
    /\ UNCHANGED <<catalogue, stock, request, answer>>

Leads(n) == First(n, request, ranks, shortlist)

NeedsNothing(m) == Missing(catalogue[m], request.kitchen) = {}

\* A leader that needs nothing is not given up for a meal that needs something.
RefusesPromotion(leader, chosen) == NeedsNothing(leader) /\ ~NeedsNothing(chosen)

\* The answer around a meal the model chose (or NoMeal): its sentence goes with its own pick.
Respond(chosen) ==
    \E leader \in Leads(1) :
        LET refused == chosen # NoMeal /\ RefusesPromotion(leader, chosen)
            winner == IF chosen = NoMeal \/ refused THEN leader ELSE chosen
        IN  /\ answer' = [meal |-> winner, why |-> IF refused THEN NoMeal ELSE chosen,
                          framing |-> chosen,
                          provenance |-> IF chosen # NoMeal THEN "ai_framed" ELSE "deterministic",
                          pool |-> shortlist \ {winner}]
            /\ phase' = "answered"

\* A reply that fits the schema. One that names a meal it was not offered is discarded whole.
ModelChooses ==
    /\ phase = "framing"
    /\ \E id \in Meals \cup {NoMeal} :
        Respond(IF id \in Leads(ForModel) THEN id ELSE NoMeal)
    /\ UNCHANGED <<catalogue, stock, request, shortlist, ranks, tries>>

\* A reply that does not fit is asked for once more.
ModelMisfits ==
    /\ phase = "framing" /\ tries < 2
    /\ tries' = tries + 1
    /\ UNCHANGED <<catalogue, stock, phase, request, shortlist, ranks, answer>>

\* A second misfit, an error of the provider, or nine seconds: whatever comes later is ignored.
ModelGivesNothing ==
    /\ phase = "framing"
    /\ Respond(NoMeal)
    /\ UNCHANGED <<catalogue, stock, request, shortlist, ranks, tries>>

Next == ReadKitchen \/ RankThem \/ ModelChooses \/ ModelMisfits \/ ModelGivesNothing

Spec == Init /\ [][Next]_vars

----------------------------------------------------------------------------
(* Properties. *)

Offered == shortlist

Uses(m) == Have(catalogue[m], request.kitchen) # {}

InTime(m) == catalogue[m].cook <= request.minutes

\* Somebody who told what they have is offered nothing that uses none of it, by whichever of
\* the fallbacks the shortlist came about ("I have Milo, here is pap").
UsesWhatTheyHave ==
    Told(request) => \A m \in Offered : Uses(m)

\* A meal that overruns the clock is offered only when the clock was the obstacle: no meal of
\* the weight asked for that is well in time, for any mood, uses anything they have.
OverrunsAlone ==
    (request.mode = "cook" /\ \E m \in Offered : ~InTime(m)) =>
        \A m \in Meals :
            (/\ catalogue[m].published /\ m \notin request.rejected
             /\ request.weight \in catalogue[m].weights
             /\ catalogue[m].cook <= Least(request.minutes, 35)) => ~Uses(m)

\* With dinner in the house nobody is sent to the market: when the best ranked meal needs
\* nothing, so does the one served, whatever the model prefers.
ReadyStays ==
    answer.meal # NoMeal /\ (\A m \in Leads(1) : NeedsNothing(m)) => NeedsNothing(answer.meal)

\* The model's sentence is only ever shown under the meal it was written about, and that meal
\* was one of those it was given.
SentenceFits ==
    answer.why # NoMeal => answer.why = answer.meal /\ answer.meal \in Leads(ForModel)

\* decide.types.ts, on provenance: `ai_framed` says that a model wrote `why` and `framing`.
ProvenanceTrue ==
    answer.provenance = "ai_framed" => answer.why # NoMeal

\* decide.ranker.ts, on giving up: with the clock dropped, empty means that nothing uses any
\* of what they have.
EmptyIsGenuine ==
    (phase = "answered" /\ Offered = {} /\ Told(request) /\ request.mode = "cook") =>
        \A m \in Meals : catalogue[m].published /\ m \notin request.rejected => ~Uses(m)

TypeOK ==
    /\ catalogue \in [Meals -> Recipes] /\ stock \subseteq Things
    /\ phase \in {"asked", "kitchen", "framing", "answered"}
    /\ IsRequest(request)
    /\ shortlist \subseteq Meals /\ tries \in 0..2
    /\ answer.meal \in Meals \cup {NoMeal} /\ answer.pool \subseteq Meals
=============================================================================
