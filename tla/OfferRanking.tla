----------------------------- MODULE OfferRanking -----------------------------
(***************************************************************************)
(* Which restaurants a cook is shown for a dish at a given minute, and in  *)
(* what order (src/features/chowdeck/chowdeck.offers.ts), worked out from  *)
(* what the cache holds each time it is read.                              *)
(*                                                                         *)
(* The clock is Lagos's, in units of which a day has DayLength.  Stars are *)
(* counted in tenths, and what is a floating-point quotient in the code is *)
(* a fraction here.  An amount that is not known is Unknown, which is more *)
(* than any.  Times of day are read from text: that a text is not a time   *)
(* is a kind of hours.                                                     *)
(***************************************************************************)
EXTENDS Integers, FiniteSets, SequencesExt

CONSTANTS
    Vendors,    \* what the provider may tell of (see IsVendor)
    MaxVendors, \* bound: restaurants in one answer
    DayLength,  \* minutes of a day
    NDays,      \* days of a week
    Unknown

Minutes == 0..(DayLength - 1)
WeekDays == 0..(NDays - 1)

(* `closing` of 0 is the midnight that ends the day.                       *)
Hours == [kind : {"absent", "closed", "unreadable", "stated"},
          opening : 0..DayLength, closing : 0..DayLength]

IsVendor(v) ==
    /\ v.id \in Nat /\ v.brand \in Nat
    /\ v.products \in Seq([stocked : BOOLEAN, price : Nat])
    /\ v.stars \in 0..50 /\ v.ratings \in Nat
    /\ v.delivery \in Nat /\ v.distance \in Nat
    /\ v.paused \in BOOLEAN /\ v.openAtFetch \in BOOLEAN
    /\ v.hours \in [WeekDays -> Hours]

OfferRankingAssumption ==
    /\ DayLength \in Nat \ {0} /\ NDays \in Nat \ {0} /\ MaxVendors \in Nat /\ Unknown \in Nat
    /\ \A v \in Vendors : IsVendor(v)
    /\ \A v, w \in Vendors : v.id = w.id => v = w

VARIABLES
    vendors,     \* the cached answer, in the order it came
    day, minute  \* when it is read

vars == <<vendors, day, minute>>

-------------------------------------------------------------------------------
(* openState.                                                              *)

Open == [open |-> TRUE, later |-> FALSE]
Later == [open |-> FALSE, later |-> TRUE]
Shut == [open |-> FALSE, later |-> FALSE]

Closing(h) == IF h.closing = 0 THEN DayLength ELSE h.closing

(* Past midnight the hours of the new day are read both ways.              *)
Within(h, m) ==
    IF Closing(h) > h.opening THEN h.opening <= m /\ m < Closing(h)
    ELSE h.opening <= m \/ m < Closing(h)

openState(v, d, m) ==
    LET h == v.hours[d]
    IN CASE v.paused -> Shut
         [] ~v.paused /\ h.kind \in {"absent", "unreadable"} -> IF v.openAtFetch THEN Open ELSE Shut
         [] ~v.paused /\ h.kind = "closed" -> Shut
         [] ~v.paused /\ h.kind = "stated" ->
              IF h.opening = Closing(h) \/ Within(h, m) THEN Open
              ELSE IF m < h.opening THEN Later ELSE Shut

-------------------------------------------------------------------------------
(* Ranking.                                                                *)

PriorStars == 38
PriorWeight == 5

(* adjustedRating, as a numerator and a denominator.                       *)
Votes(v) == PriorWeight + v.ratings
Stars(v) == PriorStars * PriorWeight + v.stars * v.ratings

deliveryBand(v) == IF v.delivery = Unknown THEN Unknown ELSE (v.delivery + 9) \div 10

(* How two offers differ in each respect that is looked at, the most       *)
(* important first: the lesser comes first.                                *)
Respects(a, b) ==
    <<(IF a.state.open THEN 0 ELSE 1) - (IF b.state.open THEN 0 ELSE 1),
      deliveryBand(a.vendor) - deliveryBand(b.vendor),
      Stars(b.vendor) * Votes(a.vendor) - Stars(a.vendor) * Votes(b.vendor),
      a.price - b.price,
      a.vendor.distance - b.vendor.distance,
      a.vendor.id - b.vendor.id>>

Precedes(differences) ==
    \E i \in DOMAIN differences :
        /\ differences[i] < 0
        /\ \A j \in 1..(i - 1) : differences[j] = 0

CompareUntied(a, b) == Precedes(SubSeq(Respects(a, b), 1, 5))

Compare(a, b) == Precedes(Respects(a, b))

Stocked(v) == {i \in DOMAIN v.products : v.products[i].stocked}

(* Each restaurant goes by its first product in stock.                     *)
Offer(v, d, m) ==
    [vendor |-> v, price |-> v.products[Min(Stocked(v))].price, state |-> openState(v, d, m)]

(* The places, in the answer, of what can be ordered now or later today.   *)
Scored(d, m) ==
    {i \in DOMAIN vendors :
        Stocked(vendors[i]) # {} /\ openState(vendors[i], d, m) # Shut}

(* Which of two places the sort puts first: it is stable.                  *)
Ahead(i, j, d, m) ==
    LET a == Offer(vendors[i], d, m)
        b == Offer(vendors[j], d, m)
    IN \/ Compare(a, b)
       \/ ~Compare(b, a) /\ i < j

(* Of a brand's branches the first.                                        *)
FirstOfBrand(d, m) ==
    {i \in Scored(d, m) :
        \A j \in Scored(d, m) :
            vendors[j].brand = vendors[i].brand => ~Ahead(j, i, d, m)}

(* Each stands behind as many as are ahead of it.                          *)
Sorted(kept, d, m) ==
    [n \in 1..Cardinality(kept) |->
        CHOOSE i \in kept : Cardinality({j \in kept : Ahead(j, i, d, m)}) = n - 1]

rankOffers ==
    LET order == Sorted(FirstOfBrand(day, minute), day, minute)
    IN [n \in DOMAIN order |-> Offer(vendors[order[n]], day, minute)]

-------------------------------------------------------------------------------
(* The cache is filled, the row is read as time goes by, and the same      *)
(* restaurants come back in another order.                                 *)

Init ==
    /\ vendors \in UNION {[1..n -> Vendors] : n \in 0..MaxVendors}
    /\ IsInjective(vendors)
    /\ day = 0 /\ minute = 0

Tick ==
    /\ minute' = (minute + 1) % DayLength
    /\ day' = IF minute' = 0 THEN (day + 1) % NDays ELSE day
    /\ UNCHANGED vendors

Refetch ==
    /\ vendors' = Reverse(vendors)
    /\ UNCHANGED <<day, minute>>

Next == Tick \/ Refetch

Spec == Init /\ [][Next]_vars

-------------------------------------------------------------------------------
(* Properties.                                                             *)

TypeOK ==
    /\ vendors \in Seq(Vendors) /\ day \in WeekDays /\ minute \in Minutes

Yesterday(d) == (d + NDays - 1) % NDays

(* Whether a restaurant's week has it open: in the hours of the day, or in *)
(* those of the day before that run past midnight.                         *)
OpenByTheWeek(v, d, m) ==
    LET today == v.hours[d]
        night == v.hours[Yesterday(d)]
    IN \/ today.kind = "stated" /\ today.opening = Closing(today)
       \/ today.kind = "stated" /\ today.opening <= m
            /\ (Closing(today) > today.opening => m < Closing(today))
       \/ night.kind = "stated" /\ Closing(night) < night.opening /\ m < Closing(night)

(* Hours that say the same of two days in a row, or end before midnight.   *)
Plain(v) ==
    \A d \in WeekDays :
        LET h == v.hours[d]
        IN h.kind = "stated" /\ Closing(h) < h.opening => \A e \in WeekDays : v.hours[e] = h

Beats(v, w) == Compare(Offer(v, day, minute), Offer(w, day, minute))

(* The row a cook sees is a matter of which restaurants there are, not of  *)
(* the order they came in ("so a refresh does not reshuffle the row",      *)
(* chowdeck.offers.ts:375): whoever is open by the hours of the week is    *)
(* ahead of whoever opens later, no one is behind a worse one, and a brand *)
(* is there once, by the best of its branches.  Of hours that pass         *)
(* midnight on some days only nothing is claimed.                          *)
RowIsRight ==
    LET row == rankOffers
        all == ToSet(vendors)
        shown == {row[i].vendor : i \in DOMAIN row}
        orderable == {v \in all : Stocked(v) # {} /\ openState(v, day, minute) # Shut}
    IN /\ \A i, j \in DOMAIN row : i < j => Beats(row[i].vendor, row[j].vendor)
       /\ \A v \in orderable : \E w \in shown :
            w.brand = v.brand /\ (w = v \/ Beats(w, v))
       /\ \A v, w \in shown : v.brand = w.brand => v = w
       /\ \A i \in DOMAIN row :
            LET v == row[i].vendor
            IN Plain(v) /\ v.hours[day].kind = "stated" =>
                 row[i].state.open = OpenByTheWeek(v, day, minute)
       /\ \A v \in all \ orderable :
            Plain(v) /\ Stocked(v) # {} /\ ~v.paused /\ v.hours[day].kind = "stated" =>
                 ~OpenByTheWeek(v, day, minute)

(* "Deterministic, so a refresh does not reshuffle the row"                *)
(* (chowdeck.offers.ts:375): the same restaurants are the same row, in     *)
(* whatever order the answer has them.                                     *)
NotReshuffled ==
    [][ToSet(vendors') = ToSet(vendors) /\ UNCHANGED <<day, minute>> => rankOffers' = rankOffers]_vars

(* "Open right now, worked out from the weekly hours"                      *)
(* (chowdeck.offers.ts:197), of any hours.                                 *)
OpenByHours ==
    \A v \in ToSet(vendors) : ~v.paused /\ v.hours[day].kind = "stated" =>
        openState(v, day, minute).open = OpenByTheWeek(v, day, minute)
===============================================================================
