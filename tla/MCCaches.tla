------------------------------ MODULE MCCaches ------------------------------
(* The restaurants that are looked at.                                     *)
EXTENDS Caches

(* A week of two days of eight units.  Restaurants 1 and 2 are branches, 1 *)
(* and 3 tie but for their number, 4 states no hours, 5 is open past one   *)
(* midnight only, 6 and 7 never close, and the rating of 6 is two votes'.  *)
Stated(opening, closing) == [kind |-> "stated", opening |-> opening, closing |-> closing]
NotStated(kind) == [kind |-> kind, opening |-> 0, closing |-> 0]

Restaurant(id, brand, price, stars, ratings, delivery, distance, even, odd) ==
    [id |-> id, brand |-> brand, stars |-> stars, ratings |-> ratings, delivery |-> delivery,
     distance |-> distance, paused |-> FALSE, openAtFetch |-> TRUE,
     products |-> <<[stocked |-> FALSE, price |-> 1], [stocked |-> TRUE, price |-> price]>>,
     hours |-> [d \in 0..1 |-> IF d = 0 THEN even ELSE odd]]

MCRestaurants ==
    {Restaurant(1, 1, 5, 45, 20, 25, 3, Stated(2, 6), Stated(2, 6)),
     Restaurant(2, 1, 5, 45, 20, 27, 3, Stated(2, 0), NotStated("closed")),
     Restaurant(3, 2, 5, 45, 20, 29, 3, Stated(6, 2), Stated(6, 2)),
     Restaurant(4, 3, 5, 25, 2, 100, 100, NotStated("absent"), NotStated("unreadable")),
     Restaurant(5, 4, 4, 25, 2, 31, 2, Stated(6, 2), NotStated("closed")),
     Restaurant(6, 5, 4, 50, 2, 31, 2, Stated(3, 3), Stated(0, 0)),
     [Restaurant(7, 6, 4, 50, 1, 31, 2, Stated(3, 3), Stated(3, 3)) EXCEPT !.paused = TRUE],
     Restaurant(8, 7, 3, 36, 4, 31, 100, Stated(2, 6), Stated(4, 0))}

CONSTANTS c1, c2, p1

MCPlaceOf == [k \in {1} |-> p1]
=============================================================================
