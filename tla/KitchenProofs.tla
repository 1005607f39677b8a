----------------------------- MODULE KitchenProofs -----------------------------
(***************************************************************************)
(* Proofs about Kitchen, for any number of calls, rows and listings.       *)
(*                                                                         *)
(* A listing that was not ticked by two calls at once is moved by one call *)
(* at most: the one that carries it from the stamp to the stock.  Carried  *)
(* says what is owed while it is under way, and what holds once it is not. *)
(*                                                                         *)
(* The count of a row is what its history sums up to and what the calls    *)
(* still owe the history.  That such a sum does not depend on the order    *)
(* the calls are taken in comes first.                                     *)
(***************************************************************************)
EXTENDS Kitchen, FiniteSetTheorems, WellFoundedInduction, TLAPS

(* What a call under way may look like, n listings having been created. *)
ShapedCall(call, n) ==
    /\ call.pc = "merge" => call.delta \in Nat
    /\ call.pc = "stamp" => call.kind = "tick"
    /\ call.kind = "tick" =>
           /\ call.pc \in {"stamp", "find", "create", "merge", "record"}
           /\ call.listing \in 1..n
           /\ call.pc # "stamp" => ~call.moved

Shaped ==
    /\ item.id = None \/ item.id \in 1..listings
    /\ \A c \in Calls : ShapedCall(calls[c], listings)

-------------------------------------------------------------------------------
(* Shapes.                                                                 *)

LEMMA IdleType == Idle \in Call
BY DEF Idle, Call, Kind, Step, None

LEMMA BecomesType ==
    ASSUME TypeOK, NEW c \in Calls, NEW call \in Call, Becomes(c, call)
    PROVE  calls' \in [Calls -> Call]
BY DEF TypeOK, Becomes

LEMMA BeginsType ==
    ASSUME TypeOK, NEW c \in Calls, NEW call \in Call, Begins(c, call)
    PROVE  /\ calls' \in [Calls -> Call]
           /\ begun' \in 0..MaxCalls /\ faults' \in 0..MaxFaults
BY KitchenAssumption DEF TypeOK, Begins

LEMMA EndsType ==
    ASSUME TypeOK, NEW c \in Calls, Ends(c)
    PROVE  calls' \in [Calls -> Call]
BY IdleType, BecomesType DEF Ends

LEMMA WillRecordType ==
    ASSUME TypeOK, NEW c \in Calls, NEW r \in Rows \cup {None}, NEW delta \in Int,
           WillRecord(c, r, delta)
    PROVE  calls' \in [Calls -> Call]
<1>1. [calls[c] EXCEPT !.pc = "record", !.row = r, !.delta = delta] \in Call
  BY DEF TypeOK, Call, Step
<1> QED
  BY <1>1, BecomesType DEF WillRecord

LEMMA MovesType ==
    ASSUME TypeOK, NEW c \in Calls, NEW done \in BOOLEAN, Moves(c, done)
    PROVE  item' \in Item
<1>1. calls[c].amount \in Nat /\ item \in Item /\ item.stocked \in Nat
  BY DEF TypeOK, Call, Item
<1>2. item.stocked + calls[c].amount \in Nat
  BY <1>1
<1>3. [item EXCEPT !.stocked = item.stocked + calls[c].amount] \in Item
  BY <1>1, <1>2 DEF Item
<1>4. [item EXCEPT !.lost = TRUE] \in Item
  BY <1>1 DEF Item
<1> QED
  BY <1>1, <1>3, <1>4 DEF Moves, Item

LEMMA GoesType ==
    ASSUME TypeOK, NEW c \in Calls, Goes(c)
    PROVE  calls' \in [Calls -> Call] /\ begun' \in 0..MaxCalls
<1>1. CASE Ends(c) /\ UNCHANGED begun
  BY <1>1, EndsType DEF TypeOK
<1>2. ASSUME begun < MaxCalls, begun' = begun + 1, NEW amount \in Amounts,
             Becomes(c, [Idle EXCEPT !.kind = calls[c].kind, !.pc = "find", !.amount = amount])
      PROVE  calls' \in [Calls -> Call] /\ begun' \in 0..MaxCalls
  <2>1. calls[c].kind \in Kind /\ amount \in Nat
    BY DEF TypeOK, Call, Amounts
  <2>2. [Idle EXCEPT !.kind = calls[c].kind, !.pc = "find", !.amount = amount] \in Call
    BY <2>1, IdleType DEF Call, Step
  <2> QED
    BY <1>2, <2>2, BecomesType, KitchenAssumption DEF TypeOK
<1> QED
  BY <1>1, <1>2 DEF Goes

LEMMA DistrustType ==
    ASSUME TypeOK, NEW c \in Calls, Distrust(c)
    PROVE  book' \in [Rows -> Book]
<1>1. \A r \in Rows : [book[r] EXCEPT !.fair = FALSE] \in Book
  BY DEF TypeOK, Book
<1>2. CASE calls[c].row \in Rows
  BY <1>1, <1>2 DEF TypeOK, Distrust
<1>3. CASE calls[c].row \notin Rows
  BY <1>3 DEF TypeOK, Distrust
<1> QED
  BY <1>2, <1>3

LEMMA TypeStocks ==
    ASSUME TypeOK, Shaped, NEW c \in Calls, Stocks(c)
    PROVE  TypeOK'
<1> USE KitchenAssumption DEF stock, market, spent
<1>1. ASSUME NEW amount \in Amounts, BeginAdd(c, amount) \/ BeginCook(c, amount) PROVE TypeOK'
  <2>1. PICK k \in {[Idle EXCEPT !.kind = "add", !.pc = "find", !.amount = amount],
                    [Idle EXCEPT !.kind = "cook", !.pc = "find", !.amount = amount]} : Begins(c, k)
    BY <1>1 DEF BeginAdd, BeginCook
  <2>2. amount \in Nat
    BY DEF Amounts
  <2>3. k \in Call
    BY <2>2, IdleType DEF Call, Kind, Step
  <2> QED
    BY <1>1, <2>1, <2>3, BeginsType DEF BeginAdd, BeginCook, TypeOK
<1>2. ASSUME NEW amount \in 0..MaxAmount, BeginUpdate(c, amount) PROVE TypeOK'
  <2>1. row.id \in Rows \cup {None} /\ row.quantity \in Nat /\ amount \in Nat
    BY DEF TypeOK, Row
  <2>2. [Idle EXCEPT !.kind = "update", !.pc = "correct", !.row = row.id,
                     !.seen = row.quantity, !.amount = amount] \in Call
    BY <2>1, IdleType DEF Call, Kind, Step
  <2> QED
    BY <1>2, <2>2, BeginsType DEF BeginUpdate, TypeOK
<1>3. CASE BeginSeed(c)
  <2>1. [Idle EXCEPT !.kind = "seed", !.pc = "create", !.amount = 1] \in Call
    BY IdleType DEF Call, Kind, Step
  <2> QED
    BY <1>3, <2>1, BeginsType DEF BeginSeed, TypeOK
<1>4. CASE BeginRemove(c)
  <2>1. row.id \in Rows \cup {None} /\ row.quantity \in Nat
    BY DEF TypeOK, Row
  <2>2. [Idle EXCEPT !.kind = "remove", !.pc = "delete", !.row = row.id,
                     !.seen = row.quantity] \in Call
    BY <2>1, IdleType DEF Call, Kind, Step
  <2> QED
    BY <1>4, <2>2, BeginsType DEF BeginRemove, TypeOK
<1>5. CASE Find(c)
  <2>1. row.id \in Rows \cup {None} /\ row.quantity \in Nat /\ calls[c] \in Call
    BY DEF TypeOK, Row
  <2>2. [calls[c] EXCEPT !.pc = "take", !.row = row.id, !.seen = row.quantity] \in Call
    BY <2>1 DEF Call, Step
  <2>3. [calls[c] EXCEPT !.pc = "create"] \in Call
    BY <2>1 DEF Call, Step
  <2>4. ASSUME NEW delta \in Amounts
        PROVE  [calls[c] EXCEPT !.pc = "merge", !.row = row.id,
                                !.seen = row.quantity, !.delta = delta] \in Call
    <3>1. delta \in Int
      BY DEF Amounts
    <3> QED
      BY <2>1, <3>1 DEF Call, Step
  <2>5. calls' \in [Calls -> Call]
    BY <1>5, <2>2, <2>3, <2>4, BecomesType, EndsType DEF Find
  <2> QED
    BY <1>5, <2>5 DEF Find, TypeOK
<1>6. CASE Create(c)
  <2>1. item' \in Item
    BY <1>6, MovesType DEF Create
  <2>2. calls[c].amount \in Nat /\ rows \in Nat
    BY DEF TypeOK, Call
  <2>3. /\ calls' \in [Calls -> Call] /\ row' \in Row /\ rows' \in 0..NRows
    <3>1. CASE row.id = None
      <4>1. rows + 1 \in Rows
        BY <1>6, <2>2, <3>1 DEF Create, Rows, TypeOK
      <4>2. WillRecord(c, rows + 1, calls[c].amount) /\ rows' = rows + 1
            /\ row' = [id |-> rows + 1, quantity |-> calls[c].amount]
        BY <1>6, <3>1 DEF Create
      <4>3. calls' \in [Calls -> Call]
        BY <2>2, <4>1, <4>2, WillRecordType
      <4> QED
        BY <2>2, <4>1, <4>2, <4>3 DEF Row, Rows
    <3>2. CASE row.id # None
      BY <1>6, <3>2, EndsType DEF Create, TypeOK
    <3> QED
      BY <3>1, <3>2
  <2> QED
    BY <1>6, <2>1, <2>3 DEF Create, TypeOK
<1>7. CASE Merge(c)
  <2>1. item' \in Item
    BY <1>7, MovesType DEF Merge
  <2>2. row \in Row /\ calls[c] \in Call
    BY DEF TypeOK
  <2>3. calls' \in [Calls -> Call] /\ row' \in Row
    <3>1. CASE row.id = calls[c].row
      <4>1. calls[c].delta \in Int /\ row.id \in Rows \cup {None}
        BY <2>2 DEF Call, Row
      <4>2. calls' \in [Calls -> Call]
        BY <1>7, <3>1, <4>1, WillRecordType DEF Merge
      <4>3. calls[c].delta \in Nat /\ row.quantity \in Nat
        BY <1>7, <2>2 DEF Merge, Shaped, ShapedCall, Row
      <4>4. row.quantity + calls[c].delta \in Nat
        BY <4>3
      <4>5. row' \in Row
        BY <1>7, <2>2, <3>1, <4>4 DEF Merge, Row
      <4> QED
        BY <4>2, <4>5
    <3>2. CASE row.id # calls[c].row
      BY <1>7, <2>2, <3>2, EndsType DEF Merge
    <3> QED
      BY <3>1, <3>2
  <2> QED
    BY <1>7, <2>1, <2>3 DEF Merge, TypeOK
<1>8. CASE Take(c)
  <2>1. row \in Row /\ calls[c] \in Call
    BY DEF TypeOK
  <2>2. DEFINE left == Left(calls[c].seen, calls[c].amount)
  <2>3. left \in Nat /\ left - calls[c].seen \in Int /\ calls[c].row \in Rows \cup {None}
    BY <2>1 DEF Call, Left
  <2>4. WillRecord(c, calls[c].row, left - calls[c].seen)
    BY <1>8 DEF Take
  <2>5. calls' \in [Calls -> Call]
    BY <2>3, <2>4, WillRecordType
  <2>6. row' = IF row.id = calls[c].row THEN [row EXCEPT !.quantity = left] ELSE row
    BY <1>8 DEF Take
  <2>7. row' \in Row
    BY <2>1, <2>3, <2>6 DEF Row
  <2>8. book' \in [Rows -> Book]
    BY <1>8, DistrustType DEF Take
  <2> QED
    BY <1>8, <2>5, <2>7, <2>8 DEF Take, TypeOK
<1>9. CASE Correct(c)
  <2>1. /\ row \in Row /\ calls[c].amount \in Nat /\ calls[c].seen \in Nat
        /\ calls[c].row \in Rows \cup {None}
    BY DEF TypeOK, Call
  <2>2. calls[c].amount - calls[c].seen \in Int
    BY <2>1
  <2>3. calls' \in [Calls -> Call]
    BY <1>9, <2>1, <2>2, WillRecordType, EndsType DEF Correct
  <2>4. row' \in Row
    BY <1>9, <2>1 DEF Correct, Row
  <2>5. book' \in [Rows -> Book]
    BY <1>9, DistrustType DEF Correct, TypeOK
  <2> QED
    BY <1>9, <2>3, <2>4, <2>5 DEF Correct, TypeOK
<1>10. CASE Delete(c)
  <2>1. row \in Row /\ calls[c].seen \in Nat /\ calls[c].row \in Rows \cup {None}
    BY DEF TypeOK, Call
  <2>2. -calls[c].seen \in Int
    BY <2>1
  <2>3. calls' \in [Calls -> Call]
    BY <1>10, <2>1, <2>2, WillRecordType DEF Delete
  <2>4. row' \in Row
    BY <1>10, <2>1 DEF Delete, Row, Absent, None
  <2>5. book' \in [Rows -> Book]
    BY <1>10, DistrustType DEF Delete
  <2> QED
    BY <1>10, <2>3, <2>4, <2>5 DEF Delete, TypeOK
<1>11. CASE Record(c)
  <2>1. calls[c].delta \in Int /\ book \in [Rows -> Book]
    BY DEF TypeOK, Call
  <2>2. ASSUME NEW r \in Rows
        PROVE  [book[r] EXCEPT !.sum = book[r].sum + calls[c].delta] \in Book
    <3>1. book[r].sum + calls[c].delta \in Int
      BY <2>1 DEF Book
    <3> QED
      BY <2>1, <3>1 DEF Book
  <2>3. book' \in [Rows -> Book]
    <3>1. CASE calls[c].row \in Rows
      BY <1>11, <2>1, <2>2, <3>1 DEF Record
    <3>2. CASE calls[c].row \notin Rows
      BY <1>11, <2>1, <3>2 DEF Record
    <3> QED
      BY <3>1, <3>2
  <2> QED
    BY <1>11, <2>3, GoesType DEF Record, TypeOK
<1>12. CASE RecordFails(c)
  <2>1. \A r \in Rows : [book[r] EXCEPT !.fair = FALSE] \in Book
    BY DEF TypeOK, Book
  <2>2. book' \in [Rows -> Book]
    <3>1. CASE calls[c].row \in Rows
      BY <1>12, <2>1, <3>1 DEF RecordFails, TypeOK
    <3>2. CASE calls[c].row \notin Rows
      BY <1>12, <3>2 DEF RecordFails, TypeOK
    <3> QED
      BY <3>1, <3>2
  <2>3. faults' \in 0..MaxFaults
    BY <1>12 DEF RecordFails, TypeOK
  <2> QED
    BY <1>12, <2>2, <2>3, GoesType DEF RecordFails, TypeOK
<1> QED
  BY <1>1, <1>2, <1>3, <1>4, <1>5, <1>6, <1>7, <1>8, <1>9, <1>10, <1>11, <1>12 DEF Stocks

LEMMA TypeShops ==
    ASSUME TypeOK, Shaped, NEW c \in Calls, Shops(c)
    PROVE  TypeOK'
<1> USE KitchenAssumption DEF stock, market, spent
<1>1. /\ item \in Item /\ item.id \in Listings \cup {None} /\ item.quantity \in Nat
      /\ item.moved \in BOOLEAN /\ item.clean \in BOOLEAN /\ item.lost \in BOOLEAN
      /\ calls[c] \in Call /\ calls[c].amount \in Nat /\ calls[c].moved \in BOOLEAN
  BY DEF TypeOK, Item, Call
<1>2. ASSUME NEW amount \in Amounts, BeginList(c, amount) PROVE TypeOK'
  <2>1. amount \in Nat
    BY DEF Amounts
  <2>2. [Idle EXCEPT !.kind = "list", !.pc = IF item.id = None THEN "list" ELSE "bump",
                     !.listing = item.id, !.amount = amount] \in Call
    BY <1>1, <2>1, IdleType DEF Call, Kind, Step
  <2> QED
    BY <1>2, <2>2, BeginsType DEF BeginList, TypeOK
<1>3. CASE List(c)
  <2>1. calls' \in [Calls -> Call]
    BY <1>3, EndsType DEF List
  <2>2. item' \in Item /\ listings' \in 0..NListings
    <3>1. CASE item.id = None
      <4>1. listings \in Nat /\ listings + 1 \in Listings /\ listings' = listings + 1
        BY <1>3, <3>1 DEF List, TypeOK, Listings
      <4>2. item' = [Unlisted EXCEPT !.id = listings + 1, !.quantity = calls[c].amount]
        BY <1>3, <3>1 DEF List
      <4>3. item' \in Item
        BY <1>1, <4>1, <4>2 DEF Item, Unlisted, None
      <4> QED
        BY <4>1, <4>3 DEF Listings
    <3>2. CASE item.id # None
      BY <1>3, <3>2 DEF List, TypeOK
    <3> QED
      BY <3>1, <3>2
  <2> QED
    BY <1>3, <2>1, <2>2 DEF List, TypeOK
<1>4. CASE Bump(c)
  <2>1. calls' \in [Calls -> Call]
    BY <1>4, EndsType DEF Bump
  <2>2. item.quantity + calls[c].amount \in Nat
    BY <1>1
  <2>3. PICK b \in BOOLEAN : b = (item.clean /\ ~item.moved /\ ~Moving(item.id))
    OBVIOUS
  <2>4. item' = IF item.id # calls[c].listing THEN item
                ELSE [item EXCEPT !.quantity = item.quantity + calls[c].amount,
                                  !.bought = FALSE, !.moved = FALSE, !.clean = b]
    BY <1>4, <2>3 DEF Bump
  <2>5. item' \in Item
    BY <1>1, <2>2, <2>4 DEF Item
  <2> QED
    BY <1>4, <2>1, <2>5 DEF Bump, TypeOK
<1>5. CASE BeginTick(c)
  <2>1. [Idle EXCEPT !.kind = "tick", !.pc = "stamp", !.listing = item.id,
                     !.moved = item.moved, !.amount = item.quantity] \in Call
    BY <1>1, IdleType DEF Call, Kind, Step
  <2> QED
    BY <1>5, <2>1, BeginsType DEF BeginTick, TypeOK
<1>6. CASE Stamp(c)
  <2>1. [calls[c] EXCEPT !.pc = "find"] \in Call
    BY <1>1 DEF Call, Step
  <2>2. calls' \in [Calls -> Call]
    BY <1>6, <2>1, BecomesType, EndsType DEF Stamp
  <2>3. PICK m \in BOOLEAN : m = (item.moved \/ ~calls[c].moved)
    OBVIOUS
  <2>4. PICK b \in BOOLEAN : b = (item.clean /\ item.moved = calls[c].moved)
    OBVIOUS
  <2>5. PICK g \in BOOLEAN : g = (item.lost \/ (~calls[c].moved /\ calls'[c] = Idle))
    OBVIOUS
  <2>6. item' = IF item.id # calls[c].listing THEN item
                ELSE [item EXCEPT !.bought = TRUE, !.moved = m, !.clean = b, !.lost = g]
    BY <1>6, <2>3, <2>4, <2>5 DEF Stamp
  <2>7. item' \in Item
    BY <1>1, <2>6 DEF Item
  <2> QED
    BY <1>6, <2>2, <2>7 DEF Stamp, TypeOK
<1>7. CASE BeginUntick(c)
  <2>1. [Idle EXCEPT !.kind = "untick", !.pc = "clear", !.listing = item.id] \in Call
    BY <1>1, IdleType DEF Call, Kind, Step
  <2> QED
    BY <1>7, <2>1, BeginsType DEF BeginUntick, TypeOK
<1>8. CASE Unstamp(c)
  BY <1>1, <1>8, EndsType DEF Unstamp, TypeOK, Item
<1> QED
  BY <1>2, <1>3, <1>4, <1>5, <1>6, <1>7, <1>8 DEF Shops

LEMMA TypeRest ==
    ASSUME TypeOK, Unlist \/ ClearBought \/ \E c \in Calls : Dies(c)
    PROVE  TypeOK'
<1> USE KitchenAssumption DEF stock, market, spent
<1>1. CASE Unlist \/ ClearBought
  <2>1. Unlisted \in Item
    BY DEF Unlisted, Item, None
  <2> QED
    BY <1>1, <2>1 DEF Unlist, ClearBought, TypeOK
<1>2. ASSUME NEW c \in Calls, Dies(c) PROVE TypeOK'
  <2>1. \A r \in Rows : [book[r] EXCEPT !.fair = FALSE] \in Book
    BY DEF TypeOK, Book
  <2>2. book' \in [Rows -> Book]
    <3>1. CASE calls[c].row \in Rows
      BY <1>2, <2>1, <3>1 DEF Dies, TypeOK
    <3>2. CASE calls[c].row \notin Rows
      BY <1>2, <3>2 DEF Dies, TypeOK
    <3> QED
      BY <3>1, <3>2
  <2>3. item' \in Item
    BY <1>2, MovesType DEF Dies, TypeOK
  <2>4. faults' \in 0..MaxFaults
    BY <1>2 DEF Dies, TypeOK
  <2> QED
    BY <1>2, <2>2, <2>3, <2>4, EndsType DEF Dies, TypeOK
<1> QED
  BY <1>1, <1>2

-------------------------------------------------------------------------------
(* Who moves a listing.                                                    *)

(* The call is between the stamp and the stock with listing l in hand, or  *)
(* is about to stamp it and found it not moved yet.                        *)
Carries(call, l) ==
    call.kind = "tick" /\ call.listing = l /\ call.pc \in {"find", "create", "merge"}
Waits(call, l) ==
    call.kind = "tick" /\ call.listing = l /\ call.pc = "stamp" /\ ~call.moved

(* Of a listing nobody ticked twice at once: before the stamp nothing of   *)
(* it is in the stock and nobody carries it; after it one call carries all *)
(* of it, or it has arrived, or it was lost.                               *)
Unmoved ==
    /\ item.stocked = 0 /\ ~item.bought
    /\ \A c \in Calls : ~Carries(calls[c], item.id)
    /\ \A c \in Calls : Waits(calls[c], item.id) => calls[c].amount = item.quantity

Moved ==
    /\ \A c \in Calls : Carries(calls[c], item.id) =>
           /\ item.stocked = 0 /\ calls[c].amount = item.quantity
           /\ \A d \in Calls : Carries(calls[d], item.id) => d = c
    /\ item.stocked = item.quantity \/ item.stocked = 0
    /\ (\A c \in Calls : ~Carries(calls[c], item.id)) => item.lost \/ item.stocked = item.quantity

Carried ==
    item.id # None /\ item.clean =>
        /\ ~item.moved => Unmoved
        /\ item.moved => Moved

Inv == TypeOK /\ Shaped /\ Carried

(* A call may become another without anything happening to the listing.    *)
Harmless(old, new) ==
    /\ Carries(new, item.id) <=> Carries(old, item.id)
    /\ Carries(new, item.id) => new.amount = old.amount
    /\ Waits(new, item.id) => new.amount = item.quantity

LEMMA OthersStay ==
    ASSUME TypeOK, NEW c \in Calls, NEW k, Becomes(c, k)
    PROVE  calls'[c] = k /\ \A d \in Calls : d # c => calls'[d] = calls[d]
BY DEF TypeOK, Becomes

LEMMA ShapedStep ==
    ASSUME TypeOK, Shaped, NEW c \in Calls, NEW k, Becomes(c, k),
           listings' \in Nat, listings <= listings',
           ShapedCall(k, listings'), item'.id \in {None, item.id} \cup 1..listings'
    PROVE  Shaped'
<1>1. listings \in Nat
  BY DEF TypeOK
<1>2. ASSUME NEW d \in Calls PROVE ShapedCall(calls'[d], listings')
  <2>1. CASE d = c
    BY <2>1, OthersStay
  <2>2. CASE d # c
    <3>1. calls'[d] = calls[d] /\ ShapedCall(calls[d], listings)
      BY <2>2, OthersStay DEF Shaped
    <3>2. \A l : l \in 1..listings => l \in 1..listings'
      BY <1>1
    <3>3. ShapedCall(calls[d], listings')
      BY <3>1, <3>2 DEF ShapedCall
    <3> QED
      BY <3>1, <3>3
  <2> QED
    BY <2>1, <2>2
<1>3. item'.id = None \/ item'.id \in 1..listings'
  BY <1>1 DEF Shaped
<1> QED
  BY <1>2, <1>3 DEF Shaped

LEMMA CarriedStep ==
    ASSUME TypeOK, Carried, NEW c \in Calls, NEW k, Becomes(c, k),
           item' = item, Harmless(calls[c], k)
    PROVE  Carried'
<1> SUFFICES ASSUME item.id # None, item.clean
             PROVE  (~item.moved => Unmoved') /\ (item.moved => Moved')
  BY DEF Carried
<1>1. \A d \in Calls : Carries(calls'[d], item.id) <=> Carries(calls[d], item.id)
  BY OthersStay DEF Harmless
<1>2. \A d \in Calls : Carries(calls[d], item.id) => calls'[d].amount = calls[d].amount
  BY OthersStay DEF Harmless
<1>3. ASSUME ~item.moved PROVE Unmoved'
  <2>1. Unmoved
    BY <1>3 DEF Carried
  <2>2. ASSUME NEW d \in Calls, Waits(calls'[d], item.id) PROVE calls'[d].amount = item.quantity
    <3>1. CASE d = c
      BY <2>2, <3>1, OthersStay DEF Harmless
    <3>2. CASE d # c
      BY <2>1, <2>2, <3>2, OthersStay DEF Unmoved
    <3> QED
      BY <3>1, <3>2
  <2> QED
    BY <1>1, <2>1, <2>2 DEF Unmoved
<1>4. ASSUME item.moved PROVE Moved'
  BY <1>1, <1>2, <1>4 DEF Carried, Moved
<1> QED
  BY <1>3, <1>4

LEMMA QuietStep ==
    ASSUME Inv, NEW c \in Calls, NEW k, Becomes(c, k), UNCHANGED market,
           ShapedCall(k, listings), Harmless(calls[c], k)
    PROVE  Shaped' /\ Carried'
<1>1. listings \in Nat /\ listings' = listings /\ item' = item
  BY DEF Inv, TypeOK, market
<1>2. item'.id \in {None, item.id} \cup 1..listings'
  BY <1>1
<1> QED
  BY <1>1, <1>2, ShapedStep, CarriedStep DEF Inv

(* What becomes of a call that does not carry a listing, and will not.     *)
LEMMA Aside ==
    ASSUME NEW old, NEW new, new.kind # "tick", ~Carries(old, item.id)
    PROVE  Harmless(old, new)
BY DEF Harmless, Carries, Waits

LEMMA EndsQuietly ==
    ASSUME Inv, NEW c \in Calls, Ends(c), UNCHANGED market, ~Carries(calls[c], item.id)
    PROVE  Shaped' /\ Carried'
<1>1. Idle.kind = "none" /\ Idle.pc = "idle"
  BY DEF Idle
<1>2. ShapedCall(Idle, listings)
  BY <1>1 DEF ShapedCall
<1>3. Harmless(calls[c], Idle)
  BY <1>1, Aside
<1> QED
  BY <1>2, <1>3, QuietStep DEF Ends

LEMMA BeginsQuietly ==
    ASSUME Inv, NEW c \in Calls, NEW k, Begins(c, k), UNCHANGED market,
           ShapedCall(k, listings), k.kind # "tick"
    PROVE  Shaped' /\ Carried'
<1>1. calls[c].kind = "none" /\ Becomes(c, k)
  BY DEF Begins, Idle, Becomes
<1>2. ~Carries(calls[c], item.id)
  BY <1>1 DEF Carries
<1> QED
  BY <1>1, <1>2, Aside, QuietStep

LEMMA RecordsQuietly ==
    ASSUME Inv, NEW c \in Calls, NEW r, NEW delta, WillRecord(c, r, delta),
           UNCHANGED market, calls[c].kind # "tick"
    PROVE  Shaped' /\ Carried'
<1>1. PICK k : k = [calls[c] EXCEPT !.pc = "record", !.row = r, !.delta = delta]
  OBVIOUS
<1>2. k.kind = calls[c].kind /\ k.pc = "record"
  BY <1>1 DEF Inv, TypeOK, Call
<1>3. ShapedCall(k, listings)
  BY <1>2 DEF ShapedCall
<1>4. ~Carries(calls[c], item.id)
  BY DEF Carries
<1>5. Harmless(calls[c], k)
  BY <1>2, <1>4, Aside
<1> QED
  BY <1>1, <1>3, <1>5, QuietStep DEF WillRecord

LEMMA GoesQuietly ==
    ASSUME Inv, NEW c \in Calls, Goes(c), UNCHANGED market, calls[c].pc = "record"
    PROVE  Shaped' /\ Carried'
<1>1. ~Carries(calls[c], item.id)
  BY DEF Carries
<1>2. CASE Ends(c)
  BY <1>1, <1>2, EndsQuietly
<1>3. ASSUME calls[c].kind \in {"add", "cook"}, NEW amount \in Amounts,
             Becomes(c, [Idle EXCEPT !.kind = calls[c].kind, !.pc = "find", !.amount = amount])
      PROVE  Shaped' /\ Carried'
  <2>1. PICK k : k = [Idle EXCEPT !.kind = calls[c].kind, !.pc = "find", !.amount = amount]
    OBVIOUS
  <2>2. k.kind # "tick" /\ k.pc = "find"
    BY <1>3, <2>1 DEF Idle
  <2>3. ShapedCall(k, listings)
    BY <2>2 DEF ShapedCall
  <2> QED
    BY <1>1, <1>3, <2>1, <2>2, <2>3, Aside, QuietStep
<1> QED
  BY <1>2, <1>3 DEF Goes

-------------------------------------------------------------------------------
(* The steps that leave the listing alone.                                 *)

LEMMA StocksQuietly ==
    ASSUME Inv, NEW c \in Calls, Stocks(c), ~Create(c), ~Merge(c)
    PROVE  Shaped' /\ Carried'
<1> USE DEF market
<1>1. ASSUME NEW k \in {[Idle EXCEPT !.kind = "add", !.pc = "find", !.amount = n] : n \in Amounts}
                  \cup {[Idle EXCEPT !.kind = "cook", !.pc = "find", !.amount = n] : n \in Amounts}
                  \cup {[Idle EXCEPT !.kind = "update", !.pc = "correct", !.row = row.id,
                                     !.seen = row.quantity, !.amount = n] : n \in 0..MaxAmount}
                  \cup {[Idle EXCEPT !.kind = "seed", !.pc = "create", !.amount = 1],
                        [Idle EXCEPT !.kind = "remove", !.pc = "delete", !.row = row.id,
                                     !.seen = row.quantity]},
             Begins(c, k), UNCHANGED market
      PROVE  Shaped' /\ Carried'
  <2>1. k.kind # "tick" /\ k.pc \in {"find", "correct", "create", "delete"}
    BY <1>1 DEF Idle
  <2>2. ShapedCall(k, listings)
    BY <2>1 DEF ShapedCall
  <2> QED
    BY <1>1, <2>1, <2>2, BeginsQuietly
<1>2. ASSUME NEW amount \in Amounts, BeginAdd(c, amount) \/ BeginCook(c, amount)
      PROVE  Shaped' /\ Carried'
  BY <1>1, <1>2 DEF BeginAdd, BeginCook
<1>3. ASSUME NEW amount \in 0..MaxAmount, BeginUpdate(c, amount) PROVE Shaped' /\ Carried'
  BY <1>1, <1>3 DEF BeginUpdate
<1>4. CASE BeginSeed(c) \/ BeginRemove(c)
  BY <1>1, <1>4 DEF BeginSeed, BeginRemove
<1>5. CASE Find(c)
  <2>1. calls[c] \in Call /\ calls[c].pc = "find" /\ ShapedCall(calls[c], listings)
        /\ UNCHANGED market
    BY <1>5 DEF Find, Inv, TypeOK, Shaped
  <2>2. CASE calls[c].kind = "cook"
    <3>1. ~Carries(calls[c], item.id)
      BY <2>2 DEF Carries
    <3>2. PICK k : k = [calls[c] EXCEPT !.pc = "take", !.row = row.id, !.seen = row.quantity]
      OBVIOUS
    <3>3. k.kind = "cook" /\ k.pc = "take"
      BY <2>1, <2>2, <3>2 DEF Call
    <3>4. ShapedCall(k, listings) /\ Harmless(calls[c], k)
      BY <3>1, <3>3, Aside DEF ShapedCall
    <3>5. Ends(c) \/ Becomes(c, k)
      BY <1>5, <2>2, <3>2 DEF Find
    <3> QED
      BY <2>1, <3>1, <3>4, <3>5, EndsQuietly, QuietStep
  <2>3. CASE calls[c].kind # "cook"
    <3>1. PICK k : /\ \/ k = [calls[c] EXCEPT !.pc = "create"]
                      \/ \E delta \in Amounts :
                             k = [calls[c] EXCEPT !.pc = "merge", !.row = row.id,
                                                  !.seen = row.quantity, !.delta = delta]
                   /\ Becomes(c, k)
      BY <1>5, <2>3 DEF Find
    <3>2. /\ k.kind = calls[c].kind /\ k.listing = calls[c].listing
          /\ k.amount = calls[c].amount /\ k.moved = calls[c].moved
          /\ k.pc \in {"create", "merge"}
          /\ k.pc = "merge" => k.delta \in Nat
      <4>1. CASE k = [calls[c] EXCEPT !.pc = "create"]
        BY <2>1, <4>1 DEF Call
      <4>2. ASSUME NEW delta \in Amounts,
                   k = [calls[c] EXCEPT !.pc = "merge", !.row = row.id,
                                        !.seen = row.quantity, !.delta = delta]
            PROVE  /\ k.kind = calls[c].kind /\ k.listing = calls[c].listing
                   /\ k.amount = calls[c].amount /\ k.moved = calls[c].moved
                   /\ k.pc = "merge" /\ k.delta \in Nat
        <5>1. delta \in Nat
          BY DEF Amounts
        <5> QED
          BY <2>1, <4>2, <5>1 DEF Call
      <4> QED
        BY <3>1, <4>1, <4>2
    <3>3. ShapedCall(k, listings)
      BY <2>1, <3>2 DEF ShapedCall
    <3>4. Harmless(calls[c], k)
      BY <2>1, <3>2 DEF Harmless, Carries, Waits
    <3> QED
      BY <2>1, <3>1, <3>3, <3>4, QuietStep
  <2> QED
    BY <2>2, <2>3
<1>6. CASE Take(c) \/ Correct(c) \/ Delete(c)
  <2>1. calls[c].kind # "tick" /\ UNCHANGED market
    BY <1>6 DEF Take, Correct, Delete, Inv, Shaped, ShapedCall
  <2>2. ~Carries(calls[c], item.id)
    BY <2>1 DEF Carries
  <2>3. Ends(c) \/ \E r, delta : WillRecord(c, r, delta)
    BY <1>6 DEF Take, Correct, Delete
  <2> QED
    BY <2>1, <2>2, <2>3, EndsQuietly, RecordsQuietly
<1>7. CASE Record(c) \/ RecordFails(c)
  BY <1>7, GoesQuietly DEF Record, RecordFails
<1> QED
  BY <1>2, <1>3, <1>4, <1>5, <1>6, <1>7 DEF Stocks

LEMMA ShopsQuietly ==
    ASSUME Inv, NEW c \in Calls,
           \/ \E amount \in Amounts : BeginList(c, amount)
           \/ BeginTick(c) \/ BeginUntick(c)
    PROVE  Shaped' /\ Carried'
<1> USE DEF market
<1>1. ASSUME NEW amount \in Amounts, BeginList(c, amount) PROVE Shaped' /\ Carried'
  <2>1. PICK k : k = [Idle EXCEPT !.kind = "list",
                                  !.pc = IF item.id = None THEN "list" ELSE "bump",
                                  !.listing = item.id, !.amount = amount]
    OBVIOUS
  <2>2. k.kind = "list" /\ k.pc \in {"list", "bump"}
    BY <2>1 DEF Idle
  <2>3. ShapedCall(k, listings)
    BY <2>2 DEF ShapedCall
  <2> QED
    BY <1>1, <2>1, <2>2, <2>3, BeginsQuietly DEF BeginList
<1>2. CASE BeginUntick(c)
  <2>1. PICK k : k = [Idle EXCEPT !.kind = "untick", !.pc = "clear", !.listing = item.id]
    OBVIOUS
  <2>2. k.kind = "untick" /\ k.pc = "clear"
    BY <2>1 DEF Idle
  <2>3. ShapedCall(k, listings)
    BY <2>2 DEF ShapedCall
  <2> QED
    BY <1>2, <2>1, <2>2, <2>3, BeginsQuietly DEF BeginUntick
<1>3. CASE BeginTick(c)
  <2>1. PICK k : k = [Idle EXCEPT !.kind = "tick", !.pc = "stamp", !.listing = item.id,
                                  !.moved = item.moved, !.amount = item.quantity]
    OBVIOUS
  <2>2. /\ k.kind = "tick" /\ k.pc = "stamp" /\ k.listing = item.id
        /\ k.amount = item.quantity
    BY <2>1 DEF Idle
  <2>3. item.id # None /\ calls[c] = Idle /\ Becomes(c, k) /\ UNCHANGED market
    BY <1>3, <2>1 DEF BeginTick, Begins, Becomes
  <2>4. item.id \in 1..listings
    BY <2>3 DEF Inv, Shaped
  <2>5. ShapedCall(k, listings)
    BY <2>2, <2>4 DEF ShapedCall
  <2>6. Harmless(calls[c], k)
    BY <2>2, <2>3 DEF Harmless, Carries, Waits, Idle
  <2> QED
    BY <2>3, <2>5, <2>6, QuietStep
<1> QED
  BY <1>1, <1>2, <1>3

-------------------------------------------------------------------------------
(* The steps that arrive with it, lose it or write it.                     *)

(* The call that carries the listing puts it down, the only one to do so.  *)
LEMMA MovesStep ==
    ASSUME Inv, NEW c \in Calls, NEW k, NEW done \in BOOLEAN, Becomes(c, k), Moves(c, done),
           calls[c].pc \in {"find", "create", "merge"}, listings' = listings,
           ShapedCall(k, listings), k.pc \in {"record", "idle"}
    PROVE  Shaped' /\ Carried'
<1>1. CASE Carries(calls[c], item.id)
  <2>1. item \in Item /\ listings \in Nat /\ calls[c].amount \in Nat
    BY DEF Inv, TypeOK, Call
  <2>2. item' = IF done THEN [item EXCEPT !.stocked = item.stocked + calls[c].amount]
                ELSE [item EXCEPT !.lost = TRUE]
    BY <1>1 DEF Moves, Carries
  <2>3. /\ item'.id = item.id /\ item'.quantity = item.quantity
        /\ item'.moved = item.moved /\ item'.clean = item.clean
        /\ done => item'.stocked = item.stocked + calls[c].amount
        /\ ~done => item'.lost /\ item'.stocked = item.stocked
    BY <2>1, <2>2 DEF Item
  <2>4. Shaped'
    BY <2>1, <2>3, ShapedStep DEF Inv
  <2>5. ASSUME item.id # None, item.clean PROVE item.moved /\ Moved'
    <3>1. item.moved /\ Moved
      BY <1>1, <2>5 DEF Inv, Carried, Unmoved
    <3>2. /\ item.stocked = 0 /\ calls[c].amount = item.quantity
          /\ \A d \in Calls : Carries(calls[d], item.id) => d = c
      BY <1>1, <3>1 DEF Moved
    <3>3. \A d \in Calls : ~Carries(calls'[d], item.id)
      BY <3>2, OthersStay DEF Inv, Carries
    <3>4. item'.stocked = item.quantity \/ (item'.stocked = 0 /\ item'.lost)
      BY <2>1, <2>3, <3>2 DEF Item
    <3> QED
      BY <2>3, <3>1, <3>3, <3>4 DEF Moved
  <2> QED
    BY <2>3, <2>4, <2>5 DEF Carried
<1>2. CASE ~Carries(calls[c], item.id)
  <2>1. item' = item
    BY <1>2 DEF Moves, Carries
  <2>2. Harmless(calls[c], k)
    BY <1>2 DEF Harmless, Carries, Waits
  <2> QED
    BY <2>1, <2>2, QuietStep DEF market
<1> QED
  BY <1>1, <1>2

LEMMA CarriedArrives ==
    ASSUME Inv, NEW c \in Calls, Create(c) \/ Merge(c)
    PROVE  Shaped' /\ Carried'
<1>1. /\ calls[c].pc \in {"create", "merge"} /\ listings' = listings
      /\ \E done \in BOOLEAN : Moves(c, done)
  BY DEF Create, Merge
<1>2. calls[c] \in Call /\ ShapedCall(calls[c], listings)
  BY DEF Inv, TypeOK, Shaped
<1>3. CASE Ends(c)
  <2>1. ShapedCall(Idle, listings) /\ Idle.pc = "idle"
    BY DEF ShapedCall, Idle
  <2> QED
    BY <1>1, <1>3, <2>1, MovesStep DEF Ends
<1>4. ASSUME NEW r, NEW delta, WillRecord(c, r, delta) PROVE Shaped' /\ Carried'
  <2>1. PICK k : k = [calls[c] EXCEPT !.pc = "record", !.row = r, !.delta = delta]
    OBVIOUS
  <2>2. /\ k.pc = "record" /\ k.kind = calls[c].kind
        /\ k.listing = calls[c].listing /\ k.moved = calls[c].moved
    BY <1>2, <2>1 DEF Call
  <2>3. ShapedCall(k, listings)
    BY <1>1, <1>2, <2>2 DEF ShapedCall
  <2> QED
    BY <1>1, <1>4, <2>1, <2>2, <2>3, MovesStep DEF WillRecord
<1> QED
  BY <1>3, <1>4 DEF Create, Merge

LEMMA CarriedDies ==
    ASSUME Inv, NEW c \in Calls, Dies(c)
    PROVE  Shaped' /\ Carried'
<1>1. Ends(c) /\ listings' = listings
  BY DEF Dies
<1>2. ShapedCall(Idle, listings) /\ Idle.pc = "idle"
  BY DEF ShapedCall, Idle
<1>3. CASE calls[c].pc \in {"find", "create", "merge"}
  BY <1>1, <1>2, <1>3, MovesStep DEF Dies, Ends
<1>4. CASE calls[c].pc \notin {"find", "create", "merge"}
  <2>1. ~Carries(calls[c], item.id) /\ item' = item
    BY <1>4 DEF Carries, Dies
  <2> QED
    BY <1>1, <2>1, EndsQuietly DEF market
<1> QED
  BY <1>3, <1>4

LEMMA CarriedListed ==
    ASSUME Inv, NEW c \in Calls, List(c) \/ Bump(c) \/ Unstamp(c)
    PROVE  Shaped' /\ Carried'
<1> USE DEF market
<1>1. /\ item \in Item /\ listings \in Nat /\ calls[c].amount \in Nat
      /\ calls[c].pc \in {"list", "bump", "clear"} /\ Ends(c) /\ Becomes(c, Idle)
  BY DEF Inv, TypeOK, Call, List, Bump, Unstamp, Ends
<1>2. /\ \A l : ~Carries(calls[c], l) /\ ~Carries(Idle, l) /\ ~Waits(Idle, l)
      /\ \A n : ShapedCall(Idle, n)
  BY <1>1 DEF Carries, Waits, Idle, ShapedCall
<1>3. \A l : \A d \in Calls :
           /\ Carries(calls'[d], l) => d # c /\ Carries(calls[d], l)
           /\ Waits(calls'[d], l) => d # c /\ Waits(calls[d], l)
  BY <1>1, <1>2, OthersStay DEF Inv
<1>4. \A d \in Calls : d # c => calls'[d] = calls[d]
  BY <1>1, OthersStay DEF Inv
<1>5. CASE item' = item /\ listings' = listings
  BY <1>1, <1>2, <1>5, EndsQuietly
<1>6. CASE List(c) /\ item.id = None
  <2>1. /\ listings' = listings + 1
        /\ item' = [Unlisted EXCEPT !.id = listings + 1, !.quantity = calls[c].amount]
    BY <1>6 DEF List
  <2>2. /\ item'.id = listings + 1 /\ ~item'.moved /\ ~item'.bought
        /\ item'.stocked = 0
    BY <2>1 DEF Unlisted
  <2>3. Shaped'
    <3>1. listings' \in Nat /\ listings <= listings' /\ item'.id \in 1..listings'
      BY <1>1, <2>1, <2>2
    <3> QED
      BY <1>1, <1>2, <3>1, ShapedStep DEF Inv
  <2>4. \A d \in Calls : calls[d].kind = "tick" => calls[d].listing # listings + 1
    BY <1>1 DEF Inv, Shaped, ShapedCall
  <2>5. \A d \in Calls : ~Carries(calls'[d], item'.id) /\ ~Waits(calls'[d], item'.id)
    BY <1>3, <2>2, <2>4 DEF Carries, Waits
  <2> QED
    BY <2>2, <2>3, <2>5 DEF Carried, Unmoved
<1>7. CASE Bump(c) /\ item.id = calls[c].listing
  <2>1. PICK b \in BOOLEAN : b = (item.clean /\ ~item.moved /\ ~Moving(item.id))
    OBVIOUS
  <2>2. /\ item' = [item EXCEPT !.quantity = item.quantity + calls[c].amount,
                                !.bought = FALSE, !.moved = FALSE, !.clean = b]
        /\ listings' = listings
    BY <1>7, <2>1 DEF Bump
  <2>3. /\ item'.id = item.id /\ ~item'.moved /\ ~item'.bought
        /\ item'.stocked = item.stocked /\ item'.clean = b
    BY <1>1, <2>2 DEF Item
  <2>4. Shaped'
    BY <1>1, <1>2, <2>2, <2>3, ShapedStep DEF Inv
  <2>5. ASSUME item.id # None, b PROVE Unmoved'
    <3>1. item.clean /\ ~item.moved /\ ~Moving(item.id)
      BY <2>1, <2>5
    <3>2. Unmoved
      BY <2>5, <3>1 DEF Inv, Carried
    <3>3. \A d \in Calls : ~Carries(calls[d], item.id) /\ ~Waits(calls[d], item.id)
      BY <3>1 DEF Moving, Carries, Waits, Inv, Shaped, ShapedCall
    <3> QED
      BY <1>3, <2>3, <3>2, <3>3 DEF Unmoved
  <2> QED
    BY <2>3, <2>4, <2>5 DEF Carried
<1>8. CASE Unstamp(c) /\ item.id = calls[c].listing
  <2>1. item' = [item EXCEPT !.bought = FALSE] /\ listings' = listings
    BY <1>8 DEF Unstamp
  <2>2. /\ item'.id = item.id /\ item'.moved = item.moved /\ ~item'.bought
        /\ item'.stocked = item.stocked /\ item'.clean = item.clean
        /\ item'.quantity = item.quantity /\ item'.lost = item.lost
    BY <1>1, <2>1 DEF Item
  <2>3. Shaped'
    BY <1>1, <1>2, <2>1, <2>2, ShapedStep DEF Inv
  <2>4. \A d \in Calls : Carries(calls'[d], item.id) <=> Carries(calls[d], item.id)
    BY <1>2, <1>3, <1>4
  <2>5. Unmoved => Unmoved'
    BY <1>3, <1>4, <2>2, <2>4 DEF Unmoved
  <2>6. Moved => Moved'
    BY <1>3, <1>4, <2>2, <2>4 DEF Moved
  <2> QED
    BY <2>2, <2>3, <2>5, <2>6 DEF Inv, Carried
<1> QED
  BY <1>5, <1>6, <1>7, <1>8 DEF List, Bump, Unstamp

(* The stamp: of the ticks that wait, the one that stamps takes it along.  *)
LEMMA CarriedStamped ==
    ASSUME Inv, NEW c \in Calls, Stamp(c)
    PROVE  Shaped' /\ Carried'
<1> USE DEF market
<1>1. /\ item \in Item /\ listings \in Nat /\ listings' = listings /\ calls[c] \in Call
      /\ calls[c].pc = "stamp" /\ ShapedCall(calls[c], listings)
  BY DEF Inv, TypeOK, Stamp, Shaped
<1>2. calls[c].kind = "tick"
  BY <1>1 DEF ShapedCall
<1>3. PICK k : /\ Becomes(c, k)
               /\ \/ calls[c].moved /\ k = Idle
                  \/ ~calls[c].moved /\ k = [calls[c] EXCEPT !.pc = "find"]
                  \/ ~calls[c].moved /\ k = Idle
  BY DEF Stamp, Ends
<1>4. /\ \/ k = Idle /\ ~Carries(k, item.id)
         \/ /\ ~calls[c].moved /\ k # Idle /\ k.amount = calls[c].amount
            /\ k.listing = calls[c].listing
      /\ ShapedCall(k, listings) /\ \A l : ~Waits(k, l)
  BY <1>1, <1>2, <1>3 DEF Call, Idle, ShapedCall, Waits, Carries
<1>5. CASE item.id # calls[c].listing
  <2>1. item' = item
    BY <1>5 DEF Stamp
  <2>2. Harmless(calls[c], k)
    BY <1>1, <1>4, <1>5 DEF Harmless, Carries
  <2> QED
    BY <1>1, <1>3, <1>4, <2>1, <2>2, QuietStep
<1>6. CASE item.id = calls[c].listing
  <2>1. PICK m \in BOOLEAN, b \in BOOLEAN, g \in BOOLEAN :
            /\ m = (item.moved \/ ~calls[c].moved)
            /\ b = (item.clean /\ item.moved = calls[c].moved)
            /\ g = (item.lost \/ (~calls[c].moved /\ calls'[c] = Idle))
    OBVIOUS
  <2>2. item' = [item EXCEPT !.bought = TRUE, !.moved = m, !.clean = b, !.lost = g]
    BY <1>6, <2>1 DEF Stamp
  <2>3. /\ item'.id = item.id /\ item'.quantity = item.quantity
        /\ item'.stocked = item.stocked
        /\ item'.moved = m /\ item'.clean = b /\ item'.lost = g
    BY <1>1, <2>2 DEF Item
  <2>4. Shaped'
    BY <1>1, <1>3, <1>4, <2>3, ShapedStep DEF Inv
  <2>5. calls'[c] = k /\ \A d \in Calls : d # c => calls'[d] = calls[d]
    BY <1>3, OthersStay DEF Inv
  <2>6. ~Carries(calls[c], item.id)
    BY <1>1 DEF Carries
  <2>7. ASSUME item.id # None, b, calls[c].moved PROVE m /\ Moved'
    <3>1. Moved /\ item.moved /\ item.clean
      BY <1>1, <2>1, <2>7 DEF Inv, Carried, Call, Item
    <3>2. k = Idle /\ ~Carries(k, item.id)
      BY <1>3, <1>4, <2>7
    <3>3. \A d \in Calls : Carries(calls'[d], item.id) <=> Carries(calls[d], item.id)
      BY <2>5, <2>6, <3>2
    <3>4. g <=> item.lost
      BY <1>1, <2>1, <2>7 DEF Item
    <3> QED
      BY <2>1, <2>3, <2>5, <2>6, <3>1, <3>3, <3>4 DEF Moved
  <2>8. ASSUME item.id # None, b, ~calls[c].moved PROVE m /\ Moved'
    <3>1. Unmoved
      BY <1>1, <2>1, <2>8 DEF Inv, Carried, Call, Item
    <3>2. item.stocked = 0 /\ calls[c].amount = item.quantity
      BY <1>1, <1>2, <1>6, <2>8, <3>1 DEF Unmoved, Waits
    <3>3. \A d \in Calls : Carries(calls'[d], item.id) => d = c
      BY <2>5, <3>1 DEF Unmoved
    <3>4. k = Idle => g
      BY <2>1, <2>5, <2>8
    <3>5. k # Idle => Carries(k, item.id) /\ k.amount = item.quantity
      BY <1>1, <1>2, <1>3, <1>4, <1>6, <3>2 DEF Carries, Call
    <3> QED
      BY <1>4, <2>1, <2>3, <2>5, <2>8, <3>2, <3>3, <3>4, <3>5 DEF Moved
  <2> QED
    BY <2>3, <2>4, <2>7, <2>8 DEF Carried
<1> QED
  BY <1>5, <1>6

LEMMA CarriedUnlisted ==
    ASSUME Inv, Unlist \/ ClearBought
    PROVE  Shaped' /\ Carried'
<1>1. item' = Unlisted /\ Unlisted.id = None /\ calls' = calls /\ listings' = listings
  BY DEF Unlist, ClearBought, Unlisted
<1> QED
  BY <1>1 DEF Inv, Shaped, Carried

-------------------------------------------------------------------------------
(* Theorems.                                                               *)

LEMMA InvInit == Init => Inv
<1> SUFFICES ASSUME Init PROVE Inv
  OBVIOUS
<1>1. TypeOK
  <2>1. [sum |-> 0, fair |-> TRUE] \in Book /\ Absent \in Row /\ Unlisted \in Item
    BY DEF Book, Absent, Row, Unlisted, Item, None
  <2> QED
    BY <2>1, IdleType, KitchenAssumption DEF Init, TypeOK
<1>2. Shaped /\ Carried
  BY DEF Init, Shaped, ShapedCall, Idle, Unlisted, Carried
<1> QED
  BY <1>1, <1>2 DEF Inv

LEMMA InvStep == Inv /\ [Next]_vars => Inv'
<1> SUFFICES ASSUME Inv, [Next]_vars PROVE Inv'
  OBVIOUS
<1>1. ASSUME NEW c \in Calls, Stocks(c) PROVE Inv'
  <2>1. Shaped' /\ Carried'
    BY <1>1, StocksQuietly, CarriedArrives
  <2> QED
    BY <1>1, <2>1, TypeStocks DEF Inv
<1>2. ASSUME NEW c \in Calls, Shops(c) PROVE Inv'
  <2>1. Shaped' /\ Carried'
    BY <1>2, ShopsQuietly, CarriedListed, CarriedStamped DEF Shops
  <2> QED
    BY <1>2, <2>1, TypeShops DEF Inv
<1>3. ASSUME Unlist \/ ClearBought \/ \E c \in Calls : Dies(c) PROVE Inv'
  BY <1>3, TypeRest, CarriedUnlisted, CarriedDies DEF Inv
<1>4. CASE UNCHANGED vars
  BY <1>4 DEF vars, stock, market, spent, Inv, TypeOK, Shaped, Carried, Unmoved, Moved
<1> QED
  BY <1>1, <1>2, <1>3, <1>4 DEF Next

THEOREM InvAlways == Spec => []Inv
BY InvInit, InvStep, PTL DEF Spec

(* Every document and call keeps its shape, and no count is ever negative  *)
(* (StockService.consume).                                                 *)
THEOREM TypeCorrect == Spec => []TypeOK
<1>1. Inv => TypeOK
  BY DEF Inv
<1> QED
  BY <1>1, InvAlways, PTL

(* A listing that no two ticks stamped at once is moved into the stock     *)
(* once: all of it or, when the move was lost, none (MarketService.        *)
(* setBought).                                                             *)
THEOREM ListingsMoveOnce == Spec => []MovedOnce
<1>1. Inv => MovedOnce
  <2> SUFFICES ASSUME Inv, item.id # None, item.clean
               PROVE  /\ item.stocked <= item.quantity
                      /\ item.bought => item.moved
                      /\ item.moved /\ ~item.lost /\ ~Moving(item.id)
                             => item.stocked = item.quantity
    BY DEF MovedOnce
  <2>1. item \in Item
    BY DEF Inv, TypeOK
  <2>2. \A c \in Calls : Carries(calls[c], item.id) => Moving(item.id)
    BY DEF Inv, Shaped, ShapedCall, Carries, Moving
  <2>3. CASE item.moved
    <3>1. Moved
      BY <2>3 DEF Inv, Carried
    <3> QED
      BY <2>1, <2>2, <2>3, <3>1 DEF Moved, Item
  <2>4. CASE ~item.moved
    <3>1. Unmoved
      BY <2>4 DEF Inv, Carried
    <3> QED
      BY <2>1, <2>4, <3>1 DEF Unmoved, Item
  <2> QED
    BY <2>3, <2>4
<1> QED
  BY <1>1, InvAlways, PTL
-------------------------------------------------------------------------------
(* Sums over the calls. MapThenSumSet takes the members of a set one after *)
(* the other in an order it chooses; what it comes to is the same in any.  *)

Any(S) == CHOOSE x \in S : TRUE
Total(f, S) == MapThenSumSet(LAMBDA x : f[x], S)

\* g holds the totals of the parts of S.
Taking(g, f, s) == IF s = {} THEN 0 ELSE f[Any(s)] + g[s \ {Any(s)}]
Totals(g, f, S) == \A s \in SUBSET S : g[s] = Taking(g, f, s)
Summed(g, f, S) == Totals(g, f, S) /\ \A s \in SUBSET S : Total(f, s) = g[s]

LEMMA LeastNumber ==
    ASSUME NEW numbers, numbers \subseteq Nat, numbers # {}
    PROVE  \E x \in numbers : \A y \in numbers : x <= y
<1>1. \A x, y \in Nat : <<x, y>> \in OpToRel(<, Nat) <=> x < y
  BY DEF OpToRel
<1>2. \E x \in numbers : \A y \in numbers : ~(<<y, x>> \in OpToRel(<, Nat))
  BY NatLessThanWellFounded, WFMin
<1>3. PICK x \in numbers : \A y \in numbers : ~(<<y, x>> \in OpToRel(<, Nat))
  BY <1>2
<1>4. \A y \in numbers : x <= y
  <2> TAKE y \in numbers
  <2>1. x \in Nat /\ y \in Nat /\ ~(y < x)
    BY <1>1, <1>3
  <2> QED
    BY <2>1
<1> QED
  BY <1>3, <1>4

\* A statement about the parts of a finite set fails, if it does, at one none of whose parts it fails at.
LEMMA LeastPart ==
    ASSUME NEW S, IsFiniteSet(S), NEW parts, parts \subseteq SUBSET S, parts # {}
    PROVE  \E s \in parts : \A x \in s : s \ {x} \notin parts
<1>1. \A s \in parts : IsFiniteSet(s) /\ Cardinality(s) \in Nat
  BY FS_Subset, FS_CardinalityType
<1> DEFINE sizes == {Cardinality(s) : s \in parts}
<1>2. sizes \subseteq Nat /\ sizes # {}
  BY <1>1
<1>3. PICK n \in sizes : \A m \in sizes : n <= m
  <2> HIDE DEF sizes
  <2> QED
    BY <1>2, LeastNumber
<1>4. PICK s \in parts : Cardinality(s) = n
  BY <1>3
<1>5. ASSUME NEW x \in s, s \ {x} \in parts PROVE FALSE
  <2>1. Cardinality(s \ {x}) = Cardinality(s) - 1
    BY <1>1, FS_RemoveElement
  <2>2. Cardinality(s) <= Cardinality(s \ {x})
    BY <1>3, <1>4, <1>5
  <2> QED
    BY <1>1, <2>1, <2>2
<1> QED
  BY <1>5

LEMMA AnyIsIn == ASSUME NEW S, S # {} PROVE Any(S) \in S
BY DEF Any

\* Two functions that agree have the same totals, whichever larger sets they were taken for.
LEMMA TotalsAgree ==
    ASSUME NEW S, IsFiniteSet(S), NEW f, NEW h, \A x \in S : f[x] = h[x],
           NEW g, \A s \in SUBSET S : g[s] = Taking(g, f, s),
           NEW k, \A s \in SUBSET S : k[s] = Taking(k, h, s)
    PROVE  \A s \in SUBSET S : g[s] = k[s]
<1> DEFINE parts == {s \in SUBSET S : g[s] # k[s]}
<1> SUFFICES ASSUME parts # {} PROVE FALSE
  OBVIOUS
<1>1. PICK s \in parts : \A x \in s : s \ {x} \notin parts
  <2>1. parts \subseteq SUBSET S
    OBVIOUS
  <2> HIDE DEF parts
  <2> QED
    BY <2>1, LeastPart
<1>2. s # {}
  BY DEF Taking
<1>3. Any(s) \in s /\ Any(s) \in S /\ s \ {Any(s)} \in SUBSET S
  BY <1>2, AnyIsIn
<1>4. g[s \ {Any(s)}] = k[s \ {Any(s)}] /\ f[Any(s)] = h[Any(s)]
  BY <1>1, <1>3
<1> QED
  BY <1>2, <1>4 DEF Taking

\* There are such totals.
LEMMA TotalsExist ==
    ASSUME NEW S, IsFiniteSet(S), NEW f, \A x \in S : f[x] \in Int
    PROVE  \E g \in [SUBSET S -> Int] : Totals(g, f, S)
<1> DEFINE UpTo(g, n) == \A s \in SUBSET S : Cardinality(s) <= n => g[s] = Taking(g, f, s)
           open == {n \in Nat : ~ \E g \in [SUBSET S -> Int] : UpTo(g, n)}
<1>1. \A s \in SUBSET S : /\ IsFiniteSet(s) /\ Cardinality(s) \in Nat /\ Cardinality(s) <= Cardinality(S)
                          /\ Cardinality(s) = 0 => s = {}
  BY FS_Subset, FS_CardinalityType, FS_EmptySet
<1>2. 0 \notin open
  <2> DEFINE none == [s \in SUBSET S |-> 0]
  <2>1. none \in [SUBSET S -> Int] /\ UpTo(none, 0)
    <3>1. ASSUME NEW s \in SUBSET S, Cardinality(s) <= 0 PROVE none[s] = Taking(none, f, s)
      <4>1. s = {}
        BY <1>1, <3>1
      <4> QED
        BY <4>1 DEF Taking
    <3> QED
      BY <3>1
  <2> HIDE DEF none, UpTo
  <2> QED
    BY <2>1
<1>3. ASSUME NEW n \in Nat, n \notin open PROVE n + 1 \notin open
  <2>1. PICK g \in [SUBSET S -> Int] : UpTo(g, n)
    BY <1>3
  <2> DEFINE more == [s \in SUBSET S |-> IF Cardinality(s) = n + 1 THEN Taking(g, f, s) ELSE g[s]]
  <2>2. \A s \in SUBSET S : Taking(g, f, s) \in Int
    <3> TAKE s \in SUBSET S
    <3>1. CASE s = {}
      BY <3>1 DEF Taking
    <3>2. CASE s # {}
      <4>1. Any(s) \in S /\ s \ {Any(s)} \in SUBSET S
        BY <3>2, AnyIsIn
      <4> QED
        BY <3>2, <4>1 DEF Taking
    <3> QED
      BY <3>1, <3>2
  <2>3. more \in [SUBSET S -> Int]
    BY <2>2
  <2>4. ASSUME NEW s \in SUBSET S, Cardinality(s) <= n + 1 PROVE more[s] = Taking(more, f, s)
    <3>1. more[s] = Taking(g, f, s)
      <4>1. Cardinality(s) = n + 1 \/ Cardinality(s) <= n
        BY <1>1, <2>4
      <4> QED
        BY <2>1, <4>1
    <3>2. CASE s = {}
      BY <3>1, <3>2 DEF Taking
    <3>3. CASE s # {}
      <4> DEFINE t == s \ {Any(s)}
      <4>1. Any(s) \in s /\ t \in SUBSET S
        BY <3>3, AnyIsIn
      <4>2. Cardinality(t) = Cardinality(s) - 1
        BY <1>1, <4>1, FS_RemoveElement
      <4>3. Cardinality(t) # n + 1
        BY <1>1, <2>4, <4>2
      <4>4. more[t] = g[t]
        BY <4>1, <4>3
      <4> HIDE DEF more
      <4> QED
        BY <3>1, <3>3, <4>4 DEF Taking
    <3> QED
      BY <3>2, <3>3
  <2>5. UpTo(more, n + 1)
    BY <2>4
  <2> HIDE DEF more, UpTo
  <2> QED
    BY <2>3, <2>5
<1>4. open = {}
  <2> SUFFICES ASSUME open # {} PROVE FALSE
    OBVIOUS
  <2>1. open \subseteq Nat
    OBVIOUS
  <2> HIDE DEF open
  <2>2. PICK n \in open : \A m \in open : n <= m
    BY <2>1, LeastNumber
  <2>3. n \in Nat /\ n # 0
    BY <1>2, <2>1
  <2>4. n - 1 \in Nat /\ n - 1 \notin open
    BY <2>2, <2>3
  <2>5. (n - 1) + 1 \notin open
    BY <1>3, <2>4
  <2> QED
    BY <2>3, <2>5
<1>5. Cardinality(S) \in Nat
  BY <1>1
<1>6. PICK g \in [SUBSET S -> Int] : UpTo(g, Cardinality(S))
  BY <1>4, <1>5
<1> QED
  BY <1>1, <1>6 DEF Totals

\* MapThenSumSet finds them.
LEMMA TotalIsTotals ==
    ASSUME NEW S, IsFiniteSet(S), NEW f, \A x \in S : f[x] \in Int
    PROVE  \E g \in [SUBSET S -> Int] : Summed(g, f, S)
<1>1. PICK g \in [SUBSET S -> Int] : Totals(g, f, S)
  BY TotalsExist
<1>2. ASSUME NEW T \in SUBSET S PROVE Total(f, T) = g[T]
  <2> DEFINE Is(k) == k = [s \in SUBSET T |-> IF s = {} THEN 0
                                               ELSE LET x == CHOOSE x \in s : TRUE IN f[x] + k[s \ {x}]]
             chosen == CHOOSE k : Is(k)
  <2>1. Total(f, T) = chosen[T]
    BY DEF Total, MapThenSumSet, MapThenFoldSet
  <2>2. IsFiniteSet(T) /\ \A x \in T : f[x] \in Int
    BY FS_Subset
  <2>3. PICK k \in [SUBSET T -> Int] : Totals(k, f, T)
    BY <2>2, TotalsExist
  <2>4. k = [s \in SUBSET T |-> k[s]]
    OBVIOUS
  <2>5. Is(k)
    BY <2>3, <2>4 DEF Totals, Taking, Any
  <2>6. Is(chosen)
    <3>1. \E n : Is(n)
      BY <2>5
    <3> HIDE DEF Is
    <3> QED
      BY <3>1
  <2>7. \A s \in SUBSET T : chosen[s] = Taking(chosen, f, s)
    <3> HIDE DEF chosen
    <3> QED
      BY <2>6 DEF Taking, Any
  <2>8. \A s \in SUBSET T : g[s] = Taking(g, f, s)
    BY <1>1 DEF Totals
  <2>9. chosen[T] = g[T]
    <3> HIDE DEF chosen
    <3> QED
      BY <2>2, <2>7, <2>8, TotalsAgree
  <2> QED
    BY <2>1, <2>9
<1> QED
  BY <1>1, <1>2 DEF Summed

LEMMA TotalSame ==
    ASSUME NEW S, IsFiniteSet(S), NEW f, NEW h, \A x \in S : f[x] \in Int, \A x \in S : f[x] = h[x]
    PROVE  Total(f, S) = Total(h, S)
<1>1. \A x \in S : h[x] \in Int
  OBVIOUS
<1>2. PICK g \in [SUBSET S -> Int] : Summed(g, f, S)
  BY TotalIsTotals
<1>3. PICK k \in [SUBSET S -> Int] : Summed(k, h, S)
  BY <1>1, TotalIsTotals
<1>4. \A s \in SUBSET S : g[s] = k[s]
  BY <1>2, <1>3, TotalsAgree DEF Totals, Summed
<1> QED
  BY <1>2, <1>3, <1>4 DEF Summed

\* Any member may be taken first.
LEMMA TotalLess ==
    ASSUME NEW S, IsFiniteSet(S), NEW f, \A x \in S : f[x] \in Int, NEW a \in S
    PROVE  /\ Total(f, S) = f[a] + Total(f, S \ {a})
           /\ Total(f, S) \in Int /\ Total(f, S \ {a}) \in Int
<1>1. PICK g \in [SUBSET S -> Int] : Summed(g, f, S)
  BY TotalIsTotals
<1> DEFINE parts == {s \in SUBSET S : \E x \in s : g[s] # f[x] + g[s \ {x}]}
<1>2. parts = {}
  <2> SUFFICES ASSUME parts # {} PROVE FALSE
    OBVIOUS
  <2>1. PICK s \in parts : \A x \in s : s \ {x} \notin parts
    <3>1. parts \subseteq SUBSET S
      OBVIOUS
    <3> HIDE DEF parts
    <3> QED
      BY <3>1, LeastPart
  <2>2. PICK x \in s : g[s] # f[x] + g[s \ {x}]
    OBVIOUS
  <2> DEFINE y == Any(s)
  <2>3. y \in s /\ y \in S /\ x \in S /\ s \in SUBSET S
    BY AnyIsIn
  <2>4. g[s] = f[y] + g[s \ {y}]
    BY <1>1, <2>3 DEF Totals, Taking, Summed
  <2> HIDE DEF y
  <2>5. x # y
    BY <2>2, <2>4
  <2>6. g[s \ {y}] = f[x] + g[(s \ {y}) \ {x}]
    <3>1. s \ {y} \in SUBSET S /\ s \ {y} \notin parts /\ x \in s \ {y}
      BY <2>1, <2>3, <2>5
    <3> QED
      BY <3>1
  <2>7. g[s \ {x}] = f[y] + g[(s \ {x}) \ {y}]
    <3>1. s \ {x} \in SUBSET S /\ s \ {x} \notin parts /\ y \in s \ {x}
      BY <2>1, <2>3, <2>5
    <3> QED
      BY <3>1
  <2>8. (s \ {y}) \ {x} = (s \ {x}) \ {y}
    OBVIOUS
  <2>9. PICK rest \in Int : rest = g[(s \ {x}) \ {y}]
    BY <2>3
  <2>10. f[x] \in Int /\ f[y] \in Int
    BY <2>3
  <2>11. g[s] = f[y] + (f[x] + rest) /\ g[s \ {x}] = f[y] + rest
    BY <2>4, <2>6, <2>7, <2>8, <2>9
  <2> QED
    BY <2>2, <2>10, <2>11
<1>3. g[S] = f[a] + g[S \ {a}]
  <2>1. S \in SUBSET S /\ S \notin parts
    BY <1>2
  <2> QED
    BY <2>1
<1>4. S \in SUBSET S /\ S \ {a} \in SUBSET S
  OBVIOUS
<1> QED
  BY <1>1, <1>3, <1>4 DEF Summed

LEMMA TotalEmpty == ASSUME NEW f PROVE Total(f, {}) = 0
<1>1. IsFiniteSet({}) /\ \A x \in {} : f[x] \in Int
  BY FS_EmptySet
<1>2. PICK g \in [SUBSET {} -> Int] : Summed(g, f, {})
  BY <1>1, TotalIsTotals
<1> QED
  BY <1>2 DEF Totals, Taking, Summed

LEMMA TotalType ==
    ASSUME NEW S, IsFiniteSet(S), NEW f, \A x \in S : f[x] \in Int
    PROVE  Total(f, S) \in Int
<1>1. PICK g \in [SUBSET S -> Int] : Summed(g, f, S)
  BY TotalIsTotals
<1> QED
  BY <1>1 DEF Summed

-------------------------------------------------------------------------------
(* The history and the count: what one call changes of the one it changes  *)
(* of the other, or gives back once it writes its history row.             *)

\* What a call has written to row r and not yet put in its history.
Owes(call, r) == IF call.pc = "record" /\ call.row = r THEN call.delta ELSE 0
Recording(all, r) == {c \in Calls : all[c].pc = "record" /\ all[c].row = r}
Deltas(all) == [c \in Calls |-> all[c].delta]
Owed(all, r) == Total(Deltas(all), Recording(all, r))
Holds(r) == IF row.id = r THEN row.quantity ELSE 0

LEMMA PendingOwed == ASSUME NEW r PROVE Pending(r) = Owed(calls, r) /\ Pending(r)' = Owed(calls', r)
<1>1. Pending(r) = Owed(calls, r)
  BY DEF Pending, Owed, Total, Deltas, Recording, MapThenSumSet, MapThenFoldSet
<1>2. Pending(r)' = Owed(calls', r)
  BY DEF Pending, Owed, Total, Deltas, Recording, MapThenSumSet, MapThenFoldSet
<1> QED
  BY <1>1, <1>2

LEMMA OwedType ==
    ASSUME NEW all \in [Calls -> Call], NEW r
    PROVE  /\ IsFiniteSet(Recording(all, r)) /\ \A d \in Calls : Deltas(all)[d] \in Int
           /\ Owed(all, r) \in Int
<1>1. Recording(all, r) \subseteq Calls /\ IsFiniteSet(Calls)
  BY KitchenAssumption DEF Recording
<1>2. IsFiniteSet(Recording(all, r))
  BY <1>1, FS_Subset
<1>3. \A d \in Calls : Deltas(all)[d] \in Int
  BY DEF Deltas, Call
<1>4. Owed(all, r) \in Int
  BY <1>1, <1>2, <1>3, TotalType DEF Owed
<1> QED
  BY <1>2, <1>3, <1>4

\* All but one of the calls.
LEMMA OwedLess ==
    ASSUME NEW all \in [Calls -> Call], NEW r, NEW c \in Calls
    PROVE  /\ Owed(all, r) = Owes(all[c], r) + Total(Deltas(all), Recording(all, r) \ {c})
           /\ Total(Deltas(all), Recording(all, r) \ {c}) \in Int
<1>1. /\ IsFiniteSet(Recording(all, r)) /\ Recording(all, r) \subseteq Calls
      /\ \A d \in Recording(all, r) : Deltas(all)[d] \in Int
  BY OwedType DEF Recording
<1>2. CASE c \in Recording(all, r)
  <2>1. /\ Owed(all, r) = Deltas(all)[c] + Total(Deltas(all), Recording(all, r) \ {c})
        /\ Total(Deltas(all), Recording(all, r) \ {c}) \in Int
    BY <1>1, <1>2, TotalLess DEF Owed
  <2>2. Owes(all[c], r) = Deltas(all)[c]
    BY <1>2 DEF Owes, Recording, Deltas
  <2> QED
    BY <2>1, <2>2
<1>3. CASE c \notin Recording(all, r)
  <2>1. Recording(all, r) \ {c} = Recording(all, r) /\ Owes(all[c], r) = 0
    BY <1>3 DEF Owes, Recording
  <2>2. Owed(all, r) \in Int
    BY OwedType
  <2> QED
    BY <2>1, <2>2 DEF Owed
<1> QED
  BY <1>2, <1>3

LEMMA OwedStep ==
    ASSUME NEW all \in [Calls -> Call], NEW next \in [Calls -> Call], NEW c \in Calls, NEW r,
           \A d \in Calls : d # c => next[d] = all[d]
    PROVE  Owed(next, r) = Owed(all, r) + Owes(next[c], r) - Owes(all[c], r)
<1>1. Recording(next, r) \ {c} = Recording(all, r) \ {c}
  BY DEF Recording
<1> DEFINE others == Recording(all, r) \ {c}
<1>2. Total(Deltas(next), others) = Total(Deltas(all), others)
  <2>1. others \subseteq Calls /\ c \notin others /\ IsFiniteSet(others)
    <3>1. IsFiniteSet(Recording(all, r)) /\ Recording(all, r) \subseteq Calls
      BY OwedType DEF Recording
    <3> QED
      BY <3>1, FS_Subset
  <2>2. \A d \in others : Deltas(next)[d] \in Int
    BY <2>1, OwedType
  <2>3. \A d \in others : Deltas(next)[d] = Deltas(all)[d]
    BY <2>1 DEF Deltas
  <2> HIDE DEF others
  <2> QED
    BY <2>1, <2>2, <2>3, TotalSame
<1>3. PICK rest \in Int : rest = Total(Deltas(all), others)
  BY OwedLess
<1>4. Owed(all, r) = Owes(all[c], r) + rest
  BY <1>3, OwedLess
<1>5. Owed(next, r) = Owes(next[c], r) + rest
  BY <1>1, <1>2, <1>3, OwedLess
<1>6. Owes(all[c], r) \in Int /\ Owes(next[c], r) \in Int
  BY DEF Owes, Call
<1> QED
  BY <1>4, <1>5, <1>6

\* What a call changes of the row it changes of the history, or owes it.
LEMMA AccountKept ==
    ASSUME TypeOK, TypeOK', NothingUnexplained, NEW c \in Calls,
           \A d \in Calls : d # c => calls'[d] = calls[d],
           \A r \in Rows : book'[r].fair =>
               /\ book[r].fair
               /\ book'[r].sum + Owes(calls'[c], r) - Holds(r)' = book[r].sum + Owes(calls[c], r) - Holds(r)
    PROVE  NothingUnexplained'
<1> SUFFICES ASSUME NEW r \in Rows, book'[r].fair PROVE book'[r].sum + Owed(calls', r) = Holds(r)'
  BY PendingOwed DEF NothingUnexplained, Holds
<1>1. book[r].sum + Owed(calls, r) = Holds(r)
  BY PendingOwed DEF NothingUnexplained, Holds
<1>2. calls \in [Calls -> Call] /\ calls' \in [Calls -> Call]
  BY DEF TypeOK
<1>3. Owed(calls', r) = Owed(calls, r) + Owes(calls'[c], r) - Owes(calls[c], r)
  BY <1>2, OwedStep
<1>4. Owed(calls, r) \in Int
  BY <1>2, OwedType
<1>5. Owes(calls[c], r) \in Int /\ Owes(calls'[c], r) \in Int
  BY <1>2 DEF Owes, Call
<1>6. book[r].sum \in Int /\ book'[r].sum \in Int
  BY DEF TypeOK, Book
<1>7. Holds(r) \in Int /\ Holds(r)' \in Int
  BY DEF TypeOK, Row, Holds
<1>8. PICK before \in Int, after \in Int : before = Holds(r) /\ after = Holds(r)'
  BY <1>7
<1>9. book'[r].sum + Owes(calls'[c], r) - after = book[r].sum + Owes(calls[c], r) - before
  BY <1>8
<1>10. book'[r].sum + Owed(calls', r) = after
  BY <1>1, <1>3, <1>4, <1>5, <1>6, <1>8, <1>9
<1> QED
  BY <1>8, <1>10

\* A call that goes on with neither the row nor the history, and owes nothing.
LEMMA AccountQuiet ==
    ASSUME TypeOK, TypeOK', NothingUnexplained, NEW c \in Calls, NEW call, Becomes(c, call),
           calls[c].pc # "record", call.pc # "record", UNCHANGED <<row, book>>
    PROVE  NothingUnexplained'
<1>1. calls'[c] = call /\ \A d \in Calls : d # c => calls'[d] = calls[d]
  BY DEF TypeOK, Becomes
<1>2. \A r \in Rows : Owes(calls'[c], r) = 0 /\ Owes(calls[c], r) = 0 /\ Holds(r)' = Holds(r)
  BY <1>1 DEF Owes, Holds
<1> QED
  BY <1>1, <1>2, AccountKept

LEMMA AccountBegins ==
    ASSUME TypeOK, TypeOK', NothingUnexplained, NEW c \in Calls, NEW call, Begins(c, call),
           call.pc # "record", UNCHANGED stock
    PROVE  NothingUnexplained'
<1>1. calls[c].pc # "record" /\ Becomes(c, call)
  BY DEF Begins, Becomes, Idle
<1> QED
  BY <1>1, AccountQuiet DEF stock

\* A call that has changed the row by what it owes the history, or has lost the history's trust.
LEMMA AccountOwes ==
    ASSUME TypeOK, TypeOK', NothingUnexplained, NEW c \in Calls, NEW one, NEW delta \in Int,
           WillRecord(c, one, delta), calls[c].pc # "record",
           \A r \in Rows : book'[r].fair => book[r].fair /\ book'[r].sum = book[r].sum,
           \A r \in Rows : r # one => Holds(r)' = Holds(r),
           one \in Rows /\ book'[one].fair => Holds(one)' = Holds(one) + delta
    PROVE  NothingUnexplained'
<1>1. /\ calls'[c] = [calls[c] EXCEPT !.pc = "record", !.row = one, !.delta = delta]
      /\ \A d \in Calls : d # c => calls'[d] = calls[d]
      /\ calls[c] \in Call
  BY DEF TypeOK, WillRecord, Becomes
<1>2. calls'[c].pc = "record" /\ calls'[c].row = one /\ calls'[c].delta = delta
  BY <1>1 DEF Call
<1>3. ASSUME NEW r \in Rows, book'[r].fair
      PROVE  book'[r].sum + Owes(calls'[c], r) - Holds(r)' = book[r].sum + Owes(calls[c], r) - Holds(r)
  <2>1. book[r].sum \in Int /\ book'[r].sum = book[r].sum
    BY <1>3 DEF TypeOK, Book
  <2>2. Holds(r) \in Int
    BY DEF TypeOK, Row, Holds
  <2>3. Owes(calls[c], r) = 0 /\ Owes(calls'[c], r) = IF r = one THEN delta ELSE 0
    BY <1>2 DEF Owes
  <2>4. CASE r = one
    BY <1>3, <2>1, <2>2, <2>3, <2>4
  <2>5. CASE r # one
    BY <2>1, <2>2, <2>3, <2>5
  <2> QED
    BY <2>4, <2>5
<1> QED
  BY <1>1, <1>3, AccountKept

LEMMA AccountCreates ==
    ASSUME TypeOK, TypeOK', NothingUnexplained, NEW c \in Calls, Find(c) \/ Create(c) \/ Merge(c)
    PROVE  NothingUnexplained'
<1>0. calls[c] \in Call /\ row \in Row /\ calls \in [Calls -> Call] /\ book \in [Rows -> Book]
  BY DEF TypeOK
<1>1. CASE Find(c)
  <2>1. calls[c].pc # "record" /\ UNCHANGED <<row, book>>
    BY <1>1 DEF Find, stock
  <2>2. CASE Becomes(c, Idle)
    BY <2>1, <2>2, AccountQuiet DEF Idle
  <2>3. CASE Becomes(c, [calls[c] EXCEPT !.pc = "take", !.row = row.id, !.seen = row.quantity])
    <3>1. [calls[c] EXCEPT !.pc = "take", !.row = row.id, !.seen = row.quantity].pc = "take"
      BY <1>0 DEF Call
    <3> QED
      BY <2>1, <2>3, <3>1, AccountQuiet
  <2>4. CASE Becomes(c, [calls[c] EXCEPT !.pc = "create"])
    <3>1. [calls[c] EXCEPT !.pc = "create"].pc = "create"
      BY <1>0 DEF Call
    <3> QED
      BY <2>1, <2>4, <3>1, AccountQuiet
  <2>5. ASSUME NEW delta \in Amounts,
               Becomes(c, [calls[c] EXCEPT !.pc = "merge", !.row = row.id,
                                           !.seen = row.quantity, !.delta = delta])
        PROVE  NothingUnexplained'
    <3>1. [calls[c] EXCEPT !.pc = "merge", !.row = row.id,
                           !.seen = row.quantity, !.delta = delta].pc = "merge"
      BY <1>0 DEF Call
    <3> QED
      BY <2>1, <2>5, <3>1, AccountQuiet
  <2> QED
    BY <1>1, <2>2, <2>3, <2>4, <2>5 DEF Find, Ends
<1>2. CASE Create(c)
  <2>1. calls[c].pc # "record" /\ book' = book
    BY <1>2 DEF Create
  <2>2. CASE row.id = None
    <3>1. WillRecord(c, rows + 1, calls[c].amount) /\ row' = [id |-> rows + 1, quantity |-> calls[c].amount]
      BY <1>2, <2>2 DEF Create
    <3>2. calls[c].amount \in Int
      BY <1>0 DEF Call
    <3>3. \A r \in Rows : Holds(r) = 0 /\ Holds(r)' = IF r = rows + 1 THEN calls[c].amount ELSE 0
      BY <2>2, <3>1 DEF Holds, Rows, None
    <3>4. PICK one : one = rows + 1
      OBVIOUS
    <3>5. /\ WillRecord(c, one, calls[c].amount)
          /\ \A r \in Rows : Holds(r) = 0 /\ Holds(r)' = IF r = one THEN calls[c].amount ELSE 0
      BY <3>1, <3>3, <3>4
    <3> QED
      BY <2>1, <3>2, <3>5, AccountOwes
  <2>3. CASE row.id # None
    <3>1. Becomes(c, Idle) /\ row' = row /\ Idle.pc # "record"
      BY <1>2, <2>3 DEF Create, Ends, Idle
    <3> QED
      BY <2>1, <3>1, AccountQuiet
  <2> QED
    BY <2>2, <2>3
<1>3. CASE Merge(c)
  <2>1. calls[c].pc # "record" /\ book' = book
    BY <1>3 DEF Merge
  <2>2. CASE row.id = calls[c].row
    <3>1. WillRecord(c, row.id, calls[c].delta) /\ row' = [row EXCEPT !.quantity = @ + calls[c].delta]
      BY <1>3, <2>2 DEF Merge
    <3>2. calls[c].delta \in Int
      BY <1>0 DEF Call
    <3>3. /\ \A r \in Rows : r # row.id => Holds(r)' = Holds(r)
          /\ Holds(row.id)' = Holds(row.id) + calls[c].delta
      BY <1>0, <3>1 DEF Holds, Row
    <3> QED
      BY <2>1, <3>1, <3>2, <3>3, AccountOwes
  <2>3. CASE row.id # calls[c].row
    <3>1. Becomes(c, Idle) /\ row' = row /\ Idle.pc # "record"
      BY <1>3, <2>3 DEF Merge, Ends, Idle
    <3> QED
      BY <2>1, <3>1, AccountQuiet
  <2> QED
    BY <2>2, <2>3
<1> QED
  BY <1>1, <1>2, <1>3

\* A call whose row is not the one it has read any more says so.
LEMMA Distrusted ==
    ASSUME TypeOK, NEW c \in Calls, Distrust(c)
    PROVE  /\ \A r \in Rows : book'[r].fair => book[r].fair /\ book'[r].sum = book[r].sum
           /\ calls[c].row \in Rows /\ book'[calls[c].row].fair =>
                  row.id = calls[c].row /\ row.quantity = calls[c].seen
BY DEF TypeOK, Distrust, Stale, Book

LEMMA AccountOverwrites ==
    ASSUME TypeOK, TypeOK', NothingUnexplained, NEW c \in Calls, Take(c) \/ Correct(c) \/ Delete(c)
    PROVE  NothingUnexplained'
<1>0. calls[c] \in Call /\ row \in Row /\ calls \in [Calls -> Call] /\ book \in [Rows -> Book]
  BY DEF TypeOK
<1>1. calls[c].seen \in Nat /\ calls[c].amount \in Nat /\ calls[c].pc # "record"
  BY <1>0 DEF Call, Take, Correct, Delete
<1> PICK one : one = calls[c].row
  OBVIOUS
<1> PICK seen \in Nat : seen = calls[c].seen
  BY <1>1
<1>6. ASSUME Distrust(c)
      PROVE  /\ \A r \in Rows : book'[r].fair => book[r].fair /\ book'[r].sum = book[r].sum
             /\ one \in Rows /\ book'[one].fair => row.id = one /\ row.quantity = seen
  BY <1>6, Distrusted
<1>2. CASE Take(c)
  <2>1. PICK left : left = Left(seen, calls[c].amount)
    OBVIOUS
  <2>2. /\ row' = IF row.id = one THEN [row EXCEPT !.quantity = left] ELSE row
        /\ WillRecord(c, one, left - seen) /\ Distrust(c)
    BY <1>2, <2>1 DEF Take
  <2>3. left \in Nat /\ left - seen \in Int
    BY <1>1, <2>1 DEF Left
  <2>4. \A r \in Rows : r # one => Holds(r)' = Holds(r)
    BY <1>0, <2>2 DEF Holds, Row
  <2>5. one \in Rows /\ book'[one].fair =>
             Holds(one)' = Holds(one) + (left - seen)
    <3> SUFFICES ASSUME one \in Rows, book'[one].fair
                 PROVE  Holds(one)' = Holds(one) + (left - seen)
      OBVIOUS
    <3>1. row.id = one /\ row.quantity = seen
      BY <2>2, <1>6
    <3>2. row'.id = one /\ row'.quantity = left
      BY <1>0, <2>2, <3>1 DEF Row
    <3>3. Holds(one)' = left /\ Holds(one) = seen
      BY <3>1, <3>2 DEF Holds
    <3> QED
      BY <1>1, <2>3, <3>3
  <2>6. \A r \in Rows : book'[r].fair => book[r].fair /\ book'[r].sum = book[r].sum
    BY <2>2, <1>6
  <2> QED
    BY <1>1, <2>2, <2>3, <2>4, <2>5, <2>6, AccountOwes
<1>3. CASE Correct(c) /\ row.id = one
  <2>1. /\ row' = [row EXCEPT !.quantity = calls[c].amount] /\ Distrust(c)
        /\ IF calls[c].amount # seen
             THEN WillRecord(c, one, calls[c].amount - seen) ELSE Ends(c)
    BY <1>3 DEF Correct
  <2>2. row'.id = one /\ row'.quantity = calls[c].amount
    BY <1>0, <1>3, <2>1 DEF Row
  <2>3. \A r \in Rows : r # one => Holds(r)' = Holds(r)
    BY <1>3, <2>2 DEF Holds
  <2>4. /\ Holds(one)' = calls[c].amount
        /\ one \in Rows /\ book'[one].fair => Holds(one) = seen
    BY <1>3, <2>1, <2>2, <1>6 DEF Holds
  <2>5. \A r \in Rows : book'[r].fair => book[r].fair /\ book'[r].sum = book[r].sum
    BY <2>1, <1>6
  <2>6. CASE calls[c].amount # seen
    <3>1. WillRecord(c, one, calls[c].amount - seen)
      BY <2>1, <2>6
    <3>2. /\ calls[c].amount - seen \in Int
          /\ one \in Rows /\ book'[one].fair =>
                 Holds(one)' = Holds(one) + (calls[c].amount - seen)
      BY <1>1, <2>4
    <3> QED
      BY <1>1, <2>3, <2>5, <3>1, <3>2, AccountOwes
  <2>7. CASE calls[c].amount = seen
    <3>1. calls'[c] = Idle /\ \A d \in Calls : d # c => calls'[d] = calls[d]
      BY <1>0, <2>1, <2>7 DEF Ends, Becomes
    <3>2. \A r \in Rows : Owes(calls'[c], r) = 0 /\ Owes(calls[c], r) = 0
      BY <1>1, <3>1 DEF Owes, Idle
    <3>3. \A r \in Rows : book'[r].fair => Holds(r)' = Holds(r)
      BY <2>3, <2>4, <2>7
    <3> QED
      BY <2>5, <3>1, <3>2, <3>3, AccountKept
  <2> QED
    BY <2>6, <2>7
<1>4. CASE Correct(c) /\ row.id # one
  <2>1. Becomes(c, Idle) /\ UNCHANGED <<row, book>> /\ Idle.pc # "record"
    BY <1>4 DEF Correct, Ends, Idle
  <2> QED
    BY <1>1, <2>1, AccountQuiet
<1>5. CASE Delete(c)
  <2>1. /\ row' = IF row.id = one THEN Absent ELSE row
        /\ WillRecord(c, one, -seen) /\ Distrust(c)
    BY <1>5 DEF Delete
  <2>2. \A r \in Rows : r # one => Holds(r)' = Holds(r)
    <3> TAKE r \in Rows
    <3>1. r # None
      BY DEF Rows, None
    <3> QED
      BY <2>1, <3>1 DEF Holds, Absent
  <2>3. one \in Rows /\ book'[one].fair =>
             Holds(one)' = Holds(one) + (-seen)
    <3> SUFFICES ASSUME one \in Rows, book'[one].fair
                 PROVE  Holds(one)' = Holds(one) + (-seen)
      OBVIOUS
    <3>1. row.id = one /\ row.quantity = seen
      BY <2>1, <1>6
    <3>2. row'.quantity = 0
      BY <2>1, <3>1 DEF Absent
    <3>3. Holds(one)' = 0 /\ Holds(one) = seen
      BY <3>1, <3>2 DEF Holds
    <3> QED
      BY <1>1, <3>3
  <2>4. \A r \in Rows : book'[r].fair => book[r].fair /\ book'[r].sum = book[r].sum
    BY <2>1, <1>6
  <2>5. -seen \in Int
    BY <1>1
  <2> QED
    BY <1>1, <2>1, <2>2, <2>3, <2>4, <2>5, AccountOwes
<1> QED
  BY <1>2, <1>3, <1>4, <1>5

LEMMA AccountRecords ==
    ASSUME TypeOK, TypeOK', NothingUnexplained, NEW c \in Calls, Record(c) \/ RecordFails(c) \/ Dies(c)
    PROVE  NothingUnexplained'
<1>0. calls[c] \in Call /\ row \in Row /\ calls \in [Calls -> Call] /\ book \in [Rows -> Book]
  BY DEF TypeOK
<1>1. row' = row /\ \A r \in Rows : Holds(r)' = Holds(r)
  BY DEF Record, RecordFails, Dies, Holds
<1>2. calls'[c].pc # "record" /\ \A d \in Calls : d # c => calls'[d] = calls[d]
  <2>1. ASSUME NEW call, Becomes(c, call), call.pc # "record"
        PROVE  calls'[c].pc # "record" /\ \A d \in Calls : d # c => calls'[d] = calls[d]
    BY <1>0, <2>1 DEF Becomes
  <2>2. CASE Becomes(c, Idle)
    BY <2>1, <2>2 DEF Idle
  <2>3. ASSUME NEW amount \in Amounts,
               Becomes(c, [Idle EXCEPT !.kind = calls[c].kind, !.pc = "find", !.amount = amount])
        PROVE  calls'[c].pc # "record" /\ \A d \in Calls : d # c => calls'[d] = calls[d]
    <3>1. [Idle EXCEPT !.kind = calls[c].kind, !.pc = "find", !.amount = amount].pc = "find"
      BY DEF Idle
    <3> QED
      BY <2>1, <2>3, <3>1
  <2> QED
    BY <2>2, <2>3 DEF Record, RecordFails, Dies, Goes, Ends
<1>3. \A r \in Rows : Owes(calls'[c], r) = 0
  BY <1>2 DEF Owes
<1>4. CASE Record(c)
  <2>1. book' = [book EXCEPT ![calls[c].row].sum = @ + calls[c].delta] /\ calls[c].pc = "record"
    BY <1>4 DEF Record
  <2>2. ASSUME NEW r \in Rows
        PROVE  /\ book'[r].fair = book[r].fair
               /\ book'[r].sum = IF r = calls[c].row THEN book[r].sum + calls[c].delta ELSE book[r].sum
               /\ Owes(calls[c], r) = IF r = calls[c].row THEN calls[c].delta ELSE 0
               /\ book[r].sum \in Int /\ calls[c].delta \in Int /\ Holds(r) \in Int
    <3>1. /\ book'[r].fair = book[r].fair
          /\ book'[r].sum = IF r = calls[c].row THEN book[r].sum + calls[c].delta ELSE book[r].sum
      BY <1>0, <2>1 DEF Book
    <3>2. Owes(calls[c], r) = IF r = calls[c].row THEN calls[c].delta ELSE 0
      BY <2>1 DEF Owes
    <3>3. book[r].sum \in Int /\ calls[c].delta \in Int /\ Holds(r) \in Int
      BY <1>0 DEF Book, Call, Row, Holds
    <3> QED
      BY <3>1, <3>2, <3>3
  <2>3. ASSUME NEW r \in Rows
        PROVE  book'[r].sum + Owes(calls'[c], r) - Holds(r)' = book[r].sum + Owes(calls[c], r) - Holds(r)
    BY <1>1, <1>3, <2>2
  <2> QED
    BY <1>2, <2>2, <2>3, AccountKept
<1>5. CASE RecordFails(c) \/ Dies(c)
  <2>1. book' = IF calls[c].pc = "record" THEN [book EXCEPT ![calls[c].row].fair = FALSE] ELSE book
    BY <1>5 DEF RecordFails, Dies
  <2>2. ASSUME NEW r \in Rows, book'[r].fair
        PROVE  book[r].fair /\ book'[r].sum = book[r].sum /\ Owes(calls[c], r) = 0
    BY <1>0, <2>1, <2>2 DEF Book, Owes
  <2> QED
    BY <1>1, <1>2, <1>3, <2>2, AccountKept
<1> QED
  BY <1>4, <1>5

LEMMA AccountShops ==
    ASSUME TypeOK, TypeOK', NothingUnexplained, NEW c \in Calls, Shops(c)
    PROVE  NothingUnexplained'
<1>0. calls[c] \in Call /\ calls \in [Calls -> Call]
  BY DEF TypeOK
<1>1. CASE (\E amount \in Amounts : BeginList(c, amount)) \/ BeginTick(c) \/ BeginUntick(c)
  <2>1. ASSUME NEW amount \in Amounts, BeginList(c, amount) PROVE NothingUnexplained'
    <3> DEFINE call == [Idle EXCEPT !.kind = "list", !.pc = IF item.id = None THEN "list" ELSE "bump",
                                    !.listing = item.id, !.amount = amount]
    <3>1. call.pc # "record"
      BY DEF Idle
    <3>2. Begins(c, call) /\ UNCHANGED stock
      BY <2>1 DEF BeginList
    <3> HIDE DEF call
    <3> QED
      BY <3>1, <3>2, AccountBegins
  <2>2. CASE BeginTick(c)
    <3> DEFINE call == [Idle EXCEPT !.kind = "tick", !.pc = "stamp", !.listing = item.id,
                                    !.moved = item.moved, !.amount = item.quantity]
    <3>1. call.pc # "record"
      BY DEF Idle
    <3>2. Begins(c, call) /\ UNCHANGED stock
      BY <2>2 DEF BeginTick
    <3> QED
      BY <3>1, <3>2, AccountBegins
  <2>3. CASE BeginUntick(c)
    <3> DEFINE call == [Idle EXCEPT !.kind = "untick", !.pc = "clear", !.listing = item.id]
    <3>1. call.pc # "record"
      BY DEF Idle
    <3>2. Begins(c, call) /\ UNCHANGED stock
      BY <2>3 DEF BeginUntick
    <3> QED
      BY <3>1, <3>2, AccountBegins
  <2> QED
    BY <1>1, <2>1, <2>2, <2>3
<1>2. CASE List(c) \/ Bump(c) \/ Stamp(c) \/ Unstamp(c)
  <2>1. calls[c].pc # "record" /\ UNCHANGED <<row, book>>
    BY <1>2 DEF List, Bump, Stamp, Unstamp, stock
  <2>2. CASE Becomes(c, Idle)
    BY <2>1, <2>2, AccountQuiet DEF Idle
  <2>3. CASE Becomes(c, [calls[c] EXCEPT !.pc = "find"])
    <3>1. [calls[c] EXCEPT !.pc = "find"].pc = "find"
      BY <1>0 DEF Call
    <3> QED
      BY <2>1, <2>3, <3>1, AccountQuiet
  <2> QED
    BY <1>2, <2>2, <2>3 DEF List, Bump, Stamp, Unstamp, Ends
<1> QED
  BY <1>1, <1>2 DEF Shops

LEMMA AccountStocks ==
    ASSUME TypeOK, TypeOK', NothingUnexplained, NEW c \in Calls, Stocks(c)
    PROVE  NothingUnexplained'
<1>1. CASE \/ \E amount \in Amounts : BeginAdd(c, amount) \/ BeginCook(c, amount)
           \/ \E amount \in 0..MaxAmount : BeginUpdate(c, amount)
           \/ BeginSeed(c) \/ BeginRemove(c)
  <2>1. ASSUME NEW amount \in Amounts, BeginAdd(c, amount) \/ BeginCook(c, amount)
        PROVE  NothingUnexplained'
    <3> DEFINE call(kind) == [Idle EXCEPT !.kind = kind, !.pc = "find", !.amount = amount]
    <3>1. call("add").pc # "record" /\ call("cook").pc # "record"
      BY DEF Idle
    <3>2. CASE BeginAdd(c, amount)
      <4>1. Begins(c, call("add")) /\ UNCHANGED stock
        BY <3>2 DEF BeginAdd
      <4> QED
        BY <3>1, <4>1, AccountBegins
    <3>3. CASE BeginCook(c, amount)
      <4>1. Begins(c, call("cook")) /\ UNCHANGED stock
        BY <3>3 DEF BeginCook
      <4> QED
        BY <3>1, <4>1, AccountBegins
    <3> QED
      BY <2>1, <3>2, <3>3
  <2>2. ASSUME NEW amount \in 0..MaxAmount, BeginUpdate(c, amount) PROVE NothingUnexplained'
    <3> DEFINE call == [Idle EXCEPT !.kind = "update", !.pc = "correct", !.row = row.id,
                                    !.seen = row.quantity, !.amount = amount]
    <3>1. call.pc # "record"
      BY DEF Idle
    <3>2. Begins(c, call) /\ UNCHANGED stock
      BY <2>2 DEF BeginUpdate
    <3> QED
      BY <3>1, <3>2, AccountBegins
  <2>3. CASE BeginSeed(c)
    <3>1. [Idle EXCEPT !.kind = "seed", !.pc = "create", !.amount = 1].pc # "record"
      BY DEF Idle
    <3>2. Begins(c, [Idle EXCEPT !.kind = "seed", !.pc = "create", !.amount = 1]) /\ UNCHANGED stock
      BY <2>3 DEF BeginSeed
    <3> QED
      BY <3>1, <3>2, AccountBegins
  <2>4. CASE BeginRemove(c)
    <3> DEFINE call == [Idle EXCEPT !.kind = "remove", !.pc = "delete", !.row = row.id,
                                    !.seen = row.quantity]
    <3>1. call.pc # "record"
      BY DEF Idle
    <3>2. Begins(c, call) /\ UNCHANGED stock
      BY <2>4 DEF BeginRemove
    <3> QED
      BY <3>1, <3>2, AccountBegins
  <2> QED
    BY <1>1, <2>1, <2>2, <2>3, <2>4
<1> QED
  BY <1>1, AccountCreates, AccountOverwrites, AccountRecords DEF Stocks

(* No count changes without a reason in the history, whatever the calls    *)
(* under way are: what was recorded of a row and what is still owed make   *)
(* up what it holds, unless a call overwrote a count it had not read or a  *)
(* history row failed (StockService.add, consume, update and remove).      *)
THEOREM CountsAreExplained == Spec => []NothingUnexplained
<1>1. Init => NothingUnexplained
  <2> SUFFICES ASSUME Init, NEW r \in Rows
               PROVE  book[r].sum + Pending(r) = (IF row.id = r THEN row.quantity ELSE 0)
    BY DEF NothingUnexplained
  <2>1. Recording(calls, r) = {}
    BY DEF Init, Recording, Idle
  <2>2. Pending(r) = 0
    BY <2>1, PendingOwed, TotalEmpty DEF Owed
  <2>3. book[r].sum = 0 /\ row.id = None /\ r # None
    BY DEF Init, Absent, Rows, None
  <2> QED
    BY <2>2, <2>3
<1>2. TypeOK /\ TypeOK' /\ NothingUnexplained /\ [Next]_vars => NothingUnexplained'
  <2> SUFFICES ASSUME TypeOK, TypeOK', NothingUnexplained, [Next]_vars PROVE NothingUnexplained'
    OBVIOUS
  <2>1. ASSUME NEW c \in Calls, Stocks(c) \/ Shops(c) \/ Dies(c) PROVE NothingUnexplained'
    BY <2>1, AccountStocks, AccountShops, AccountRecords
  <2>2. CASE Unlist \/ ClearBought \/ UNCHANGED vars
    <3>1. calls' = calls /\ book' = book /\ row' = row
      BY <2>2 DEF Unlist, ClearBought, vars, stock
    <3>2. \A r : Pending(r)' = Pending(r)
      BY <3>1, PendingOwed
    <3> QED
      BY <3>1, <3>2 DEF NothingUnexplained
  <2> QED
    BY <2>1, <2>2 DEF Next
<1> QED
  BY <1>1, <1>2, TypeCorrect, PTL DEF Spec
===============================================================================
