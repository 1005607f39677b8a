------------------------------- MODULE Kitchen -------------------------------
(***************************************************************************)
(* One ingredient of one person: its row in the stock, the history of that *)
(* row, and its row on the market list (src/features/stock,                *)
(* src/features/market, and markCooked of src/features/meals).             *)
(*                                                                         *)
(* Every call is a chain of awaited reads and writes; each step below ends *)
(* at one, and calls interleave between their steps.  Batches and meals    *)
(* take their ingredients one after the other, so one that names this      *)
(* ingredient twice comes back to it.                                      *)
(*                                                                         *)
(* Quantities are whole numbers.  What an amount comes to in the unit of   *)
(* the row is a choice, and so is whether the unit is known.  A call that  *)
(* is refused without writing anything is not a step.                      *)
(***************************************************************************)
EXTENDS Integers, FiniteSets, FiniteSetsExt

CONSTANTS
    NRows,      \* bound: stock rows ever created
    NListings,  \* bound: market rows ever created
    MaxAmount,  \* bound: an amount added, bought, cooked or corrected to
    MaxTotal,   \* bound: adds stop when the row or the listing holds more
    Calls,      \* bound: calls in flight at once
    MaxCalls,   \* bound: calls ever begun, and ingredients they go on to
    MaxFaults   \* bound: calls that die and history rows that fail

Rows == 1..NRows
Listings == 1..NListings
Amounts == 1..MaxAmount
None == 0

ASSUME KitchenAssumption ==
    /\ NRows \in Nat /\ NListings \in Nat
    /\ MaxAmount \in Nat \ {0} /\ MaxTotal \in Nat
    /\ MaxCalls \in Nat /\ MaxFaults \in Nat
    /\ IsFiniteSet(Calls)

VARIABLES
    row,      \* stock_items: the row of this ingredient
    rows,     \* stock rows created so far
    book,     \* stock_movements, summed up per row
    item,     \* market_items: the row of this ingredient
    listings, \* market rows created so far
    calls,    \* where each call is
    begun, faults  \* what has been spent of each bound

spent == <<begun, faults>>
stock == <<row, rows, book>>
market == <<item, listings>>
vars == <<stock, market, calls, spent>>

Row == [id : Rows \cup {None}, quantity : Nat]

(* `fair` is FALSE once the sum cannot be expected to agree with the row:  *)
(* a count was overwritten or deleted by a call that had read another one, *)
(* or a history row failed.                                                *)
Book == [sum : Int, fair : BOOLEAN]

(* History: `stocked`, how much of it was moved into stock; `clean`, FALSE *)
(* once it was ticked by two calls at once or put back on the list after a *)
(* move; `lost`, TRUE once a move was begun and not made.                  *)
Item == [id : Listings \cup {None}, quantity : Nat, bought : BOOLEAN, moved : BOOLEAN,
         stocked : Nat, clean : BOOLEAN, lost : BOOLEAN]

(* `row` and `seen` are the stock row and the count the call has read,     *)
(* `listing` and `moved` the market row and its stamp; `amount` is what it *)
(* was asked for, `delta` what it will put in the history.                 *)
Kind == {"none", "add", "seed", "cook", "update", "remove", "list", "tick", "untick"}
Step == {"idle", "find", "create", "merge", "take", "correct", "delete", "record",
         "list", "bump", "stamp", "clear"}
Call == [kind : Kind, pc : Step, row : Rows \cup {None}, seen : Nat,
         listing : Listings \cup {None}, moved : BOOLEAN, amount : Nat, delta : Int]

Absent == [id |-> None, quantity |-> 0]
Unlisted == [id |-> None, quantity |-> 0, bought |-> FALSE, moved |-> FALSE,
             stocked |-> 0, clean |-> TRUE, lost |-> FALSE]
Idle == [kind |-> "none", pc |-> "idle", row |-> None, seen |-> 0,
         listing |-> None, moved |-> FALSE, amount |-> 0, delta |-> 0]

Init ==
    /\ row = Absent /\ rows = 0
    /\ book = [r \in Rows |-> [sum |-> 0, fair |-> TRUE]]
    /\ item = Unlisted /\ listings = 0
    /\ calls = [c \in Calls |-> Idle]
    /\ begun = 0 /\ faults = 0

Begins(c, call) ==
    /\ calls[c] = Idle
    /\ begun < MaxCalls
    /\ begun' = begun + 1
    /\ calls' = [calls EXCEPT ![c] = call]
    /\ UNCHANGED faults

Becomes(c, call) == calls' = [calls EXCEPT ![c] = call]
Ends(c) == Becomes(c, Idle)

(* The history row comes last, and names the row that was read.            *)
WillRecord(c, r, delta) ==
    Becomes(c, [calls[c] EXCEPT !.pc = "record", !.row = r, !.delta = delta])

-------------------------------------------------------------------------------
(* Adding to the stock.                                                    *)

BeginAdd(c, amount) ==
    /\ Begins(c, [Idle EXCEPT !.kind = "add", !.pc = "find", !.amount = amount])
    /\ UNCHANGED <<stock, market>>

(* seedFromNames: only where there is no row yet, and one of it.           *)
BeginSeed(c) ==
    /\ row.id = None
    /\ Begins(c, [Idle EXCEPT !.kind = "seed", !.pc = "create", !.amount = 1])
    /\ UNCHANGED <<stock, market>>

Find(c) ==
    /\ calls[c].pc = "find"
    /\ IF calls[c].kind = "cook"
         THEN IF row.id = None THEN Ends(c)
              ELSE Becomes(c, [calls[c] EXCEPT !.pc = "take", !.row = row.id,
                                               !.seen = row.quantity])
         ELSE IF row.id = None THEN Becomes(c, [calls[c] EXCEPT !.pc = "create"])
              ELSE \E delta \in Amounts :
                     Becomes(c, [calls[c] EXCEPT !.pc = "merge", !.row = row.id,
                                                 !.seen = row.quantity, !.delta = delta])
    /\ UNCHANGED <<stock, market, spent>>

(* A tick has made its move, or has lost it. *)
Moves(c, done) ==
    IF calls[c].kind = "tick" /\ calls[c].listing = item.id
      THEN item' = IF done THEN [item EXCEPT !.stocked = @ + calls[c].amount]
                   ELSE [item EXCEPT !.lost = TRUE]
      ELSE UNCHANGED item

(* The unique index refuses the loser of a race, which throws it all away. *)
Create(c) ==
    /\ calls[c].pc = "create"
    /\ IF row.id = None
         THEN /\ rows < NRows /\ rows' = rows + 1
              /\ row' = [id |-> rows + 1, quantity |-> calls[c].amount]
              /\ WillRecord(c, rows + 1, calls[c].amount)
         ELSE Ends(c) /\ UNCHANGED <<row, rows>>
    /\ Moves(c, row.id = None)
    /\ UNCHANGED <<book, listings, spent>>

(* Adding to the count that was read.                                      *)
MergeRead(c) ==
    /\ calls[c].pc = "merge"
    /\ row.quantity < MaxTotal
    /\ IF row.id = calls[c].row
         THEN /\ row' = [row EXCEPT !.quantity = calls[c].seen + calls[c].delta]
              /\ WillRecord(c, row.id, calls[c].delta)
         ELSE Ends(c) /\ UNCHANGED row
    /\ Moves(c, row.id = calls[c].row)
    /\ UNCHANGED <<rows, book, listings, spent>>

(* A row that has been removed since is passed over in silence. *)
Merge(c) ==
    /\ calls[c].pc = "merge"
    /\ row.quantity < MaxTotal
    /\ IF row.id = calls[c].row
         THEN /\ row' = [row EXCEPT !.quantity = @ + calls[c].delta]
              /\ WillRecord(c, row.id, calls[c].delta)
         ELSE Ends(c) /\ UNCHANGED row
    /\ Moves(c, row.id = calls[c].row)
    /\ UNCHANGED <<rows, book, listings, spent>>

(* recordMovement: a failure is logged and nothing else.  A batch or a     *)
(* meal may come to this ingredient once more, which is counted as a call. *)
Goes(c) ==
    \/ Ends(c) /\ UNCHANGED begun
    \/ /\ calls[c].kind \in {"add", "cook"}
       /\ begun < MaxCalls /\ begun' = begun + 1
       /\ \E amount \in Amounts :
            Becomes(c, [Idle EXCEPT !.kind = calls[c].kind, !.pc = "find", !.amount = amount])

Record(c) ==
    /\ calls[c].pc = "record"
    /\ book' = [book EXCEPT ![calls[c].row].sum = @ + calls[c].delta]
    /\ Goes(c)
    /\ UNCHANGED <<row, rows, market, faults>>

RecordFails(c) ==
    /\ calls[c].pc = "record"
    /\ faults < MaxFaults
    /\ faults' = faults + 1
    /\ book' = [book EXCEPT ![calls[c].row].fair = FALSE]
    /\ Goes(c)
    /\ UNCHANGED <<row, rows, market>>

-------------------------------------------------------------------------------
(* Cooking, correcting, removing: a read, then a write of what it came to. *)

BeginCook(c, amount) ==
    /\ Begins(c, [Idle EXCEPT !.kind = "cook", !.pc = "find", !.amount = amount])
    /\ UNCHANGED <<stock, market>>

(* The row is not the one the call has read any more. *)
Stale(c) == row.id # calls[c].row \/ row.quantity # calls[c].seen
Distrust(c) ==
    book' = IF Stale(c) THEN [book EXCEPT ![calls[c].row].fair = FALSE] ELSE book

(* Never below zero. *)
Left(seen, amount) == IF amount > seen THEN 0 ELSE seen - amount

Take(c) ==
    /\ calls[c].pc = "take"
    /\ LET left == Left(calls[c].seen, calls[c].amount)
       IN /\ row' = IF row.id = calls[c].row THEN [row EXCEPT !.quantity = left] ELSE row
          /\ WillRecord(c, calls[c].row, left - calls[c].seen)
    /\ Distrust(c)
    /\ UNCHANGED <<rows, market, spent>>

BeginUpdate(c, amount) ==
    /\ row.id # None
    /\ Begins(c, [Idle EXCEPT !.kind = "update", !.pc = "correct", !.row = row.id,
                              !.seen = row.quantity, !.amount = amount])
    /\ UNCHANGED <<stock, market>>

Correct(c) ==
    /\ calls[c].pc = "correct"
    /\ IF row.id = calls[c].row
         THEN /\ row' = [row EXCEPT !.quantity = calls[c].amount]
              /\ IF calls[c].amount # calls[c].seen
                   THEN WillRecord(c, calls[c].row, calls[c].amount - calls[c].seen)
                   ELSE Ends(c)
              /\ Distrust(c)
         ELSE Ends(c) /\ UNCHANGED <<row, book>>
    /\ UNCHANGED <<rows, market, spent>>

BeginRemove(c) ==
    /\ row.id # None
    /\ Begins(c, [Idle EXCEPT !.kind = "remove", !.pc = "delete", !.row = row.id,
                              !.seen = row.quantity])
    /\ UNCHANGED <<stock, market>>

(* Whether it was this call that deleted the row is not looked at. *)
Delete(c) ==
    /\ calls[c].pc = "delete"
    /\ row' = IF row.id = calls[c].row THEN Absent ELSE row
    /\ WillRecord(c, calls[c].row, -calls[c].seen)
    /\ Distrust(c)
    /\ UNCHANGED <<rows, market, spent>>

-------------------------------------------------------------------------------
(* The market list.                                                        *)

(* A tick of it is on its way to move it into stock. *)
Moving(l) ==
    \E c \in Calls : /\ calls[c].kind = "tick" /\ calls[c].listing = l /\ ~calls[c].moved
                     /\ calls[c].pc \in {"stamp", "find", "create", "merge"}

BeginList(c, amount) ==
    /\ Begins(c, [Idle EXCEPT !.kind = "list", !.pc = IF item.id = None THEN "list" ELSE "bump",
                              !.listing = item.id, !.amount = amount])
    /\ UNCHANGED <<stock, market>>

List(c) ==
    /\ calls[c].pc = "list"
    /\ IF item.id = None
         THEN /\ listings < NListings /\ listings' = listings + 1
              /\ item' = [Unlisted EXCEPT !.id = listings + 1, !.quantity = calls[c].amount]
         ELSE UNCHANGED market
    /\ Ends(c)
    /\ UNCHANGED <<stock, spent>>

(* More of what is on the list: both stamps are taken back. *)
Bump(c) ==
    /\ calls[c].pc = "bump"
    /\ item.quantity < MaxTotal
    /\ item' = IF item.id # calls[c].listing THEN item
               ELSE [item EXCEPT !.quantity = @ + calls[c].amount, !.bought = FALSE,
                                 !.moved = FALSE, !.clean = @ /\ ~item.moved /\ ~Moving(item.id)]
    /\ Ends(c)
    /\ UNCHANGED <<stock, listings, spent>>

BeginTick(c) ==
    /\ item.id # None
    /\ Begins(c, [Idle EXCEPT !.kind = "tick", !.pc = "stamp", !.listing = item.id,
                              !.moved = item.moved, !.amount = item.quantity])
    /\ UNCHANGED <<stock, market>>

(* A tick goes on to the stock unless the listing it read had been moved;  *)
(* stockService.add may refuse the unit, and nobody looks.                 *)
Stamp(c) ==
    /\ calls[c].pc = "stamp"
    /\ \/ calls[c].moved /\ Ends(c)
       \/ ~calls[c].moved /\ Becomes(c, [calls[c] EXCEPT !.pc = "find"])
       \/ ~calls[c].moved /\ Ends(c)
    /\ item' = IF item.id # calls[c].listing THEN item
               ELSE [item EXCEPT !.bought = TRUE, !.moved = @ \/ ~calls[c].moved,
                                 !.clean = @ /\ item.moved = calls[c].moved,
                                 !.lost = @ \/ (~calls[c].moved /\ calls'[c] = Idle)]
    /\ UNCHANGED <<stock, listings, spent>>

BeginUntick(c) ==
    /\ item.id # None
    /\ Begins(c, [Idle EXCEPT !.kind = "untick", !.pc = "clear", !.listing = item.id])
    /\ UNCHANGED <<stock, market>>

(* Un-ticking forgets the move as well.                                    *)
UnstampBoth(c) ==
    /\ calls[c].pc = "clear"
    /\ item' = IF item.id = calls[c].listing
                 THEN [item EXCEPT !.bought = FALSE, !.moved = FALSE] ELSE item
    /\ Ends(c)
    /\ UNCHANGED <<stock, listings, spent>>

Unstamp(c) ==
    /\ calls[c].pc = "clear"
    /\ item' = IF item.id = calls[c].listing THEN [item EXCEPT !.bought = FALSE] ELSE item
    /\ Ends(c)
    /\ UNCHANGED <<stock, listings, spent>>

(* remove, and clearBought: one write of the database each. *)
Unlist ==
    /\ item.id # None
    /\ item' = Unlisted
    /\ UNCHANGED <<stock, listings, calls, spent>>

ClearBought ==
    /\ item.id # None /\ item.bought
    /\ item' = Unlisted
    /\ UNCHANGED <<stock, listings, calls, spent>>

-------------------------------------------------------------------------------
(* The database throws, or the process stops. *)
Dies(c) ==
    /\ calls[c] # Idle
    /\ faults < MaxFaults
    /\ faults' = faults + 1
    /\ book' = IF calls[c].pc = "record" THEN [book EXCEPT ![calls[c].row].fair = FALSE] ELSE book
    /\ IF calls[c].pc \in {"find", "create", "merge"} THEN Moves(c, FALSE) ELSE UNCHANGED item
    /\ Ends(c)
    /\ UNCHANGED <<row, rows, listings, begun>>

Stocks(c) ==
    \/ \E amount \in Amounts : BeginAdd(c, amount) \/ BeginCook(c, amount)
    \/ \E amount \in 0..MaxAmount : BeginUpdate(c, amount)
    \/ BeginSeed(c) \/ BeginRemove(c)
    \/ Find(c) \/ Create(c) \/ Merge(c) \/ Take(c) \/ Correct(c) \/ Delete(c)
    \/ Record(c) \/ RecordFails(c)

Shops(c) ==
    \/ \E amount \in Amounts : BeginList(c, amount)
    \/ List(c) \/ Bump(c)
    \/ BeginTick(c) \/ Stamp(c) \/ BeginUntick(c) \/ Unstamp(c)

Next ==
    \/ \E c \in Calls : Stocks(c) \/ Shops(c) \/ Dies(c)
    \/ Unlist \/ ClearBought

Spec == Init /\ [][Next]_vars
-------------------------------------------------------------------------------
(* Properties.                                                             *)

(* Every document and call has its declared shape; no count is negative    *)
(* (stock.service.ts, consume: "Never goes below zero").                   *)
TypeOK ==
    /\ row \in Row /\ rows \in 0..NRows
    /\ book \in [Rows -> Book]
    /\ item \in Item /\ listings \in 0..NListings
    /\ calls \in [Calls -> Call]
    /\ begun \in 0..MaxCalls /\ faults \in 0..MaxFaults

(* What calls have written to row r and not yet put in its history. *)
Pending(r) ==
    MapThenSumSet(LAMBDA c : calls[c].delta,
                  {c \in Calls : calls[c].pc = "record" /\ calls[c].row = r})

(* No count changes without a reason in the history, however adds, ticks,   *)
(* seeds and removals interleave: the movements of a row sum up to what it  *)
(* holds, and to nothing once it is removed.  The exceptions are a call     *)
(* that overwrote or deleted another count than it had read, and a history  *)
(* row that failed (stock.model.ts:9: "a count that changed for no visible  *)
(* reason is exactly the bug this catches").                                *)
NothingUnexplained ==
    \A r \in Rows :
        book[r].fair =>
            book[r].sum + Pending(r) = (IF row.id = r THEN row.quantity ELSE 0)

(* A listing is moved into the stock once, whatever ticking, un-ticking,    *)
(* re-ticking and dying calls follow each other, as long as no two ticks of *)
(* it overlap and it is not put back on the list: never more of it than it  *)
(* holds, all of it once it is stamped unless the move was lost, and never  *)
(* ticked without the stamp.                                                *)
MovedOnce ==
    item.id # None /\ item.clean =>
        /\ item.stocked <= item.quantity
        /\ item.bought => item.moved
        /\ item.moved /\ ~item.lost /\ ~Moving(item.id) => item.stocked = item.quantity

-------------------------------------------------------------------------------
(* Statements of the repository that the code does not keep.               *)

(* "Guards the ONE thing that must never double-count: ticking an item as  *)
(* bought moves it into stock" (market.model.ts:19): what was moved of a   *)
(* listing is no more than was put on it.                                  *)
NeverDoubleCounts == item.stocked <= item.quantity
===============================================================================
