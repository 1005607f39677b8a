--------------------------------- MODULE Chat ---------------------------------
(***************************************************************************)
(* A cook's conversation with the assistant (src/features/chat): the       *)
(* question, the model's answer, the tools it asks for, its second answer  *)
(* with the outcome in hand, and what is stored for the cook to read.      *)
(*                                                                         *)
(* The tools work on the cook's two lists, the kitchen and the market      *)
(* list, which other devices change meanwhile.  A row is its number; what  *)
(* is counted on it is in Kitchen.  What the model says is left out, but   *)
(* for the tools it calls and for whether it answers in the agreed shape.  *)
(***************************************************************************)
EXTENDS Integers, SequencesExt

CONSTANTS
    Names,      \* what a tool may be called about
    Turns,      \* bound: questions
    MaxCalls,   \* tools in one batch
    MaxMoves,   \* bound: changes from elsewhere
    MaxFaults   \* bound: calls of the database that throw

Lists == {"stock", "market"}
Gone == 0

ChatAssumption == MaxCalls \in Nat /\ MaxMoves \in Nat /\ MaxFaults \in Nat

VARIABLES
    rows,    \* stock_items and market_items: the row of each name
    made,    \* rows ever made
    thread,  \* chat_messages: who asked, who was answered
    turns,   \* where each question is
    moves, faults  \* what has been spent of the bounds

vars == <<rows, made, thread, turns, moves, faults>>

Tool == [tool : {"add", "remove"}, list : Lists, names : SUBSET Names \ {{}}]
            \cup [tool : {"read"}, list : Lists, names : {{}}]
Unknown == [tool |-> "unknown", list |-> "stock", names |-> {}]
Batch == UNION {[1..n -> Tool] : n \in 0..MaxCalls}

(* What has come of a tool.  `partial` are the names it says it left;      *)
(* `changed`, `lost` (rows that went away under it) and `broke` (it threw) *)
(* are history.                                                            *)
Receipt == [tool : Tool \cup {Unknown}, result : {"success", "failed"}, partial : SUBSET Names,
            changed : SUBSET Names, lost : SUBSET Names, broke : BOOLEAN]

(* The tool at work.  `left` are the names to come, `seen` the rows it     *)
(* read at its start, `hand` the name being added and `found` its row.     *)
Step == {"none", "next", "write", "list"}
Work == [step : Step, left : SUBSET Names, seen : [Names -> Nat],
         hand : SUBSET Names, found : Nat,
         partial : SUBSET Names, changed : SUBSET Names, lost : SUBSET Names]
NoWork == [step |-> "none", left |-> {}, seen |-> [n \in Names |-> Gone],
           hand |-> {}, found |-> Gone, partial |-> {}, changed |-> {}, lost |-> {}]

Turn == [pc : {"idle", "context", "first", "tools", "after", "second", "store",
               "done", "refused", "died"},
         retried : BOOLEAN, plan : Seq(Tool), receipts : Seq(Receipt), work : Work]
Idle == [pc |-> "idle", retried |-> FALSE, plan |-> <<>>, receipts |-> <<>>, work |-> NoWork]

Init ==
    /\ rows = [l \in Lists |-> [n \in Names |-> Gone]]
    /\ made = 0
    /\ thread = {}
    /\ turns = [t \in Turns |-> Idle]
    /\ moves = 0 /\ faults = 0

Goes(t, pc) == turns' = [turns EXCEPT ![t].pc = pc, ![t].retried = FALSE]

-------------------------------------------------------------------------------
(* ask: the question, the cook's situation, the model.                     *)

Ask(t) ==
    /\ turns[t].pc = "idle"
    /\ thread' = thread \cup {<<t, "user">>}
    /\ Goes(t, "context")
    /\ UNCHANGED <<rows, made, moves, faults>>

BuildContext(t) ==
    /\ turns[t].pc \in {"context", "after"}
    /\ Goes(t, IF turns[t].pc = "context" THEN "first" ELSE "second")
    /\ UNCHANGED <<rows, made, thread, moves, faults>>

Answer(t, batch) ==
    /\ turns[t].pc = "first"
    /\ turns' = [turns EXCEPT ![t].pc = IF batch = <<>> THEN "store" ELSE "tools",
                              ![t].retried = FALSE, ![t].plan = batch]
    /\ UNCHANGED <<rows, made, thread, moves, faults>>

(* A batch that is not one of tools is refused whole.                      *)
AnswerNonsense(t) ==
    /\ turns[t].pc = "first"
    /\ turns' = [turns EXCEPT ![t].pc = "after", ![t].retried = FALSE,
                              ![t].receipts = <<[tool |-> Unknown, result |-> "failed",
                                                 partial |-> {}, changed |-> {}, lost |-> {},
                                                 broke |-> FALSE]>>]
    /\ UNCHANGED <<rows, made, thread, moves, faults>>

AnswerAgain(t) ==
    /\ turns[t].pc = "second"
    /\ Goes(t, "store")
    /\ UNCHANGED <<rows, made, thread, moves, faults>>

(* An answer of the wrong shape is asked for once more.                    *)
Misshapen(t) ==
    /\ turns[t].pc \in {"first", "second"} /\ ~turns[t].retried
    /\ turns' = [turns EXCEPT ![t].retried = TRUE]
    /\ UNCHANGED <<rows, made, thread, moves, faults>>

(* The provider fails, or the shape is wrong again.  A failed second pass  *)
(* leaves the receipts to speak.                                           *)
NoAnswer(t) ==
    /\ turns[t].pc \in {"first", "second"}
    /\ Goes(t, IF turns[t].pc = "first" THEN "refused" ELSE "store")
    /\ UNCHANGED <<rows, made, thread, moves, faults>>

Refused(t) ==
    /\ turns[t].pc \in {"first", "second"}
    /\ Goes(t, "refused")
    /\ UNCHANGED <<rows, made, thread, moves, faults>>

(* verifyMeals, and the assistant's message.                               *)
Store(t) ==
    /\ turns[t].pc = "store"
    /\ thread' = thread \cup {<<t, "assistant">>}
    /\ Goes(t, "done")
    /\ UNCHANGED <<rows, made, moves, faults>>

Clear ==
    /\ thread # {}
    /\ thread' = {}
    /\ UNCHANGED <<rows, made, turns, moves, faults>>

-------------------------------------------------------------------------------
(* executeToolCalls: one tool after another.                               *)

At(t, step) == turns[t].pc = "tools" /\ turns[t].work.step = step
Call(t) == Head(turns[t].plan)

Works(t, work) == turns' = [turns EXCEPT ![t].work = work]

(* The receipt of the tool at work; the next one, or the second pass.      *)
Receive(t, result, broke) ==
    LET turn == turns[t]
        w == turn.work
    IN turns' = [turns EXCEPT
          ![t].receipts = Append(@, [tool |-> Head(turn.plan), result |-> result,
                                     partial |-> w.partial, changed |-> w.changed,
                                     lost |-> w.lost, broke |-> broke]),
          ![t].plan = Tail(@),
          ![t].pc = IF Len(turn.plan) = 1 THEN "after" ELSE "tools",
          ![t].work = NoWork]

(* Taking away reads the list once, here.                                  *)
StartTool(t) ==
    /\ At(t, "none")
    /\ LET call == Call(t)
       IN IF call.tool = "read"
            THEN Receive(t, "success", FALSE)
            ELSE Works(t, [NoWork EXCEPT !.step = "next", !.left = call.names,
                                         !.seen = rows[call.list]])
    /\ UNCHANGED <<rows, made, thread, moves, faults>>

(* Add: the row of a name is looked for, and then made or counted up.      *)
Look(t, n) ==
    LET w == turns[t].work
    IN /\ At(t, "next") /\ n \in w.left /\ Call(t).tool = "add"
       /\ Works(t, [w EXCEPT !.step = "write", !.left = @ \ {n}, !.hand = {n},
                             !.found = rows[Call(t).list][n]])
       /\ UNCHANGED <<rows, made, thread, moves, faults>>

(* A unit nobody knows ends an addition to the kitchen where it is.        *)
RefuseUnit(t) ==
    /\ At(t, "next") /\ turns[t].work.left # {}
    /\ Call(t).tool = "add" /\ Call(t).list = "stock"
    /\ Receive(t, "failed", FALSE)
    /\ UNCHANGED <<rows, made, thread, moves, faults>>

(* A row that has gone is not made again: the count falls on nothing.      *)
(* Names are unique: where a row has come the creation throws.             *)
Write(t) ==
    LET w == turns[t].work
        l == Call(t).list
        rest == [w EXCEPT !.step = "next", !.hand = {}, !.found = Gone]
    IN /\ At(t, "write")
       /\ \E n \in w.hand :
            \/ /\ w.found = Gone /\ rows[l][n] = Gone
               /\ made' = made + 1
               /\ rows' = [rows EXCEPT ![l][n] = made + 1]
               /\ Works(t, [rest EXCEPT !.changed = @ \cup {n}])
            \/ /\ w.found = Gone /\ rows[l][n] # Gone
               /\ Receive(t, "failed", TRUE)
               /\ UNCHANGED <<rows, made>>
            \/ /\ w.found # Gone
               /\ Works(t, IF rows[l][n] = w.found
                             THEN [rest EXCEPT !.changed = @ \cup {n}]
                             ELSE [rest EXCEPT !.lost = @ \cup {n}])
               /\ UNCHANGED <<rows, made>>
       /\ UNCHANGED <<thread, moves, faults>>

(* Remove, by the row that was read.                                       *)
TakeAway(t, n, missing) ==
    LET w == turns[t].work
        l == Call(t).list
        row == w.seen[n]
        rest == [w EXCEPT !.left = @ \ {n}]
    IN /\ At(t, "next") /\ n \in w.left /\ Call(t).tool = "remove"
       /\ IF row = Gone
            THEN Works(t, [rest EXCEPT !.partial = @ \cup missing]) /\ UNCHANGED rows
          ELSE IF rows[l][n] = row
            THEN Works(t, [rest EXCEPT !.changed = @ \cup {n}])
                 /\ rows' = [rows EXCEPT ![l][n] = Gone]
          ELSE Works(t, [rest EXCEPT !.lost = @ \cup {n}]) /\ UNCHANGED rows
       /\ UNCHANGED <<made, thread, moves, faults>>

TakeOffQuietly(t, n) == TakeAway(t, n, {})

TakeOff(t, n) == TakeAway(t, n, {n})

(* Nothing taken off is a failure; otherwise the list is read for the      *)
(* model.                                                                  *)
EndNames(t) ==
    LET w == turns[t].work
    IN /\ At(t, "next") /\ w.left = {}
       /\ IF Call(t).tool = "remove" /\ w.changed = {}
            THEN Receive(t, "failed", FALSE)
            ELSE Works(t, [w EXCEPT !.step = "list"])
       /\ UNCHANGED <<rows, made, thread, moves, faults>>

ReadList(t) ==
    /\ At(t, "list")
    /\ Receive(t, "success", FALSE)
    /\ UNCHANGED <<rows, made, thread, moves, faults>>

(* A tool that throws has failed, and the next one is run.                 *)
ToolThrows(t) ==
    /\ turns[t].pc = "tools"
    /\ faults < MaxFaults /\ faults' = faults + 1
    /\ Receive(t, "failed", TRUE)
    /\ UNCHANGED <<rows, made, thread, moves>>

(* Anywhere else the request fails, whatever its tools have done.          *)
Dies(t) ==
    /\ turns[t].pc \in {"context", "after", "store"}
    /\ faults < MaxFaults /\ faults' = faults + 1
    /\ Goes(t, "died")
    /\ UNCHANGED <<rows, made, thread, moves>>

(* Another device adds a row or takes it away.                             *)
Elsewhere(l, n) ==
    /\ moves < MaxMoves /\ moves' = moves + 1
    /\ IF rows[l][n] = Gone
         THEN made' = made + 1 /\ rows' = [rows EXCEPT ![l][n] = made + 1]
         ELSE rows' = [rows EXCEPT ![l][n] = Gone] /\ UNCHANGED made
    /\ UNCHANGED <<thread, turns, faults>>

Next ==
    \/ \E t \in Turns :
          \/ Ask(t) \/ BuildContext(t)
          \/ \E batch \in Batch : Answer(t, batch)
          \/ AnswerNonsense(t) \/ AnswerAgain(t) \/ Misshapen(t) \/ NoAnswer(t) \/ Store(t)
          \/ StartTool(t) \/ \E n \in Names : Look(t, n) \/ TakeOff(t, n)
          \/ RefuseUnit(t) \/ Write(t) \/ EndNames(t) \/ ReadList(t)
          \/ ToolThrows(t) \/ Dies(t)
    \/ Clear
    \/ \E l \in Lists, n \in Names : Elsewhere(l, n)

Spec == Init /\ [][Next]_vars

-------------------------------------------------------------------------------
(* Properties.                                                             *)

TypeOK ==
    /\ rows \in [Lists -> [Names -> 0..made]] /\ made \in Nat
    /\ thread \in SUBSET (Turns \X {"user", "assistant"})
    /\ turns \in [Turns -> Turn]
    /\ moves \in 0..MaxMoves /\ faults \in 0..MaxFaults

Receipts(t) == ToSet(turns[t].receipts)

(* What a reply shows as done is done, name by name, but for names it says *)
(* it left and rows somebody took away under the tool; what was done is    *)
(* never answered by a refusal ("the actions already ran, so the outcome   *)
(* is reported from the results rather than lost", chat.service.ts:150).   *)
ReceiptsHonest ==
    \A t \in Turns :
        /\ \A r \in Receipts(t) : r.result = "success" =>
              r.tool.names \ r.partial \subseteq r.changed \cup r.lost
        /\ turns[t].pc = "refused" => \A r \in Receipts(t) : r.changed = {}

(* "Anything with result "failed" did NOT happen" (chat.service.ts:141).   *)
FailedDidNotHappen ==
    \A t \in Turns : \A r \in Receipts(t) : r.result = "failed" => r.changed = {}
===============================================================================
