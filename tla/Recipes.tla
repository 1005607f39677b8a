-------------------------------- MODULE Recipes --------------------------------
(***************************************************************************)
(* The recipes and the trail of what staff did to them                     *)
(* (src/features/admin/recipes, src/lib/audit), and the recipe that is     *)
(* written for a dish a cook asks for (src/features/meals).                *)
(*                                                                         *)
(* A recipe is its name, the slug it got when it was made, which is        *)
(* unique, and whether it is published.  A bulk import is one creation     *)
(* after another.  The trail is written after the change, by nobody who    *)
(* is waited for: an entry may fail, and the order of entries is left out. *)
(***************************************************************************)
EXTENDS Integers, FiniteSets, FiniteSetsExt

CONSTANTS
    Dishes,     \* names, and the slugs that are made of them
    NRecipes,   \* bound: recipes ever made
    Calls,      \* bound: calls in flight at once
    MaxCalls,   \* bound: calls ever begun
    MaxFaults   \* bound: calls that die and entries that fail

Ids == 1..NRecipes
Statuses == {"draft", "published"}

RecipesAssumption ==
    /\ Dishes # {} /\ IsFiniteSet(Calls)
    /\ NRecipes \in Nat /\ MaxCalls \in Nat /\ MaxFaults \in Nat

VARIABLES
    recipes,  \* meals
    trail,    \* audit_logs: of each recipe, its entries counted
    calls,    \* where each call is
    begun, faults,  \* what has been spent of each bound
    first,    \* history: the status each recipe was made with
    stale,    \* history: recipes written from a status that had changed since
    unsaid    \* history: recipes whose entry was lost

history == <<first, stale, unsaid>>
vars == <<recipes, trail, calls, begun, faults, history>>

(* "none" is a number nobody has had yet.                                  *)
Recipe == [status : Statuses \cup {"none", "removed"}, name : Dishes, slug : Dishes]
Kept(r) == recipes[r].status \in Statuses

(* `published` is how often the trail says it became published, less how   *)
(* often it says it ceased to be.                                          *)
Entries == [published : Int, removed : Nat]

(* `seen` is the status of each recipe the call read or replaced, `to` the *)
(* status it sets.                                                         *)
Step == {"idle", "read", "write", "record", "ask", "create"}
Op == {"update", "setStatus", "setStatusMany", "remove", "removeMany", "generate"}
Seen == Statuses \cup {"none"}
Call == [pc : Step, op : Op, on : SUBSET Ids, to : Statuses \cup {"keep"}, dish : Dishes,
         seen : [Ids -> Seen]]
NothingSeen == [r \in Ids |-> "none"]
Idle == [pc |-> "idle", op |-> "update", on |-> {}, to |-> "keep",
         dish |-> CHOOSE d \in Dishes : TRUE, seen |-> NothingSeen]

Init ==
    /\ recipes = [r \in Ids |-> [status |-> "none", name |-> Idle.dish, slug |-> Idle.dish]]
    /\ trail = [r \in Ids |-> [published |-> 0, removed |-> 0]]
    /\ calls = [c \in Calls |-> Idle]
    /\ begun = 0 /\ faults = 0
    /\ first = [r \in Ids |-> "none"]
    /\ stale = {} /\ unsaid = {}

Ends(c) == calls' = [calls EXCEPT ![c] = Idle]
Begin(c, call) ==
    /\ calls[c] = Idle
    /\ begun < MaxCalls /\ begun' = begun + 1
    /\ calls' = [calls EXCEPT ![c] = call]

Free == {r \in Ids : recipes[r].status = "none"}
SlugTaken(d) == \E r \in Ids : Kept(r) /\ recipes[r].slug = d

(* A recipe is made under the next number.                                 *)
Make(d, status) ==
    /\ recipes' = [recipes EXCEPT ![Min(Free)] = [status |-> status, name |-> d, slug |-> d]]
    /\ first' = [first EXCEPT ![Min(Free)] = status]

-------------------------------------------------------------------------------
(* create, on its own or for each row of an import: a slug that is taken   *)
(* fails it.  Nothing is recorded.                                         *)
Create(d, status) ==
    /\ Free # {} /\ ~SlugTaken(d)
    /\ begun < MaxCalls /\ begun' = begun + 1
    /\ Make(d, status)
    /\ UNCHANGED <<trail, calls, faults, stale, unsaid>>

(* generateFromName: a published recipe of that name, or a new one.        *)
BeginGenerate(c, d) ==
    /\ \A r \in Ids : recipes[r].status = "published" => recipes[r].name # d
    /\ Begin(c, [Idle EXCEPT !.pc = "ask", !.op = "generate", !.dish = d])
    /\ UNCHANGED <<recipes, trail, faults, history>>

(* The model names the dish as it likes, or fails.                         *)
Generate(c, d) ==
    /\ calls[c].pc = "ask"
    /\ calls' = [calls EXCEPT ![c].pc = "create", ![c].dish = d]
    /\ UNCHANGED <<recipes, trail, begun, faults, history>>

NotGenerated(c) ==
    /\ calls[c].pc = "ask"
    /\ Ends(c)
    /\ UNCHANGED <<recipes, trail, begun, faults, history>>

SaveGenerated(c) ==
    /\ calls[c].pc = "create" /\ Free # {}
    /\ IF SlugTaken(calls[c].dish) THEN UNCHANGED <<recipes, first>>
       ELSE Make(calls[c].dish, "published")
    /\ Ends(c)
    /\ UNCHANGED <<trail, begun, faults, stale, unsaid>>

-------------------------------------------------------------------------------
(* update, setStatusMany, remove and removeMany read first; setStatus      *)
(* writes and is told what it replaced.                                    *)

BeginUpdate(c, r, d, to) ==
    /\ Kept(r)
    /\ Begin(c, [Idle EXCEPT !.pc = "read", !.op = "update", !.on = {r}, !.to = to, !.dish = d])
    /\ UNCHANGED <<recipes, trail, faults, history>>

BeginStatus(c, op, on, to) ==
    /\ on # {} /\ \A r \in on : Kept(r)
    /\ Begin(c, [Idle EXCEPT !.pc = IF op = "setStatus" THEN "write" ELSE "read",
                             !.op = op, !.on = on, !.to = to])
    /\ UNCHANGED <<recipes, trail, faults, history>>

BeginRemove(c, op, on) ==
    /\ on # {} /\ \A r \in on : Kept(r)
    /\ Begin(c, [Idle EXCEPT !.pc = "read", !.op = op, !.on = on])
    /\ UNCHANGED <<recipes, trail, faults, history>>

StatusOf(on) == [r \in Ids |-> IF r \in on /\ Kept(r) THEN recipes[r].status ELSE "none"]

Read(c) ==
    /\ calls[c].pc = "read"
    /\ calls' = [calls EXCEPT ![c].pc = "write", ![c].seen = StatusOf(calls[c].on)]
    /\ UNCHANGED <<recipes, trail, begun, faults, history>>

Found(call) == {r \in call.on : call.seen[r] # "none"}

(* Written over whatever the recipe has become.                            *)
Update(c) ==
    LET call == calls[c]
        found == {r \in Found(call) : Kept(r)}
        to(r) == IF call.to = "keep" THEN call.seen[r] ELSE call.to
    IN /\ call.pc = "write" /\ call.op = "update"
       /\ recipes' = [r \in Ids |-> IF r \in found
                        THEN [recipes[r] EXCEPT !.status = to(r), !.name = call.dish]
                        ELSE recipes[r]]
       /\ IF Found(call) = {} THEN Ends(c)
          ELSE calls' = [calls EXCEPT ![c].pc = "record",
                                      ![c].to = IF @ = "keep" THEN call.seen[Min(call.on)] ELSE @]
       /\ stale' = stale \cup {r \in Found(call) : recipes[r].status # call.seen[r]}
       /\ UNCHANGED <<trail, begun, faults, first, unsaid>>

(* findOneAndUpdate.                                                       *)
SetStatus(c) ==
    LET call == calls[c]
        found == {r \in call.on : Kept(r)}
    IN /\ call.pc = "write" /\ call.op = "setStatus"
       /\ recipes' = [r \in Ids |-> IF r \in found THEN [recipes[r] EXCEPT !.status = call.to]
                                    ELSE recipes[r]]
       /\ IF found = {} THEN Ends(c)
          ELSE calls' = [calls EXCEPT ![c].pc = "record", ![c].seen = StatusOf(found)]
       /\ UNCHANGED <<trail, begun, faults, history>>

Changing(call) == {r \in Found(call) : call.seen[r] # call.to}

SetStatusMany(c) ==
    LET call == calls[c]
        changing == Changing(call)
    IN /\ call.pc = "write" /\ call.op = "setStatusMany"
       /\ recipes' = [r \in Ids |-> IF r \in changing /\ Kept(r)
                                    THEN [recipes[r] EXCEPT !.status = call.to] ELSE recipes[r]]
       /\ calls' = [calls EXCEPT ![c].pc = "record", ![c].on = changing]
       /\ stale' = stale \cup {r \in changing : recipes[r].status # call.seen[r]}
       /\ UNCHANGED <<trail, begun, faults, first, unsaid>>

Removed(on) ==
    [r \in Ids |-> IF r \in on /\ Kept(r) THEN [recipes[r] EXCEPT !.status = "removed"]
                   ELSE recipes[r]]

(* Found gone, it is not said to be removed again.                         *)
Remove(c) ==
    LET call == calls[c]
        gone == {r \in call.on : Kept(r)}
    IN /\ call.pc = "write" /\ call.op = "remove"
       /\ recipes' = Removed(call.on)
       /\ IF gone = {} THEN Ends(c)
          ELSE calls' = [calls EXCEPT ![c].pc = "record"]
       /\ UNCHANGED <<trail, begun, faults, history>>

RemoveMany(c) ==
    LET call == calls[c]
    IN /\ call.pc = "write" /\ call.op = "removeMany"
       /\ recipes' = Removed(Found(call))
       /\ calls' = [calls EXCEPT ![c].pc = "record", ![c].on = Found(call)]
       /\ UNCHANGED <<trail, begun, faults, history>>

-------------------------------------------------------------------------------
(* record, once for each recipe.                                           *)

Worth(status) == IF status = "published" THEN 1 ELSE 0

Entered(c, lost, difference) ==
    LET call == calls[c]
        removing == call.op \in {"remove", "removeMany"}
    IN [r \in Ids |->
          IF r \notin call.on \ lost THEN trail[r]
          ELSE IF removing THEN [trail[r] EXCEPT !.removed = @ + 1]
          ELSE [trail[r] EXCEPT !.published = @ + difference[r]]]

(* An edit is recorded without the status.                                 *)
RecordNoStatus(c) ==
    LET call == calls[c]
    IN /\ call.pc = "record"
       /\ trail' = Entered(c, {}, [r \in Ids |->
                      IF call.op = "update" THEN 0 ELSE Worth(call.to) - Worth(call.seen[r])])
       /\ Ends(c)
       /\ UNCHANGED <<recipes, begun, faults, history>>

Record(c) ==
    LET call == calls[c]
    IN /\ call.pc = "record"
       /\ trail' = Entered(c, {}, [r \in Ids |-> Worth(call.to) - Worth(call.seen[r])])
       /\ Ends(c)
       /\ UNCHANGED <<recipes, begun, faults, history>>

(* An entry that fails is logged and forgotten; a process that stops       *)
(* leaves the change without it.                                           *)
RecordFails(c) ==
    LET call == calls[c]
    IN /\ call.pc = "record"
       /\ faults < MaxFaults /\ faults' = faults + 1
       /\ \E lost \in SUBSET call.on \ {{}} :
            /\ trail' = Entered(c, lost, [r \in Ids |-> Worth(call.to) - Worth(call.seen[r])])
            /\ unsaid' = unsaid \cup lost
       /\ Ends(c)
       /\ UNCHANGED <<recipes, begun, first, stale>>

Dies(c) ==
    /\ calls[c].pc \in {"read", "write", "create"}
    /\ faults < MaxFaults /\ faults' = faults + 1
    /\ Ends(c)
    /\ UNCHANGED <<recipes, trail, begun, history>>

Next ==
    \/ \E d \in Dishes, status \in Statuses : Create(d, status)
    \/ \E c \in Calls :
          \/ \E d \in Dishes : BeginGenerate(c, d) \/ Generate(c, d)
          \/ NotGenerated(c) \/ SaveGenerated(c)
          \/ \E r \in Ids, d \in Dishes, to \in Statuses \cup {"keep"} : BeginUpdate(c, r, d, to)
          \/ \E r \in Ids, to \in Statuses : BeginStatus(c, "setStatus", {r}, to)
          \/ \E on \in SUBSET Ids, to \in Statuses : BeginStatus(c, "setStatusMany", on, to)
          \/ \E r \in Ids : BeginRemove(c, "remove", {r})
          \/ \E on \in SUBSET Ids : BeginRemove(c, "removeMany", on)
          \/ Read(c) \/ Update(c) \/ SetStatus(c) \/ SetStatusMany(c)
          \/ Remove(c) \/ RemoveMany(c) \/ Record(c) \/ RecordFails(c) \/ Dies(c)

Spec == Init /\ [][Next]_vars

-------------------------------------------------------------------------------
(* Properties.                                                             *)

TypeOK ==
    /\ recipes \in [Ids -> Recipe] /\ trail \in [Ids -> Entries]
    /\ calls \in [Calls -> Call]
    /\ begun \in 0..MaxCalls /\ faults \in 0..MaxFaults
    /\ first \in [Ids -> Statuses \cup {"none"}]
    /\ stale \in SUBSET Ids /\ unsaid \in SUBSET Ids

Settled(r) == \A c \in Calls : r \in calls[c].on => calls[c].pc # "record"

(* The trail accounts for what became of a recipe: from the status it was  *)
(* made with, its entries add up to the status it has, and a recipe that   *)
(* is gone has an entry that says so ("the trail never claims a change     *)
(* that did not happen", admin-recipes.service.ts:367), unless an entry    *)
(* was lost or an edit or a bulk change wrote over a status that was       *)
(* changed after it was read.                                              *)
TrailAccounts ==
    \A r \in Ids : Settled(r) /\ r \notin unsaid =>
        /\ Kept(r) /\ r \notin stale =>
              Worth(recipes[r].status) = Worth(first[r]) + trail[r].published
        /\ recipes[r].status = "removed" => trail[r].removed > 0

(* "Idempotent on the name: asking twice returns the meal we already made" *)
(* (meals.service.ts:133): two recipes are not written for one dish at a   *)
(* time a published one has its name.                                      *)
AskedTwiceWrittenOnce ==
    \A c \in Calls : calls[c].pc = "create" =>
        \A r \in Ids : recipes[r].status = "published" => recipes[r].name # calls[c].dish

(* An edit that does not speak of the status does not change it.           *)
EditsKeepStatus ==
    [][\A c \in Calls : calls[c].op = "update" /\ calls[c].pc = "write" /\ calls[c].to = "keep" =>
         \A r \in calls[c].on : Kept(r) => recipes'[r].status = recipes[r].status]_vars
===============================================================================
