------------------------------- MODULE Scripts -------------------------------
(***************************************************************************)
(* The operator script that is to be applied once (features/admin/scripts: *)
(* it can be previewed and, like the others, not be reverted) and the jobs *)
(* that run it.  A request looks for a run that waits or is under way,     *)
(* then, unless it only previews, for one that has succeeded, and queues   *)
(* its own, each with a call of the database.                              *)
(*                                                                         *)
(* The jobs live as JobLifecycle promises of work that nobody touches; an  *)
(* operator's retry and its force (features/admin/jobs) are added here.    *)
(***************************************************************************)
EXTENDS Naturals, FiniteSets

CONSTANTS
    MaxRuns,      \* bound: jobs of the script
    Requests,     \* bound: requests at once
    MaxRetries,   \* bound: retries by an operator
    MaxCrashes    \* bound: deaths of the process

ScriptsAssumption ==
    /\ IsFiniteSet(Requests) /\ MaxRuns \in Nat /\ MaxRetries \in Nat /\ MaxCrashes \in Nat

Runs == 1..MaxRuns

VARIABLES
    state,      \* the jobs, as JobLifecycle has them
    held,       \* which of them a live worker holds
    payload,    \* what each is to do: "real" or "preview"
    requests,   \* how far each request is, what it asks, and the jobs it has seen
    retries, crashes,
    crossed     \* history: a request saw nothing of a run it should have, or an operator retried one

vars == <<state, held, payload, requests, retries, crashes, crossed>>

Queue == INSTANCE JobLifecycle WITH Work <- Runs

Payload == {"real", "preview"}
Idle == [pc |-> "idle", asks |-> "preview", seen |-> {}]

TypeOK ==
    /\ state \in [Runs -> Queue!Stage] /\ held \in [Runs -> BOOLEAN]
    /\ payload \in [Runs -> Payload]
    /\ requests \in [Requests -> [pc : {"idle", "looked", "cleared"}, asks : Payload,
                                  seen : SUBSET Runs]]
    /\ retries \in 0..MaxRetries /\ crashes \in 0..MaxCrashes /\ crossed \in BOOLEAN

Init ==
    /\ Queue!Init /\ payload = [w \in Runs |-> "preview"]
    /\ requests = [r \in Requests |-> Idle] /\ retries = 0 /\ crashes = 0 /\ crossed = FALSE

queue == <<state, held>>
bounds == <<retries, crashes>>

----------------------------------------------------------------------------
(* A request: ScriptsService.run(). *)

Queued == {w \in Runs : state[w] # "absent"}
Unfinished == {w \in Runs : state[w] \in {"queued", "running"}}
Applied == {w \in Runs : state[w] = "succeeded" /\ payload[w] = "real"}

LookForRun(r, asks) ==
    /\ requests[r].pc = "idle" /\ Unfinished = {}
    /\ requests' = [requests EXCEPT ![r] = [pc |-> "looked", asks |-> asks, seen |-> Queued]]
    /\ UNCHANGED <<queue, payload, bounds, crossed>>

LookNoFurther(r) ==     \* takes the console's disabled button for the guarantee
    /\ requests[r].pc = "looked" /\ requests' = [requests EXCEPT ![r].pc = "cleared"]
    /\ UNCHANGED <<queue, payload, bounds, crossed>>
LookForApplied(r) ==
    /\ requests[r].pc = "looked"
    /\ requests' = IF requests[r].asks = "real" /\ Applied # {}
                   THEN [requests EXCEPT ![r] = Idle]
                   ELSE [requests EXCEPT ![r].pc = "cleared"]
    /\ UNCHANGED <<queue, payload, bounds, crossed>>

EnqueueRun(r) == \E w \in Runs :
    /\ requests[r].pc = "cleared" /\ w = Cardinality(Queued) + 1 /\ Queue!Enqueue(w)
    /\ payload' = [payload EXCEPT ![w] = requests[r].asks]
    /\ requests' = [requests EXCEPT ![r] = Idle]
    /\ crossed' = (crossed \/ ~(Queued \subseteq requests[r].seen))
    /\ UNCHANGED bounds

Dies(r) ==
    /\ requests[r].pc # "idle" /\ requests' = [requests EXCEPT ![r] = Idle]
    /\ UNCHANGED <<queue, payload, bounds, crossed>>

----------------------------------------------------------------------------
(* The worker. *)

Start(w) == Queue!Start(w) /\ UNCHANGED <<payload, requests, bounds, crossed>>

\* runScript() returns, or throws again what the script threw.
Complete(w, outcome) ==
    /\ Queue!Complete(w, outcome)
    /\ UNCHANGED <<payload, requests, bounds, crossed>>

Crash ==
    /\ crashes < MaxCrashes /\ crashes' = crashes + 1
    /\ Queue!Crash /\ requests' = [r \in Requests |-> Idle]
    /\ UNCHANGED <<payload, retries, crossed>>

Recover ==
    /\ \E S \in SUBSET Runs \ {{}} : Queue!Recover(S)
    /\ UNCHANGED <<payload, requests, bounds, crossed>>

\* Nothing else moves an ended job, so that reading and writing it are one step; no rule about
\* scripts is asked.  Forcing a run that waits or is under way is left to JobQueue.
RetryRun(w, force) ==
    /\ state[w] = "failed" \/ (force /\ state[w] = "succeeded")
    /\ retries < MaxRetries /\ retries' = retries + 1
    /\ state' = [state EXCEPT ![w] = "queued"] /\ crossed' = TRUE
    /\ UNCHANGED <<held, payload, requests, crashes>>

Next ==
    \/ \E r \in Requests :
        \/ \E asks \in Payload : LookForRun(r, asks)
        \/ LookForApplied(r) \/ EnqueueRun(r) \/ Dies(r)
    \/ \E w \in Runs :
        \/ Start(w) \/ \E outcome \in {"succeeded", "failed"} : Complete(w, outcome)
        \/ \E force \in BOOLEAN : RetryRun(w, force)
    \/ Crash \/ Recover

Spec == Init /\ [][Next]_vars

----------------------------------------------------------------------------
(* Properties. *)

\* scripts.service.ts, "the guarantee has to be here": however requests, previews
\* and deaths of the process interleave, one run succeeds in applying the script at the most and
\* nothing runs beside it, unless a request looked before another queued its run, or an operator
\* retried one.
AppliedOnce ==
    crossed \/ (Cardinality(Applied) <= 1 /\ Cardinality(Unfinished) <= 1)

\* The same without the exceptions, which the code does not keep.
AlwaysAppliedOnce == Cardinality(Applied) <= 1
=============================================================================
