----------------------------- MODULE JobLifecycle -----------------------------
(***************************************************************************)
(* What the job queue promises about work that nobody can cancel or retry  *)
(* and that may not be retried after an error (scripts, sweeps, imports):  *)
(* one worker at a time holds a job, only its holder may finish it, a      *)
(* finished job never moves again, and only work whose holder died in a    *)
(* crash goes back to the queue.  JobQueue is shown to implement this.     *)
(***************************************************************************)

CONSTANT Work       \* the jobs the promise is about

VARIABLES state,    \* [Work -> Stage]: the status a client reads
          held      \* [Work -> BOOLEAN]: a live worker is responsible for it

vars == <<state, held>>

Stage == {"absent", "queued", "running", "succeeded", "failed"}

Init == /\ state = [w \in Work |-> "absent"]
        /\ held = [w \in Work |-> FALSE]

Enqueue(w) ==
    /\ state[w] = "absent"
    /\ state' = [state EXCEPT ![w] = "queued"]
    /\ UNCHANGED held

Start(w) ==
    /\ state[w] = "queued"
    /\ state' = [state EXCEPT ![w] = "running"]
    /\ held' = [held EXCEPT ![w] = TRUE]

Complete(w, outcome) ==
    /\ state[w] = "running"
    /\ held[w]
    /\ state' = [state EXCEPT ![w] = outcome]
    /\ held' = [held EXCEPT ![w] = FALSE]

(* Every worker dies at once: the process is gone. *)
Crash == /\ held' = [w \in Work |-> FALSE]
         /\ UNCHANGED state

(* A sweep puts back work whose worker died, never work still being done. *)
Recover(S) ==
    /\ \A w \in S : state[w] = "running" /\ ~held[w]
    /\ state' = [w \in Work |-> IF w \in S THEN "queued" ELSE state[w]]
    /\ UNCHANGED held

Next == \/ \E w \in Work : Enqueue(w) \/ Start(w)
        \/ \E w \in Work, outcome \in {"succeeded", "failed"} : Complete(w, outcome)
        \/ Crash
        \/ \E S \in SUBSET Work : Recover(S)

Spec == Init /\ [][Next]_vars
===============================================================================
