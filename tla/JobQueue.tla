------------------------------- MODULE JobQueue -------------------------------
(***************************************************************************)
(* The in-process job queue (src/lib/jobs) with the two operations a       *)
(* person may apply to a job (src/features/jobs/jobs.service.ts).          *)
(*                                                                         *)
(* One process polls the jobs collection every 500 ms.  `setInterval` does *)
(* not wait for `tick`, so ticks overlap; every `await` is a point where   *)
(* another tick, run or request may act, and each of the steps below ends  *)
(* at one.  A restart loses `running`, the ticks, the runs and the         *)
(* requests, and keeps the documents.                                      *)
(*                                                                         *)
(* Time is abstract: a lease is live until it expires, a scheduled job is  *)
(* not due until it becomes due.  A database call that throws has not been *)
(* applied (the driver resends a retryable write under one transaction     *)
(* number).                                                                *)
(***************************************************************************)
EXTENDS Integers, FiniteSets

CONSTANTS
    NJobs,        \* bound: how many jobs are ever created
    Owned,        \* jobs whose ownerId is a person, who may cancel and retry them
    Operated,     \* jobs an operator cancels or retries from the console
    MaxAttempts,  \* [Jobs -> Nat \ {0}]: EnqueueOptions.maxAttempts
    Concurrency,  \* CONCURRENCY
    Ticks,        \* bound: ticks that may overlap
    Slots,        \* bound: calls of `run` open at once
    Requests,     \* bound: cancel and retry requests in flight at once
    MaxRestarts,  \* bound: process restarts
    MaxErrors,    \* bound: database calls that throw
    MaxUserOps    \* bound: cancel and retry requests accepted

Jobs == 1..NJobs
NoJob == 0

ASSUME QueueAssumption ==
    /\ NJobs \in Nat
    /\ Owned \subseteq Jobs /\ Operated \subseteq Jobs
    /\ MaxAttempts \in [Jobs -> Nat \ {0}]
    /\ Concurrency \in Nat \ {0}
    /\ MaxRestarts \in Nat /\ MaxErrors \in Nat /\ MaxUserOps \in Nat

VARIABLES
    jobs,      \* the documents of the jobs collection
    running,   \* JobQueue.running
    ticks,     \* where each call of `tick` is
    runs,      \* where each call of `run` is
    requests,  \* where each cancel or retry request is
    restarts, errors, userOps    \* what has been spent of each bound

vars == <<jobs, running, ticks, runs, requests, restarts, errors, userOps>>
spent == <<restarts, errors, userOps>>

Terminal == {"succeeded", "failed", "cancelled"}
Status == {"absent", "queued", "running"} \cup Terminal
JobDocument == [status : Status, attempts : Nat, cancelRequested : BOOLEAN,
                lease : {"none", "live", "expired"}, due : BOOLEAN]

(* A tick remembers how many more jobs it may claim, and the document its  *)
(* last claim returned until `run` is called with it.                      *)
Tick == [pc : {"idle", "reclaim", "claim", "claimed"}, left : Int,
         job : Jobs \cup {NoJob}, attempt : Nat]

(* `attempt` is the snapshot in the claimed document; `asked` is history:  *)
(* a cancel was recorded while the handler ran, and not undone by a retry. *)
Working == {"handling", "returned", "succeeding", "cancelling", "failing"}
Run == [pc : {"free", "written"} \cup Working, job : Jobs \cup {NoJob},
        attempt : Nat, asked : BOOLEAN]

Request == [op : {"none", "cancel", "retry"}, job : Jobs \cup {NoJob},
            wasQueued : BOOLEAN]

NoDocument == [status |-> "absent", attempts |-> 0, cancelRequested |-> FALSE,
               lease |-> "none", due |-> FALSE]
IdleTick == [pc |-> "idle", left |-> 0, job |-> NoJob, attempt |-> 0]
ClaimUpTo(n) == [pc |-> "claim", left |-> n, job |-> NoJob, attempt |-> 0]
FreeSlot == [pc |-> "free", job |-> NoJob, attempt |-> 0, asked |-> FALSE]
NoRequest == [op |-> "none", job |-> NoJob, wasQueued |-> FALSE]

Init ==
    /\ jobs = [j \in Jobs |-> NoDocument]
    /\ running = {}
    /\ ticks = [t \in Ticks |-> IdleTick]
    /\ runs = [s \in Slots |-> FreeSlot]
    /\ requests = [r \in Requests |-> NoRequest]
    /\ restarts = 0 /\ errors = 0 /\ userOps = 0

-------------------------------------------------------------------------------
(* Enqueueing, and the passing of time.                                    *)

(* Jobs are numbered as they are created, so the number is `createdAt`.    *)
Enqueue(j) ==
    /\ jobs[j].status = "absent"
    /\ \A i \in Jobs : i < j => jobs[i].status # "absent"
    /\ \E due \in BOOLEAN :
         jobs' = [jobs EXCEPT ![j].status = "queued", ![j].due = due]
    /\ UNCHANGED <<running, ticks, runs, requests, spent>>

BecomesDue(j) ==
    /\ jobs[j].status # "absent"
    /\ ~jobs[j].due
    /\ jobs' = [jobs EXCEPT ![j].due = TRUE]
    /\ UNCHANGED <<running, ticks, runs, requests, spent>>

(* A claim is answered well within the five minutes of its lease. *)
LeaseExpires(j) ==
    /\ jobs[j].lease = "live"
    /\ \A t \in Ticks : ticks[t].job # j
    /\ jobs' = [jobs EXCEPT ![j].lease = "expired"]
    /\ UNCHANGED <<running, ticks, runs, requests, spent>>

-------------------------------------------------------------------------------
(* The poll loop.                                                          *)

TickStarts(t) ==
    /\ ticks[t].pc = "idle"
    /\ Cardinality(running) < Concurrency
    /\ ticks' = [ticks EXCEPT ![t].pc = "reclaim"]
    /\ UNCHANGED <<jobs, running, runs, requests, spent>>

(* A sweep that forgets `_id: { $nin: [...this.running] }`. *)
StalledAnywhere(j) ==
    /\ jobs[j].status = "running"
    /\ jobs[j].lease = "expired"

Stalled(j) ==
    /\ jobs[j].status = "running"
    /\ jobs[j].lease = "expired"
    /\ j \notin running

(* `reclaimStalled`, then `free` is computed once for the whole loop. *)
ReclaimStalled(t) ==
    /\ ticks[t].pc = "reclaim"
    /\ jobs' = [j \in Jobs |->
                  IF Stalled(j)
                    THEN [jobs[j] EXCEPT !.status = "queued", !.lease = "none"]
                    ELSE jobs[j]]
    /\ LET free == Concurrency - Cardinality(running)
       IN ticks' = [ticks EXCEPT ![t] =
                      IF free > 0 THEN ClaimUpTo(free) ELSE IdleTick]
    /\ UNCHANGED <<running, runs, requests, spent>>

Claimable(j) == jobs[j].status = "queued" /\ jobs[j].due
Oldest(j) == Claimable(j) /\ \A i \in Jobs : Claimable(i) => j <= i

(* A claim that leaves the lease for the first progress report to set. *)
ClaimWithoutLease(t, j) ==
    /\ ticks[t].pc = "claim"
    /\ Oldest(j)
    /\ jobs' = [jobs EXCEPT ![j].status = "running", ![j].attempts = @ + 1]
    /\ ticks' = [ticks EXCEPT ![t].pc = "claimed", ![t].job = j,
                              ![t].attempt = jobs[j].attempts + 1]
    /\ UNCHANGED <<running, runs, requests, spent>>

(* `claimNext`: one atomic findOneAndUpdate. *)
Claim(t, j) ==
    /\ ticks[t].pc = "claim"
    /\ Oldest(j)
    /\ jobs' = [jobs EXCEPT ![j].status = "running", ![j].lease = "live",
                            ![j].attempts = @ + 1]
    /\ ticks' = [ticks EXCEPT ![t].pc = "claimed", ![t].job = j,
                              ![t].attempt = jobs[j].attempts + 1]
    /\ UNCHANGED <<running, runs, requests, spent>>

ClaimsNothing(t) ==
    /\ ticks[t].pc = "claim"
    /\ \A j \in Jobs : ~Claimable(j)
    /\ ticks' = [ticks EXCEPT ![t] = IdleTick]
    /\ UNCHANGED <<jobs, running, runs, requests, spent>>

TickFails(t) ==
    /\ ticks[t].pc \in {"reclaim", "claim"}
    /\ errors < MaxErrors
    /\ errors' = errors + 1
    /\ ticks' = [ticks EXCEPT ![t] = IdleTick]
    /\ UNCHANGED <<jobs, running, runs, requests, restarts, userOps>>

(* The claim's answer arrives and `void this.run(job)` is entered. *)
StartRun(t, s) ==
    /\ ticks[t].pc = "claimed"
    /\ runs[s].pc = "free"
    /\ running' = running \cup {ticks[t].job}
    /\ runs' = [runs EXCEPT ![s] = [pc |-> "handling", job |-> ticks[t].job,
                                    attempt |-> ticks[t].attempt, asked |-> FALSE]]
    /\ ticks' = [ticks EXCEPT ![t] =
                   IF ticks[t].left > 1 THEN ClaimUpTo(ticks[t].left - 1) ELSE IdleTick]
    /\ UNCHANGED <<jobs, requests, spent>>

-------------------------------------------------------------------------------
(* One run.                                                                *)

Goto(s, pc) == runs' = [runs EXCEPT ![s].pc = pc]

(* The fields `finish` and `fail` write, whatever the document says now. *)
Write(j, status) ==
    jobs' = [jobs EXCEPT ![j].status = status, ![j].lease = "none"]

SetProgress(s) ==
    /\ runs[s].pc = "handling"
    /\ jobs' = [jobs EXCEPT ![runs[s].job].lease = "live"]
    /\ UNCHANGED <<running, ticks, runs, requests, spent>>

HandlerReturns(s) ==
    /\ runs[s].pc = "handling"
    /\ Goto(s, "returned")
    /\ UNCHANGED <<jobs, running, ticks, requests, spent>>

HandlerThrows(s) ==
    /\ runs[s].pc = "handling"
    /\ Goto(s, "failing")
    /\ UNCHANGED <<jobs, running, ticks, requests, spent>>

(* A run that reports success without looking at the flag. *)
TrustResult(s) ==
    /\ runs[s].pc = "returned"
    /\ Goto(s, "succeeding")
    /\ UNCHANGED <<jobs, running, ticks, requests, spent>>

(* `isCancelled` is read once more before the result is recorded. *)
CheckCancelled(s) ==
    /\ runs[s].pc = "returned"
    /\ Goto(s, IF jobs[runs[s].job].cancelRequested THEN "cancelling" ELSE "succeeding")
    /\ UNCHANGED <<jobs, running, ticks, requests, spent>>

Finish(s) ==
    /\ runs[s].pc \in {"succeeding", "cancelling"}
    /\ Write(runs[s].job, IF runs[s].pc = "succeeding" THEN "succeeded" ELSE "cancelled")
    /\ Goto(s, "written")
    /\ UNCHANGED <<running, ticks, requests, spent>>

(* The read in isCancelled, or the update in finish, throws into `catch`. *)
RunStepThrows(s) ==
    /\ runs[s].pc \in {"returned", "succeeding", "cancelling"}
    /\ errors < MaxErrors
    /\ errors' = errors + 1
    /\ Goto(s, "failing")
    /\ UNCHANGED <<jobs, running, ticks, requests, restarts, userOps>>

(* An off-by-one: the last permitted attempt does not count as exhausted. *)
ExhaustedLate(run) == run.attempt > MaxAttempts[run.job]

Exhausted(run) == run.attempt >= MaxAttempts[run.job]

Fail(s) ==
    /\ runs[s].pc = "failing"
    /\ Write(runs[s].job, IF Exhausted(runs[s]) THEN "failed" ELSE "queued")
    /\ Goto(s, "written")
    /\ UNCHANGED <<running, ticks, requests, spent>>

(* A run whose slot is never given back. *)
EndRunLeaky(s) ==
    /\ runs[s].pc = "written"
    /\ runs' = [runs EXCEPT ![s] = FreeSlot]
    /\ UNCHANGED <<jobs, running, ticks, requests, spent>>

(* `finally`: the write was answered. *)
EndRun(s) ==
    /\ runs[s].pc = "written"
    /\ running' = running \ {runs[s].job}
    /\ runs' = [runs EXCEPT ![s] = FreeSlot]
    /\ UNCHANGED <<jobs, ticks, requests, spent>>

-------------------------------------------------------------------------------
(* What a person does to a job of theirs, and an operator to anybody's:    *)
(* read, decide, then write without checking that the document is still    *)
(* what was read.                                                          *)

Accept(r, op, j, wasQueued) ==
    /\ requests[r].op = "none"
    /\ userOps < MaxUserOps
    /\ userOps' = userOps + 1
    /\ requests' = [requests EXCEPT ![r] = [op |-> op, job |-> j, wasQueued |-> wasQueued]]
    /\ UNCHANGED <<jobs, running, ticks, runs, restarts, errors>>

CancelReads(r, j) ==
    /\ j \in Owned
    /\ jobs[j].status \in {"queued", "running"}
    /\ Accept(r, "cancel", j, jobs[j].status = "queued")

RetryReads(r, j) ==
    /\ j \in Owned
    /\ jobs[j].status \in {"failed", "cancelled"}
    /\ Accept(r, "retry", j, FALSE)

(* An operator's cancel only ever raises the flag, and `force` retries a   *)
(* job whatever its status.                                                *)
OperatorReads(r, j) ==
    /\ j \in Operated
    /\ \/ jobs[j].status \in {"queued", "running"} /\ Accept(r, "cancel", j, FALSE)
       \/ jobs[j].status # "absent" /\ Accept(r, "retry", j, FALSE)

(* History: which runs of j a cancel, or its undoing, concerns. *)
Mark(j, asked) ==
    runs' = [s \in Slots |-> IF runs[s].job = j /\ (asked => runs[s].pc = "handling")
                               THEN [runs[s] EXCEPT !.asked = asked]
                               ELSE runs[s]]

CancelWrites(r) ==
    LET j == requests[r].job IN
    /\ requests[r].op = "cancel"
    /\ jobs' = [jobs EXCEPT ![j].cancelRequested = TRUE,
                            ![j].status = IF requests[r].wasQueued THEN "cancelled" ELSE @]
    /\ Mark(j, TRUE)
    /\ requests' = [requests EXCEPT ![r] = NoRequest]
    /\ UNCHANGED <<running, ticks, spent>>

RetryWrites(r) ==
    LET j == requests[r].job IN
    /\ requests[r].op = "retry"
    /\ jobs' = [jobs EXCEPT ![j].status = "queued", ![j].attempts = 0,
                            ![j].cancelRequested = FALSE, ![j].lease = "none"]
    /\ Mark(j, FALSE)
    /\ requests' = [requests EXCEPT ![r] = NoRequest]
    /\ UNCHANGED <<running, ticks, spent>>

-------------------------------------------------------------------------------
(* The process dies (a crash, a deploy, an unhandled rejection from `fail`) *)
(* and boots again.                                                        *)
Restart ==
    /\ restarts < MaxRestarts
    /\ restarts' = restarts + 1
    /\ running' = {}
    /\ ticks' = [t \in Ticks |-> IdleTick]
    /\ runs' = [s \in Slots |-> FreeSlot]
    /\ requests' = [r \in Requests |-> NoRequest]
    /\ UNCHANGED <<jobs, errors, userOps>>

TickStep(t) ==
    \/ TickStarts(t) \/ ReclaimStalled(t) \/ ClaimsNothing(t)
    \/ \E j \in Jobs : Claim(t, j)
    \/ \E s \in Slots : StartRun(t, s)

RunStep(s) ==
    \/ HandlerReturns(s) \/ HandlerThrows(s) \/ CheckCancelled(s)
    \/ Finish(s) \/ Fail(s) \/ EndRun(s)

Time(j) == BecomesDue(j) \/ LeaseExpires(j)

Next ==
    \/ \E j \in Jobs : Enqueue(j) \/ Time(j)
    \/ \E t \in Ticks : TickStep(t) \/ TickFails(t)
    \/ \E s \in Slots : RunStep(s) \/ SetProgress(s) \/ RunStepThrows(s)
    \/ \E r \in Requests, j \in Jobs : CancelReads(r, j) \/ RetryReads(r, j) \/ OperatorReads(r, j)
    \/ \E r \in Requests : CancelWrites(r) \/ RetryWrites(r)
    \/ Restart

Spec == Init /\ [][Next]_vars

(* The interval keeps firing, the database answers, handlers settle (every *)
(* provider call has a timeout) and clocks advance.  Nothing obliges a     *)
(* person to act, a handler to report progress, or anything to fail.       *)
Fairness ==
    /\ \A t \in Ticks : WF_vars(TickStep(t))
    /\ \A s \in Slots : WF_vars(RunStep(s))
    /\ \A j \in Jobs : WF_vars(BecomesDue(j)) /\ WF_vars(LeaseExpires(j))

FairSpec == Spec /\ Fairness
-------------------------------------------------------------------------------
(* Properties.                                                             *)

(* Every variable has the shape the documents and the loop's own state have. *)
TypeOK ==
    /\ jobs \in [Jobs -> JobDocument]
    /\ running \subseteq Jobs
    /\ ticks \in [Ticks -> Tick]
    /\ runs \in [Slots -> Run]
    /\ requests \in [Requests -> Request]
    /\ restarts \in 0..MaxRestarts
    /\ errors \in 0..MaxErrors
    /\ userOps \in 0..MaxUserOps

Claimed(t, j) == ticks[t].pc = "claimed" /\ ticks[t].job = j
Executing(s, j) == runs[s].pc \in Working /\ runs[s].job = j

(* A live tick or run still owes job j a final write. *)
Held(j) == \/ \E t \in Ticks : Claimed(t, j)
           \/ \E s \in Slots : Executing(s, j)

(* reclaimStalled must be able to find whatever a dead worker left behind:  *)
(* a job marked running always carries a lease, and once nobody holds it    *)
(* and every `finally` has run, it is not shielded by `running` either.     *)
Recoverable ==
    \A j \in Jobs :
        /\ jobs[j].status = "running" => jobs[j].lease # "none"
        /\ j \in running => \E s \in Slots : runs[s].pc # "free" /\ runs[s].job = j

(* A cancel that was recorded while the handler ran, and that no retry has  *)
(* undone, keeps the run from reporting success (jobs.queue.ts:210-211).    *)
CancelWins == \A s \in Slots : runs[s].asked => runs[s].pc # "succeeding"

(* Jobs nobody cancels or retries, enqueued with maxAttempts 1: scripts,    *)
(* sweeps, stock-drop mails and Chowdeck imports, unless an operator steps  *)
(* in.                                                                      *)
Touched == Owned \cup Operated
Solo == {j \in Jobs \ Touched : MaxAttempts[j] = 1}

(* Such a job is started at most once in the life of a process: only a      *)
(* restart, through the stalled-job sweep, can start it again.              *)
OneStartPerProcess == \A j \in Solo : jobs[j].attempts <= restarts + 1

(* Solo work implements the queue's promise: never requeued under a live    *)
(* worker, never held twice, finished by its holder and then for good.      *)
SoloState == [j \in Solo |-> jobs[j].status]
SoloHeld == [j \in Solo |-> Held(j)]
Lifecycle == INSTANCE JobLifecycle WITH Work <- Solo, state <- SoloState, held <- SoloHeld
ImplementsLifecycle == Lifecycle!Spec

(* Every job that is waiting or running is eventually finished, whatever    *)
(* crashes, errors, cancels and retries come in between.                    *)
EventuallySettled ==
    \A j \in Jobs : jobs[j].status \in {"queued", "running"} ~> jobs[j].status \in Terminal

-------------------------------------------------------------------------------
(* Statements of the repository that the code does not keep.               *)

(* maxAttempts 1 means "NOT retried. ... an operator decides whether to run *)
(* it again" (scripts.service.ts:177-178).                                  *)
WithinAttempts == \A j \in Jobs \ Touched : jobs[j].attempts <= MaxAttempts[j]

(* "The atomic claim stops double-processing" (docs/GOING-LIVE.md:121-122): *)
(* one handler at a time works on a job.                                    *)
OneHandlerPerJob ==
    \A s1, s2 \in Slots :
        runs[s1].pc = "handling" /\ runs[s2].pc = "handling" /\ s1 # s2
            => runs[s1].job # runs[s2].job
===============================================================================
