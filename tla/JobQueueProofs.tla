---------------------------- MODULE JobQueueProofs ----------------------------
(***************************************************************************)
(* Theorems about JobQueue, for every number of jobs, overlapping ticks,   *)
(* runs, requests, restarts and errors, and every concurrency.             *)
(***************************************************************************)
EXTENDS JobQueue, FiniteSetTheorems, TLAPS

(* Whatever is under way names the job it is about; a request names a job  *)
(* that may be touched.  TypeOK is inductive only together with this:      *)
(* a run writes the document its record names.                             *)
Located ==
    /\ \A t \in Ticks : ticks[t].job \in Jobs <=> ticks[t].pc = "claimed"
    /\ \A s \in Slots : runs[s].job \in Jobs <=> runs[s].pc # "free"
    /\ \A r \in Requests : requests[r].op # "none" => requests[r].job \in Touched

(* `free` is computed from the size of a finite set of jobs. *)
LEMMA FreeIsInt ==
    ASSUME NEW S \in SUBSET Jobs
    PROVE  Cardinality(S) \in Nat
<1>1. IsFiniteSet(Jobs)
  BY QueueAssumption, FS_Interval DEF Jobs
<1>2. IsFiniteSet(S)
  BY <1>1, FS_Subset
<1> QED
  BY <1>2, FS_CardinalityType

(* Writing any status of the schema, or any lease, to a document keeps the *)
(* collection's shape.                                                     *)
LEMMA WriteType ==
    ASSUME TypeOK, NEW j \in Jobs, NEW status \in Status, Write(j, status)
    PROVE  jobs' \in [Jobs -> JobDocument]
BY DEF TypeOK, Write, JobDocument

LEMMA GotoType ==
    ASSUME TypeOK, NEW s \in Slots, NEW pc \in {"free", "written"} \cup Working, Goto(s, pc)
    PROVE  runs' \in [Slots -> Run]
BY DEF TypeOK, Goto, Run

LEMMA MarkType ==
    ASSUME TypeOK, NEW j, NEW asked \in BOOLEAN, Mark(j, asked)
    PROVE  runs' \in [Slots -> Run]
BY DEF TypeOK, Mark, Run

LEMMA MarkKeeps ==
    ASSUME TypeOK, NEW j, NEW asked \in BOOLEAN, Mark(j, asked)
    PROVE  \A s \in Slots : runs'[s].pc = runs[s].pc /\ runs'[s].job = runs[s].job
BY DEF TypeOK, Mark, Run

LEMMA NoJobIsNoJob == NoJob \notin Jobs
BY DEF NoJob, Jobs

-------------------------------------------------------------------------------
(* What each action preserves, one lemma per part of the process.          *)

LEMMA TypeTick ==
    ASSUME TypeOK, Located, NEW t \in Ticks, TickStep(t) \/ TickFails(t)
    PROVE  TypeOK' /\ Located'
<1> USE QueueAssumption, NoJobIsNoJob DEF spent
<1>1. CASE TickStarts(t)
  BY <1>1 DEF TypeOK, Located, TickStarts, Tick
<1>2. CASE ReclaimStalled(t)
  <2>1. Cardinality(running) \in Nat
    BY FreeIsInt DEF TypeOK
  <2>2. jobs' \in [Jobs -> JobDocument]
    BY <1>2 DEF TypeOK, ReclaimStalled, JobDocument, Status
  <2>3. ticks' \in [Ticks -> Tick]
    <3>1. Concurrency - Cardinality(running) \in Int
      BY <2>1
    <3>2. \A n \in Int : ClaimUpTo(n) \in Tick
      BY DEF ClaimUpTo, Tick
    <3>3. IdleTick \in Tick
      BY DEF IdleTick, Tick
    <3> QED
      BY <1>2, <3>1, <3>2, <3>3 DEF TypeOK, ReclaimStalled
  <2>4. Located'
    BY <1>2, <2>1 DEF TypeOK, Located, ReclaimStalled, Tick, IdleTick, ClaimUpTo
  <2> QED
    BY <1>2, <2>2, <2>3, <2>4 DEF TypeOK, ReclaimStalled
<1>3. CASE ClaimsNothing(t)
  BY <1>3 DEF TypeOK, Located, ClaimsNothing, Tick, IdleTick
<1>4. ASSUME NEW j \in Jobs, Claim(t, j) PROVE TypeOK' /\ Located'
  BY <1>4 DEF TypeOK, Located, Claim, JobDocument, Status, Tick
<1>5. ASSUME NEW s \in Slots, StartRun(t, s) PROVE TypeOK' /\ Located'
  <2>1. ticks[t].job \in Jobs
    BY <1>5 DEF Located, StartRun
  <2>2. runs' \in [Slots -> Run]
    BY <1>5, <2>1 DEF TypeOK, StartRun, Tick, Run, Working
  <2>3. ticks' \in [Ticks -> Tick]
    BY <1>5 DEF TypeOK, StartRun, Tick, IdleTick, ClaimUpTo
  <2>4. Located'
    BY <1>5, <2>1 DEF TypeOK, Located, StartRun, Tick, IdleTick, ClaimUpTo, Run
  <2> QED
    BY <1>5, <2>1, <2>2, <2>3, <2>4 DEF TypeOK, StartRun
<1>6. CASE TickFails(t)
  BY <1>6 DEF TypeOK, Located, TickFails, Tick, IdleTick
<1> QED
  BY <1>1, <1>2, <1>3, <1>4, <1>5, <1>6 DEF TickStep

LEMMA TypeRun ==
    ASSUME TypeOK, Located, NEW s \in Slots,
           RunStep(s) \/ SetProgress(s) \/ RunStepThrows(s)
    PROVE  TypeOK' /\ Located'
<1> USE QueueAssumption, NoJobIsNoJob DEF spent, Working
<1>1. CASE SetProgress(s)
  BY <1>1 DEF TypeOK, Located, SetProgress, JobDocument
<1>2. CASE HandlerReturns(s)
  BY <1>2 DEF TypeOK, Located, HandlerReturns, Goto, Run
<1>3. CASE HandlerThrows(s)
  BY <1>3 DEF TypeOK, Located, HandlerThrows, Goto, Run
<1>4. CASE CheckCancelled(s)
  BY <1>4 DEF TypeOK, Located, CheckCancelled, Goto, Run
<1>5. CASE Finish(s)
  <2>1. runs[s].job \in Jobs
    BY <1>5 DEF Located, Finish
  <2>2. jobs' \in [Jobs -> JobDocument]
    BY <1>5, <2>1, WriteType DEF Finish, Status, Terminal
  <2> QED
    BY <1>5, <2>2 DEF TypeOK, Located, Finish, Goto, Run
<1>6. CASE Fail(s)
  <2>1. runs[s].job \in Jobs
    BY <1>6 DEF Located, Fail
  <2>2. jobs' \in [Jobs -> JobDocument]
    BY <1>6, <2>1, WriteType DEF Fail, Status, Terminal
  <2> QED
    BY <1>6, <2>2 DEF TypeOK, Located, Fail, Goto, Run
<1>7. CASE EndRun(s)
  BY <1>7 DEF TypeOK, Located, EndRun, FreeSlot, Run
<1>8. CASE RunStepThrows(s)
  BY <1>8 DEF TypeOK, Located, RunStepThrows, Goto, Run
<1> QED
  BY <1>1, <1>2, <1>3, <1>4, <1>5, <1>6, <1>7, <1>8 DEF RunStep

LEMMA TypeRequest ==
    ASSUME TypeOK, Located, NEW r \in Requests,
           \/ \E j \in Jobs : CancelReads(r, j) \/ RetryReads(r, j) \/ OperatorReads(r, j)
           \/ CancelWrites(r) \/ RetryWrites(r)
    PROVE  TypeOK' /\ Located'
<1> USE QueueAssumption, NoJobIsNoJob DEF spent
<1>1. ASSUME NEW j \in Jobs, CancelReads(r, j) PROVE TypeOK' /\ Located'
  BY <1>1 DEF TypeOK, Located, CancelReads, Accept, Request, Touched
<1>2. ASSUME NEW j \in Jobs, RetryReads(r, j) PROVE TypeOK' /\ Located'
  BY <1>2 DEF TypeOK, Located, RetryReads, Accept, Request, Touched
<1>5. ASSUME NEW j \in Jobs, OperatorReads(r, j) PROVE TypeOK' /\ Located'
  <2>1. PICK op \in {"cancel", "retry"} : Accept(r, op, j, FALSE)
    BY <1>5 DEF OperatorReads
  <2> QED
    BY <1>5, <2>1 DEF TypeOK, Located, OperatorReads, Accept, Request, Touched
<1>3. CASE CancelWrites(r)
  <2>1. runs' \in [Slots -> Run]
    BY <1>3, MarkType DEF CancelWrites
  <2>2. \A s \in Slots : runs'[s].pc = runs[s].pc /\ runs'[s].job = runs[s].job
    BY <1>3, MarkKeeps DEF CancelWrites
  <2>3. jobs' \in [Jobs -> JobDocument]
    <3>1. requests[r].wasQueued \in BOOLEAN /\ requests[r].job \in Jobs
      BY <1>3, QueueAssumption DEF Located, CancelWrites, TypeOK, Request, Touched
    <3> DEFINE job == requests[r].job
               status == IF requests[r].wasQueued THEN "cancelled" ELSE jobs[job].status
               document == [jobs[job] EXCEPT !.cancelRequested = TRUE, !.status = status]
    <3>2. jobs[job] \in JobDocument
      BY <3>1 DEF TypeOK
    <3>3. status \in Status
      <4>1. jobs[job].status \in Status
        BY <3>2 DEF JobDocument
      <4>2. "cancelled" \in Status
        BY DEF Status, Terminal
      <4> QED
        BY <4>1, <4>2
    <3>4. jobs' = [jobs EXCEPT ![job].cancelRequested = TRUE, ![job].status = status]
      BY <1>3, <3>1 DEF CancelWrites, TypeOK
    <3> HIDE DEF status
    <3>5. document \in JobDocument
      BY <3>2, <3>3 DEF JobDocument
    <3>6. jobs' = [jobs EXCEPT ![job] = document]
      BY <3>1, <3>4 DEF TypeOK
    <3> QED
      BY <3>1, <3>5, <3>6 DEF TypeOK
  <2> QED
    BY <1>3, <2>1, <2>2, <2>3 DEF TypeOK, Located, CancelWrites, Request, NoRequest
<1>4. CASE RetryWrites(r)
  <2>1. runs' \in [Slots -> Run]
    BY <1>4, MarkType DEF RetryWrites
  <2>2. \A s \in Slots : runs'[s].pc = runs[s].pc /\ runs'[s].job = runs[s].job
    BY <1>4, MarkKeeps DEF RetryWrites
  <2>3. jobs' \in [Jobs -> JobDocument]
    <3>1. requests[r].job \in Jobs
      BY <1>4, QueueAssumption DEF Located, RetryWrites, Touched
    <3>2. jobs[requests[r].job] \in JobDocument
      BY <3>1 DEF TypeOK
    <3>3. [jobs[requests[r].job] EXCEPT !.status = "queued", !.attempts = 0,
             !.cancelRequested = FALSE, !.lease = "none"] \in JobDocument
      BY <3>2 DEF JobDocument, Status
    <3> QED
      BY <1>4, <3>1, <3>3 DEF RetryWrites, TypeOK
  <2> QED
    BY <1>4, <2>1, <2>2, <2>3 DEF TypeOK, Located, RetryWrites, Request, NoRequest
<1> QED
  BY <1>1, <1>2, <1>3, <1>4, <1>5

LEMMA TypeEnvironment ==
    ASSUME TypeOK, Located,
           (\E j \in Jobs : Enqueue(j) \/ Time(j)) \/ Restart
    PROVE  TypeOK' /\ Located'
<1> USE QueueAssumption, NoJobIsNoJob DEF spent
<1>1. ASSUME NEW j \in Jobs, Enqueue(j) PROVE TypeOK' /\ Located'
  BY <1>1 DEF TypeOK, Located, Enqueue, JobDocument, Status
<1>2. ASSUME NEW j \in Jobs, BecomesDue(j) PROVE TypeOK' /\ Located'
  BY <1>2 DEF TypeOK, Located, BecomesDue, JobDocument
<1>3. ASSUME NEW j \in Jobs, LeaseExpires(j) PROVE TypeOK' /\ Located'
  BY <1>3 DEF TypeOK, Located, LeaseExpires, JobDocument
<1>4. CASE Restart
  BY <1>4 DEF TypeOK, Located, Restart, Tick, IdleTick, Run, FreeSlot, Request, NoRequest
<1> QED
  BY <1>1, <1>2, <1>3, <1>4 DEF Time

(* Every reachable state has the declared shape, and whatever is under way *)
(* names the job it is about.                                              *)
THEOREM TypeCorrect == Spec => [](TypeOK /\ Located)
<1>1. Init => TypeOK /\ Located
  BY QueueAssumption, NoJobIsNoJob DEF Init, TypeOK, Located, NoDocument, IdleTick, FreeSlot,
     NoRequest, JobDocument, Status, Terminal, Tick, Run, Request, Working
<1>2. TypeOK /\ Located /\ [Next]_vars => TypeOK' /\ Located'
  <2> SUFFICES ASSUME TypeOK, Located, [Next]_vars
               PROVE  TypeOK' /\ Located'
    OBVIOUS
  <2>1. CASE UNCHANGED vars
    BY <2>1 DEF TypeOK, Located, vars
  <2> QED
    BY <2>1, TypeTick, TypeRun, TypeRequest, TypeEnvironment DEF Next
<1> QED
  BY <1>1, <1>2, PTL DEF Spec

-------------------------------------------------------------------------------
(* A cancel recorded while the handler runs wins.                          *)

(* The flag a cancel raised stays up until a retry lowers it, and a retry  *)
(* lowers the history bit of every run of the job with it.                 *)
Asked == \A s \in Slots :
    runs[s].asked => /\ jobs[runs[s].job].cancelRequested
                     /\ runs[s].pc \notin {"free", "succeeding"}

LEMMA AskedTick ==
    ASSUME TypeOK, Located, Asked, NEW t \in Ticks, TickStep(t) \/ TickFails(t)
    PROVE  Asked'
<1> USE DEF spent
<1>1. CASE TickStarts(t)
  BY <1>1 DEF Asked, TickStarts
<1>2. CASE ReclaimStalled(t)
  <2>1. \A j \in Jobs : jobs'[j].cancelRequested = jobs[j].cancelRequested
    BY <1>2 DEF ReclaimStalled, TypeOK, JobDocument
  <2> QED
    BY <1>2, <2>1 DEF Asked, Located, ReclaimStalled
<1>3. CASE ClaimsNothing(t)
  BY <1>3 DEF Asked, ClaimsNothing
<1>4. ASSUME NEW j \in Jobs, Claim(t, j) PROVE Asked'
  BY <1>4 DEF Asked, Claim, TypeOK, JobDocument
<1>5. ASSUME NEW s \in Slots, StartRun(t, s) PROVE Asked'
  BY <1>5 DEF Asked, StartRun, TypeOK
<1>6. CASE TickFails(t)
  BY <1>6 DEF Asked, TickFails
<1> QED
  BY <1>1, <1>2, <1>3, <1>4, <1>5, <1>6 DEF TickStep

LEMMA AskedRun ==
    ASSUME TypeOK, Located, Asked, NEW s \in Slots,
           RunStep(s) \/ SetProgress(s) \/ RunStepThrows(s)
    PROVE  Asked'
<1> USE DEF spent
<1>1. CASE SetProgress(s)
  BY <1>1 DEF Asked, Located, SetProgress, TypeOK, JobDocument
<1>2. CASE HandlerReturns(s)
  BY <1>2 DEF Asked, HandlerReturns, Goto, TypeOK, Run
<1>3. CASE HandlerThrows(s)
  BY <1>3 DEF Asked, HandlerThrows, Goto, TypeOK, Run
<1>4. CASE CheckCancelled(s)
  BY <1>4 DEF Asked, CheckCancelled, Goto, TypeOK, Run
<1>5. CASE Finish(s)
  BY <1>5 DEF Asked, Located, Finish, Write, Goto, TypeOK, Run, JobDocument
<1>6. CASE Fail(s)
  BY <1>6 DEF Asked, Located, Fail, Write, Goto, TypeOK, Run, JobDocument
<1>7. CASE EndRun(s)
  BY <1>7 DEF Asked, EndRun, FreeSlot, TypeOK, Run
<1>8. CASE RunStepThrows(s)
  BY <1>8 DEF Asked, RunStepThrows, Goto, TypeOK, Run
<1> QED
  BY <1>1, <1>2, <1>3, <1>4, <1>5, <1>6, <1>7, <1>8 DEF RunStep

LEMMA AskedRequest ==
    ASSUME TypeOK, Located, Asked, NEW r \in Requests,
           \/ \E j \in Jobs : CancelReads(r, j) \/ RetryReads(r, j) \/ OperatorReads(r, j)
           \/ CancelWrites(r) \/ RetryWrites(r)
    PROVE  Asked'
<1> USE DEF spent
<1>1. ASSUME NEW j \in Jobs, CancelReads(r, j) \/ RetryReads(r, j) \/ OperatorReads(r, j) PROVE Asked'
  BY <1>1 DEF Asked, CancelReads, RetryReads, OperatorReads, Accept
<1>2. ASSUME CancelWrites(r) \/ RetryWrites(r) PROVE requests[r].job \in Jobs
  BY <1>2, QueueAssumption DEF Located, CancelWrites, RetryWrites, Touched
<1>3. CASE CancelWrites(r)
  <2>1. \A j \in Jobs : jobs[j].cancelRequested => jobs'[j].cancelRequested
    BY <1>2, <1>3 DEF CancelWrites, TypeOK, JobDocument
  <2>2. jobs'[requests[r].job].cancelRequested
    BY <1>2, <1>3 DEF CancelWrites, TypeOK, JobDocument
  <2> QED
    BY <1>2, <1>3, <2>1, <2>2 DEF Asked, Located, CancelWrites, Mark, TypeOK, Run
<1>4. CASE RetryWrites(r)
  <2>1. \A j \in Jobs : j # requests[r].job => jobs'[j] = jobs[j]
    BY <1>2, <1>4 DEF RetryWrites, TypeOK
  <2> QED
    BY <1>2, <1>4, <2>1 DEF Asked, Located, RetryWrites, Mark, TypeOK, Run
<1> QED
  BY <1>1, <1>3, <1>4

LEMMA AskedEnvironment ==
    ASSUME TypeOK, Located, Asked,
           (\E j \in Jobs : Enqueue(j) \/ Time(j)) \/ Restart
    PROVE  Asked'
<1> USE DEF spent
<1>1. ASSUME NEW j \in Jobs, Enqueue(j) PROVE Asked'
  <2>1. \A i \in Jobs : jobs'[i].cancelRequested = jobs[i].cancelRequested
    BY <1>1 DEF Enqueue, TypeOK, JobDocument
  <2> QED
    BY <1>1, <2>1 DEF Asked, Located, Enqueue
<1>2. ASSUME NEW j \in Jobs, BecomesDue(j) PROVE Asked'
  BY <1>2 DEF Asked, BecomesDue, TypeOK, JobDocument
<1>3. ASSUME NEW j \in Jobs, LeaseExpires(j) PROVE Asked'
  BY <1>3 DEF Asked, LeaseExpires, TypeOK, JobDocument
<1>4. CASE Restart
  BY <1>4 DEF Asked, Restart, FreeSlot
<1> QED
  BY <1>1, <1>2, <1>3, <1>4 DEF Time

(* Whatever ticks, cancels, retries, errors and restarts interleave, a run *)
(* whose handler was asked to stop, and whose cancel no retry has undone,  *)
(* never goes on to record success.                                        *)
THEOREM CancelRespected == Spec => []CancelWins
<1>1. Init => Asked
  BY DEF Init, Asked, FreeSlot
<1>2. TypeOK /\ Located /\ Asked /\ [Next]_vars => Asked'
  <2> SUFFICES ASSUME TypeOK, Located, Asked, [Next]_vars
               PROVE  Asked'
    OBVIOUS
  <2>1. CASE UNCHANGED vars
    BY <2>1 DEF Asked, vars
  <2> QED
    BY <2>1, AskedTick, AskedRun, AskedRequest, AskedEnvironment DEF Next
<1>3. Asked => CancelWins
  BY DEF Asked, CancelWins
<1> QED
  BY <1>1, <1>2, <1>3, TypeCorrect, PTL DEF Spec

-------------------------------------------------------------------------------
(* What a dead worker leaves behind can be found again.                    *)

LEMMA RecoverableTick ==
    ASSUME TypeOK, Located, Recoverable, NEW t \in Ticks, TickStep(t) \/ TickFails(t)
    PROVE  Recoverable'
<1> USE DEF spent
<1>1. CASE TickStarts(t)
  BY <1>1 DEF Recoverable, TickStarts
<1>2. CASE ReclaimStalled(t)
  <2>1. \A j \in Jobs : jobs'[j].status = "running" => jobs'[j] = jobs[j]
    BY <1>2 DEF ReclaimStalled, TypeOK, JobDocument
  <2> QED
    BY <1>2, <2>1 DEF Recoverable, ReclaimStalled
<1>3. CASE ClaimsNothing(t)
  BY <1>3 DEF Recoverable, ClaimsNothing
<1>4. ASSUME NEW j \in Jobs, Claim(t, j) PROVE Recoverable'
  BY <1>4 DEF Recoverable, Claim, TypeOK, JobDocument
<1>5. ASSUME NEW s \in Slots, StartRun(t, s) PROVE Recoverable'
  <2>1. runs'[s].pc = "handling" /\ runs'[s].job = ticks[t].job
    BY <1>5 DEF StartRun, TypeOK
  <2>2. \A r \in Slots : runs[r].pc # "free" => runs'[r] = runs[r]
    BY <1>5 DEF StartRun, TypeOK
  <2> QED
    BY <1>5, <2>1, <2>2 DEF Recoverable, StartRun
<1>6. CASE TickFails(t)
  BY <1>6 DEF Recoverable, TickFails
<1> QED
  BY <1>1, <1>2, <1>3, <1>4, <1>5, <1>6 DEF TickStep

(* A step that only moves a run along keeps every entry of `running` owned. *)
LEMMA GotoKeepsOwners ==
    ASSUME TypeOK, NEW s \in Slots, NEW pc \in {"written"} \cup Working, Goto(s, pc),
           runs[s].pc # "free", running' = running,
           \A j \in running : \E r \in Slots : runs[r].pc # "free" /\ runs[r].job = j
    PROVE  \A j \in running' : \E r \in Slots : runs'[r].pc # "free" /\ runs'[r].job = j
<1>1. \A r \in Slots : runs'[r].job = runs[r].job /\ (runs[r].pc # "free" => runs'[r].pc # "free")
  BY DEF Goto, TypeOK, Run, Working
<1> QED
  BY <1>1

LEMMA RecoverableRun ==
    ASSUME TypeOK, Located, Recoverable, NEW s \in Slots,
           RunStep(s) \/ SetProgress(s) \/ RunStepThrows(s)
    PROVE  Recoverable'
<1> USE DEF spent, Working
<1>a. \A j \in running : \E r \in Slots : runs[r].pc # "free" /\ runs[r].job = j
  BY DEF Recoverable, TypeOK
<1>1. CASE SetProgress(s)
  BY <1>1 DEF Recoverable, SetProgress, TypeOK, JobDocument
<1>2. CASE HandlerReturns(s)
  BY <1>2, <1>a, GotoKeepsOwners DEF Recoverable, HandlerReturns
<1>3. CASE HandlerThrows(s)
  BY <1>3, <1>a, GotoKeepsOwners DEF Recoverable, HandlerThrows
<1>4. CASE CheckCancelled(s)
  BY <1>4, <1>a, GotoKeepsOwners DEF Recoverable, CheckCancelled
<1>5. CASE Finish(s)
  <2>1. \A j \in Jobs : jobs'[j].status = "running" => jobs'[j] = jobs[j]
    BY <1>5 DEF Finish, Write, TypeOK, JobDocument
  <2> QED
    BY <1>5, <2>1, <1>a, GotoKeepsOwners DEF Recoverable, Finish
<1>6. CASE Fail(s)
  <2>1. \A j \in Jobs : jobs'[j].status = "running" => jobs'[j] = jobs[j]
    BY <1>6 DEF Fail, Write, TypeOK, JobDocument
  <2> QED
    BY <1>6, <2>1, <1>a, GotoKeepsOwners DEF Recoverable, Fail
<1>7. CASE EndRun(s)
  <2>1. \A r \in Slots : r # s => runs'[r] = runs[r]
    BY <1>7 DEF EndRun, TypeOK
  <2> QED
    BY <1>7, <2>1 DEF Recoverable, EndRun
<1>8. CASE RunStepThrows(s)
  BY <1>8, <1>a, GotoKeepsOwners DEF Recoverable, RunStepThrows
<1> QED
  BY <1>1, <1>2, <1>3, <1>4, <1>5, <1>6, <1>7, <1>8 DEF RunStep

LEMMA RecoverableRest ==
    ASSUME TypeOK, Located, Recoverable,
           \/ \E r \in Requests, j \in Jobs : CancelReads(r, j) \/ RetryReads(r, j) \/ OperatorReads(r, j)
           \/ \E r \in Requests : CancelWrites(r) \/ RetryWrites(r)
           \/ \E j \in Jobs : Enqueue(j) \/ Time(j)
           \/ Restart
    PROVE  Recoverable'
<1> USE DEF spent
<1>1. ASSUME NEW r \in Requests, NEW j \in Jobs, CancelReads(r, j) \/ RetryReads(r, j) \/ OperatorReads(r, j)
      PROVE  Recoverable'
  BY <1>1 DEF Recoverable, CancelReads, RetryReads, OperatorReads, Accept
<1>2. ASSUME NEW r \in Requests, CancelWrites(r) \/ RetryWrites(r) PROVE Recoverable'
  <2>1. \A s \in Slots : runs'[s].pc = runs[s].pc /\ runs'[s].job = runs[s].job
    BY <1>2, MarkKeeps DEF CancelWrites, RetryWrites
  <2>2. requests[r].job \in Jobs
    BY <1>2, QueueAssumption DEF Located, CancelWrites, RetryWrites, Touched
  <2>3. \A j \in Jobs : jobs'[j].status = "running" => jobs'[j].lease = jobs[j].lease /\ jobs[j].status = "running"
    <3>1. CASE CancelWrites(r)
      BY <3>1, <2>2 DEF CancelWrites, TypeOK, JobDocument
    <3>2. CASE RetryWrites(r)
      BY <3>2, <2>2 DEF RetryWrites, TypeOK, JobDocument
    <3> QED
      BY <1>2, <3>1, <3>2
  <2>4. running' = running
    BY <1>2 DEF CancelWrites, RetryWrites
  <2> QED
    BY <2>1, <2>3, <2>4 DEF Recoverable
<1>3. ASSUME NEW j \in Jobs, Enqueue(j) PROVE Recoverable'
  BY <1>3 DEF Recoverable, Enqueue, TypeOK, JobDocument
<1>4. ASSUME NEW j \in Jobs, Time(j) PROVE Recoverable'
  BY <1>4 DEF Recoverable, Time, BecomesDue, LeaseExpires, TypeOK, JobDocument
<1>5. CASE Restart
  BY <1>5 DEF Recoverable, Restart
<1> QED
  BY <1>1, <1>2, <1>3, <1>4, <1>5

(* However the process dies, a job marked running has a lease to outlive,  *)
(* and `running` never shields a job that no call of `run` owns: the sweep *)
(* of a later tick can put every abandoned job back.                       *)
THEOREM NothingStranded == Spec => []Recoverable
<1>1. Init => Recoverable
  BY DEF Init, Recoverable, NoDocument
<1>2. TypeOK /\ Located /\ Recoverable /\ [Next]_vars => Recoverable'
  <2> SUFFICES ASSUME TypeOK, Located, Recoverable, [Next]_vars
               PROVE  Recoverable'
    OBVIOUS
  <2>1. CASE UNCHANGED vars
    BY <2>1 DEF Recoverable, vars
  <2> QED
    BY <2>1, RecoverableTick, RecoverableRun, RecoverableRest DEF Next
<1> QED
  BY <1>1, <1>2, TypeCorrect, PTL DEF Spec

-------------------------------------------------------------------------------
(* Work that is never retried.                                             *)

(* The one holder of a solo job, and what its document says meanwhile.  A   *)
(* claim's answer is protected by its fresh lease, a run by its entry in    *)
(* `running`; a run that has written leaves a finished job behind; nothing  *)
(* but a restart gives a job back its right to be claimed.                  *)
Guarded(j) ==
    /\ \A t \in Ticks : Claimed(t, j) =>
          /\ jobs[j].status = "running" /\ jobs[j].lease # "expired"
          /\ ticks[t].attempt >= 1
    /\ \A s \in Slots : Executing(s, j) =>
          /\ jobs[j].status = "running" /\ j \in running
          /\ runs[s].attempt >= 1 /\ runs[s].pc # "cancelling"
    /\ \A s \in Slots : runs[s].pc = "written" /\ runs[s].job = j =>
          jobs[j].status \in {"succeeded", "failed"}

OneHolder(j) ==
    /\ \A t, u \in Ticks : Claimed(t, j) /\ Claimed(u, j) => t = u
    /\ \A s, r \in Slots : Executing(s, j) /\ Executing(r, j) => s = r
    /\ \A t \in Ticks, s \in Slots : ~(Claimed(t, j) /\ Executing(s, j))

Frugal(j) ==
    /\ ~jobs[j].cancelRequested /\ jobs[j].status # "cancelled"
    /\ jobs[j].attempts <= restarts + 1
    /\ jobs[j].status \in {"absent", "queued"} => jobs[j].attempts <= restarts
    /\ jobs[j].status = "running" /\ ~Held(j) => jobs[j].attempts <= restarts

Alone == \A j \in Solo : Guarded(j) /\ OneHolder(j) /\ Frugal(j)

LEMMA SoloJobs == Solo \subseteq Jobs /\ Solo \cap Touched = {}
                  /\ \A j \in Solo : MaxAttempts[j] = 1
BY DEF Solo

(* A step that leaves the document, the holders and the protection of a    *)
(* solo job as they are.                                                   *)
LEMMA Untouched ==
    ASSUME NEW j \in Solo, Guarded(j), OneHolder(j), Frugal(j),
           jobs'[j].status = jobs[j].status, jobs'[j].lease = jobs[j].lease,
           jobs'[j].attempts = jobs[j].attempts,
           jobs'[j].cancelRequested = jobs[j].cancelRequested,
           j \in running <=> j \in running', restarts' = restarts,
           \A t \in Ticks : /\ Claimed(t, j)' <=> Claimed(t, j)
                            /\ Claimed(t, j) => ticks'[t].attempt = ticks[t].attempt,
           \A s \in Slots : /\ runs'[s].job = j <=> runs[s].job = j
                            /\ runs[s].job = j => /\ runs'[s].pc = runs[s].pc
                                                  /\ runs'[s].attempt = runs[s].attempt
    PROVE  Guarded(j)' /\ OneHolder(j)' /\ Frugal(j)'
<1>1. \A s \in Slots : Executing(s, j)' <=> Executing(s, j)
  BY DEF Executing
<1>2. Held(j)' <=> Held(j)
  BY <1>1 DEF Held
<1>3. Guarded(j)'
  BY <1>1 DEF Guarded, Executing
<1>4. OneHolder(j)'
  BY <1>1 DEF OneHolder
<1>5. Frugal(j)'
  BY <1>2 DEF Frugal
<1> QED
  BY <1>3, <1>4, <1>5

LEMMA AloneTick ==
    ASSUME TypeOK, Located, Alone, NEW t \in Ticks, TickStep(t) \/ TickFails(t),
           NEW j \in Solo
    PROVE  Guarded(j)' /\ OneHolder(j)' /\ Frugal(j)'
<1> USE SoloJobs, NoJobIsNoJob DEF spent
<1>a. Guarded(j) /\ OneHolder(j) /\ Frugal(j) /\ j \in Jobs
  BY DEF Alone
<1>1. CASE TickStarts(t)
  <2>1. \A u \in Ticks : ticks'[u].job = ticks[u].job /\ ticks'[u].attempt = ticks[u].attempt
            /\ (Claimed(u, j)' <=> Claimed(u, j))
    BY <1>1 DEF TickStarts, Claimed, TypeOK, Tick
  <2> QED
    BY <1>a, <1>1, <2>1, Untouched DEF TickStarts
<1>3. CASE ClaimsNothing(t)
  <2>1. \A u \in Ticks : /\ Claimed(u, j)' <=> Claimed(u, j)
                         /\ Claimed(u, j) => ticks'[u].attempt = ticks[u].attempt
    BY <1>3 DEF ClaimsNothing, Claimed, TypeOK, Tick, IdleTick
  <2> QED
    BY <1>a, <1>3, <2>1, Untouched DEF ClaimsNothing
<1>6. CASE TickFails(t)
  <2>1. \A u \in Ticks : /\ Claimed(u, j)' <=> Claimed(u, j)
                         /\ Claimed(u, j) => ticks'[u].attempt = ticks[u].attempt
    BY <1>6 DEF TickFails, Claimed, TypeOK, Tick, IdleTick
  <2> QED
    BY <1>a, <1>6, <2>1, Untouched DEF TickFails
<1>2. CASE ReclaimStalled(t)
  <2>1. \A u \in Ticks : /\ Claimed(u, j)' <=> Claimed(u, j)
                         /\ Claimed(u, j) => ticks'[u].attempt = ticks[u].attempt
    BY <1>2 DEF ReclaimStalled, Claimed, TypeOK, Tick, IdleTick, ClaimUpTo
  <2>2. CASE ~Stalled(j)
    <3>1. jobs'[j] = jobs[j]
      BY <1>2, <1>a, <2>2 DEF ReclaimStalled
    <3> QED
      BY <1>a, <1>2, <2>1, <3>1, Untouched DEF ReclaimStalled
  <2>3. CASE Stalled(j)
    <3>1. ~Held(j) /\ \A s \in Slots : ~(runs[s].pc = "written" /\ runs[s].job = j)
      BY <1>a, <2>3 DEF Stalled, Held, Guarded
    <3>2. jobs[j].attempts <= restarts
      BY <1>a, <2>3, <3>1 DEF Stalled, Frugal
    <3>3. /\ jobs'[j].status = "queued" /\ jobs'[j].attempts = jobs[j].attempts
          /\ jobs'[j].cancelRequested = jobs[j].cancelRequested
      BY <1>2, <1>a, <2>3 DEF ReclaimStalled, TypeOK, JobDocument
    <3>4. runs' = runs /\ restarts' = restarts
      BY <1>2 DEF ReclaimStalled
    <3>5. /\ \A u \in Ticks : ~Claimed(u, j)'
          /\ \A s \in Slots : ~Executing(s, j)'
      BY <2>1, <3>1, <3>4 DEF Held, Executing
    <3> QED
      BY <1>a, <3>1, <3>2, <3>3, <3>4, <3>5 DEF Guarded, OneHolder, Frugal, TypeOK, JobDocument
  <2> QED
    BY <2>2, <2>3
<1>4. ASSUME NEW i \in Jobs, Claim(t, i) PROVE Guarded(j)' /\ OneHolder(j)' /\ Frugal(j)'
  <2>1. \A u \in Ticks : u # t => ticks'[u] = ticks[u]
    BY <1>4 DEF Claim, TypeOK
  <2>2. ticks[t].pc = "claim" /\ ticks'[t].pc = "claimed" /\ ticks'[t].job = i
        /\ ticks'[t].attempt = jobs[i].attempts + 1
    BY <1>4 DEF Claim, TypeOK, Tick
  <2>3. CASE i # j
    <3>1. jobs'[j] = jobs[j]
      BY <1>4, <1>a, <2>3 DEF Claim, TypeOK
    <3>2. \A u \in Ticks : /\ Claimed(u, j)' <=> Claimed(u, j)
                           /\ Claimed(u, j) => ticks'[u].attempt = ticks[u].attempt
      BY <2>1, <2>2, <2>3 DEF Claimed
    <3> QED
      BY <1>4, <1>a, <3>1, <3>2, Untouched DEF Claim
  <2>4. CASE i = j
    <3>1. jobs[j].status = "queued"
      BY <1>4, <2>4 DEF Claim, Oldest, Claimable
    <3>2. ~Held(j) /\ \A s \in Slots : ~(runs[s].pc = "written" /\ runs[s].job = j)
      BY <1>a, <3>1 DEF Held, Guarded
    <3>3. /\ jobs'[j].status = "running" /\ jobs'[j].lease = "live"
          /\ jobs'[j].attempts = jobs[j].attempts + 1
          /\ jobs'[j].cancelRequested = jobs[j].cancelRequested
      BY <1>4, <2>4, <1>a DEF Claim, TypeOK, JobDocument
    <3>4. runs' = runs /\ restarts' = restarts
      BY <1>4 DEF Claim
    <3>5. Claimed(t, j)'
      BY <2>2, <2>4 DEF Claimed
    <3>6. /\ \A u \in Ticks : Claimed(u, j)' => u = t
          /\ \A s \in Slots : ~Executing(s, j)'
      BY <2>1, <3>2, <3>4 DEF Held, Executing, Claimed
    <3>7. jobs[j].attempts \in Nat /\ restarts \in Nat
      BY <1>a, QueueAssumption DEF TypeOK, JobDocument
    <3> QED
      BY <1>a, <2>2, <2>4, <3>1, <3>2, <3>3, <3>4, <3>5, <3>6, <3>7 DEF Guarded, OneHolder, Frugal, Held
  <2> QED
    BY <2>3, <2>4
<1>5. ASSUME NEW s \in Slots, StartRun(t, s) PROVE Guarded(j)' /\ OneHolder(j)' /\ Frugal(j)'
  <2>1. /\ \A u \in Ticks : u # t => ticks'[u] = ticks[u]
        /\ \A r \in Slots : r # s => runs'[r] = runs[r]
    BY <1>5 DEF StartRun, TypeOK
  <2>2. /\ ticks'[t].pc # "claimed" /\ runs[s].job \notin Jobs
        /\ runs'[s].pc = "handling" /\ runs'[s].job = ticks[t].job
        /\ runs'[s].attempt = ticks[t].attempt
    BY <1>5 DEF StartRun, TypeOK, Located, IdleTick, ClaimUpTo
  <2>3. jobs' = jobs /\ restarts' = restarts
    BY <1>5 DEF StartRun
  <2>4. CASE ticks[t].job # j
    <3>1. \A u \in Ticks : /\ Claimed(u, j)' <=> Claimed(u, j)
                           /\ Claimed(u, j) => ticks'[u].attempt = ticks[u].attempt
      BY <2>1, <2>2, <2>4 DEF Claimed
    <3>2. \A r \in Slots : /\ runs'[r].job = j <=> runs[r].job = j
                           /\ runs[r].job = j => /\ runs'[r].pc = runs[r].pc
                                                 /\ runs'[r].attempt = runs[r].attempt
      BY <1>a, <2>1, <2>2, <2>4
    <3>3. j \in running <=> j \in running'
      BY <1>5, <2>4 DEF StartRun
    <3> QED
      BY <1>a, <2>3, <3>1, <3>2, <3>3, Untouched
  <2>5. CASE ticks[t].job = j
    <3>1. Claimed(t, j)
      BY <1>5, <2>5 DEF StartRun, Claimed
    <3>2. \A r \in Slots : ~Executing(r, j)
      BY <1>a, <3>1 DEF OneHolder
    <3>3. \A u \in Ticks : ~Claimed(u, j)'
      BY <1>a, <3>1, <2>1, <2>2 DEF OneHolder, Claimed
    <3>4. \A r \in Slots : Executing(r, j)' <=> r = s
      BY <2>1, <2>2, <2>5, <3>2 DEF Executing, Working
    <3>5. j \in running'
      BY <1>5, <2>5 DEF StartRun
    <3>6. Held(j) /\ Held(j)'
      BY <3>1, <3>4 DEF Held
    <3> QED
      BY <1>a, <2>1, <2>2, <2>3, <3>1, <3>3, <3>4, <3>5, <3>6 DEF Guarded, OneHolder, Frugal
  <2> QED
    BY <2>4, <2>5
<1> QED
  BY <1>1, <1>2, <1>3, <1>4, <1>5, <1>6 DEF TickStep

(* A run of another job, or a step that only moves one along.              *)
LEMMA OtherRun ==
    ASSUME TypeOK, Located, Alone, NEW s \in Slots, NEW j \in Solo, runs[s].job # j,
           runs[s].pc # "free",
           NEW run \in Run, run.job # j, runs' = [runs EXCEPT ![s] = run],
           jobs'[j] = jobs[j], j \in running <=> j \in running',
           ticks' = ticks, restarts' = restarts
    PROVE  Guarded(j)' /\ OneHolder(j)' /\ Frugal(j)'
<1>1. \A r \in Slots : /\ runs'[r].job = j <=> runs[r].job = j
                       /\ runs[r].job = j => /\ runs'[r].pc = runs[r].pc
                                             /\ runs'[r].attempt = runs[r].attempt
  BY DEF TypeOK
<1>2. \A t \in Ticks : Claimed(t, j)' <=> Claimed(t, j)
  BY DEF Claimed
<1> QED
  BY <1>1, <1>2, Untouched DEF Alone

(* A run of j that moves between two points at which it still owes a write. *)
LEMMA Advance ==
    ASSUME TypeOK, Alone, NEW s \in Slots, NEW j \in Solo, Executing(s, j),
           NEW pc \in Working, pc # "cancelling", Goto(s, pc),
           jobs' = jobs, running' = running, ticks' = ticks, restarts' = restarts
    PROVE  Guarded(j)' /\ OneHolder(j)' /\ Frugal(j)'
<1>1. \A r \in Slots : /\ runs'[r].job = runs[r].job /\ runs'[r].attempt = runs[r].attempt
                       /\ r # s => runs'[r].pc = runs[r].pc
                       /\ r = s => runs'[r].pc = pc
  BY DEF Goto, TypeOK, Run
<1>2. \A t \in Ticks : Claimed(t, j)' <=> Claimed(t, j)
  BY DEF Claimed
<1>3. \A r \in Slots : Executing(r, j)' <=> Executing(r, j)
  BY <1>1 DEF Executing
<1>4. Held(j)' <=> Held(j)
  BY <1>2, <1>3 DEF Held
<1> QED
  BY <1>1, <1>2, <1>3, <1>4 DEF Alone, Guarded, OneHolder, Frugal, Working

(* The holder's final write. *)
LEMMA LastWrite ==
    ASSUME TypeOK, Alone, NEW s \in Slots, NEW j \in Solo, Executing(s, j),
           NEW status \in {"succeeded", "failed"}, Write(j, status), Goto(s, "written"),
           running' = running, ticks' = ticks, restarts' = restarts
    PROVE  Guarded(j)' /\ OneHolder(j)' /\ Frugal(j)'
<1>1. \A r \in Slots : /\ runs'[r].job = runs[r].job /\ runs'[r].attempt = runs[r].attempt
                       /\ r # s => runs'[r].pc = runs[r].pc
                       /\ r = s => runs'[r].pc = "written"
  BY DEF Goto, TypeOK, Run
<1>2. /\ jobs'[j].status = status /\ jobs'[j].attempts = jobs[j].attempts
      /\ jobs'[j].cancelRequested = jobs[j].cancelRequested
  BY SoloJobs DEF Write, TypeOK, JobDocument
<1>3. Guarded(j) /\ OneHolder(j) /\ Frugal(j)
  BY DEF Alone
<1>4. \A r \in Slots : ~Executing(r, j)'
  BY <1>1, <1>3 DEF OneHolder, Executing, Working
<1>5. \A t \in Ticks : ~Claimed(t, j)'
  BY <1>3 DEF OneHolder, Claimed
<1> QED
  BY <1>1, <1>2, <1>3, <1>4, <1>5 DEF Guarded, OneHolder, Frugal

LEMMA AloneRun ==
    ASSUME TypeOK, Located, Alone, NEW s \in Slots,
           RunStep(s) \/ SetProgress(s) \/ RunStepThrows(s), NEW j \in Solo
    PROVE  Guarded(j)' /\ OneHolder(j)' /\ Frugal(j)'
<1> USE SoloJobs DEF spent
<1>a. Guarded(j) /\ OneHolder(j) /\ Frugal(j) /\ j \in Jobs
  BY DEF Alone
<1>b. /\ runs[s].pc # "free" /\ runs[s].job \in Jobs
      /\ runs[s].job = j => \/ Executing(s, j)
                            \/ runs[s].pc = "written"
  BY DEF Located, RunStep, SetProgress, RunStepThrows, HandlerReturns, HandlerThrows,
         CheckCancelled, Finish, Fail, EndRun, Executing, Working
<1>c. \A pc \in {"free", "written"} \cup Working : [runs[s] EXCEPT !.pc = pc] \in Run
  BY DEF TypeOK, Run
<1>d. \A pc : [runs[s] EXCEPT !.pc = pc].job = runs[s].job
  BY DEF TypeOK, Run
<1>e. FreeSlot \in Run /\ FreeSlot.job # j
  BY NoJobIsNoJob DEF FreeSlot, Run
<1>f. ASSUME NEW pc \in {"free", "written"} \cup Working, Goto(s, pc)
      PROVE  runs' = [runs EXCEPT ![s] = [runs[s] EXCEPT !.pc = pc]]
  BY <1>f DEF Goto
<1>1. CASE SetProgress(s)
  <2>1. CASE runs[s].job # j
    <3>1. jobs'[j] = jobs[j]
      BY <1>1, <1>a, <2>1 DEF SetProgress, TypeOK
    <3> QED
      BY <1>1, <1>a, <3>1, Untouched DEF SetProgress, Claimed
  <2>2. CASE runs[s].job = j
    <3>1. /\ jobs'[j].status = jobs[j].status /\ jobs'[j].lease = "live"
          /\ jobs'[j].attempts = jobs[j].attempts
          /\ jobs'[j].cancelRequested = jobs[j].cancelRequested
      BY <1>1, <1>a, <2>2 DEF SetProgress, TypeOK, JobDocument
    <3>2. /\ \A r \in Slots : Executing(r, j)' <=> Executing(r, j)
          /\ \A t \in Ticks : Claimed(t, j)' <=> Claimed(t, j)
          /\ Held(j)' <=> Held(j)
      BY <1>1 DEF SetProgress, Executing, Claimed, Held
    <3> QED
      BY <1>1, <1>a, <3>1, <3>2 DEF SetProgress, Guarded, OneHolder, Frugal
  <2> QED
    BY <2>1, <2>2
<1>2. CASE HandlerReturns(s)
  <2>1. CASE runs[s].job # j
    BY <1>2, <1>b, <1>c, <1>d, <1>f, <2>1, OtherRun DEF HandlerReturns, Working
  <2>2. CASE runs[s].job = j
    BY <1>2, <2>2, Advance DEF HandlerReturns, Executing, Working
  <2> QED
    BY <2>1, <2>2
<1>3. CASE HandlerThrows(s)
  <2>1. CASE runs[s].job # j
    BY <1>3, <1>b, <1>c, <1>d, <1>f, <2>1, OtherRun DEF HandlerThrows, Working
  <2>2. CASE runs[s].job = j
    BY <1>3, <2>2, Advance DEF HandlerThrows, Executing, Working
  <2> QED
    BY <2>1, <2>2
<1>4. CASE CheckCancelled(s)
  <2>1. CASE runs[s].job # j
    BY <1>4, <1>b, <1>c, <1>d, <1>f, <2>1, OtherRun DEF CheckCancelled, Working
  <2>2. CASE runs[s].job = j
    BY <1>4, <1>a, <2>2, Advance DEF CheckCancelled, Executing, Working, Frugal
  <2> QED
    BY <2>1, <2>2
<1>8. CASE RunStepThrows(s)
  <2>1. CASE runs[s].job # j
    <3>1. runs' = [runs EXCEPT ![s] = [runs[s] EXCEPT !.pc = "failing"]]
      BY <1>8, <1>f DEF RunStepThrows, Working
    <3>2. jobs'[j] = jobs[j] /\ running' = running /\ ticks' = ticks /\ restarts' = restarts
      BY <1>8 DEF RunStepThrows
    <3>3. [runs[s] EXCEPT !.pc = "failing"] \in Run /\ [runs[s] EXCEPT !.pc = "failing"].job # j
      BY <1>c, <1>d, <2>1 DEF Working
    <3> QED
      BY <1>b, <2>1, <3>1, <3>2, <3>3, OtherRun
  <2>2. CASE runs[s].job = j
    BY <1>8, <2>2, Advance DEF RunStepThrows, Executing, Working
  <2> QED
    BY <2>1, <2>2
<1>5. CASE Finish(s)
  <2>1. CASE runs[s].job # j
    <3>1. jobs'[j] = jobs[j]
      BY <1>5, <1>a, <2>1 DEF Finish, Write, TypeOK
    <3> QED
      BY <1>5, <1>b, <1>c, <1>d, <1>f, <2>1, <3>1, OtherRun DEF Finish
  <2>2. CASE runs[s].job = j
    <3>1. Executing(s, j) /\ runs[s].pc = "succeeding"
      BY <1>5, <1>a, <2>2 DEF Finish, Executing, Working, Guarded
    <3> QED
      BY <1>5, <2>2, <3>1, LastWrite DEF Finish
  <2> QED
    BY <2>1, <2>2
<1>6. CASE Fail(s)
  <2>1. CASE runs[s].job # j
    <3>1. jobs'[j] = jobs[j]
      BY <1>6, <1>a, <2>1 DEF Fail, Write, TypeOK
    <3> QED
      BY <1>6, <1>b, <1>c, <1>d, <1>f, <2>1, <3>1, OtherRun DEF Fail
  <2>2. CASE runs[s].job = j
    <3>1. Executing(s, j)
      BY <1>6, <2>2 DEF Fail, Executing, Working
    <3>2. Exhausted(runs[s])
      BY <1>a, <2>2, <3>1 DEF Exhausted, Guarded
    <3> QED
      BY <1>6, <2>2, <3>1, <3>2, LastWrite DEF Fail
  <2> QED
    BY <2>1, <2>2
<1>7. CASE EndRun(s)
  <2>1. CASE runs[s].job # j
    BY <1>7, <1>b, <1>e, <2>1, OtherRun DEF EndRun
  <2>2. CASE runs[s].job = j
    <3>1. jobs[j].status \in {"succeeded", "failed"}
      BY <1>7, <1>a, <2>2 DEF EndRun, Guarded
    <3>2. \A r \in Slots : r # s => runs'[r] = runs[r]
      BY <1>7 DEF EndRun, TypeOK
    <3>3. runs'[s].pc = "free"
      BY <1>7 DEF EndRun, FreeSlot, TypeOK
    <3>4. /\ \A r \in Slots : ~Executing(r, j)'
          /\ \A t \in Ticks : ~Claimed(t, j)'
      BY <1>7, <1>a, <3>1, <3>2, <3>3 DEF EndRun, Guarded, Executing, Claimed, Working
    <3> QED
      BY <1>7, <1>a, <3>1, <3>2, <3>3, <3>4 DEF EndRun, Guarded, OneHolder, Frugal
  <2> QED
    BY <2>1, <2>2
<1> QED
  BY <1>1, <1>2, <1>3, <1>4, <1>5, <1>6, <1>7, <1>8 DEF RunStep

LEMMA AloneRest ==
    ASSUME TypeOK, Located, Alone, NEW j \in Solo,
           \/ \E r \in Requests, i \in Jobs : CancelReads(r, i) \/ RetryReads(r, i) \/ OperatorReads(r, i)
           \/ \E r \in Requests : CancelWrites(r) \/ RetryWrites(r)
           \/ \E i \in Jobs : Enqueue(i) \/ Time(i)
           \/ Restart
    PROVE  Guarded(j)' /\ OneHolder(j)' /\ Frugal(j)'
<1> USE SoloJobs DEF spent
<1>a. Guarded(j) /\ OneHolder(j) /\ Frugal(j) /\ j \in Jobs
  BY DEF Alone
<1>1. ASSUME NEW r \in Requests, NEW i \in Jobs, CancelReads(r, i) \/ RetryReads(r, i) \/ OperatorReads(r, i)
      PROVE  Guarded(j)' /\ OneHolder(j)' /\ Frugal(j)'
  BY <1>1, <1>a, Untouched DEF CancelReads, RetryReads, OperatorReads, Accept, Claimed
<1>2. ASSUME NEW r \in Requests, CancelWrites(r) \/ RetryWrites(r)
      PROVE  Guarded(j)' /\ OneHolder(j)' /\ Frugal(j)'
  <2>1. requests[r].job # j /\ requests[r].job \in Jobs
    BY <1>2, QueueAssumption DEF Located, CancelWrites, RetryWrites, Touched
  <2>2. jobs'[j] = jobs[j]
    BY <1>2, <1>a, <2>1 DEF CancelWrites, RetryWrites, TypeOK
  <2>3. running' = running /\ ticks' = ticks /\ restarts' = restarts
    BY <1>2 DEF CancelWrites, RetryWrites
  <2>4. \A s \in Slots : /\ runs'[s].job = runs[s].job
                         /\ runs[s].job = j => runs'[s] = runs[s]
    BY <1>2, <2>1, MarkKeeps DEF CancelWrites, RetryWrites, Mark
  <2> QED
    BY <1>a, <2>2, <2>3, <2>4, Untouched DEF Claimed
<1>3. ASSUME NEW i \in Jobs, Enqueue(i) PROVE Guarded(j)' /\ OneHolder(j)' /\ Frugal(j)'
  <2>1. CASE i # j
    <3>1. jobs'[j] = jobs[j]
      BY <1>3, <1>a, <2>1 DEF Enqueue, TypeOK
    <3> QED
      BY <1>3, <1>a, <3>1, Untouched DEF Enqueue, Claimed
  <2>2. CASE i = j
    <3>1. jobs[j].status = "absent"
      BY <1>3, <2>2 DEF Enqueue
    <3>2. /\ jobs'[j].status = "queued" /\ jobs'[j].attempts = jobs[j].attempts
          /\ jobs'[j].cancelRequested = jobs[j].cancelRequested
      BY <1>3, <1>a, <2>2 DEF Enqueue, TypeOK, JobDocument
    <3>3. runs' = runs /\ ticks' = ticks /\ running' = running /\ restarts' = restarts
      BY <1>3 DEF Enqueue
    <3>4. /\ \A s \in Slots : ~Executing(s, j) /\ ~Executing(s, j)'
          /\ \A t \in Ticks : ~Claimed(t, j) /\ ~Claimed(t, j)'
      BY <1>a, <3>1, <3>3 DEF Guarded, Executing, Claimed
    <3> QED
      BY <1>a, <3>1, <3>2, <3>3, <3>4 DEF Guarded, OneHolder, Frugal
  <2> QED
    BY <2>1, <2>2
<1>4. ASSUME NEW i \in Jobs, BecomesDue(i) PROVE Guarded(j)' /\ OneHolder(j)' /\ Frugal(j)'
  <2>1. /\ jobs'[j].status = jobs[j].status /\ jobs'[j].lease = jobs[j].lease
        /\ jobs'[j].attempts = jobs[j].attempts
        /\ jobs'[j].cancelRequested = jobs[j].cancelRequested
    BY <1>4, <1>a DEF BecomesDue, TypeOK, JobDocument
  <2> QED
    BY <1>4, <1>a, <2>1, Untouched DEF BecomesDue, Claimed
<1>5. ASSUME NEW i \in Jobs, LeaseExpires(i) PROVE Guarded(j)' /\ OneHolder(j)' /\ Frugal(j)'
  <2>1. /\ jobs'[j].status = jobs[j].status /\ jobs'[j].attempts = jobs[j].attempts
        /\ jobs'[j].cancelRequested = jobs[j].cancelRequested
        /\ i # j => jobs'[j].lease = jobs[j].lease
    BY <1>5, <1>a DEF LeaseExpires, TypeOK, JobDocument
  <2>2. CASE i # j
    BY <1>5, <1>a, <2>1, <2>2, Untouched DEF LeaseExpires, Claimed
  <2>3. CASE i = j
    <3>1. \A t \in Ticks : ~Claimed(t, j) /\ ~Claimed(t, j)'
      BY <1>5, <2>3 DEF LeaseExpires, Claimed
    <3>2. /\ \A s \in Slots : Executing(s, j)' <=> Executing(s, j)
          /\ runs' = runs /\ running' = running /\ restarts' = restarts
      BY <1>5 DEF LeaseExpires, Executing
    <3>3. Held(j)' <=> Held(j)
      BY <3>1, <3>2 DEF Held
    <3> QED
      BY <1>a, <2>1, <3>1, <3>2, <3>3 DEF Guarded, OneHolder, Frugal
  <2> QED
    BY <2>2, <2>3
<1>6. CASE Restart
  <2>1. jobs' = jobs /\ restarts' = restarts + 1 /\ restarts \in Nat /\ jobs[j].attempts \in Nat
    BY <1>6, <1>a, QueueAssumption DEF Restart, TypeOK, JobDocument
  <2>2. /\ \A t \in Ticks : ~Claimed(t, j)'
        /\ \A s \in Slots : ~Executing(s, j)' /\ runs'[s].pc = "free"
    BY <1>6 DEF Restart, Claimed, Executing, IdleTick, FreeSlot, Working
  <2> QED
    BY <1>a, <2>1, <2>2 DEF Guarded, OneHolder, Frugal
<1> QED
  BY <1>1, <1>2, <1>3, <1>4, <1>5, <1>6 DEF Time

LEMMA AloneInit == Init => Alone
<1> SUFFICES ASSUME Init, NEW j \in Solo PROVE Guarded(j) /\ OneHolder(j) /\ Frugal(j)
  BY DEF Alone
<1>1. jobs[j] = NoDocument /\ restarts = 0
  BY SoloJobs DEF Init
<1>2. /\ \A t \in Ticks : ~Claimed(t, j)
      /\ \A s \in Slots : ~Executing(s, j) /\ runs[s].pc = "free"
  BY DEF Init, Claimed, Executing, IdleTick, FreeSlot, Working
<1> QED
  BY <1>1, <1>2 DEF Guarded, OneHolder, Frugal, NoDocument

LEMMA AloneStep ==
    ASSUME TypeOK, Located, Alone, [Next]_vars
    PROVE  Alone'
<1> SUFFICES ASSUME NEW j \in Solo PROVE Guarded(j)' /\ OneHolder(j)' /\ Frugal(j)'
  BY DEF Alone, Solo
<1>1. CASE UNCHANGED vars
  <2>1. Guarded(j) /\ OneHolder(j) /\ Frugal(j)
    BY DEF Alone
  <2> QED
    BY <1>1, <2>1, Untouched DEF vars, Claimed
<1> QED
  BY <1>1, AloneTick, AloneRun, AloneRest DEF Next

LEMMA AlwaysAlone == Spec => []Alone
BY AloneInit, AloneStep, TypeCorrect, PTL DEF Spec

(* A script, a sweep or an import is started at most once in the life of a *)
(* process, however many ticks overlap and whatever else goes wrong.       *)
THEOREM StartedOncePerProcess == Spec => []OneStartPerProcess
<1>1. Alone => OneStartPerProcess
  BY DEF Alone, Frugal, OneStartPerProcess
<1> QED
  BY <1>1, AlwaysAlone, PTL

-------------------------------------------------------------------------------
(* The queue implements the lifecycle it promises for solo work.           *)

LEMMA Stutter ==
    ASSUME \A j \in Solo : jobs'[j].status = jobs[j].status,
           \A j \in Solo : Held(j)' <=> Held(j)
    PROVE  UNCHANGED Lifecycle!vars
<1>1. SoloState' = SoloState
  BY DEF SoloState, Solo
<1>2. SoloHeld' = SoloHeld
  BY DEF SoloHeld, Held, Solo
<1> QED
  BY <1>1, <1>2 DEF Lifecycle!vars

(* Steps of a tick: a claim starts a job, a sweep recovers what nobody     *)
(* holds, and handing a claimed document over to `run` changes nothing.    *)
LEMMA LifecycleTick ==
    ASSUME TypeOK, Located, Alone, NEW t \in Ticks, TickStep(t) \/ TickFails(t)
    PROVE  [Lifecycle!Next]_(Lifecycle!vars)
<1> USE SoloJobs, NoJobIsNoJob DEF spent
<1>1. CASE TickStarts(t) \/ ClaimsNothing(t) \/ TickFails(t)
  <2>1. jobs' = jobs /\ runs' = runs
    BY <1>1 DEF TickStarts, ClaimsNothing, TickFails
  <2>2. \A u \in Ticks, j \in Solo : Claimed(u, j)' <=> Claimed(u, j)
    BY <1>1 DEF TickStarts, ClaimsNothing, TickFails, Claimed, TypeOK, Tick, IdleTick
  <2>3. \A j \in Solo : Held(j)' <=> Held(j)
    BY <2>1, <2>2 DEF Held, Executing
  <2> QED
    BY <2>1, <2>3, Stutter
<1>2. CASE ReclaimStalled(t)
  <2> DEFINE S == {j \in Solo : Stalled(j)}
  <2>1. \A j \in Solo : Held(j)' <=> Held(j)
    <3>1. \A u \in Ticks, j \in Solo : Claimed(u, j)' <=> Claimed(u, j)
      BY <1>2 DEF ReclaimStalled, Claimed, TypeOK, Tick, IdleTick, ClaimUpTo
    <3> QED
      BY <1>2, <3>1 DEF ReclaimStalled, Held, Executing
  <2>2. \A j \in S : jobs[j].status = "running" /\ ~Held(j)
    BY DEF Alone, Guarded, Stalled, Held
  <2>3. SoloState' = [j \in Solo |-> IF j \in S THEN "queued" ELSE SoloState[j]]
    <3>1. \A j \in Solo : jobs'[j].status = IF j \in S THEN "queued" ELSE jobs[j].status
      BY <1>2 DEF ReclaimStalled, TypeOK, JobDocument
    <3> QED
      BY <3>1 DEF SoloState, Solo
  <2>4. SoloHeld' = SoloHeld
    BY <2>1 DEF SoloHeld, Held, Solo
  <2>5. Lifecycle!Recover(S)
    BY <2>2, <2>3, <2>4 DEF Lifecycle!Recover, SoloState, SoloHeld
  <2> QED
    BY <2>5 DEF Lifecycle!Next
<1>3. ASSUME NEW i \in Jobs, Claim(t, i) PROVE [Lifecycle!Next]_(Lifecycle!vars)
  <2>1. \A u \in Ticks, j \in Solo : Claimed(u, j)' <=> (Claimed(u, j) \/ (u = t /\ i = j))
    BY <1>3 DEF Claim, Claimed, TypeOK, Tick
  <2>2. \A j \in Solo : Held(j)' <=> (Held(j) \/ i = j)
    BY <1>3, <2>1 DEF Claim, Held, Executing
  <2>3. \A j \in Solo : jobs'[j].status = IF i = j THEN "running" ELSE jobs[j].status
    BY <1>3 DEF Claim, TypeOK, JobDocument
  <2>4. CASE i \notin Solo
    BY <2>2, <2>3, <2>4, Stutter
  <2>5. CASE i \in Solo
    <3>1. jobs[i].status = "queued"
      BY <1>3 DEF Claim, Oldest, Claimable
    <3>2. SoloState' = [SoloState EXCEPT ![i] = "running"]
      BY <2>3, <2>5 DEF SoloState, Solo
    <3>3. SoloHeld' = [SoloHeld EXCEPT ![i] = TRUE]
      BY <2>2, <2>5 DEF SoloHeld, Held, Solo
    <3>4. Lifecycle!Start(i)
      BY <2>5, <3>1, <3>2, <3>3 DEF Lifecycle!Start, SoloState
    <3> QED
      BY <2>5, <3>4 DEF Lifecycle!Next
  <2> QED
    BY <2>4, <2>5
<1>4. ASSUME NEW s \in Slots, StartRun(t, s) PROVE [Lifecycle!Next]_(Lifecycle!vars)
  <2>1. \A j \in Solo : Held(j)' <=> Held(j)
    <3> SUFFICES ASSUME NEW j \in Solo PROVE Held(j)' <=> Held(j)
      OBVIOUS
    <3>1. \A u \in Ticks : Claimed(u, j)' <=> Claimed(u, j) /\ u # t
      BY <1>4 DEF StartRun, Claimed, TypeOK, IdleTick, ClaimUpTo
    <3>2. \A r \in Slots : Executing(r, j)' <=> Executing(r, j) \/ (r = s /\ Claimed(t, j))
      BY <1>4 DEF StartRun, Executing, Claimed, TypeOK, Working
    <3> QED
      BY <3>1, <3>2 DEF Held
  <2> QED
    BY <1>4, <2>1, Stutter DEF StartRun
<1> QED
  BY <1>1, <1>2, <1>3, <1>4 DEF TickStep

(* The holder's final write completes its job. *)
LEMMA LifecycleWrite ==
    ASSUME TypeOK, Located, Alone, NEW s \in Slots, NEW status \in Status,
           runs[s].pc \in Working, Write(runs[s].job, status), Goto(s, "written"),
           ticks' = ticks,
           runs[s].job \in Solo => status \in {"succeeded", "failed"}
    PROVE  [Lifecycle!Next]_(Lifecycle!vars)
<1>i. PICK i : i = runs[s].job
  OBVIOUS
<1> USE <1>i
<1>1. \A j \in Solo : jobs'[j].status = IF i = j THEN status ELSE jobs[j].status
  BY SoloJobs DEF Write, TypeOK, JobDocument
<1>2. \A r \in Slots, j \in Solo : Executing(r, j)' <=> Executing(r, j) /\ r # s
  BY DEF Goto, Executing, TypeOK, Run, Working
<1>3. \A u \in Ticks, j \in Solo : Claimed(u, j)' <=> Claimed(u, j)
  BY DEF Claimed
<1>4. CASE i \notin Solo
  <2>1. \A j \in Solo : Held(j)' <=> Held(j)
    BY <1>2, <1>3, <1>4 DEF Held, Executing
  <2> QED
    BY <1>1, <1>4, <2>1, Stutter
<1>5. CASE i \in Solo
  <2>1. Executing(s, i) /\ Held(i) /\ jobs[i].status = "running"
    BY <1>5 DEF Executing, Held, Alone, Guarded
  <2>2. ~Held(i)'
    <3>1. \A r \in Slots : Executing(r, i) => r = s
      BY <1>5, <2>1 DEF Alone, OneHolder
    <3>2. \A u \in Ticks : ~Claimed(u, i)
      BY <1>5, <2>1 DEF Alone, OneHolder
    <3> QED
      BY <1>2, <1>3, <1>5, <3>1, <3>2 DEF Held
  <2>3. \A j \in Solo : j # i => (Held(j)' <=> Held(j))
    BY <1>2, <1>3 DEF Held, Executing
  <2>4. SoloState' = [SoloState EXCEPT ![i] = status]
    BY <1>1, <1>5 DEF SoloState, Solo
  <2>5. SoloHeld' = [SoloHeld EXCEPT ![i] = FALSE]
    BY <1>5, <2>2, <2>3 DEF SoloHeld, Held, Solo
  <2>6. Lifecycle!Complete(i, status)
    BY <1>5, <2>1, <2>4, <2>5 DEF Lifecycle!Complete, SoloState, SoloHeld
  <2> QED
    BY <1>5, <2>6 DEF Lifecycle!Next
<1> QED
  BY <1>4, <1>5

LEMMA LifecycleRun ==
    ASSUME TypeOK, Located, Alone, NEW s \in Slots,
           RunStep(s) \/ SetProgress(s) \/ RunStepThrows(s)
    PROVE  [Lifecycle!Next]_(Lifecycle!vars)
<1> USE SoloJobs DEF spent
<1>1. CASE SetProgress(s)
  <2>1. \A j \in Solo : jobs'[j].status = jobs[j].status
    BY <1>1 DEF SetProgress, TypeOK, JobDocument
  <2>2. \A j \in Solo : Held(j)' <=> Held(j)
    BY <1>1 DEF SetProgress, Held, Claimed, Executing
  <2> QED
    BY <2>1, <2>2, Stutter
<1>2. CASE HandlerReturns(s) \/ HandlerThrows(s) \/ CheckCancelled(s) \/ RunStepThrows(s)
  <2>1. jobs' = jobs /\ ticks' = ticks
    BY <1>2 DEF HandlerReturns, HandlerThrows, CheckCancelled, RunStepThrows
  <2>2. \A r \in Slots : /\ runs'[r].job = runs[r].job
                         /\ runs[r].pc \in Working <=> runs'[r].pc \in Working
    BY <1>2 DEF HandlerReturns, HandlerThrows, CheckCancelled, RunStepThrows, Goto,
                TypeOK, Run, Working
  <2>3. \A j \in Solo : Held(j)' <=> Held(j)
    BY <2>1, <2>2 DEF Held, Claimed, Executing
  <2> QED
    BY <2>1, <2>3, Stutter
<1>3. CASE Finish(s)
  <2>1. runs[s].job \in Solo => runs[s].pc = "succeeding"
    BY <1>3 DEF Finish, Alone, Guarded, Executing, Working
  <2> QED
    BY <1>3, <2>1, LifecycleWrite DEF Finish, Working, Status, Terminal
<1>4. CASE Fail(s)
  <2>1. runs[s].job \in Solo => Exhausted(runs[s])
    BY <1>4 DEF Fail, Exhausted, Alone, Guarded, Executing, Working
  <2> QED
    BY <1>4, <2>1, LifecycleWrite DEF Fail, Working, Status, Terminal
<1>5. CASE EndRun(s)
  <2>1. \A r \in Slots, j \in Solo : Executing(r, j)' <=> Executing(r, j)
    BY <1>5 DEF EndRun, Executing, TypeOK, FreeSlot, Working
  <2>2. \A j \in Solo : Held(j)' <=> Held(j)
    BY <1>5, <2>1 DEF EndRun, Held, Claimed
  <2> QED
    BY <1>5, <2>2, Stutter DEF EndRun
<1> QED
  BY <1>1, <1>2, <1>3, <1>4, <1>5 DEF RunStep

LEMMA LifecycleRest ==
    ASSUME TypeOK, Located, Alone,
           \/ \E r \in Requests, i \in Jobs : CancelReads(r, i) \/ RetryReads(r, i) \/ OperatorReads(r, i)
           \/ \E r \in Requests : CancelWrites(r) \/ RetryWrites(r)
           \/ \E i \in Jobs : Enqueue(i) \/ Time(i)
           \/ Restart
    PROVE  [Lifecycle!Next]_(Lifecycle!vars)
<1> USE SoloJobs DEF spent
<1>1. ASSUME NEW r \in Requests, NEW i \in Jobs, CancelReads(r, i) \/ RetryReads(r, i) \/ OperatorReads(r, i)
      PROVE  [Lifecycle!Next]_(Lifecycle!vars)
  <2>1. jobs' = jobs /\ ticks' = ticks /\ runs' = runs
    BY <1>1 DEF CancelReads, RetryReads, OperatorReads, Accept
  <2>2. \A j \in Solo : Held(j)' <=> Held(j)
    BY <2>1 DEF Held, Claimed, Executing
  <2> QED
    BY <2>1, <2>2, Stutter
<1>2. ASSUME NEW r \in Requests, CancelWrites(r) \/ RetryWrites(r)
      PROVE  [Lifecycle!Next]_(Lifecycle!vars)
  <2>1. requests[r].job \notin Solo /\ requests[r].job \in Jobs
    BY <1>2, QueueAssumption DEF Located, CancelWrites, RetryWrites, Touched
  <2>2. \A j \in Solo : jobs'[j].status = jobs[j].status
    BY <1>2, <2>1 DEF CancelWrites, RetryWrites, TypeOK
  <2>3. \A s \in Slots : runs'[s].pc = runs[s].pc /\ runs'[s].job = runs[s].job
    BY <1>2, MarkKeeps DEF CancelWrites, RetryWrites
  <2>4. \A j \in Solo : Held(j)' <=> Held(j)
    BY <1>2, <2>3 DEF CancelWrites, RetryWrites, Held, Claimed, Executing
  <2> QED
    BY <2>2, <2>4, Stutter
<1>3. ASSUME NEW i \in Jobs, Enqueue(i) PROVE [Lifecycle!Next]_(Lifecycle!vars)
  <2>1. \A j \in Solo : Held(j)' <=> Held(j)
    BY <1>3 DEF Enqueue, Held, Claimed, Executing
  <2>2. \A j \in Solo : jobs'[j].status = IF i = j THEN "queued" ELSE jobs[j].status
    BY <1>3 DEF Enqueue, TypeOK, JobDocument
  <2>3. CASE i \notin Solo
    BY <2>1, <2>2, <2>3, Stutter
  <2>4. CASE i \in Solo
    <3>1. SoloState[i] = "absent"
      BY <1>3, <2>4 DEF Enqueue, SoloState
    <3>2. SoloState' = [SoloState EXCEPT ![i] = "queued"]
      BY <2>2, <2>4 DEF SoloState, Solo
    <3>3. SoloHeld' = SoloHeld
      BY <2>1 DEF SoloHeld, Held, Solo
    <3>4. Lifecycle!Enqueue(i)
      BY <2>4, <3>1, <3>2, <3>3 DEF Lifecycle!Enqueue
    <3> QED
      BY <2>4, <3>4 DEF Lifecycle!Next
  <2> QED
    BY <2>3, <2>4
<1>4. ASSUME NEW i \in Jobs, Time(i) PROVE [Lifecycle!Next]_(Lifecycle!vars)
  <2>1. \A j \in Solo : Held(j)' <=> Held(j)
    BY <1>4 DEF Time, BecomesDue, LeaseExpires, Held, Claimed, Executing
  <2>2. \A j \in Solo : jobs'[j].status = jobs[j].status
    BY <1>4 DEF Time, BecomesDue, LeaseExpires, TypeOK, JobDocument
  <2> QED
    BY <2>1, <2>2, Stutter
<1>5. CASE Restart
  <2>1. \A j \in Solo : ~Held(j)'
    BY <1>5 DEF Restart, Held, Claimed, Executing, IdleTick, FreeSlot, Working
  <2>2. SoloState' = SoloState
    BY <1>5 DEF Restart, SoloState, Solo
  <2>3. SoloHeld' = [j \in Solo |-> FALSE]
    BY <2>1 DEF SoloHeld, Held, Solo
  <2>4. Lifecycle!Crash
    BY <2>2, <2>3 DEF Lifecycle!Crash
  <2> QED
    BY <2>4 DEF Lifecycle!Next
<1> QED
  BY <1>1, <1>2, <1>3, <1>4, <1>5

(* For jobs nobody can cancel and that are not retried, every behaviour of *)
(* the queue is a behaviour of JobLifecycle: one holder at a time, only    *)
(* the holder finishes, finished is for good, and the sweep puts back only *)
(* work whose worker died.                                                 *)
THEOREM QueueImplementsLifecycle == Spec => ImplementsLifecycle
<1>1. Init => Lifecycle!Init
  <2> SUFFICES ASSUME Init PROVE Lifecycle!Init
    OBVIOUS
  <2>1. SoloState = [j \in Solo |-> "absent"]
    BY SoloJobs DEF Init, SoloState, NoDocument
  <2>2. \A j \in Solo : ~Held(j)
    BY DEF Init, Held, Claimed, Executing, IdleTick, FreeSlot, Working
  <2>3. SoloHeld = [j \in Solo |-> FALSE]
    BY <2>2 DEF SoloHeld, Held
  <2> QED
    BY <2>1, <2>3 DEF Lifecycle!Init
<1>2. TypeOK /\ Located /\ Alone /\ [Next]_vars => [Lifecycle!Next]_(Lifecycle!vars)
  <2> SUFFICES ASSUME TypeOK, Located, Alone, [Next]_vars
               PROVE  [Lifecycle!Next]_(Lifecycle!vars)
    OBVIOUS
  <2>1. CASE UNCHANGED vars
    BY <2>1, Stutter DEF vars, Held, Claimed, Executing
  <2> QED
    BY <2>1, LifecycleTick, LifecycleRun, LifecycleRest DEF Next
<1> QED
  BY <1>1, <1>2, TypeCorrect, AlwaysAlone, PTL DEF Spec, ImplementsLifecycle, Lifecycle!Spec
===============================================================================
