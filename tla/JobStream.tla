------------------------------ MODULE JobStream ------------------------------
(***************************************************************************)
(* The event streams of one job (features/jobs/jobs.sse.ts).  A stream     *)
(* reads the job, sends what it read, and listens from then on; when the   *)
(* end of the job is announced it reads the job again, tells the client    *)
(* and closes.  Fifteen minutes close it in any case.                      *)
(*                                                                         *)
(* The job is seen from here: a worker claims it, writes its end and       *)
(* announces it in a step of its own; a failed attempt puts it back and    *)
(* says nothing; a cancel that read a job as queued writes its end and     *)
(* says nothing either.  A process that dies takes every stream along.     *)
(***************************************************************************)
EXTENDS Naturals, FiniteSets

CONSTANTS
    Streams,     \* bound: streams ever opened
    Workers,     \* bound: attempts at once
    MaxClaims,   \* bound: attempts in all
    MaxAsks,     \* bound: cancels and retries
    MaxFaults    \* bound: deaths of the process and reads that fail

StreamAssumption ==
    /\ IsFiniteSet(Streams) /\ Workers \in Nat \ {0}
    /\ MaxClaims \in Nat /\ MaxAsks \in Nat /\ MaxFaults \in Nat

VARIABLES
    status,      \* the job's status in its document
    working,     \* attempts that have not written their outcome
    unsaid,      \* ends that are written and not announced
    ask,         \* the cancel or retry under way, and the status it has read
    streams,     \* how far each stream is, and the status it read first
    told,        \* the last word each client was told
    claims, asks, faults,
    late,        \* history: streams that read before an end was announced and listened after
    hushed       \* history: streams that were there when a cancel ended the job in silence

job == <<status, working, unsaid, ask>>
bounds == <<claims, asks, faults>>
vars == <<job, streams, told, bounds, late, hushed>>

Ended == {"succeeded", "failed", "cancelled"}
Status == {"queued", "running"} \cup Ended
NoAsk == [op |-> "none", read |-> "queued"]

TypeOK ==
    /\ status \in Status /\ working \in 0..Workers /\ unsaid \in 0..MaxClaims
    /\ ask \in [op : {"none", "cancel", "retry"}, read : Status]
    /\ streams \in [Streams -> [pc : {"none", "reading", "open", "again", "closed"}, seen : Status]]
    /\ told \in [Streams -> {"nothing", "state", "done", "timeout"}]
    /\ claims \in 0..MaxClaims /\ asks \in 0..MaxAsks /\ faults \in 0..MaxFaults
    /\ late \subseteq Streams /\ hushed \subseteq Streams

Init ==
    /\ status = "queued" /\ working = 0 /\ unsaid = 0 /\ ask = NoAsk
    /\ streams = [s \in Streams |-> [pc |-> "none", seen |-> "queued"]]
    /\ told = [s \in Streams |-> "nothing"]
    /\ claims = 0 /\ asks = 0 /\ faults = 0 /\ late = {} /\ hushed = {}

At(pc) == {s \in Streams : streams[s].pc = pc}

----------------------------------------------------------------------------
(* The job, as the queue and the requests on it move it. *)

Claim ==
    /\ status = "queued" /\ status' = "running"
    /\ working < Workers /\ working' = working + 1
    /\ claims < MaxClaims /\ claims' = claims + 1
    /\ UNCHANGED <<unsaid, ask, streams, told, asks, faults, late, hushed>>

\* finish(): the document first.
Finish(outcome) ==
    /\ working > 0 /\ working' = working - 1
    /\ status' = outcome /\ unsaid' = unsaid + 1
    /\ UNCHANGED <<ask, streams, told, bounds, late, hushed>>

\* Then the event: whoever listens reads the job again.
Announce ==
    /\ unsaid > 0 /\ unsaid' = unsaid - 1
    /\ streams' = [s \in Streams |->
                    IF s \in At("open") THEN [streams[s] EXCEPT !.pc = "again"] ELSE streams[s]]
    /\ late' = late \cup At("reading")
    /\ UNCHANGED <<status, working, ask, told, bounds, hushed>>

\* fail(), while attempts remain.
PutBack ==
    /\ working > 0 /\ working' = working - 1 /\ status' = "queued"
    /\ UNCHANGED <<unsaid, ask, streams, told, bounds, late, hushed>>

\* reclaimStalled(): the lease of a job whose worker died has run out.
Reclaim ==
    /\ status = "running" /\ working = 0 /\ status' = "queued"
    /\ UNCHANGED <<working, unsaid, ask, streams, told, bounds, late, hushed>>

\* cancel() and retry() of a person or an operator: a read, then the write it decided on.
BeginAsk(op) ==
    /\ ask = NoAsk /\ asks < MaxAsks /\ asks' = asks + 1
    /\ op = "cancel" => status \notin Ended
    /\ op = "retry" => status \in {"failed", "cancelled"}
    /\ ask' = [op |-> op, read |-> status]
    /\ UNCHANGED <<status, working, unsaid, streams, told, claims, faults, late, hushed>>

EndAsk ==
    /\ ask # NoAsk /\ ask' = NoAsk
    /\ status' = IF ask.op = "retry" THEN "queued"
                 ELSE IF ask.read = "queued" THEN "cancelled" ELSE status
    /\ hushed' = IF status' = "cancelled" THEN hushed \cup At("reading") \cup At("open") ELSE hushed
    /\ UNCHANGED <<working, unsaid, streams, told, bounds, late>>

----------------------------------------------------------------------------
(* The streams: streamJob(). *)

Open(s) ==
    /\ streams[s].pc = "none"
    /\ streams' = [streams EXCEPT ![s] = [pc |-> "reading", seen |-> status]]
    /\ UNCHANGED <<job, told, bounds, late, hushed>>

Moves(s, pc, word) ==
    /\ streams' = [streams EXCEPT ![s].pc = pc] /\ told' = [told EXCEPT ![s] = word]
    /\ UNCHANGED <<job, late, hushed>>

ListenAnyway(s) ==      \* holds the socket whatever the job's status is
    streams[s].pc = "reading" /\ Moves(s, "open", "state") /\ UNCHANGED bounds
\* The job that was read is sent; one that has ended is all there is to say.
Listen(s) ==
    /\ streams[s].pc = "reading"
    /\ IF streams[s].seen \in Ended THEN Moves(s, "closed", "done") ELSE Moves(s, "open", "state")
    /\ UNCHANGED bounds

TellDone(s) == streams[s].pc = "again" /\ Moves(s, "closed", "done") /\ UNCHANGED bounds

\* The catch of the second read: closed without a word.
ReadAgainFails(s) ==
    /\ streams[s].pc = "again" /\ faults < MaxFaults /\ faults' = faults + 1
    /\ Moves(s, "closed", told[s]) /\ UNCHANGED <<claims, asks>>

\* The timer is set before the first event can be heard and cleared when the stream closes.
TimesOut(s) ==
    streams[s].pc \in {"open", "again"} /\ Moves(s, "closed", "timeout") /\ UNCHANGED bounds

\* A client that leaves during the first read leaves a stream that nobody closes before its time.
ClientLeaves(s) ==
    streams[s].pc \in {"open", "again"} /\ Moves(s, "closed", told[s]) /\ UNCHANGED bounds

Restart ==
    /\ faults < MaxFaults /\ faults' = faults + 1
    /\ working' = 0 /\ unsaid' = 0 /\ ask' = NoAsk
    /\ streams' = [s \in Streams |->
                    IF streams[s].pc = "none" THEN streams[s] ELSE [streams[s] EXCEPT !.pc = "closed"]]
    /\ UNCHANGED <<status, told, claims, asks, late, hushed>>

Next ==
    \/ Claim \/ (\E outcome \in Ended : Finish(outcome)) \/ Announce \/ PutBack \/ Reclaim
    \/ (\E op \in {"cancel", "retry"} : BeginAsk(op)) \/ EndAsk
    \/ \E s \in Streams : Open(s) \/ Listen(s) \/ TellDone(s) \/ ReadAgainFails(s)
                          \/ TimesOut(s) \/ ClientLeaves(s)
    \/ Restart

Spec == Init /\ [][Next]_vars

----------------------------------------------------------------------------
(* Properties. *)

WaitsInVain(s) == streams[s].pc = "open" /\ status \in Ended /\ unsaid = 0

\* No client waits out its fifteen minutes on a job that has ended and said so, but one whose
\* stream read the job before that was said and listened after, or whose job a cancel ended
\* while it waited in the queue.
NobodyWaitsInVain == \A s \in Streams : WaitsInVain(s) => s \in late \cup hushed

\* The same without the exceptions, which the code does not keep.
EndIsHeard == \A s \in Streams : ~WaitsInVain(s)
=============================================================================
