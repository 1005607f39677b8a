--------------------------------- MODULE Ask ---------------------------------
(***************************************************************************)
(* One Ask conversation (src/features/ask): the turns somebody speaks or   *)
(* types, the job that transcribes and parses each, and the follow-up      *)
(* questions about the verdict.                                            *)
(*                                                                         *)
(* A turn is a row and a job.  Attempts of a job follow one another as in  *)
(* JobQueue: one that throws is made again while attempts remain, and one  *)
(* whose process stopped whatever it has left.  An operator may ask a job  *)
(* to stop and put back one that has ended; no person owns the job of a    *)
(* turn.  Rows are saved field by field and arrays pushed to (Mongoose),   *)
(* so a save does not undo another.                                        *)
(***************************************************************************)
EXTENDS Integers, FiniteSets

CONSTANTS
    Spoken, Typed,  \* turns, by their source
    FollowUps,      \* the turns that are a question about the verdict
    Notes,          \* constraints that are not answers
    MaxAttempts,    \* of a job
    Limit,          \* FOLLOW_UP_LIMIT
    Calls,          \* bound: follow-up requests in flight at once
    MaxFaults       \* bound: restarts, database errors and failed deletions

Turns == Spoken \cup Typed

AskAssumption ==
    /\ Spoken \cap Typed = {} /\ FollowUps \subseteq Turns
    /\ MaxAttempts \in Nat \ {0} /\ Limit \in Nat /\ MaxFaults \in Nat
    /\ IsFiniteSet(Calls)

VARIABLES
    turns,      \* the turns of the session
    carried,    \* carriedNotes: how often each note is in it
    recordings, \* voice notes in the bucket
    jobs,       \* the job of each turn
    followUps,  \* how many exchanges the session has
    calls,      \* where each follow-up request is
    faults,     \* what has been spent of the bound
    transcribed, undeleted, \* history: turns that were heard; deletions that failed
    broken      \* history: attempts that were broken off, since the job was last put in the queue

session == <<turns, carried, followUps>>
history == <<transcribed, undeleted, broken>>
vars == <<session, recordings, jobs, calls, faults, history>>

(* `text` is whether rawText is there, `notes` are the turn's own.         *)
Turn == [status : {"absent", "pending", "done", "failed"}, text : BOOLEAN, notes : SUBSET Notes]

(* "unqueued" between the row and the job.  `notes` is what the attempt    *)
(* has parsed, if it has, and `seen` what it has read of carriedNotes.     *)
Working == {"listening", "unheard", "dropping", "heard", "heardNothing", "silent",
            "parsing", "reading", "saving", "reporting", "returned"}
Ended == {"succeeded", "cancelled", "failed"}
Job == [pc : Working \cup Ended \cup {"none", "unqueued", "lost", "queued"},
        attempts : Nat, parsed : BOOLEAN, notes : SUBSET Notes, seen : SUBSET Notes]
NoJob == [pc |-> "none", attempts |-> 0, parsed |-> FALSE, notes |-> {}, seen |-> {}]

Init ==
    /\ turns = [t \in Turns |-> [status |-> "absent", text |-> FALSE, notes |-> {}]]
    /\ carried = [n \in Notes |-> 0]
    /\ recordings = {}
    /\ jobs = [t \in Turns |-> NoJob]
    /\ followUps = 0
    /\ calls = [c \in Calls |-> "idle"]
    /\ faults = 0
    /\ transcribed = {} /\ undeleted = {} /\ broken = [t \in Turns |-> 0]

Goes(t, pc) == jobs' = [jobs EXCEPT ![t].pc = pc]
Carried == {n \in Notes : carried[n] > 0}

-------------------------------------------------------------------------------
(* createTurn: the row, and then the job.  What was spoken is in the       *)
(* bucket by then.                                                         *)

CreateTurn(t) ==
    /\ turns[t].status = "absent"
    /\ turns' = [turns EXCEPT ![t].status = "pending", ![t].text = t \in Typed]
    /\ recordings' = recordings \cup ({t} \cap Spoken)
    /\ jobs' = [jobs EXCEPT ![t] = [NoJob EXCEPT !.pc = "unqueued"]]
    /\ UNCHANGED <<carried, followUps, calls, faults, history>>

QueueTurn(t) ==
    /\ jobs[t].pc = "unqueued"
    /\ Goes(t, "queued")
    /\ UNCHANGED <<session, recordings, calls, faults, history>>

-------------------------------------------------------------------------------
(* runAskTurn.                                                             *)

(* Where an attempt goes once it has the text.                             *)
WithText(t) == IF t \in FollowUps THEN "reading" ELSE "parsing"

Claim(t) ==
    /\ jobs[t].pc = "queued"
    /\ jobs' = [jobs EXCEPT ![t] =
          [NoJob EXCEPT !.pc = IF t \in Spoken THEN "listening" ELSE WithText(t),
                        !.attempts = jobs[t].attempts + 1]]
    /\ UNCHANGED <<session, recordings, calls, faults, history>>

(* The recording is read and transcribed: to something, or to nothing.     *)
Transcribe(t, pc) ==
    /\ jobs[t].pc = "listening" /\ t \in recordings
    /\ Goes(t, pc)
    /\ transcribed' = IF pc = "heard" THEN transcribed \cup {t} ELSE transcribed
    /\ UNCHANGED <<session, recordings, calls, faults, undeleted, broken>>

CannotTranscribe(t) ==
    /\ jobs[t].pc = "listening"
    /\ Goes(t, "unheard")
    /\ UNCHANGED <<session, recordings, calls, faults, history>>

(* The job returns without deleting what it could not read.                *)
SettleAndKeep(t) ==
    /\ jobs[t].pc = "unheard"
    /\ turns' = [turns EXCEPT ![t].status = "failed"]
    /\ Goes(t, "returned")
    /\ UNCHANGED <<carried, followUps, recordings, calls, faults, history>>

(* The turn fails; the text it may have stays.                             *)
SettleUnheard(t) ==
    /\ jobs[t].pc = "unheard"
    /\ turns' = [turns EXCEPT ![t].status = "failed"]
    /\ Goes(t, "dropping")
    /\ UNCHANGED <<carried, followUps, recordings, calls, faults, history>>

AfterDeletion(t) ==
    CASE jobs[t].pc = "dropping" -> "returned"
      [] jobs[t].pc = "heardNothing" -> "silent"
      [] jobs[t].pc = "heard" -> WithText(t)

(* deleteObject never throws: what it cannot delete stays.                 *)
Delete(t) ==
    /\ jobs[t].pc \in {"dropping", "heardNothing", "heard"}
    /\ Goes(t, AfterDeletion(t))
    /\ recordings' = recordings \ {t}
    /\ UNCHANGED <<session, calls, faults, history>>

DeletionFails(t) ==
    /\ jobs[t].pc \in {"dropping", "heardNothing", "heard"}
    /\ faults < MaxFaults /\ faults' = faults + 1
    /\ Goes(t, AfterDeletion(t))
    /\ undeleted' = undeleted \cup {t}
    /\ UNCHANGED <<session, recordings, calls, transcribed, broken>>

(* Nothing was heard.                                                      *)
SettleSilent(t) ==
    /\ jobs[t].pc = "silent"
    /\ turns' = [turns EXCEPT ![t].status = "failed"]
    /\ Goes(t, "returned")
    /\ UNCHANGED <<carried, followUps, recordings, calls, faults, history>>

Parse(t, notes) ==
    /\ jobs[t].pc = "parsing"
    /\ jobs' = [jobs EXCEPT ![t].pc = "reading", ![t].parsed = TRUE, ![t].notes = notes]
    /\ UNCHANGED <<session, recordings, calls, faults, history>>

(* Refused, broken, or not sure enough.                                    *)
CannotParse(t) ==
    /\ jobs[t].pc = "parsing"
    /\ Goes(t, "reading")
    /\ UNCHANGED <<session, recordings, calls, faults, history>>

(* settleTurn: the session is read and saved with what was heard.          *)
ReadSession(t) ==
    /\ jobs[t].pc = "reading"
    /\ jobs' = [jobs EXCEPT ![t].pc = "saving", ![t].seen = Carried]
    /\ UNCHANGED <<session, recordings, calls, faults, history>>

Settled(t) ==
    turns' = [turns EXCEPT ![t].status = "done", ![t].text = TRUE,
                           ![t].notes = IF jobs[t].parsed THEN jobs[t].notes ELSE @]

(* Saves the list of notes it has read, and its own.                       *)
SaveWholeList(t) ==
    /\ jobs[t].pc = "saving"
    /\ Settled(t)
    /\ carried' = [n \in Notes |-> IF n \in jobs[t].seen \cup jobs[t].notes THEN 1 ELSE 0]
    /\ Goes(t, "reporting")
    /\ UNCHANGED <<followUps, recordings, calls, faults, history>>

SaveTurn(t) ==
    /\ jobs[t].pc = "saving"
    /\ Settled(t)
    /\ carried' = [n \in Notes |->
          IF n \in jobs[t].notes \ jobs[t].seen THEN carried[n] + 1 ELSE carried[n]]
    /\ Goes(t, "reporting")
    /\ UNCHANGED <<followUps, recordings, calls, faults, history>>

(* The last progress.                                                      *)
Report(t) ==
    /\ jobs[t].pc = "reporting"
    /\ Goes(t, "returned")
    /\ UNCHANGED <<session, recordings, calls, faults, history>>

(* The queue asks whether an operator wants the job stopped, and records   *)
(* how it ended.  The flag may be raised at any time and stops nothing     *)
(* before.                                                                 *)
Finish(t, status) ==
    /\ jobs[t].pc = "returned"
    /\ Goes(t, status)
    /\ UNCHANGED <<session, recordings, calls, faults, history>>

(* The database throws at a step of an attempt: at any but a deletion.     *)
GivesUpEarly(t) ==      \* counts an attempt too many
    /\ jobs[t].pc \in Working \ {"dropping", "heardNothing", "heard"}
    /\ faults < MaxFaults /\ faults' = faults + 1
    /\ Goes(t, IF jobs[t].attempts + 1 >= MaxAttempts THEN "failed" ELSE "queued")
    /\ broken' = [broken EXCEPT ![t] = @ + 1]
    /\ UNCHANGED <<session, recordings, calls, transcribed, undeleted>>

Throws(t) ==
    /\ jobs[t].pc \in Working \ {"dropping", "heardNothing", "heard"}
    /\ faults < MaxFaults /\ faults' = faults + 1
    /\ Goes(t, IF jobs[t].attempts >= MaxAttempts THEN "failed" ELSE "queued")
    /\ broken' = [broken EXCEPT ![t] = @ + 1]
    /\ UNCHANGED <<session, recordings, calls, transcribed, undeleted>>

(* An operator puts back a job that has ended, with all its attempts.      *)
Retry(t) ==
    /\ jobs[t].pc \in Ended
    /\ jobs' = [jobs EXCEPT ![t] = [NoJob EXCEPT !.pc = "queued"]]
    /\ broken' = [broken EXCEPT ![t] = 0]
    /\ UNCHANGED <<session, recordings, calls, faults, transcribed, undeleted>>

-------------------------------------------------------------------------------
(* followUp: counted, asked, and pushed.                                   *)

BeginFollowUp(c) ==
    /\ calls[c] = "idle" /\ followUps < Limit
    /\ calls' = [calls EXCEPT ![c] = "asked"]
    /\ UNCHANGED <<session, recordings, jobs, faults, history>>

EndFollowUp(c, answered) ==
    /\ calls[c] = "asked"
    /\ calls' = [calls EXCEPT ![c] = "idle"]
    /\ followUps' = IF answered THEN followUps + 1 ELSE followUps
    /\ UNCHANGED <<turns, carried, recordings, jobs, faults, history>>

-------------------------------------------------------------------------------
(* A row whose request had not queued its job has none.                    *)
Restart ==
    /\ faults < MaxFaults /\ faults' = faults + 1
    /\ jobs' = [t \in Turns |->
          CASE jobs[t].pc = "unqueued" -> [jobs[t] EXCEPT !.pc = "lost"]
            [] jobs[t].pc \in Working -> [jobs[t] EXCEPT !.pc = "queued"]
            [] OTHER -> jobs[t]]
    /\ broken' = [t \in Turns |-> IF jobs[t].pc \in Working THEN broken[t] + 1 ELSE broken[t]]
    /\ calls' = [c \in Calls |-> "idle"]
    /\ UNCHANGED <<session, recordings, transcribed, undeleted>>

Attempts(t) ==
    \/ \E pc \in {"heard", "heardNothing"} : Transcribe(t, pc)
    \/ CannotTranscribe(t) \/ SettleUnheard(t) \/ Delete(t) \/ SettleSilent(t)
    \/ \E notes \in SUBSET Notes : Parse(t, notes)
    \/ CannotParse(t) \/ ReadSession(t) \/ SaveTurn(t) \/ Report(t)
    \/ \E status \in {"succeeded", "cancelled"} : Finish(t, status)

Next ==
    \/ \E t \in Turns :
          \/ CreateTurn(t) \/ QueueTurn(t) \/ Claim(t)
          \/ Attempts(t) \/ DeletionFails(t) \/ Throws(t) \/ Retry(t)
    \/ \E c \in Calls :
          \/ BeginFollowUp(c)
          \/ \E answered \in BOOLEAN : EndFollowUp(c, answered)
    \/ Restart

Spec == Init /\ [][Next]_vars

-------------------------------------------------------------------------------
(* Properties.                                                             *)

TypeOK ==
    /\ turns \in [Turns -> Turn] /\ carried \in [Notes -> Nat]
    /\ recordings \in SUBSET Turns /\ jobs \in [Turns -> Job]
    /\ followUps \in Nat /\ calls \in [Calls -> {"idle", "asked"}]
    /\ faults \in 0..MaxFaults
    /\ transcribed \in SUBSET Turns /\ undeleted \in SUBSET Turns
    /\ broken \in [Turns -> Nat]

(* "a constraint from step one survives to step four" (ask.model.ts:78):   *)
(* what a turn noted is carried by the session, whatever turns are settled *)
(* at the same time or again.                                              *)
NotesCarried == \A t \in Turns : turns[t].notes \subseteq Carried

(* "Nothing keeps the recording after this point" (ask.jobs.ts:62): a job  *)
(* that has ended, however it did and however often it was made again, has *)
(* left its turn settled and no recording.  There are two ways out of it:  *)
(* the bucket refused, or the job was given up after every one of its      *)
(* attempts was broken off.                                                *)
EndedJobsLeaveNothing ==
    \A t \in Turns : jobs[t].pc \in Ended =>
        \/ /\ turns[t].status \in {"done", "failed"}
           /\ t \notin recordings \ undeleted
        \/ jobs[t].pc = "failed" /\ broken[t] >= MaxAttempts

(* "it goes whether or not the read succeeded" (ask.jobs.ts:56-57): no job *)
(* that has ended leaves what the bucket would have deleted.               *)
RecordingGoes == \A t \in Turns : jobs[t].pc \in Ended => t \notin recordings \ undeleted

(* "a restart between them must not lose what somebody said"               *)
(* (ask.model.ts:47): a turn that was heard does not fail without its text.*)
HeardNotLost ==
    \A t \in transcribed : turns[t].status = "failed" => turns[t].text
===============================================================================
