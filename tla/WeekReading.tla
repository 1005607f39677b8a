----------------------------- MODULE WeekReading -----------------------------
(***************************************************************************)
(* The model's reading of one person's week (features/insights), a cache   *)
(* in front of a model call: whoever opens the week asks for a fresh one,  *)
(* which is refused while the row's fingerprint is the week's and the row  *)
(* is not an hour old.  A job reads the week, asks the model, takes the    *)
(* fingerprint of the week as it is by then, and saves both.               *)
(*                                                                         *)
(* A week is its version: what was cooked and moved, and the window of     *)
(* seven days, change it, and no change gives an earlier week back.        *)
(***************************************************************************)
EXTENDS Naturals

CONSTANTS
    Jobs,        \* bound: jobs of the type at once
    MaxWeeks,    \* bound: changes of the week
    MaxFaults    \* bound: refusals of the model and attempts that die

WeekAssumption == MaxWeeks \in Nat /\ MaxFaults \in Nat

VARIABLES
    week,      \* the week as it is
    reading,   \* week_insights: the week its payload was made from, the week its
               \* fingerprint was taken of, and whether it is over an hour old
    asking,    \* a request for a fresh reading, and what it has read
    jobs,      \* the jobs of the type, with the week each has read
    faults

vars == <<week, reading, asking, jobs, faults>>

Weeks == 0..MaxWeeks
NoReading == [of |-> 0, print |-> 0, old |-> TRUE, there |-> FALSE]
NotAsking == [row |-> FALSE, found |-> NoReading, print |-> FALSE, week |-> 0, open |-> FALSE]
NoJob == [pc |-> "none", of |-> 0, print |-> 0]

Readings == [of : Weeks, print : Weeks, old : BOOLEAN, there : BOOLEAN]

TypeOK ==
    /\ week \in Weeks /\ reading \in Readings /\ faults \in 0..MaxFaults
    /\ asking \in [row : BOOLEAN, found : Readings, print : BOOLEAN, week : Weeks, open : BOOLEAN]
    /\ jobs \in [Jobs -> [pc : {"none", "queued", "read", "answered", "printed"},
                          of : Weeks, print : Weeks]]

Init ==
    /\ week = 0 /\ reading = NoReading /\ asking = NotAsking
    /\ jobs = [j \in Jobs |-> NoJob] /\ faults = 0

\* Something is cooked or moved, or leaves the window.
WeekChanges ==
    /\ week < MaxWeeks /\ week' = week + 1
    /\ UNCHANGED <<reading, asking, jobs, faults>>

\* Also for whoever has found the row and not decided yet.
HourPasses ==
    /\ reading.there /\ ~reading.old /\ reading' = [reading EXCEPT !.old = TRUE]
    /\ asking' = IF asking.found = reading THEN [asking EXCEPT !.found.old = TRUE] ELSE asking
    /\ UNCHANGED <<week, jobs, faults>>

----------------------------------------------------------------------------
(* refreshReading() and needsRecompute(). *)

Ask ==
    /\ ~asking.open /\ asking' = [NotAsking EXCEPT !.open = TRUE]
    /\ UNCHANGED <<week, reading, jobs, faults>>

\* Two reads that are sent together and answered in any order.
FindReading ==
    /\ asking.open /\ ~asking.row
    /\ asking' = [asking EXCEPT !.row = TRUE, !.found = reading]
    /\ UNCHANGED <<week, reading, jobs, faults>>

TakePrint ==
    /\ asking.open /\ ~asking.print
    /\ asking' = [asking EXCEPT !.print = TRUE, !.week = week]
    /\ UNCHANGED <<week, reading, jobs, faults>>

NeededIfChanged(old) ==     \* whatever the row's age
    ~asking.found.there \/ asking.found.print # asking.week
Needed(old) == ~asking.found.there \/ asking.found.print # asking.week \/ old

Refuse ==
    /\ asking.row /\ asking.print /\ ~Needed(asking.found.old)
    /\ asking' = NotAsking /\ UNCHANGED <<week, reading, jobs, faults>>

\* Nothing asks whether a job of the type is there already.
QueueReading(j) ==
    /\ asking.row /\ asking.print /\ Needed(asking.found.old) /\ asking' = NotAsking
    /\ jobs[j].pc = "none" /\ jobs' = [jobs EXCEPT ![j].pc = "queued"]
    /\ UNCHANGED <<week, reading, faults>>

----------------------------------------------------------------------------
(* runWeekReading(). *)

Goes(j, pc) == jobs' = [jobs EXCEPT ![j].pc = pc]

ReadWeek(j) ==
    /\ jobs[j].pc = "queued" /\ jobs' = [jobs EXCEPT ![j].pc = "read", ![j].of = week]
    /\ UNCHANGED <<week, reading, asking, faults>>

\* The model's answer, or the words for a week with too few meals.
Answered(j) ==
    /\ jobs[j].pc = "read" /\ Goes(j, "answered")
    /\ UNCHANGED <<week, reading, asking, faults>>

\* No reading is fine: the job ends and nothing is saved.
Rejected(j) ==
    /\ jobs[j].pc = "read" /\ faults < MaxFaults /\ faults' = faults + 1
    /\ jobs' = [jobs EXCEPT ![j] = NoJob]
    /\ UNCHANGED <<week, reading, asking>>

\* saveReading() looks at the week again.
Fingerprint(j) ==
    /\ jobs[j].pc = "answered"
    /\ jobs' = [jobs EXCEPT ![j].pc = "printed", ![j].print = week]
    /\ UNCHANGED <<week, reading, asking, faults>>

\* One update, which creates the row where there is none.
SaveReading(j) ==
    /\ jobs[j].pc = "printed" /\ jobs' = [jobs EXCEPT ![j] = NoJob]
    /\ reading' = [of |-> jobs[j].of, print |-> jobs[j].print, old |-> FALSE, there |-> TRUE]
    /\ UNCHANGED <<week, asking, faults>>

\* A database error or the death of the process: attempts remain, and the job is made again.
Dies(j) ==
    /\ jobs[j].pc \notin {"none", "queued"} /\ faults < MaxFaults /\ faults' = faults + 1
    /\ jobs' = [jobs EXCEPT ![j] = [NoJob EXCEPT !.pc = "queued"]]
    /\ UNCHANGED <<week, reading, asking>>

Works(j) == ReadWeek(j) \/ Answered(j) \/ Fingerprint(j) \/ SaveReading(j)

Replies == FindReading \/ TakePrint \/ Refuse \/ \E j \in Jobs : QueueReading(j)

Next ==
    \/ WeekChanges \/ HourPasses \/ Ask \/ Replies
    \/ \E j \in Jobs : Works(j) \/ Rejected(j) \/ Dies(j)

\* The server answers what it is asked, the queue runs some of what is queued, and time passes.
\* That somebody asks, or cooks, is not assumed.
Fairness ==
    WF_vars(HourPasses) /\ WF_vars(Replies) /\ WF_vars(\E j \in Jobs : Works(j))

Spec == Init /\ [][Next]_vars /\ Fairness

----------------------------------------------------------------------------
(* Properties. *)

\* Whoever keeps opening the week ends up with a reading of the week as it is: through readings
\* saved over newer ones, readings that carry a fingerprint of a week they have not seen,
\* refusals of the model and attempts that die.  What makes it so is that an unchanged week
\* gets a refresh once an hour.
ReadingCatchesUp == ([]<>asking.open) => <>[](reading.there /\ reading.of = week)

\* insights.service.ts:109 - "If this has not changed, neither has the answer": a row's
\* fingerprint is that of the week its reading was made from.  What is cooked while the model
\* answers is in the fingerprint and not in the reading.
PrintIsOfTheReading == reading.there => reading.print = reading.of

\* insights.controller.ts:28 - "opening the screen twice pays twice" is what the check is to
\* prevent: no job is queued for a week that another one is reading.
PaysOnce == \A i, j \in Jobs : (i # j /\ jobs[i].pc # "none") => jobs[j].pc = "none"
=============================================================================
