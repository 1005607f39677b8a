-------------------------------- MODULE Mail --------------------------------
(***************************************************************************)
(* One kind of nudge to one person: the running-low mail that a job sends  *)
(* after something was cooked away, and the way every mail leaves          *)
(* (lib/mail/email.service). A job reads the person, the settings and the  *)
(* log, each with a call of its own, then the switch once more, delivers,  *)
(* and writes the log row last. Operators switch the kind off and on and   *)
(* send a logged mail again, which asks for the switch and not the cap.    *)
(*                                                                         *)
(* Time is counted in days. Any number of jobs may be under way at once:   *)
(* the queue's CONCURRENCY does not bound them, as a tick that waits for   *)
(* its claims goes by what was running before. A job does not last days,   *)
(* and runs again when its process died (its lease runs out, whatever      *)
(* maxAttempts says).                                                      *)
(***************************************************************************)
EXTENDS Integers, FiniteSets

CONSTANTS
    Jobs,         \* bound: stock-dropped jobs ever queued
    Resends,      \* bound: mails an operator sends again
    Gap,          \* minHoursBetween, in days
    Days,         \* bound: days looked at
    MaxSwitches,  \* bound: how often a switch is thrown
    MaxFaults     \* bound: deaths of the process and rows that are not written

MailAssumption ==
    /\ IsFiniteSet(Jobs) /\ IsFiniteSet(Resends) /\ Jobs \cap Resends = {}
    /\ Gap \in Nat \ {0} /\ Days \in Nat
    /\ MaxSwitches \in Nat /\ MaxFaults \in Nat

Sends == Jobs \cup Resends

VARIABLES
    today,        \* the day
    enabled,      \* the operator's switch for the kind
    subscribed,   \* the person's own preference
    sends,        \* how far each send is
    log,          \* email_logs: rows [of, status, day]
    nudged,       \* the nudges that reached the person, by their number and day
    switches, faults,
    crowd         \* history: the most jobs that were under way at once

vars == <<today, enabled, subscribed, sends, log, nudged, switches, faults, crowd>>

Working == {"reading", "allowed", "eligible", "cleared", "delivered", "refused"}
Place == {"none", "queued", "ended"} \cup Working

InFlight == {j \in Jobs : sends[j] \in Working}

TypeOK ==
    /\ today \in 0..Days /\ enabled \in BOOLEAN /\ subscribed \in BOOLEAN
    /\ sends \in [Sends -> Place]
    /\ log \subseteq [of : Sends, status : {"sent", "failed", "blocked"}, day : 0..Days]
    /\ nudged \subseteq [nth : Nat, day : 0..Days]
    /\ switches \in 0..MaxSwitches /\ faults \in 0..MaxFaults /\ crowd \in Nat

Init ==
    /\ today = 0 /\ enabled = TRUE /\ subscribed = TRUE
    /\ sends = [s \in Sends |-> "none"]
    /\ log = {} /\ nudged = {} /\ switches = 0 /\ faults = 0 /\ crowd = 0

Goes(s, place) == sends' = [sends EXCEPT ![s] = place]

bounds == <<switches, faults, crowd>>
settings == <<enabled, subscribed>>

----------------------------------------------------------------------------
(* The job: runStockDropped() and sendRunningLow(). *)

\* notifyStockDropped(), after something was cooked away.
Cooked(j) ==
    /\ sends[j] = "none" /\ Goes(j, "queued")
    /\ UNCHANGED <<today, settings, log, nudged, bounds>>

\* The handler reads the person: not subscribed, it ends.
Start(j) ==
    /\ sends[j] = "queued"
    /\ Goes(j, IF subscribed THEN "reading" ELSE "ended")
    /\ crowd' = IF Cardinality(InFlight') > crowd THEN crowd + 1 ELSE crowd
    /\ UNCHANGED <<today, settings, log, nudged, switches, faults>>

ReadSettings(j) ==
    /\ sends[j] = "reading"
    /\ Goes(j, IF enabled THEN "allowed" ELSE "ended")
    /\ UNCHANGED <<today, settings, log, nudged, bounds>>

\* isEligible(): the frequency cap, asked of the log. Its other rules may refuse as well.
NeverLately == FALSE        \* forgets the cap
SentLately == \E row \in log : row.status = "sent" /\ row.day + Gap > today

Look(j) ==
    /\ sends[j] = "allowed"
    /\ \/ ~SentLately /\ Goes(j, "eligible")
       \/ Goes(j, "ended")
    /\ UNCHANGED <<today, settings, log, nudged, bounds>>

----------------------------------------------------------------------------
(* EmailService.send(): the switch, the mailer, the row. *)

Row(s, status) == [of |-> s, status |-> status, day |-> today]

\* An operator sends what was logged once more.
Resend(r) ==
    /\ r \in Resends /\ sends[r] = "none" /\ log # {}
    /\ Goes(r, "eligible")
    /\ UNCHANGED <<today, settings, log, nudged, bounds>>

Clear(s) ==
    /\ sends[s] = "eligible"
    /\ \/ enabled /\ Goes(s, "cleared") /\ UNCHANGED log
       \/ ~enabled /\ Goes(s, "ended") /\ log' = log \cup {Row(s, "blocked")}
    /\ UNCHANGED <<today, settings, nudged, bounds>>

Nudge == [nth |-> Cardinality(nudged) + 1, day |-> today]

Deliver(s) ==
    /\ sends[s] = "cleared"
    /\ \/ /\ Goes(s, "delivered")
          /\ nudged' = IF s \in Jobs THEN nudged \cup {Nudge} ELSE nudged
       \/ Goes(s, "refused") /\ UNCHANGED nudged
    /\ UNCHANGED <<today, settings, log, bounds>>

Record(s) ==
    /\ sends[s] \in {"delivered", "refused"}
    /\ Goes(s, "ended")
    /\ log' = log \cup {Row(s, IF sends[s] = "delivered" THEN "sent" ELSE "failed")}
    /\ UNCHANGED <<today, settings, nudged, bounds>>

\* The row is not written: the job fails, and its one attempt is spent.
RecordFails(s) ==
    /\ sends[s] \in {"delivered", "refused"} /\ faults < MaxFaults
    /\ Goes(s, "ended") /\ faults' = faults + 1
    /\ UNCHANGED <<today, settings, log, nudged, switches, crowd>>

----------------------------------------------------------------------------
(* Around it. *)

\* The process dies: its jobs are put back when their leases run out, its requests are lost.
Crash ==
    /\ faults < MaxFaults /\ faults' = faults + 1
    /\ \E s \in Sends : sends[s] \in Working
    /\ sends' = [s \in Sends |-> IF sends[s] \notin Working THEN sends[s]
                                 ELSE IF s \in Jobs THEN "queued" ELSE "ended"]
    /\ UNCHANGED <<today, settings, log, nudged, switches, crowd>>

SetKindEnabled ==
    /\ switches < MaxSwitches /\ switches' = switches + 1
    /\ enabled' = ~enabled
    /\ UNCHANGED <<today, subscribed, sends, log, nudged, faults, crowd>>

SetPreference ==
    /\ switches < MaxSwitches /\ switches' = switches + 1
    /\ subscribed' = ~subscribed
    /\ UNCHANGED <<today, enabled, sends, log, nudged, faults, crowd>>

Tick ==
    /\ today < Days /\ today' = today + 1
    /\ \A s \in Sends : sends[s] \notin Working
    /\ UNCHANGED <<settings, sends, log, nudged, bounds>>

Next ==
    \/ \E j \in Jobs : Cooked(j) \/ Start(j) \/ ReadSettings(j) \/ Look(j)
    \/ \E r \in Resends : Resend(r)
    \/ \E s \in Sends : Clear(s) \/ Deliver(s) \/ Record(s) \/ RecordFails(s)
    \/ Crash \/ SetKindEnabled \/ SetPreference \/ Tick

Spec == Init /\ [][Next]_vars

----------------------------------------------------------------------------
(* Properties. *)

\* The nudges of the Gap days from this one.
Nudges(day) == Cardinality({n \in nudged : day <= n.day /\ n.day < day + Gap})

\* What the cap is worth: however much is cooked, no stretch of Gap days brings more nudges than
\* there ever were jobs under way at once, and as many again for each death of the process or lost
\* row. (It is asked of the log, so jobs that follow one another cannot both nudge.)
CapHolds == \A day \in 0..Days : Nudges(day) <= crowd * (1 + faults)

\* notifications.jobs.ts: three meals cooked on a Sunday must not bring three mails, and the cap
\* is what stops it.
OneNudge == faults = 0 => \A day \in 0..Days : Nudges(day) <= 1
=============================================================================
