----------------------------- MODULE ChowdeckGate -----------------------------
(***************************************************************************)
(* The one way out to Chowdeck (src/features/chowdeck/chowdeck.client.ts): *)
(* the switch, the breaker, the daily cap and the bucket of the minute, in *)
(* front of every call, and the call itself.                               *)
(*                                                                         *)
(* A step ends where the code awaits: reading the switch, counting the     *)
(* call log, asking the bucket, sleeping, and the request.  The breaker,   *)
(* the count and the bucket are in memory and a restart loses them; the    *)
(* call log is in the database, and a call is written to it without being  *)
(* awaited.                                                                *)
(***************************************************************************)
EXTENDS Integers, FiniteSets

CONSTANTS
    Calls,       \* calls in flight at once
    Cap,         \* CHOWDECK_DAILY_CAP
    PerMinute,   \* CHOWDECK_CALLS_PER_MINUTE
    Threshold,   \* BREAKER_THRESHOLD
    NDays,       \* bound: Lagos days
    MaxCalls,    \* bound: calls ever begun
    MaxFaults    \* bound: restarts, log rows that fail and counts that fail

Days == 1..NDays
NoDay == 0

ASSUME GateAssumption ==
    /\ Cap \in Nat \ {0} /\ PerMinute \in Nat \ {0} /\ Threshold \in Nat \ {0}
    /\ NDays \in Nat \ {0} /\ MaxCalls \in Nat /\ MaxFaults \in Nat
    /\ IsFiniteSet(Calls)

VARIABLES
    fetchOn,   \* the switch: flag `chowdeck_fetch`
    breaker,   \* consecutiveFailures, and whether openUntil is ahead
    day,       \* the Lagos day
    today,     \* the day of the count in memory, if there is one
    counts,    \* the count of each day: `today` and the ones calls still hold
    seeding,   \* the day whose rows are being counted, if any
    tokens,    \* the outbound bucket
    logged,    \* sent calls in the call log, by the day of the row
    unlogged,  \* rows on their way to the log, by day
    calls,     \* where each call is
    begun, faults,  \* what has been spent of each bound
    sent, excused,  \* history: calls sent on a day, and those no count shows
    leaked          \* history: calls sent since the breaker opened

memory == <<breaker, today, counts, seeding, tokens>>
log == <<logged, unlogged>>
spent == <<begun, faults>>
history == <<sent, excused, leaked>>
vars == <<fetchOn, memory, day, log, calls, spent, history>>

(* `seeding` waits for the day's count, `checking` has it; `asleep` waits  *)
(* for the bucket, which only background jobs do (`waits`).  `account` is  *)
(* the day whose count the call will add to, `sentOn` the day it left.     *)
Step == {"idle", "switch", "seeding", "checking", "bucket", "asleep", "sending"}
Call == [pc : Step, waits : BOOLEAN, account : Days \cup {NoDay}, sentOn : Days \cup {NoDay}]
Idle == [pc |-> "idle", waits |-> FALSE, account |-> NoDay, sentOn |-> NoDay]

Closed == [failures |-> 0, open |-> FALSE]

Init ==
    /\ fetchOn = TRUE
    /\ breaker = Closed
    /\ day = 1 /\ today = NoDay /\ seeding = NoDay
    /\ counts = [d \in Days |-> 0]
    /\ tokens = PerMinute
    /\ logged = [d \in Days |-> 0] /\ unlogged = [d \in Days |-> 0]
    /\ calls = [c \in Calls |-> Idle]
    /\ begun = 0 /\ faults = 0
    /\ sent = [d \in Days |-> 0] /\ excused = [d \in Days |-> 0]
    /\ leaked = 0

Goes(c, pc) == calls' = [calls EXCEPT ![c].pc = pc]

(* A refused call is written to the log as refused, which nothing counts.  *)
Refused(c) == calls' = [calls EXCEPT ![c] = Idle]

-------------------------------------------------------------------------------
(* acquire: the four guards, in order.                                     *)

BeginCall(c, waits) ==
    /\ calls[c] = Idle
    /\ begun < MaxCalls /\ begun' = begun + 1
    /\ calls' = [calls EXCEPT ![c] = [Idle EXCEPT !.pc = "switch", !.waits = waits]]
    /\ UNCHANGED <<fetchOn, memory, day, log, faults, history>>

(* The breaker is not asked.                                               *)
PassSwitchOnly(c) ==
    /\ calls[c].pc = "switch"
    /\ IF ~fetchOn
         THEN Refused(c) /\ UNCHANGED seeding
         ELSE IF today = day
         THEN /\ calls' = [calls EXCEPT ![c].pc = "checking", ![c].account = day]
              /\ UNCHANGED seeding
         ELSE /\ Goes(c, "seeding")
              /\ seeding' = IF seeding = NoDay THEN day ELSE seeding
    /\ UNCHANGED <<fetchOn, breaker, today, counts, tokens, day, log, spent, history>>

(* The switch and the breaker, and then the count of the day: the one in   *)
(* memory, or the one that is being made, or a new one.                    *)
PassSwitch(c) ==
    /\ calls[c].pc = "switch"
    /\ IF ~fetchOn \/ breaker.open
         THEN Refused(c) /\ UNCHANGED seeding
         ELSE IF today = day
         THEN /\ calls' = [calls EXCEPT ![c].pc = "checking", ![c].account = day]
              /\ UNCHANGED seeding
         ELSE /\ Goes(c, "seeding")
              /\ seeding' = IF seeding = NoDay THEN day ELSE seeding
    /\ UNCHANGED <<fetchOn, breaker, today, counts, tokens, day, log, spent, history>>

(* A new process begins the day anew.                                      *)
SeedNothing ==
    /\ seeding # NoDay
    /\ today' = seeding
    /\ counts' = [counts EXCEPT ![seeding] = 0]
    /\ seeding' = NoDay
    /\ calls' = [c \in Calls |->
          IF calls[c].pc = "seeding"
            THEN [calls[c] EXCEPT !.pc = "checking", !.account = seeding] ELSE calls[c]]
    /\ UNCHANGED <<fetchOn, breaker, tokens, day, log, spent, history>>

(* sentToday: everyone who waits gets the count, whose day may be over.    *)
Seed ==
    /\ seeding # NoDay
    /\ today' = seeding
    /\ counts' = [counts EXCEPT ![seeding] = logged[seeding]]
    /\ seeding' = NoDay
    /\ calls' = [c \in Calls |->
          IF calls[c].pc = "seeding"
            THEN [calls[c] EXCEPT !.pc = "checking", !.account = seeding] ELSE calls[c]]
    /\ UNCHANGED <<fetchOn, breaker, tokens, day, log, spent, history>>

(* The query fails, and with it every call that waits for it.              *)
SeedFails ==
    /\ seeding # NoDay
    /\ faults < MaxFaults /\ faults' = faults + 1
    /\ seeding' = NoDay
    /\ calls' = [c \in Calls |-> IF calls[c].pc = "seeding" THEN Idle ELSE calls[c]]
    /\ UNCHANGED <<fetchOn, breaker, today, counts, tokens, day, log, begun, history>>

CheckCap(c) ==
    /\ calls[c].pc = "checking"
    /\ IF counts[calls[c].account] >= Cap THEN Refused(c) ELSE Goes(c, "bucket")
    /\ UNCHANGED <<fetchOn, memory, day, log, spent, history>>

(* The loop over the bucket.  A token taken is counted at once, on the     *)
(* account the call was given when it checked the cap.                     *)
TakeToken(c) ==
    /\ calls[c].pc = "bucket" /\ tokens > 0
    /\ tokens' = tokens - 1
    /\ counts' = [counts EXCEPT ![calls[c].account] = @ + 1]
    /\ calls' = [calls EXCEPT ![c].pc = "sending", ![c].sentOn = day]
    /\ sent' = [sent EXCEPT ![day] = @ + 1]
    /\ excused' = IF calls[c].account = day THEN excused
                  ELSE [excused EXCEPT ![day] = @ + 1]
    /\ leaked' = IF breaker.open THEN leaked + 1 ELSE leaked
    /\ UNCHANGED <<fetchOn, breaker, today, seeding, day, log, spent>>

(* No token: whoever does not wait, has waited long enough or is cancelled *)
(* is refused, the others sleep.                                           *)
NoToken(c) ==
    /\ calls[c].pc = "bucket" /\ tokens = 0
    /\ \/ Refused(c)
       \/ calls[c].waits /\ Goes(c, "asleep")
    /\ UNCHANGED <<fetchOn, memory, day, log, spent, history>>

(* Only the switch is looked at again.                                     *)
Wake(c) ==
    /\ calls[c].pc = "asleep"
    /\ IF fetchOn THEN Goes(c, "bucket") ELSE Refused(c)
    /\ UNCHANGED <<fetchOn, memory, day, log, spent, history>>

-------------------------------------------------------------------------------
(* call: what came back.                                                   *)

(* recordFailure; a 429 opens the breaker by itself.  Opening it while it  *)
(* is open sets openUntil again.                                           *)
AfterFailure(tooMany) ==
    [failures |-> breaker.failures + 1,
     open |-> breaker.open \/ tooMany \/ breaker.failures + 1 >= Threshold]

(* recordSuccess: the count goes, openUntil stays.                         *)
AfterSuccess == [breaker EXCEPT !.failures = 0]

(* `ok`, a time-out, a network, server or shape error (`failed`), a 429,   *)
(* or another status, which says nothing about them (`refusal`).           *)
Outcome == {"ok", "failed", "tooMany", "refusal"}

AfterOutcome(outcome) ==
    CASE outcome = "ok" -> AfterSuccess
      [] outcome = "failed" -> AfterFailure(FALSE)
      [] outcome = "tooMany" -> AfterFailure(TRUE)
      [] outcome = "refusal" -> breaker

Settle(c, outcome) ==
    /\ calls[c].pc = "sending"
    /\ breaker' = AfterOutcome(outcome)
    /\ unlogged' = [unlogged EXCEPT ![day] = @ + 1]
    /\ calls' = [calls EXCEPT ![c] = Idle]
    /\ leaked' = IF breaker'.open /\ ~breaker.open THEN 0 ELSE leaked
    /\ UNCHANGED <<fetchOn, today, counts, seeding, tokens, day, logged, spent, sent, excused>>

LogRow(d) ==
    /\ unlogged[d] > 0
    /\ unlogged' = [unlogged EXCEPT ![d] = @ - 1]
    /\ logged' = [logged EXCEPT ![d] = @ + 1]
    /\ UNCHANGED <<fetchOn, memory, day, calls, spent, history>>

LogRowFails(d) ==
    /\ unlogged[d] > 0
    /\ faults < MaxFaults /\ faults' = faults + 1
    /\ unlogged' = [unlogged EXCEPT ![d] = @ - 1]
    /\ excused' = [excused EXCEPT ![d] = @ + 1]
    /\ UNCHANGED <<fetchOn, memory, day, logged, calls, begun, sent, leaked>>

-------------------------------------------------------------------------------
(* People, the clock and the process.                                      *)

ThrowSwitch ==
    /\ fetchOn' = ~fetchOn
    /\ UNCHANGED <<memory, day, log, calls, spent, history>>

ResetBreaker ==
    /\ breaker # Closed
    /\ breaker' = Closed
    /\ UNCHANGED <<fetchOn, today, counts, seeding, tokens, day, log, calls, spent, history>>

(* openUntil passes; the failures are still counted.                       *)
CooldownEnds ==
    /\ breaker.open
    /\ breaker' = [breaker EXCEPT !.open = FALSE]
    /\ UNCHANGED <<fetchOn, today, counts, seeding, tokens, day, log, calls, spent, history>>

Refill ==
    /\ tokens < PerMinute
    /\ tokens' = tokens + 1
    /\ UNCHANGED <<fetchOn, breaker, today, counts, seeding, day, log, calls, spent, history>>

Midnight ==
    /\ day < NDays
    /\ day' = day + 1
    /\ UNCHANGED <<fetchOn, memory, log, calls, spent, history>>

(* Calls under way and rows not yet in the log are lost.                   *)
Unrecorded(d) == unlogged[d] + Cardinality({c \in Calls : calls[c].sentOn = d})

Restart ==
    /\ faults < MaxFaults /\ faults' = faults + 1
    /\ excused' = [d \in Days |-> excused[d] + Unrecorded(d)]
    /\ breaker' = Closed /\ today' = NoDay /\ seeding' = NoDay
    /\ counts' = [d \in Days |-> 0]
    /\ tokens' = PerMinute
    /\ unlogged' = [d \in Days |-> 0]
    /\ calls' = [c \in Calls |-> Idle]
    /\ leaked' = 0
    /\ UNCHANGED <<fetchOn, day, logged, begun, sent>>

Guards(c) ==
    \/ PassSwitch(c) \/ CheckCap(c) \/ TakeToken(c) \/ NoToken(c) \/ Wake(c)

Environment ==
    \/ ThrowSwitch \/ ResetBreaker \/ CooldownEnds \/ Refill \/ Midnight \/ Restart

Next ==
    \/ \E c \in Calls :
          \/ \E waits \in BOOLEAN : BeginCall(c, waits)
          \/ Guards(c)
          \/ \E outcome \in Outcome : Settle(c, outcome)
    \/ Seed \/ SeedFails
    \/ \E d \in Days : LogRow(d) \/ LogRowFails(d)
    \/ Environment

Spec == Init /\ [][Next]_vars

-------------------------------------------------------------------------------
(* Properties.                                                             *)

TypeOK ==
    /\ fetchOn \in BOOLEAN
    /\ breaker \in [failures : Nat, open : BOOLEAN]
    /\ day \in Days /\ today \in Days \cup {NoDay} /\ seeding \in Days \cup {NoDay}
    /\ counts \in [Days -> Nat] /\ tokens \in 0..PerMinute
    /\ logged \in [Days -> Nat] /\ unlogged \in [Days -> Nat]
    /\ calls \in [Calls -> Call]
    /\ begun \in 0..MaxCalls /\ faults \in 0..MaxFaults
    /\ sent \in [Days -> Nat] /\ excused \in [Days -> Nat] /\ leaked \in Nat

(* The daily cap, over restarts, midnights and calls that pass it together *)
(* (chowdeck.client.ts:117-133, 147-157): what is sent on a day exceeds it *)
(* by no more than the calls that checked it at once, but for those no     *)
(* count can show: rows lost with the process or by the database, and      *)
(* calls counted on the day on which they checked.                         *)
DailyCap == \A d \in Days : sent[d] <= Cap - 1 + Cardinality(Calls) + excused[d]

(* Only calls that were already past the breaker leave while it is open,   *)
(* each once and however long they slept, and never as many as there are:  *)
(* the one that opened it is back (chowdeck.client.ts:143, 168-184).       *)
BreakerHolds == breaker.open => leaked < Cardinality(Calls)
===============================================================================
