--------------------------- MODULE BackgroundProofs ---------------------------
(***************************************************************************)
(* What holds behind the screens whatever the bounds: of the gate its      *)
(* types, the daily cap and the breaker.                                   *)
(***************************************************************************)
EXTENDS Background, FiniteSetTheorems, SequenceTheorems, WellFoundedInduction,
    TLAPS

\* Calls that are past the breaker and have not left.
Past == {c \in Calls : calls[c].pc \in {"seeding", "checking", "bucket", "asleep"}}

\* Calls that are past the cap of a day and have not left; calls of today under way.
Waiting(d) == {c \in Calls : calls[c].pc \in {"bucket", "asleep"} /\ calls[c].account = d}
AwayToday == {c \in Calls : calls[c].pc = "sending" /\ calls[c].sentOn = day}

\* The call that opens the breaker is none of those past it.
NoneToSpare == breaker.open => leaked + Cardinality(Past) < Cardinality(Calls)

\* Counts are made in the order of the days, and nothing is ahead of the clock.
Calendar ==
    /\ today <= day
    /\ seeding # NoDay => today < seeding /\ seeding <= day
    /\ \A c \in Calls : calls[c].account <= today
    /\ \A c \in Calls : calls[c].pc \in {"checking", "bucket", "asleep"} => calls[c].account # NoDay
    /\ \A d \in Days : d > day => sent[d] = 0

\* What a count shows: a day somebody has an account on, and a day that is to be counted.
Shown ==
    /\ \A d \in Days : (today = d \/ \E c \in Calls : calls[c].account = d)
          => sent[d] <= counts[d] + excused[d]
    /\ today # day => sent[day] <= logged[day] + excused[day]
    /\ seeding # NoDay => sent[seeding] <= logged[seeding] + excused[seeding]

\* Every call of the day is in the log, on its way there, in flight or lost.
Recorded == sent[day] <= logged[day] + unlogged[day] + Cardinality(AwayToday) + excused[day]

\* The calls past the cap of a day are reckoned with.
Reckoned ==
    \A d \in Days : sent[d] + Cardinality(Waiting(d)) <= Cap - 1 + Cardinality(Calls) + excused[d]

-------------------------------------------------------------------------------
(* Counting calls.                                                         *)

LEMMA Counts ==
    ASSUME NEW S, S \subseteq Calls
    PROVE  IsFiniteSet(S) /\ Cardinality(S) \in Nat /\ Cardinality(S) <= Cardinality(Calls)
BY GateAssumption, FS_Subset, FS_CardinalityType DEF GateAssumption

LEMMA NoMore ==
    ASSUME NEW S, S \subseteq Calls, NEW T, T \subseteq S
    PROVE  Cardinality(T) <= Cardinality(S)
BY Counts, FS_Subset

LEMMA OneMore ==
    ASSUME NEW S, S \subseteq Calls, NEW T, NEW c \in Calls, T \subseteq S \cup {c}
    PROVE  Cardinality(T) <= Cardinality(S) + 1
<1>1. IsFiniteSet(S) /\ Cardinality(S) \in Nat
  BY Counts
<1>2. Cardinality(S \cup {c}) = IF c \in S THEN Cardinality(S) ELSE Cardinality(S) + 1
  BY <1>1, FS_AddElement, Zenon
<1>3. Cardinality(T) <= Cardinality(S \cup {c})
  BY NoMore
<1>4. Cardinality(T) \in Nat
  BY Counts
<1> QED
  BY <1>1, <1>2, <1>3, <1>4

LEMMA OneLess ==
    ASSUME NEW S, S \subseteq Calls, NEW T, NEW c \in S, T \subseteq S \ {c}
    PROVE  Cardinality(T) + 1 <= Cardinality(S)
<1>1. IsFiniteSet(S) /\ Cardinality(S) \in Nat /\ Cardinality(T) \in Nat
  BY Counts
<1>2. Cardinality(S \ {c}) = Cardinality(S) - 1
  BY <1>1, FS_RemoveElement
<1>3. Cardinality(T) <= Cardinality(S \ {c})
  BY NoMore
<1> QED
  BY <1>1, <1>2, <1>3

-------------------------------------------------------------------------------
(* Types.                                                                  *)

LEMMA TypedStep == TypeOK /\ [Next]_vars => TypeOK'
<1> SUFFICES ASSUME TypeOK, [Next]_vars PROVE TypeOK'
  OBVIOUS
<1>0. /\ PerMinute \in Nat /\ MaxCalls \in Nat /\ MaxFaults \in Nat
      /\ Idle \in Call /\ NDays \in Nat /\ NDays >= 1
  BY GateAssumption DEF GateAssumption, Idle, Call, Step
<1> USE <1>0 DEF TypeOK
<1>1. ASSUME NEW c \in Calls, NEW waits \in BOOLEAN, BeginCall(c, waits) PROVE TypeOK'
  <2>1. [Idle EXCEPT !.pc = "switch", !.waits = waits] \in Call
    BY DEF Call, Step, Idle, NoDay
  <2>2. calls' \in [Calls -> Call] /\ begun' \in 0..MaxCalls
    BY <1>1, <2>1 DEF BeginCall
  <2> QED
    BY <1>1, <2>2 DEF BeginCall, memory, log, history
<1>2. ASSUME NEW c \in Calls, PassSwitch(c) PROVE TypeOK'
  BY <1>2 DEF PassSwitch, Call, Step, Goes, Refused, log, spent, history
<1>3. ASSUME NEW c \in Calls, CheckCap(c) \/ NoToken(c) \/ Wake(c) PROVE TypeOK'
  BY <1>3 DEF Call, Step, CheckCap, NoToken, Wake, Goes, Refused, memory, log, spent, history
<1>4. ASSUME NEW c \in Calls, TakeToken(c) PROVE TypeOK'
  <2>1. tokens' \in 0..PerMinute /\ leaked' \in Nat
    BY <1>4 DEF TakeToken
  <2>2. counts' \in [Days -> Nat]
    <3>1. calls[c].account \in Days => counts' \in [Days -> Nat]
      BY <1>4 DEF TakeToken
    <3>2. calls[c].account \notin Days => counts' = counts
      BY <1>4 DEF TakeToken
    <3> QED
      BY <3>1, <3>2
  <2>a. sent' \in [Days -> Nat]
    BY <1>4 DEF TakeToken
  <2>b. excused' \in [Days -> Nat]
    BY <1>4 DEF TakeToken
  <2>3. calls' \in [Calls -> Call]
    BY <1>4 DEF TakeToken, Call, Step
  <2> QED
    BY <1>4, <2>1, <2>2, <2>a, <2>b, <2>3 DEF TakeToken, log, spent
<1>5. ASSUME NEW c \in Calls, NEW outcome \in Outcome, Settle(c, outcome) PROVE TypeOK'
  <2>1. breaker' \in [failures : Nat, open : BOOLEAN]
    BY <1>5 DEF Settle, AfterOutcome, AfterFailure, AfterSuccess, Outcome
  <2> QED
    BY <1>5, <2>1 DEF Settle, spent
<1>6. CASE Seed
  <2>1. calls' \in [Calls -> Call]
    BY <1>6 DEF Seed, Call, Step
  <2> QED
    BY <1>6, <2>1 DEF Seed, log, spent, history
<1>7. CASE SeedFails
  BY <1>7 DEF SeedFails, log, history
<1>8. ASSUME NEW d \in Days, LogRow(d) \/ LogRowFails(d) PROVE TypeOK'
  BY <1>8 DEF LogRow, LogRowFails, memory, spent, history
<1>9. CASE ThrowSwitch \/ ResetBreaker \/ CooldownEnds \/ Refill \/ Midnight
  <2>1. CASE ThrowSwitch
    BY <2>1 DEF ThrowSwitch, memory, log, spent, history
  <2>2. CASE ResetBreaker
    BY <2>2 DEF ResetBreaker, Closed, log, spent, history
  <2>5. CASE CooldownEnds
    BY <2>5 DEF CooldownEnds, log, spent, history
  <2>3. CASE Refill
    BY <2>3 DEF Refill, log, spent, history
  <2>4. CASE Midnight
    BY <2>4 DEF Midnight, Days, memory, log, spent, history
  <2> QED
    BY <1>9, <2>1, <2>2, <2>3, <2>4, <2>5
<1>10. CASE Restart
  <2>1. \A d \in Days : Unrecorded(d) \in Nat
    BY Counts DEF Unrecorded
  <2>2. excused' \in [Days -> Nat]
    BY <1>10, <2>1 DEF Restart
  <2> QED
    BY <1>10, <2>2 DEF Restart, Closed
<1>11. CASE UNCHANGED vars
  BY <1>11 DEF vars, memory, log, spent, history
<1> QED
  BY <1>1, <1>2, <1>3, <1>4, <1>5, <1>6, <1>7, <1>8, <1>9, <1>10, <1>11
     DEF Next, Guards, Environment

\* Every variable keeps its type.
THEOREM Typed == Spec => []TypeOK
<1>1. Init => TypeOK
  BY GateAssumption
     DEF Init, GateAssumption, TypeOK, Call, Step, Idle, NoDay, Days, Closed
<1> QED
  BY <1>1, TypedStep, PTL DEF Spec

-------------------------------------------------------------------------------
(* The breaker.                                                            *)

\* A call passes the breaker only while it is closed; the one that opens it is past it no more.
LEMMA NoneToSpareKept == TypeOK /\ TypeOK' /\ NoneToSpare /\ [Next]_vars => NoneToSpare'
<1> SUFFICES ASSUME TypeOK, TypeOK', NoneToSpare, [Next]_vars PROVE NoneToSpare'
  OBVIOUS
<1> DEFINE N == Cardinality(Calls)
<1>0. /\ Past \subseteq Calls /\ Past' \subseteq Calls
      /\ Cardinality(Past) \in Nat /\ Cardinality(Past') \in Nat /\ N \in Nat
      /\ leaked \in Nat /\ leaked' \in Nat
  BY Counts DEF Past, TypeOK
<1>a. ASSUME Past' \subseteq Past, leaked' = leaked, breaker'.open => breaker.open
      PROVE  NoneToSpare'
  <2>1. Cardinality(Past') <= Cardinality(Past)
    BY <1>0, <1>a, NoMore
  <2> QED
    BY <1>0, <1>a, <2>1 DEF NoneToSpare
<1>1. ASSUME NEW c \in Calls, NEW waits \in BOOLEAN, BeginCall(c, waits) PROVE NoneToSpare'
  BY <1>1, <1>a DEF BeginCall, memory, history, Past, TypeOK, Idle
<1>2. ASSUME NEW c \in Calls, PassSwitch(c) PROVE NoneToSpare'
  <2>1. CASE breaker.open
    BY <1>2, <2>1, <1>a DEF PassSwitch, Refused, history, Past, TypeOK, Idle
  <2>2. CASE ~breaker.open
    BY <1>2, <2>2 DEF PassSwitch, NoneToSpare
  <2> QED
    BY <2>1, <2>2
<1>3. ASSUME NEW c \in Calls, CheckCap(c) \/ NoToken(c) \/ Wake(c) PROVE NoneToSpare'
  BY <1>3, <1>a DEF CheckCap, NoToken, Wake, Goes, Refused, memory, history, Past, TypeOK, Idle
<1>4. ASSUME NEW c \in Calls, TakeToken(c) PROVE NoneToSpare'
  <2>1. c \in Past /\ Past' \subseteq Past \ {c} /\ breaker' = breaker
    BY <1>4 DEF TakeToken, Past, TypeOK
  <2>2. Cardinality(Past') + 1 <= Cardinality(Past)
    BY <1>0, <2>1, OneLess
  <2>3. leaked' <= leaked + 1
    BY <1>0, <1>4 DEF TakeToken
  <2> QED
    BY <1>0, <2>1, <2>2, <2>3 DEF NoneToSpare
<1>5. ASSUME NEW c \in Calls, NEW outcome \in Outcome, Settle(c, outcome) PROVE NoneToSpare'
  <2>1. Past' \subseteq Past /\ Past' \subseteq Calls \ {c}
    BY <1>5 DEF Settle, Past, TypeOK, Idle
  <2>2. CASE breaker'.open /\ ~breaker.open
    <3>1. Cardinality(Past') + 1 <= N
      BY <2>1, OneLess
    <3>2. leaked' = 0
      BY <1>5, <2>2 DEF Settle
    <3> QED
      BY <1>0, <3>1, <3>2 DEF NoneToSpare
  <2>3. CASE ~(breaker'.open /\ ~breaker.open)
    <3>1. leaked' = leaked
      BY <1>5, <2>3 DEF Settle
    <3>2. breaker'.open => breaker.open
      BY <2>3 DEF TypeOK
    <3> QED
      BY <1>a, <2>1, <3>1, <3>2
  <2> QED
    BY <2>2, <2>3
<1>6. CASE Seed
  BY <1>6, <1>a DEF Seed, history, Past, TypeOK
<1>7. CASE SeedFails
  BY <1>7, <1>a DEF SeedFails, history, Past, TypeOK, Idle
<1>8. ASSUME NEW d \in Days, LogRow(d) \/ LogRowFails(d) PROVE NoneToSpare'
  BY <1>8, <1>a DEF LogRow, LogRowFails, memory, history, Past
<1>9. CASE ThrowSwitch \/ Refill \/ Midnight
  BY <1>9, <1>a DEF ThrowSwitch, Refill, Midnight, memory, history, Past
<1>10. CASE ResetBreaker \/ CooldownEnds \/ Restart
  <2>1. ~breaker'.open
    BY <1>10 DEF ResetBreaker, CooldownEnds, Restart, Closed, TypeOK
  <2> QED
    BY <2>1 DEF NoneToSpare
<1>11. CASE UNCHANGED vars
  BY <1>11, <1>a DEF vars, memory, history, Past
<1> QED
  BY <1>1, <1>2, <1>3, <1>4, <1>5, <1>6, <1>7, <1>8, <1>9, <1>10, <1>11
     DEF Next, Guards, Environment

\* While the breaker is open fewer calls leave than may be in flight at once, and those had
\* passed it before it opened (chowdeck.client.ts:143, 168-184).
THEOREM BreakerAlwaysHolds == Spec => []BreakerHolds
<1>1. Init => NoneToSpare
  BY DEF Init, NoneToSpare, Closed
<1>2. TypeOK /\ NoneToSpare => BreakerHolds
  <2>1. Cardinality(Past) \in Nat /\ Cardinality(Calls) \in Nat
    BY Counts DEF Past
  <2> QED
    BY <2>1 DEF NoneToSpare, BreakerHolds, TypeOK
<1> QED
  BY <1>1, <1>2, NoneToSpareKept, Typed, PTL DEF Spec

-------------------------------------------------------------------------------
(* The daily cap.                                                          *)

\* The actions that leave the accounts, the days and the calls sent as they are.
Quiet ==
    /\ \A c \in Calls : calls'[c].pc \in {"checking", "bucket", "asleep"} => calls'[c].account # NoDay
    /\ \A c \in Calls : calls'[c].account = calls[c].account \/ calls'[c].account \in {NoDay, today}
    /\ UNCHANGED <<day, sent>>

LEMMA SeedAnswers ==
    TypeOK /\ Seed => \A k \in Calls :
        \/ calls'[k] = calls[k] /\ calls[k].pc # "seeding"
        \/ calls'[k].pc = "checking" /\ calls'[k].account = seeding
<1> SUFFICES ASSUME TypeOK, Seed, NEW k \in Calls
             PROVE  \/ calls'[k] = calls[k] /\ calls[k].pc # "seeding"
                    \/ calls'[k].pc = "checking" /\ calls'[k].account = seeding
  OBVIOUS
<1>1. calls'[k] = IF calls[k].pc = "seeding"
                    THEN [calls[k] EXCEPT !.pc = "checking", !.account = seeding] ELSE calls[k]
  BY DEF Seed
<1>2. calls[k] \in Call
  BY DEF TypeOK
<1> QED
  BY <1>1, <1>2 DEF Call

LEMMA CalendarKept == TypeOK /\ TypeOK' /\ Calendar /\ [Next]_vars => Calendar'
<1> SUFFICES ASSUME TypeOK, TypeOK', Calendar, [Next]_vars PROVE Calendar'
  OBVIOUS
<1>0. /\ \A c \in Calls : calls[c].account \in Int
      /\ today \in Int /\ day \in Int /\ seeding \in Int /\ NoDay = 0
      /\ today >= 0 /\ day >= 1
  BY DEF TypeOK, Call, Days, NoDay
<1>a. ASSUME Quiet, UNCHANGED <<today, seeding>> PROVE Calendar'
  BY <1>0, <1>a DEF Quiet, Calendar
<1>1. ASSUME NEW c \in Calls, NEW waits \in BOOLEAN, BeginCall(c, waits) PROVE Calendar'
  BY <1>1, <1>a DEF BeginCall, Quiet, Calendar, TypeOK, Idle, memory, history
<1>2. ASSUME NEW c \in Calls, PassSwitch(c) PROVE Calendar'
  <2>1. Quiet /\ today' = today
    BY <1>0, <1>2 DEF PassSwitch, Goes, Refused, Quiet, Calendar, TypeOK, Call, Idle, history
  <2>2. seeding' = seeding \/ (today # day /\ seeding' = day)
    BY <1>2 DEF PassSwitch
  <2> QED
    BY <1>0, <2>1, <2>2 DEF Quiet, Calendar
<1>3. ASSUME NEW c \in Calls, CheckCap(c) \/ NoToken(c) \/ Wake(c) PROVE Calendar'
  BY <1>0, <1>3, <1>a DEF CheckCap, NoToken, Wake, Goes, Refused, Quiet, Calendar, TypeOK, Call, Idle, memory, history
<1>4. ASSUME NEW c \in Calls, TakeToken(c) PROVE Calendar'
  <2>1. \A k \in Calls : calls'[k].account = calls[k].account
    BY <1>4 DEF TakeToken, TypeOK
  <2>2. \A k \in Calls : calls'[k].pc \in {"checking", "bucket", "asleep"} => calls'[k].pc = calls[k].pc
    BY <1>4 DEF TakeToken, TypeOK
  <2>3. \A d \in Days : d > day => sent'[d] = 0
    BY <1>0, <1>4 DEF TakeToken, TypeOK, Calendar
  <2> QED
    BY <1>4, <2>1, <2>2, <2>3 DEF TakeToken, Calendar
<1>5. ASSUME NEW c \in Calls, NEW outcome \in Outcome, Settle(c, outcome) PROVE Calendar'
  BY <1>5, <1>a DEF Settle, Quiet, Calendar, TypeOK, Idle
<1>6. CASE Seed
  <2>1. \A k \in Calls :
           \/ calls'[k] = calls[k] /\ calls[k].pc # "seeding"
           \/ calls'[k].account = seeding
    BY <1>6, SeedAnswers
  <2>2. today' = seeding /\ today < seeding /\ seeding <= day /\ seeding # NoDay
    BY <1>6 DEF Seed, Calendar
  <2>3. UNCHANGED <<day, sent>> /\ seeding' = NoDay
    BY <1>6 DEF Seed, history
  <2>4. \A k \in Calls : calls'[k].account <= today'
    BY <1>0, <2>1, <2>2 DEF Calendar
  <2>5. \A k \in Calls : calls'[k].pc \in {"checking", "bucket", "asleep"} => calls'[k].account # NoDay
    BY <2>1, <2>2 DEF Calendar
  <2> QED
    BY <1>0, <2>2, <2>3, <2>4, <2>5 DEF Calendar
<1>7. CASE SeedFails
  <2>1. Quiet /\ today' = today /\ seeding' = NoDay
    BY <1>7 DEF SeedFails, Quiet, Calendar, TypeOK, Idle, history
  <2> QED
    BY <1>0, <2>1 DEF Quiet, Calendar
<1>8. ASSUME NEW d \in Days, LogRow(d) \/ LogRowFails(d) PROVE Calendar'
  BY <1>8, <1>a DEF LogRow, LogRowFails, Quiet, Calendar, memory, history
<1>9. CASE ThrowSwitch \/ ResetBreaker \/ CooldownEnds \/ Refill
  BY <1>9, <1>a DEF ThrowSwitch, ResetBreaker, CooldownEnds, Refill, Quiet, Calendar, memory, history
<1>10. CASE Midnight
  BY <1>0, <1>10 DEF Midnight, Calendar, TypeOK, Days, memory, history
<1>11. CASE Restart
  BY <1>0, <1>11 DEF Restart, Calendar, Idle
<1>12. CASE UNCHANGED vars
  BY <1>12, <1>a DEF vars, Quiet, Calendar, memory, history
<1> QED
  BY <1>1, <1>2, <1>3, <1>4, <1>5, <1>6, <1>7, <1>8, <1>9, <1>10, <1>11, <1>12
     DEF Next, Guards, Environment

\* Nothing that was sent today is out of sight.
LEMMA RecordedKept == TypeOK /\ TypeOK' /\ Calendar /\ Recorded /\ [Next]_vars => Recorded'
<1> SUFFICES ASSUME TypeOK, TypeOK', Calendar, Recorded, [Next]_vars PROVE Recorded'
  OBVIOUS
<1>0. /\ day \in Days /\ day' \in Days
      /\ AwayToday \subseteq Calls /\ AwayToday' \subseteq Calls
      /\ Cardinality(AwayToday) \in Nat /\ Cardinality(AwayToday') \in Nat
      /\ \A d \in Days : /\ sent[d] \in Nat /\ logged[d] \in Nat /\ unlogged[d] \in Nat
                         /\ excused[d] \in Nat
                         /\ sent'[d] \in Nat /\ logged'[d] \in Nat /\ unlogged'[d] \in Nat
                         /\ excused'[d] \in Nat
  BY Counts DEF TypeOK, AwayToday
<1>a. ASSUME AwayToday \subseteq AwayToday', UNCHANGED <<day, sent, logged, unlogged, excused>>
      PROVE  Recorded'
  <2>1. Cardinality(AwayToday) <= Cardinality(AwayToday')
    BY <1>0, <1>a, NoMore
  <2> QED
    BY <1>0, <1>a, <2>1 DEF Recorded
<1>1. ASSUME NEW c \in Calls, NEW waits \in BOOLEAN, BeginCall(c, waits) PROVE Recorded'
  BY <1>1, <1>a DEF BeginCall, AwayToday, TypeOK, Idle, log, history
<1>2. ASSUME NEW c \in Calls, PassSwitch(c) PROVE Recorded'
  BY <1>2, <1>a DEF PassSwitch, Goes, Refused, AwayToday, TypeOK, log, history
<1>3. ASSUME NEW c \in Calls, CheckCap(c) \/ NoToken(c) \/ Wake(c) PROVE Recorded'
  BY <1>3, <1>a DEF CheckCap, NoToken, Wake, Goes, Refused, AwayToday, TypeOK, log, history
<1>4. ASSUME NEW c \in Calls, TakeToken(c) PROVE Recorded'
  <2>1. c \in AwayToday' /\ c \notin AwayToday /\ AwayToday \subseteq AwayToday'
    BY <1>4 DEF TakeToken, AwayToday, TypeOK, Call
  <2>2. Cardinality(AwayToday) + 1 <= Cardinality(AwayToday')
    BY <1>0, <2>1, OneLess
  <2>3. /\ day' = day /\ sent'[day] = sent[day] + 1 /\ excused'[day] >= excused[day]
        /\ logged' = logged /\ unlogged' = unlogged
    BY <1>0, <1>4 DEF TakeToken, TypeOK, log
  <2> QED
    BY <1>0, <2>2, <2>3 DEF Recorded
<1>5. ASSUME NEW c \in Calls, NEW outcome \in Outcome, Settle(c, outcome) PROVE Recorded'
  <2>1. AwayToday \subseteq AwayToday' \cup {c}
    BY <1>5 DEF Settle, AwayToday, TypeOK
  <2>2. Cardinality(AwayToday) <= Cardinality(AwayToday') + 1
    BY <1>0, <2>1, OneMore
  <2>3. /\ day' = day /\ sent' = sent /\ excused' = excused /\ logged' = logged
        /\ unlogged'[day] = unlogged[day] + 1
    BY <1>0, <1>5 DEF Settle, TypeOK
  <2> QED
    BY <1>0, <2>2, <2>3 DEF Recorded
<1>6. CASE Seed \/ SeedFails
  BY <1>6, <1>a DEF Seed, SeedFails, AwayToday, TypeOK, log, history
<1>7. ASSUME NEW d \in Days, LogRow(d) \/ LogRowFails(d) PROVE Recorded'
  <2>1. AwayToday' = AwayToday /\ day' = day /\ sent' = sent
    BY <1>7 DEF LogRow, LogRowFails, AwayToday, history
  <2>2. logged'[day] + unlogged'[day] + excused'[day] = logged[day] + unlogged[day] + excused[day]
    <3>1. CASE LogRow(d)
      BY <1>0, <3>1 DEF LogRow, TypeOK, history
    <3>2. CASE LogRowFails(d)
      BY <1>0, <3>2 DEF LogRowFails, TypeOK
    <3> QED
      BY <1>7, <3>1, <3>2
  <2> QED
    BY <1>0, <2>1, <2>2 DEF Recorded
<1>8. CASE ThrowSwitch \/ ResetBreaker \/ CooldownEnds \/ Refill
  BY <1>8, <1>a DEF ThrowSwitch, ResetBreaker, CooldownEnds, Refill, AwayToday, log, history
<1>9. CASE Midnight
  <2>1. sent'[day'] = 0
    BY <1>0, <1>9 DEF Midnight, Calendar, history, Days
  <2> QED
    BY <1>0, <2>1 DEF Recorded
<1>10. CASE Restart
  <2>1. Cardinality(AwayToday) <= Cardinality({c \in Calls : calls[c].sentOn = day})
    BY NoMore DEF AwayToday
  <2>2. Cardinality({c \in Calls : calls[c].sentOn = day}) \in Nat
    BY Counts
  <2>3. /\ day' = day /\ sent' = sent /\ logged' = logged /\ unlogged'[day] = 0
        /\ excused'[day] = excused[day] + Unrecorded(day)
    BY <1>0, <1>10 DEF Restart
  <2> QED
    BY <1>0, <2>1, <2>2, <2>3 DEF Recorded, Unrecorded
<1>11. CASE UNCHANGED vars
  BY <1>11, <1>a DEF vars, AwayToday, log, history
<1> QED
  BY <1>1, <1>2, <1>3, <1>4, <1>5, <1>6, <1>7, <1>8, <1>9, <1>10, <1>11
     DEF Next, Guards, Environment

\* The count of a day is never behind: it is made before anybody has an account on the day, and
\* whoever leaves on another day than that of the account is excused.
LEMMA ShownKept ==
    TypeOK /\ TypeOK' /\ Calendar /\ Recorded' /\ Shown /\ [Next]_vars => Shown'
<1> SUFFICES ASSUME TypeOK, TypeOK', Calendar, Recorded', Shown, [Next]_vars PROVE Shown'
  OBVIOUS
<1>0. /\ day \in Days /\ day' \in Days /\ Days \subseteq Int /\ NoDay \notin Days
      /\ today \in Days \cup {NoDay} /\ seeding \in Days \cup {NoDay}
      /\ \A c \in Calls : calls[c].account \in Days \cup {NoDay}
      /\ \A d \in Days : /\ sent[d] \in Nat /\ logged[d] \in Nat /\ counts[d] \in Nat
                         /\ excused[d] \in Nat
                         /\ sent'[d] \in Nat /\ logged'[d] \in Nat /\ counts'[d] \in Nat
                         /\ excused'[d] \in Nat
  <2>1. Days \subseteq Int /\ NoDay \notin Days
    BY GateAssumption DEF Days, NoDay
  <2>2. \A c \in Calls : calls[c].account \in Days \cup {NoDay}
    BY DEF TypeOK, Call
  <2> QED
    BY <2>1, <2>2 DEF TypeOK
<1>a. ASSUME \A k \in Calls : calls'[k].account \in {calls[k].account, NoDay, today},
             seeding' = seeding \/ seeding' = NoDay \/ (seeding' = day /\ today # day),
             \A d \in Days : logged'[d] >= logged[d] /\ excused'[d] >= excused[d],
             UNCHANGED <<day, today, sent, counts>>
      PROVE  Shown'
  <2>1. ASSUME NEW d \in Days, today' = d \/ \E c \in Calls : calls'[c].account = d
        PROVE  sent'[d] <= counts'[d] + excused'[d]
    <3>1. today = d \/ \E c \in Calls : calls[c].account = d
      BY <1>0, <1>a, <2>1
    <3>2. sent[d] <= counts[d] + excused[d]
      BY <3>1 DEF Shown
    <3> QED
      BY <1>0, <1>a, <3>2
  <2>2. today' # day' => sent'[day'] <= logged'[day'] + excused'[day']
    BY <1>0, <1>a DEF Shown
  <2>3. seeding' # NoDay => sent'[seeding'] <= logged'[seeding'] + excused'[seeding']
    BY <1>0, <1>a DEF Shown
  <2> QED
    BY <2>1, <2>2, <2>3 DEF Shown
<1>b. ASSUME UNCHANGED <<logged, excused>>
      PROVE  \A d \in Days : logged'[d] >= logged[d] /\ excused'[d] >= excused[d]
  BY <1>0, <1>b
<1>1. ASSUME NEW c \in Calls, NEW waits \in BOOLEAN, BeginCall(c, waits) PROVE Shown'
  BY <1>1, <1>a, <1>b DEF BeginCall, TypeOK, Idle, memory, log, history
<1>2. ASSUME NEW c \in Calls, PassSwitch(c) PROVE Shown'
  <2>1. \A k \in Calls : calls'[k].account \in {calls[k].account, NoDay, today}
    BY <1>2 DEF PassSwitch, Goes, Refused, TypeOK, Call, Idle
  <2>2. UNCHANGED <<day, today, sent, counts, logged, excused>>
    BY <1>2 DEF PassSwitch, log, history
  <2>3. seeding' = seeding \/ (seeding' = day /\ today # day)
    BY <1>2 DEF PassSwitch
  <2> QED
    BY <1>a, <1>b, <2>1, <2>2, <2>3
<1>3. ASSUME NEW c \in Calls, CheckCap(c) \/ NoToken(c) \/ Wake(c) PROVE Shown'
  <2>1. \A k \in Calls : calls'[k].account \in {calls[k].account, NoDay, today}
    BY <1>3 DEF CheckCap, NoToken, Wake, Goes, Refused, TypeOK, Call, Idle
  <2>2. UNCHANGED <<day, today, sent, counts, logged, excused, seeding>>
    BY <1>3 DEF CheckCap, NoToken, Wake, memory, log, history
  <2> QED
    BY <1>a, <1>b, <2>1, <2>2
<1>4. ASSUME NEW c \in Calls, TakeToken(c) PROVE Shown'
  <2> DEFINE a == calls[c].account
  <2>1. a \in Days /\ a <= today /\ today <= day
    BY <1>0, <1>4 DEF TakeToken, Calendar
  <2>2. \A k \in Calls : calls'[k].account = calls[k].account
    BY <1>4 DEF TakeToken, TypeOK, Call
  <2>3. UNCHANGED <<day, today, seeding, logged>>
    BY <1>4 DEF TakeToken, log
  <2>4. \A d \in Days : sent'[d] = IF d = day THEN sent[d] + 1 ELSE sent[d]
    BY <1>4 DEF TakeToken, TypeOK
  <2>5. \A d \in Days : counts'[d] = IF d = a THEN counts[d] + 1 ELSE counts[d]
    BY <1>4 DEF TakeToken, TypeOK
  <2>6. \A d \in Days : excused'[d] = IF d = day /\ a # day THEN excused[d] + 1 ELSE excused[d]
    BY <1>4 DEF TakeToken, TypeOK
  <2>7. ASSUME NEW d \in Days, today' = d \/ \E k \in Calls : calls'[k].account = d
        PROVE  sent'[d] <= counts'[d] + excused'[d]
    <3>1. sent[d] <= counts[d] + excused[d]
      BY <2>2, <2>3, <2>7 DEF Shown
    <3>2. sent'[d] = IF d = day THEN sent[d] + 1 ELSE sent[d]
      BY <2>4
    <3>3. counts'[d] = IF d = a THEN counts[d] + 1 ELSE counts[d]
      BY <2>5
    <3>4. excused'[d] = IF d = day /\ a # day THEN excused[d] + 1 ELSE excused[d]
      BY <2>6
    <3> HIDE DEF a
    <3> QED
      BY <1>0, <3>1, <3>2, <3>3, <3>4
  <2> HIDE DEF a
  <2>8. today' # day' => sent'[day'] <= logged'[day'] + excused'[day']
    BY <1>0, <2>1, <2>3, <2>4, <2>6 DEF Shown
  <2>9. seeding' # NoDay => sent'[seeding'] <= logged'[seeding'] + excused'[seeding']
    <3>1. SUFFICES ASSUME seeding # NoDay
                   PROVE  sent'[seeding] <= logged[seeding] + excused'[seeding]
      BY <2>3
    <3>2. seeding \in Days /\ today < seeding
      BY <1>0, <3>1 DEF Calendar
    <3>3. sent[seeding] <= logged[seeding] + excused[seeding]
      BY <3>1 DEF Shown
    <3>4. sent'[seeding] = IF seeding = day THEN sent[seeding] + 1 ELSE sent[seeding]
      BY <2>4, <3>2
    <3>5. excused'[seeding] = IF seeding = day THEN excused[seeding] + 1 ELSE excused[seeding]
      <4>1. seeding \in Nat /\ today \in Nat /\ a \in Nat
        BY <1>0, <2>1, <3>2 DEF TypeOK, Days
      <4>2. a # seeding
        BY <2>1, <3>2, <4>1
      <4> QED
        BY <2>6, <3>2, <4>2
    <3>6. sent[seeding] \in Nat /\ logged[seeding] \in Nat /\ excused[seeding] \in Nat
      BY <1>0, <3>2 DEF TypeOK
    <3> QED
      BY <3>3, <3>4, <3>5, <3>6
  <2> QED
    BY <2>7, <2>8, <2>9 DEF Shown
<1>5. ASSUME NEW c \in Calls, NEW outcome \in Outcome, Settle(c, outcome) PROVE Shown'
  BY <1>5, <1>a, <1>b DEF Settle, TypeOK, Idle
<1>6. CASE Seed
  <2>1. \A k \in Calls : calls'[k].account \in {calls[k].account, seeding}
    BY <1>6, SeedAnswers
  <2>2. today' = seeding /\ today < seeding /\ seeding <= day /\ seeding \in Days /\ seeding' = NoDay
    BY <1>0, <1>6 DEF Seed, Calendar
  <2>3. UNCHANGED <<day, sent, logged, excused>>
    BY <1>6 DEF Seed, log, history
  <2>4. \A d \in Days : counts'[d] = IF d = seeding THEN logged[d] ELSE counts[d]
    BY <1>6 DEF Seed, TypeOK
  <2>5. ASSUME NEW d \in Days, today' = d \/ \E k \in Calls : calls'[k].account = d
        PROVE  sent'[d] <= counts'[d] + excused'[d]
    <3>1. CASE d = seeding
      BY <1>0, <2>2, <2>3, <2>4, <3>1 DEF Shown
    <3>2. CASE d # seeding
      <4>1. \E k \in Calls : calls[k].account = d
        BY <2>1, <2>2, <2>5, <3>2
      <4> QED
        BY <1>0, <2>3, <2>4, <3>2, <4>1 DEF Shown
    <3> QED
      BY <3>1, <3>2
  <2>6. today # day
    BY <1>0, <2>2
  <2> QED
    BY <1>0, <2>2, <2>3, <2>5, <2>6 DEF Shown
<1>7. CASE SeedFails
  <2>1. \A k \in Calls : calls'[k].account \in {calls[k].account, NoDay, today}
    BY <1>7 DEF SeedFails, TypeOK, Idle
  <2> QED
    BY <1>7, <1>a, <1>b, <2>1 DEF SeedFails, log, history
<1>8. ASSUME NEW d \in Days, LogRow(d) \/ LogRowFails(d) PROVE Shown'
  <2>1. \A e \in Days : logged'[e] >= logged[e] /\ excused'[e] >= excused[e]
    BY <1>0, <1>8 DEF LogRow, LogRowFails, TypeOK, history
  <2>2. UNCHANGED <<day, today, sent, counts, seeding, calls>>
    BY <1>8 DEF LogRow, LogRowFails, memory, history
  <2> QED
    BY <1>a, <2>1, <2>2
<1>9. CASE ThrowSwitch \/ ResetBreaker \/ CooldownEnds \/ Refill
  <2>1. UNCHANGED <<day, today, sent, counts, logged, excused, seeding, calls>>
    BY <1>9 DEF ThrowSwitch, ResetBreaker, CooldownEnds, Refill, memory, log, history
  <2> QED
    BY <1>a, <1>b, <2>1
<1>10. CASE Midnight
  <2>1. UNCHANGED <<today, sent, counts, logged, excused, seeding, calls>> /\ sent'[day'] = 0
    BY <1>0, <1>10 DEF Midnight, Calendar, memory, log, history
  <2> QED
    BY <1>0, <2>1 DEF Shown
<1>11. CASE Restart
  <2>1. AwayToday' = {} /\ \A k \in Calls : calls'[k].account = NoDay
    BY <1>11 DEF Restart, AwayToday, Idle
  <2>2. Cardinality(AwayToday') = 0
    BY <2>1, FS_EmptySet
  <2>3. today' = NoDay /\ seeding' = NoDay /\ unlogged'[day'] = 0
    BY <1>0, <1>11 DEF Restart
  <2> QED
    BY <1>0, <2>1, <2>2, <2>3 DEF Shown, Recorded
<1>12. CASE UNCHANGED vars
  BY <1>12, <1>a, <1>b DEF vars, memory, log, history
<1> QED
  BY <1>1, <1>2, <1>3, <1>4, <1>5, <1>6, <1>7, <1>8, <1>9, <1>10, <1>11, <1>12
     DEF Next, Guards, Environment

\* Whoever passes the cap finds room for everyone who may be past it.
LEMMA ReckonedKept == TypeOK /\ TypeOK' /\ Calendar /\ Shown /\ Reckoned /\ [Next]_vars => Reckoned'
<1> SUFFICES ASSUME TypeOK, TypeOK', Calendar, Shown, Reckoned, [Next]_vars, NEW d \in Days
             PROVE  sent'[d] + Cardinality(Waiting(d)') <= Cap - 1 + Cardinality(Calls) + excused'[d]
  BY DEF Reckoned
<1> DEFINE Kept == sent'[d] + Cardinality(Waiting(d)') <= Cap - 1 + Cardinality(Calls) + excused'[d]
<1>0. /\ Waiting(d) \subseteq Calls /\ Waiting(d)' \subseteq Calls /\ Cap \in Nat
      /\ Cardinality(Waiting(d)) \in Nat /\ Cardinality(Waiting(d)') \in Nat
      /\ Cardinality(Calls) \in Nat /\ Cardinality(Waiting(d)') <= Cardinality(Calls)
      /\ sent[d] \in Nat /\ sent'[d] \in Nat /\ excused[d] \in Nat /\ excused'[d] \in Nat
      /\ counts[d] \in Nat
  BY Counts, GateAssumption DEF TypeOK, Waiting, GateAssumption
<1>z. sent[d] + Cardinality(Waiting(d)) <= Cap - 1 + Cardinality(Calls) + excused[d]
  BY DEF Reckoned
<1>a. ASSUME Waiting(d)' \subseteq Waiting(d), sent' = sent, excused'[d] >= excused[d]
      PROVE  Kept
  <2>1. Cardinality(Waiting(d)') <= Cardinality(Waiting(d))
    BY <1>0, <1>a, NoMore
  <2> QED
    BY <1>0, <1>z, <1>a, <2>1
<1>1. ASSUME NEW c \in Calls, NEW waits \in BOOLEAN, BeginCall(c, waits) PROVE Kept
  BY <1>1, <1>a, <1>0 DEF BeginCall, Waiting, TypeOK, Idle, history
<1>2. ASSUME NEW c \in Calls, PassSwitch(c) PROVE Kept
  <2>1. Waiting(d)' \subseteq Waiting(d)
    BY <1>2 DEF PassSwitch, Goes, Refused, Waiting, TypeOK, Call, Idle
  <2>2. sent' = sent /\ excused' = excused
    BY <1>2 DEF PassSwitch, history
  <2> QED
    BY <1>0, <1>a, <2>1, <2>2
<1>3. ASSUME NEW c \in Calls, CheckCap(c) PROVE Kept
  <2>1. sent' = sent /\ excused' = excused
    BY <1>3 DEF CheckCap, history
  <2>2. CASE calls[c].account = d /\ counts[d] < Cap
    <3>1. sent[d] <= counts[d] + excused[d]
      BY <2>2 DEF Shown
    <3> QED
      BY <1>0, <2>1, <2>2, <3>1
  <2>3. CASE ~(calls[c].account = d /\ counts[d] < Cap)
    <3>1. Waiting(d)' \subseteq Waiting(d)
      BY <1>0, <1>3, <2>3 DEF CheckCap, Goes, Refused, Waiting, TypeOK, Call, Idle
    <3> QED
      BY <1>0, <1>a, <2>1, <3>1
  <2> QED
    BY <2>2, <2>3
<1>4. ASSUME NEW c \in Calls, NoToken(c) \/ Wake(c) PROVE Kept
  <2>1. Waiting(d)' \subseteq Waiting(d)
    BY <1>4 DEF NoToken, Wake, Goes, Refused, Waiting, TypeOK, Call, Idle
  <2>2. sent' = sent /\ excused' = excused
    BY <1>4 DEF NoToken, Wake, history
  <2> QED
    BY <1>0, <1>a, <2>1, <2>2
<1>5. ASSUME NEW c \in Calls, TakeToken(c) PROVE Kept
  <2>1. Waiting(d)' \subseteq Waiting(d) \ {c}
    BY <1>5 DEF TakeToken, Waiting, TypeOK
  <2>2. sent'[d] = IF d = day THEN sent[d] + 1 ELSE sent[d]
    BY <1>5 DEF TakeToken, TypeOK
  <2>3. excused'[d] = IF d = day /\ calls[c].account # day THEN excused[d] + 1 ELSE excused[d]
    BY <1>5 DEF TakeToken, TypeOK
  <2>4. CASE calls[c].account = d
    <3>1. c \in Waiting(d)
      BY <1>5, <2>4 DEF TakeToken, Waiting
    <3>2. Cardinality(Waiting(d)') + 1 <= Cardinality(Waiting(d))
      BY <1>0, <2>1, <3>1, OneLess
    <3> QED
      BY <1>0, <1>z, <2>2, <2>3, <3>2
  <2>5. CASE calls[c].account # d
    <3>1. Cardinality(Waiting(d)') <= Cardinality(Waiting(d))
      BY <1>0, <2>1, NoMore
    <3> QED
      BY <1>0, <1>z, <2>2, <2>3, <2>5, <3>1
  <2> QED
    BY <2>4, <2>5
<1>6. ASSUME NEW c \in Calls, NEW outcome \in Outcome, Settle(c, outcome) PROVE Kept
  BY <1>6, <1>a, <1>0 DEF Settle, Waiting, TypeOK, Idle
<1>7. CASE Seed \/ SeedFails
  <2>1. Waiting(d)' \subseteq Waiting(d)
    <3>1. CASE Seed
      BY <3>1, SeedAnswers DEF Waiting
    <3>2. CASE SeedFails
      BY <3>2 DEF SeedFails, Waiting, Idle
    <3> QED
      BY <1>7, <3>1, <3>2
  <2>2. sent' = sent /\ excused' = excused
    BY <1>7 DEF Seed, SeedFails, history
  <2> QED
    BY <1>0, <1>a, <2>1, <2>2
<1>8. ASSUME NEW e \in Days, LogRow(e) \/ LogRowFails(e) PROVE Kept
  BY <1>8, <1>a, <1>0 DEF LogRow, LogRowFails, Waiting, TypeOK, history
<1>9. CASE Environment
  <2>1. CASE Restart
    <3>1. Unrecorded(d) \in Nat
      BY Counts DEF Unrecorded, TypeOK
    <3> QED
      BY <1>0, <1>a, <2>1, <3>1 DEF Restart, Waiting, Idle
  <2>2. CASE ~Restart
    BY <1>9, <1>a, <1>0, <2>2 DEF Environment, ThrowSwitch, ResetBreaker, CooldownEnds, Refill,
       Midnight, Waiting, history
  <2> QED
    BY <2>1, <2>2
<1>10. CASE UNCHANGED vars
  BY <1>10, <1>a, <1>0 DEF vars, Waiting, history
<1> QED
  BY <1>1, <1>2, <1>3, <1>4, <1>5, <1>6, <1>7, <1>8, <1>9, <1>10 DEF Next, Guards

\* A day sees no more calls than the cap, the calls that may pass it together and those that no
\* count could show (chowdeck.client.ts:107-125, 141-156).
THEOREM DailyCapHolds == Spec => []DailyCap
<1> DEFINE Inv == Calendar /\ Recorded /\ Shown /\ Reckoned
<1>1. ASSUME Init PROVE Inv
  <2>1. \A d \in Days : Waiting(d) = {}
    BY <1>1 DEF Init, Waiting, Idle
  <2>2. \A d \in Days : Cardinality(Waiting(d)) = 0
    BY <2>1, FS_EmptySet
  <2>3. Cardinality(AwayToday) \in Nat /\ Cardinality(Calls) \in Nat
    BY Counts DEF AwayToday
  <2> QED
    BY <1>1, <2>2, <2>3, GateAssumption
       DEF Init, Calendar, Recorded, Shown, Reckoned, Idle, Days, NoDay, GateAssumption
<1>2. TypeOK /\ TypeOK' /\ Inv /\ [Next]_vars => Inv'
  BY CalendarKept, RecordedKept, ShownKept, ReckonedKept
<1>3. TypeOK /\ Inv => DailyCap
  <2> SUFFICES ASSUME TypeOK, Inv, NEW d \in Days
               PROVE  sent[d] <= Cap - 1 + Cardinality(Calls) + excused[d]
    BY DEF DailyCap
  <2>1. Cardinality(Waiting(d)) \in Nat /\ Cardinality(Calls) \in Nat
    BY Counts DEF Waiting
  <2> QED
    BY <2>1, GateAssumption DEF Reckoned, TypeOK, GateAssumption
<1> QED
  BY <1>1, <1>2, <1>3, Typed, PTL DEF Spec

-------------------------------------------------------------------------------
(* The end of a job is heard.                                              *)

\* A stream that listens, or will listen because it read a job under way, sits on an ended job only
\* while an end is still to be announced, unless it is one of the two exceptions.
Attentive(s) == streams[s].pc = "open" \/ (streams[s].pc = "reading" /\ streams[s].seen \notin J!Ended)
StreamTypes == J!TypeOK /\ working + unsaid <= claims
StreamIInv ==
    /\ StreamTypes
    /\ \A s \in Streams : Attentive(s) /\ status \in J!Ended /\ unsaid = 0 => s \in late \cup hushed

LEMMA StreamTyped == StreamTypes /\ [J!Next]_(J!vars) => StreamTypes'
<1> SUFFICES ASSUME StreamTypes, [J!Next]_(J!vars) PROVE StreamTypes'
  OBVIOUS
<1> USE StreamAssumption DEF J!StreamAssumption, J!TypeOK, StreamTypes, J!Status, J!Ended
<1>1. CASE J!Claim \/ J!PutBack \/ J!Reclaim \/ \E outcome \in J!Ended : J!Finish(outcome)
  <2>1. CASE \E outcome \in J!Ended : J!Finish(outcome)
    BY <2>1 DEF J!Finish, J!bounds
  <2>2. CASE J!Claim \/ J!PutBack \/ J!Reclaim
    BY <2>2 DEF J!Claim, J!PutBack, J!Reclaim, J!bounds
  <2> QED
    BY <1>1, <2>1, <2>2
<1>2. CASE J!Announce
  BY <1>2 DEF J!Announce, J!At, J!bounds
<1>3. CASE (\E op \in {"cancel", "retry"} : J!BeginAsk(op)) \/ J!EndAsk
  <2>1. ASSUME NEW op \in {"cancel", "retry"}, J!BeginAsk(op) PROVE StreamTypes'
    BY <2>1 DEF J!BeginAsk
  <2>2. CASE J!EndAsk
    BY <2>2 DEF J!EndAsk, J!At, J!NoAsk, J!bounds
  <2> QED
    BY <1>3, <2>1, <2>2
<1>4. ASSUME NEW s \in Streams, J!Open(s) \/ J!Listen(s) \/ J!TellDone(s) \/ J!ReadAgainFails(s)
                                \/ J!TimesOut(s) \/ J!ClientLeaves(s)
      PROVE  StreamTypes'
  BY <1>4 DEF J!Open, J!Listen, J!TellDone, J!ReadAgainFails, J!TimesOut, J!ClientLeaves, J!Moves,
              J!job, J!bounds
<1>5. CASE J!Restart
  BY <1>5 DEF J!Restart, J!NoAsk
<1>6. CASE UNCHANGED J!vars
  BY <1>6 DEF J!vars, J!job, J!bounds
<1> QED
  BY <1>1, <1>2, <1>3, <1>4, <1>5, <1>6 DEF J!Next

LEMMA StreamInit == J!Init => StreamIInv
BY StreamAssumption DEF J!Init, StreamIInv, StreamTypes, J!TypeOK, J!StreamAssumption, J!Status, J!Ended, J!NoAsk

LEMMA StreamKept == StreamIInv /\ [J!Next]_(J!vars) => StreamIInv'
<1> SUFFICES ASSUME StreamIInv, [J!Next]_(J!vars),
                    NEW s \in Streams, Attentive(s)', (status \in J!Ended)', unsaid' = 0,
                    s \notin late', s \notin hushed'
             PROVE  FALSE
  BY StreamTyped DEF StreamIInv
<1>0. StreamTypes /\ (Attentive(s) /\ status \in J!Ended /\ unsaid = 0 => s \in late \cup hushed)
  BY DEF StreamIInv
<1> USE DEF Attentive, StreamTypes
<1>1. CASE J!Claim \/ J!PutBack \/ J!Reclaim
  BY <1>1 DEF J!Claim, J!PutBack, J!Reclaim, J!Ended
<1>2. ASSUME NEW outcome, J!Finish(outcome) PROVE FALSE
  BY <1>0, <1>2 DEF J!Finish, J!TypeOK
<1>3. CASE J!Announce
  <2>1. streams[s].pc # "reading"
    BY <1>3 DEF J!Announce, J!At
  <2>2. streams'[s].pc # "open" /\ (streams'[s].pc = "reading" => streams[s].pc = "reading")
    BY <1>0, <1>3 DEF J!Announce, J!At, J!TypeOK
  <2> QED
    BY <2>1, <2>2
<1>4. ASSUME NEW op, J!BeginAsk(op) PROVE FALSE
  BY <1>0, <1>4 DEF J!BeginAsk
<1>5. CASE J!EndAsk
  BY <1>0, <1>5 DEF J!EndAsk, J!At, J!Ended
<1>6. ASSUME NEW t \in Streams, J!Open(t) PROVE FALSE
  BY <1>0, <1>6 DEF J!Open, J!job, J!TypeOK
<1>7. ASSUME NEW t \in Streams, J!Listen(t) PROVE FALSE
  BY <1>0, <1>7 DEF J!Listen, J!Moves, J!job, J!TypeOK
<1>8. ASSUME NEW t \in Streams,
             J!TellDone(t) \/ J!ReadAgainFails(t) \/ J!TimesOut(t) \/ J!ClientLeaves(t)
      PROVE  FALSE
  BY <1>0, <1>8 DEF J!TellDone, J!ReadAgainFails, J!TimesOut, J!ClientLeaves, J!Moves, J!job, J!TypeOK
<1>9. CASE J!Restart
  BY <1>0, <1>9 DEF J!Restart, J!TypeOK
<1>10. CASE UNCHANGED J!vars
  BY <1>0, <1>10 DEF J!vars, J!job
<1> QED
  BY <1>1, <1>2, <1>3, <1>4, <1>5, <1>6, <1>7, <1>8, <1>9, <1>10 DEF J!Next

LEMMA JobIsHeard == J!Spec => []J!NobodyWaitsInVain
<1>1. StreamIInv => J!NobodyWaitsInVain
  BY DEF StreamIInv, Attentive, J!NobodyWaitsInVain, J!WaitsInVain
<1> QED
  BY <1>1, StreamInit, StreamKept, PTL DEF J!Spec

-------------------------------------------------------------------------------
(* One import by itself.                                                   *)

AutoRecent == {i \in P!Imports : imports[i].auto /\ imports[i].recent}
PastFlag == {s \in Searches : searches[s] \in {"count", "recent", "enqueue"}}

\* Alone past the flag, a search that is about to queue an import has seen that none is recent.
PlacesIInv ==
    /\ P!TypeOK
    /\ ~raced => /\ \A s, t \in PastFlag : s = t
                 /\ \A s \in Searches : searches[s] = "enqueue" => AutoRecent = {}
                 /\ \A i, k \in AutoRecent : i = k

LEMMA AtMostOne ==
    ASSUME NEW S, \A x, y \in S : x = y
    PROVE  Cardinality(S) <= 1 /\ P!Cardinality(S) <= 1 /\ R!Cardinality(S) <= 1
<1>0. P!Cardinality(S) = Cardinality(S) /\ R!Cardinality(S) = Cardinality(S)
  BY DEF Cardinality, P!Cardinality, R!Cardinality
<1>1. CASE S = {}
  BY <1>0, <1>1, FS_EmptySet
<1>2. CASE S # {}
  <2>1. PICK x : S = {x}
    BY <1>2
  <2>2. Cardinality(S) = 1
    BY <2>1, FS_Singleton, Zenon
  <2> QED
    BY <1>0, <2>2
<1> QED
  BY <1>0, <1>1, <1>2

\* What an import turns into is an import, and it stays as it was made and as recent as it was.
LEMMA ImportTypes ==
    /\ P!NoImport \in P!Import /\ ~P!NoImport.auto /\ ~P!NoImport.recent
    /\ \A auto \in BOOLEAN : [P!NoImport EXCEPT !.pc = "queued", !.auto = auto, !.recent = TRUE] \in P!Import
    /\ \A job \in P!Import, pc \in {"ask", "create", "ended"} : [job EXCEPT !.pc = pc] \in P!Import
    /\ \A job \in P!Import, p \in Places : [job EXCEPT !.pc = "look", !.top = p] \in P!Import
    /\ \A job \in P!Import : [job EXCEPT !.pc = "queued", !.at = 1, !.top = P!NoPlace] \in P!Import
    /\ \A job \in P!Import : [job EXCEPT !.recent = FALSE] \in P!Import
    /\ \A job \in P!Import : P!Advance(job) \in P!Import
<1>1. NSeeds \in Nat /\ 1 \in 1..NSeeds + 1
  BY PlacesAssumption DEF P!PlacesAssumption
<1>2. P!NoImport \in P!Import /\ ~P!NoImport.auto /\ ~P!NoImport.recent
  BY <1>1 DEF P!NoImport, P!Import
<1>3. ASSUME NEW auto \in BOOLEAN
      PROVE  [P!NoImport EXCEPT !.pc = "queued", !.auto = auto, !.recent = TRUE] \in P!Import
  BY <1>2 DEF P!Import
<1>4. ASSUME NEW job \in P!Import
      PROVE  /\ \A pc \in {"ask", "create", "ended"} : [job EXCEPT !.pc = pc] \in P!Import
             /\ \A p \in Places : [job EXCEPT !.pc = "look", !.top = p] \in P!Import
             /\ [job EXCEPT !.recent = FALSE] \in P!Import
  BY DEF P!Import
<1>5. ASSUME NEW job \in P!Import
      PROVE  [job EXCEPT !.pc = "queued", !.at = 1, !.top = P!NoPlace] \in P!Import
  BY <1>1 DEF P!Import
<1>6. ASSUME NEW job \in P!Import PROVE P!Advance(job) \in P!Import
  <2>1. CASE job.at < NSeeds
    <3>1. PICK at \in 1..NSeeds + 1 : at = job.at + 1
      BY <1>1, <2>1 DEF P!Import
    <3>2. P!Advance(job) = [job EXCEPT !.pc = "ask", !.at = at, !.top = P!NoPlace]
      BY <2>1, <3>1 DEF P!Advance
    <3>3. [job EXCEPT !.pc = "ask", !.at = at, !.top = P!NoPlace] \in P!Import
      BY DEF P!Import
    <3> QED
      BY <3>2, <3>3
  <2>2. CASE ~(job.at < NSeeds)
    <3>1. [job EXCEPT !.pc = "ended", !.top = P!NoPlace] \in P!Import
      BY DEF P!Import
    <3> QED
      BY <2>2, <3>1 DEF P!Advance
  <2> QED
    BY <2>1, <2>2
<1> QED
  BY <1>2, <1>3, <1>4, <1>5, <1>6

LEMMA PlacesTyped == P!TypeOK /\ [P!Next]_(P!vars) => P!TypeOK'
<1> SUFFICES ASSUME P!TypeOK, [P!Next]_(P!vars) PROVE P!TypeOK'
  OBVIOUS
<1>0. /\ NSeeds \in Nat /\ MaxImports \in Nat /\ MaxEdits \in Nat /\ MaxPlaceFaults \in Nat
  BY PlacesAssumption DEF P!PlacesAssumption
<1> USE <1>0 DEF P!TypeOK
<1>1. ASSUME NEW auto \in BOOLEAN, P!Enqueue(auto)
      PROVE  imports' \in [P!Imports -> P!Import] /\ queued' \in 0..MaxImports
  <2>1. PICK job : job = [P!NoImport EXCEPT !.pc = "queued", !.auto = auto, !.recent = TRUE]
    OBVIOUS
  <2>2. job \in P!Import /\ imports' = [imports EXCEPT ![queued + 1] = job]
    BY <1>1, <2>1, ImportTypes DEF P!Enqueue
  <2>3. queued' \in 0..MaxImports
    BY <1>1 DEF P!Enqueue
  <2> QED
    BY <2>2, <2>3
<1>2. ASSUME NEW s \in Searches, P!Checks(s) PROVE P!TypeOK'
  <2>1. CASE P!QueueDefault(s)
    BY <1>1, <2>1 DEF P!QueueDefault, P!SearchTo, P!spent
  <2>2. CASE P!BeginSearch(s) \/ P!CheckFlag(s) \/ P!CountPlaces(s) \/ P!LookForRecent(s)
    BY <2>2 DEF P!BeginSearch, P!CheckFlag, P!CountPlaces, P!LookForRecent, P!SearchTo, P!spent
  <2>3. CASE P!SearchThrows(s)
    <3>1. placeFaults' \in 0..MaxPlaceFaults
      BY <2>3 DEF P!SearchThrows
    <3>2. searches' \in [Searches -> {"idle", "flag", "count", "recent", "enqueue"}]
      BY <2>3 DEF P!SearchThrows, P!SearchTo
    <3> QED
      BY <2>3, <3>1, <3>2 DEF P!SearchThrows
  <2> QED
    BY <1>2, <2>1, <2>2, <2>3 DEF P!Checks
<1>3. ASSUME NEW i \in P!Imports, P!Runs(i) PROVE P!TypeOK'
  <2>1. imports[i] \in P!Import
    OBVIOUS
  <2>2. \A job \in P!Import : P!ImportTo(i, job) => imports' \in [P!Imports -> P!Import]
    BY DEF P!ImportTo
  <2>3. \E job \in P!Import : P!ImportTo(i, job)
    <3>1. CASE P!StartImport(i)
      <4>1. PICK pc \in {"ask", "ended"} : P!ImportTo(i, [imports[i] EXCEPT !.pc = pc])
        BY <3>1 DEF P!StartImport
      <4> QED
        BY <2>1, <4>1, ImportTypes
    <3>2. CASE P!ImportTo(i, [imports[i] EXCEPT !.pc = "ended"]) \/ P!ImportTo(i, P!Advance(imports[i]))
      BY <2>1, <3>2, ImportTypes
    <3>3. CASE \E p \in Places : P!ImportTo(i, [imports[i] EXCEPT !.pc = "look", !.top = p])
      BY <2>1, <3>3, ImportTypes
    <3>4. CASE P!ImportTo(i, [imports[i] EXCEPT !.pc = "create"])
      BY <2>1, <3>4, ImportTypes
    <3> QED
      BY <1>3, <3>1, <3>2, <3>3, <3>4 DEF P!Runs, P!AskSeed, P!LookForDuplicate, P!CreatePlace
  <2>4. imports' \in [P!Imports -> P!Import]
    BY <2>2, <2>3
  <2>5. places' \in [Places -> P!Place]
    <3>1. PICK new : new = [saved |-> TRUE, active |-> TRUE, byHand |-> FALSE]
      OBVIOUS
    <3>2. new \in P!Place
      BY <3>1 DEF P!Place
    <3>3. \A p : places' = [places EXCEPT ![p] = new] => places' \in [Places -> P!Place]
      BY <3>2
    <3> QED
      BY <1>3, <3>1, <3>3 DEF P!Runs, P!StartImport, P!AskSeed, P!LookForDuplicate, P!CreatePlace
  <2>6. UNCHANGED <<switch, settled, searches, queued, edits, placeFaults, raced>>
    BY <1>3 DEF P!Runs, P!StartImport, P!AskSeed, P!LookForDuplicate, P!CreatePlace, P!spent
  <2> QED
    BY <2>4, <2>5, <2>6
<1>4. CASE P!People
  <2>1. ASSUME NEW change \in [Places -> P!Place], P!Edit(change) PROVE P!TypeOK'
    BY <2>1 DEF P!Edit
  <2>2. ASSUME NEW p \in Places, P!SavePlace(p) PROVE P!TypeOK'
    <3>1. [places EXCEPT ![p] = IF places[p].saved THEN @
              ELSE [saved |-> TRUE, active |-> TRUE, byHand |-> TRUE]] \in [Places -> P!Place]
      BY DEF P!Place
    <3> QED
      BY <2>1, <2>2, <3>1 DEF P!SavePlace
  <2>3. ASSUME NEW p \in Places, P!UpdatePlace(p) PROVE P!TypeOK'
    <3>1. [places EXCEPT ![p].active = ~@] \in [Places -> P!Place]
      BY DEF P!Place
    <3> QED
      BY <2>1, <2>3, <3>1 DEF P!UpdatePlace
  <2>4. ASSUME NEW gone \in SUBSET Places, P!DeletePlaces(gone) PROVE P!TypeOK'
    <3>1. [p \in Places |-> IF p \in gone THEN P!Unsaved ELSE places[p]] \in [Places -> P!Place]
      BY DEF P!Place, P!Unsaved
    <3> QED
      BY <2>1, <2>4, <3>1 DEF P!DeletePlaces
  <2>5. CASE P!ImportPlaces \/ P!ThrowSwitch
    <3>1. CASE P!ImportPlaces
      BY <1>1, <3>1 DEF P!ImportPlaces, P!spent
    <3>2. CASE P!ThrowSwitch
      <4>1. edits' \in 0..MaxEdits /\ switch' \in BOOLEAN
        BY <3>2 DEF P!ThrowSwitch
      <4> QED
        BY <3>2, <4>1 DEF P!ThrowSwitch
    <3> QED
      BY <2>5, <3>1, <3>2
  <2> QED
    BY <1>4, <2>2, <2>3, <2>4, <2>5 DEF P!People
<1>5. CASE P!DayPasses
  <2>1. imports' \in [P!Imports -> P!Import]
    BY <1>5 DEF P!DayPasses, P!Import
  <2> QED
    BY <1>5, <2>1 DEF P!DayPasses, P!spent
<1>6. CASE P!Restart
  <2>1. \A i \in P!Imports : imports'[i] \in P!Import
    <3>1. 1 \in 1..NSeeds + 1
      OBVIOUS
    <3>2. \A i \in P!Imports :
             [imports[i] EXCEPT !.pc = "queued", !.at = 1, !.top = P!NoPlace] \in P!Import
      BY <3>1, ImportTypes
    <3> QED
      BY <1>6, <3>2 DEF P!Restart
  <2>2. imports' \in [P!Imports -> P!Import]
    BY <1>6, <2>1 DEF P!Restart
  <2>3. placeFaults' \in 0..MaxPlaceFaults
    <3>1. placeFaults < MaxPlaceFaults /\ placeFaults' = placeFaults + 1
      BY <1>6 DEF P!Restart
    <3> QED
      BY <3>1
  <2>4. searches' \in [Searches -> {"idle", "flag", "count", "recent", "enqueue"}]
    BY <1>6 DEF P!Restart
  <2> QED
    BY <1>6, <2>2, <2>3, <2>4 DEF P!Restart
<1>7. CASE UNCHANGED P!vars
  BY <1>7 DEF P!vars, P!spent
<1> QED
  BY <1>2, <1>3, <1>4, <1>5, <1>6, <1>7 DEF P!Next

LEMMA PlacesInit == P!Init => PlacesIInv
<1> SUFFICES ASSUME P!Init PROVE PlacesIInv
  OBVIOUS
<1>1. places \in [Places -> P!Place]
  BY DEF P!Init, P!Unsaved, P!Place
<1>2. imports \in [P!Imports -> P!Import]
  BY ImportTypes DEF P!Init
<1>3. queued \in 0..MaxImports /\ edits \in 0..MaxEdits /\ placeFaults \in 0..MaxPlaceFaults
  BY PlacesAssumption DEF P!Init, P!PlacesAssumption
<1>4. P!TypeOK
  BY <1>1, <1>2, <1>3 DEF P!Init, P!TypeOK
<1>5. PastFlag = {} /\ AutoRecent = {}
  BY ImportTypes DEF P!Init, PastFlag, AutoRecent
<1> QED
  BY <1>4, <1>5 DEF PlacesIInv

LEMMA PlacesKept == PlacesIInv /\ [P!Next]_(P!vars) => PlacesIInv'
<1> SUFFICES ASSUME PlacesIInv, [P!Next]_(P!vars), ~raced'
             PROVE  /\ \A s, t \in PastFlag' : s = t
                    /\ \A s \in Searches : searches'[s] = "enqueue" => AutoRecent' = {}
                    /\ \A i, k \in AutoRecent' : i = k
  BY PlacesTyped DEF PlacesIInv
<1>0. /\ P!TypeOK /\ P!TypeOK'
      /\ ~raced => /\ \A s, t \in PastFlag : s = t
                   /\ \A s \in Searches : searches[s] = "enqueue" => AutoRecent = {}
                   /\ \A i, k \in AutoRecent : i = k
  BY PlacesTyped DEF PlacesIInv
\* Nothing gets past the flag, and no import of its own is queued.
<1>a. ASSUME ~raced, \A s \in Searches : searches'[s] \in {"idle", "flag", searches[s]},
             AutoRecent' \subseteq AutoRecent
      PROVE  /\ PastFlag' \subseteq PastFlag
             /\ \A s \in Searches : searches'[s] = "enqueue" => searches[s] = "enqueue"
  BY <1>a DEF PastFlag
<1>b. ASSUME ~raced, PastFlag' \subseteq PastFlag,
             \A s \in Searches : searches'[s] = "enqueue" => searches[s] = "enqueue",
             AutoRecent' \subseteq AutoRecent
      PROVE  /\ \A s, t \in PastFlag' : s = t
             /\ \A s \in Searches : searches'[s] = "enqueue" => AutoRecent' = {}
             /\ \A i, k \in AutoRecent' : i = k
  BY <1>0, <1>b
<1>1. ASSUME NEW s \in Searches, P!BeginSearch(s) \/ P!SearchThrows(s)
      PROVE  /\ ~raced /\ AutoRecent' \subseteq AutoRecent
             /\ \A t \in Searches : searches'[t] \in {"idle", "flag", searches[t]}
  BY <1>0, <1>1 DEF P!BeginSearch, P!SearchThrows, P!SearchTo, AutoRecent, P!TypeOK
<1>2. ASSUME NEW s \in Searches, P!CheckFlag(s)
      PROVE  /\ \A u, t \in PastFlag' : u = t
             /\ \A u \in Searches : searches'[u] = "enqueue" => AutoRecent' = {}
             /\ \A i, k \in AutoRecent' : i = k
  <2>1. ~raced /\ AutoRecent' = AutoRecent
    BY <1>2 DEF P!CheckFlag, AutoRecent
  <2>2. \A u \in Searches : searches'[u] = "enqueue" => searches[u] = "enqueue"
    BY <1>0, <1>2 DEF P!CheckFlag, P!SearchTo, P!TypeOK
  <2>3. CASE switch
    <3>1. PastFlag = {}
      BY <1>2, <2>3 DEF P!CheckFlag, P!OthersPast, PastFlag
    <3>2. PastFlag' \subseteq PastFlag \cup {s}
      BY <1>0, <1>2 DEF P!CheckFlag, P!SearchTo, PastFlag, P!TypeOK
    <3> QED
      BY <1>0, <2>1, <2>2, <3>1, <3>2
  <2>4. CASE ~switch
    <3>1. PastFlag' \subseteq PastFlag
      BY <1>0, <1>2, <2>4 DEF P!CheckFlag, P!SearchTo, PastFlag, P!TypeOK
    <3> QED
      BY <1>b, <2>1, <2>2, <3>1
  <2> QED
    BY <2>3, <2>4
<1>3. ASSUME NEW s \in Searches, P!CountPlaces(s)
      PROVE  /\ ~raced /\ AutoRecent' = AutoRecent /\ PastFlag' \subseteq PastFlag
             /\ \A t \in Searches : searches'[t] = "enqueue" => searches[t] = "enqueue"
  BY <1>0, <1>3 DEF P!CountPlaces, P!SearchTo, PastFlag, AutoRecent, P!TypeOK
<1>4. ASSUME NEW s \in Searches, P!LookForRecent(s)
      PROVE  /\ \A u, t \in PastFlag' : u = t
             /\ \A u \in Searches : searches'[u] = "enqueue" => AutoRecent' = {}
             /\ \A i, k \in AutoRecent' : i = k
  <2>1. ~raced /\ AutoRecent' = AutoRecent /\ PastFlag' \subseteq PastFlag
    BY <1>0, <1>4 DEF P!LookForRecent, P!SearchTo, PastFlag, AutoRecent, P!TypeOK
  <2>2. CASE \E i \in P!Imports : imports[i].recent
    <3>1. \A u \in Searches : searches'[u] = "enqueue" => searches[u] = "enqueue"
      BY <1>0, <1>4, <2>2 DEF P!LookForRecent, P!SearchTo, P!TypeOK
    <3> QED
      BY <1>b, <2>1, <3>1
  <2>3. CASE ~\E i \in P!Imports : imports[i].recent
    <3>1. AutoRecent = {}
      BY <2>3 DEF AutoRecent
    <3> QED
      BY <1>0, <2>1, <3>1
  <2> QED
    BY <2>2, <2>3
<1>5. ASSUME NEW s \in Searches, P!QueueDefault(s)
      PROVE  /\ \A u, t \in PastFlag' : u = t
             /\ \A u \in Searches : searches'[u] = "enqueue" => AutoRecent' = {}
             /\ \A i, k \in AutoRecent' : i = k
  <2>1. ~raced /\ AutoRecent = {} /\ PastFlag = {s}
    BY <1>0, <1>5 DEF P!QueueDefault, PastFlag
  <2>2. PastFlag' = {}
    BY <1>0, <1>5, <2>1 DEF P!QueueDefault, P!SearchTo, PastFlag, P!TypeOK
  <2>3. AutoRecent' \subseteq {queued + 1}
    BY <1>0, <1>5, <2>1 DEF P!QueueDefault, P!Enqueue, AutoRecent, P!TypeOK
  <2> QED
    BY <2>2, <2>3 DEF PastFlag
<1>6. ASSUME NEW i \in P!Imports, P!Runs(i)
      PROVE  ~raced /\ AutoRecent' \subseteq AutoRecent /\ searches' = searches
  <2>1. ~raced /\ searches' = searches
    <3>1. CASE P!StartImport(i)
      BY <3>1 DEF P!StartImport
    <3>3. CASE P!AskSeed(i)
      BY <3>3 DEF P!AskSeed
    <3>2. CASE P!LookForDuplicate(i) \/ P!CreatePlace(i)
      BY <3>2 DEF P!LookForDuplicate, P!CreatePlace
    <3> QED
      BY <1>6, <3>1, <3>2, <3>3 DEF P!Runs
  <2>2. imports[i] \in P!Import
    BY <1>0, <1>6 DEF P!TypeOK
  <2>3. \E job : P!ImportTo(i, job) /\ job.auto = imports[i].auto /\ job.recent = imports[i].recent
    <3>1. \A job \in P!Import : P!Advance(job).auto = job.auto /\ P!Advance(job).recent = job.recent
      BY DEF P!Advance, P!Import
    <3>2. CASE P!StartImport(i)
      BY <2>2, <3>2 DEF P!StartImport, P!Import
    <3>3. CASE P!AskSeed(i)
      <4>1. CASE \E p \in Places : P!ImportTo(i, [imports[i] EXCEPT !.pc = "look", !.top = p])
        <5>1. PICK p \in Places : P!ImportTo(i, [imports[i] EXCEPT !.pc = "look", !.top = p])
          BY <4>1
        <5>2. PICK job : job = [imports[i] EXCEPT !.pc = "look", !.top = p]
          OBVIOUS
        <5>3. job.auto = imports[i].auto /\ job.recent = imports[i].recent
          BY <2>2, <5>2 DEF P!Import
        <5> QED
          BY <5>1, <5>2, <5>3
      <4>2. CASE P!ImportTo(i, [imports[i] EXCEPT !.pc = "ended"])
        BY <2>2, <4>2 DEF P!Import
      <4>3. CASE P!ImportTo(i, P!Advance(imports[i]))
        BY <2>2, <3>1, <4>3
      <4> QED
        BY <3>3, <4>1, <4>2, <4>3 DEF P!AskSeed
    <3>4. CASE P!LookForDuplicate(i)
      BY <2>2, <3>1, <3>4 DEF P!LookForDuplicate, P!Import
    <3>5. CASE P!CreatePlace(i)
      BY <2>2, <3>1, <3>5 DEF P!CreatePlace, P!Import
    <3> QED
      BY <1>6, <3>2, <3>3, <3>4, <3>5 DEF P!Runs
  <2>4. PICK job : P!ImportTo(i, job) /\ job.auto = imports[i].auto /\ job.recent = imports[i].recent
    BY <2>3
  <2>5. AutoRecent' \subseteq AutoRecent
    BY <1>0, <2>4 DEF P!ImportTo, AutoRecent, P!TypeOK
  <2> QED
    BY <2>1, <2>5
<1>7. ASSUME P!People \/ P!DayPasses
      PROVE  ~raced /\ AutoRecent' \subseteq AutoRecent /\ searches' = searches
  <2>1. CASE P!ImportPlaces
    <3>1. P!NoImport \in P!Import
      BY ImportTypes
    <3>2. PICK job : job = [P!NoImport EXCEPT !.pc = "queued", !.auto = FALSE, !.recent = TRUE]
      OBVIOUS
    <3>3. ~job.auto
      BY <3>1, <3>2 DEF P!Import
    <3>4. imports' = [imports EXCEPT ![queued + 1] = job]
      BY <2>1, <3>2 DEF P!ImportPlaces, P!Enqueue
    <3> QED
      BY <1>0, <2>1, <3>3, <3>4 DEF P!ImportPlaces, AutoRecent, P!TypeOK
  <2>2. CASE P!ThrowSwitch
    BY <2>2 DEF P!ThrowSwitch, AutoRecent
  <2>3. CASE P!DayPasses
    BY <2>3 DEF P!DayPasses, AutoRecent
  <2>4. ASSUME NEW change, P!Edit(change) PROVE ~raced /\ imports' = imports /\ searches' = searches
    BY <2>4 DEF P!Edit
  <2>5. CASE UNCHANGED <<imports, searches>> /\ ~raced
    BY <2>5 DEF AutoRecent
  <2> QED
    BY <1>7, <2>1, <2>2, <2>3, <2>4, <2>5 DEF P!People, P!SavePlace, P!UpdatePlace, P!DeletePlaces
<1>8. ASSUME P!Restart PROVE ~raced /\ AutoRecent' \subseteq AutoRecent /\ PastFlag' = {}
  <2>1. \A i \in P!Imports : imports'[i].auto = imports[i].auto /\ imports'[i].recent = imports[i].recent
    <3>1. \A job \in P!Import :
             LET new == [job EXCEPT !.pc = "queued", !.at = 1, !.top = P!NoPlace]
             IN new.auto = job.auto /\ new.recent = job.recent
      BY DEF P!Import
    <3>2. \A i \in P!Imports : imports[i] \in P!Import
      BY <1>0 DEF P!TypeOK
    <3> QED
      BY <1>8, <3>1, <3>2 DEF P!Restart
  <2> QED
    BY <1>8, <2>1 DEF P!Restart, AutoRecent, PastFlag
<1>9. ASSUME UNCHANGED P!vars PROVE ~raced /\ AutoRecent' \subseteq AutoRecent /\ searches' = searches
  BY <1>9 DEF P!vars, AutoRecent
<1>10. CASE searches' = searches /\ ~raced /\ AutoRecent' \subseteq AutoRecent
  BY <1>a, <1>b, <1>10
<1>11. CASE P!Restart
  BY <1>0, <1>8, <1>11 DEF PastFlag
<1>12. ASSUME NEW s \in Searches, P!Checks(s)
       PROVE  /\ \A u, t \in PastFlag' : u = t
              /\ \A u \in Searches : searches'[u] = "enqueue" => AutoRecent' = {}
              /\ \A i, k \in AutoRecent' : i = k
  <2>1. CASE P!BeginSearch(s) \/ P!SearchThrows(s)
    BY <1>1, <1>a, <1>b, <2>1
  <2>2. CASE P!CountPlaces(s)
    BY <1>3, <1>b, <2>2
  <2> QED
    BY <1>2, <1>4, <1>5, <1>12, <2>1, <2>2 DEF P!Checks
<1> QED
  BY <1>6, <1>7, <1>9, <1>10, <1>11, <1>12 DEF P!Next

\* OneAutoImport (chowdeck.jobs.ts:236-265): over restarts, failed checks and imports of a person, the
\* default list is imported by itself once a day, but for searches that pass the flag side by side.
THEOREM ImportsByItselfOnce == P!Spec => []OneAutoImport
<1>1. PlacesIInv => OneAutoImport
  <2>1. ASSUME PlacesIInv, ~raced PROVE P!Cardinality(AutoRecent) <= 1
    BY <2>1, AtMostOne DEF PlacesIInv
  <2> QED
    BY <2>1 DEF OneAutoImport, P!OneAutoImport, AutoRecent
<1> QED
  BY <1>1, PlacesInit, PlacesKept, PTL DEF P!Spec

-------------------------------------------------------------------------------
(* One application of the script.                                          *)

\* What a request has seen has ended and stays so, and one that is to apply the script for good has
\* seen no run that did.  A run that waits or is under way is alone, and alone in applying.
ScriptIInv ==
    /\ R!TypeOK
    /\ ~overlooked =>
        /\ \A r \in Requests : requests[r].pc # "idle" =>
              \A w \in requests[r].seen : state[w] \in {"succeeded", "failed"}
        /\ \A r \in Requests : requests[r].pc = "cleared" /\ requests[r].asks = "real" =>
              \A w \in requests[r].seen : w \notin R!Applied
        /\ \A u, v \in R!Unfinished : u = v
        /\ \A u, v \in R!Applied : u = v
        /\ \A u \in R!Unfinished : payload[u] = "real" => R!Applied = {}

LEMMA ScriptTyped == R!TypeOK /\ [R!Next]_(R!vars) => R!TypeOK'
<1> SUFFICES ASSUME R!TypeOK, [R!Next]_(R!vars) PROVE R!TypeOK'
  OBVIOUS
<1> USE ScriptsAssumption DEF R!ScriptsAssumption, R!TypeOK, R!Queue!Stage, R!Payload
<1>1. ASSUME NEW r \in Requests, NEW asks1 \in R!Payload, R!LookForRun(r, asks1) PROVE R!TypeOK'
  <2>1. R!Queued \in SUBSET R!Runs
    BY DEF R!Queued
  <2> QED
    BY <1>1, <2>1 DEF R!LookForRun, R!queue, R!bounds
<1>2. ASSUME NEW r \in Requests, R!LookForApplied(r) \/ R!Dies(r) PROVE R!TypeOK'
  BY <1>2 DEF R!LookForApplied, R!Dies, R!Idle, R!queue, R!bounds
<1>3. ASSUME NEW r \in Requests, R!EnqueueRun(r) PROVE R!TypeOK'
  BY <1>3 DEF R!EnqueueRun, R!Queue!Enqueue, R!Idle, R!bounds
<1>4. ASSUME NEW w \in R!Runs, R!Start(w) \/ (\E outcome \in {"succeeded", "failed"} : R!Complete(w, outcome))
                               \/ (\E force \in BOOLEAN : R!RetryRun(w, force))
      PROVE  R!TypeOK'
  <2>1. CASE R!Start(w)
    BY <2>1 DEF R!Start, R!Queue!Start, R!bounds
  <2>2. ASSUME NEW outcome \in {"succeeded", "failed"}, R!Complete(w, outcome) PROVE R!TypeOK'
    BY <2>2 DEF R!Complete, R!Queue!Complete, R!bounds
  <2>3. ASSUME NEW force \in BOOLEAN, R!RetryRun(w, force) PROVE R!TypeOK'
    BY <2>3 DEF R!RetryRun
  <2> QED
    BY <1>4, <2>1, <2>2, <2>3
<1>5. CASE R!Crash
  BY <1>5 DEF R!Crash, R!Queue!Crash, R!Idle
<1>6. CASE R!Recover
  BY <1>6 DEF R!Recover, R!Queue!Recover, R!bounds
<1>7. CASE UNCHANGED R!vars
  BY <1>7 DEF R!vars
<1> QED
  BY <1>1, <1>2, <1>3, <1>4, <1>5, <1>6, <1>7 DEF R!Next

LEMMA ScriptInit == R!Init => ScriptIInv
<1> SUFFICES ASSUME R!Init PROVE ScriptIInv
  OBVIOUS
<1>1. R!TypeOK
  <2>1. state \in [R!Runs -> R!Queue!Stage] /\ held \in [R!Runs -> BOOLEAN]
    BY DEF R!Init, R!Queue!Init, R!Queue!Stage
  <2>2. payload \in [R!Runs -> R!Payload] /\ overlooked \in BOOLEAN
    BY DEF R!Init, R!Payload
  <2>3. requests \in [Requests -> [pc : {"idle", "looked", "cleared"}, asks : R!Payload,
                                   seen : SUBSET R!Runs]]
    BY DEF R!Init, R!Idle, R!Payload
  <2>4. retries \in 0..MaxRetries /\ crashes \in 0..MaxCrashes
    BY ScriptsAssumption DEF R!Init, R!ScriptsAssumption
  <2> QED
    BY <2>1, <2>2, <2>3, <2>4 DEF R!TypeOK
<1>2. R!Unfinished = {} /\ R!Applied = {}
  BY DEF R!Init, R!Queue!Init, R!Unfinished, R!Applied
<1>3. \A r \in Requests : requests[r].pc = "idle"
  BY DEF R!Init, R!Idle
<1> QED
  BY <1>1, <1>2, <1>3 DEF ScriptIInv

LEMMA ScriptKept == ScriptIInv /\ [R!Next]_(R!vars) => ScriptIInv'
<1> DEFINE Seen == \A r \in Requests : requests[r].pc # "idle" =>
                      \A w \in requests[r].seen : state[w] \in {"succeeded", "failed"}
           Clear == \A r \in Requests : requests[r].pc = "cleared" /\ requests[r].asks = "real" =>
                      \A w \in requests[r].seen : w \notin R!Applied
           Alone == /\ \A u, v \in R!Unfinished : u = v
                    /\ \A u, v \in R!Applied : u = v
                    /\ \A u \in R!Unfinished : payload[u] = "real" => R!Applied = {}
<1> SUFFICES ASSUME ScriptIInv, [R!Next]_(R!vars), ~overlooked' PROVE Seen' /\ Clear' /\ Alone'
  BY ScriptTyped DEF ScriptIInv
<1>0. R!TypeOK /\ R!TypeOK' /\ (~overlooked => Seen /\ Clear /\ Alone)
  BY ScriptTyped DEF ScriptIInv
\* The jobs are left alone.
<1>a. ASSUME ~overlooked, UNCHANGED <<state, payload>> PROVE Alone'
  BY <1>0, <1>a DEF R!Unfinished, R!Applied
<1>1. ASSUME NEW r \in Requests, NEW asks1 \in R!Payload, R!LookForRun(r, asks1)
      PROVE  Seen' /\ Clear' /\ Alone'
  <2>1. ~overlooked /\ UNCHANGED <<state, payload>>
    BY <1>1 DEF R!LookForRun, R!queue
  <2>2. \A w \in R!Queued : state[w] \in {"succeeded", "failed"}
    BY <1>0, <1>1 DEF R!LookForRun, R!Queued, R!Unfinished, R!TypeOK, R!Queue!Stage
  <2>3. Seen'
    BY <1>0, <1>1, <2>1, <2>2 DEF R!LookForRun, R!TypeOK
  <2>4. Clear'
    BY <1>0, <1>1, <2>1 DEF R!LookForRun, R!TypeOK, R!Applied
  <2> QED
    BY <1>a, <2>1, <2>3, <2>4
<1>2. ASSUME NEW r \in Requests, R!LookForApplied(r) \/ R!Dies(r) PROVE Seen' /\ Clear' /\ Alone'
  <2>1. ~overlooked /\ UNCHANGED <<state, payload>>
    BY <1>2 DEF R!LookForApplied, R!Dies, R!queue
  <2>2. \A q \in Requests : requests'[q].pc # "idle" =>
           /\ requests[q].pc # "idle" /\ requests'[q].seen = requests[q].seen
           /\ requests'[q].asks = requests[q].asks
    BY <1>0, <1>2 DEF R!LookForApplied, R!Dies, R!TypeOK, R!Idle
  <2>3. \A q \in Requests : requests'[q].pc = "cleared" /\ requests'[q].asks = "real" =>
           requests[q].pc = "cleared" \/ R!Applied = {}
    BY <1>0, <1>2 DEF R!LookForApplied, R!Dies, R!TypeOK, R!Idle
  <2>4. Seen'
    BY <1>0, <2>1, <2>2
  <2>5. Clear'
    BY <1>0, <2>1, <2>2, <2>3 DEF R!Applied
  <2> QED
    BY <1>a, <2>1, <2>4, <2>5
<1>3. ASSUME NEW r \in Requests, R!EnqueueRun(r) PROVE Seen' /\ Clear' /\ Alone'
  <2>1. PICK w \in R!Runs :
           /\ requests[r].pc = "cleared" /\ R!Queue!Enqueue(w)
           /\ payload' = [payload EXCEPT ![w] = requests[r].asks]
           /\ requests' = [requests EXCEPT ![r] = R!Idle]
           /\ overlooked' = (overlooked \/ ~(R!Queued \subseteq requests[r].seen))
    BY <1>3 DEF R!EnqueueRun
  <2>2. ~overlooked /\ R!Queued \subseteq requests[r].seen
    BY <1>0, <2>1 DEF R!TypeOK
  <2>3. state[w] = "absent" /\ state' = [state EXCEPT ![w] = "queued"]
    BY <2>1 DEF R!Queue!Enqueue
  <2>4. R!Unfinished = {}
    BY <1>0, <2>1, <2>2 DEF R!Unfinished, R!Queued
  <2>5. R!Unfinished' = {w} /\ R!Applied' = R!Applied
    BY <1>0, <2>1, <2>3, <2>4 DEF R!Unfinished, R!Applied, R!TypeOK
  <2>6. requests[r].asks = "real" => R!Applied = {}
    BY <1>0, <2>1, <2>2 DEF R!Applied, R!Queued
  <2>7. payload'[w] = requests[r].asks
    BY <1>0, <2>1 DEF R!TypeOK
  <2>8. Alone'
    BY <1>0, <2>2, <2>5, <2>6, <2>7
  <2>9. \A q \in Requests : requests'[q].pc # "idle" => requests'[q] = requests[q]
    BY <1>0, <2>1 DEF R!TypeOK, R!Idle
  <2>10. Seen'
    BY <1>0, <2>2, <2>3, <2>9 DEF R!TypeOK
  <2>11. Clear'
    BY <1>0, <2>2, <2>5, <2>9
  <2> QED
    BY <2>8, <2>10, <2>11
\* A run starts, waits again or ends: nothing ended moves.
<1>b. ASSUME ~overlooked, payload' = payload, requests' = requests,
             \A w \in R!Runs : state[w] \in {"succeeded", "failed"} => state'[w] = state[w],
             R!Unfinished' \subseteq R!Unfinished, R!Applied' \subseteq R!Applied
      PROVE  Seen' /\ Clear' /\ Alone'
  <2>1. \A q \in Requests : requests[q].seen \subseteq R!Runs
    BY <1>0 DEF R!TypeOK
  <2>2. Seen'
    BY <1>0, <1>b, <2>1
  <2>3. Clear'
    BY <1>0, <1>b
  <2>4. Alone'
    BY <1>0, <1>b
  <2> QED
    BY <2>2, <2>3, <2>4
<1>4. ASSUME NEW w \in R!Runs, R!Start(w) PROVE Seen' /\ Clear' /\ Alone'
  BY <1>0, <1>4, <1>b DEF R!Start, R!Queue!Start, R!Unfinished, R!Applied, R!TypeOK
<1>5. ASSUME NEW w \in R!Runs, NEW outcome \in {"succeeded", "failed"}, R!Complete(w, outcome)
      PROVE  Seen' /\ Clear' /\ Alone'
  <2>1. /\ ~overlooked /\ payload' = payload /\ requests' = requests
        /\ state[w] = "running" /\ state' = [state EXCEPT ![w] = outcome]
    BY <1>5 DEF R!Complete, R!Queue!Complete
  <2>2. R!Unfinished = {w} /\ R!Unfinished' = {}
    BY <1>0, <2>1 DEF R!Unfinished, R!TypeOK
  <2>3. R!Applied' \subseteq R!Applied \cup {w} /\ (payload[w] # "real" => R!Applied' \subseteq R!Applied)
    BY <1>0, <2>1 DEF R!Applied, R!TypeOK
  <2>4. Alone'
    <3>1. CASE payload[w] = "real"
      BY <1>0, <2>1, <2>2, <2>3, <3>1
    <3>2. CASE payload[w] # "real"
      BY <1>0, <2>1, <2>2, <2>3, <3>2
    <3> QED
      BY <3>1, <3>2
  <2>5. Seen'
    BY <1>0, <2>1 DEF R!TypeOK
  <2>6. Clear'
    BY <1>0, <2>1, <2>3
  <2> QED
    BY <2>4, <2>5, <2>6
<1>6. ASSUME NEW w, NEW force, R!RetryRun(w, force) PROVE FALSE
  BY <1>6 DEF R!RetryRun
<1>7. CASE R!Crash
  <2>1. ~overlooked /\ UNCHANGED <<state, payload>> /\ \A q \in Requests : requests'[q].pc = "idle"
    BY <1>7 DEF R!Crash, R!Queue!Crash, R!Idle
  <2> QED
    BY <1>a, <2>1
<1>8. CASE R!Recover
  BY <1>0, <1>8, <1>b DEF R!Recover, R!Queue!Recover, R!Unfinished, R!Applied, R!TypeOK
<1>9. CASE UNCHANGED R!vars
  BY <1>0, <1>9, <1>b DEF R!vars, R!Unfinished, R!Applied
<1> HIDE DEF Seen, Clear, Alone
<1> QED
  BY <1>1, <1>2, <1>3, <1>4, <1>5, <1>6, <1>7, <1>8, <1>9 DEF R!Next

\* AppliedOnce (scripts.service.ts): of a script that is to be applied once, one run succeeds in it at
\* the most and nothing runs beside it, unless a request looked before another queued its run or an
\* operator retried one.
THEOREM ScriptsApplyOnce == R!Spec => []AppliedOnce
<1>1. ScriptIInv => AppliedOnce
  BY AtMostOne DEF ScriptIInv, AppliedOnce, R!AppliedOnce
<1> QED
  BY <1>1, ScriptInit, ScriptKept, PTL DEF R!Spec

-------------------------------------------------------------------------------
(* The end of a turn is heard.                                             *)

Busy == {q \in A!Polls : polls[q].pc # "none"}

\* Reads under way were sent at beats of their own, none of them longer ago than a read may take.
PollsInTime ==
    /\ \A q \in Busy : polls[q].since <= beat /\ beat <= polls[q].since + MaxRead
    /\ \A q, r \in Busy : polls[q].since = polls[r].since => q = r
    /\ stream = "none" => Busy = {}
    /\ stream = "first" => Busy = {0}
    /\ settledAt <= beat /\ openedAt <= beat
    /\ stream = "open" => pushed.status = "pending"

\* A read that will find the turn settled, or has: it was sent at the first beat after the turn was
\* settled and the stream was open, or before.
WillTell(q) ==
    /\ polls[q].pc = "asked" \/ (polls[q].pc = "found" /\ polls[q].found.status \in A!Settled)
    /\ polls[q].since <= settledAt + 1 \/ polls[q].since <= openedAt + 1

TurnIInv ==
    /\ A!TypeOK /\ PollsInTime
    /\ stream = "open" /\ turn.status \in A!Settled /\ settledAt < beat /\ openedAt < beat =>
          \E q \in Busy : WillTell(q)

\* There are more places for a read than beats a read may take, so that one is free at every beat.
LEMMA AlwaysFree ==
    ASSUME A!TypeOK, PollsInTime, A!OnTime PROVE \E q \in A!Polls : polls[q].pc = "none"
<1> SUFFICES ASSUME Busy = A!Polls PROVE FALSE
  BY DEF Busy
<1> DEFINE at == [q \in A!Polls |-> polls[q].since]
<1>1. MaxRead \in Nat /\ MaxTime \in Nat /\ beat \in Nat
  <2>1. MaxRead \in Nat /\ MaxTime \in Nat
    BY TurnStreamAssumption DEF A!TurnStreamAssumption
  <2>2. beat \in 0..MaxTime
    BY DEF A!TypeOK
  <2> QED
    BY <2>1, <2>2
<1>2. \A q \in A!Polls : polls[q].since \in Nat /\ polls[q].since <= beat /\ beat < polls[q].since + MaxRead
  <2> SUFFICES ASSUME NEW q \in A!Polls
               PROVE  polls[q].since \in Nat /\ polls[q].since <= beat /\ beat < polls[q].since + MaxRead
    OBVIOUS
  <2>1. polls[q].since \in 0..MaxTime
    BY DEF A!TypeOK
  <2>2. q \in Busy /\ polls[q].pc # "none"
    BY DEF Busy
  <2>3. polls[q].since <= beat /\ beat < polls[q].since + MaxRead
    BY <2>2 DEF PollsInTime, A!OnTime
  <2> QED
    BY <1>1, <2>1, <2>3
<1>3. \A q \in A!Polls : at[q] \in beat - MaxRead + 1 .. beat
  BY <1>1, <1>2
<1>4. at \in [A!Polls -> beat - MaxRead + 1 .. beat]
  BY <1>3
<1>5. IsFiniteSet(A!Polls) /\ Cardinality(A!Polls) = MaxRead + 1
  BY <1>1, FS_Interval DEF A!Polls
<1>6. IsFiniteSet(beat - MaxRead + 1 .. beat) /\ Cardinality(beat - MaxRead + 1 .. beat) = MaxRead
  <2>1. beat - MaxRead + 1 \in Int /\ beat \in Int
    BY <1>1
  <2>2. /\ IsFiniteSet(beat - MaxRead + 1 .. beat)
        /\ Cardinality(beat - MaxRead + 1 .. beat) =
             IF beat - MaxRead + 1 > beat THEN 0 ELSE beat - (beat - MaxRead + 1) + 1
    BY <2>1, FS_Interval
  <2> QED
    BY <1>1, <2>2
<1>7. Cardinality(beat - MaxRead + 1 .. beat) < Cardinality(A!Polls)
  BY <1>1, <1>5, <1>6
<1> HIDE DEF at
<1>8. \E q, r \in A!Polls : q # r /\ at[q] = at[r]
  BY <1>4, <1>5, <1>6, <1>7, FS_PigeonHole
<1> QED
  BY <1>8 DEF at, PollsInTime

\* What a read turns into is a read.
LEMMA PollTypes ==
    /\ A!NoPoll \in [pc : {"none", "asked", "found"}, since : 0..MaxTime, found : A!Turn]
    /\ A!NoPoll.pc = "none"
    /\ \A b \in 0..MaxTime : LET p == [A!NoPoll EXCEPT !.pc = "asked", !.since = b] IN
          /\ p \in [pc : {"none", "asked", "found"}, since : 0..MaxTime, found : A!Turn]
          /\ p.pc = "asked" /\ p.since = b
<1>1. 0 \in 0..MaxTime
  BY TurnStreamAssumption DEF A!TurnStreamAssumption
<1> QED
  BY <1>1 DEF A!NoPoll, A!Turn

\* The step of a read that comes or goes, whatever the step.
PollsTyped == polls \in [A!Polls -> [pc : {"none", "asked", "found"}, since : 0..MaxTime, found : A!Turn]]

LEMMA TurnTyped == A!TypeOK /\ PollsInTime /\ [A!Next]_(A!vars) => A!TypeOK'
<1> SUFFICES ASSUME A!TypeOK, PollsInTime, [A!Next]_(A!vars) PROVE A!TypeOK'
  OBVIOUS
<1>0. /\ PollsTyped /\ 0 \in A!Polls
      /\ MaxRead \in Nat /\ MaxTime \in Nat /\ MaxSettles \in Nat
  <2>1. MaxRead \in Nat /\ MaxTime \in Nat /\ MaxSettles \in Nat
    BY TurnStreamAssumption DEF A!TurnStreamAssumption
  <2>2. 0 \in A!Polls
    BY <2>1 DEF A!Polls
  <2>3. PollsTyped
    BY DEF A!TypeOK, PollsTyped
  <2> QED
    BY <2>1, <2>2, <2>3
<1>1. ASSUME NEW s \in A!Settled, A!Settle(s) PROVE A!TypeOK'
  <2>1. turn' \in A!Turn
    BY <1>1 DEF A!Settle, A!Turn, A!TypeOK
  <2>2. settles' \in 0..MaxSettles
    <3>1. settles \in 0..MaxSettles /\ settles < MaxSettles /\ settles' = settles + 1
      BY <1>1 DEF A!Settle, A!TypeOK
    <3> QED
      BY <1>0, <3>1
  <2> QED
    BY <1>1, <2>1, <2>2 DEF A!Settle, A!TypeOK
<1>2. CASE A!FirstRead
  <2>1. PICK p : p = [pc |-> "found", since |-> beat, found |-> turn]
    OBVIOUS
  <2>2. p \in [pc : {"none", "asked", "found"}, since : 0..MaxTime, found : A!Turn]
    BY <2>1 DEF A!TypeOK
  <2>3. polls' = [polls EXCEPT ![0] = p]
    BY <1>2, <2>1 DEF A!FirstRead
  <2>4. PollsTyped'
    BY <1>0, <2>2, <2>3 DEF PollsTyped
  <2> QED
    BY <1>2, <2>4 DEF A!FirstRead, A!TypeOK, PollsTyped
<1>3. CASE A!FirstPush
  <2>1. polls' = [polls EXCEPT ![0] = A!NoPoll] /\ polls[0].found \in A!Turn
    BY <1>0, <1>3 DEF A!FirstPush, PollsTyped
  <2>2. pushed' \in [status : {"", "pending"} \cup A!Settled, transcript : BOOLEAN]
    BY <1>3, <2>1 DEF A!FirstPush, A!Told, A!Turn, A!TypeOK
  <2>3. PollsTyped'
    BY <1>0, <2>1, PollTypes DEF PollsTyped
  <2> QED
    BY <1>3, <2>2, <2>3 DEF A!FirstPush, A!TypeOK, PollsTyped
<1>4. ASSUME NEW q \in A!Polls, A!FindTurn(q) PROVE A!TypeOK'
  BY <1>0, <1>4 DEF A!FindTurn, A!TypeOK, PollsTyped
<1>5. ASSUME NEW q \in A!Polls, A!Push(q) PROVE A!TypeOK'
  <2>1. polls' = [polls EXCEPT ![q] = A!NoPoll] /\ polls[q].found \in A!Turn
    BY <1>0, <1>5 DEF A!Push, PollsTyped
  <2>2. pushed' \in [status : {"", "pending"} \cup A!Settled, transcript : BOOLEAN]
    BY <1>5, <2>1 DEF A!Push, A!Told, A!Turn, A!TypeOK
  <2>3. PollsTyped'
    BY <1>0, <2>1, PollTypes DEF PollsTyped
  <2> QED
    BY <1>5, <2>2, <2>3 DEF A!Push, A!TypeOK, PollsTyped
<1>6. ASSUME NEW q \in A!Polls, A!PollFails(q) PROVE A!TypeOK'
  BY <1>0, <1>6, PollTypes DEF A!PollFails, A!TypeOK
<1>7. CASE A!ClientLeaves
  BY <1>7 DEF A!ClientLeaves, A!TypeOK
<1>8. CASE A!Beat
  <2>1. beat' \in 0..MaxTime
    <3>1. beat \in 0..MaxTime /\ beat < MaxTime /\ beat' = beat + 1
      BY <1>8 DEF A!Beat, A!TypeOK
    <3> QED
      BY <1>0, <3>1
  <2>2. CASE stream' = "open"
    <3>1. PICK free \in A!Polls :
             polls' = [polls EXCEPT ![free] = [A!NoPoll EXCEPT !.pc = "asked", !.since = beat']]
      <4>1. \E q \in A!Polls : polls[q].pc = "none"
        BY <1>8, AlwaysFree DEF A!Beat
      <4> QED
        BY <1>8, <2>2, <4>1 DEF A!Beat
    <3>2. PICK p : p = [A!NoPoll EXCEPT !.pc = "asked", !.since = beat']
      OBVIOUS
    <3>3. polls' \in [A!Polls -> [pc : {"none", "asked", "found"}, since : 0..MaxTime, found : A!Turn]]
      BY <1>0, <2>1, <3>1, <3>2, PollTypes DEF PollsTyped
    <3> QED
      BY <1>8, <2>1, <2>2, <3>3 DEF A!Beat, A!TypeOK
  <2>3. CASE stream' # "open"
    BY <1>8, <2>1, <2>3 DEF A!Beat, A!TypeOK
  <2> QED
    BY <2>2, <2>3
<1>9. CASE UNCHANGED A!vars
  BY <1>9 DEF A!vars, A!TypeOK
<1> QED
  BY <1>1, <1>2, <1>3, <1>4, <1>5, <1>6, <1>7, <1>8, <1>9 DEF A!Next

\* Reads that end leave the others in time.
LEMMA FewerInTime ==
    ASSUME PollsInTime, Busy' \subseteq Busy, \A q \in Busy' : polls'[q].since = polls[q].since,
           stream \in {"open", "ended"}, stream' \in {stream, "ended"},
           UNCHANGED <<beat, settledAt, openedAt>>,
           stream' = "open" => pushed'.status = "pending"
    PROVE  PollsInTime'
BY DEF PollsInTime

LEMMA InTimeKept == A!TypeOK /\ PollsInTime /\ [A!Next]_(A!vars) => PollsInTime'
<1> SUFFICES ASSUME A!TypeOK, PollsInTime, [A!Next]_(A!vars) PROVE PollsInTime'
  OBVIOUS
<1>0. /\ PollsTyped /\ 0 \in A!Polls /\ beat \in Nat
      /\ MaxRead \in Nat \ {0} /\ MaxTime \in Nat
      /\ \A q \in A!Polls : polls[q].since \in Nat
      /\ settledAt \in Nat /\ openedAt \in Nat
  <2>1. MaxRead \in Nat \ {0} /\ MaxTime \in Nat /\ 0 \in A!Polls
    BY TurnStreamAssumption DEF A!TurnStreamAssumption, A!Polls
  <2>2. PollsTyped /\ beat \in 0..MaxTime /\ settledAt \in 0..MaxTime /\ openedAt \in 0..MaxTime
    BY DEF A!TypeOK, PollsTyped
  <2>3. \A q \in A!Polls : polls[q].since \in 0..MaxTime
    BY <2>2 DEF PollsTyped
  <2> QED
    BY <2>1, <2>2, <2>3
<1>1. ASSUME NEW s \in A!Settled, A!Settle(s) PROVE PollsInTime'
  BY <1>0, <1>1 DEF A!Settle, PollsInTime, Busy
<1>2. CASE A!FirstRead
  <2>1. Busy' = {0} /\ polls'[0].since = beat
    BY <1>0, <1>2 DEF A!FirstRead, PollsInTime, Busy, PollsTyped
  <2> QED
    BY <1>0, <1>2, <2>1 DEF A!FirstRead, PollsInTime
<1>3. CASE A!FirstPush
  <2>1. Busy' = {}
    BY <1>0, <1>3, PollTypes DEF A!FirstPush, PollsInTime, Busy, PollsTyped
  <2>2. polls[0].found \in A!Turn
    BY <1>0 DEF PollsTyped
  <2>3. stream' = "open" => pushed'.status = "pending"
    BY <1>3, <2>2 DEF A!FirstPush, A!Told, A!Ends, A!Turn
  <2> QED
    BY <1>0, <1>3, <2>1, <2>3 DEF A!FirstPush, PollsInTime
<1>4. ASSUME NEW q \in A!Polls, A!FindTurn(q) PROVE PollsInTime'
  <2>1. Busy' = Busy /\ \A r \in A!Polls : polls'[r].since = polls[r].since
    BY <1>0, <1>4 DEF A!FindTurn, Busy, PollsTyped
  <2>2. Busy \subseteq A!Polls
    BY DEF Busy
  <2>3. UNCHANGED <<beat, stream, pushed, settledAt, openedAt>>
    BY <1>4 DEF A!FindTurn
  <2> QED
    BY <2>1, <2>2, <2>3 DEF PollsInTime
<1>5. ASSUME NEW q \in A!Polls, A!Push(q) PROVE PollsInTime'
  <2>1. Busy' \subseteq Busy /\ \A r \in Busy' : polls'[r].since = polls[r].since
    BY <1>0, <1>5, PollTypes DEF A!Push, Busy, PollsTyped
  <2>2. polls[q].found \in A!Turn
    BY <1>0 DEF PollsTyped
  <2>3. stream' = "open" => pushed'.status = "pending"
    BY <1>5, <2>2 DEF A!Push, A!Told, A!Ends, A!Turn, A!Settled, PollsInTime
  <2> QED
    BY <1>5, <2>1, <2>3, FewerInTime DEF A!Push
<1>6. ASSUME NEW q \in A!Polls, A!PollFails(q) PROVE PollsInTime'
  <2>1. Busy' \subseteq Busy /\ \A r \in Busy' : polls'[r].since = polls[r].since
    BY <1>0, <1>6, PollTypes DEF A!PollFails, Busy, PollsTyped
  <2> QED
    BY <1>6, <2>1, FewerInTime DEF A!PollFails
<1>7. CASE A!ClientLeaves
  BY <1>7, FewerInTime DEF A!ClientLeaves, Busy
<1>8. CASE A!Beat
  <2>1. beat' = beat + 1 /\ UNCHANGED <<settledAt, openedAt, pushed>> /\ A!OnTime
    BY <1>8 DEF A!Beat
  <2>2. \A q \in Busy : polls[q].since <= beat' /\ beat' <= polls[q].since + MaxRead
    BY <1>0, <2>1 DEF PollsInTime, A!OnTime, Busy
  <2>3. CASE stream' = "open"
    <3>1. PICK free \in A!Polls :
             /\ polls[free].pc = "none"
             /\ polls' = [polls EXCEPT ![free] = [A!NoPoll EXCEPT !.pc = "asked", !.since = beat']]
      <4>1. \E q \in A!Polls : polls[q].pc = "none"
        BY <2>1, AlwaysFree
      <4> QED
        BY <1>8, <2>3, <4>1 DEF A!Beat
    <3>2. beat' \in 0..MaxTime
      BY <1>0, <1>8 DEF A!Beat
    <3>3. /\ Busy' = Busy \cup {free} /\ polls'[free].since = beat'
          /\ \A q \in Busy : q # free /\ polls'[q] = polls[q]
      <4>1. PICK p : p = [A!NoPoll EXCEPT !.pc = "asked", !.since = beat']
        OBVIOUS
      <4>2. p.pc = "asked" /\ p.since = beat' /\ polls' = [polls EXCEPT ![free] = p]
        BY <3>1, <3>2, <4>1, PollTypes
      <4>3. polls'[free] = p /\ \A q \in A!Polls : q # free => polls'[q] = polls[q]
        BY <1>0, <4>2 DEF PollsTyped
      <4> QED
        BY <3>1, <4>2, <4>3 DEF Busy
    <3>4. \A q \in Busy : polls[q].since < beat'
      BY <1>0, <2>1 DEF PollsInTime, Busy
    <3>5. /\ \A q \in Busy' : polls'[q].since <= beat' /\ beat' <= polls'[q].since + MaxRead
          /\ \A q, r \in Busy' : polls'[q].since = polls'[r].since => q = r
      BY <1>0, <2>1, <2>2, <3>3, <3>4 DEF PollsInTime
    <3>6. stream = "open"
      BY <1>8, <2>3 DEF A!Beat
    <3> QED
      BY <1>0, <2>1, <2>3, <3>5, <3>6 DEF PollsInTime
  <2>4. CASE stream' # "open"
    <3>1. polls' = polls /\ Busy' = Busy /\ (stream' = stream \/ stream' = "ended")
      BY <1>8, <2>4 DEF A!Beat, Busy
    <3>2. /\ \A q \in Busy' : polls'[q].since <= beat' /\ beat' <= polls'[q].since + MaxRead
          /\ \A q, r \in Busy' : polls'[q].since = polls'[r].since => q = r
      BY <2>2, <3>1 DEF PollsInTime
    <3> QED
      BY <1>0, <2>1, <2>4, <3>1, <3>2 DEF PollsInTime
  <2> QED
    BY <2>3, <2>4
<1>9. CASE UNCHANGED A!vars
  BY <1>9 DEF A!vars, PollsInTime, Busy
<1> QED
  BY <1>1, <1>2, <1>3, <1>4, <1>5, <1>6, <1>7, <1>8, <1>9 DEF A!Next

LEMMA TurnInit == A!Init => TurnIInv
<1> SUFFICES ASSUME A!Init PROVE TurnIInv
  OBVIOUS
<1>1. PollsTyped /\ Busy = {}
  BY PollTypes DEF A!Init, PollsTyped, Busy
<1>2. 0 \in 0..MaxTime /\ 0 \in 0..MaxSettles
  BY TurnStreamAssumption DEF A!TurnStreamAssumption
<1>3. A!TypeOK
  BY <1>1, <1>2 DEF A!Init, A!TypeOK, PollsTyped
<1>4. beat = 0 /\ settledAt = 0 /\ openedAt = 0 /\ stream = "none"
  BY DEF A!Init
<1>5. PollsInTime
  BY <1>1, <1>4 DEF PollsInTime
<1> QED
  BY <1>3, <1>4, <1>5 DEF TurnIInv

LEMMA TurnKept == TurnIInv /\ [A!Next]_(A!vars) => TurnIInv'
<1> SUFFICES ASSUME TurnIInv, [A!Next]_(A!vars),
                    stream' = "open", turn'.status \in A!Settled, settledAt' < beat', openedAt' < beat'
             PROVE  \E q \in Busy' : WillTell(q)'
  BY TurnTyped, InTimeKept DEF TurnIInv
<1>0. /\ A!TypeOK /\ PollsInTime /\ PollsTyped
      /\ stream = "open" /\ turn.status \in A!Settled /\ settledAt < beat /\ openedAt < beat =>
           \E q \in Busy : WillTell(q)
      /\ beat \in Nat /\ settledAt \in Nat /\ openedAt \in Nat /\ MaxTime \in Nat
  <2>1. MaxTime \in Nat
    BY TurnStreamAssumption DEF A!TurnStreamAssumption
  <2>2. beat \in 0..MaxTime /\ settledAt \in 0..MaxTime /\ openedAt \in 0..MaxTime
    BY DEF TurnIInv, A!TypeOK
  <2>3. beat \in Nat /\ settledAt \in Nat /\ openedAt \in Nat
    BY <2>1, <2>2
  <2>4. A!TypeOK /\ PollsInTime
    BY DEF TurnIInv
  <2>5. PollsTyped
    BY <2>4 DEF PollsTyped, A!TypeOK
  <2> QED
    BY <2>1, <2>3, <2>4, <2>5 DEF TurnIInv
\* The reads are left alone, and the turn was settled before.
<1>a. ASSUME stream = "open", turn.status \in A!Settled, UNCHANGED <<beat, polls, settledAt, openedAt>>
      PROVE  \E q \in Busy' : WillTell(q)'
  BY <1>0, <1>a DEF WillTell, Busy
<1>1. ASSUME NEW s \in A!Settled, A!Settle(s) PROVE \E q \in Busy' : WillTell(q)'
  <2>1. stream = "open" /\ UNCHANGED <<beat, polls, openedAt>>
    BY <1>1 DEF A!Settle
  <2>2. turn.status \in A!Settled /\ settledAt' = settledAt
    <3>1. turn.status # "pending"
      BY <1>0, <1>1 DEF A!Settle
    <3>2. turn.status \in {"pending"} \cup A!Settled
      BY <1>0 DEF A!TypeOK, A!Turn
    <3> QED
      BY <1>1, <3>1, <3>2 DEF A!Settle
  <2> QED
    BY <1>a, <2>1, <2>2
<1>2. ~A!FirstRead /\ ~A!ClientLeaves
  BY DEF A!FirstRead, A!ClientLeaves
<1>3. ~A!FirstPush
  BY <1>0 DEF A!FirstPush
<1>4. ASSUME NEW q \in A!Polls, A!FindTurn(q) PROVE \E r \in Busy' : WillTell(r)'
  <2>1. UNCHANGED <<beat, turn, stream, settledAt, openedAt>>
    BY <1>4 DEF A!FindTurn
  <2>2. PICK r \in Busy : WillTell(r)
    BY <1>0, <2>1
  <2>3. r \in A!Polls /\ polls[r].pc # "none"
    BY <2>2 DEF Busy
  <2>4. CASE r = q
    <3>1. polls'[r].pc = "found" /\ polls'[r].found = turn /\ polls'[r].since = polls[r].since
      BY <1>0, <1>4, <2>3, <2>4 DEF A!FindTurn, PollsTyped
    <3> QED
      BY <2>1, <2>2, <2>3, <3>1 DEF WillTell, Busy
  <2>5. CASE r # q
    <3>1. polls'[r] = polls[r]
      BY <1>0, <1>4, <2>3, <2>5 DEF A!FindTurn, PollsTyped
    <3> QED
      BY <2>1, <2>2, <2>3, <3>1 DEF WillTell, Busy
  <2> QED
    BY <2>4, <2>5
<1>5. ASSUME NEW q \in A!Polls, A!Push(q) PROVE \E r \in Busy' : WillTell(r)'
  <2>1. UNCHANGED <<beat, turn, settledAt, openedAt>> /\ stream = "open"
    BY <1>5 DEF A!Push
  <2>2. PICK r \in Busy : WillTell(r)
    BY <1>0, <2>1
  <2>3. r \in A!Polls /\ polls[r].pc # "none"
    BY <2>2 DEF Busy
  <2>4. ~(A!Ends(polls[q].found) /\ polls[q].found.status # pushed.status)
    BY <1>5 DEF A!Push
  <2>5. pushed.status = "pending"
    BY <1>0, <2>1 DEF PollsInTime
  <2>6. polls[q].found.status \notin A!Settled
    BY <2>4, <2>5 DEF A!Ends, A!Settled
  <2>7. r # q
    BY <1>5, <2>2, <2>6 DEF A!Push, WillTell
  <2>8. polls'[r] = polls[r]
    BY <1>0, <1>5, <2>3, <2>7 DEF A!Push, PollsTyped
  <2> QED
    BY <2>1, <2>2, <2>3, <2>8 DEF WillTell, Busy
<1>6. ASSUME NEW q \in A!Polls, A!PollFails(q) PROVE FALSE
  BY <1>6 DEF A!PollFails
<1>7. CASE A!Beat
  <2>1. beat' = beat + 1 /\ UNCHANGED <<turn, settledAt, openedAt>> /\ stream = "open" /\ A!OnTime
    BY <1>7 DEF A!Beat
  <2>2. PICK free \in A!Polls :
           /\ polls[free].pc = "none"
           /\ polls' = [polls EXCEPT ![free] = [A!NoPoll EXCEPT !.pc = "asked", !.since = beat']]
    <3>1. \E q \in A!Polls : polls[q].pc = "none"
      BY <1>0, <2>1, AlwaysFree
    <3> QED
      BY <1>7, <3>1 DEF A!Beat
  <2>3. CASE settledAt < beat /\ openedAt < beat
    <3>1. PICK r \in Busy : WillTell(r)
      BY <1>0, <2>1, <2>3
    <3>2. r \in A!Polls /\ polls'[r] = polls[r] /\ polls[r].pc # "none"
      BY <1>0, <2>2, <3>1 DEF Busy, PollsTyped
    <3> QED
      BY <2>1, <3>1, <3>2 DEF WillTell, Busy
  <2>4. CASE ~(settledAt < beat /\ openedAt < beat)
    <3>1. beat' \in 0..MaxTime
      BY <1>0, <1>7 DEF A!Beat
    <3>2. PICK p : p = [A!NoPoll EXCEPT !.pc = "asked", !.since = beat']
      OBVIOUS
    <3>3. p.pc = "asked" /\ p.since = beat' /\ polls' = [polls EXCEPT ![free] = p]
      BY <2>2, <3>1, <3>2, PollTypes
    <3>4. polls'[free] = p
      BY <1>0, <3>3 DEF PollsTyped
    <3>5. beat' <= settledAt + 1 \/ beat' <= openedAt + 1
      BY <1>0, <2>1, <2>4
    <3> QED
      BY <2>1, <3>3, <3>4, <3>5 DEF WillTell, Busy
  <2> QED
    BY <2>3, <2>4
<1>8. CASE UNCHANGED A!vars
  BY <1>8, <1>a DEF A!vars
<1> QED
  BY <1>1, <1>2, <1>3, <1>4, <1>5, <1>6, <1>7, <1>8 DEF A!Next

LEMMA TurnIsHeard == A!Spec => []A!NobodyWaitsInVain
<1>1. TurnIInv => A!NobodyWaitsInVain
  <2> SUFFICES ASSUME TurnIInv, stream = "open", turn.status \in A!Settled
               PROVE  beat <= settledAt + 1 + MaxRead \/ beat <= openedAt + 1 + MaxRead
    BY DEF A!NobodyWaitsInVain
  <2>1. MaxTime \in Nat /\ MaxRead \in Nat
    BY TurnStreamAssumption DEF A!TurnStreamAssumption
  <2>2. beat \in 0..MaxTime /\ settledAt \in 0..MaxTime /\ openedAt \in 0..MaxTime /\ PollsTyped
    BY DEF TurnIInv, A!TypeOK, PollsTyped
  <2>3. CASE settledAt < beat /\ openedAt < beat
    <3>1. PICK q \in Busy : WillTell(q)
      BY <2>3 DEF TurnIInv
    <3>2. polls[q].since \in 0..MaxTime
      BY <2>2 DEF Busy, PollsTyped
    <3>3. beat <= polls[q].since + MaxRead
      BY DEF TurnIInv, PollsInTime
    <3> QED
      BY <2>1, <2>2, <3>1, <3>2, <3>3 DEF WillTell
  <2>4. CASE ~(settledAt < beat /\ openedAt < beat)
    BY <2>1, <2>2, <2>4
  <2> QED
    BY <2>3, <2>4
<1> QED
  BY <1>1, TurnInit, TurnKept, PTL DEF A!Spec

\* NobodyWaitsInVain (jobs.sse.ts, ask.sse.ts): no client waits out its stream on a job that has ended
\* and said so, but for the two exceptions the code has; and no stream stays open on a settled turn for
\* longer than the beat to its next read and that read, however slowly reads are answered.
THEOREM EndsAreHeard == J!Spec /\ A!Spec => []NobodyWaitsInVain
BY JobIsHeard, TurnIsHeard, PTL DEF NobodyWaitsInVain

-------------------------------------------------------------------------------
(* The image of a recipe: lists.                                           *)

\* A list of images whose ids were given out once each, one that has an image, and one the pointer
\* stands right for.
Proper(list, n) ==
    /\ list \in Seq(I!Image)
    /\ \A j \in 1..Len(list) : list[j].id \in 1..n
    /\ \A j, k \in 1..Len(list) : list[j].id = list[k].id => j = k
Among(list, image) == \E k \in 1..Len(list) : list[k].id = image
Valid(list, image) ==
    IF image = 0 THEN \A k \in 1..Len(list) : list[k].status # "published"
    ELSE \E k \in 1..Len(list) : list[k].id = image /\ list[k].status = "published"

LEMMA Listed ==
    ASSUME NEW n \in Nat, NEW list, Proper(list, n)
    PROVE  /\ Len(list) \in Nat /\ DOMAIN list = 1..Len(list)
           /\ \A k \in 1..Len(list) : list[k] \in I!Image /\ list[k].id # 0
<1>1. list \in Seq(I!Image)
  BY DEF Proper
<1>2. Len(list) \in Nat /\ DOMAIN list = 1..Len(list)
  BY <1>1, LenProperties
<1>3. \A k \in 1..Len(list) : list[k] \in I!Image
  BY <1>1, ElementOfSeq
<1>4. \A k \in 1..Len(list) : list[k].id # 0
  BY DEF Proper
<1> QED
  BY <1>2, <1>3, <1>4

\* Ids given out later leave a list as it is.
LEMMA StaysProper ==
    ASSUME NEW n \in Nat, NEW list, Proper(list, n) PROVE Proper(list, n + 1)
BY DEF Proper

\* What is put on the end of a list and is not in it.
LEMMA ProperAppend ==
    ASSUME NEW n \in Nat, NEW list, Proper(list, n), NEW e \in I!Image, e.id \in 1..n, ~Among(list, e.id)
    PROVE  /\ Proper(Append(list, e), n)
           /\ \A image : Among(Append(list, e), image) => Among(list, image) \/ image = e.id
           /\ e.status # "published" =>
                 \A image \in Nat : Valid(list, image) => Valid(Append(list, e), image)
<1> DEFINE new == Append(list, e)
<1>1. /\ list \in Seq(I!Image) /\ Len(list) \in Nat
  BY Listed DEF Proper
<1>2. /\ new \in Seq(I!Image) /\ Len(new) = Len(list) + 1
      /\ \A i \in 1..Len(list) : new[i] = list[i]
      /\ new[Len(list) + 1] = e
  BY <1>1, AppendProperties
<1> HIDE DEF new
<1>3. \A i \in 1..Len(new) : i = Len(list) + 1 \/ i \in 1..Len(list)
  BY <1>1, <1>2
<1>4. \A i \in 1..Len(list) : i \in 1..Len(new)
  BY <1>1, <1>2
<1>5. Proper(new, n)
  BY <1>2, <1>3 DEF Proper, Among
<1>6. \A image : Among(new, image) => Among(list, image) \/ image = e.id
  BY <1>2, <1>3 DEF Among
<1>7. ASSUME e.status # "published", NEW image \in Nat, Valid(list, image) PROVE Valid(new, image)
  BY <1>2, <1>3, <1>4, <1>7 DEF Valid
<1> QED
  BY <1>5, <1>6, <1>7 DEF new

\* A status that is written at a place of the list.
LEMMA PutInPlace ==
    ASSUME NEW n \in Nat, NEW list, Proper(list, n), NEW k \in 1..Len(list), NEW s \in I!Status
    PROVE  /\ I!Put(list, k, s) \in Seq(I!Image) /\ Len(I!Put(list, k, s)) = Len(list)
           /\ I!Put(list, k, s)[k] = [id |-> list[k].id, status |-> s]
           /\ \A j \in 1..Len(list) : j # k => I!Put(list, k, s)[j] = list[j]
<1>1. Len(list) \in Nat /\ DOMAIN list = 1..Len(list) /\ \A j \in 1..Len(list) : list[j] \in I!Image
  BY Listed
<1>2. I!Max({k, Len(list)}) = Len(list)
  <2>1. PICK last \in Nat : last = Len(list)
    BY <1>1
  <2>2. PICK place \in 1..last : place = k
    BY <2>1
  <2>3. place \in Nat /\ place <= last
    BY <2>2
  <2>4. \A x \in {place, last} : (\A y \in {place, last} : x >= y) => x = last
    BY <2>3
  <2>5. last \in {place, last} /\ \A y \in {place, last} : last >= y
    BY <2>3
  <2>6. (CHOOSE x \in {place, last} : \A y \in {place, last} : x >= y) = last
    BY <2>4, <2>5
  <2> QED
    BY <2>1, <2>2, <2>6 DEF I!Max
<1>3. [id |-> list[k].id, status |-> s] \in I!Image
  BY <1>1 DEF I!Image
<1> DEFINE at(j) == IF j = k THEN [id |-> IF k \in DOMAIN list THEN list[k].id ELSE I!NoImage, status |-> s]
                    ELSE IF j \in DOMAIN list THEN list[j] ELSE I!Hole
<1>4. I!Put(list, k, s) = [j \in 1..Len(list) |-> at(j)]
  BY <1>2 DEF I!Put
<1>5. /\ at(k) = [id |-> list[k].id, status |-> s]
      /\ \A j \in 1..Len(list) : j # k => at(j) = list[j]
  BY <1>1
<1>6. \A j \in 1..Len(list) : at(j) \in I!Image
  BY <1>1, <1>3, <1>5
<1> HIDE DEF at
<1>7. [j \in 1..Len(list) |-> at(j)] \in Seq(I!Image)
  BY <1>1, <1>6, IsASeq
<1>8. Len([j \in 1..Len(list) |-> at(j)]) = Len(list)
  BY <1>1, <1>7, LenProperties
<1> QED
  BY <1>4, <1>5, <1>7, <1>8

\* A list less one of its images.
LEMMA WithoutOne ==
    ASSUME NEW n \in Nat, NEW list, Proper(list, n), NEW k \in 1..Len(list)
    PROVE  /\ Proper(I!Without(list, k), n)
           /\ \A j \in 1..Len(I!Without(list, k)) :
                 \E i \in 1..Len(list) : i # k /\ I!Without(list, k)[j] = list[i]
           /\ \A i \in 1..Len(list) : i # k =>
                 \E j \in 1..Len(I!Without(list, k)) : I!Without(list, k)[j] = list[i]
<1> DEFINE before == SubSeq(list, 1, k - 1)
           after == SubSeq(list, k + 1, Len(list))
           new == I!Without(list, k)
<1>1. /\ Len(list) \in Nat /\ k \in Nat /\ k >= 1 /\ k <= Len(list)
      /\ \A j \in 1..Len(list) : list[j] \in I!Image
  BY Listed
<1>2. /\ before \in Seq(I!Image) /\ Len(before) = k - 1
      /\ \A i \in 1..k - 1 : before[i] = list[i]
  <2>1. 1 \in Int /\ k - 1 \in Int /\ \A i \in 1..k - 1 : list[i] \in I!Image
    BY <1>1
  <2>2. /\ before \in Seq(I!Image) /\ Len(before) = IF 1 <= k - 1 THEN k - 1 - 1 + 1 ELSE 0
        /\ \A i \in 1..k - 1 - 1 + 1 : before[i] = list[1 + i - 1]
    BY <2>1, SubSeqProperties
  <2> HIDE DEF before
  <2>3. Len(before) = k - 1
    BY <1>1, <2>2
  <2>4. \A i \in 1..k - 1 : i \in 1..k - 1 - 1 + 1 /\ 1 + i - 1 = i
    BY <1>1
  <2> QED
    BY <2>2, <2>3, <2>4
<1>3. /\ after \in Seq(I!Image) /\ Len(after) = Len(list) - k
      /\ \A i \in 1..Len(list) - k : after[i] = list[i + k]
  <2>1. k + 1 \in Int /\ Len(list) \in Int /\ \A i \in k + 1..Len(list) : list[i] \in I!Image
    BY <1>1
  <2>2. /\ after \in Seq(I!Image)
        /\ Len(after) = IF k + 1 <= Len(list) THEN Len(list) - (k + 1) + 1 ELSE 0
        /\ \A i \in 1..Len(list) - (k + 1) + 1 : after[i] = list[k + 1 + i - 1]
    BY <2>1, SubSeqProperties
  <2> HIDE DEF after
  <2>3. Len(after) = Len(list) - k
    BY <1>1, <2>2
  <2>4. \A i \in 1..Len(list) - k : i \in 1..Len(list) - (k + 1) + 1 /\ k + 1 + i - 1 = i + k
    BY <1>1
  <2> QED
    BY <2>2, <2>3, <2>4
<1>4. new = before \o after
  BY DEF I!Without
<1> HIDE DEF before, after, new
<1>5. /\ new \in Seq(I!Image) /\ Len(new) = Len(list) - 1
      /\ \A i \in 1..Len(list) - 1 : new[i] = IF i <= k - 1 THEN before[i] ELSE after[i - (k - 1)]
  <2>1. Len(before) + Len(after) = Len(list) - 1
    BY <1>1, <1>2, <1>3
  <2>2. /\ before \o after \in Seq(I!Image)
        /\ Len(before \o after) = Len(before) + Len(after)
        /\ \A i \in 1..Len(before) + Len(after) : (before \o after)[i] =
              IF i <= Len(before) THEN before[i] ELSE after[i - Len(before)]
    BY <1>2, <1>3, ConcatProperties
  <2> QED
    BY <1>2, <1>4, <2>1, <2>2
<1>6. /\ \A i \in 1..Len(new) : i <= k - 1 => new[i] = list[i]
      /\ \A i \in 1..Len(new) : i > k - 1 => new[i] = list[i + 1]
  <2>1. ASSUME NEW i \in 1..Len(new), i <= k - 1 PROVE new[i] = list[i]
    <3>1. i \in 1..Len(list) - 1 /\ i \in 1..k - 1
      BY <1>1, <1>5, <2>1
    <3> QED
      BY <1>2, <1>5, <2>1, <3>1
  <2>2. ASSUME NEW i \in 1..Len(new), i > k - 1 PROVE new[i] = list[i + 1]
    <3>1. i \in 1..Len(list) - 1 /\ i - (k - 1) \in 1..Len(list) - k /\ ~(i <= k - 1)
          /\ i - (k - 1) + k = i + 1
      BY <1>1, <1>5, <2>2
    <3>2. new[i] = after[i - (k - 1)]
      BY <1>5, <3>1
    <3>3. after[i - (k - 1)] = list[i - (k - 1) + k]
      BY <1>3, <3>1
    <3> QED
      BY <3>1, <3>2, <3>3
  <2> QED
    BY <2>1, <2>2
<1>7. ASSUME NEW j \in 1..Len(new)
      PROVE  \E i \in 1..Len(list) : i # k /\ new[j] = list[i] /\ i = IF j <= k - 1 THEN j ELSE j + 1
  BY <1>1, <1>5, <1>6
<1>8. ASSUME NEW i \in 1..Len(list), i # k PROVE \E j \in 1..Len(new) : new[j] = list[i]
  <2>1. CASE i < k
    <3>1. i \in 1..Len(new) /\ i <= k - 1
      BY <1>1, <1>5, <2>1
    <3> QED
      BY <1>6, <3>1
  <2>2. CASE i > k
    <3>1. i - 1 \in 1..Len(new) /\ i - 1 > k - 1 /\ i - 1 + 1 = i
      BY <1>1, <1>5, <2>2
    <3> QED
      BY <1>6, <3>1
  <2> QED
    BY <1>1, <1>8, <2>1, <2>2
<1>9. \A j \in 1..Len(new) : new[j].id \in 1..n
  BY <1>7 DEF Proper
<1>10. ASSUME NEW j \in 1..Len(new), NEW l \in 1..Len(new), new[j].id = new[l].id PROVE j = l
  <2>1. PICK i \in 1..Len(list) : new[j] = list[i] /\ i = IF j <= k - 1 THEN j ELSE j + 1
    BY <1>7
  <2>2. PICK m \in 1..Len(list) : new[l] = list[m] /\ m = IF l <= k - 1 THEN l ELSE l + 1
    BY <1>7
  <2>3. i = m
    BY <1>10, <2>1, <2>2 DEF Proper
  <2> QED
    BY <1>1, <2>1, <2>2, <2>3
<1>11. Proper(new, n)
  BY <1>5, <1>9, <1>10 DEF Proper
<1> QED
  BY <1>7, <1>8, <1>11 DEF new

LEMMA LeastIsOne == ASSUME NEW S, S \subseteq Nat, S # {} PROVE I!Min(S) \in S
<1>1. \A x, y \in Nat : <<x, y>> \in OpToRel(<, Nat) <=> x < y
  BY DEF OpToRel
<1>2. \E x \in S : \A y \in S : ~(<<y, x>> \in OpToRel(<, Nat))
  BY NatLessThanWellFounded, WFMin
<1>3. PICK x \in S : \A y \in S : ~(<<y, x>> \in OpToRel(<, Nat))
  BY <1>2
<1>4. \A y \in S : x <= y
  <2> TAKE y \in S
  <2>1. x \in Nat /\ y \in Nat /\ ~(y < x)
    BY <1>1, <1>3
  <2> QED
    BY <2>1
<1> QED
  BY <1>3, <1>4 DEF I!Min

\* Where an image of the list is, and the image that takes over from it.
LEMMA PlaceOf ==
    ASSUME NEW n \in Nat, NEW list, Proper(list, n), NEW image, Among(list, image)
    PROVE  /\ I!Min(I!PlacesOf(list, image)) \in 1..Len(list)
           /\ list[I!Min(I!PlacesOf(list, image))].id = image
<1>1. DOMAIN list = 1..Len(list)
  BY Listed
<1>2. I!PlacesOf(list, image) \subseteq Nat /\ I!PlacesOf(list, image) # {}
  BY <1>1 DEF I!PlacesOf, Among
<1>3. I!Min(I!PlacesOf(list, image)) \in I!PlacesOf(list, image)
  BY <1>2, LeastIsOne
<1> QED
  BY <1>1, <1>3 DEF I!PlacesOf

LEMMA NextPublished ==
    ASSUME NEW n \in Nat, NEW list, Proper(list, n), NEW except
    PROVE  \/ /\ I!nextPublished(list, except) = 0
              /\ \A k \in 1..Len(list) : list[k].status = "published" => list[k].id = except
           \/ \E k \in 1..Len(list) : /\ list[k].status = "published" /\ list[k].id # except
                                      /\ I!nextPublished(list, except) = list[k].id
<1> DEFINE hits == I!Published(list, except)
<1>1. DOMAIN list = 1..Len(list)
  BY Listed
<1>2. CASE hits = {}
  BY <1>1, <1>2 DEF I!Published, I!nextPublished, I!NoImage
<1>3. CASE hits # {}
  <2>1. hits \subseteq Nat
    BY <1>1 DEF I!Published
  <2>2. I!Min(hits) \in hits
    BY <1>3, <2>1, LeastIsOne
  <2> QED
    BY <1>1, <1>3, <2>2 DEF I!Published, I!nextPublished
<1> QED
  BY <1>2, <1>3

-------------------------------------------------------------------------------
(* The image of a recipe: the calls.                                       *)

Adding == {"upload", "generate"}
Saver == [op : I!Op, image : Nat, seen : Seq(I!Image), first : Nat]

\* What a call has read: the image it is about was in the list, and was public where it had to be.
Reads(call, n) ==
    /\ Proper(call.seen, n)
    /\ call.op \notin Adding \cup {"none"} => call.image # 0 /\ Among(call.seen, call.image)
    /\ call.op = "setPrimary" => Valid(call.seen, call.image)

\* As long as nothing was saved over what another call did, the pointer stands right, and an id that
\* was given out for an image to come is in nobody's list and in nobody else's hands.
Tidy ==
    /\ made \in 0..MaxImages /\ primary \in Nat /\ Proper(images, made) /\ Valid(images, primary)
    /\ saves \in [Savers -> Saver]
    /\ \A c \in Savers : Reads(saves[c], made)
    /\ \A c \in Savers : saves[c].op \in Adding =>
          /\ saves[c].image \in 1..made /\ ~Among(images, saves[c].image)
          /\ \A d \in Savers : ~Among(saves[d].seen, saves[c].image)
          /\ \A d \in Savers : d # c /\ saves[d].op \in Adding => saves[d].image # saves[c].image
ImagesIInv == crossed \in BOOLEAN /\ (~crossed => Tidy)

LEMMA ImagesInit == I!Init => ImagesIInv
<1> SUFFICES ASSUME I!Init PROVE ImagesIInv
  OBVIOUS
<1> USE ImagesAssumption DEF I!ImagesAssumption
<1>1. /\ images = <<>> /\ primary = 0 /\ made = 0 /\ crossed = FALSE
      /\ saves = [c \in Savers |-> I!Idle]
  BY DEF I!Init, I!NoImage
<1>2. /\ <<>> \in Seq(I!Image) /\ Len(<<>>) = 0
  BY EmptySeq
<1>3. Proper(<<>>, 0) /\ Valid(<<>>, 0)
  BY <1>2 DEF Proper, Valid
<1>4. /\ I!Idle.op = "none" /\ I!Idle.seen = <<>> /\ I!Idle \in Saver
  BY <1>2 DEF I!Idle, I!NoImage, Saver, I!Op
<1>5. Reads(I!Idle, 0)
  BY <1>3, <1>4 DEF Reads, Adding
<1>6. /\ saves \in [Savers -> Saver]
      /\ \A c \in Savers : saves[c] = I!Idle
  BY <1>1, <1>4
<1>7. \A c \in Savers : saves[c].op \notin Adding
  BY <1>4, <1>6 DEF Adding
<1>8. made \in 0..MaxImages
  BY <1>1
<1> QED
  BY <1>1, <1>3, <1>5, <1>6, <1>7, <1>8 DEF Tidy, ImagesIInv

\* What a call has read is what the list begins with, and holds all that is public.
LEMMA StillThere ==
    ASSUME Tidy, NEW c \in Savers, I!StillTrue(c)
    PROVE  /\ primary = saves[c].first
           /\ \A j \in 1..Len(saves[c].seen) : j \in 1..Len(images) /\ images[j] = saves[c].seen[j]
           /\ \A j \in 1..Len(images) : images[j].status = "published" => j \in 1..Len(saves[c].seen)
<1> DEFINE seen == saves[c].seen
<1>1. made \in Nat /\ Proper(images, made) /\ Proper(seen, made)
  BY DEF Tidy, Reads
<1>2. /\ Len(images) \in Nat /\ DOMAIN images = 1..Len(images) /\ Len(seen) \in Nat
      /\ \A k \in 1..Len(images) : images[k] \in I!Image /\ images[k].id # 0
  BY <1>1, Listed
<1>3. /\ Len(seen) <= Len(images) /\ SubSeq(images, 1, Len(seen)) = seen
      /\ \A k \in I!Published(images, I!NoImage) : k <= Len(seen)
      /\ primary = saves[c].first
  BY DEF I!StillTrue
<1>4. \A j \in 1..Len(seen) : j \in 1..Len(images)
  BY <1>2, <1>3
<1>5. \A j \in 1..Len(seen) : images[j] = seen[j]
  <2>1. \A i \in 1..Len(seen) : images[i] \in I!Image
    BY <1>2, <1>4
  <2>2. 1 \in Int /\ Len(seen) \in Int
    BY <1>2
  <2>3. \A i \in 1..Len(seen) - 1 + 1 : SubSeq(images, 1, Len(seen))[i] = images[1 + i - 1]
    BY <2>1, <2>2, SubSeqProperties
  <2> HIDE DEF seen
  <2>4. \A i \in 1..Len(seen) : i \in 1..Len(seen) - 1 + 1 /\ 1 + i - 1 = i
    BY <1>2
  <2> QED
    BY <1>3, <2>3, <2>4
<1>6. ASSUME NEW j \in 1..Len(images), images[j].status = "published" PROVE j \in 1..Len(seen)
  <2>1. j \in I!Published(images, I!NoImage)
    BY <1>2, <1>6 DEF I!Published, I!NoImage
  <2> QED
    BY <1>2, <1>3, <2>1
<1> QED
  BY <1>3, <1>4, <1>5, <1>6

\* A status that is written where nothing was saved in between is that of the image, and alone new.
LEMMA Written ==
    ASSUME Tidy, NEW c \in Savers, I!StillTrue(c), saves[c].op \notin Adding \cup {"none"},
           NEW s \in I!Status, I!Writes(c, s)
    PROVE  \E k \in 1..Len(saves[c].seen) :
              /\ k \in 1..Len(images) /\ images[k].id = saves[c].image
              /\ Len(images') = Len(images) /\ Proper(images', made)
              /\ images'[k].id = saves[c].image /\ images'[k].status = s
              /\ \A j \in 1..Len(images) : j # k => images'[j] = images[j]
<1> DEFINE seen == saves[c].seen
           k == I!Min(I!PlacesOf(seen, saves[c].image))
<1>1. made \in Nat /\ Proper(images, made) /\ Proper(seen, made) /\ Among(seen, saves[c].image)
  BY DEF Tidy, Reads
<1>2. k \in 1..Len(seen) /\ seen[k].id = saves[c].image
  BY <1>1, PlaceOf
<1>3. k \in 1..Len(images) /\ images[k] = seen[k]
  BY <1>2, StillThere
<1>4. /\ DOMAIN images = 1..Len(images)
      /\ \A j \in 1..Len(images) : images[j] \in I!Image
  BY <1>1, Listed
<1>5. images' = IF seen[k].status # s THEN I!Put(images, k, s)
                ELSE IF k \in DOMAIN images \/ s = "review" THEN images
                ELSE I!Put(images, k, "pending")
  BY DEF I!Writes
<1> HIDE DEF seen, k
<1>6. CASE seen[k].status # s
  <2>1. images' = I!Put(images, k, s)
    BY <1>5, <1>6
  <2>2. /\ images' \in Seq(I!Image) /\ Len(images') = Len(images)
        /\ images'[k] = [id |-> images[k].id, status |-> s]
        /\ \A j \in 1..Len(images) : j # k => images'[j] = images[j]
    BY <1>1, <1>3, <2>1, PutInPlace
  <2>3. images'[k].id = images[k].id /\ images'[k].status = s
    BY <2>2
  <2>4. \A j \in 1..Len(images) : images'[j].id = images[j].id
    BY <2>2, <2>3
  <2>5. Proper(images', made)
    BY <1>1, <2>2, <2>4 DEF Proper
  <2> QED
    BY <1>2, <1>3, <2>2, <2>3, <2>5 DEF seen
<1>7. CASE seen[k].status = s
  <2>1. images' = images
    BY <1>3, <1>4, <1>5, <1>7
  <2> QED
    BY <1>1, <1>2, <1>3, <1>7, <2>1 DEF seen
<1> QED
  BY <1>6, <1>7

\* A call that ends and leaves the list and the pointer right leaves everything tidy.
LEMMA EndKept ==
    ASSUME Tidy, NEW c \in Savers, I!Ends(c), primary' \in Nat, Proper(images', made),
           Valid(images', primary'),
           \A image : Among(images', image) =>
              Among(images, image) \/ (saves[c].op \in Adding /\ image = saves[c].image)
    PROVE  Tidy'
<1>1. saves' = [saves EXCEPT ![c] = I!Idle] /\ made' = made
  BY DEF I!Ends
<1>2. /\ <<>> \in Seq(I!Image) /\ Len(<<>>) = 0
  BY EmptySeq
<1>3. /\ I!Idle.op = "none" /\ I!Idle.seen = <<>> /\ I!Idle \in Saver
  BY <1>2 DEF I!Idle, I!NoImage, Saver, I!Op
<1>4. /\ saves' \in [Savers -> Saver]
      /\ saves'[c] = I!Idle
      /\ \A d \in Savers : d # c => saves'[d] = saves[d]
  BY <1>1, <1>3 DEF Tidy
<1>5. Reads(I!Idle, made)
  <2>1. Proper(<<>>, made)
    BY <1>2 DEF Proper
  <2> QED
    BY <1>3, <2>1 DEF Reads, Adding
<1>6. \A d \in Savers : Reads(saves'[d], made')
  BY <1>1, <1>4, <1>5 DEF Tidy
<1>7. \A image : ~Among(<<>>, image)
  BY <1>2 DEF Among
<1>8. ASSUME NEW d \in Savers, saves'[d].op \in Adding
      PROVE  /\ saves'[d].image \in 1..made' /\ ~Among(images', saves'[d].image)
             /\ \A e \in Savers : ~Among(saves'[e].seen, saves'[d].image)
             /\ \A e \in Savers : e # d /\ saves'[e].op \in Adding => saves'[e].image # saves'[d].image
  <2>1. d # c /\ saves'[d] = saves[d]
    BY <1>3, <1>4, <1>8 DEF Adding
  <2>2. /\ saves[d].image \in 1..made /\ ~Among(images, saves[d].image)
        /\ \A e \in Savers : ~Among(saves[e].seen, saves[d].image)
        /\ \A e \in Savers : e # d /\ saves[e].op \in Adding => saves[e].image # saves[d].image
    BY <1>8, <2>1 DEF Tidy
  <2>3. ~Among(images', saves[d].image)
    BY <2>1, <2>2
  <2>4. \A e \in Savers : ~Among(saves'[e].seen, saves[d].image)
    BY <1>3, <1>4, <1>7, <2>2
  <2>5. \A e \in Savers : e # d /\ saves'[e].op \in Adding => saves'[e].image # saves[d].image
    BY <1>3, <1>4, <2>2 DEF Adding
  <2> QED
    BY <1>1, <2>1, <2>2, <2>3, <2>4, <2>5
<1>9. made' \in 0..MaxImages /\ Proper(images', made')
  BY <1>1 DEF Tidy
<1> QED
  BY <1>4, <1>6, <1>8, <1>9 DEF Tidy

\* The pointer stands on an image that is public and is not the one about to change.
LEMMA PointerKept ==
    ASSUME NEW list, NEW new, NEW k \in 1..Len(list), NEW image, NEW first \in Nat,
           list[k].id = image, first # image, Len(new) = Len(list),
           \A j \in 1..Len(list) : j # k => new[j] = list[j],
           new[k].status # "published", Valid(list, first)
    PROVE  Valid(new, first)
BY DEF Valid

LEMMA BeginAddKept ==
    ASSUME Tidy, NEW c \in Savers, NEW op \in I!Op, I!BeginAdd(c, op) PROVE Tidy'
<1> DEFINE call == [op |-> op, image |-> made + 1, seen |-> images, first |-> primary]
<1> USE ImagesAssumption DEF I!ImagesAssumption
<1>1. /\ op \in Adding /\ made < MaxImages /\ made' = made + 1
      /\ images' = images /\ primary' = primary
      /\ saves' = [saves EXCEPT ![c] = call]
  BY DEF I!BeginAdd, I!Begin, Adding
<1>2. /\ made \in Nat /\ made' \in 0..MaxImages /\ made' = made + 1
  BY <1>1 DEF Tidy
<1>3. Proper(images, made) /\ Valid(images, primary) /\ primary \in Nat
  BY DEF Tidy
<1>4. call \in Saver
  BY <1>2, <1>3 DEF Saver, Proper
<1>5. /\ saves' \in [Savers -> Saver] /\ saves'[c] = call
      /\ \A d \in Savers : d # c => saves'[d] = saves[d]
  BY <1>1, <1>4 DEF Tidy
<1>6. /\ call.op = op /\ call.image = made + 1 /\ call.seen = images
  OBVIOUS
<1> HIDE DEF call
<1>7. Proper(images, made')
  BY <1>2, <1>3, StaysProper
<1>8. ASSUME NEW d \in Savers PROVE Reads(saves'[d], made')
  <2>1. CASE d = c
    BY <1>1, <1>5, <1>6, <1>7, <2>1 DEF Reads, Adding
  <2>2. CASE d # c
    <3>1. Reads(saves[d], made)
      BY DEF Tidy
    <3>2. Proper(saves[d].seen, made')
      BY <1>2, <3>1, StaysProper DEF Reads
    <3> QED
      BY <1>5, <2>2, <3>1, <3>2 DEF Reads
  <2> QED
    BY <2>1, <2>2
<1>9. \A list : Proper(list, made) => ~Among(list, made + 1)
  <2>1. made + 1 \notin 1..made
    BY <1>2
  <2> QED
    BY <2>1 DEF Proper, Among
<1>10. \A d \in Savers : Proper(saves[d].seen, made)
  BY DEF Tidy, Reads
<1>11. ASSUME NEW d \in Savers, saves'[d].op \in Adding
       PROVE  /\ saves'[d].image \in 1..made' /\ ~Among(images', saves'[d].image)
              /\ \A e \in Savers : ~Among(saves'[e].seen, saves'[d].image)
              /\ \A e \in Savers : e # d /\ saves'[e].op \in Adding => saves'[e].image # saves'[d].image
  <2>1. \A e \in Savers : saves[e].op \in Adding => saves[e].image \in 1..made
    BY DEF Tidy
  <2>2. \A x \in 1..made : x # made + 1
    BY <1>2
  <2>3. CASE d = c
    <3>1. saves'[d].image = made + 1
      BY <1>5, <1>6, <2>3
    <3>2. made + 1 \in 1..made'
      BY <1>2
    <3>3. \A e \in Savers : ~Among(saves'[e].seen, made + 1)
      BY <1>3, <1>5, <1>6, <1>9, <1>10
    <3>4. \A e \in Savers : e # d /\ saves'[e].op \in Adding => saves'[e].image # made + 1
      BY <1>5, <2>1, <2>2, <2>3
    <3> QED
      BY <1>1, <1>3, <1>9, <3>1, <3>2, <3>3, <3>4
  <2>4. CASE d # c
    <3>1. saves'[d] = saves[d]
      BY <1>5, <2>4
    <3>2. /\ saves[d].image \in 1..made /\ ~Among(images, saves[d].image)
          /\ \A e \in Savers : ~Among(saves[e].seen, saves[d].image)
          /\ \A e \in Savers : e # d /\ saves[e].op \in Adding => saves[e].image # saves[d].image
      BY <1>11, <3>1 DEF Tidy
    <3>3. saves[d].image \in 1..made'
      BY <1>2, <3>2
    <3>4. \A e \in Savers : ~Among(saves'[e].seen, saves[d].image)
      BY <1>5, <1>6, <3>2
    <3>5. \A e \in Savers : e # d /\ saves'[e].op \in Adding => saves'[e].image # saves[d].image
      BY <1>5, <1>6, <2>2, <3>2
    <3> QED
      BY <1>1, <3>1, <3>2, <3>3, <3>4, <3>5
  <2> QED
    BY <2>3, <2>4
<1> QED
  BY <1>1, <1>2, <1>3, <1>5, <1>7, <1>8, <1>11 DEF Tidy

LEMMA BeginReviewKept ==
    ASSUME Tidy, NEW c \in Savers, NEW op \in I!Op, NEW image \in I!Ids, I!BeginReview(c, op, image)
    PROVE  Tidy'
<1> DEFINE call == [op |-> op, image |-> image, seen |-> images, first |-> primary]
<1> USE ImagesAssumption DEF I!ImagesAssumption
<1>1. /\ op \notin Adding /\ made' = made /\ images' = images /\ primary' = primary
      /\ saves' = [saves EXCEPT ![c] = call]
      /\ I!PlacesOf(images, image) # {}
      /\ op = "setPrimary" => images[I!Min(I!PlacesOf(images, image))].status = "published"
  BY DEF I!BeginReview, I!Begin, I!Reaches, I!StatusOf, Adding
<1>2. /\ made \in Nat /\ Proper(images, made) /\ Valid(images, primary) /\ primary \in Nat
  BY DEF Tidy
<1>3. image \in Nat /\ image # 0
  BY DEF I!Ids
<1>4. call \in Saver
  BY <1>2, <1>3 DEF Saver, Proper
<1>5. /\ saves' \in [Savers -> Saver] /\ saves'[c] = call
      /\ \A d \in Savers : d # c => saves'[d] = saves[d]
  BY <1>1, <1>4 DEF Tidy
<1>6. /\ call.op = op /\ call.image = image /\ call.seen = images
  OBVIOUS
<1> HIDE DEF call
<1>7. Among(images, image)
  <2>1. DOMAIN images = 1..Len(images)
    BY <1>2, Listed
  <2> QED
    BY <1>1, <2>1 DEF I!PlacesOf, Among
<1>8. op = "setPrimary" => Valid(images, image)
  <2>1. /\ I!Min(I!PlacesOf(images, image)) \in 1..Len(images)
        /\ images[I!Min(I!PlacesOf(images, image))].id = image
    BY <1>2, <1>7, PlaceOf
  <2> QED
    BY <1>1, <1>3, <2>1 DEF Valid
<1>9. \A d \in Savers : Reads(saves'[d], made')
  <2>1. Reads(call, made)
    BY <1>1, <1>2, <1>3, <1>6, <1>7, <1>8 DEF Reads
  <2> QED
    BY <1>1, <1>5, <2>1 DEF Tidy
<1>10. ASSUME NEW d \in Savers, saves'[d].op \in Adding
       PROVE  /\ saves'[d].image \in 1..made' /\ ~Among(images', saves'[d].image)
              /\ \A e \in Savers : ~Among(saves'[e].seen, saves'[d].image)
              /\ \A e \in Savers : e # d /\ saves'[e].op \in Adding => saves'[e].image # saves'[d].image
  <2>1. d # c /\ saves'[d] = saves[d]
    BY <1>1, <1>5, <1>6, <1>10
  <2>2. /\ saves[d].image \in 1..made /\ ~Among(images, saves[d].image)
        /\ \A e \in Savers : ~Among(saves[e].seen, saves[d].image)
        /\ \A e \in Savers : e # d /\ saves[e].op \in Adding => saves[e].image # saves[d].image
    BY <1>10, <2>1 DEF Tidy
  <2>3. \A e \in Savers : ~Among(saves'[e].seen, saves[d].image)
    BY <1>5, <1>6, <2>2
  <2>4. \A e \in Savers : e # d /\ saves'[e].op \in Adding => saves'[e].image # saves[d].image
    BY <1>1, <1>5, <1>6, <2>2
  <2> QED
    BY <1>1, <2>1, <2>2, <2>3, <2>4
<1>11. made' \in 0..MaxImages
  BY <1>1 DEF Tidy
<1> QED
  BY <1>1, <1>2, <1>5, <1>9, <1>10, <1>11 DEF Tidy

LEMMA AddKept == ASSUME Tidy, NEW c \in Savers, I!Add(c) PROVE Tidy'
<1> DEFINE e == [id |-> saves[c].image, status |-> IF saves[c].op = "upload" THEN "pending" ELSE "review"]
<1> USE ImagesAssumption DEF I!ImagesAssumption
<1>1. /\ saves[c].op \in Adding /\ I!Ends(c) /\ images' = Append(images, e) /\ primary' = primary
  BY DEF I!Add, Adding
<1>2. /\ made \in Nat /\ made <= MaxImages
      /\ Proper(images, made) /\ Valid(images, primary) /\ primary \in Nat
      /\ saves[c].image \in 1..made /\ ~Among(images, saves[c].image)
  BY <1>1 DEF Tidy
<1>3. saves[c].image \in I!Ids
  BY <1>2 DEF I!Ids
<1>4. /\ e \in I!Image /\ e.id = saves[c].image /\ e.status # "published"
  BY <1>3 DEF I!Image, I!Status
<1> HIDE DEF e
<1>5. /\ Proper(Append(images, e), made)
      /\ \A image : Among(Append(images, e), image) => Among(images, image) \/ image = e.id
      /\ Valid(Append(images, e), primary)
  BY <1>2, <1>4, ProperAppend
<1>6. /\ primary' \in Nat /\ Proper(images', made) /\ Valid(images', primary')
      /\ \A image : Among(images', image) =>
            Among(images, image) \/ (saves[c].op \in Adding /\ image = saves[c].image)
  BY <1>1, <1>2, <1>4, <1>5
<1> QED
  BY <1>1, <1>6, EndKept

\* A status that is written: the pointer either goes to an image that is public, or stays on one.
LEMMA WriteKept ==
    ASSUME Tidy, NEW c \in Savers, I!Ends(c), primary' \in Nat, Len(images') = Len(images),
           Proper(images', made), \A j \in 1..Len(images) : images'[j].id = images[j].id,
           Valid(images', primary')
    PROVE  Tidy'
<1>1. \A image : Among(images', image) => Among(images, image)
  BY DEF Among
<1> QED
  BY <1>1, EndKept

LEMMA ConfirmKept ==
    ASSUME Tidy, NEW c \in Savers, I!Confirm(c), I!StillTrue(c), saves[c].image # primary PROVE Tidy'
<1>1. /\ saves[c].op \notin Adding \cup {"none"} /\ I!Ends(c) /\ I!Writes(c, "review")
      /\ primary' = primary
  BY DEF I!Confirm, Adding
<1>2. "review" \in I!Status /\ primary \in Nat /\ Valid(images, primary)
  BY DEF I!Status, Tidy
<1>3. PICK k \in 1..Len(saves[c].seen) :
              /\ k \in 1..Len(images) /\ images[k].id = saves[c].image
              /\ Len(images') = Len(images) /\ Proper(images', made)
              /\ images'[k].id = saves[c].image /\ images'[k].status = "review"
              /\ \A j \in 1..Len(images) : j # k => images'[j] = images[j]
  BY <1>1, <1>2, Written
<1>4. \A j \in 1..Len(images) : images'[j].id = images[j].id
  BY <1>3
<1>5. Valid(images', primary)
  BY <1>2, <1>3, PointerKept
<1> QED
  BY <1>1, <1>2, <1>3, <1>4, <1>5, WriteKept

LEMMA PublishKept == ASSUME Tidy, NEW c \in Savers, I!Publish(c), I!StillTrue(c) PROVE Tidy'
<1>1. /\ saves[c].op \notin Adding \cup {"none"} /\ I!Ends(c) /\ I!Writes(c, "published")
      /\ primary' = IF saves[c].first = 0 THEN saves[c].image ELSE primary
  BY DEF I!Publish, I!NoImage, Adding
<1>2. /\ "published" \in I!Status /\ primary \in Nat /\ Valid(images, primary)
      /\ saves[c] \in Saver /\ Reads(saves[c], made)
  BY DEF I!Status, Tidy
<1>3. saves[c].image \in Nat /\ saves[c].image # 0
  BY <1>1, <1>2 DEF Saver, Reads
<1>4. PICK k \in 1..Len(saves[c].seen) :
              /\ k \in 1..Len(images) /\ images[k].id = saves[c].image
              /\ Len(images') = Len(images) /\ Proper(images', made)
              /\ images'[k].id = saves[c].image /\ images'[k].status = "published"
              /\ \A j \in 1..Len(images) : j # k => images'[j] = images[j]
  BY <1>1, <1>2, Written
<1>5. \A j \in 1..Len(images) : images'[j].id = images[j].id
  BY <1>4
<1>6. primary = saves[c].first
  BY StillThere
<1>7. CASE primary = 0
  <2>1. primary' = saves[c].image
    BY <1>1, <1>6, <1>7
  <2>2. Valid(images', saves[c].image)
    BY <1>3, <1>4 DEF Valid
  <2> QED
    BY <1>1, <1>3, <1>4, <1>5, <2>1, <2>2, WriteKept
<1>8. CASE primary # 0
  <2>1. primary' = primary
    BY <1>1, <1>6, <1>8
  <2>2. PICK j \in 1..Len(images) : images[j].id = primary /\ images[j].status = "published"
    BY <1>2, <1>8 DEF Valid
  <2>3. images'[j].id = primary /\ images'[j].status = "published"
    BY <1>4, <1>5, <2>2
  <2>4. Valid(images', primary)
    BY <1>4, <1>8, <2>3 DEF Valid
  <2> QED
    BY <1>1, <1>2, <1>4, <1>5, <2>1, <2>4, WriteKept
<1> QED
  BY <1>7, <1>8

\* Who takes over from the image: one that is public in the list that was read, or nobody.
LEMMA TakesOver ==
    ASSUME Tidy, NEW c \in Savers, I!StillTrue(c), NEW new, NEW image, Proper(images, made),
           \A j \in 1..Len(images) : images[j].status = "published" /\ images[j].id # image =>
              \E i \in 1..Len(new) : new[i].id = images[j].id /\ new[i].status = "published",
           \A i \in 1..Len(new) : new[i].status = "published" =>
              \E j \in 1..Len(images) : images[j].status = "published" /\ images[j].id # image
    PROVE  /\ I!nextPublished(saves[c].seen, image) \in Nat
           /\ Valid(new, I!nextPublished(saves[c].seen, image))
<1> DEFINE seen == saves[c].seen
           next == I!nextPublished(seen, image)
<1>1. made \in Nat /\ Proper(seen, made)
  BY DEF Tidy, Reads
<1>2. \/ /\ next = 0
         /\ \A k \in 1..Len(seen) : seen[k].status = "published" => seen[k].id = image
      \/ \E k \in 1..Len(seen) : seen[k].status = "published" /\ seen[k].id # image /\ next = seen[k].id
  BY <1>1, NextPublished
<1>3. /\ \A j \in 1..Len(seen) : j \in 1..Len(images) /\ images[j] = seen[j]
      /\ \A j \in 1..Len(images) : images[j].status = "published" => j \in 1..Len(seen)
  BY StillThere
<1> HIDE DEF seen, next
<1>4. CASE /\ next = 0
           /\ \A k \in 1..Len(seen) : seen[k].status = "published" => seen[k].id = image
  <2>1. \A i \in 1..Len(new) : new[i].status # "published"
    BY <1>3, <1>4
  <2> QED
    BY <1>4, <2>1 DEF Valid, seen, next
<1>5. CASE \E k \in 1..Len(seen) : seen[k].status = "published" /\ seen[k].id # image /\ next = seen[k].id
  <2>1. PICK k \in 1..Len(seen) : seen[k].status = "published" /\ seen[k].id # image /\ next = seen[k].id
    BY <1>5
  <2>2. seen[k].id \in 1..made
    BY <1>1 DEF Proper
  <2>3. next \in Nat /\ next # 0
    BY <1>1, <2>1, <2>2
  <2>4. \E i \in 1..Len(new) : new[i].id = next /\ new[i].status = "published"
    BY <1>3, <2>1
  <2> QED
    BY <2>3, <2>4 DEF Valid, seen, next
<1> QED
  BY <1>2, <1>4, <1>5

LEMMA RejectKept == ASSUME Tidy, NEW c \in Savers, I!Reject(c), I!StillTrue(c) PROVE Tidy'
<1>1. /\ saves[c].op \notin Adding \cup {"none"} /\ I!Ends(c) /\ I!Writes(c, "rejected")
      /\ primary' = IF saves[c].first = saves[c].image
                    THEN I!nextPublished(saves[c].seen, saves[c].image) ELSE primary
  BY DEF I!Reject, Adding
<1>2. /\ "rejected" \in I!Status /\ primary \in Nat /\ Valid(images, primary) /\ Proper(images, made)
  BY DEF I!Status, Tidy
<1>3. PICK k \in 1..Len(saves[c].seen) :
              /\ k \in 1..Len(images) /\ images[k].id = saves[c].image
              /\ Len(images') = Len(images) /\ Proper(images', made)
              /\ images'[k].id = saves[c].image /\ images'[k].status = "rejected"
              /\ \A j \in 1..Len(images) : j # k => images'[j] = images[j]
  BY <1>1, <1>2, Written
<1>4. \A j \in 1..Len(images) : images'[j].id = images[j].id
  BY <1>3
<1>5. primary = saves[c].first
  BY StillThere
<1>6. CASE primary = saves[c].image
  <2>1. \A j \in 1..Len(images) : images[j].status = "published" /\ images[j].id # saves[c].image =>
           \E i \in 1..Len(images') : images'[i].id = images[j].id /\ images'[i].status = "published"
    <3> TAKE j \in 1..Len(images)
    <3> HAVE images[j].status = "published" /\ images[j].id # saves[c].image
    <3>1. j # k /\ images'[j] = images[j] /\ j \in 1..Len(images')
      BY <1>3
    <3> QED
      BY <3>1
  <2>2. \A i \in 1..Len(images') : images'[i].status = "published" =>
           \E j \in 1..Len(images) : images[j].status = "published" /\ images[j].id # saves[c].image
    <3> TAKE i \in 1..Len(images')
    <3> HAVE images'[i].status = "published"
    <3>1. i \in 1..Len(images) /\ i # k /\ images'[i] = images[i]
      BY <1>3
    <3>2. images[i].id # images[k].id
      BY <1>2, <1>3, <3>1 DEF Proper
    <3> QED
      BY <1>3, <3>1, <3>2
  <2>3. primary' = I!nextPublished(saves[c].seen, saves[c].image)
    BY <1>1, <1>5, <1>6
  <2>4. primary' \in Nat /\ Valid(images', primary')
    BY <1>2, <2>1, <2>2, <2>3, TakesOver
  <2> QED
    BY <1>1, <1>3, <1>4, <2>4, WriteKept
<1>7. CASE primary # saves[c].image
  <2>1. primary' = primary
    BY <1>1, <1>5, <1>7
  <2>2. Valid(images', primary)
    BY <1>2, <1>3, <1>7, PointerKept
  <2> QED
    BY <1>1, <1>2, <1>3, <1>4, <2>1, <2>2, WriteKept
<1> QED
  BY <1>6, <1>7

LEMMA SetPrimaryKept == ASSUME Tidy, NEW c \in Savers, I!SetPrimary(c), I!StillTrue(c) PROVE Tidy'
<1>1. /\ saves[c].op = "setPrimary" /\ I!Ends(c) /\ images' = images
      /\ primary' = IF saves[c].first # saves[c].image THEN saves[c].image ELSE primary
  BY DEF I!SetPrimary
<1>2. /\ Proper(images, made) /\ saves[c] \in Saver /\ Reads(saves[c], made)
  BY DEF Tidy
<1>3. /\ saves[c].image \in Nat /\ saves[c].image # 0 /\ Valid(saves[c].seen, saves[c].image)
  BY <1>1, <1>2 DEF Saver, Reads, Adding
<1>4. PICK k \in 1..Len(saves[c].seen) :
         saves[c].seen[k].id = saves[c].image /\ saves[c].seen[k].status = "published"
  BY <1>3 DEF Valid
<1>5. k \in 1..Len(images) /\ images[k] = saves[c].seen[k] /\ primary = saves[c].first
  BY StillThere
<1>6. Valid(images, saves[c].image)
  BY <1>3, <1>4, <1>5 DEF Valid
<1>7. primary' = saves[c].image
  BY <1>1, <1>5
<1> QED
  BY <1>1, <1>2, <1>3, <1>6, <1>7, EndKept

LEMMA RemoveKept == ASSUME Tidy, NEW c \in Savers, I!Remove(c), I!StillTrue(c) PROVE Tidy'
<1> DEFINE seen == saves[c].seen
           image == saves[c].image
           k == I!Min(I!PlacesOf(seen, image))
           new == I!Without(seen, k)
<1>1. /\ saves[c].op \notin Adding \cup {"none"} /\ I!Ends(c) /\ images' = new
      /\ primary' = IF saves[c].first = image THEN I!nextPublished(seen, image) ELSE primary
  BY DEF I!Remove, Adding
<1>2. /\ made \in Nat /\ primary \in Nat /\ Valid(images, primary) /\ Proper(images, made)
      /\ Reads(saves[c], made)
  BY DEF Tidy
<1>3. Proper(seen, made) /\ Among(seen, image)
  BY <1>1, <1>2 DEF Reads
<1>4. k \in 1..Len(seen) /\ seen[k].id = image
  BY <1>2, <1>3, PlaceOf
<1>5. /\ Proper(new, made)
      /\ \A j \in 1..Len(new) : \E i \in 1..Len(seen) : i # k /\ new[j] = seen[i]
      /\ \A i \in 1..Len(seen) : i # k => \E j \in 1..Len(new) : new[j] = seen[i]
  <2>1. made \in Nat /\ Proper(seen, made) /\ k \in 1..Len(seen)
    BY <1>2, <1>3, <1>4
  <2> HIDE DEF seen, k
  <2>2. Proper(I!Without(seen, k), made)
    BY <2>1, WithoutOne
  <2>3. \A j \in 1..Len(I!Without(seen, k)) :
           \E i \in 1..Len(seen) : i # k /\ I!Without(seen, k)[j] = seen[i]
    BY <2>1, WithoutOne
  <2>4. \A i \in 1..Len(seen) : i # k =>
           \E j \in 1..Len(I!Without(seen, k)) : I!Without(seen, k)[j] = seen[i]
    BY <2>1, WithoutOne
  <2> QED
    BY <2>2, <2>3, <2>4
<1>6. /\ primary = saves[c].first
      /\ \A j \in 1..Len(seen) : j \in 1..Len(images) /\ images[j] = seen[j]
      /\ \A j \in 1..Len(images) : images[j].status = "published" => j \in 1..Len(seen)
  BY StillThere
<1> HIDE DEF seen, k, new
<1>7. \A j \in 1..Len(seen) : j # k => seen[j].id # image
  BY <1>3, <1>4 DEF Proper
<1>8. ASSUME NEW x, Among(images', x) PROVE Among(images, x)
  <2>1. PICK j \in 1..Len(new) : new[j].id = x
    BY <1>1, <1>8 DEF Among
  <2>2. PICK i \in 1..Len(seen) : new[j] = seen[i]
    BY <1>5
  <2>3. i \in 1..Len(images) /\ images[i] = seen[i]
    BY <1>6
  <2>4. images[i].id = x
    BY <2>1, <2>2, <2>3
  <2> QED
    BY <2>3, <2>4 DEF Among
<1>9. \A j \in 1..Len(images) : images[j].status = "published" /\ images[j].id # image =>
         \E i \in 1..Len(new) : new[i].id = images[j].id /\ new[i].status = "published"
  <2> TAKE j \in 1..Len(images)
  <2> HAVE images[j].status = "published" /\ images[j].id # image
  <2>1. j \in 1..Len(seen) /\ images[j] = seen[j] /\ j # k
    BY <1>4, <1>6
  <2>2. PICK i \in 1..Len(new) : new[i] = seen[j]
    BY <1>5, <2>1
  <2> QED
    BY <2>1, <2>2
<1>10. \A i \in 1..Len(new) : new[i].status = "published" =>
          \E j \in 1..Len(images) : /\ images[j].status = "published" /\ images[j].id # image
                                    /\ images[j].id = new[i].id
  <2> TAKE i \in 1..Len(new)
  <2> HAVE new[i].status = "published"
  <2>1. PICK j \in 1..Len(seen) : j # k /\ new[i] = seen[j]
    BY <1>5
  <2> QED
    BY <1>6, <1>7, <2>1
<1>11. primary' \in Nat /\ Valid(new, primary')
  <2>1. CASE primary = image
    <3>1. primary' = I!nextPublished(saves[c].seen, image)
      BY <1>1, <1>6, <2>1 DEF seen
    <3> QED
      BY <1>2, <1>9, <1>10, <3>1, TakesOver
  <2>2. CASE primary # image
    <3>1. primary' = primary
      BY <1>1, <1>6, <2>2
    <3>2. Valid(new, primary)
      BY <1>2, <1>9, <1>10, <2>2 DEF Valid
    <3> QED
      BY <1>2, <3>1, <3>2
  <2> QED
    BY <2>1, <2>2
<1> QED
  BY <1>1, <1>5, <1>8, <1>11, EndKept

LEMMA ImagesKept == ImagesIInv /\ [I!Next]_(I!vars) => ImagesIInv'
<1> SUFFICES ASSUME ImagesIInv, [I!Next]_(I!vars) PROVE ImagesIInv'
  OBVIOUS
<1> USE DEF ImagesIInv
<1>1. ASSUME NEW c \in Savers, NEW op \in I!Op, I!BeginAdd(c, op) PROVE ImagesIInv'
  <2>1. crossed' = crossed
    BY <1>1 DEF I!BeginAdd, I!Begin
  <2> QED
    BY <1>1, <2>1, BeginAddKept
<1>2. ASSUME NEW c \in Savers, NEW op \in I!Op, NEW image \in I!Ids, I!BeginReview(c, op, image)
      PROVE  ImagesIInv'
  <2>1. crossed' = crossed
    BY <1>2 DEF I!BeginReview, I!Begin
  <2> QED
    BY <1>2, <2>1, BeginReviewKept
<1>3. ASSUME NEW c \in Savers, I!Add(c) PROVE ImagesIInv'
  <2>1. crossed' = crossed
    BY <1>3 DEF I!Add
  <2> QED
    BY <1>3, <2>1, AddKept
<1>4. ASSUME NEW c \in Savers, I!Confirm(c) PROVE ImagesIInv'
  <2>1. crossed' = (crossed \/ ~I!StillTrue(c) \/ saves[c].image = primary)
    BY <1>4 DEF I!Confirm
  <2> QED
    BY <1>4, <2>1, ConfirmKept
<1>5. ASSUME NEW c \in Savers, I!Publish(c) PROVE ImagesIInv'
  <2>1. crossed' = (crossed \/ ~I!StillTrue(c))
    BY <1>5 DEF I!Publish
  <2> QED
    BY <1>5, <2>1, PublishKept
<1>6. ASSUME NEW c \in Savers, I!Reject(c) PROVE ImagesIInv'
  <2>1. crossed' = (crossed \/ ~I!StillTrue(c))
    BY <1>6 DEF I!Reject
  <2> QED
    BY <1>6, <2>1, RejectKept
<1>7. ASSUME NEW c \in Savers, I!SetPrimary(c) PROVE ImagesIInv'
  <2>1. crossed' = (crossed \/ ~I!StillTrue(c))
    BY <1>7 DEF I!SetPrimary
  <2> QED
    BY <1>7, <2>1, SetPrimaryKept
<1>8. ASSUME NEW c \in Savers, I!Remove(c) PROVE ImagesIInv'
  <2>1. crossed' = (crossed \/ ~I!StillTrue(c))
    BY <1>8 DEF I!Remove
  <2> QED
    BY <1>8, <2>1, RemoveKept
<1>9. ASSUME NEW c \in Savers, I!Dies(c) PROVE ImagesIInv'
  <2>1. /\ crossed' = crossed /\ images' = images /\ primary' = primary /\ I!Ends(c)
    BY <1>9 DEF I!Dies
  <2>2. Tidy => Tidy'
    <3> SUFFICES ASSUME Tidy PROVE Tidy'
      OBVIOUS
    <3>1. /\ primary' \in Nat /\ Proper(images', made) /\ Valid(images', primary')
          /\ \A image : Among(images', image) => Among(images, image)
      BY <2>1 DEF Tidy
    <3> QED
      BY <2>1, <3>1, EndKept
  <2> QED
    BY <2>1, <2>2
<1>10. ASSUME NEW image \in I!Ids, I!Arrives(image) PROVE ImagesIInv'
  BY <1>10 DEF I!Arrives, Tidy
<1>11. CASE UNCHANGED I!vars
  BY <1>11 DEF I!vars, Tidy
<1> QED
  BY <1>1, <1>2, <1>3, <1>4, <1>5, <1>6, <1>7, <1>8, <1>9, <1>10, <1>11 DEF I!Next

\* meals.model.ts, "INVARIANT, enforced in the service": the primary image of a recipe is one of its
\* published images, and there is one as soon as anything is published.  It stands for any number
\* of images and of calls at once, as long as no call saved over what another did since it read and
\* the primary image was not confirmed a second time.
THEOREM PrimaryIsPublished == I!Spec => []PrimaryStands
<1>1. ImagesIInv => PrimaryStands
  <2> SUFFICES ASSUME ImagesIInv, ~crossed PROVE I!PrimaryValid
    BY DEF PrimaryStands, I!PrimaryStands
  <2>1. made \in Nat /\ Proper(images, made) /\ Valid(images, primary)
    BY DEF ImagesIInv, Tidy
  <2>2. DOMAIN images = 1..Len(images)
    BY <2>1, Listed
  <2> QED
    BY <2>1, <2>2 DEF Valid, I!PrimaryValid, I!NoImage, I!PlacesOf, I!Published
<1> QED
  BY <1>1, ImagesInit, ImagesKept, PTL DEF I!Spec

-------------------------------------------------------------------------------
(* The parts together.                                                     *)

\* Putting the parts behind one choice adds no step to any of them: what the process does is, to
\* each part, its own steps or none, so that every theorem above holds of the whole.
THEOREM WholeIsItsParts ==
    BackgroundSpec => Spec /\ P!Spec /\ J!Spec /\ A!Spec /\ R!Spec /\ I!Spec
<1> DEFINE all == <<looking, vars, placesVars, streamVars, turnVars, scriptVars, imageVars>>
<1>1. BackgroundInit => Init /\ P!Init /\ J!Init /\ A!Init /\ R!Init /\ I!Init
  BY DEF BackgroundInit
<1>2. ASSUME [BackgroundNext]_all
      PROVE  /\ Next \/ UNCHANGED vars
             /\ P!Next \/ UNCHANGED placesVars
             /\ J!Next \/ UNCHANGED streamVars
             /\ A!Next \/ UNCHANGED turnVars
             /\ R!Next \/ UNCHANGED scriptVars
             /\ I!Next \/ UNCHANGED imageVars
  <2>1. CASE BackgroundNext
    BY <2>1, Zenon DEF BackgroundNext, Rest
  <2>2. CASE UNCHANGED all
    BY <2>2
  <2> QED
    BY <1>2, <2>1, <2>2
<1>3. /\ UNCHANGED placesVars => UNCHANGED P!vars
      /\ UNCHANGED streamVars => UNCHANGED J!vars
      /\ UNCHANGED turnVars => UNCHANGED A!vars
      /\ UNCHANGED scriptVars => UNCHANGED R!vars
      /\ UNCHANGED imageVars => UNCHANGED I!vars
  <2>1. UNCHANGED placesVars => UNCHANGED P!vars
    BY DEF placesVars, P!vars, P!spent
  <2>2. UNCHANGED streamVars => UNCHANGED J!vars
    BY DEF streamVars, J!vars, J!job, J!bounds
  <2>3. UNCHANGED turnVars => UNCHANGED A!vars
    BY DEF turnVars, A!vars
  <2>4. UNCHANGED scriptVars => UNCHANGED R!vars
    BY DEF scriptVars, R!vars
  <2>5. UNCHANGED imageVars => UNCHANGED I!vars
    BY DEF imageVars, I!vars
  <2> QED
    BY <2>1, <2>2, <2>3, <2>4, <2>5
<1>4. [BackgroundNext]_all =>
         /\ [Next]_vars /\ [P!Next]_(P!vars) /\ [J!Next]_(J!vars) /\ [A!Next]_(A!vars)
         /\ [R!Next]_(R!vars) /\ [I!Next]_(I!vars)
  BY <1>2, <1>3
<1> QED
  BY <1>1, <1>4, PTL DEF BackgroundSpec, Spec, P!Spec, J!Spec, A!Spec, R!Spec, I!Spec
=============================================================================
