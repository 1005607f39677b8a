---------------------------- MODULE ChowdeckOffers ----------------------------
(***************************************************************************)
(* Cached searches and everyone who waits for one (offers and refresh of   *)
(* chowdeck.service.ts, the fetch-ahead job of chowdeck.jobs.ts, and the   *)
(* console's cache and places of chowdeck.admin.service.ts).               *)
(*                                                                         *)
(* A search that is being made is a flight, which singleFlight shares with *)
(* all who need its key until it ends.  The guards in front of the request *)
(* are those of ChowdeckGate, of which a flight sees that it may have to   *)
(* sleep and how it ends.  Keys are places times meals, numbered in the    *)
(* order in which the fetch-ahead job takes them.                          *)
(***************************************************************************)
EXTENDS Integers, FiniteSets, FiniteSetsExt

CONSTANTS
    NKeys,      \* place and meal pairs
    Places, PlaceOf,
    Cooks,      \* requests for offers that are open at once
    NFlights,   \* bound: searches under way at once
    MaxAsks,    \* bound: questions and refreshes people ask
    MaxJobs,    \* bound: fetch-ahead jobs
    MaxAnswers, \* bound: answers Chowdeck ever gives
    MaxFaults   \* bound: cache writes that fail, and restarts

Keys == 1..NKeys
NoKey == 0
Flights == 1..NFlights
NoFlight == 0

OffersAssumption ==
    /\ NKeys \in Nat \ {0} /\ NFlights \in Nat /\ PlaceOf \in [Keys -> Places]
    /\ MaxAsks \in Nat /\ MaxJobs \in Nat /\ MaxAnswers \in Nat /\ MaxFaults \in Nat

VARIABLES
    places,   \* chowdeck_places
    clearing, \* places that are deleted and whose rows are about to be
    rows,     \* chowdeck_offers
    inFlight, \* the flight that singleFlight shares for each key
    flights,  \* where each search under way is
    cooks,    \* where each request for offers is
    job,      \* the fetch-ahead job
    answers,  \* how many answers Chowdeck has given
    called,   \* keys of the searches in the call log
    asks, jobs, faults  \* what has been spent of each bound

spent == <<asks, jobs, faults>>
vars == <<places, clearing, rows, inFlight, flights, cooks, job, answers, called, spent>>

(* Ages: under an hour, under six, under a day, older.  Answers are        *)
(* numbered as Chowdeck gives them.                                        *)
Young == 0
Mid == 1
Aged == 2
Old == 3
Row == [status : {"none", "ok", "empty"}, age : Young..Old, answer : Nat]
NoRow == [status |-> "none", age |-> Young, answer |-> 0]

Flight == [pc : {"idle", "gate", "asleep", "sent", "answered"}, key : Keys \cup {NoKey},
           waits : BOOLEAN, status : {"none", "ok", "empty"}, answer : Nat]
Landed == [pc |-> "idle", key |-> NoKey, waits |-> FALSE, status |-> "none", answer |-> 0]

(* A cook or the job waits `on` a flight.                                  *)
Cook == [pc : {"idle", "reading", "waiting"}, key : Keys \cup {NoKey},
         on : Flights \cup {NoFlight}]
Away == [pc |-> "idle", key |-> NoKey, on |-> NoFlight]

Job == [pc : {"idle", "queued", "next", "waiting"}, left : SUBSET Keys, force : BOOLEAN,
        on : Flights \cup {NoFlight}]
NoJob == [pc |-> "idle", left |-> {}, force |-> FALSE, on |-> NoFlight]

Init ==
    /\ places = [p \in Places |-> "shown"] /\ clearing = {}
    /\ rows = [k \in Keys |-> NoRow]
    /\ inFlight = [k \in Keys |-> NoFlight]
    /\ flights = [f \in Flights |-> Landed]
    /\ cooks = [c \in Cooks |-> Away]
    /\ job = NoJob
    /\ answers = 0 /\ called = {}
    /\ asks = 0 /\ jobs = 0 /\ faults = 0

-------------------------------------------------------------------------------
(* Freshness, at the time of reading.                                      *)

Fresh(row) ==
    \/ row.status = "ok" /\ row.age <= Mid
    \/ row.status = "empty" /\ row.age = Young
Stale(row) == row.status = "ok" /\ row.age = Aged

(* singleFlight: the search for the key that is under way, or a new one.   *)
Free == {f \in Flights : flights[f] = Landed}
FlightFor(k) == IF inFlight[k] # NoFlight THEN inFlight[k] ELSE Min(Free)

Join(k, waits) ==
    IF inFlight[k] # NoFlight
      THEN UNCHANGED <<inFlight, flights>>
      ELSE /\ Free # {}
           /\ inFlight' = [inFlight EXCEPT ![k] = FlightFor(k)]
           /\ flights' = [flights EXCEPT ![FlightFor(k)] =
                            [Landed EXCEPT !.pc = "gate", !.key = k, !.waits = waits]]

-------------------------------------------------------------------------------
(* A cook: offers.                                                         *)

(* The place must be saved and shown.                                      *)
CookAsks(c, k) ==
    /\ cooks[c].pc = "idle" /\ places[PlaceOf[k]] = "shown"
    /\ asks < MaxAsks /\ asks' = asks + 1
    /\ cooks' = [cooks EXCEPT ![c] = [Away EXCEPT !.pc = "reading", !.key = k]]
    /\ UNCHANGED <<places, clearing, rows, inFlight, flights, job, answers, called, jobs, faults>>

(* A stale row is served at once and refreshed behind the cook's back; one *)
(* that is too old, or none, makes the cook wait.                          *)
CookReads(c) ==
    LET k == cooks[c].key
        row == rows[k]
    IN /\ cooks[c].pc = "reading"
       /\ \/ /\ Fresh(row)
             /\ cooks' = [cooks EXCEPT ![c] = Away]
             /\ UNCHANGED <<inFlight, flights>>
          \/ /\ Stale(row)
             /\ cooks' = [cooks EXCEPT ![c] = Away]
             /\ Join(k, FALSE)
          \/ /\ ~Fresh(row) /\ ~Stale(row)
             /\ Join(k, FALSE)
             /\ cooks' = [cooks EXCEPT ![c].pc = "waiting", ![c].on = FlightFor(k)]
       /\ UNCHANGED <<places, clearing, rows, job, answers, called, spent>>

-------------------------------------------------------------------------------
(* The flight: chowdeckClient.search, and then the row.                    *)

(* Only one of those who wait is answered.                                *)
LandForOne(f, stops) ==
    /\ inFlight' = [k \in Keys |-> IF inFlight[k] = f THEN NoFlight ELSE inFlight[k]]
    /\ flights' = [flights EXCEPT ![f] = Landed]
    /\ LET told == CHOOSE c \in Cooks : cooks[c].on = f \/ \A d \in Cooks : cooks[d].on # f
       IN cooks' = [cooks EXCEPT ![told] = IF @.on = f THEN Away ELSE @]
    /\ job' = IF job.on # f THEN job
              ELSE IF stops THEN NoJob
              ELSE [job EXCEPT !.pc = "next", !.left = @ \ {Min(@)}, !.on = NoFlight]

(* The end of a flight takes it off the map and answers everyone who waits *)
(* (with what it fetched, with the row they had read, or with nothing).  A *)
(* switch, a cap or a breaker that refused stops the job; what else went   *)
(* wrong is one pair that failed.                                          *)
Land(f, stops) ==
    /\ inFlight' = [k \in Keys |-> IF inFlight[k] = f THEN NoFlight ELSE inFlight[k]]
    /\ flights' = [flights EXCEPT ![f] = Landed]
    /\ cooks' = [c \in Cooks |->
          IF cooks[c].on = f THEN Away ELSE cooks[c]]
    /\ job' = IF job.on # f THEN job
              ELSE IF stops THEN NoJob
              ELSE [job EXCEPT !.pc = "next", !.left = @ \ {Min(@)}, !.on = NoFlight]

Refuse(f) ==
    /\ flights[f].pc \in {"gate", "asleep"}
    /\ \E stops \in BOOLEAN : Land(f, stops)
    /\ UNCHANGED <<places, clearing, rows, answers, called, spent>>

Sleep(f) ==
    /\ flights[f].pc = "gate" /\ flights[f].waits
    /\ flights' = [flights EXCEPT ![f].pc = "asleep"]
    /\ UNCHANGED <<places, clearing, rows, inFlight, cooks, job, answers, called, spent>>

Send(f) ==
    /\ flights[f].pc \in {"gate", "asleep"}
    /\ flights' = [flights EXCEPT ![f].pc = "sent"]
    /\ UNCHANGED <<places, clearing, rows, inFlight, cooks, job, answers, called, spent>>

(* The search is forgotten as soon as it is answered, before it is stored. *)
AnswerForgets(f, status) ==
    /\ flights[f].pc = "sent"
    /\ answers < MaxAnswers /\ answers' = answers + 1
    /\ flights' = [flights EXCEPT ![f].pc = "answered", ![f].status = status,
                                  ![f].answer = answers + 1]
    /\ inFlight' = [inFlight EXCEPT ![flights[f].key] = NoFlight]
    /\ called' = called \cup {flights[f].key}
    /\ UNCHANGED <<places, clearing, rows, cooks, job, spent>>

Answer(f, status) ==
    /\ flights[f].pc = "sent"
    /\ answers < MaxAnswers /\ answers' = answers + 1
    /\ flights' = [flights EXCEPT ![f].pc = "answered", ![f].status = status,
                                  ![f].answer = answers + 1]
    /\ called' = called \cup {flights[f].key}
    /\ UNCHANGED <<places, clearing, rows, inFlight, cooks, job, spent>>

(* A failed call never touches the row.                                    *)
Fail(f) ==
    /\ flights[f].pc = "sent"
    /\ Land(f, FALSE)
    /\ called' = called \cup {flights[f].key}
    /\ UNCHANGED <<places, clearing, rows, answers, spent>>

(* The upsert: whether the place is still saved is not asked again.        *)
Store(f) ==
    /\ flights[f].pc = "answered"
    /\ rows' = [rows EXCEPT ![flights[f].key] =
                  [status |-> flights[f].status, age |-> Young, answer |-> flights[f].answer]]
    /\ Land(f, FALSE)
    /\ UNCHANGED <<places, clearing, answers, called, spent>>

(* A write that throws reaches everyone who waits: the cooks are answered  *)
(* with an error and the job ends.                                         *)
StoreThrows(f) ==
    /\ flights[f].pc = "answered"
    /\ faults < MaxFaults /\ faults' = faults + 1
    /\ Land(f, TRUE)
    /\ UNCHANGED <<places, clearing, rows, answers, called, asks, jobs>>

-------------------------------------------------------------------------------
(* The fetch-ahead job: every pair of a shown place, one after the other.  *)

FetchAhead(force) ==
    /\ job = NoJob /\ \E k \in Keys : places[PlaceOf[k]] = "shown"
    /\ jobs < MaxJobs /\ jobs' = jobs + 1
    /\ job' = [NoJob EXCEPT !.pc = "queued", !.force = force]
    /\ UNCHANGED <<places, clearing, rows, inFlight, flights, cooks, answers, called, asks, faults>>

StartJob ==
    /\ job.pc = "queued"
    /\ job' = [job EXCEPT !.pc = "next", !.left = {k \in Keys : places[PlaceOf[k]] = "shown"}]
    /\ UNCHANGED <<places, clearing, rows, inFlight, flights, cooks, answers, called, spent>>

(* What is fresh is skipped, by the age of a row that has results whatever *)
(* the row has.                                                            *)
JobNext ==
    /\ job.pc = "next" /\ job.left # {}
    /\ LET k == Min(job.left)
       IN IF ~job.force /\ rows[k] # NoRow /\ rows[k].age <= Mid
            THEN job' = [job EXCEPT !.left = @ \ {k}] /\ UNCHANGED <<inFlight, flights>>
            ELSE Join(k, TRUE) /\ job' = [job EXCEPT !.pc = "waiting", !.on = FlightFor(k)]
    /\ UNCHANGED <<places, clearing, rows, cooks, answers, called, spent>>

(* The list is done, or the job was cancelled.                             *)
JobEnds ==
    /\ job.pc = "next"
    /\ job' = NoJob
    /\ UNCHANGED <<places, clearing, rows, inFlight, flights, cooks, answers, called, spent>>

-------------------------------------------------------------------------------
(* The console, the clock and the process.                                 *)

(* The search is made again whatever has become of its place.              *)
Refetch(k) ==
    /\ asks < MaxAsks /\ asks' = asks + 1
    /\ Join(k, FALSE)
    /\ UNCHANGED <<places, clearing, rows, cooks, job, answers, called, jobs, faults>>

RefreshCache(k) == rows[k] # NoRow /\ Refetch(k)

(* A replay takes what it searches for from the call log.                  *)
Replay(k) == k \in called /\ Refetch(k)

ClearCache(cleared) ==
    /\ \E k \in cleared : rows[k] # NoRow
    /\ rows' = [k \in Keys |-> IF k \in cleared THEN NoRow ELSE rows[k]]
    /\ UNCHANGED <<places, clearing, inFlight, flights, cooks, job, answers, called, spent>>

SavePlace(p) ==
    /\ places[p] = "absent" /\ asks < MaxAsks /\ asks' = asks + 1
    /\ places' = [places EXCEPT ![p] = "shown"]
    /\ UNCHANGED <<clearing, rows, inFlight, flights, cooks, job, answers, called, jobs, faults>>

UpdatePlace(p, as) ==
    /\ places[p] \notin {"absent", as}
    /\ asks < MaxAsks /\ asks' = asks + 1
    /\ places' = [places EXCEPT ![p] = as]
    /\ UNCHANGED <<clearing, rows, inFlight, flights, cooks, job, answers, called, jobs, faults>>

(* The place goes first, its rows in a write of their own.  deletePlaces   *)
(* and purgePlaces send both writes at once: rows that go before their     *)
(* place are a ClearCache.                                                 *)
DeletePlaces(gone) ==
    /\ gone # {} /\ \A p \in gone : places[p] # "absent"
    /\ asks < MaxAsks /\ asks' = asks + 1
    /\ places' = [p \in Places |-> IF p \in gone THEN "absent" ELSE places[p]]
    /\ clearing' = clearing \cup gone
    /\ UNCHANGED <<rows, inFlight, flights, cooks, job, answers, called, jobs, faults>>

ClearRowsOf(p) ==
    /\ p \in clearing
    /\ clearing' = clearing \ {p}
    /\ rows' = [k \in Keys |-> IF PlaceOf[k] = p THEN NoRow ELSE rows[k]]
    /\ UNCHANGED <<places, inFlight, flights, cooks, job, answers, called, spent>>

RowAges(k) ==
    /\ rows[k] # NoRow /\ rows[k].age < Old
    /\ rows' = [rows EXCEPT ![k].age = @ + 1]
    /\ UNCHANGED <<places, clearing, inFlight, flights, cooks, job, answers, called, spent>>

(* The job that was running is found by its lease and starts anew.         *)
Restart ==
    /\ faults < MaxFaults /\ faults' = faults + 1
    /\ inFlight' = [k \in Keys |-> NoFlight]
    /\ flights' = [f \in Flights |-> Landed]
    /\ cooks' = [c \in Cooks |-> Away]
    /\ job' = IF job = NoJob THEN NoJob ELSE [NoJob EXCEPT !.pc = "queued", !.force = job.force]
    /\ clearing' = {}
    /\ UNCHANGED <<places, rows, answers, called, asks, jobs>>

Flies(f) ==
    \/ Refuse(f) \/ Sleep(f) \/ Send(f) \/ Fail(f) \/ Store(f) \/ StoreThrows(f)
    \/ \E status \in {"ok", "empty"} : Answer(f, status)

Console ==
    \/ \E k \in Keys : RefreshCache(k) \/ Replay(k)
    \/ \E cleared \in SUBSET Keys : ClearCache(cleared)
    \/ \E p \in Places : SavePlace(p) \/ ClearRowsOf(p)
    \/ \E p \in Places, as \in {"shown", "hidden"} : UpdatePlace(p, as)
    \/ \E gone \in SUBSET Places : DeletePlaces(gone)

Next ==
    \/ \E c \in Cooks : CookReads(c) \/ \E k \in Keys : CookAsks(c, k)
    \/ \E f \in Flights : Flies(f)
    \/ \E k \in Keys : RowAges(k)
    \/ \E force \in BOOLEAN : FetchAhead(force)
    \/ StartJob \/ JobNext \/ JobEnds
    \/ Console
    \/ Restart

Spec == Init /\ [][Next]_vars

(* The database answers, a sleeper is woken, and a request is answered or  *)
(* timed out after ten seconds.                                            *)
Fairness ==
    /\ \A c \in Cooks : WF_vars(CookReads(c))
    /\ \A f \in Flights :
          /\ WF_vars(Send(f) \/ Refuse(f))
          /\ WF_vars(Fail(f) \/ \E status \in {"ok", "empty"} : Answer(f, status))
          /\ WF_vars(Store(f) \/ StoreThrows(f))

FairSpec == Spec /\ Fairness

-------------------------------------------------------------------------------
(* Properties.                                                             *)

TypeOK ==
    /\ places \in [Places -> {"absent", "hidden", "shown"}] /\ clearing \in SUBSET Places
    /\ rows \in [Keys -> Row]
    /\ inFlight \in [Keys -> Flights \cup {NoFlight}] /\ flights \in [Flights -> Flight]
    /\ cooks \in [Cooks -> Cook] /\ job \in Job
    /\ answers \in 0..MaxAnswers /\ called \in SUBSET Keys
    /\ asks \in 0..MaxAsks /\ jobs \in 0..MaxJobs /\ faults \in 0..MaxFaults

(* A cached search is never overwritten with an older answer, whoever asks *)
(* for it at once: cooks, refreshes behind them, the console and the job   *)
(* (chowdeck.client.ts:194, chowdeck.service.ts:270-294).                  *)
NeverOlder ==
    [][\A k \in Keys : rows[k] # NoRow /\ rows'[k] # NoRow =>
          rows'[k].answer >= rows[k].answer]_vars

(* Every cook is answered, whoever began the search that is shared and     *)
(* however it ends, and the search is forgotten when it has ended          *)
(* (chowdeck.client.ts:198-207).                                           *)
CooksAnswered == \A c \in Cooks : cooks[c].pc = "waiting" ~> cooks[c].pc # "waiting"
===============================================================================
