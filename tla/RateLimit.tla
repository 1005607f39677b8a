------------------------------- MODULE RateLimit -------------------------------
(***************************************************************************)
(* One rate-limit policy: the token buckets of MemoryRateLimitStore with   *)
(* their idle sweep (src/lib/ratelimit), and the middleware that answers a *)
(* refusal and counts refusals to report abuse.                            *)
(*                                                                         *)
(* The unit of time is a second.  Tokens are counted in parts of 1/Window, *)
(* so that `refillPerSec` (Capacity / Window) is a whole number of parts   *)
(* and the arithmetic is exact.  The clock does not run backwards.         *)
(***************************************************************************)
EXTENDS Integers, FiniteSets

CONSTANTS
    Keys,       \* bucket keys of this policy: `${policy.name}:${scope}:${who}`
    Capacity,   \* policy.capacity, the N of "N per window"
    Window,     \* windowSeconds
    Idle,       \* idle seconds after which the sweep drops a bucket: 15 * 60
    Hour,       \* HOUR_MS: the length of a refusal count
    Threshold,  \* ABUSE_THRESHOLD
    MaxTracked, \* MAX_TRACKED_BUCKETS
    MaxTime,    \* bound: the clock stops here
    MaxRequests \* bound: requests made

ASSUME PolicyAssumption ==
    /\ Capacity \in Nat \ {0} /\ Window \in Nat \ {0} /\ Idle \in Nat
    /\ Hour \in Nat /\ Threshold \in Nat \ {0} /\ MaxTracked \in Nat \ {0}
    /\ MaxTime \in Nat /\ MaxRequests \in Nat

VARIABLES
    now,
    buckets,   \* MemoryRateLimitStore.buckets
    refusals,  \* the middleware's `refusals` map
    reported,  \* history: keys that were reported as abuse
    quoted,    \* history: what the headers of the last answer to a key said
    watch,     \* history: an observer of one key, from a moment of its choosing
    requests   \* what has been spent of MaxRequests

vars == <<now, buckets, refusals, reported, quoted, watch, requests>>

Token == Window             \* one token, in parts
Full == Capacity * Window   \* a full bucket, in parts

Bucket == [kept : BOOLEAN, tokens : 0..Full, lastRefill : 0..MaxTime]
NoBucket == [kept |-> FALSE, tokens |-> 0, lastRefill |-> 0]

Count == [kept : BOOLEAN, count : Nat, hourStartedAt : 0..MaxTime]
NoCount == [kept |-> FALSE, count |-> 0, hourStartedAt |-> 0]

(* -1 stands for a header that was not sent. *)
Quote == [retryAt : Int, resetAt : Int]
NoQuote == [retryAt |-> -1, resetAt |-> -1]

Watch == [key : Keys, from : 0..MaxTime, granted : Nat, refused : Nat]

Init ==
    /\ now = 0
    /\ buckets = [k \in Keys |-> NoBucket]
    /\ refusals = [k \in Keys |-> NoCount]
    /\ reported = {}
    /\ quoted = [k \in Keys |-> NoQuote]
    /\ \E k \in Keys : watch = [key |-> k, from |-> 0, granted |-> 0, refused |-> 0]
    /\ requests = 0

-------------------------------------------------------------------------------
(* The arithmetic of `consume`.                                            *)

AtMost(bound, n) == IF n > bound THEN bound ELSE n
AtLeast(bound, n) == IF n < bound THEN bound ELSE n
CeilDiv(a, b) == (a + b - 1) \div b

(* Refilling without the cap of `Math.min(capacity, ...)`. *)
Overfull(k) ==
    IF buckets[k].kept
      THEN buckets[k].tokens + (now - buckets[k].lastRefill) * Capacity
      ELSE Full

(* What the bucket holds once the time since its last refill is credited. *)
Tokens(k) == AtMost(Full, Overfull(k))

(* Rounding the wait down sends a client back too early. *)
FloorRetry(remaining) == AtLeast(1, (Token - remaining) \div Capacity)

(* retryAfterSeconds and secondsToFull, rounded up to whole seconds. *)
RetryAfter(remaining) == AtLeast(1, CeilDiv(Token - remaining, Capacity))
SecondsToFull(remaining) == CeilDiv(Full - remaining, Capacity)

Refilled(remaining) == [kept |-> TRUE, tokens |-> remaining, lastRefill |-> now]

-------------------------------------------------------------------------------
(* The middleware's count of refusals.                                     *)

Tracked == {k \in Keys : refusals[k].kept}
StartsHour(k) == ~refusals[k].kept \/ now - refusals[k].hourStartedAt > Hour

(* A new hour may find the map full, and then forgets every other key. *)
CountRefusal(k) ==
    LET old == IF Cardinality(Tracked) >= MaxTracked THEN [i \in Keys |-> NoCount] ELSE refusals
    IN IF StartsHour(k)
         THEN [old EXCEPT ![k] = [kept |-> TRUE, count |-> 1, hourStartedAt |-> now]]
         ELSE [refusals EXCEPT ![k].count = @ + 1]

-------------------------------------------------------------------------------
(* One request: `consume` and the answer are one synchronous stretch.      *)

Request == requests < MaxRequests /\ requests' = requests + 1

Allow(k) ==
    LET remaining == Tokens(k) - Token IN
    /\ Tokens(k) >= Token
    /\ buckets' = [buckets EXCEPT ![k] = Refilled(remaining)]
    /\ quoted' = [quoted EXCEPT ![k] = [retryAt |-> -1, resetAt |-> now + SecondsToFull(remaining)]]
    /\ watch' = IF k = watch.key THEN [watch EXCEPT !.granted = @ + 1] ELSE watch
    /\ Request
    /\ UNCHANGED <<now, refusals, reported>>

Refuse(k) ==
    LET remaining == Tokens(k) IN
    /\ Tokens(k) < Token
    /\ buckets' = [buckets EXCEPT ![k] = Refilled(remaining)]
    /\ quoted' = [quoted EXCEPT ![k] = [retryAt |-> now + RetryAfter(remaining),
                                        resetAt |-> now + SecondsToFull(remaining)]]
    /\ refusals' = CountRefusal(k)
    /\ reported' = reported \cup {i \in {k} : refusals'[i].count = Threshold}
    /\ watch' = IF k = watch.key THEN [watch EXCEPT !.refused = @ + 1] ELSE watch
    /\ Request
    /\ UNCHANGED now

(* Idle time compared in the wrong unit. *)
SweepMinutes ==
    /\ buckets' = [k \in Keys |-> IF now - buckets[k].lastRefill > Idle \div 60
                                    THEN NoBucket ELSE buckets[k]]
    /\ UNCHANGED <<now, refusals, reported, quoted, watch, requests>>

(* The sweep runs once a minute; when is not known to a request. *)
Sweep ==
    /\ buckets' = [k \in Keys |-> IF now - buckets[k].lastRefill > Idle
                                    THEN NoBucket ELSE buckets[k]]
    /\ UNCHANGED <<now, refusals, reported, quoted, watch, requests>>

Second ==
    /\ now < MaxTime
    /\ now' = now + 1
    /\ UNCHANGED <<buckets, refusals, reported, quoted, watch, requests>>

(* History: the observer starts over. *)
Observe(k) ==
    /\ watch' = [key |-> k, from |-> now, granted |-> 0, refused |-> 0]
    /\ UNCHANGED <<now, buckets, refusals, reported, quoted, requests>>

Next ==
    \/ \E k \in Keys : Allow(k) \/ Refuse(k) \/ Observe(k)
    \/ Sweep \/ Second

Spec == Init /\ [][Next]_vars

-------------------------------------------------------------------------------
(* Properties.                                                             *)

(* Every variable has its shape; in particular no bucket holds more than   *)
(* the capacity or less than nothing (memory-store.ts:39-43).              *)
TypeOK ==
    /\ now \in 0..MaxTime
    /\ buckets \in [Keys -> Bucket]
    /\ refusals \in [Keys -> Count]
    /\ reported \subseteq Keys
    /\ quoted \in [Keys -> Quote]
    /\ watch \in Watch
    /\ watch.from <= now
    /\ requests \in 0..MaxRequests
    /\ \A k \in Keys : buckets[k].lastRefill <= now

(* From any moment on, a key is granted at most its burst and what the     *)
(* sustained rate earned since, sweeps or not (limits.ts:5-6).             *)
WithinRate ==
    watch.granted * Token <= Full + (now - watch.from) * Capacity

(* A client that waits as long as Retry-After says finds a token, and at   *)
(* X-RateLimit-Reset the bucket is full, unless the key was used since     *)
(* (rate-limit.middleware.ts:74-78).                                       *)
HeadersHonest ==
    \A k \in Keys :
        /\ quoted[k].retryAt >= 0 /\ now >= quoted[k].retryAt => Tokens(k) >= Token
        /\ quoted[k].resetAt >= 0 /\ now >= quoted[k].resetAt => Tokens(k) = Full

-------------------------------------------------------------------------------
(* Statements of the repository that the code does not keep.               *)

(* The sweep "drops buckets that have refilled to capacity - they carry no *)
(* state worth keeping" (memory-store.ts:65): what a bucket may spend does *)
(* not change when nobody spends and no time passes.                       *)
SweptWereFull ==
    [][\A k \in Keys : buckets[k].kept /\ ~buckets'[k].kept => Tokens(k) = Full]_vars
===============================================================================
