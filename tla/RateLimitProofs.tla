---------------------------- MODULE RateLimitProofs ----------------------------
(***************************************************************************)
(* Theorems about RateLimit, for every policy, key set and clock.          *)
(***************************************************************************)
EXTENDS RateLimit, TLAPS

LEMMA FullIsNat == Full \in Nat /\ Token \in Nat /\ Token >= 1 /\ Full >= Token
<1>1. Capacity * Window \in Nat
  BY PolicyAssumption
<1>2. Capacity * Window >= Window
  <2>1. (Capacity - 1) * Window >= 0
    BY PolicyAssumption
  <2>2. (Capacity - 1) * Window = Capacity * Window - Window
    BY PolicyAssumption
  <2> QED
    BY <2>1, <2>2, <1>1, PolicyAssumption
<1> QED
  BY <1>1, <1>2, PolicyAssumption DEF Full, Token

(* Time earns tokens, and more time earns no fewer. *)
LEMMA Earned ==
    ASSUME NEW d \in Nat
    PROVE  /\ d * Capacity \in Nat
           /\ (d + 1) * Capacity = d * Capacity + Capacity
BY PolicyAssumption

LEMMA EarnsMore ==
    ASSUME NEW d \in Nat, NEW e \in Nat, d <= e
    PROVE  d * Capacity <= e * Capacity
<1>1. (e - d) * Capacity >= 0
  BY PolicyAssumption
<1>2. (e - d) * Capacity = e * Capacity - d * Capacity
  BY PolicyAssumption
<1> QED
  BY <1>1, <1>2, Earned, PolicyAssumption

(* Rounding up covers what is missing. *)
LEMMA CeilDivCovers ==
    ASSUME NEW a \in Nat, NEW b \in Nat \ {0}
    PROVE  CeilDiv(a, b) \in Nat /\ CeilDiv(a, b) * b >= a
<1> DEFINE n == a + b - 1
<1>1. n \in Nat
  OBVIOUS
<1>2. n = b * (n \div b) + (n % b) /\ n % b \in 0..(b - 1) /\ n \div b \in Nat
  BY <1>1
<1>3. (n \div b) * b = b * (n \div b)
  BY <1>2
<1>4. b * (n \div b) \in Nat
  BY <1>2
<1>5. (n \div b) * b >= a
  <2> HIDE DEF n
  <2> QED BY <1>2, <1>3, <1>4 DEF n
<1> QED
  BY <1>2, <1>5 DEF CeilDiv

(* What the bucket holds is between nothing and its capacity. *)
LEMMA TokensType ==
    ASSUME TypeOK, NEW k \in Keys
    PROVE  Tokens(k) \in 0..Full /\ Overfull(k) \in Nat
<1>1. CASE buckets[k].kept
  <2>1. now - buckets[k].lastRefill \in Nat /\ buckets[k].tokens \in 0..Full
    BY <1>1 DEF TypeOK, Bucket
  <2>2. (now - buckets[k].lastRefill) * Capacity \in Nat
    BY <2>1, Earned
  <2> QED
    BY <1>1, <2>1, <2>2, FullIsNat DEF Tokens, AtMost, Overfull
<1>2. CASE ~buckets[k].kept
  BY <1>2, FullIsNat DEF Tokens, AtMost, Overfull
<1> QED
  BY <1>1, <1>2

-------------------------------------------------------------------------------
(* Types.                                                                  *)

LEMMA RefilledType ==
    ASSUME TypeOK, NEW n \in 0..Full
    PROVE  Refilled(n) \in Bucket
BY DEF TypeOK, Refilled, Bucket

LEMMA CountType ==
    ASSUME TypeOK, NEW k \in Keys
    PROVE  CountRefusal(k) \in [Keys -> Count]
<1>1. NoCount \in Count
  BY PolicyAssumption DEF NoCount, Count
<1>2. [i \in Keys |-> NoCount] \in [Keys -> Count]
  BY <1>1
<1>3. [kept |-> TRUE, count |-> 1, hourStartedAt |-> now] \in Count
  BY DEF TypeOK, Count
<1>4. [refusals EXCEPT ![k].count = @ + 1] \in [Keys -> Count]
  BY DEF TypeOK, Count
<1> QED
  BY <1>2, <1>3, <1>4 DEF TypeOK, CountRefusal

LEMMA WaitType ==
    ASSUME NEW n \in 0..Full
    PROVE  /\ SecondsToFull(n) \in Nat
           /\ n < Token => RetryAfter(n) \in Nat
<1>1. Full - n \in Nat
  BY FullIsNat
<1>2. SecondsToFull(n) \in Nat
  BY <1>1, CeilDivCovers, PolicyAssumption DEF SecondsToFull
<1>3. ASSUME n < Token PROVE RetryAfter(n) \in Nat
  <2>1. Token - n \in Nat
    BY <1>3, FullIsNat
  <2>2. CeilDiv(Token - n, Capacity) \in Nat
    BY <2>1, CeilDivCovers, PolicyAssumption
  <2> QED
    BY <2>2 DEF RetryAfter, AtLeast
<1> QED
  BY <1>2, <1>3

LEMMA InitType == Init => TypeOK
<1> SUFFICES ASSUME Init PROVE TypeOK
  OBVIOUS
<1>1. NoBucket \in Bucket /\ NoCount \in Count /\ NoQuote \in Quote
  BY FullIsNat, PolicyAssumption DEF NoBucket, Bucket, NoCount, Count, NoQuote, Quote
<1>2. watch \in Watch /\ watch.from = 0
  BY PolicyAssumption DEF Init, Watch
<1> QED
  BY <1>1, <1>2, PolicyAssumption DEF Init, TypeOK, NoBucket

LEMMA StepType == TypeOK /\ [Next]_vars => TypeOK'
<1> SUFFICES ASSUME TypeOK, [Next]_vars PROVE TypeOK'
  OBVIOUS
<1> USE PolicyAssumption
<1>1. ASSUME NEW k \in Keys, Allow(k) PROVE TypeOK'
  <2>1. Tokens(k) - Token \in 0..Full
    BY <1>1, TokensType, FullIsNat DEF Allow
  <2>2. Refilled(Tokens(k) - Token) \in Bucket /\ SecondsToFull(Tokens(k) - Token) \in Nat
    BY <2>1, RefilledType, WaitType
  <2>3. buckets' \in [Keys -> Bucket] /\ quoted' \in [Keys -> Quote]
    BY <1>1, <2>2 DEF Allow, TypeOK, Quote
  <2>4. watch' \in Watch /\ watch'.from = watch.from
    BY <1>1 DEF Allow, TypeOK, Watch
  <2>5. \A i \in Keys : buckets'[i].lastRefill <= now
    BY <1>1 DEF Allow, TypeOK, Refilled
  <2> QED
    BY <1>1, <2>3, <2>4, <2>5 DEF Allow, TypeOK, Request
<1>2. ASSUME NEW k \in Keys, Refuse(k) PROVE TypeOK'
  <2>1. Tokens(k) \in 0..Full /\ Tokens(k) < Token
    BY <1>2, TokensType DEF Refuse
  <2>2. /\ Refilled(Tokens(k)) \in Bucket
        /\ SecondsToFull(Tokens(k)) \in Nat /\ RetryAfter(Tokens(k)) \in Nat
    BY <2>1, RefilledType, WaitType
  <2>3. buckets' \in [Keys -> Bucket] /\ quoted' \in [Keys -> Quote]
    BY <1>2, <2>2 DEF Refuse, TypeOK, Quote
  <2>4. watch' \in Watch /\ watch'.from = watch.from
    BY <1>2 DEF Refuse, TypeOK, Watch
  <2>5. \A i \in Keys : buckets'[i].lastRefill <= now
    BY <1>2 DEF Refuse, TypeOK, Refilled
  <2>6. refusals' \in [Keys -> Count] /\ reported' \subseteq Keys
    BY <1>2, CountType DEF Refuse, TypeOK
  <2> QED
    BY <1>2, <2>3, <2>4, <2>5, <2>6 DEF Refuse, TypeOK, Request
<1>3. ASSUME NEW k \in Keys, Observe(k) PROVE TypeOK'
  BY <1>3 DEF Observe, TypeOK, Watch
<1>4. CASE Sweep
  <2>1. NoBucket \in Bucket
    BY FullIsNat DEF NoBucket, Bucket
  <2>2. buckets' \in [Keys -> Bucket]
    BY <1>4, <2>1 DEF Sweep, TypeOK
  <2>3. \A i \in Keys : buckets'[i].lastRefill <= now
    BY <1>4 DEF Sweep, TypeOK, NoBucket
  <2> QED
    BY <1>4, <2>2, <2>3 DEF Sweep, TypeOK
<1>5. CASE Second
  BY <1>5 DEF Second, TypeOK, Bucket, Watch
<1>6. CASE UNCHANGED vars
  BY <1>6 DEF vars, TypeOK
<1> QED
  BY <1>1, <1>2, <1>3, <1>4, <1>5, <1>6 DEF Next

(* Every reachable state has its shape: in particular a bucket never holds *)
(* more than the capacity or less than nothing.                            *)
THEOREM TypeCorrect == Spec => []TypeOK
BY InitType, StepType, PTL DEF Spec

-------------------------------------------------------------------------------
(* The rate.                                                               *)

(* What was granted and what the watched bucket could still grant never    *)
(* exceed the burst and what was earned since the observation began.       *)
Ledger ==
    watch.granted * Token + Tokens(watch.key)
        <= Full + (now - watch.from) * Capacity

LEMMA TokensTypeNext ==
    ASSUME TypeOK', NEW k \in Keys
    PROVE  Overfull(k)' \in Nat /\ Tokens(k)' \in Nat
<1>1. CASE buckets'[k].kept
  <2>1. now' - buckets'[k].lastRefill \in Nat /\ buckets'[k].tokens \in Nat
    BY FullIsNat DEF TypeOK, Bucket
  <2>2. (now' - buckets'[k].lastRefill) * Capacity \in Nat
    BY <2>1, Earned
  <2> QED
    BY <1>1, <2>1, <2>2, FullIsNat DEF Overfull, Tokens, AtMost, Full
<1>2. CASE ~buckets'[k].kept
  BY <1>2, FullIsNat DEF Overfull, Tokens, AtMost, Full
<1> QED
  BY <1>1, <1>2

(* A second adds to a bucket no more than what a second earns. *)
LEMMA SecondEarns ==
    ASSUME TypeOK, NEW k \in Keys, Second
    PROVE  Tokens(k)' <= Tokens(k) + Capacity
<1>1. Full' = Full /\ Overfull(k) \in Nat
  BY TokensType DEF Full
<1>2. Overfull(k)' <= Overfull(k) + Capacity
  <2>1. CASE buckets[k].kept
    <3>1. now - buckets[k].lastRefill \in Nat /\ buckets[k].tokens \in Nat
      BY FullIsNat DEF TypeOK, Bucket
    <3>2. now' - buckets[k].lastRefill = (now - buckets[k].lastRefill) + 1
      BY <3>1 DEF Second, TypeOK, Bucket
    <3>3. (now' - buckets[k].lastRefill) * Capacity
            = (now - buckets[k].lastRefill) * Capacity + Capacity
      BY <3>1, <3>2, Earned
    <3>4. (now - buckets[k].lastRefill) * Capacity \in Nat
      BY <3>1, Earned
    <3> QED
      BY <2>1, <3>1, <3>3, <3>4, PolicyAssumption DEF Overfull, Second
  <2>2. CASE ~buckets[k].kept
    BY <2>2, FullIsNat, PolicyAssumption DEF Overfull, Second, Full
  <2> QED
    BY <2>1, <2>2
<1>3. Overfull(k)' \in Nat
  <2>1. TypeOK'
    BY StepType DEF Next
  <2> QED
    BY <2>1, TokensTypeNext
<1> QED
  BY <1>1, <1>2, <1>3, FullIsNat, PolicyAssumption DEF Tokens, AtMost

(* A bucket just written holds what was written. *)
LEMMA JustWritten ==
    ASSUME TypeOK, NEW k \in Keys, NEW n \in 0..Full,
           buckets' = [buckets EXCEPT ![k] = Refilled(n)], now' = now
    PROVE  /\ Tokens(k)' = n
           /\ \A i \in Keys : i # k => Tokens(i)' = Tokens(i)
<1>1. buckets'[k] = [kept |-> TRUE, tokens |-> n, lastRefill |-> now]
  BY DEF TypeOK, Refilled
<1>2. (now' - buckets'[k].lastRefill) * Capacity = 0
  BY <1>1, PolicyAssumption DEF TypeOK
<1>3. Tokens(k)' = n
  BY <1>1, <1>2, FullIsNat DEF Tokens, AtMost, Overfull, Full
<1>4. ASSUME NEW i \in Keys, i # k PROVE Tokens(i)' = Tokens(i)
  BY <1>4 DEF TypeOK, Tokens, AtMost, Overfull, Full
<1> QED
  BY <1>3, <1>4

(* When no window is longer than the idle time, the sweep only drops       *)
(* buckets that have refilled, and nobody can tell.                        *)
LEMMA SweepUnseen ==
    ASSUME TypeOK, Window <= Idle, Sweep, NEW k \in Keys
    PROVE  Tokens(k)' = Tokens(k)
<1>1. CASE now - buckets[k].lastRefill > Idle /\ buckets[k].kept
  <2>1. now - buckets[k].lastRefill \in Nat /\ buckets[k].tokens \in Nat
    BY FullIsNat DEF TypeOK, Bucket
  <2>2. Window <= now - buckets[k].lastRefill
    BY <1>1, <2>1, PolicyAssumption
  <2>3. Window * Capacity <= (now - buckets[k].lastRefill) * Capacity
    BY <2>1, <2>2, EarnsMore, PolicyAssumption
  <2>4. Window * Capacity = Full
    BY PolicyAssumption DEF Full
  <2>5. (now - buckets[k].lastRefill) * Capacity \in Nat
    BY <2>1, Earned
  <2>6. Tokens(k) = Full
    BY <1>1, <2>1, <2>3, <2>4, <2>5, FullIsNat DEF Tokens, AtMost, Overfull
  <2>7. Tokens(k)' = Full
    BY <1>1, FullIsNat DEF Sweep, NoBucket, Tokens, AtMost, Overfull, Full
  <2> QED
    BY <2>6, <2>7
<1>2. CASE now - buckets[k].lastRefill > Idle /\ ~buckets[k].kept
  BY <1>2 DEF Sweep, NoBucket, Tokens, AtMost, Overfull, Full
<1>3. CASE ~(now - buckets[k].lastRefill > Idle)
  BY <1>3 DEF Sweep, Tokens, AtMost, Overfull, Full
<1> QED
  BY <1>1, <1>2, <1>3

LEMMA LedgerStep ==
    ASSUME Window <= Idle, TypeOK, Ledger, [Next]_vars
    PROVE  Ledger'
<1> DEFINE earned == (now - watch.from) * Capacity
           spent == watch.granted * Token
<1>1. /\ watch.key \in Keys /\ watch.granted \in Nat /\ watch.from \in Nat
      /\ now - watch.from \in Nat
  BY DEF TypeOK, Watch
<1>2. spent \in Nat /\ earned \in Nat
  BY <1>1, Earned, FullIsNat
<1>3. Tokens(watch.key) \in Nat /\ spent + Tokens(watch.key) <= Full + earned
  BY <1>1, TokensType, FullIsNat DEF Ledger
<1>4. ASSUME NEW k \in Keys, Allow(k) PROVE Ledger'
  <2>1. Tokens(k) - Token \in 0..Full
    BY <1>4, TokensType, FullIsNat DEF Allow
  <2>2. /\ Tokens(k)' = Tokens(k) - Token
        /\ \A i \in Keys : i # k => Tokens(i)' = Tokens(i)
    BY <1>4, <2>1, JustWritten DEF Allow
  <2>3. watch'.key = watch.key /\ watch'.from = watch.from /\ now' = now
        /\ Token' = Token /\ Full' = Full
    BY <1>4 DEF Allow, TypeOK, Watch, Token, Full
  <2>4. CASE k = watch.key
    <3>1. watch'.granted = watch.granted + 1
      BY <1>4, <2>4 DEF Allow, TypeOK, Watch
    <3>2. (watch.granted + 1) * Token = spent + Token
      BY <1>1, FullIsNat
    <3>3. Tokens(watch.key)' = Tokens(watch.key) - Token
      BY <2>2, <2>3, <2>4
    <3> QED
      BY <1>1, <1>2, <1>3, <2>3, <3>1, <3>2, <3>3, FullIsNat DEF Ledger
  <2>5. CASE k # watch.key
    <3>1. watch' = watch /\ Tokens(watch.key)' = Tokens(watch.key)
      BY <1>1, <1>4, <2>2, <2>5 DEF Allow
    <3> QED
      BY <1>3, <2>3, <3>1 DEF Ledger
  <2> QED
    BY <2>4, <2>5
<1>5. ASSUME NEW k \in Keys, Refuse(k) PROVE Ledger'
  <2>1. \A i \in Keys : Tokens(i)' = Tokens(i)
    BY <1>5, TokensType, JustWritten DEF Refuse
  <2>2. watch'.key = watch.key /\ watch'.from = watch.from
        /\ watch'.granted = watch.granted /\ now' = now /\ Token' = Token /\ Full' = Full
    BY <1>5 DEF Refuse, TypeOK, Watch, Token, Full
  <2> QED
    BY <1>1, <1>3, <2>1, <2>2 DEF Ledger
<1>6. ASSUME NEW k \in Keys, Observe(k) PROVE Ledger'
  <2>1. watch' = [key |-> k, from |-> now, granted |-> 0, refused |-> 0]
        /\ now' = now /\ now \in Nat
    BY <1>6 DEF Observe, TypeOK
  <2>2. Tokens(k)' = Tokens(k) /\ Tokens(k) \in 0..Full
    BY <1>6, TokensType DEF Observe, Tokens, AtMost, Overfull, Full
  <2>3. watch'.granted * Token = 0 /\ (now' - watch'.from) * Capacity = 0
    BY <2>1, FullIsNat, PolicyAssumption
  <2> QED
    BY <2>1, <2>2, <2>3, FullIsNat DEF Ledger, Full, Token
<1>0. PICK w \in Keys : w = watch.key
  BY <1>1
<1>7. CASE Sweep
  <2>1. Tokens(w)' = Tokens(w)
    BY <1>7, SweepUnseen
  <2>2. watch' = watch /\ now' = now
    BY <1>7 DEF Sweep
  <2>3. Tokens(watch.key)' = Tokens(watch.key)
    BY <1>0, <2>1, <2>2
  <2> QED
    BY <1>3, <2>2, <2>3 DEF Ledger, Full, Token
<1>8. CASE Second
  <2>1. Tokens(w)' <= Tokens(w) + Capacity
    BY <1>8, SecondEarns
  <2>2. watch' = watch /\ now' - watch.from = (now - watch.from) + 1
    BY <1>1, <1>8 DEF Second, TypeOK
  <2>3. (now' - watch.from) * Capacity = earned + Capacity
    BY <1>1, <2>2, Earned
  <2>4. Tokens(w)' \in Int
    <3>1. TypeOK'
      BY <1>8, StepType DEF Next
    <3> QED
      BY <3>1, TokensTypeNext
  <2>5. Tokens(watch.key)' = Tokens(w)' /\ Tokens(watch.key) = Tokens(w)
    BY <1>0, <2>2
  <2> QED
    BY <1>2, <1>3, <2>1, <2>2, <2>3, <2>4, <2>5, FullIsNat, PolicyAssumption DEF Ledger, Full, Token
<1>9. CASE UNCHANGED vars
  BY <1>9 DEF vars, Ledger, Tokens, AtMost, Overfull, Full, Token
<1> QED
  BY <1>4, <1>5, <1>6, <1>7, <1>8, <1>9 DEF Next

LEMMA LedgerInit == ASSUME TypeOK, Init PROVE Ledger
<1>1. watch.granted = 0 /\ watch.from = 0 /\ now = 0 /\ watch.key \in Keys
  BY DEF Init
<1>2. Tokens(watch.key) \in 0..Full
  BY <1>1, TokensType
<1> QED
  BY <1>1, <1>2, FullIsNat, PolicyAssumption DEF Ledger

(* A policy whose window is no longer than the idle time of the sweep      *)
(* keeps its rate for every key, from every moment on.                     *)
THEOREM RateKept == Window <= Idle => (Spec => []WithinRate)
<1> SUFFICES ASSUME Window <= Idle PROVE Spec => []WithinRate
  OBVIOUS
<1>1. Init => Ledger
  BY InitType, LedgerInit
<1>2. TypeOK /\ Ledger /\ [Next]_vars => Ledger'
  BY LedgerStep
<1>3. TypeOK /\ Ledger => WithinRate
  <2> SUFFICES ASSUME TypeOK, Ledger PROVE WithinRate
    OBVIOUS
  <2>1. watch.granted \in Nat /\ now - watch.from \in Nat /\ watch.key \in Keys
    BY DEF TypeOK, Watch
  <2>2. watch.granted * Token \in Nat /\ (now - watch.from) * Capacity \in Nat
    BY <2>1, FullIsNat, Earned
  <2> QED
    BY <2>1, <2>2, TokensType, FullIsNat DEF Ledger, WithinRate
<1> QED
  BY <1>1, <1>2, <1>3, TypeCorrect, PTL DEF Spec

-------------------------------------------------------------------------------
(* The headers.                                                            *)

(* By the moment a header names, a bucket will have earned what is missing. *)
Earns(k, at, level) ==
    at >= 0 /\ buckets[k].kept =>
        /\ at >= buckets[k].lastRefill
        /\ buckets[k].tokens + (at - buckets[k].lastRefill) * Capacity >= level

Covered == \A k \in Keys : /\ Earns(k, quoted[k].retryAt, Token)
                           /\ Earns(k, quoted[k].resetAt, Full)

LEMMA EarnsAfterWait ==
    ASSUME TypeOK, NEW k \in Keys, NEW n \in 0..Full, NEW level \in Nat, n <= level,
           NEW wait \in Nat, wait >= CeilDiv(level - n, Capacity),
           buckets' = [buckets EXCEPT ![k] = Refilled(n)]
    PROVE  /\ buckets'[k].lastRefill = now
           /\ now + wait >= now
           /\ n + ((now + wait) - now) * Capacity >= level
           /\ buckets'[k].tokens = n
<1>1. level - n \in Nat
  BY FullIsNat
<1>2. CeilDiv(level - n, Capacity) \in Nat /\ CeilDiv(level - n, Capacity) * Capacity >= level - n
  BY <1>1, CeilDivCovers, PolicyAssumption
<1>3. wait * Capacity >= CeilDiv(level - n, Capacity) * Capacity
  BY <1>2, EarnsMore
<1>4. wait * Capacity \in Nat /\ CeilDiv(level - n, Capacity) * Capacity \in Nat
  BY <1>2, Earned
<1>5. (now + wait) - now = wait
  BY DEF TypeOK
<1>6. buckets'[k] = [kept |-> TRUE, tokens |-> n, lastRefill |-> now]
  BY DEF TypeOK, Refilled
<1> QED
  BY <1>1, <1>2, <1>3, <1>4, <1>5, <1>6, FullIsNat DEF TypeOK

LEMMA CoveredStep ==
    ASSUME TypeOK, Covered, [Next]_vars
    PROVE  Covered'
<1>1. ASSUME NEW k \in Keys, NEW n \in 0..Full, Allow(k) \/ Refuse(k),
             buckets' = [buckets EXCEPT ![k] = Refilled(n)],
             quoted'[k].resetAt = now + SecondsToFull(n),
             \/ quoted'[k].retryAt = -1
             \/ n < Token /\ quoted'[k].retryAt = now + RetryAfter(n)
      PROVE  Covered'
  <2>1. Full' = Full /\ Token' = Token
    BY DEF Full, Token
  <2>2. Earns(k, quoted[k].resetAt, Full)'
    <3>1. SecondsToFull(n) \in Nat /\ SecondsToFull(n) >= CeilDiv(Full - n, Capacity) /\ n <= Full
      BY WaitType, FullIsNat DEF SecondsToFull
    <3>2. /\ buckets'[k].lastRefill = now /\ buckets'[k].tokens = n
          /\ now + SecondsToFull(n) >= now
          /\ n + ((now + SecondsToFull(n)) - now) * Capacity >= Full
      BY <1>1, <3>1, EarnsAfterWait, FullIsNat
    <3> QED
      BY <1>1, <2>1, <3>2 DEF Earns
  <2>3. Earns(k, quoted[k].retryAt, Token)'
    <3>1. CASE quoted'[k].retryAt = -1
      BY <3>1 DEF Earns
    <3>2. CASE n < Token /\ quoted'[k].retryAt = now + RetryAfter(n)
      <4>1. RetryAfter(n) \in Nat /\ n <= Token
        BY <3>2, WaitType, FullIsNat
      <4>2. CeilDiv(Token - n, Capacity) \in Nat
        BY <3>2, CeilDivCovers, FullIsNat, PolicyAssumption
      <4>3. RetryAfter(n) >= CeilDiv(Token - n, Capacity)
        BY <4>2 DEF RetryAfter, AtLeast
      <4>4. /\ buckets'[k].lastRefill = now /\ buckets'[k].tokens = n
            /\ now + RetryAfter(n) >= now
            /\ n + ((now + RetryAfter(n)) - now) * Capacity >= Token
        BY <1>1, <4>1, <4>3, EarnsAfterWait, FullIsNat
      <4> QED
        BY <2>1, <3>2, <4>4 DEF Earns
    <3> QED
      BY <1>1, <3>1, <3>2
  <2>4. ASSUME NEW i \in Keys, i # k
        PROVE  buckets'[i] = buckets[i] /\ quoted'[i] = quoted[i]
    BY <1>1, <2>4 DEF Allow, Refuse, TypeOK
  <2> QED
    BY <2>1, <2>2, <2>3, <2>4 DEF Covered, Earns
<1>2. ASSUME NEW k \in Keys, Allow(k) PROVE Covered'
  <2>1. Tokens(k) - Token \in 0..Full
    BY <1>2, TokensType, FullIsNat DEF Allow
  <2> QED
    BY <1>1, <1>2, <2>1 DEF Allow, TypeOK, Quote
<1>3. ASSUME NEW k \in Keys, Refuse(k) PROVE Covered'
  <2>1. Tokens(k) \in 0..Full
    BY TokensType
  <2> QED
    BY <1>1, <1>3, <2>1 DEF Refuse, TypeOK, Quote
<1>4. CASE Sweep
  BY <1>4 DEF Sweep, Covered, Earns, NoBucket, Full, Token
<1>5. CASE Second \/ (\E k \in Keys : Observe(k)) \/ UNCHANGED vars
  BY <1>5 DEF Second, Observe, vars, Covered, Earns, Full, Token
<1> QED
  BY <1>2, <1>3, <1>4, <1>5 DEF Next

LEMMA WaitedLongEnough ==
    ASSUME TypeOK, NEW k \in Keys, NEW at \in Int, NEW level \in Nat, level <= Full,
           Earns(k, at, level), at >= 0, now >= at
    PROVE  Tokens(k) >= level
<1>1. CASE buckets[k].kept
  <2>1. /\ at - buckets[k].lastRefill \in Nat /\ now - buckets[k].lastRefill \in Nat
        /\ at - buckets[k].lastRefill <= now - buckets[k].lastRefill
        /\ buckets[k].tokens \in Nat
    BY <1>1, FullIsNat DEF TypeOK, Bucket, Earns
  <2>2. (at - buckets[k].lastRefill) * Capacity <= (now - buckets[k].lastRefill) * Capacity
    BY <2>1, EarnsMore
  <2>3. /\ (at - buckets[k].lastRefill) * Capacity \in Nat
        /\ (now - buckets[k].lastRefill) * Capacity \in Nat
    BY <2>1, Earned
  <2>4. Overfull(k) >= level
    BY <1>1, <2>1, <2>2, <2>3 DEF Earns, Overfull
  <2> QED
    BY <2>4, TokensType, FullIsNat DEF Tokens, AtMost
<1>2. CASE ~buckets[k].kept
  BY <1>2, FullIsNat DEF Tokens, AtMost, Overfull
<1> QED
  BY <1>1, <1>2

(* Retry-After and X-RateLimit-Reset keep their word, whatever the policy  *)
(* and however often the sweep runs.                                       *)
THEOREM HeadersKeptHonest == Spec => []HeadersHonest
<1>1. Init => Covered
  BY DEF Init, Covered, Earns, NoQuote, NoBucket
<1>2. TypeOK /\ Covered /\ [Next]_vars => Covered'
  BY CoveredStep
<1>3. TypeOK /\ Covered => HeadersHonest
  <2> SUFFICES ASSUME TypeOK, Covered, NEW k \in Keys
               PROVE  /\ quoted[k].retryAt >= 0 /\ now >= quoted[k].retryAt => Tokens(k) >= Token
                      /\ quoted[k].resetAt >= 0 /\ now >= quoted[k].resetAt => Tokens(k) = Full
    BY DEF HeadersHonest
  <2>1. quoted[k].retryAt \in Int /\ quoted[k].resetAt \in Int
    BY DEF TypeOK, Quote
  <2>2. Earns(k, quoted[k].retryAt, Token) /\ Earns(k, quoted[k].resetAt, Full)
    BY DEF Covered
  <2>3. ASSUME quoted[k].retryAt >= 0, now >= quoted[k].retryAt PROVE Tokens(k) >= Token
    BY <2>1, <2>2, <2>3, WaitedLongEnough, FullIsNat
  <2>4. ASSUME quoted[k].resetAt >= 0, now >= quoted[k].resetAt PROVE Tokens(k) = Full
    <3>1. Tokens(k) >= Full
      BY <2>1, <2>2, <2>4, WaitedLongEnough, FullIsNat
    <3> QED
      BY <3>1, TokensType, FullIsNat
  <2> QED
    BY <2>3, <2>4
<1> QED
  BY <1>1, <1>2, <1>3, TypeCorrect, PTL DEF Spec
===============================================================================
