------------------------- MODULE RateLimiterProofs -------------------------
(***************************************************************************)
(* What the token bucket of RateLimiter promises, for every capacity, cost,*)
(* rounding and TTL that satisfy LimiterAssumption.                        *)
(***************************************************************************)
EXTENDS RateLimiter, TLAPS

USE LimiterAssumption

\* The lesser of a full bucket and what was left plus the refill.
Brimmed == IF tokens + Elapsed > Capacity THEN Capacity ELSE tokens + Elapsed

\* The lesser of two numbers is one of them and no greater than either.
LEMMA LesserOf ==
    ASSUME NEW a \in Nat, NEW r, r = IF a > Capacity THEN Capacity ELSE a
    PROVE  r \in 0..Capacity /\ r <= a
OBVIOUS

\* A difference that is clipped at zero is a natural number.
LEMMA ClippedDifference ==
    ASSUME NEW a \in Int, NEW b \in Int
    PROVE  (IF a > b THEN a - b ELSE 0) \in Nat
OBVIOUS

\* Elapsed and Refilled are numbers, and the bucket never holds more than Capacity.
LEMMA RefilledType ==
    ASSUME LimiterTypeOK
    PROVE  Elapsed \in Nat /\ Refilled \in 0..Capacity /\ Brimmed \in 0..Capacity
BY DEF LimiterTypeOK, Elapsed, Refilled, Brimmed

\* A key that has expired would have been full anyway: whether HMGET still finds it
\* makes no difference.
LEMMA ExpiryGrantsNothing ==
    ASSUME LimiterTypeOK, ExpiresFull, present
    PROVE  Refilled = Brimmed
<1>1. CASE Found
  BY <1>1, RefilledType DEF Refilled, Brimmed
<1>2. CASE ~Found
  <2>1. 2 * (clock - timestamp) >= 2 * Capacity
    BY <1>2 DEF Found, ExpiresFull, LimiterTypeOK
  <2>2. Elapsed >= Capacity
    BY <2>1 DEF Elapsed, LimiterTypeOK
  <2> QED BY <1>2, <2>2, RefilledType DEF Refilled, Brimmed, LimiterTypeOK
<1> QED BY <1>1, <1>2

\* The clock alone cannot make the bucket hold more than the time it moved on by.
LEMMA ClockRefill ==
    ASSUME LimiterInv, NEW t \in Nat, clock' = t, UNCHANGED bucketVars,
           LimiterTypeOK', ExpiresFull'
    PROVE  Refilled' <= Refilled + (IF t > clock THEN t - clock ELSE 0)
<1>1. CASE present
  <2>1. Refilled = Brimmed
    BY <1>1, ExpiryGrantsNothing DEF LimiterInv
  <2>2. present' = present /\ tokens' = tokens /\ timestamp' = timestamp
    BY DEF bucketVars
  <2>3. Refilled' = Brimmed'
    <3>1. CASE Found'
      BY <3>1 DEF Refilled, Brimmed
    <3>2. CASE ~Found'
      <4>1. t \in Nat /\ timestamp \in Int /\ expireAt \in Int /\ expireAt' = expireAt
        BY DEF LimiterInv, LimiterTypeOK, bucketVars
      <4>2. t >= expireAt
        BY <1>1, <2>2, <3>2, <4>1 DEF Found
      <4>3. 2 * (timestamp - expireAt) <= Grain - 2 * Ttl
        BY <1>1 DEF LimiterInv, ExpiresFull
      <4>4. t >= timestamp + Capacity
        BY <4>1, <4>2, <4>3
      <4>5. Elapsed' >= Capacity
        BY <2>2, <4>1, <4>4 DEF Elapsed
      <4> QED BY <3>2, <4>5, <2>2 DEF Refilled, Brimmed, LimiterInv, LimiterTypeOK, Elapsed
    <3> QED BY <3>1, <3>2
  <2> QED BY <2>1, <2>2, <2>3 DEF Brimmed, Elapsed, LimiterInv, LimiterTypeOK
<1>2. CASE ~present
  BY <1>2 DEF bucketVars, Refilled, Found, LimiterInv, LimiterTypeOK
<1> QED BY <1>1, <1>2

-----------------------------------------------------------------------------
\* A call, granted or not, keeps the invariant: what it grants leaves the bucket, and
\* the rounded timestamp adds at most half a grain.
LEMMA TryAcquireInv ==
    ASSUME LimiterInv, TryAcquire
    PROVE  LimiterInv'
<1> USE DEF LimiterInv
<1>1. PICK t \in Rounded : timestamp' = t
  BY DEF TryAcquire
<1>2. t \in Int /\ 2 * (t - clock) <= Grain /\ 2 * (clock - t) <= Grain
  BY DEF Rounded, LimiterTypeOK
<1>3. Refilled \in 0..Capacity
  BY RefilledType
<1>4. LimiterTypeOK'
  BY <1>1, <1>2, <1>3 DEF TryAcquire, LimiterTypeOK
<1>5. ExpiresFull'
  BY <1>1, <1>2 DEF TryAcquire, ExpiresFull, LimiterTypeOK
<1>6. PauseSeen'
  BY <1>1, <1>2 DEF TryAcquire, PauseSeen, LimiterTypeOK
<1>7. WouldGrantBound'
  <2>1. granted' + tokens' = granted + Refilled
    BY <1>3 DEF TryAcquire, LimiterTypeOK
  <2>2. Found'
    BY DEF TryAcquire, Found, LimiterTypeOK
  <2>3. 2 * Elapsed' <= Grain /\ Elapsed' \in Nat
    <3>1. clock' = clock /\ clock \in Int
      BY DEF TryAcquire, LimiterTypeOK
    <3> QED BY <1>1, <1>2, <3>1 DEF Elapsed
  <2>4. tokens' \in Nat
    BY <1>4 DEF LimiterTypeOK
  <2>5. Refilled' = IF tokens' + Elapsed' > Capacity THEN Capacity ELSE tokens' + Elapsed'
    BY <2>2 DEF Refilled
  <2>6. Refilled' \in Int /\ Refilled' <= tokens' + Elapsed'
    <3>1. PICK n \in Nat, e \in Nat : tokens' = n /\ Elapsed' = e
      BY <2>3, <2>4
    <3>2. n + e \in Nat
      OBVIOUS
    <3> QED BY <2>5, <3>1, <3>2, LesserOf
  <2>7. 2 * (granted' + Refilled') <= 2 * (granted + Refilled) + Grain
    <3>1. granted' \in Int /\ granted \in Int
      BY <1>4 DEF LimiterTypeOK
    <3>2. Refilled \in Int
      BY <1>3
    <3>3. PICK g \in Int : granted' = g
      BY <3>1
    <3>4. PICK n \in Int : tokens' = n
      BY <2>4
    <3>5. PICK e \in Int : Elapsed' = e
      BY <2>3
    <3>6. PICK r \in Int : Refilled' = r
      BY <2>6
    <3> HIDE DEF LimiterInv
    <3> QED BY <2>1, <2>3, <2>6, <3>1, <3>2, <3>3, <3>4, <3>5, <3>6
  <2>8. Grain * calls' = Grain * calls + Grain /\ Grain * calls \in Int
    BY DEF TryAcquire, LimiterTypeOK
  <2>9. elapsed' = elapsed /\ jumped' = jumped
    BY DEF TryAcquire
  <2>10. 2 * (granted + Refilled) <= 2 * (Capacity + elapsed + jumped) + Grain * calls
    BY DEF WouldGrantBound
  <2> HIDE DEF LimiterInv
  <2>11. 2 * (granted + Refilled) \in Int /\ 2 * (granted' + Refilled') \in Int
    BY <1>3, <1>4, <2>6 DEF LimiterTypeOK, LimiterInv
  <2>12. 2 * (Capacity + elapsed + jumped) \in Int
    BY DEF LimiterTypeOK, LimiterInv
  <2> QED BY <2>7, <2>8, <2>9, <2>10, <2>11, <2>12 DEF WouldGrantBound
<1> QED BY <1>4, <1>5, <1>6, <1>7

\* Moving the clock keeps the invariant when what it moves forwards by is counted.
LEMMA ClockInv ==
    ASSUME LimiterInv, UNCHANGED bucketVars, UNCHANGED <<granted, calls>>,
           LimiterTypeOK', PauseSeen',
           elapsed' + jumped' =
             elapsed + jumped + (IF clock' > clock THEN clock' - clock ELSE 0)
    PROVE  LimiterInv'
<1> DEFINE Ahead == IF clock' > clock THEN clock' - clock ELSE 0
<1>1. ExpiresFull'
  BY DEF bucketVars, ExpiresFull, LimiterInv
<1>2. clock' \in Nat /\ Ahead \in Nat
  <2>1. clock' \in Nat /\ clock' \in Int /\ clock \in Int
    BY DEF LimiterTypeOK, LimiterInv
  <2>2. Ahead \in Nat
    BY <2>1, ClippedDifference
  <2> QED BY <2>1, <2>2
<1>3. Refilled' <= Refilled + Ahead
  BY <1>1, <1>2, ClockRefill
<1>4. Refilled \in Int /\ Refilled' \in Int
  <2>1. Refilled \in Int
    BY RefilledType DEF LimiterInv
  <2>2. Elapsed' \in Nat
    <3>1. clock' \in Int /\ timestamp' \in Int
      BY DEF LimiterTypeOK
    <3> QED BY <3>1, ClippedDifference DEF Elapsed
  <2>3. tokens' \in Int
    BY DEF LimiterTypeOK
  <2>4. Capacity \in Int /\ tokens' + Elapsed' \in Int
    BY <2>2, <2>3
  <2>5. Refilled' \in Int
    BY <2>4, Zenon DEF Refilled
  <2> QED BY <2>1, <2>5
<1>5. Grain * calls' = Grain * calls /\ Grain * calls \in Int
  BY DEF LimiterTypeOK, LimiterInv
<1>6. elapsed' + jumped' = elapsed + jumped + Ahead
  OBVIOUS
<1>7. /\ elapsed \in Int /\ elapsed' \in Int /\ jumped \in Int /\ jumped' \in Int
      /\ granted \in Int /\ granted' = granted
  BY DEF LimiterTypeOK, LimiterInv
<1>8. 2 * (granted + Refilled) <= 2 * (Capacity + elapsed + jumped) + Grain * calls
  BY DEF LimiterInv, WouldGrantBound
<1> HIDE DEF Ahead
<1>9. 2 * (granted' + Refilled') <= 2 * (Capacity + elapsed' + jumped') + Grain * calls'
  <2>1. PICK e \in Int, j \in Int, r \in Int : elapsed' = e /\ jumped' = j /\ Refilled' = r
    BY <1>4, <1>7
  <2>2. PICK k \in Int : Grain * calls = k /\ Grain * calls' = k
    BY <1>5
  <2> QED BY <1>2, <1>3, <1>4, <1>6, <1>7, <1>8, <2>1, <2>2
<1> QED BY <1>1, <1>9 DEF LimiterInv, WouldGrantBound

\* Time going by keeps the invariant.
LEMMA TickInv ==
    ASSUME LimiterInv, Tick
    PROVE  LimiterInv'
<1>1. LimiterTypeOK'
  BY DEF Tick, bucketVars, LimiterTypeOK, LimiterInv
<1>2. PauseSeen'
  BY DEF Tick, bucketVars, PauseSeen, LimiterTypeOK, LimiterInv
<1>3. elapsed' + jumped' = elapsed + jumped + (IF clock' > clock THEN clock' - clock ELSE 0)
  BY DEF Tick, LimiterTypeOK, LimiterInv
<1> QED BY <1>1, <1>2, <1>3, ClockInv DEF Tick

\* A clock that is set, forwards or backwards, keeps the invariant.
LEMMA SetClockInv ==
    ASSUME LimiterInv, NEW t \in 0..MaxClock, SetClock(t)
    PROVE  LimiterInv'
<1>1. LimiterTypeOK'
  <2>1. CASE t < clock
    BY <2>1 DEF SetClock, bucketVars, LimiterTypeOK, LimiterInv
  <2>2. CASE ~(t < clock)
    BY <2>2 DEF SetClock, bucketVars, LimiterTypeOK, LimiterInv
  <2> QED BY <2>1, <2>2
<1>2. PauseSeen'
  <2>1. CASE t < clock
    BY <2>1 DEF SetClock, PauseSeen
  <2>2. CASE ~(t < clock)
    BY <2>2 DEF SetClock, bucketVars, PauseSeen, LimiterTypeOK, LimiterInv
  <2> QED BY <2>1, <2>2
<1>3. elapsed' + jumped' = elapsed + jumped + (IF clock' > clock THEN clock' - clock ELSE 0)
  BY DEF SetClock, LimiterTypeOK, LimiterInv
<1> QED BY <1>1, <1>2, <1>3, ClockInv DEF SetClock

\* The removal of an expired key keeps the invariant: it changes nothing that is found.
LEMMA ExpireKeyInv ==
    ASSUME LimiterInv, ExpireKey
    PROVE  LimiterInv'
<1>1. LimiterTypeOK'
  BY DEF ExpireKey, windowVars, pauseVars, LimiterTypeOK, LimiterInv
<1>2. ExpiresFull' /\ PauseSeen'
  BY DEF ExpireKey, ExpiresFull, PauseSeen
<1>3. ~Found /\ ~Found'
  BY DEF ExpireKey, Found, LimiterTypeOK, LimiterInv
<1>4. Refilled' = Refilled
  BY <1>3 DEF Refilled
<1> QED BY <1>1, <1>2, <1>4 DEF ExpireKey, windowVars, WouldGrantBound, LimiterInv

\* The invariant holds of a window that begins anywhere.
LEMMA StartWindowInv ==
    ASSUME LimiterInv, StartWindow
    PROVE  LimiterInv'
<1>1. LimiterTypeOK'
  BY DEF StartWindow, pauseVars, bucketVars, LimiterTypeOK, LimiterInv
<1>2. ExpiresFull' /\ PauseSeen'
  BY DEF StartWindow, pauseVars, bucketVars, ExpiresFull, PauseSeen, LimiterInv
<1>3. Refilled' = Refilled
  BY DEF StartWindow, bucketVars, Refilled, Found, Elapsed
<1>4. Grain * calls' = 0 /\ granted' = 0 /\ elapsed' = 0 /\ jumped' = 0
  BY DEF StartWindow
<1>5. Refilled \in 0..Capacity
  BY RefilledType DEF LimiterInv
<1>6. 2 * (granted' + Refilled') <= 2 * (Capacity + elapsed' + jumped') + Grain * calls'
  BY <1>3, <1>4, <1>5
<1> QED BY <1>1, <1>2, <1>6 DEF WouldGrantBound, LimiterInv

\* LimiterInv holds in every reachable state, whatever the calls, the key's TTL and
\* the clock of the Redis server do.
THEOREM LimiterInvariance == LimiterSpec => []LimiterInv
<1>1. LimiterInit => LimiterInv
  <2> SUFFICES ASSUME LimiterInit PROVE LimiterInv
    OBVIOUS
  <2>1. Refilled = Capacity /\ Grain * calls = 0
    BY DEF LimiterInit, Refilled, Found
  <2>2. LimiterTypeOK
    <3>1. present \in BOOLEAN /\ steady \in BOOLEAN
      BY Zenon DEF LimiterInit
    <3> QED BY <3>1 DEF LimiterInit, LimiterTypeOK
  <2>3. WouldGrantBound
    BY <2>1 DEF LimiterInit, WouldGrantBound
  <2> QED BY <2>2, <2>3 DEF LimiterInit, LimiterInv, ExpiresFull, PauseSeen
<1>2. LimiterInv /\ [LimiterNext]_limiterVars => LimiterInv'
  <2> SUFFICES ASSUME LimiterInv, [LimiterNext]_limiterVars PROVE LimiterInv'
    OBVIOUS
  <2>1. CASE TryAcquire
    BY <2>1, TryAcquireInv
  <2>2. CASE ExpireKey
    BY <2>2, ExpireKeyInv
  <2>3. CASE Tick
    BY <2>3, TickInv
  <2>4. ASSUME NEW t \in 0..MaxClock, SetClock(t) PROVE LimiterInv'
    BY <2>4, SetClockInv
  <2>5. CASE StartWindow
    BY <2>5, StartWindowInv
  <2>6. CASE UNCHANGED limiterVars
    BY <2>6 DEF limiterVars, bucketVars, windowVars, pauseVars, LimiterInv, LimiterTypeOK,
       ExpiresFull, WouldGrantBound, PauseSeen, Refilled, Found, Elapsed
  <2> QED BY <2>1, <2>2, <2>3, <2>4, <2>5, <2>6 DEF LimiterNext
<1> QED BY <1>1, <1>2, PTL DEF LimiterSpec

\* The limiter never grants a host more, over any span of time, than a full bucket and
\* that span's refill (and half a rounding per call).
THEOREM GrantsBounded == LimiterSpec => []GrantBound
<1>1. LimiterInv => GrantBound
  <2> SUFFICES ASSUME LimiterInv PROVE GrantBound
    OBVIOUS
  <2>1. Refilled \in 0..Capacity
    BY RefilledType DEF LimiterInv
  <2>2. Grain * calls \in Int
    BY DEF LimiterInv, LimiterTypeOK
  <2> QED BY <2>1, <2>2 DEF LimiterInv, LimiterTypeOK, WouldGrantBound, GrantBound
<1> QED BY <1>1, LimiterInvariance, PTL

\* Whoever waits as long as one token takes is served by the next call.
THEOREM PatienceIsServed == LimiterSpec => []PatientCallerServed
<1>1. LimiterInv => PatientCallerServed
  <2> SUFFICES ASSUME LimiterInv, steady, quiet >= Cost + Grain PROVE Refilled >= Cost
    BY DEF PatientCallerServed
  <2>1. CASE present
    <3>1. Elapsed >= Cost
      BY <2>1 DEF LimiterInv, PauseSeen, Elapsed, LimiterTypeOK
    <3> QED BY <3>1 DEF LimiterInv, LimiterTypeOK, Refilled, Elapsed
  <2>2. CASE ~present
    BY <2>2 DEF Refilled, Found
  <2> QED BY <2>1, <2>2
<1> QED BY <1>1, LimiterInvariance, PTL
=============================================================================
