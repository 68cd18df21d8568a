---------------------------- MODULE RateLimiter ----------------------------
(***************************************************************************)
(* The token bucket of one target host (app/queue/rate_limiter.py).  The   *)
(* Lua script runs atomically in Redis, so a call is one step, whoever     *)
(* makes it.  Time is Redis's own TIME, a wall clock: it may be set        *)
(* forwards or backwards.                                                  *)
(*                                                                         *)
(* Tokens are counted in what one tick of the clock refills, so that a     *)
(* request costs Cost = 1 / refill_rate ticks and the bucket holds         *)
(* Capacity = capacity * Cost.  tostring(now) keeps 14 digits: the stored  *)
(* timestamp is now rounded to a multiple of Grain, up or down where two   *)
(* are equally near.                                                       *)
(*                                                                         *)
(* elapsed, jumped, granted and calls observe a window of the past, of any *)
(* length; quiet and steady, the pause since the last call.                *)
(***************************************************************************)
EXTENDS Integers

CONSTANTS
    Capacity, Cost, Grain,
    Ttl,        \* BUCKET_TTL_SECONDS
    MaxClock,   \* bound on the clock
    MaxCalls    \* bound on the calls of a window

ASSUME LimiterAssumption ==
    /\ Cost \in Nat \ {0}
    /\ Capacity \in Nat /\ Capacity >= Cost
    /\ Grain \in Nat \ {0}
    /\ Ttl \in Nat /\ Ttl >= Capacity + Grain
    /\ MaxClock \in Nat
    /\ MaxCalls \in Nat

VARIABLES
    present, tokens, timestamp, expireAt,   \* the bucket's hash and its TTL
    clock,                                  \* TIME
    elapsed,   \* ticks since the window began
    jumped,    \* by how much the clock was set forwards in it
    granted,   \* what calls in it were granted
    calls,     \* how many calls were made in it
    quiet,     \* ticks since the last call
    steady     \* the clock was not set back since the last call

bucketVars == <<present, tokens, timestamp, expireAt>>
windowVars == <<elapsed, jumped, granted, calls>>
pauseVars == <<quiet, steady>>
limiterVars == <<bucketVars, clock, windowVars, pauseVars>>

LimiterTypeOK ==
    /\ present \in BOOLEAN
    /\ tokens \in 0..Capacity
    /\ timestamp \in Int
    /\ expireAt \in Int
    /\ clock \in Nat
    /\ elapsed \in Nat /\ jumped \in Nat /\ granted \in Nat /\ calls \in Nat
    /\ quiet \in Nat /\ steady \in BOOLEAN

LimiterInit ==
    /\ present = FALSE /\ tokens = 0 /\ timestamp = 0 /\ expireAt = 0
    /\ clock = 0
    /\ elapsed = 0 /\ jumped = 0 /\ granted = 0 /\ calls = 0
    /\ quiet = 0 /\ steady = TRUE

-----------------------------------------------------------------------------
\* What HMGET finds: nothing once the TTL has passed.
Found == present /\ clock < expireAt

\* Mutant: a clock behind the timestamp takes tokens away.
ElapsedUnclipped == clock - timestamp

\* math.max(0, now - timestamp)
Elapsed == IF clock > timestamp THEN clock - timestamp ELSE 0

\* Mutant: the bucket has no brim.
RefilledUncapped == IF ~Found THEN Capacity ELSE tokens + Elapsed

\* The tokens before the request: a bucket that is not there is full.
Refilled ==
    IF ~Found \/ tokens + Elapsed > Capacity THEN Capacity ELSE tokens + Elapsed

\* What tostring(now) may store.
Rounded == {t \in (clock - Grain)..(clock + Grain) :
              /\ t % Grain = 0
              /\ 2 * (t - clock) <= Grain
              /\ 2 * (clock - t) <= Grain}

\* try_acquire, whether granted or not
TryAcquire ==
    /\ calls < MaxCalls
    /\ IF Refilled >= Cost
       THEN tokens' = Refilled - Cost /\ granted' = granted + Cost
       ELSE tokens' = Refilled /\ granted' = granted
    /\ timestamp' \in Rounded
    /\ present' = TRUE
    /\ expireAt' = clock + Ttl
    /\ calls' = calls + 1
    /\ quiet' = 0 /\ steady' = TRUE
    /\ UNCHANGED <<clock, elapsed, jumped>>

\* Redis deletes an expired key when it comes to it.
ExpireKey ==
    /\ present /\ expireAt <= clock
    /\ present' = FALSE
    /\ UNCHANGED <<tokens, timestamp, expireAt, clock, windowVars, pauseVars>>

Tick ==
    /\ clock < MaxClock
    /\ clock' = clock + 1
    /\ elapsed' = elapsed + 1
    /\ quiet' = quiet + 1
    /\ UNCHANGED <<bucketVars, jumped, granted, calls, steady>>

\* The server's clock is set.
SetClock(t) ==
    /\ clock' = t
    /\ jumped' = IF t > clock THEN jumped + (t - clock) ELSE jumped
    /\ steady' = IF t < clock THEN FALSE ELSE steady
    /\ UNCHANGED <<bucketVars, elapsed, granted, calls, quiet>>

\* Observe a new window from here on.
StartWindow ==
    /\ elapsed' = 0 /\ jumped' = 0 /\ granted' = 0 /\ calls' = 0
    /\ UNCHANGED <<bucketVars, clock, pauseVars>>

LimiterNext ==
    \/ TryAcquire
    \/ ExpireKey
    \/ Tick
    \/ \E t \in 0..MaxClock : SetClock(t)
    \/ StartWindow

LimiterSpec == LimiterInit /\ [][LimiterNext]_limiterVars

-----------------------------------------------------------------------------
\* No window of time, however the calls interleave, whatever the key's TTL and the
\* clock do, sees more granted than a full bucket and the refill of that time: half
\* a grain per call is what the stored timestamp may add, a clock set backwards
\* adds nothing, one set forwards as much as it jumps.
GrantBound ==
    2 * granted <= 2 * (Capacity + elapsed + jumped) + Grain * calls

\* A bucket left alone for as long as one token takes refuses nobody, however long
\* or short its TTL and whatever the timestamp was rounded to, unless the clock was
\* set back meanwhile (the next call puts that right).  process_task defers a
\* refused task by RATE_LIMITED_RETRY_DELAY_SECONDS and relies on it.
PatientCallerServed == steady /\ quiet >= Cost + Grain => Refilled >= Cost

-----------------------------------------------------------------------------
(* The inductive invariant behind the two *)

\* The key outlives the refill of an empty bucket, so its expiry grants nothing.
ExpiresFull == present => 2 * (timestamp - expireAt) <= Grain - 2 * Ttl

\* What the bucket would grant at once is within the bound as well.
WouldGrantBound ==
    2 * (granted + Refilled) <= 2 * (Capacity + elapsed + jumped) + Grain * calls

\* The stored timestamp has seen the pause go by, up to its rounding.
PauseSeen == steady /\ present => 2 * (clock - timestamp) >= 2 * quiet - Grain

\* Every bucket and window the script can leave behind: the two properties above
\* follow from it for any capacity, rate, rounding and TTL.
LimiterInv == LimiterTypeOK /\ ExpiresFull /\ WouldGrantBound /\ PauseSeen
=============================================================================
