---------------------------- MODULE RateLimiter ----------------------------
(***************************************************************************)
(* The token bucket of -rate-limit (plugin.RateLimit) and the pipes that   *)
(* share it: one bucket per client that registered a limit of its own, one *)
(* for all the others.  A pipe calls Wait(n) for every chunk it relays, in *)
(* either direction.                                                       *)
(*                                                                         *)
(* The unit of time is what the limit allows for one byte, so that the     *)
(* bucket gains one token per tick and the (float64) arithmetic of the     *)
(* code is exact in integers; a bucket holds one second's worth of bytes.  *)
(***************************************************************************)
EXTENDS Naturals, FiniteSets

CONSTANTS
    RatePipe,    \* the pipes that share the bucket
    Burst,       \* bytesPerSec: tokens in a full bucket, ticks in a second
    MaxChunk,    \* bound: bytes in a chunk (32 KiB in the code)
    MaxClock     \* bound: no chunk is read after this time

ASSUME RateAssumption ==
    /\ IsFiniteSet(RatePipe) /\ Burst \in Nat \ {0}
    /\ MaxChunk \in Nat /\ MaxClock \in Nat

VARIABLES
    clock,        \* time.Now()
    tokens,
    lastRefill,
    asleep,       \* pipes in time.Sleep
    wake,         \* when the sleep of a pipe is over
    size,         \* the chunk a pipe waits with
    since,        \* history: when the measurement began
    through,      \* history: bytes each pipe has relayed since
    total         \* history: bytes all of them have relayed since

bucketVars == <<tokens, lastRefill>>
sleepVars  == <<asleep, wake, size>>
seenVars   == <<since, through, total>>
rateVars   == <<clock, bucketVars, sleepVars, seenVars>>

RateInit ==
    /\ clock = 0 /\ tokens = Burst /\ lastRefill = 0
    /\ asleep = {}
    /\ wake = [p \in RatePipe |-> 0] /\ size = [p \in RatePipe |-> 0]
    /\ since = 0 /\ through = [p \in RatePipe |-> 0] /\ total = 0

\* Faulty variant: the bucket has no ceiling.
RefilledNoCap == tokens + (clock - lastRefill)

\* refill: what accrued since the last time, up to a full bucket.
Refilled ==
    LET t == tokens + (clock - lastRefill) IN IF t > Burst THEN Burst ELSE t

\* Wait returns and the pipe writes its chunk.
Pass(p, n) ==
    /\ through' = [through EXCEPT ![p] = @ + n]
    /\ total' = total + n
    /\ UNCHANGED since

\* Wait, one critical section: there are tokens for the whole chunk.
WaitAdmits(p, n) ==
    /\ p \notin asleep /\ clock <= MaxClock
    /\ Refilled >= n
    /\ tokens' = Refilled - n
    /\ lastRefill' = clock
    /\ Pass(p, n)
    /\ UNCHANGED <<clock, sleepVars>>

\* Wait: there are not; the bucket is emptied and the pipe sleeps for as long
\* as the missing tokens take.
WaitSleeps(p, n) ==
    /\ p \notin asleep /\ clock <= MaxClock
    /\ Refilled < n
    /\ tokens' = 0
    /\ lastRefill' = clock
    /\ asleep' = asleep \cup {p}
    /\ wake' = [wake EXCEPT ![p] = clock + (n - Refilled)]
    /\ size' = [size EXCEPT ![p] = n]
    /\ UNCHANGED <<clock, seenVars>>

\* Faulty variants: after the sleep the pipe looks again whether there are
\* tokens for its chunk; it is let through without paying.
WaitEndsRetries(p) ==
    /\ p \in asleep /\ clock >= wake[p]
    /\ lastRefill' = clock
    /\ IF Refilled >= size[p]
       THEN /\ tokens' = Refilled - size[p]
            /\ asleep' = asleep \ {p}
            /\ Pass(p, size[p])
            /\ UNCHANGED <<clock, wake, size>>
       ELSE /\ tokens' = Refilled
            /\ UNCHANGED <<clock, sleepVars, seenVars>>
WaitEndsFree(p) ==
    /\ p \in asleep /\ clock >= wake[p]
    /\ asleep' = asleep \ {p}
    /\ Pass(p, size[p])
    /\ UNCHANGED <<clock, bucketVars, wake, size>>

\* ... the sleep is over (it may have lasted longer): the second critical section
\* takes the chunk out of the bucket, which may have been used by others since
\* and is not allowed to go below empty.
WaitEnds(p) ==
    /\ p \in asleep /\ clock >= wake[p]
    /\ tokens' = IF Refilled < size[p] THEN 0 ELSE Refilled - size[p]
    /\ lastRefill' = clock
    /\ asleep' = asleep \ {p}
    /\ Pass(p, size[p])
    /\ UNCHANGED <<clock, wake, size>>

\* Time passes.
Tick ==
    /\ clock < MaxClock \/ asleep # {}
    /\ clock < MaxClock + MaxChunk
    /\ clock' = clock + 1
    /\ UNCHANGED <<bucketVars, sleepVars, seenVars>>

\* An observer of the properties, not code: it begins to measure, once, at any
\* moment at which no chunk waits.
Measure ==
    /\ since = 0 /\ clock > 0 /\ asleep = {}
    /\ since' = clock
    /\ through' = [p \in RatePipe |-> 0] /\ total' = 0
    /\ UNCHANGED <<clock, bucketVars, sleepVars>>

RateNext ==
    \/ \E p \in RatePipe : \/ WaitEnds(p)
                           \/ \E n \in 1 .. MaxChunk : WaitAdmits(p, n) \/ WaitSleeps(p, n)
    \/ Tick \/ Measure

RateSpec == RateInit /\ [][RateNext]_rateVars

(* Time passes while a pipe sleeps, and timers fire.                         *)
RateFairness ==
    /\ WF_rateVars(asleep # {} /\ Tick)
    /\ \A p \in RatePipe : WF_rateVars(WaitEnds(p))

-----------------------------------------------------------------------------
(* Properties.                                                              *)

\* What is documented of -rate-limit (README.md: "Global bandwidth limit"): all
\* pipes of a bucket together relay no more than the limit allows for the time
\* measured plus one second's worth.  A pipe that sleeps counts on tokens that
\* others take meanwhile (ratelimit.go Wait), so the code does not keep it.
SharedLimitHolds == total <= Burst + (clock - since)

\* What the limit is worth instead, counted from any moment at which no chunk
\* waits (the start is one), whatever the sizes of the chunks, the time the
\* pipes wake up late and the order they come in: each pipe for itself relays
\* no more than the limit allows plus one second's worth, and all of them
\* together no more than that many times the limit.
RateBounded ==
    /\ \A p \in RatePipe : through[p] <= Burst + (clock - since)
    /\ total <= Burst + Cardinality(RatePipe) * (clock - since)

\* A chunk is never held back for good, not even one that is larger than the
\* bucket or one that finds the bucket emptied by another pipe when it wakes up.
EveryChunkPasses == \A p \in RatePipe : []<>(p \notin asleep)
=============================================================================
