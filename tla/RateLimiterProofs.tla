------------------------- MODULE RateLimiterProofs -------------------------
(***************************************************************************)
(* Proofs about RateLimiter, for any number of pipes, any limit and chunks *)
(* of any size: what a pipe, and all pipes together, can relay in a given  *)
(* time.                                                                   *)
(***************************************************************************)
EXTENDS RateLimiter, FiniteSetTheorems, TLAPS

(* The sum of e[p] for the pipes p of S, as the size of a set: the library  *)
(* has facts about cardinalities.                                           *)
Amounts     == [RatePipe -> 0 .. MaxChunk]
Units(S, e) == {x \in RatePipe \X (1 .. MaxChunk) : x[1] \in S /\ x[2] <= e[x[1]]}
Sum(S, e)   == Cardinality(Units(S, e))

(* A sum is a number, grows with the set and depends on its pipes only.     *)
LEMMA SumBasics ==
    ASSUME NEW S \in SUBSET RatePipe, NEW e \in Amounts
    PROVE  /\ IsFiniteSet(Units(S, e)) /\ Sum(S, e) \in Nat
           /\ \A T \in SUBSET S : Sum(T, e) <= Sum(S, e)
           /\ S = {} => Sum(S, e) = 0
           /\ \A f \in Amounts : (\A p \in S : f[p] = e[p]) => Sum(S, f) = Sum(S, e)
<1>1. IsFiniteSet(RatePipe \X (1 .. MaxChunk))
  <2>1. IsFiniteSet(1 .. MaxChunk)
    BY RateAssumption, FS_Interval
  <2> QED
    BY <2>1, RateAssumption, FS_Product
<1>2. \A T \in SUBSET RatePipe : IsFiniteSet(Units(T, e))
  <2>1. \A T : Units(T, e) \in SUBSET (RatePipe \X (1 .. MaxChunk))
    BY DEF Units
  <2> QED
    BY <1>1, <2>1, FS_Subset
<1>3. Sum(S, e) \in Nat
  BY <1>2, FS_CardinalityType DEF Sum
<1>4. ASSUME NEW T \in SUBSET S PROVE Sum(T, e) <= Sum(S, e)
  <2>1. Units(T, e) \in SUBSET Units(S, e)
    BY DEF Units
  <2> QED
    BY <1>2, <2>1, FS_Subset DEF Sum
<1>5. ASSUME S = {} PROVE Sum(S, e) = 0
  <2>1. Units(S, e) = {}
    BY <1>5 DEF Units
  <2> QED
    BY <2>1, FS_EmptySet DEF Sum
<1>6. ASSUME NEW f \in Amounts, \A p \in S : f[p] = e[p] PROVE Sum(S, f) = Sum(S, e)
  <2>1. Units(S, f) = Units(S, e)
    BY <1>6 DEF Units
  <2> QED
    BY <2>1 DEF Sum
<1> QED
  BY <1>2, <1>3, <1>4, <1>5, <1>6

(* One pipe more.                                                           *)
LEMMA SumAdds ==
    ASSUME NEW S \in SUBSET RatePipe, NEW e \in Amounts, NEW p \in RatePipe \ S
    PROVE  Sum(S \cup {p}, e) = Sum(S, e) + e[p]
<1> DEFINE U == {p} \X (1 .. e[p])
<1>1. e[p] \in Nat /\ e[p] <= MaxChunk
  BY RateAssumption DEF Amounts
<1>2. IsFiniteSet(U) /\ Cardinality(U) = e[p]
  <2>1. IsFiniteSet(1 .. e[p]) /\ Cardinality(1 .. e[p]) = e[p]
    <3>1. 1 \in Int /\ e[p] \in Int /\ e[p] - 1 + 1 = e[p] /\ (1 > e[p] <=> e[p] = 0)
      BY <1>1
    <3>2. /\ IsFiniteSet(1 .. e[p])
          /\ Cardinality(1 .. e[p]) = IF 1 > e[p] THEN 0 ELSE e[p] - 1 + 1
      BY <3>1, FS_Interval
    <3> QED
      BY <3>1, <3>2
  <2>2. IsFiniteSet({p}) /\ Cardinality({p}) = 1
    BY FS_Singleton
  <2>3. /\ IsFiniteSet(U)
        /\ Cardinality(U) = Cardinality({p}) * Cardinality(1 .. e[p])
    BY <2>1, <2>2, FS_Product, Zenon
  <2>4. Cardinality(U) = 1 * e[p]
    BY <2>1, <2>2, <2>3
  <2> QED
    BY <1>1, <2>3, <2>4
<1>3. Units(S \cup {p}, e) = Units(S, e) \cup U
  <2>1. ASSUME NEW x \in Units(S \cup {p}, e) PROVE x \in Units(S, e) \cup U
    BY <1>1, <2>1 DEF Units
  <2>2. ASSUME NEW x \in Units(S, e) \cup U PROVE x \in Units(S \cup {p}, e)
    BY <1>1, <2>2, RateAssumption DEF Units
  <2> QED
    BY <2>1, <2>2
<1>4. Units(S, e) \cap U = {}
  BY DEF Units
<1>5. IsFiniteSet(Units(S, e)) /\ Sum(S, e) \in Nat
  BY SumBasics
<1> HIDE DEF U
<1>6. Cardinality(Units(S, e) \cup U) = Cardinality(Units(S, e)) + Cardinality(U) - 0
  BY <1>2, <1>4, <1>5, FS_Union, FS_EmptySet
<1>7. Sum(S \cup {p}, e) = Sum(S, e) + e[p] - 0
  BY <1>2, <1>3, <1>6 DEF Sum
<1> QED
  BY <1>1, <1>5, <1>7

(* Every amount grows by at most one.                                       *)
LEMMA SumGrows ==
    ASSUME NEW S \in SUBSET RatePipe, NEW e \in Amounts, NEW f \in Amounts,
           \A p \in S : f[p] <= e[p] + 1
    PROVE  Sum(S, f) <= Sum(S, e) + Cardinality(S) /\ Cardinality(S) \in Nat
<1> DEFINE g == [p \in S |-> <<p, e[p] + 1>>]
           U == {g[p] : p \in S}
<1>1. IsFiniteSet(S) /\ Cardinality(S) \in Nat
  BY RateAssumption, FS_Subset, FS_CardinalityType
<1>2. IsFiniteSet(U) /\ Cardinality(U) <= Cardinality(S)
  <2>1. g \in Surjection(S, U)
    BY DEF Surjection
  <2> HIDE DEF g, U
  <2> QED
    BY <1>1, <2>1, FS_Surjection
<1>3. Cardinality(U) \in Nat
  BY <1>2, FS_CardinalityType
<1>4. Units(S, f) \subseteq Units(S, e) \cup U
  <2> SUFFICES ASSUME NEW x \in Units(S, f), x \notin Units(S, e) PROVE x \in U
    OBVIOUS
  <2>1. /\ x = <<x[1], x[2]>> /\ x[1] \in S /\ x[2] \in 1 .. MaxChunk
        /\ x[2] <= f[x[1]] /\ ~(x[2] <= e[x[1]])
    BY DEF Units
  <2>2. e[x[1]] \in Nat /\ f[x[1]] \in Nat
    BY <2>1, RateAssumption DEF Amounts
  <2>3. x[2] = e[x[1]] + 1
    BY <2>1, <2>2, RateAssumption
  <2> QED
    BY <2>1, <2>3
<1>5. IsFiniteSet(Units(S, e)) /\ Sum(S, e) \in Nat /\ IsFiniteSet(Units(S, f)) /\ Sum(S, f) \in Nat
  BY SumBasics
<1> HIDE DEF U
<1>6. /\ IsFiniteSet(Units(S, e) \cup U)
      /\ Cardinality(Units(S, e) \cup U)
           = Cardinality(Units(S, e)) + Cardinality(U) - Cardinality(Units(S, e) \cap U)
  BY <1>2, <1>5, FS_Union
<1>7. Cardinality(Units(S, e) \cap U) \in Nat
  BY <1>2, FS_Intersection, FS_CardinalityType
<1>8. Cardinality(Units(S, f)) <= Cardinality(Units(S, e) \cup U)
  BY <1>4, <1>6, FS_Subset
<1> QED
  BY <1>1, <1>2, <1>3, <1>5, <1>6, <1>7, <1>8 DEF Sum

-----------------------------------------------------------------------------
RateTypes ==
    /\ clock \in Nat /\ tokens \in 0 .. Burst /\ lastRefill \in 0 .. clock
    /\ asleep \subseteq RatePipe /\ wake \in [RatePipe -> Nat] /\ size \in Amounts
    /\ since \in 0 .. clock /\ through \in [RatePipe -> Nat] /\ total \in Nat
    /\ \A p \in asleep : wake[p] <= clock + size[p]

\* What a pipe has relayed, with the tokens in the bucket, or with the chunk it
\* will relay when it wakes up.
PipeInv ==
    /\ \A p \in RatePipe : through[p] + Refilled <= Burst + (clock - since)
    /\ \A p \in asleep : through[p] + size[p] <= Burst + (wake[p] - since)

\* The part of its chunk that a sleeper has paid for: the tokens it found, and
\* one for every tick of its sleep.
Paid == [p \in RatePipe |->
            IF p \notin asleep THEN 0
            ELSE IF wake[p] > clock THEN size[p] - (wake[p] - clock) ELSE size[p]]

Cap == Burst + Cardinality(RatePipe) * (clock - since)

\* As long as a pipe is awake, no more is relayed, paid or in the bucket than the
\* sleepers and the bucket were given.  When all sleep there is one account more
\* than pipes: the bucket's tokens only count once a pipe wakes up, and are then
\* taken by its chunk, or the chunk by them.
TotalInv ==
    /\ asleep # RatePipe => total + Refilled + Sum(asleep, Paid) <= Cap
    /\ asleep = RatePipe =>
         /\ total + Sum(asleep, Paid) <= Cap
         /\ \A p \in RatePipe : total + Refilled + Sum(asleep \ {p}, Paid) <= Cap

(* The bucket never holds more than one second's worth, and a tick adds at  *)
(* most one token.                                                          *)
LEMMA RefilledBounds ==
    ASSUME RateTypes
    PROVE  /\ Refilled \in 0 .. Burst
           /\ lastRefill' = clock /\ clock' = clock /\ tokens' \in 0 .. Burst => Refilled' = tokens'
           /\ clock' = clock + 1 /\ UNCHANGED bucketVars => Refilled' <= Refilled + 1 /\ Refilled' \in 0 .. Burst
           /\ UNCHANGED <<clock, bucketVars>> => Refilled' = Refilled
BY RateAssumption DEF RateTypes, Refilled, bucketVars

(* Types: in particular no sleep is longer than its chunk.                  *)
LEMMA RateTypesStep == RateTypes /\ [RateNext]_rateVars => RateTypes'
<1> SUFFICES ASSUME RateTypes, [RateNext]_rateVars PROVE RateTypes'
  OBVIOUS
<1> USE RateAssumption DEF bucketVars, sleepVars, seenVars, Amounts
<1>0. Refilled \in 0 .. Burst
  BY RefilledBounds
<1>1. ASSUME NEW p \in RatePipe, WaitEnds(p) PROVE RateTypes'
  BY <1>0, <1>1 DEF RateTypes, WaitEnds, Pass
<1>2. ASSUME NEW p \in RatePipe, NEW n \in 1 .. MaxChunk, WaitAdmits(p, n) PROVE RateTypes'
  BY <1>0, <1>2 DEF RateTypes, WaitAdmits, Pass
<1>3. ASSUME NEW p \in RatePipe, NEW n \in 1 .. MaxChunk, WaitSleeps(p, n) PROVE RateTypes'
  BY <1>0, <1>3 DEF RateTypes, WaitSleeps
<1>4. CASE Tick
  BY <1>4 DEF RateTypes, Tick
<1>5. CASE Measure
  BY <1>5 DEF RateTypes, Measure
<1>6. CASE UNCHANGED rateVars
  BY <1>6 DEF RateTypes, rateVars
<1> QED
  BY <1>1, <1>2, <1>3, <1>4, <1>5, <1>6 DEF RateNext

(* No pipe gets ahead of the limit, awake or asleep.                        *)
LEMMA PipeStep == RateTypes /\ PipeInv /\ [RateNext]_rateVars => PipeInv'
<1> SUFFICES ASSUME RateTypes, PipeInv, [RateNext]_rateVars PROVE PipeInv'
  OBVIOUS
<1> USE RateAssumption DEF bucketVars, sleepVars, seenVars, Amounts
<1>0. Refilled \in 0 .. Burst
  BY RefilledBounds
<1>1. ASSUME NEW p \in RatePipe, WaitEnds(p) PROVE PipeInv'
  <2>1. Refilled' = IF Refilled < size[p] THEN 0 ELSE Refilled - size[p]
    BY <1>0, <1>1, RefilledBounds DEF WaitEnds, RateTypes
  <2> QED
    BY <1>0, <1>1, <2>1 DEF RateTypes, PipeInv, WaitEnds, Pass
<1>2. ASSUME NEW p \in RatePipe, NEW n \in 1 .. MaxChunk, WaitAdmits(p, n) PROVE PipeInv'
  <2>1. Refilled' = Refilled - n
    BY <1>0, <1>2, RefilledBounds DEF WaitAdmits
  <2> QED
    BY <1>0, <1>2, <2>1 DEF RateTypes, PipeInv, WaitAdmits, Pass
<1>3. ASSUME NEW p \in RatePipe, NEW n \in 1 .. MaxChunk, WaitSleeps(p, n) PROVE PipeInv'
  <2>1. Refilled' = 0
    BY <1>3, RefilledBounds DEF WaitSleeps
  <2> QED
    BY <1>0, <1>3, <2>1 DEF RateTypes, PipeInv, WaitSleeps
<1>4. CASE Tick
  <2>1. Refilled' <= Refilled + 1 /\ Refilled' \in Nat
    BY <1>4, RefilledBounds DEF Tick
  <2> QED
    BY <1>0, <1>4, <2>1 DEF RateTypes, PipeInv, Tick
<1>5. CASE Measure
  <2>1. Refilled' = Refilled
    BY <1>5, RefilledBounds DEF Measure
  <2> QED
    BY <1>0, <1>5, <2>1 DEF RateTypes, PipeInv, Measure
<1>6. CASE UNCHANGED rateVars
  <2>1. Refilled' = Refilled
    BY <1>6, RefilledBounds DEF rateVars
  <2> QED
    BY <1>6, <2>1 DEF PipeInv, rateVars
<1> QED
  BY <1>1, <1>2, <1>3, <1>4, <1>5, <1>6 DEF RateNext

(* What the limit is worth for all pipes grows by one token for each, every *)
(* tick.                                                                    *)
LEMMA CapGrows ==
    ASSUME RateTypes
    PROVE  /\ Cardinality(RatePipe) \in Nat /\ Cap \in Nat
           /\ clock' = clock + 1 /\ since' = since => Cap' = Cap + Cardinality(RatePipe)
           /\ UNCHANGED <<clock, since>> => Cap' = Cap
           /\ clock' = clock /\ since' = clock => Cap' = Burst
<1>1. Cardinality(RatePipe) \in Nat
  BY RateAssumption, FS_CardinalityType
<1>2. \A n, d \in Nat : n * d \in Nat /\ n * (d + 1) = n * d + n /\ n * 0 = 0
  OBVIOUS
<1>3. clock - since \in Nat /\ clock - clock = 0 /\ (clock + 1) - since = (clock - since) + 1
  BY DEF RateTypes
<1> QED
  BY <1>1, <1>2, <1>3, RateAssumption DEF Cap

(* A sleeper has paid for some of its chunk, and for all of it at the end.  *)
LEMMA PaidBounds ==
    ASSUME RateTypes
    PROVE  /\ Paid \in Amounts
           /\ \A p \in asleep : clock >= wake[p] => Paid[p] = size[p]
           /\ RateTypes' /\ clock' = clock + 1 /\ UNCHANGED sleepVars =>
                \A p \in asleep : Paid'[p] <= Paid[p] + 1
BY RateAssumption DEF RateTypes, Paid, Amounts, sleepVars

(* All pipes together stay within the accounts of the pipes.                *)
LEMMA TotalStep == RateTypes /\ RateTypes' /\ TotalInv /\ [RateNext]_rateVars => TotalInv'
<1> SUFFICES ASSUME RateTypes, RateTypes', TotalInv, [RateNext]_rateVars PROVE TotalInv'
  OBVIOUS
<1> USE DEF bucketVars, sleepVars, seenVars
<1>1. /\ Refilled \in Nat /\ Refilled <= Burst /\ Burst \in Nat /\ total \in Nat /\ Cap \in Nat
      /\ Paid \in Amounts /\ Paid' \in Amounts
      /\ asleep \in SUBSET RatePipe /\ asleep' \in SUBSET RatePipe
  <2>1. Paid' \in Amounts
    BY RateAssumption DEF RateTypes, Paid, Amounts
  <2>2. Refilled \in 0 .. Burst /\ Cap \in Nat /\ Paid \in Amounts
    BY RefilledBounds, CapGrows, PaidBounds
  <2> QED
    BY <2>1, <2>2, RateAssumption DEF RateTypes
<1>2. \A S \in SUBSET RatePipe : Sum(S, Paid) \in Nat /\ Sum(S, Paid') \in Nat
  BY <1>1, SumBasics
<1>3. ASSUME NEW p \in RatePipe, WaitEnds(p) PROVE TotalInv'
  <2> DEFINE rest == asleep \ {p}
  <2>1. /\ p \in asleep /\ size[p] \in Nat /\ total' = total + size[p] /\ asleep' = rest
        /\ Refilled' = IF Refilled < size[p] THEN 0 ELSE Refilled - size[p]
        /\ Cap' = Cap /\ Paid[p] = size[p]
    <3>1. p \in asleep /\ size[p] \in Nat /\ total' = total + size[p] /\ asleep' = rest
      BY <1>3, RateAssumption DEF WaitEnds, Pass, RateTypes, Amounts
    <3>2. Refilled' = IF Refilled < size[p] THEN 0 ELSE Refilled - size[p]
      BY <1>1, <1>3, <3>1, RefilledBounds DEF WaitEnds
    <3>3. Cap' = Cap /\ Paid[p] = size[p]
      BY <1>3, <3>1, CapGrows, PaidBounds DEF WaitEnds, Pass
    <3> QED
      BY <3>1, <3>2, <3>3
  <2>2. Sum(rest, Paid') = Sum(rest, Paid)
    <3>1. \A q \in rest : Paid'[q] = Paid[q]
      BY <1>1, <1>3 DEF WaitEnds, Paid, RateTypes
    <3> QED
      BY <1>1, <3>1, SumBasics
  <2>3. Sum(asleep, Paid) = Sum(rest, Paid) + size[p]
    <3>1. asleep = rest \cup {p} /\ p \in RatePipe \ rest /\ rest \in SUBSET RatePipe
      BY <1>1, <2>1
    <3> HIDE DEF rest
    <3>2. Sum(rest \cup {p}, Paid) = Sum(rest, Paid) + Paid[p]
      BY <1>1, <3>1, SumAdds
    <3> QED
      BY <2>1, <3>1, <3>2
  <2>4. Sum(rest, Paid) \in Nat /\ rest # RatePipe
    BY <1>1, <1>2
  <2>5. total + Refilled + Sum(asleep, Paid) <= Cap
          \/ (total + Sum(asleep, Paid) <= Cap /\ total + Refilled + Sum(rest, Paid) <= Cap)
    BY DEF TotalInv
  <2> HIDE DEF rest
  <2>6. total' + Refilled' + Sum(rest, Paid) <= Cap
    BY <1>1, <2>1, <2>3, <2>4, <2>5
  <2> QED
    BY <2>1, <2>2, <2>4, <2>6 DEF TotalInv
<1>4. ASSUME NEW p \in RatePipe, NEW n \in 1 .. MaxChunk, WaitAdmits(p, n) PROVE TotalInv'
  <2>1. /\ p \notin asleep /\ asleep' = asleep /\ total' = total + n
        /\ Refilled' = Refilled - n /\ Cap' = Cap /\ n <= Refilled /\ n \in Nat
    <3>1. n \in Nat /\ n <= Refilled /\ tokens' \in 0 .. Burst
      BY <1>1, <1>4, RateAssumption DEF WaitAdmits
    <3>2. Refilled' = Refilled - n
      BY <1>4, <3>1, RefilledBounds DEF WaitAdmits
    <3>3. Cap' = Cap
      BY <1>4, CapGrows DEF WaitAdmits, Pass
    <3> QED
      BY <1>4, <3>1, <3>2, <3>3 DEF WaitAdmits, Pass
  <2>2. Paid' = Paid
    BY <1>4 DEF WaitAdmits, Paid
  <2>3. asleep # RatePipe /\ Sum(asleep, Paid) \in Nat
    BY <1>1, <1>2, <2>1
  <2>4. total + Refilled + Sum(asleep, Paid) <= Cap
    BY <2>3 DEF TotalInv
  <2>5. total' + Refilled' + Sum(asleep, Paid) <= Cap
    BY <1>1, <2>1, <2>3, <2>4
  <2> QED
    BY <2>1, <2>2, <2>3, <2>5 DEF TotalInv
<1>5. ASSUME NEW p \in RatePipe, NEW n \in 1 .. MaxChunk, WaitSleeps(p, n) PROVE TotalInv'
  <2>1. /\ p \notin asleep /\ asleep' = asleep \cup {p} /\ total' = total
        /\ Refilled' = 0 /\ Cap' = Cap
    <3>1. Refilled' = 0
      BY <1>5, RefilledBounds, RateAssumption DEF WaitSleeps
    <3>2. Cap' = Cap
      BY <1>5, CapGrows DEF WaitSleeps
    <3> QED
      BY <1>5, <3>1, <3>2 DEF WaitSleeps
  <2>2. Paid'[p] = Refilled
    <3>1. /\ Refilled < n /\ n \in Nat /\ clock' = clock /\ clock \in Nat
          /\ wake'[p] = clock + (n - Refilled) /\ size'[p] = n
      BY <1>1, <1>5 DEF WaitSleeps, RateTypes, Amounts
    <3>2. Paid'[p] = IF wake'[p] > clock' THEN size'[p] - (wake'[p] - clock') ELSE size'[p]
      BY <2>1 DEF Paid
    <3> QED
      BY <1>1, <3>1, <3>2
  <2>3. Sum(asleep, Paid') = Sum(asleep, Paid)
    <3>1. \A q \in asleep : Paid'[q] = Paid[q]
      BY <1>1, <1>5 DEF WaitSleeps, Paid, RateTypes, Amounts
    <3> QED
      BY <1>1, <3>1, SumBasics
  <2>4. Sum(asleep', Paid') = Sum(asleep, Paid) + Refilled
    <3>1. Sum(asleep \cup {p}, Paid') = Sum(asleep, Paid') + Paid'[p]
      BY <1>1, <2>1, SumAdds
    <3> QED
      BY <2>1, <2>2, <2>3, <3>1
  <2>5. total + Refilled + Sum(asleep, Paid) <= Cap
    BY <1>1, <2>1 DEF TotalInv
  <2>6. total' + Refilled' + Sum(asleep', Paid') <= Cap'
    BY <1>1, <1>2, <2>1, <2>4, <2>5
  <2>7. \A q \in RatePipe : Sum(asleep' \ {q}, Paid') <= Sum(asleep', Paid')
    <3>1. \A q \in RatePipe : asleep' \ {q} \in SUBSET asleep'
      OBVIOUS
    <3> QED
      BY <1>1, <3>1, SumBasics
  <2>8. \A q \in RatePipe : total' + Refilled' + Sum(asleep' \ {q}, Paid') <= Cap'
    <3>1. \A q \in RatePipe : Sum(asleep' \ {q}, Paid') \in Nat
      <4>1. \A q \in RatePipe : asleep' \ {q} \in SUBSET RatePipe
        BY <1>1
      <4> QED
        BY <1>2, <4>1
    <3>2. Sum(asleep', Paid') \in Nat
      BY <1>1, <1>2
    <3> QED
      BY <1>1, <2>1, <2>6, <2>7, <3>1, <3>2
  <2>9. total' + Sum(asleep', Paid') <= Cap'
    BY <1>1, <1>2, <2>1, <2>6
  <2> QED
    BY <2>6, <2>8, <2>9 DEF TotalInv
<1>6. CASE Tick
  <2>1. /\ asleep' = asleep /\ total' = total /\ Refilled' \in Nat /\ Refilled' <= Refilled + 1
        /\ Cap' = Cap + Cardinality(RatePipe) /\ Cardinality(RatePipe) \in Nat
    BY <1>6, RefilledBounds, CapGrows DEF Tick
  <2>2. \A q \in asleep : Paid'[q] <= Paid[q] + 1
    BY <1>6, PaidBounds DEF Tick
  <2>3. \A S \in SUBSET asleep :
           /\ Sum(S, Paid') <= Sum(S, Paid) + Cardinality(S) /\ Cardinality(S) \in Nat
           /\ Sum(S, Paid) \in Nat /\ Sum(S, Paid') \in Nat
    <3>1. \A S \in SUBSET asleep : S \in SUBSET RatePipe /\ \A q \in S : Paid'[q] <= Paid[q] + 1
      BY <1>1, <2>2
    <3> QED
      BY <1>1, <1>2, <3>1, SumGrows
  <2>4. \A S \in SUBSET RatePipe : S # RatePipe => Cardinality(S) + 1 <= Cardinality(RatePipe)
    <3> SUFFICES ASSUME NEW S \in SUBSET RatePipe, S # RatePipe
                 PROVE  Cardinality(S) + 1 <= Cardinality(RatePipe)
      OBVIOUS
    <3>1. /\ Cardinality(S) \in Nat /\ Cardinality(S) <= Cardinality(RatePipe)
          /\ Cardinality(S) # Cardinality(RatePipe)
      BY RateAssumption, FS_Subset, FS_CardinalityType
    <3> QED
      BY <2>1, <3>1
  <2>5. CASE asleep # RatePipe
    <3>1. total + Refilled + Sum(asleep, Paid) <= Cap
      BY <2>5 DEF TotalInv
    <3>2. total' + Refilled' + Sum(asleep, Paid') <= Cap'
      BY <1>1, <2>1, <2>3, <2>4, <2>5, <3>1
    <3> QED
      BY <2>1, <2>5, <3>2 DEF TotalInv
  <2>6. CASE asleep = RatePipe
    <3>1. total + Sum(asleep, Paid) <= Cap
      BY <2>6 DEF TotalInv
    <3>2. total' + Sum(asleep, Paid') <= Cap'
      BY <1>1, <2>1, <2>3, <2>6, <3>1
    <3>3. ASSUME NEW q \in RatePipe PROVE total' + Refilled' + Sum(asleep \ {q}, Paid') <= Cap'
      <4> DEFINE R == asleep \ {q}
      <4>1. total + Refilled + Sum(R, Paid) <= Cap
        BY <2>6 DEF TotalInv
      <4>2. R \in SUBSET asleep /\ R \in SUBSET RatePipe /\ R # RatePipe
        BY <2>6
      <4> HIDE DEF R
      <4>3. /\ Sum(R, Paid') <= Sum(R, Paid) + Cardinality(R) /\ Cardinality(R) \in Nat
            /\ Sum(R, Paid) \in Nat /\ Sum(R, Paid') \in Nat
            /\ Cardinality(R) + 1 <= Cardinality(RatePipe)
        BY <2>3, <2>4, <4>2
      <4>4. total' + Refilled' + Sum(R, Paid') <= Cap'
        BY <1>1, <2>1, <4>1, <4>3
      <4> QED
        BY <4>4 DEF R
    <3> QED
      BY <2>1, <2>6, <3>2, <3>3 DEF TotalInv
  <2> QED
    BY <2>5, <2>6
<1>7. CASE Measure
  <2>1. /\ asleep = {} /\ asleep' = {} /\ total' = 0 /\ Refilled' = Refilled /\ Cap' = Burst
    BY <1>7, RefilledBounds, CapGrows DEF Measure
  <2>2. Sum({}, Paid') = 0
    BY <1>1, SumBasics
  <2>3. 0 + Refilled + 0 <= Burst /\ 0 + 0 <= Burst
    BY <1>1
  <2> QED
    BY <2>1, <2>2, <2>3 DEF TotalInv
<1>8. CASE UNCHANGED rateVars
  <2>1. /\ UNCHANGED <<asleep, total>> /\ Refilled' = Refilled /\ Cap' = Cap
    BY <1>8, RefilledBounds, CapGrows DEF rateVars
  <2>2. Paid' = Paid
    BY <1>8 DEF rateVars, Paid
  <2> QED
    BY <2>1, <2>2 DEF TotalInv
<1> QED
  BY <1>3, <1>4, <1>5, <1>6, <1>7, <1>8 DEF RateNext

(* From any moment on, no pipe relays more than the limit allows plus one   *)
(* second's worth, and all pipes of a bucket together no more than that     *)
(* many times the limit plus one second's worth: Wait's two critical        *)
(* sections may be torn apart by any number of other pipes, and the chunks  *)
(* may be larger than the bucket.                                           *)
THEOREM RateBoundedHolds == RateSpec => []RateBounded
<1>1. RateInit => RateTypes /\ PipeInv /\ TotalInv
  <2> SUFFICES ASSUME RateInit PROVE RateTypes /\ PipeInv /\ TotalInv
    OBVIOUS
  <2>1. RateTypes
    BY RateAssumption DEF RateInit, RateTypes, Amounts
  <2>2. Refilled = Burst /\ clock - since = 0 /\ Burst \in Nat
    BY RateAssumption DEF RateInit, Refilled
  <2>3. PipeInv
    BY <2>2 DEF RateInit, PipeInv
  <2>4. Cap = Burst
    <3>1. \A n \in Nat : n * 0 = 0
      OBVIOUS
    <3>2. Cardinality(RatePipe) \in Nat
      BY RateAssumption, FS_CardinalityType
    <3> QED
      BY <2>2, <3>1, <3>2 DEF Cap
  <2>5. Sum({}, Paid) = 0
    BY <2>1, PaidBounds, SumBasics
  <2>6. TotalInv
    BY <2>2, <2>4, <2>5 DEF RateInit, TotalInv
  <2> QED
    BY <2>1, <2>3, <2>6
<1>2. RateTypes /\ PipeInv /\ TotalInv => RateBounded
  <2> SUFFICES ASSUME RateTypes, PipeInv, TotalInv PROVE RateBounded
    OBVIOUS
  <2>1. \A p \in RatePipe : through[p] <= Burst + (clock - since)
    BY RefilledBounds, RateAssumption DEF RateTypes, PipeInv
  <2>2. total \in Nat /\ Refilled \in Nat /\ Sum(asleep, Paid) \in Nat /\ Cap \in Nat
    BY RefilledBounds, PaidBounds, SumBasics, CapGrows DEF RateTypes
  <2>3. total <= Cap
    BY <2>2 DEF TotalInv
  <2> QED
    BY <2>1, <2>3 DEF RateBounded, Cap
<1> QED
  BY <1>1, <1>2, RateTypesStep, PipeStep, TotalStep, PTL DEF RateSpec
=============================================================================
