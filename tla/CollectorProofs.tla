----------------------------- MODULE CollectorProofs ------------------------
(***************************************************************************)
(* Theorems about the parts of the collector (MCCollector): the three      *)
(* detectors of the anomaly engine, for any values of their constants, the *)
(* classifier, and the types of all parts.                                 *)
(*                                                                         *)
(* Argument for the latency detector.  What is inductive is that the ring  *)
(* tells the time (RingIsTime): a sample d buckets back is as old as d     *)
(* intervals and the time since the ring was turned, less one interval,    *)
(* and younger than two intervals for each; and a sample in no bucket has  *)
(* left the window.  With at most a hundred samples the 99th percentile is *)
(* the highest value, because a set of numbers that is not empty has a     *)
(* least element, hence some values a highest.                             *)
(*                                                                         *)
(* Argument for the other detectors.  Their averages are sums over finite  *)
(* sets, and a set of finite sets that has a set as soon as it has the     *)
(* smaller ones has them all (SmallerFirst): so a sum may begin at the     *)
(* latest observation.  For noisy pods the Cauchy-Schwarz inequality then  *)
(* shows that a rate above a threshold it is part of exceeds the threshold *)
(* of the others as well (LoudStandsOut).  For error rates what is         *)
(* inductive is that ages fall, so that pruning from the front leaves      *)
(* exactly the window (PruningFollowsAge).                                 *)
(*                                                                         *)
(* Argument for the classifier.  The rules are compared with the registry  *)
(* one by one (Matches): every rule gives one registered type, from its    *)
(* own signals, and no two rules the same.  So the first rule that applies *)
(* gives a type that is present, and a present type of an earlier family   *)
(* would be a rule that applies at an earlier place.                       *)
(***************************************************************************)
EXTENDS MCCollector, TraceProofs, FiniteSetTheorems
-----------------------------------------------------------------------------
(***************************************************************************)
(* The latency detector.                                                   *)
(***************************************************************************)

\* How many buckets before the current one a bucket is.
Back(b) == IF b <= current THEN current - b ELSE current + NumBuckets - b

\* A bucket that is d buckets back was turned away from for at least d
\* intervals, less the one that a sample may have come early, and for less
\* than two intervals each time.
NotBefore(k, b) == log[k].age + Interval > lastTick + Back(b) * Interval
NotAfter(k, b) ==
  lastTick < Window => log[k].age <= lastTick + Back(b) * (2 * Interval - 1)

RingIsTime ==
  /\ firstSeen = Never => log = <<>>
  /\ \A b \in Bucket : \A k \in buckets[b] : NotBefore(k, b) /\ NotAfter(k, b)
  /\ \A k \in Samples :
       (\A b \in Bucket : k \notin buckets[b]) => log[k].age > Window - Interval
-----------------------------------------------------------------------------
\* Division by the interval, and by the number of buckets.
LEMMA DivMod ==
  ASSUME NEW x \in Nat, NEW n \in Nat \ {0}
  PROVE  /\ x \div n \in Nat /\ x % n \in 0 .. n - 1
         /\ n * (x \div n) <= x /\ x < n * (x \div n) + n
<1>1. x = n * (x \div n) + (x % n) /\ x % n \in 0 .. n - 1 /\ x \div n \in Nat
  OBVIOUS
<1> QED BY <1>1

Wrapped(x, n) == IF x < n THEN x ELSE x - n

LEMMA Wraps ==
  ASSUME NEW n \in Nat \ {0}, NEW x \in Nat, x < n + n
  PROVE  x % n = Wrapped(x, n)
<1> USE DEF Wrapped
<1>1. CASE x < n
  BY <1>1
<1>2. CASE x >= n
  <2>1. x - n \in Nat /\ x - n < n
    BY <1>2
  <2>2. ((x - n) + n) % n = x - n
    BY <2>1
  <2> QED BY <1>2, <2>2
<1> QED BY <1>1, <1>2

\* What is multiplied by more is more.
LEMMA Products ==
  ASSUME NEW n \in Nat, NEW a \in Nat, NEW b \in Nat
  PROVE  /\ n * a \in Nat
         /\ a * n = n * a
         /\ n * (a + b) = n * a + n * b
         /\ a <= b => n * a <= n * b
OBVIOUS

LEMMA Sizes ==
  /\ NumBuckets \in Nat \ {0} /\ Interval \in Nat \ {0} /\ Factor \in Nat \ {0}
  /\ Latencies \subseteq Nat
BY LatencyAssumption

\* The ring after it was used.
LEMMA TheTurn ==
  ASSUME TypeOK
  PROVE  /\ Window \in Nat /\ Ticks \in 0 .. NumBuckets /\ lastTick \in Nat
         /\ Interval * Ticks <= lastTick /\ lastTick < Interval * Ticks + Interval
         /\ Current \in Bucket
         /\ Current = Wrapped(current + Ticks, NumBuckets)
<1> USE Sizes
<1>1. /\ Window = Interval * NumBuckets /\ Window \in Nat
      /\ lastTick \in Nat /\ lastTick <= Window
      /\ current \in 0 .. NumBuckets - 1
  BY DEF TypeOK, Window, Bucket
<1>2. /\ Ticks \in Nat
      /\ Interval * Ticks <= lastTick /\ lastTick < Interval * Ticks + Interval
  BY <1>1, DivMod DEF Ticks
<1>3. Ticks <= NumBuckets
  <2>1. ASSUME NumBuckets + 1 <= Ticks PROVE FALSE
    <3>1. Interval * (NumBuckets + 1) <= Interval * Ticks
      BY <1>2, <2>1, Products
    <3>2. Interval * (NumBuckets + 1) = Interval * NumBuckets + Interval
      OBVIOUS
    <3> QED BY <1>1, <1>2, <3>1, <3>2
  <2> QED BY <1>2, <2>1
<1>4. current + Ticks \in Nat /\ current + Ticks < NumBuckets + NumBuckets
  BY <1>1, <1>2, <1>3
<1>5. Current = Wrapped(current + Ticks, NumBuckets)
  BY <1>4, Wraps DEF Current
<1> QED BY <1>1, <1>2, <1>3, <1>4, <1>5 DEF Bucket, Wrapped

LEMMA BackIsSmall ==
  ASSUME TypeOK, NEW b \in Bucket
  PROVE  Back(b) \in 0 .. NumBuckets - 1
BY Sizes DEF TypeOK, Bucket, Back

\* The buckets that are emptied are those that are far enough back.
LEMMA TurnedBuckets ==
  ASSUME TypeOK, NEW b \in Bucket
  PROVE  b \in Turned <=> Ticks + Back(b) >= NumBuckets
<1> USE Sizes
<1>1. /\ Ticks \in 0 .. NumBuckets /\ current \in 0 .. NumBuckets - 1
      /\ b \in 0 .. NumBuckets - 1
  BY TheTurn DEF TypeOK, Bucket
<1>2. \A i \in 1 .. Ticks :
        (current + i) % NumBuckets = Wrapped(current + i, NumBuckets)
  <2> TAKE i \in 1 .. Ticks
  <2>1. current + i \in Nat /\ current + i < NumBuckets + NumBuckets
    BY <1>1
  <2> QED BY <2>1, Wraps
<1>3. ASSUME NEW i \in 1 .. Ticks, (current + i) % NumBuckets = b
      PROVE  Ticks + Back(b) >= NumBuckets
  <2>1. i \in Nat /\ i <= Ticks /\ i >= 1
    BY <1>1
  <2> QED BY <1>1, <1>2, <1>3, <2>1 DEF Back, Wrapped
<1>4. ASSUME Ticks + Back(b) >= NumBuckets
      PROVE  \E i \in 1 .. Ticks : (current + i) % NumBuckets = b
  <2> DEFINE i == NumBuckets - Back(b)
  <2>1. i \in 1 .. Ticks
    BY <1>1, <1>4, BackIsSmall
  <2>2. (current + i) % NumBuckets = b
    BY <1>1, <1>2, <2>1 DEF Back, Wrapped
  <2> QED BY <2>1, <2>2
<1> QED BY <1>3, <1>4 DEF Turned

\* The others go back by as many buckets as the ring is turned.
LEMMA BackGoesBack ==
  ASSUME TypeOK, NEW b \in Bucket, b \notin Turned, current' = Current
  PROVE  Back(b)' = Back(b) + Ticks
<1> USE Sizes
<1>1. /\ Ticks \in 0 .. NumBuckets /\ current \in 0 .. NumBuckets - 1
      /\ b \in 0 .. NumBuckets - 1
      /\ ~(Ticks + Back(b) >= NumBuckets) /\ Back(b) \in 0 .. NumBuckets - 1
  BY TheTurn, TurnedBuckets, BackIsSmall DEF TypeOK, Bucket
<1>2. current' = Wrapped(current + Ticks, NumBuckets)
  BY TheTurn
<1> QED BY <1>1, <1>2 DEF Back, Wrapped
-----------------------------------------------------------------------------
\* Every variable keeps its type.
THEOREM LatencyTypeCorrect == Spec => []TypeOK
<1> USE Sizes
<1>0. Window \in Nat \ {0} /\ Oldest \in Nat /\ Window <= Oldest
  BY DEF Window, Oldest
<1>1. Init => TypeOK
  <2>1. <<>> \in Seq(Sample) /\ Len(<<>>) = 0
    BY EmptySeq
  <2>2. 0 \in Bucket /\ MaxSamples \in Nat
    BY LatencyAssumption DEF Bucket
  <2> QED BY <1>0, <2>1, <2>2 DEF Init, TypeOK, Never
<1>2. TypeOK /\ [Next]_vars => TypeOK'
  <2> SUFFICES ASSUME TypeOK, [Next]_vars PROVE TypeOK'
    OBVIOUS
  <2> USE <1>0
  <2>0. /\ Current \in Bucket /\ LastTick \in 0 .. Window
        /\ Advanced \in [Bucket -> SUBSET Samples]
    BY TheTurn DEF Advanced, LastTick, TypeOK
  <2>1. ASSUME NEW v \in Latencies, RecordLatency(v) PROVE TypeOK'
    <3>1. [value |-> v, age |-> 0] \in Sample
      BY DEF Sample
    <3>2. /\ log' \in Seq(Sample) /\ Len(log') <= MaxSamples
          /\ Samples \subseteq Samples' /\ Len(log) + 1 \in Samples'
      <4>1. /\ log' = Append(log, [value |-> v, age |-> 0]) /\ Len(log) < MaxSamples
            /\ log \in Seq(Sample) /\ Len(log) \in Nat /\ MaxSamples \in Nat
        BY <2>1, LenProperties, LatencyAssumption DEF RecordLatency, TypeOK
      <4>2. /\ log' \in Seq(Sample) /\ Len(log') = Len(log) + 1
            /\ DOMAIN log = 1 .. Len(log) /\ DOMAIN log' = 1 .. Len(log) + 1
        BY <4>1, <3>1, AppendProperties, LenProperties
      <4> QED BY <4>1, <4>2 DEF Samples
    <3>3. buckets' \in [Bucket -> SUBSET Samples']
      BY <2>0, <2>1, <3>2 DEF RecordLatency
    <3>4. firstSeen' \in 0 .. Never
      BY <2>1 DEF RecordLatency, TypeOK, Never
    <3> QED BY <2>0, <2>1, <3>2, <3>3, <3>4 DEF RecordLatency, TypeOK
  <2>2. ASSUME NEW v \in Latencies, CheckLatencyAnomaly(v) PROVE TypeOK'
    <3>1. windows' \in 0 .. 2
      BY <2>2, SMTT(30) DEF CheckLatencyAnomaly, TypeOK
    <3>2. alarm' \in Latencies \cup {0}
      BY <2>2 DEF CheckLatencyAnomaly
    <3> QED BY <2>0, <2>2, <3>1, <3>2 DEF CheckLatencyAnomaly, TypeOK, Samples
  <2>3. CASE CheckTooEarly
    BY <2>3 DEF CheckTooEarly, TypeOK, Samples
  <2>4. CASE Tick
    <3>1. /\ log' \in Seq(Sample) /\ Len(log') = Len(log) /\ Samples' = Samples
      <4>1. /\ log' = [k \in 1 .. Len(log) |-> [log[k] EXCEPT !.age = UpTo(Oldest, @)]]
            /\ log \in Seq(Sample) /\ Len(log) \in Nat /\ Samples = 1 .. Len(log)
        BY <2>4, LenProperties DEF Tick, TypeOK, Samples
      <4>2. \A k \in 1 .. Len(log) : [log[k] EXCEPT !.age = UpTo(Oldest, @)] \in Sample
        <5> TAKE k \in 1 .. Len(log)
        <5>1. log[k] \in Sample
          BY <4>1, ElementOfSeq
        <5> QED BY <5>1 DEF Sample, UpTo
      <4>3. log' \in Seq(Sample)
        BY <4>1, <4>2, IsASeq
      <4>4. DOMAIN log' = 1 .. Len(log)
        BY <4>1
      <4>5. Len(log') = Len(log)
        BY <4>1, <4>3, <4>4, LenProperties
      <4> QED BY <4>1, <4>3, <4>4, <4>5 DEF Samples
    <3>2. firstSeen' \in 0 .. Never
      BY <2>4 DEF Tick, TypeOK, UpTo, Never
    <3>3. lastTick' \in 0 .. Window
      BY <2>4 DEF Tick, TypeOK, UpTo
    <3> QED BY <2>4, <3>1, <3>2, <3>3 DEF Tick, TypeOK
  <2>5. CASE UNCHANGED vars
    BY <2>5 DEF vars, TypeOK, Samples
  <2> QED BY <2>1, <2>2, <2>3, <2>4, <2>5 DEF Next
<1> QED BY <1>1, <1>2, PTL DEF Spec
-----------------------------------------------------------------------------
LEMMA SamplesAreTyped ==
  ASSUME TypeOK, NEW k \in Samples
  PROVE  log[k].age \in Nat /\ log[k].age <= Oldest /\ log[k].value \in Nat
<1>1. log \in Seq(Sample) /\ k \in 1 .. Len(log)
  BY LenProperties DEF TypeOK, Samples
<1>2. log[k] \in Sample
  BY <1>1, ElementOfSeq
<1>3. Oldest \in Nat
  BY Sizes DEF Oldest, Window
<1>4. log[k].value \in Latencies /\ log[k].age \in 0 .. Oldest
  BY <1>2 DEF Sample
<1>5. \A n \in 0 .. Oldest : n \in Nat /\ n <= Oldest
  BY <1>3
<1>6. log[k].value \in Nat
  BY <1>4, Sizes
<1> QED BY <1>4, <1>5, <1>6

\* What a turn by t buckets does to the bounds of a sample that is d buckets
\* back, when the ring was last turned l ago and an interval has i ticks.
LEMMA TurnArithmetic ==
  ASSUME NEW i \in Nat \ {0}, NEW t \in Nat \ {0}, NEW d \in Nat, NEW l \in Nat, NEW a \in Nat,
         i * t <= l, l < i * t + i
  PROVE  /\ a + i > l + d * i => a + i > (d + t) * i
         /\ a <= l + d * (2 * i - 1) => a <= (d + t) * (2 * i - 1)
<1>1. (d + t) * i = d * i + t * i /\ t * i = i * t /\ {d * i, t * i} \subseteq Nat
  OBVIOUS
<1> DEFINE j == 2 * i - 1
<1>2. j \in Nat /\ (d + t) * j = d * j + t * j /\ {d * j, t * j} \subseteq Nat
  OBVIOUS
<1>3. t * j >= l
  <2>1. t * j = i * t + t * (i - 1)
    OBVIOUS
  <2>2. t * (i - 1) >= i - 1
    OBVIOUS
  <2> QED BY <1>1, <2>1, <2>2
<1> HIDE DEF j
<1>4. a <= l + d * j => a <= (d + t) * j
  BY <1>2, <1>3
<1> QED BY <1>1, <1>4 DEF j

\* The bounds hold after a turn as before, of what it keeps.
LEMMA TurnKeepsBounds ==
  ASSUME TypeOK, RingIsTime, current' = Current, lastTick' = LastTick,
         NEW b \in Bucket, NEW k \in Advanced[b], UNCHANGED log[k].age
  PROVE  NotBefore(k, b)' /\ NotAfter(k, b)'
<1> USE Sizes
<1>1. b \notin Turned /\ k \in buckets[b] /\ k \in Samples
  BY DEF Advanced, TypeOK
<1>2. NotBefore(k, b) /\ NotAfter(k, b)
  BY <1>1 DEF RingIsTime
<1>3. Back(b)' = Back(b) + Ticks /\ Back(b) \in Nat /\ Ticks + Back(b) < NumBuckets
  BY <1>1, BackGoesBack, BackIsSmall, TurnedBuckets, TheTurn
<1>4. /\ Ticks \in Nat /\ lastTick \in Nat /\ Window \in Nat /\ log[k].age \in Nat
      /\ Interval * Ticks <= lastTick /\ lastTick < Interval * Ticks + Interval
  BY <1>1, TheTurn, SamplesAreTyped
<1>5. CASE Ticks = 0
  <2>1. Back(b)' = Back(b) /\ lastTick' = lastTick
    BY <1>3, <1>5 DEF LastTick
  <2> QED BY <1>2, <2>1 DEF NotBefore, NotAfter
<1>6. CASE Ticks # 0
  <2>1. lastTick' = 0 /\ lastTick < Window
    <3>1. lastTick' = 0
      BY <1>4, <1>6 DEF LastTick
    <3>2. Interval * (Ticks + 1) <= Interval * NumBuckets
      BY <1>3, <1>4, Products
    <3>3. Interval * (Ticks + 1) = Interval * Ticks + Interval
      BY <1>4
    <3>4. Window = Interval * NumBuckets
      BY DEF Window
    <3> QED BY <1>4, <3>1, <3>2, <3>3, <3>4
  <2>2. log[k].age + Interval > (Back(b) + Ticks) * Interval
    BY <1>2, <1>3, <1>4, <1>6, TurnArithmetic DEF NotBefore
  <2>3. log[k].age <= (Back(b) + Ticks) * (2 * Interval - 1)
    BY <1>2, <1>3, <1>4, <1>6, <2>1, TurnArithmetic DEF NotAfter
  <2>4. (Back(b) + Ticks) * Interval \in Nat /\ (Back(b) + Ticks) * (2 * Interval - 1) \in Nat
    BY <1>3, <1>4
  <2> QED BY <1>3, <2>1, <2>2, <2>3, <2>4 DEF NotBefore, NotAfter
<1> QED BY <1>4, <1>5, <1>6

\* What a turn drops is old, and what it keeps is not too old.
LEMMA TurnDropsTheOld ==
  ASSUME TypeOK, RingIsTime, NEW b \in Bucket, NEW k \in buckets[b]
  PROVE  /\ b \in Turned => log[k].age > Window - Interval
         /\ b \notin Turned => log[k].age < Oldest
<1> USE Sizes
<1>1. k \in Samples /\ NotBefore(k, b) /\ NotAfter(k, b)
  BY DEF RingIsTime, TypeOK
<1> DEFINE d == Back(b)
<1>2. /\ Ticks \in Nat /\ lastTick \in Nat /\ Window \in Nat /\ log[k].age \in Nat
      /\ Interval * Ticks <= lastTick /\ lastTick < Interval * Ticks + Interval
      /\ d \in Nat /\ d <= NumBuckets - 1
      /\ Window = Interval * NumBuckets /\ Oldest = 2 * Window
  BY <1>1, TheTurn, SamplesAreTyped, BackIsSmall DEF Window, Oldest
<1>3. log[k].age + Interval > lastTick + d * Interval
  BY <1>1 DEF NotBefore
<1>4. lastTick < Window => log[k].age <= lastTick + d * (2 * Interval - 1)
  BY <1>1 DEF NotAfter
<1>5. b \in Turned <=> Ticks + d >= NumBuckets
  BY TurnedBuckets
<1> HIDE DEF d
<1>6. Interval * (Ticks + d) = Interval * Ticks + d * Interval /\ d * Interval \in Nat
  BY <1>2
<1>7. CASE b \in Turned
  <2>1. Interval * (Ticks + d) >= Window
    <3>1. Ticks + d \in Nat /\ NumBuckets <= Ticks + d
      BY <1>2, <1>5, <1>7
    <3> QED BY <1>2, <3>1, Products
  <2> QED BY <1>2, <1>3, <1>6, <1>7, <2>1
<1>8. CASE b \notin Turned
  <2>1. Interval * (Ticks + d) + Interval <= Window
    <3>1. Ticks + d + 1 \in Nat /\ Ticks + d + 1 <= NumBuckets
      BY <1>2, <1>5, <1>8
    <3>2. Interval * (Ticks + d + 1) <= Interval * NumBuckets
      BY <3>1, Products
    <3>3. Interval * (Ticks + d + 1) = Interval * (Ticks + d) + Interval
      BY <1>2
    <3> QED BY <1>2, <3>2, <3>3
  <2>2. lastTick < Window /\ lastTick + d * Interval < Window
    BY <1>2, <1>6, <2>1
  <2>3. d * (2 * Interval - 1) = d * Interval + d * Interval - d /\ d * Interval <= Window
    BY <1>2, <2>2
  <2>4. d * Interval < Window
    BY <1>2, <1>6, <2>1
  <2> QED BY <1>2, <1>4, <1>6, <1>8, <2>2, <2>3, <2>4
<1> QED BY <1>7, <1>8
-----------------------------------------------------------------------------
\* The bounds and the baseline follow one another.
LEMMA TheBaseline ==
  ASSUME TypeOK, RingIsTime
  PROVE  BaselineIsTheWindow
<1>1. ASSUME NEW k \in Fresh PROVE k \in Kept
  <2>1. k \in Samples /\ log[k].age <= Window - Interval
    BY DEF Fresh
  <2>2. log[k].age \in Nat /\ Window \in Nat /\ Interval \in Nat
    BY <2>1, SamplesAreTyped, Sizes, TheTurn
  <2>3. PICK b \in Bucket : k \in buckets[b]
    BY <2>1, <2>2 DEF RingIsTime
  <2>4. b \notin Turned
    BY <2>1, <2>2, <2>3, TurnDropsTheOld
  <2> QED BY <2>3, <2>4 DEF Kept, Advanced
<1>2. ASSUME NEW k \in Kept PROVE log[k].age < Oldest
  <2>1. PICK b \in Bucket : k \in Advanced[b]
    BY DEF Kept
  <2>2. b \notin Turned /\ k \in buckets[b]
    BY <2>1 DEF Advanced
  <2> QED BY <2>2, TurnDropsTheOld
<1> QED BY <1>1, <1>2 DEF BaselineIsTheWindow

\* A use of the ring, which may put one new sample into the current bucket.
LEMMA UseKeepsBounds ==
  ASSUME TypeOK, TypeOK', RingIsTime, current' = Current, lastTick' = LastTick,
         firstSeen' # Never,
         \A k \in Samples : k \in Samples' /\ log'[k] = log[k],
         \A k \in Samples' \ Samples : log'[k].age = 0 /\ k \in buckets'[Current],
         \A b \in Bucket : /\ Advanced[b] \subseteq buckets'[b]
                          /\ \A k \in buckets'[b] \ Advanced[b] : k \notin Samples /\ b = Current
  PROVE  RingIsTime'
<1> USE Sizes
<1>0. /\ Window \in Nat /\ lastTick' \in Nat /\ lastTick' < Interval /\ Current \in Bucket
      /\ Window - Interval \in Int
  <2>1. /\ Ticks \in Nat /\ lastTick \in Nat /\ lastTick < Interval * Ticks + Interval
        /\ Window \in Nat /\ Current \in Bucket
    BY TheTurn
  <2>2. lastTick' \in Nat /\ lastTick' < Interval
    BY <2>1 DEF LastTick
  <2> QED BY <2>1, <2>2
<1>1. ASSUME NEW b \in Bucket, NEW k \in buckets'[b]
      PROVE  NotBefore(k, b)' /\ NotAfter(k, b)'
  <2>1. CASE k \in Advanced[b]
    <3>1. k \in Samples
      BY <2>1 DEF Advanced, TypeOK
    <3> QED BY <2>1, <3>1, TurnKeepsBounds
  <2>2. CASE k \notin Advanced[b]
    <3>1. b = Current /\ k \in Samples' \ Samples
      BY <1>1, <2>2 DEF TypeOK
    <3>2. log'[k].age = 0 /\ Back(b)' = 0
      BY <3>1, <1>0 DEF Back, Bucket
    <3> QED BY <1>0, <3>2 DEF NotBefore, NotAfter
  <2> QED BY <2>1, <2>2
<1>2. ASSUME NEW k \in Samples', \A b \in Bucket : k \notin buckets'[b]
      PROVE  log'[k].age > Window - Interval
  <2>1. k \in Samples /\ log'[k] = log[k]
    BY <1>0, <1>2
  <2>2. \A b \in Bucket : k \notin Advanced[b]
    BY <1>2
  <2>3. CASE \E b \in Bucket : k \in buckets[b]
    <3>1. PICK b \in Bucket : k \in buckets[b]
      BY <2>3
    <3>2. b \in Turned
      BY <2>2, <3>1 DEF Advanced
    <3> QED BY <2>1, <3>1, <3>2, TurnDropsTheOld
  <2>4. CASE \A b \in Bucket : k \notin buckets[b]
    BY <2>1, <2>4 DEF RingIsTime
  <2> QED BY <2>3, <2>4
<1>3. Bucket' = Bucket /\ (Window - Interval)' = Window - Interval
  BY DEF Bucket, Window
<1> QED BY <1>1, <1>2, <1>3 DEF RingIsTime

\* Time goes on for the ring and for the samples.
LEMMA TickKeepsBounds ==
  ASSUME TypeOK, TypeOK', RingIsTime, Tick
  PROVE  RingIsTime'
<1> USE Sizes
<1>0. /\ Window \in Nat /\ Oldest = 2 * Window /\ lastTick \in Nat /\ lastTick <= Window
      /\ Interval <= Window
  <2>1. Window \in Nat /\ Oldest = 2 * Window /\ Window = Interval * NumBuckets
    BY DEF Window, Oldest
  <2>2. Interval * 1 <= Interval * NumBuckets
    BY Products
  <2> QED BY <2>1, <2>2 DEF TypeOK
<1>1. Samples' = Samples /\ \A k \in Samples : log'[k].age = UpTo(Oldest, log[k].age)
  <2>1. log' = [k \in Samples |-> [log[k] EXCEPT !.age = UpTo(Oldest, @)]]
    BY DEF Tick
  <2>2. ASSUME NEW k \in Samples PROVE log[k] \in Sample
    <3>1. log \in Seq(Sample) /\ k \in 1 .. Len(log)
      BY LenProperties DEF TypeOK, Samples
    <3> QED BY <3>1, ElementOfSeq
  <2>3. \A k \in Samples : log'[k].age = UpTo(Oldest, log[k].age)
    BY <2>1, <2>2 DEF Sample
  <2> QED BY <2>1, <2>3 DEF Samples
<1>2. CASE firstSeen = Never
  <2>1. log = <<>> /\ Samples = {}
    BY <1>2, EmptySeq DEF RingIsTime, Samples
  <2>2. log' = <<>>
    BY <2>1, <1>1 DEF Tick
  <2>3. \A b \in Bucket : buckets'[b] = {}
    BY <2>1, <1>1 DEF TypeOK
  <2> QED BY <1>1, <2>1, <2>2, <2>3 DEF RingIsTime
<1>3. CASE firstSeen # Never
  <2>1. /\ lastTick' = UpTo(Window, lastTick) /\ UNCHANGED <<buckets, current>>
        /\ firstSeen' # Never
    BY <1>0, <1>3 DEF Tick, UpTo, Never, TypeOK
  <2>2. ASSUME NEW b \in Bucket, NEW k \in buckets[b] PROVE NotBefore(k, b)' /\ NotAfter(k, b)'
    <3>1. k \in Samples /\ NotBefore(k, b) /\ NotAfter(k, b)
      BY DEF RingIsTime, TypeOK
    <3>2. /\ log[k].age \in Nat /\ log[k].age <= Oldest /\ Back(b) \in 0 .. NumBuckets - 1
          /\ Back(b)' = Back(b) /\ log'[k].age = UpTo(Oldest, log[k].age)
      BY <1>1, <2>1, <3>1, SamplesAreTyped, BackIsSmall DEF Back
    <3>3. /\ Back(b) * Interval \in Nat /\ Back(b) * (2 * Interval - 1) \in Nat
          /\ Back(b) * Interval + Interval <= Window
      <4>1. Interval * (Back(b) + 1) <= Interval * NumBuckets
        BY <3>2, Products
      <4>2. Interval * (Back(b) + 1) = Back(b) * Interval + Interval
        BY <3>2
      <4> QED BY <3>2, <4>1, <4>2 DEF Window
    <3>4. NotBefore(k, b)'
      BY <1>0, <2>1, <3>1, <3>2, <3>3 DEF NotBefore, UpTo
    <3>5. NotAfter(k, b)'
      BY <1>0, <2>1, <3>1, <3>2, <3>3 DEF NotAfter, UpTo
    <3> QED BY <3>4, <3>5
  <2>3. ASSUME NEW k \in Samples, \A b \in Bucket : k \notin buckets[b]
        PROVE  log'[k].age > Window - Interval
    <3>1. log[k].age > Window - Interval /\ log[k].age \in Nat
      BY <2>3, SamplesAreTyped DEF RingIsTime
    <3> QED BY <1>0, <1>1, <3>1 DEF UpTo
  <2>4. Bucket' = Bucket /\ (Window - Interval)' = Window - Interval
    BY DEF Bucket, Window
  <2> QED BY <1>1, <2>1, <2>2, <2>3, <2>4 DEF RingIsTime
<1> QED BY <1>2, <1>3
-----------------------------------------------------------------------------
\* Of some values, one is the highest.
HighestUpTo(S, j) ==
  (\E k \in S : k <= j) =>
    \E k \in S : k <= j /\ \A l \in S : l <= j => log[l].value <= log[k].value

LEMMA HighestValue ==
  ASSUME TypeOK, NEW S \in SUBSET Samples, S # {}
  PROVE  \E k \in S : \A l \in S : log[l].value <= log[k].value
<1> DEFINE Wrong == {j \in 0 .. Len(log) : ~HighestUpTo(S, j)}
<1>1. Len(log) \in Nat /\ Samples = 1 .. Len(log)
  BY LenProperties DEF TypeOK, Samples
<1>2. \A k \in S : k \in 1 .. Len(log) /\ log[k].value \in Nat
  BY <1>1, SamplesAreTyped
<1>3. ASSUME Wrong # {} PROVE FALSE
  <2>1. PICK j \in Wrong : \A m \in Wrong : j <= m
    <3>1. Wrong \subseteq Nat
      OBVIOUS
    <3> HIDE DEF Wrong
    <3> QED BY <1>3, <3>1, LeastNumber
  <2>2. j \in Nat /\ j <= Len(log) /\ ~HighestUpTo(S, j)
    OBVIOUS
  <2>3. j # 0
    BY <1>2, <2>2 DEF HighestUpTo
  <2>4. HighestUpTo(S, j - 1)
    <3>1. j - 1 \in 0 .. Len(log) /\ ~(j <= j - 1)
      BY <1>1, <2>2, <2>3
    <3> QED BY <2>1, <3>1
  <2>5. \A k \in S : k <= j <=> k <= j - 1 \/ k = j
    BY <1>2, <2>2
  <2>6. CASE j \notin S
    BY <2>2, <2>4, <2>5, <2>6 DEF HighestUpTo
  <2>7. CASE j \in S /\ \E k \in S : k <= j - 1
    <3>1. PICK k \in S : k <= j - 1 /\ \A l \in S : l <= j - 1 => log[l].value <= log[k].value
      BY <2>4, <2>7 DEF HighestUpTo
    <3>2. log[j].value \in Nat /\ log[k].value \in Nat
      BY <1>2, <2>7
    <3>3. CASE log[j].value <= log[k].value
      BY <2>2, <2>5, <3>1, <3>3 DEF HighestUpTo
    <3>4. CASE log[k].value <= log[j].value
      <4>1. \A l \in S : l <= j => log[l].value <= log[j].value
        BY <1>2, <2>5, <3>1, <3>2, <3>4
      <4> QED BY <2>2, <2>7, <4>1 DEF HighestUpTo
    <3> QED BY <3>2, <3>3, <3>4
  <2>8. CASE j \in S /\ \A k \in S : ~(k <= j - 1)
    <3>1. \A l \in S : l <= j => l = j
      BY <2>5, <2>8
    <3>2. log[j].value \in Nat
      BY <1>2, <2>8
    <3> QED BY <2>2, <2>8, <3>1, <3>2 DEF HighestUpTo
  <2> QED BY <2>6, <2>7, <2>8
<1>4. HighestUpTo(S, Len(log))
  <2>1. Len(log) \in 0 .. Len(log)
    BY <1>1
  <2> QED BY <1>3, <2>1
<1> QED BY <1>2, <1>4 DEF HighestUpTo

\* The index of the 99th percentile is that of the last value.
LEMMA TheLastOfAHundred ==
  ASSUME NEW n \in 1 .. 100
  PROVE  (99 * n) \div 100 = n - 1
<1>1. \A q \in Nat, r \in 0 .. 99 : (100 * q + r) \div 100 = q
  OBVIOUS
<1>2. n - 1 \in Nat /\ 100 - n \in 0 .. 99 /\ 99 * n = 100 * (n - 1) + (100 - n)
  OBVIOUS
<1>3. (100 * (n - 1) + (100 - n)) \div 100 = n - 1
  BY <1>1, <1>2
<1> QED BY <1>2, <1>3

\* The 99th percentile of a hundred samples or fewer is none below their
\* highest.
LEMMA PercentileIsHighest ==
  ASSUME TypeOK, NEW S \in SUBSET Samples, S # {}, Len(log) <= 100
  PROVE  P99(S) \in Nat /\ \A k \in S : log[k].value <= P99(S)
<1> USE Sizes
<1>1. /\ Len(log) \in Nat /\ Samples = 1 .. Len(log)
      /\ \A k \in S : log[k].value \in Latencies /\ log[k].value \in Nat
  <2>1. log \in Seq(Sample) /\ Len(log) \in Nat /\ Samples = 1 .. Len(log)
    BY LenProperties DEF TypeOK, Samples
  <2>2. \A k \in S : log[k] \in Sample
    BY <2>1, ElementOfSeq
  <2> QED BY <2>1, <2>2 DEF Sample
<1>2. IsFiniteSet(S) /\ Cardinality(S) \in 1 .. 100
  <2>1. IsFiniteSet(Samples) /\ Cardinality(Samples) = Len(log)
    <3>1. 1 \in Int /\ Len(log) \in Int
      BY <1>1
    <3>2. IsFiniteSet(1 .. Len(log)) /\ Cardinality(1 .. Len(log)) =
            IF 1 > Len(log) THEN 0 ELSE Len(log) - 1 + 1
      BY <3>1, FS_Interval, Zenon
    <3> QED BY <1>1, <3>2
  <2>2. IsFiniteSet(S) /\ Cardinality(S) <= Cardinality(Samples)
    BY <2>1, FS_Subset
  <2>3. Cardinality(S) \in Nat /\ Cardinality(S) # 0
    BY <2>2, FS_CardinalityType, FS_EmptySet
  <2>4. ASSUME NEW c \in Nat, c # 0, c <= Len(log) PROVE c \in 1 .. 100
    BY <1>1, <2>4
  <2> QED BY <2>1, <2>2, <2>3, <2>4
<1> DEFINE n == Cardinality(S)
           index == (99 * n) \div 100
           Below(v) == {k \in S : log[k].value < v}
           UpToV(v) == {k \in S : log[k].value <= v}
           IsP99(v) == Cardinality(Below(v)) <= index /\ Cardinality(UpToV(v)) > index
<1>3. n \in Nat /\ index = n - 1
  <2>1. \A c \in 1 .. 100 : c \in Nat /\ (99 * c) \div 100 = c - 1
    BY TheLastOfAHundred
  <2> QED BY <1>2, <2>1, Zenon
<1>4. \E v \in Latencies : IsP99(v)
  <2>1. PICK top \in S : \A k \in S : log[k].value <= log[top].value
    BY HighestValue
  <2> DEFINE v == log[top].value
  <2>2. v \in Latencies /\ v \in Nat
    BY <1>1
  <2>3. UpToV(v) = S
    BY <2>1
  <2>4. Cardinality(Below(v)) < n
    <3>1. Below(v) \subseteq S /\ top \notin Below(v)
      BY <1>1
    <3>2. Cardinality(Below(v)) <= Cardinality(S) /\ Cardinality(Below(v)) \in Nat
      BY <1>2, <3>1, FS_Subset, FS_CardinalityType
    <3>3. Cardinality(Below(v)) # Cardinality(S)
      BY <1>2, <3>1, FS_Subset
    <3> QED BY <1>3, <3>2, <3>3
  <2>5. Cardinality(Below(v)) \in Nat
    <3>1. Below(v) \subseteq S
      OBVIOUS
    <3> QED BY <1>2, <3>1, FS_Subset, FS_CardinalityType
  <2>6. Cardinality(UpToV(v)) = n
    BY <2>3, Zenon
  <2>7. Cardinality(Below(v)) <= index /\ Cardinality(UpToV(v)) > index
    <3> HIDE DEF n, index, Below, UpToV
    <3> QED BY <1>3, <2>4, <2>5, <2>6
  <2> QED BY <2>2, <2>7
<1>5. P99(S) \in Latencies /\ IsP99(P99(S))
  <2>1. P99(S) = CHOOSE v \in Latencies : IsP99(v)
    BY DEF P99
  <2> HIDE DEF IsP99
  <2> QED BY <1>4, <2>1
<1>6. UpToV(P99(S)) = S
  <2>1. UpToV(P99(S)) \subseteq S
    OBVIOUS
  <2>2. Cardinality(UpToV(P99(S))) <= n /\ Cardinality(UpToV(P99(S))) \in Nat
    BY <1>2, <2>1, FS_Subset, FS_CardinalityType
  <2>3. Cardinality(UpToV(P99(S))) = Cardinality(S)
    BY <1>3, <1>5, <2>2
  <2> QED BY <1>2, <2>1, <2>3, FS_Subset
<1> QED BY <1>5, <1>6
-----------------------------------------------------------------------------
LatencyInv == TypeOK /\ RingIsTime /\ AlarmsAreSpikes

\* A check raises an alarm only for a spike.
LEMMA CheckRaisesForSpikes ==
  ASSUME TypeOK, RingIsTime, NEW v \in Latencies, CheckLatencyAnomaly(v)
  PROVE  AlarmsAreSpikes'
<1> USE Sizes
<1>1. SUFFICES ASSUME alarm' > 0 PROVE AlarmsAreSpikes'
  BY DEF AlarmsAreSpikes
<1>2. /\ alarm' = v /\ Baseline > 0 /\ v > Factor * Baseline
      /\ firstSeen = Window /\ UNCHANGED <<firstSeen, log>>
  BY <1>1, TheTurn DEF CheckLatencyAnomaly, Learning, TypeOK, Never
<1>3. ASSUME Len(log) <= 100, NEW k \in Fresh PROVE v > Factor * log[k].value
  <2>1. k \in Kept /\ Kept \in SUBSET Samples /\ k \in Samples
    BY TheBaseline DEF BaselineIsTheWindow, Kept, Advanced, TypeOK, Fresh
  <2>2. Baseline = P99(Kept)
    BY <2>1 DEF Baseline
  <2>3. Baseline \in Nat /\ log[k].value <= Baseline /\ log[k].value \in Nat
    BY <1>3, <2>1, <2>2, PercentileIsHighest, SamplesAreTyped
  <2>4. Factor * log[k].value <= Factor * Baseline
    BY <2>3, Products
  <2>5. Factor * log[k].value \in Nat /\ Factor * Baseline \in Nat /\ v \in Nat
    BY <2>3
  <2> QED BY <1>2, <2>4, <2>5
<1>4. Fresh' = Fresh /\ Window' = Window
  BY <1>2 DEF Fresh, Samples, Window
<1> QED BY <1>2, <1>3, <1>4 DEF AlarmsAreSpikes

\* The invariant of the detector.
THEOREM LatencyInvariant == Spec => []LatencyInv
<1> USE Sizes
<1>1. Init => RingIsTime /\ AlarmsAreSpikes
  <2>1. DOMAIN <<>> = {}
    BY EmptySeq
  <2> QED BY <2>1 DEF Init, RingIsTime, AlarmsAreSpikes, Samples
<1>2. LatencyInv /\ TypeOK' /\ [Next]_vars => RingIsTime' /\ AlarmsAreSpikes'
  <2> SUFFICES ASSUME TypeOK, RingIsTime, AlarmsAreSpikes, TypeOK', [Next]_vars
               PROVE  RingIsTime' /\ AlarmsAreSpikes'
    BY DEF LatencyInv
  <2>0. Window \in Nat /\ Current \in Bucket
    BY TheTurn
  <2>1. ASSUME NEW v \in Latencies, RecordLatency(v) PROVE RingIsTime' /\ AlarmsAreSpikes'
    <3>1. /\ log' = Append(log, [value |-> v, age |-> 0])
          /\ log \in Seq(Sample) /\ Len(log) \in Nat /\ Samples = 1 .. Len(log)
          /\ [value |-> v, age |-> 0] \in Sample
      BY <2>1, LenProperties DEF RecordLatency, TypeOK, Samples, Sample, Oldest, Window
    <3>2. /\ Samples' = 1 .. Len(log) + 1
          /\ \A k \in 1 .. Len(log) : log'[k] = log[k]
          /\ log'[Len(log) + 1] = [value |-> v, age |-> 0]
      BY <3>1, AppendProperties, LenProperties DEF Samples
    <3>3. \A k \in Samples' \ Samples : k = Len(log) + 1
      BY <3>1, <3>2
    <3>4. /\ current' = Current /\ lastTick' = LastTick /\ alarm' = 0 /\ firstSeen' # Never
          /\ buckets' = [Advanced EXCEPT ![Current] = @ \cup {Len(log) + 1}]
      <4>1. firstSeen' # Never
        <5>1. 0 # Never /\ Never' = Never
          BY <2>0 DEF Never, Window
        <5> QED BY <2>1, <5>1 DEF RecordLatency
      <4> QED BY <2>1, <4>1 DEF RecordLatency
    <3>5. /\ Len(log) + 1 \in buckets'[Current] /\ Len(log) + 1 \notin Samples
          /\ \A b \in Bucket : /\ Advanced[b] \subseteq buckets'[b]
                              /\ \A k \in buckets'[b] \ Advanced[b] :
                                   k = Len(log) + 1 /\ b = Current
      BY <2>0, <3>1, <3>4 DEF Advanced
    <3>6. \A k \in Samples : k \in Samples' /\ log'[k] = log[k]
      BY <3>1, <3>2
    <3>7. \A k \in Samples' \ Samples : log'[k].age = 0 /\ k \in buckets'[Current]
      BY <3>2, <3>3, <3>5
    <3>8. RingIsTime'
      BY <3>4, <3>5, <3>6, <3>7, UseKeepsBounds
    <3> QED BY <3>4, <3>8 DEF AlarmsAreSpikes
  <2>2. ASSUME NEW v \in Latencies, CheckLatencyAnomaly(v) PROVE RingIsTime' /\ AlarmsAreSpikes'
    <3>1. /\ current' = Current /\ lastTick' = LastTick /\ buckets' = Advanced
          /\ log' = log /\ firstSeen' # Never /\ Samples' = Samples
      BY <2>2 DEF CheckLatencyAnomaly, Samples, Never, Window
    <3> QED BY <2>2, <3>1, UseKeepsBounds, CheckRaisesForSpikes
  <2>3. CASE CheckTooEarly
    BY <2>3 DEF CheckTooEarly, RingIsTime, AlarmsAreSpikes, NotBefore, NotAfter, Back,
                Samples, Bucket, Window, Never
  <2>4. CASE Tick
    BY <2>4, TickKeepsBounds DEF Tick, AlarmsAreSpikes
  <2>5. CASE UNCHANGED vars
    <3>1. UNCHANGED <<current, buckets, log, lastTick, firstSeen, alarm>>
      BY <2>5 DEF vars
    <3>2. RingIsTime'
      BY <3>1 DEF RingIsTime, NotBefore, NotAfter, Back, Samples, Bucket, Window, Never
    <3>3. AlarmsAreSpikes'
      BY <3>1 DEF AlarmsAreSpikes, Samples, Window, Never, Fresh
    <3> QED BY <3>2, <3>3
  <2> QED BY <2>1, <2>2, <2>3, <2>4, <2>5 DEF Next
<1>3. LatencyInv <=> TypeOK /\ RingIsTime /\ AlarmsAreSpikes
  BY DEF LatencyInv
<1> QED BY <1>1, <1>2, <1>3, LatencyTypeCorrect, PTL DEF Spec

\* The baseline is the window, as far as the ring can tell, for any number of
\* buckets, any interval and any samples.
THEOREM BaselineStaysTheWindow == Spec => []BaselineIsTheWindow
BY LatencyInvariant, TheBaseline, PTL DEF LatencyInv

\* No false alarm, for any latencies, factor, buckets, interval and samples.
THEOREM AlarmsStaySpikes == Spec => []AlarmsAreSpikes
BY LatencyInvariant, PTL DEF LatencyInv
-----------------------------------------------------------------------------
(***************************************************************************)
(* Sums over finite sets.                                                  *)
(***************************************************************************)

\* The element at which a sum over a set begins.
Pick(s) == CHOOSE x \in s : TRUE

\* g has the sums of f over the subsets of S.
SumsOf(f, S, g) ==
  g = [s \in SUBSET S |-> IF s = {} THEN 0 ELSE f[Pick(s)] + g[s \ {Pick(s)}]]

\* A set of finite sets that has a set as soon as it has the smaller ones has
\* them all.
LEMMA SmallerFirst ==
  ASSUME NEW S, IsFiniteSet(S), NEW Q,
         \A T \in SUBSET S : (\A R \in SUBSET T : R # T => R \in Q) => T \in Q
  PROVE  S \in Q
<1> SUFFICES ASSUME S \notin Q
             PROVE  FALSE
  OBVIOUS
<1> DEFINE Bad == {n \in Nat : \E T \in SUBSET S : T \notin Q /\ Cardinality(T) = n}
<1>1. \A T \in SUBSET S : IsFiniteSet(T) /\ Cardinality(T) \in Nat
  BY FS_Subset, FS_CardinalityType
<1>2. Bad \in SUBSET Nat /\ Bad # {}
  BY <1>1
<1>3. PICK n \in Bad : \A m \in Bad : n <= m
  BY <1>2, LeastNumber
<1>4. PICK T \in SUBSET S : T \notin Q /\ Cardinality(T) = n
  BY <1>3
<1>5. PICK R \in SUBSET T : R # T /\ R \notin Q
  BY <1>4
<1>6. Cardinality(R) < Cardinality(T)
  BY <1>1, <1>5, FS_Subset
<1>7. R \in SUBSET S /\ Cardinality(R) \in Bad
  BY <1>1, <1>5
<1> QED BY <1>1, <1>3, <1>4, <1>6, <1>7

\* Sums over the same set are the same, whatever larger set they come from.
LEMMA SumsAgree ==
  ASSUME NEW f, NEW S, NEW U, NEW V, NEW g, NEW h, IsFiniteSet(S),
         S \subseteq U, S \subseteq V, SumsOf(f, U, g), SumsOf(f, V, h)
  PROVE  g[S] = h[S]
<1> DEFINE Q == {T \in SUBSET S : g[T] = h[T]}
<1>1. ASSUME NEW T \in SUBSET S, \A R \in SUBSET T : R # T => R \in Q
      PROVE  T \in Q
  <2>1. /\ g[T] = IF T = {} THEN 0 ELSE f[Pick(T)] + g[T \ {Pick(T)}]
        /\ h[T] = IF T = {} THEN 0 ELSE f[Pick(T)] + h[T \ {Pick(T)}]
    BY DEF SumsOf
  <2>2. T # {} => T \ {Pick(T)} \in SUBSET T /\ T \ {Pick(T)} # T
    BY DEF Pick
  <2>3. T # {} => g[T \ {Pick(T)}] = h[T \ {Pick(T)}]
    BY <1>1, <2>2
  <2> QED BY <2>1, <2>3
<1> HIDE DEF Q
<1>2. S \in Q
  BY <1>1, SmallerFirst
<1> QED BY <1>2 DEF Q

\* Every finite set has its sums.
LEMMA SumsExist ==
  ASSUME NEW f, NEW S, IsFiniteSet(S)
  PROVE  SumsOf(f, S, CHOOSE g : SumsOf(f, S, g))
<1> DEFINE Q == {T \in SUBSET S : \E g : SumsOf(f, T, g)}
           F(T) == CHOOSE g : SumsOf(f, T, g)
           Rest(T) == T \ {Pick(T)}
<1>1. ASSUME NEW T \in SUBSET S, \A R \in SUBSET T : R # T => R \in Q
      PROVE  T \in Q
  <2> DEFINE G == [s \in SUBSET T |->
                     IF s = {} THEN 0 ELSE f[Pick(s)] + F(Rest(s))[Rest(s)]]
  <2>1. \A R \in SUBSET T : R # T => SumsOf(f, R, F(R))
    BY <1>1
  <2>2. ASSUME NEW s \in SUBSET T, s # {}
        PROVE  G[Rest(s)] = F(Rest(s))[Rest(s)]
    <3> DEFINE r == Rest(s)
    <3>1. r \in SUBSET T /\ r # T /\ SumsOf(f, r, F(r))
      BY <2>1, <2>2 DEF Pick
    <3>2. F(r)[r] = IF r = {} THEN 0 ELSE f[Pick(r)] + F(r)[Rest(r)]
      BY <3>1 DEF SumsOf
    <3>3. G[r] = IF r = {} THEN 0 ELSE f[Pick(r)] + F(Rest(r))[Rest(r)]
      BY <3>1
    <3>4. ASSUME r # {}
          PROVE  F(r)[Rest(r)] = F(Rest(r))[Rest(r)]
      <4>1. /\ Rest(r) \in SUBSET T /\ Rest(r) # T /\ Rest(r) \subseteq r
            /\ IsFiniteSet(Rest(r))
        BY <3>1, <3>4, FS_Subset DEF Pick
      <4>2. SumsOf(f, Rest(r), F(Rest(r)))
        BY <4>1, <2>1
      <4> HIDE DEF F, Rest
      <4> QED BY <3>1, <4>1, <4>2, SumsAgree
    <3> QED BY <3>2, <3>3, <3>4
  <2>3. G = [s \in SUBSET T |-> IF s = {} THEN 0 ELSE f[Pick(s)] + G[Rest(s)]]
    <3> HIDE DEF F
    <3>1. \A s \in SUBSET T : s # {} => G[Rest(s)] = F(Rest(s))[Rest(s)]
      BY <2>2
    <3> QED BY <3>1
  <2>4. SumsOf(f, T, G)
    BY <2>3 DEF SumsOf
  <2> QED BY <2>4
<1>2. S \in Q
  <2> HIDE DEF Q
  <2> QED BY <1>1, SmallerFirst
<1> QED BY <1>2

\* A sum without elements, and one from its beginning.
LEMMA SumBegins ==
  ASSUME NEW f, NEW S, IsFiniteSet(S)
  PROVE  SumFunctionOnSet(f, S) =
           IF S = {} THEN 0
           ELSE f[Pick(S)] + SumFunctionOnSet(f, S \ {Pick(S)})
<1> DEFINE F(T) == CHOOSE g : SumsOf(f, T, g)
           R == S \ {Pick(S)}
<1>1. \A T : SumFunctionOnSet(f, T) = F(T)[T]
  BY DEF SumFunctionOnSet, FoldFunctionOnSet, MapThenFoldSet, SumsOf, Pick
<1>2. R \subseteq S /\ IsFiniteSet(R)
  BY FS_Subset
<1>3. SumsOf(f, S, F(S)) /\ SumsOf(f, R, F(R))
  BY <1>2, SumsExist
<1> HIDE DEF F, R
<1>4. F(S)[R] = F(R)[R]
  BY <1>2, <1>3, SumsAgree
<1>5. F(S)[S] = IF S = {} THEN 0 ELSE f[Pick(S)] + F(S)[R]
  BY <1>3 DEF SumsOf, R
<1>6. SumFunctionOnSet(f, S) = F(S)[S] /\ SumFunctionOnSet(f, R) = F(R)[R]
  BY <1>1
<1>7. SumFunctionOnSet(f, S) = IF S = {} THEN 0 ELSE f[Pick(S)] + SumFunctionOnSet(f, R)
  BY <1>4, <1>5, <1>6
<1> QED BY <1>7 DEF R

\* A sum of numbers is a number.
LEMMA SumIsNat ==
  ASSUME NEW f, NEW S, IsFiniteSet(S), \A x \in S : f[x] \in Nat
  PROVE  SumFunctionOnSet(f, S) \in Nat
<1> DEFINE Q == {T \in SUBSET S : SumFunctionOnSet(f, T) \in Nat}
<1>1. ASSUME NEW T \in SUBSET S, \A R \in SUBSET T : R # T => R \in Q
      PROVE  T \in Q
  <2>1. T # {} => Pick(T) \in T /\ T \ {Pick(T)} \in SUBSET T /\ T \ {Pick(T)} # T
    BY DEF Pick
  <2>2. T # {} => f[Pick(T)] \in Nat /\ SumFunctionOnSet(f, T \ {Pick(T)}) \in Nat
    BY <1>1, <2>1
  <2>3. IsFiniteSet(T)
    BY FS_Subset
  <2>4. SumFunctionOnSet(f, T) =
          IF T = {} THEN 0 ELSE f[Pick(T)] + SumFunctionOnSet(f, T \ {Pick(T)})
    BY <2>3, SumBegins
  <2> QED BY <2>2, <2>4
<1> HIDE DEF Q
<1>2. S \in Q
  BY <1>1, SmallerFirst
<1> QED BY <1>2 DEF Q

\* It may begin at any element.
LEMMA SumWithout ==
  ASSUME NEW f, NEW S, IsFiniteSet(S), \A x \in S : f[x] \in Nat, NEW a \in S
  PROVE  SumFunctionOnSet(f, S) = f[a] + SumFunctionOnSet(f, S \ {a})
<1> DEFINE Sum(T) == SumFunctionOnSet(f, T)
           Q == {T \in SUBSET S : \A x \in T : Sum(T) = f[x] + Sum(T \ {x})}
<1>1. ASSUME NEW T \in SUBSET S, \A R \in SUBSET T : R # T => R \in Q
      PROVE  T \in Q
  <2> SUFFICES ASSUME NEW x \in T
               PROVE  Sum(T) = f[x] + Sum(T \ {x})
    OBVIOUS
  <2> DEFINE p == Pick(T)
  <2> HIDE DEF p
  <2>1. p \in T /\ IsFiniteSet(T) /\ IsFiniteSet(T \ {x})
    BY FS_Subset DEF p, Pick
  <2>2. Sum(T) = f[p] + Sum(T \ {p})
    BY <2>1, SumBegins DEF p
  <2>3. CASE x = p
    BY <2>2, <2>3
  <2>4. CASE x # p
    <3> DEFINE c == (T \ {p}) \ {x}
    <3>1. T \ {p} \in SUBSET T /\ T \ {p} # T /\ x \in T \ {p}
      BY <2>1, <2>4
    <3>2. Sum(T \ {p}) = f[x] + Sum(c)
      BY <1>1, <3>1
    <3>3. /\ T \ {x} \in SUBSET T /\ T \ {x} # T /\ p \in T \ {x}
          /\ c = (T \ {x}) \ {p}
      BY <2>1, <2>4
    <3>4. Sum(T \ {x}) = f[p] + Sum(c)
      BY <1>1, <3>3
    <3>5. f[x] \in Nat /\ f[p] \in Nat /\ Sum(c) \in Nat
      <4>1. IsFiniteSet(c) /\ \A y \in c : f[y] \in Nat
        BY <2>1, FS_Subset
      <4> QED BY <2>1, <4>1, SumIsNat
    <3> HIDE DEF c, Sum
    <3> QED BY <2>2, <3>2, <3>4, <3>5
  <2> QED BY <2>3, <2>4
<1> HIDE DEF Q
<1>2. S \in Q
  BY <1>1, SmallerFirst
<1> QED BY <1>2 DEF Q

\* A sum depends on the values of its elements alone.
LEMMA SumOfEqual ==
  ASSUME NEW f, NEW g, NEW S, IsFiniteSet(S), \A x \in S : f[x] = g[x]
  PROVE  SumFunctionOnSet(f, S) = SumFunctionOnSet(g, S)
<1> DEFINE Q == {T \in SUBSET S : SumFunctionOnSet(f, T) = SumFunctionOnSet(g, T)}
<1>1. ASSUME NEW T \in SUBSET S, \A R \in SUBSET T : R # T => R \in Q
      PROVE  T \in Q
  <2> DEFINE R == T \ {Pick(T)}
  <2>1. T # {} => R \in SUBSET T /\ R # T /\ f[Pick(T)] = g[Pick(T)]
    BY DEF Pick
  <2>2. T # {} => SumFunctionOnSet(f, R) = SumFunctionOnSet(g, R)
    BY <1>1, <2>1
  <2>3. IsFiniteSet(T)
    BY FS_Subset
  <2>4. /\ SumFunctionOnSet(f, T) =
             IF T = {} THEN 0 ELSE f[Pick(T)] + SumFunctionOnSet(f, R)
        /\ SumFunctionOnSet(g, T) =
             IF T = {} THEN 0 ELSE g[Pick(T)] + SumFunctionOnSet(g, R)
    BY <2>3, SumBegins
  <2> HIDE DEF R
  <2> QED BY <2>1, <2>2, <2>4
<1> HIDE DEF Q
<1>2. S \in Q
  BY <1>1, SmallerFirst
<1> QED BY <1>2 DEF Q
-----------------------------------------------------------------------------
(***************************************************************************)
(* The noisy-neighbour detector.                                           *)
(***************************************************************************)

\* The inequality of Cauchy and Schwarz for one more number x: t is the sum of
\* m numbers, u that of their squares.
LEMMA OneMoreSquare ==
  ASSUME NEW x \in Nat, NEW m \in Nat, NEW t \in Nat, NEW u \in Nat, t * t <= m * u
  PROVE  (x + t) * (x + t) <= (m + 1) * (x * x + u)
<1>1. (m * x - t) * (m * x - t) >= 0
  <2>1. \A z \in Int : z * z >= 0
    OBVIOUS
  <2>2. m * x - t \in Int
    OBVIOUS
  <2> QED BY <2>1, <2>2
<1>2. (m * x - t) * (m * x - t) = m * (m * (x * x)) - 2 * (m * (x * t)) + t * t
  OBVIOUS
<1>3. m * (m * (x * x) + u - 2 * (x * t)) >= 0
  BY <1>1, <1>2
<1>4. m * (x * x) + u - 2 * (x * t) >= 0
  <2>1. CASE m = 0
    <3>1. t = 0
      BY <2>1
    <3> QED BY <2>1, <3>1
  <2>2. CASE m > 0
    <3>1. \A z \in Int : m * z >= 0 => z >= 0
      BY <2>2
    <3>2. m * (x * x) + u - 2 * (x * t) \in Int
      OBVIOUS
    <3> QED BY <1>3, <3>1, <3>2
  <2> QED BY <2>1, <2>2
<1>5. (x + t) * (x + t) = x * x + 2 * (x * t) + t * t
  OBVIOUS
<1>6. (m + 1) * (x * x + u) = m * (x * x) + m * u + x * x + u
  OBVIOUS
<1> QED BY <1>4, <1>5, <1>6

\* The squares of the values.
Squares(f, S) == [p \in S |-> f[p] * f[p]]

\* The square of a sum is at most the number of its elements times the sum
\* of their squares.
LEMMA CauchySchwarz ==
  ASSUME NEW f, NEW S, IsFiniteSet(S), \A x \in S : f[x] \in Nat
  PROVE  LET s == SumFunctionOnSet(f, S)
             q == SumFunctionOnSet(Squares(f, S), S)
         IN  s * s <= Cardinality(S) * q
<1> DEFINE Sum(T) == SumFunctionOnSet(f, T)
           SumSq(T) == SumFunctionOnSet(Squares(f, S), T)
           Q == {T \in SUBSET S : Sum(T) * Sum(T) <= Cardinality(T) * SumSq(T)}
<1>1. ASSUME NEW T \in SUBSET S, \A R \in SUBSET T : R # T => R \in Q
      PROVE  T \in Q
  <2>1. IsFiniteSet(T)
    BY FS_Subset
  <2>2. CASE T = {}
    <3>1. Sum(T) = 0 /\ SumSq(T) = 0 /\ Cardinality(T) = 0
      BY <2>1, <2>2, SumBegins, FS_EmptySet
    <3> QED BY <3>1
  <2>3. CASE T # {}
    <3> PICK a \in T : TRUE
      BY <2>3
    <3> DEFINE R == T \ {a}
    <3>1. R \in SUBSET T /\ R # T /\ IsFiniteSet(R)
      BY <2>1, FS_Subset
    <3>2. Cardinality(R) \in Nat /\ Cardinality(T) = Cardinality(R) + 1
      <4>1. /\ Cardinality(T) \in Nat /\ Cardinality(R) \in Nat
            /\ Cardinality(R) = Cardinality(T) - 1
        BY <2>1, <3>1, FS_RemoveElement, FS_CardinalityType
      <4> QED BY <4>1
    <3>3. f[a] \in Nat /\ Squares(f, S)[a] = f[a] * f[a]
      BY DEF Squares
    <3>4. \A x \in T : f[x] \in Nat /\ Squares(f, S)[x] \in Nat
      BY DEF Squares
    <3>5. Sum(T) = f[a] + Sum(R) /\ Sum(R) \in Nat
      BY <2>1, <3>1, <3>4, SumWithout, SumIsNat
    <3>6. SumSq(T) = f[a] * f[a] + SumSq(R) /\ SumSq(R) \in Nat
      BY <2>1, <3>1, <3>3, <3>4, SumWithout, SumIsNat
    <3>7. Sum(R) * Sum(R) <= Cardinality(R) * SumSq(R)
      BY <1>1, <3>1
    <3> HIDE DEF Sum, SumSq, R
    <3>8. (f[a] + Sum(R)) * (f[a] + Sum(R))
             <= (Cardinality(R) + 1) * (f[a] * f[a] + SumSq(R))
      BY <3>2, <3>3, <3>5, <3>6, <3>7, OneMoreSquare
    <3>9. Sum(T) * Sum(T) <= Cardinality(T) * SumSq(T)
      BY <3>2, <3>5, <3>6, <3>8
    <3> QED BY <3>9
  <2> QED BY <2>2, <2>3
<1> HIDE DEF Q
<1>2. S \in Q
  BY <1>1, SmallerFirst
<1> QED BY <1>2 DEF Q

\* n observations, the latest x and the others with sum t and sum of squares
\* u: a factor k that the excess of x over the mean exceeds is small.
LEMMA ExcessIsBounded ==
  ASSUME NEW x \in Nat, NEW m \in Nat, NEW t \in Nat, NEW u \in Nat, NEW k \in Nat,
         t * t <= m * u,
         LET e == (m + 1) * x - (x + t)
             d == (m + 1) * (x * x + u) - (x + t) * (x + t)
         IN  e * e > k * d
  PROVE  m > k
<1> DEFINE e == (m + 1) * x - (x + t)
           d == (m + 1) * (x * x + u) - (x + t) * (x + t)
           w == m * u - t * t
<1>1. e \in Int /\ d \in Int /\ w \in Int /\ w >= 0
  OBVIOUS
<1>2. d >= 0
  BY OneMoreSquare
<1>3. m * d - e * e = (m + 1) * w
  <2>1. e = m * x - t
    OBVIOUS
  <2>2. e * e = m * (m * (x * x)) - 2 * (m * (x * t)) + t * t
    BY <2>1
  <2>3. d = m * (x * x) + m * u + u - 2 * (x * t) - t * t
    OBVIOUS
  <2>4. m * d = m * (m * (x * x)) + m * (m * u) + m * u - 2 * (m * (x * t)) - m * (t * t)
    BY <2>3
  <2>5. (m + 1) * w = m * (m * u) - m * (t * t) + m * u - t * t
    OBVIOUS
  <2> QED BY <2>2, <2>4, <2>5
<1>4. e * e > k * d
  OBVIOUS
<1> HIDE DEF e, d, w
<1>5. (m + 1) * w >= 0
  BY <1>1
<1>6. m * d > k * d
  BY <1>1, <1>3, <1>4, <1>5
<1> QED BY <1>1, <1>2, <1>6

\* Then x exceeds the others alone by as much.
LEMMA OthersAreExceeded ==
  ASSUME NEW x \in Nat, NEW m \in Nat, NEW t \in Nat, NEW u \in Nat, NEW k \in Nat,
         t * t <= m * u,
         LET e == (m + 1) * x - (x + t)
             d == (m + 1) * (x * x + u) - (x + t) * (x + t)
         IN  e > 0 /\ e * e > k * d
  PROVE  LET e == m * x - t
         IN  e > 0 /\ e * e > k * (m * u - t * t)
<1> DEFINE e == m * x - t
           d == (m + 1) * (x * x + u) - (x + t) * (x + t)
           w == m * u - t * t
<1>1. /\ e \in Int /\ d \in Int /\ w \in Int /\ w >= 0
      /\ e = (m + 1) * x - (x + t)
  OBVIOUS
<1>2. e > 0 /\ e * e > k * d
  BY <1>1
<1>3. m > 0
  <2>1. m = 0 => e = 0 - t
    OBVIOUS
  <2> QED BY <1>2, <2>1
<1>4. m * d = e * e + (m + 1) * w
  <2>1. e * e = m * (m * (x * x)) - 2 * (m * (x * t)) + t * t
    OBVIOUS
  <2>2. d = m * (x * x) + m * u + u - 2 * (x * t) - t * t
    OBVIOUS
  <2>3. m * d = m * (m * (x * x)) + m * (m * u) + m * u - 2 * (m * (x * t)) - m * (t * t)
    BY <2>2
  <2>4. (m + 1) * w = m * (m * u) - m * (t * t) + m * u - t * t
    OBVIOUS
  <2> QED BY <2>1, <2>3, <2>4
<1> HIDE DEF e, d, w
<1>5. e * e > k * w
  <2> DEFINE q == e * e
  <2>1. q \in Int /\ q >= 0
    BY <1>1
  <2> HIDE DEF q
  <2>2. q > k * d /\ m * d = q + (m + 1) * w
    BY <1>2, <1>4 DEF q
  <2>3. m * q > m * (k * d)
    BY <1>1, <1>3, <2>1, <2>2
  <2>4. m * (k * d) = k * (m * d) /\ k * (m * d) = k * q + (k * m) * w + k * w
    BY <1>1, <2>1, <2>2
  <2>5. k * q >= 0 /\ k * w >= 0
    BY <1>1, <2>1
  <2>6. m * q > m * (k * w)
    <3>1. (k * m) * w = m * (k * w)
      BY <1>1
    <3> QED BY <1>1, <2>1, <2>3, <2>4, <2>5, <3>1
  <2>7. q > k * w
    BY <1>1, <1>3, <2>1, <2>6
  <2> QED BY <2>7 DEF q
<1> QED BY <1>2, <1>5 DEF e, w

\* A rate above the threshold of the pods it is one of exceeds that of the
\* others, and these are more than the square of Sigma.
LEMMA LoudStandsOut ==
  ASSUME NEW f, NEW on, IsFiniteSet(on), \A p \in on : f[p] \in Nat, NEW p \in on,
         Sigma \in Nat, AboveThreshold(f[p], f, on)
  PROVE  /\ AboveThreshold(f[p], f, on \ {p})
         /\ Cardinality(on) > Sigma * Sigma + 1
<1> DEFINE rest == on \ {p}
           g == Squares(f, on)
           m == Cardinality(rest)
           t == SumFunctionOnSet(f, rest)
           u == SumFunctionOnSet(g, rest)
           x == f[p]
           k == Sigma * Sigma
<1>1. IsFiniteSet(rest) /\ m \in Nat /\ Cardinality(on) = m + 1
  <2>1. IsFiniteSet(rest) /\ Cardinality(rest) = Cardinality(on) - 1
    BY FS_RemoveElement
  <2>2. Cardinality(rest) \in Nat /\ Cardinality(on) \in Nat
    BY <2>1, FS_CardinalityType
  <2> QED BY <2>1, <2>2
<1>2. \A a \in on : g[a] \in Nat
  BY DEF Squares
<1>3. SumFunctionOnSet(f, on) = x + t /\ t \in Nat
  BY <1>1, SumWithout, SumIsNat
<1>4. SumFunctionOnSet(g, on) = x * x + u /\ u \in Nat
  <2>1. g[p] = x * x
    BY DEF Squares
  <2>2. \A a \in rest : g[a] \in Nat
    BY <1>2
  <2> HIDE DEF g
  <2>3. SumFunctionOnSet(g, on) = g[p] + u
    BY <1>2, SumWithout
  <2>4. u \in Nat
    BY <1>1, <2>2, SumIsNat
  <2> QED BY <2>1, <2>3, <2>4
<1>5. u = SumFunctionOnSet(Squares(f, rest), rest)
  <2>1. \A a \in rest : g[a] = Squares(f, rest)[a]
    BY DEF Squares
  <2> HIDE DEF g
  <2> QED BY <1>1, <2>1, SumOfEqual
<1>6. t * t <= m * u
  <2>1. t * t <= m * SumFunctionOnSet(Squares(f, rest), rest)
    BY <1>1, CauchySchwarz
  <2> QED BY <1>5, <2>1
<1>7. LET e == (m + 1) * x - (x + t)
          d == (m + 1) * (x * x + u) - (x + t) * (x + t)
      IN  e > 0 /\ e * e > k * d
  <2> DEFINE n == Cardinality(on)
             s == SumFunctionOnSet(f, on)
             q == SumFunctionOnSet(g, on)
  <2>1. n * x - s > 0 /\ (n * x - s) * (n * x - s) > Sigma * Sigma * (n * q - s * s)
    BY DEF AboveThreshold, Squares
  <2> HIDE DEF g, m, t, u, x, k
  <2> QED BY <1>1, <1>3, <1>4, <2>1 DEF k
<1>8. x \in Nat /\ k \in Nat
  OBVIOUS
<1>9. AboveThreshold(x, f, rest) <=>
        LET e == m * x - t
        IN  e > 0 /\ e * e > k * (m * u - t * t)
  BY <1>5 DEF AboveThreshold, Squares
<1> HIDE DEF g, m, t, u, x, k
<1>10. m > k
  BY <1>1, <1>3, <1>4, <1>6, <1>7, <1>8, ExcessIsBounded
<1>11. LET e == m * x - t
       IN  e > 0 /\ e * e > k * (m * u - t * t)
  BY <1>1, <1>3, <1>4, <1>6, <1>7, <1>8, OthersAreExceeded
<1>12. AboveThreshold(x, f, rest)
  BY <1>9, <1>11
<1> QED BY <1>1, <1>8, <1>10, <1>12 DEF k, x

\* A threshold depends on the rates of its pods alone.
LEMMA SameThreshold ==
  ASSUME NEW f, NEW g, NEW on, IsFiniteSet(on), \A p \in on : f[p] = g[p], NEW x
  PROVE  AboveThreshold(x, f, on) <=> AboveThreshold(x, g, on)
<1>1. Squares(f, on) = Squares(g, on)
  BY DEF Squares
<1>2. SumFunctionOnSet(f, on) = SumFunctionOnSet(g, on)
  BY SumOfEqual
<1> QED BY <1>1, <1>2 DEF AboveThreshold, Squares

\* A pod is reported among many, and has stood out for longer than it was
\* above the threshold; and never are infinitely many pods known.
NoisyInv ==
  /\ NoisyTypeOK /\ IsFiniteSet(Known) /\ ReportsStandOut
  /\ \A p \in Pods : noisyNeighborWindows[p] <= stood[p]
  /\ noisy # NoPod => Cardinality(Known) > Sigma * Sigma + 1

\* The inductive invariant of the noisy-neighbour detector.
THEOREM NoisyInvariant == NoisySpec => []NoisyInv
<1> USE NoisyAssumption
<1>1. NoisyInit => NoisyInv
  <2> SUFFICES ASSUME NoisyInit
               PROVE  NoisyInv
    OBVIOUS
  <2>1. Known = {}
    BY DEF NoisyInit, Known
  <2> QED BY <2>1, FS_EmptySet DEF NoisyInit, NoisyInv, NoisyTypeOK, ReportsStandOut
<1>2. NoisyInv /\ [NoisyNext]_noisyVars => NoisyInv'
  <2> SUFFICES ASSUME NoisyInv, [NoisyNext]_noisyVars
               PROVE  NoisyInv'
    OBVIOUS
  <2>1. ASSUME NEW p \in Pods, NEW rate \in Rates, RecordSyscallRate(p, rate)
        PROVE  NoisyInv'
    <3> DEFINE f == [rates EXCEPT ![p] = rate]
               on == Known \cup {p}
    <3>1. rates' = f /\ rate # Absent /\ rate \in Nat
      BY <2>1 DEF RecordSyscallRate
    <3>2. /\ rates \in [Pods -> Rates \cup {Absent}]
          /\ noisyNeighborWindows \in [Pods -> 0 .. Needed]
          /\ stood \in [Pods -> 0 .. Needed]
          /\ \A a \in Pods : noisyNeighborWindows[a] <= stood[a]
      BY DEF NoisyInv, NoisyTypeOK
    <3>3. Known' = on
      BY <3>1, <3>2 DEF Known
    <3>4. IsFiniteSet(on) /\ IsFiniteSet(on \ {p}) /\ on \ {p} = Known \ {p}
      BY FS_AddElement, FS_RemoveElement DEF NoisyInv
    <3>5. f[p] = rate /\ \A a \in on : f[a] \in Nat
      BY <3>1, <3>2 DEF Known
    <3>6. TooLoud(p, rate) => StandsOut(p, rate) /\ Cardinality(on) > Sigma * Sigma + 1
      <4>1. TooLoud(p, rate) => AboveThreshold(f[p], f, on)
        BY <3>5 DEF TooLoud
      <4>2. \A a \in on \ {p} : f[a] = rates[a]
        BY <3>2 DEF Known
      <4> HIDE DEF f
      <4>3. AboveThreshold(f[p], f, on \ {p}) <=> AboveThreshold(f[p], rates, on \ {p})
        BY <3>4, <4>2, SameThreshold
      <4> HIDE DEF on
      <4>4. AboveThreshold(f[p], f, on) =>
              AboveThreshold(f[p], f, on \ {p}) /\ Cardinality(on) > Sigma * Sigma + 1
        <5>1. p \in on
          BY DEF on
        <5> QED BY <3>4, <3>5, <5>1, LoudStandsOut
      <4> QED BY <3>4, <3>5, <4>1, <4>3, <4>4 DEF StandsOut
    <3>7. NoisyTypeOK'
      BY <2>1, <3>1, <3>2 DEF RecordSyscallRate, NoisyTypeOK, InARow, OneMore
    <3>8. \A a \in Pods : noisyNeighborWindows'[a] <= stood'[a]
      BY <2>1, <3>2, <3>6 DEF RecordSyscallRate, InARow, OneMore
    <3>9. noisy' # NoPod =>
            noisy' = p /\ TooLoud(p, rate) /\ noisyNeighborWindows'[p] = Needed
      BY <2>1 DEF RecordSyscallRate
    <3>10. ReportsStandOut'
      BY <3>7, <3>8, <3>9 DEF ReportsStandOut, NoisyTypeOK
    <3> HIDE DEF f, on
    <3> QED BY <3>3, <3>4, <3>6, <3>7, <3>8, <3>9, <3>10 DEF NoisyInv
  <2>2. CASE UNCHANGED noisyVars
    BY <2>2 DEF noisyVars, NoisyInv, NoisyTypeOK, ReportsStandOut, Known
  <2> QED BY <2>1, <2>2 DEF NoisyNext
<1> QED BY <1>1, <1>2, PTL DEF NoisySpec

\* Whatever the syscall rates, no window is counted beyond those needed
\* before a pod is reported.
THEOREM NoisyTypeCorrect == NoisySpec => []NoisyTypeOK
BY NoisyInvariant, PTL DEF NoisyInv

\* A pod that is reported has stood out from its neighbours for as long as
\* the detector needs, however many they are and whatever their rates.
THEOREM ReportsAlwaysStandOut == NoisySpec => []ReportsStandOut
BY NoisyInvariant, PTL DEF NoisyInv

\* A limit of the detector, not a promise: on a node where at most ten pods
\* (for three deviations) were ever seen, RecordSyscallRate reports none,
\* however high its rate and for however long, because the rate is part of the
\* deviation.
THEOREM FewPodsAreNotReported ==
  NoisySpec => [](Cardinality(Known) <= Sigma * Sigma + 1 => noisy = NoPod)
<1>1. NoisyInv => (Cardinality(Known) <= Sigma * Sigma + 1 => noisy = NoPod)
  <2> SUFFICES ASSUME NoisyInv, noisy # NoPod,
                      Cardinality(Known) <= Sigma * Sigma + 1
               PROVE  FALSE
    OBVIOUS
  <2>1. Cardinality(Known) \in Nat /\ Sigma * Sigma + 1 \in Nat
    BY NoisyAssumption, FS_CardinalityType DEF NoisyInv
  <2>2. Cardinality(Known) > Sigma * Sigma + 1
    BY DEF NoisyInv
  <2> QED BY <2>1, <2>2
<1> QED BY <1>1, NoisyInvariant, PTL
-----------------------------------------------------------------------------
(***************************************************************************)
(* The error-rate detector.                                                *)
(***************************************************************************)

\* What the community modules' Min returns.
LEMMA MinIsLeast ==
  ASSUME NEW T, T \subseteq Nat, T # {}
  PROVE  Min(T) \in T /\ \A u \in T : Min(T) <= u
<1>1. \E t \in T : \A u \in T : t <= u
  BY LeastNumber
<1> QED BY <1>1 DEF Min

\* What is observed, and its window.
Observation == [rate : Percents, age : 0 .. Expired]

\* The constants of the detector are numbers.
LEMMA WindowIsNat ==
  /\ ErrorWindow \in Nat /\ ThresholdPP \in Nat /\ Percents \subseteq Nat
  /\ Expired \in Nat /\ Expired = ErrorWindow + 1
BY ErrorRateAssumption DEF Expired

\* The average starts empty.
LEMMA ErrorTypeInit == ErrorInit => ErrorTypeOK
<1>1. <<>> \in Seq(Observation) /\ Len(<<>>) = 0
  BY EmptySeq
<1> SUFFICES ASSUME ErrorInit PROVE ErrorTypeOK
  OBVIOUS
<1>2. observed \in Seq(Observation) /\ first \in 1 .. Len(observed) + 1
  BY <1>1 DEF ErrorInit
<1>3. raised \in BOOLEAN
  BY DEF ErrorInit
<1> QED BY <1>2, <1>3 DEF ErrorTypeOK, Observation

\* Pruning leaves the start of the window within the observations, or just
\* after the last: first never runs past what was observed.
LEMMA ErrorTypeStep == ErrorTypeOK /\ [ErrorNext]_errorVars => ErrorTypeOK'
<1> SUFFICES ASSUME ErrorTypeOK, [ErrorNext]_errorVars PROVE ErrorTypeOK'
  OBVIOUS
<1>0. /\ observed \in Seq(Observation)
      /\ first \in 1 .. Len(observed) + 1 /\ Len(observed) \in Nat
  BY LenProperties DEF ErrorTypeOK, Observation
<1>1. ASSUME NEW rate \in Percents, RecordErrorRate(rate) PROVE ErrorTypeOK'
  <2>1. [rate |-> rate, age |-> 0] \in Observation
    BY WindowIsNat DEF Observation
    <2>2. observed' \in Seq(Observation) /\ Len(observed') = Len(observed) + 1
    BY <1>0, <1>1, <2>1, AppendProperties DEF RecordErrorRate
  <2>3. first' \in 1 .. Len(observed') + 1
    <3> DEFINE T == {i \in first .. Len(observed') : observed'[i].age <= ErrorWindow}
                      \cup {Len(observed') + 1}
    <3>1. T \subseteq 1 .. Len(observed') + 1 /\ T # {} /\ T \subseteq Nat
      BY <1>0, <2>2
    <3>2. first' = Min(T)
      BY <1>1 DEF RecordErrorRate, Pruned
    <3> HIDE DEF T
    <3> QED BY <3>1, <3>2, MinIsLeast
  <2>4. raised' \in BOOLEAN
    BY <1>1, Zenon DEF RecordErrorRate, Spike
  <2> QED BY <2>2, <2>3, <2>4 DEF ErrorTypeOK, Observation
<1>2. CASE ErrorTick
  <2>1. \A i \in 1 .. Len(observed) : observed[i] \in Observation
    BY <1>0, ElementOfSeq
  <2>2. observed' = [i \in 1 .. Len(observed) |->
           [observed[i] EXCEPT !.age = IF @ < Expired THEN @ + 1 ELSE @]]
    BY <1>0, <1>2, LenProperties DEF ErrorTick
  <2>3. ASSUME NEW i \in 1 .. Len(observed)
        PROVE  [observed[i] EXCEPT !.age = IF @ < Expired THEN @ + 1 ELSE @] \in Observation
    <3>1. observed[i].age \in 0 .. Expired /\ observed[i] \in Observation
      BY <2>1 DEF Observation
    <3> QED BY WindowIsNat, <3>1 DEF Observation
  <2>4. observed' \in [1 .. Len(observed) -> Observation]
    BY <2>2, <2>3
  <2>5. observed' \in Seq(Observation) /\ Len(observed') = Len(observed)
    BY <1>0, <2>4, IsASeq, LenProperties
  <2> QED BY <1>0, <1>2, <2>5 DEF ErrorTypeOK, ErrorTick, Observation
<1>3. CASE UNCHANGED errorVars
  BY <1>3 DEF errorVars, ErrorTypeOK, Expired
<1> QED BY <1>1, <1>2, <1>3 DEF ErrorNext

\* Observations are never younger than later ones, and what was pruned has
\* left the window.
AgesFall ==
  \A i, j \in DOMAIN observed : i < j => observed[i].age >= observed[j].age
PrunedIsOld == \A i \in 1 .. first - 1 : observed[i].age > ErrorWindow

ErrorInv == ErrorTypeOK /\ AgesFall /\ PrunedIsOld /\ RateIsJudgedByTheOthers

ObservationsAreTyped ==
  \A i \in 1 .. Len(observed) : observed[i].rate \in Nat /\ observed[i].age \in Nat

\* What the type invariant says of single observations.
LEMMA ErrorTypeMeans ==
  ErrorTypeOK =>
    /\ Len(observed) \in Nat /\ DOMAIN observed = 1 .. Len(observed)
    /\ first \in 1 .. Len(observed) + 1
    /\ ObservationsAreTyped
    /\ ErrorWindow \in Nat /\ ThresholdPP \in Nat
<1> SUFFICES ASSUME ErrorTypeOK
             PROVE  /\ Len(observed) \in Nat /\ DOMAIN observed = 1 .. Len(observed)
                    /\ first \in 1 .. Len(observed) + 1
                    /\ ObservationsAreTyped
                    /\ ErrorWindow \in Nat /\ ThresholdPP \in Nat
  OBVIOUS
<1>1. observed \in Seq(Observation) /\ first \in 1 .. Len(observed) + 1
  BY DEF ErrorTypeOK, Observation
<1>2. Len(observed) \in Nat /\ DOMAIN observed = 1 .. Len(observed)
  BY <1>1, LenProperties
<1>3. \A i \in 1 .. Len(observed) : observed[i] \in Observation
  BY <1>1, ElementOfSeq
<1>4. ASSUME NEW e \in Observation
      PROVE  e.rate \in Nat /\ e.age \in Nat
  <2>1. e.rate \in Percents /\ e.age \in 0 .. Expired
    BY DEF Observation
  <2>2. 0 .. Expired \subseteq Nat
    BY WindowIsNat
  <2> QED BY WindowIsNat, <2>1, <2>2
<1> QED BY WindowIsNat, <1>1, <1>2, <1>3, <1>4 DEF ObservationsAreTyped

\* What is pruned is exactly what has left the window, whatever was pruned
\* before, since ages fall.
LEMMA PruningFollowsAge ==
  ASSUME NEW obs, NEW n \in Nat, NEW from \in 1 .. n, Len(obs) = n,
         \A i \in 1 .. n : obs[i].age \in Nat,
         \A i, j \in 1 .. n : i < j => obs[i].age >= obs[j].age,
         \A i \in 1 .. from - 1 : obs[i].age > ErrorWindow,
         obs[n].age = 0, from = first, ErrorWindow \in Nat
  PROVE  /\ Pruned(obs) \in 1 .. n
         /\ \A i \in 1 .. n : obs[i].age <= ErrorWindow <=> i >= Pruned(obs)
<1> DEFINE T == {i \in from .. n : obs[i].age <= ErrorWindow} \cup {n + 1}
           p == Min(T)
<1>1. p = Pruned(obs)
  BY DEF Pruned
<1>2. T \subseteq Nat /\ n \in T /\ n + 1 \in T
  OBVIOUS
<1> HIDE DEF T, p
<1>3. p \in T /\ \A u \in T : p <= u
  BY <1>2, MinIsLeast DEF p
<1>4. p \in from .. n /\ obs[p].age <= ErrorWindow
  BY <1>2, <1>3 DEF T
<1>5. ASSUME NEW i \in 1 .. n
      PROVE  obs[i].age <= ErrorWindow <=> i >= p
  <2>1. CASE i < from
    BY <1>4, <2>1
  <2>2. CASE from <= i /\ i < p
    <3>1. i \notin T
      BY <1>3, <1>4, <2>2
    <3> QED BY <1>4, <2>2, <3>1 DEF T
  <2>3. CASE i >= p
    BY <1>4, <2>3
  <2> QED BY <1>4, <2>1, <2>2, <2>3
<1> QED BY <1>1, <1>4, <1>5

\* The average with the observation itself, or without it.
LEMMA WithOrWithout ==
  ASSUME NEW n \in Nat, NEW rate \in Nat, NEW sum \in Nat, NEW th \in Nat, n = 0 => sum = 0
  PROVE  (n + 1) * rate > (rate + sum) + (n + 1) * th
           <=> n > 0 /\ n * rate > sum + (n + 1) * th
<1>1. (n + 1) * rate = n * rate + rate
  OBVIOUS
<1>2. n * rate \in Nat /\ (n + 1) * th \in Nat
  OBVIOUS
<1>3. n = 0 => n * rate = 0
  OBVIOUS
<1> QED BY <1>1, <1>2, <1>3

\* With one more observation the threshold counts once more: more than it did
\* for the others alone, at most twice as much.
LEMMA ThresholdsBetween ==
  ASSUME NEW n \in Nat, n > 0, NEW th \in Nat
  PROVE  n * th <= (n + 1) * th /\ (n + 1) * th <= n * (2 * th)
<1>1. (n + 1) * th = n * th + th /\ n * (2 * th) = n * th + n * th
  OBVIOUS
<1>2. th <= n * th /\ n * th \in Nat
  OBVIOUS
<1> QED BY <1>1, <1>2

\* What RecordErrorRate answers for a window that begins at from.
LEMMA SpikeIsJudged ==
  ASSUME NEW obs, NEW n \in Nat, NEW from \in 1 .. n, Len(obs) = n,
         DOMAIN obs = 1 .. n, \A i \in 1 .. n : obs[i].rate \in Nat,
         \A i \in 1 .. n : obs[i].age <= ErrorWindow <=> i >= from,
         ThresholdPP \in Nat, NEW rate, rate = obs[n].rate
  PROVE  LET others == {i \in 1 .. n - 1 : obs[i].age <= ErrorWindow}
             m == Cardinality(others)
         IN  Spike(rate, obs, from) <=>
               rate > AbsoluteMax
                 \/ (m > 0 /\ m * rate > SumOf(obs, others) + (m + 1) * ThresholdPP)
<1> DEFINE others == {i \in 1 .. n - 1 : obs[i].age <= ErrorWindow}
           m == Cardinality(others)
           f == [i \in DOMAIN obs |-> obs[i].rate]
           all == from .. n
<1>1. others = from .. n - 1 /\ others = all \ {n} /\ n \in all
  OBVIOUS
<1>2. IsFiniteSet(others) /\ m = n - from /\ m \in Nat
  <2>1. from \in Int /\ n - 1 \in Int
    OBVIOUS
  <2>2. /\ IsFiniteSet(from .. n - 1)
        /\ Cardinality(from .. n - 1) = IF from > n - 1 THEN 0 ELSE (n - 1) - from + 1
    BY <2>1, FS_Interval, Zenon
  <2> HIDE DEF others
  <2> QED BY <1>1, <2>2
<1>3. \A i \in all : f[i] \in Nat
  OBVIOUS
<1>4. IsFiniteSet(all)
  <2>1. from \in Int /\ n \in Int
    OBVIOUS
  <2> QED BY <2>1, FS_Interval, Zenon
<1>5. f[n] = rate
  BY <1>1
<1> HIDE DEF f, all, others
<1>6. /\ SumFunctionOnSet(f, all) = f[n] + SumFunctionOnSet(f, others)
      /\ SumFunctionOnSet(f, others) \in Nat
  <2>1. SumFunctionOnSet(f, all) = f[n] + SumFunctionOnSet(f, all \ {n})
    <3>1. n \in all
      BY <1>1
    <3> QED BY <3>1, <1>3, <1>4, SumWithout DEF all
  <2>2. \A i \in others : f[i] \in Nat
    BY <1>1, <1>3
  <2>3. SumFunctionOnSet(f, others) \in Nat
    BY <1>2, <2>2, SumIsNat
  <2> QED BY <1>1, <2>1, <2>3
<1>7. m = 0 => SumFunctionOnSet(f, others) = 0
  <2>1. m = 0 => others = {}
    BY <1>2, FS_EmptySet
  <2> QED BY <1>2, <2>1, SumBegins
<1>8. SumOf(obs, all) = rate + SumOf(obs, others) /\ SumOf(obs, others) \in Nat
  BY <1>1, <1>5, <1>6 DEF SumOf, f
<1>9. m = 0 => SumOf(obs, others) = 0
  BY <1>7 DEF SumOf, f
<1>10. rate \in Nat
  OBVIOUS
<1>11. Spike(rate, obs, from) <=>
         (n + 1 - from) * rate > SumOf(obs, all) + (n + 1 - from) * ThresholdPP
           \/ rate > AbsoluteMax
  BY DEF Spike, all
<1>12. n + 1 - from = m + 1
  BY <1>2
<1>13. (m + 1) * rate > (rate + SumOf(obs, others)) + (m + 1) * ThresholdPP
         <=> m > 0 /\ m * rate > SumOf(obs, others) + (m + 1) * ThresholdPP
  BY <1>2, <1>8, <1>9, <1>10, WithOrWithout
<1>14. Spike(rate, obs, from) <=>
         rate > AbsoluteMax
           \/ (m > 0 /\ m * rate > SumOf(obs, others) + (m + 1) * ThresholdPP)
  BY <1>8, <1>11, <1>12, <1>13
<1> QED BY <1>14 DEF others

\* The inductive invariant of the error-rate detector.
THEOREM ErrorInvariant == ErrorSpec => []ErrorInv
<1>1. ErrorInit => ErrorInv
  <2> SUFFICES ASSUME ErrorInit, ErrorTypeOK
               PROVE  AgesFall /\ PrunedIsOld /\ RateIsJudgedByTheOthers
    BY ErrorTypeInit DEF ErrorInv
  <2>1. Len(observed) = 0 /\ DOMAIN observed = {} /\ first = 1
    BY ErrorTypeMeans DEF ErrorInit
  <2> QED BY <2>1 DEF AgesFall, PrunedIsOld, RateIsJudgedByTheOthers
<1>2. ErrorInv /\ [ErrorNext]_errorVars => ErrorInv'
  <2> SUFFICES ASSUME ErrorInv, ErrorTypeOK', [ErrorNext]_errorVars
               PROVE  AgesFall' /\ PrunedIsOld' /\ RateIsJudgedByTheOthers'
    BY ErrorTypeStep DEF ErrorInv
  <2> DEFINE n == Len(observed)
  <2>0. /\ n \in Nat /\ DOMAIN observed = 1 .. n /\ first \in 1 .. n + 1
        /\ \A i \in 1 .. n : observed[i].rate \in Nat /\ observed[i].age \in Nat
        /\ ErrorWindow \in Nat /\ ThresholdPP \in Nat
    BY ErrorTypeMeans DEF ErrorInv, ObservationsAreTyped
  <2>1. ASSUME NEW rate \in Percents, RecordErrorRate(rate)
        PROVE  AgesFall' /\ PrunedIsOld' /\ RateIsJudgedByTheOthers'
    <3> DEFINE obs == Append(observed, [rate |-> rate, age |-> 0])
    <3>1. /\ Len(obs) = n + 1 /\ DOMAIN obs = 1 .. n + 1
          /\ \A i \in 1 .. n : obs[i] = observed[i]
          /\ obs[n + 1] = [rate |-> rate, age |-> 0]
      <4> DEFINE new == [rate |-> rate, age |-> 0]
      <4>1. observed \in Seq(Observation) /\ new \in Observation
        BY WindowIsNat DEF ErrorInv, ErrorTypeOK, Observation
      <4> HIDE DEF new
      <4>2. /\ Append(observed, new) \in Seq(Observation)
            /\ Len(Append(observed, new)) = n + 1
            /\ \A i \in 1 .. n : Append(observed, new)[i] = observed[i]
            /\ Append(observed, new)[n + 1] = new
        BY <4>1, AppendProperties
      <4>3. DOMAIN Append(observed, new) = 1 .. n + 1
        BY <4>2, LenProperties
      <4> QED BY <4>2, <4>3 DEF new
    <3>2. observed' = obs /\ first' = Pruned(obs) /\ raised' = Spike(rate, obs, first')
      BY <2>1 DEF RecordErrorRate
    <3>3. rate \in Nat /\ obs[n + 1].age = 0 /\ obs[n + 1].rate = rate
      BY <3>1, ErrorRateAssumption
    <3> HIDE DEF obs
    <3>4. \A i \in 1 .. n + 1 : obs[i].rate \in Nat /\ obs[i].age \in Nat
      BY <2>0, <3>1, <3>3
    <3>5. \A i, j \in 1 .. n + 1 : i < j => obs[i].age >= obs[j].age
      <4> SUFFICES ASSUME NEW i \in 1 .. n + 1, NEW j \in 1 .. n + 1, i < j
                   PROVE  obs[i].age >= obs[j].age
        OBVIOUS
      <4>1. CASE j = n + 1
        BY <2>0, <3>3, <3>4, <4>1
      <4>2. CASE j # n + 1
        <5>1. i \in 1 .. n /\ j \in 1 .. n
          BY <2>0, <4>2
        <5> QED BY <2>0, <3>1, <5>1 DEF ErrorInv, AgesFall
      <4> QED BY <4>1, <4>2
    <3>6. \A i \in 1 .. first - 1 : obs[i].age > ErrorWindow
      BY <2>0, <3>1 DEF ErrorInv, PrunedIsOld
    <3>7. /\ first' \in 1 .. n + 1
          /\ \A i \in 1 .. n + 1 : obs[i].age <= ErrorWindow <=> i >= first'
      <4>1. n + 1 \in Nat /\ first \in 1 .. n + 1
        BY <2>0
      <4> QED BY <2>0, <3>1, <3>2, <3>3, <3>4, <3>5, <3>6, <4>1, PruningFollowsAge
    <3>8. AgesFall'
      BY <3>1, <3>2, <3>5 DEF AgesFall
    <3>9. PrunedIsOld'
      BY <2>0, <3>2, <3>4, <3>7 DEF PrunedIsOld
    <3>10. RateIsJudgedByTheOthers'
      <4> DEFINE others == {i \in 1 .. n : obs[i].age <= ErrorWindow}
                 m == Cardinality(others)
      <4>1. Spike(rate, obs, first') <=>
              rate > AbsoluteMax
                \/ (m > 0 /\ m * rate > SumOf(obs, others) + (m + 1) * ThresholdPP)
        <5>1. n + 1 \in Nat /\ (n + 1) - 1 = n
          BY <2>0
        <5> QED BY <2>0, <3>1, <3>3, <3>4, <3>7, <5>1, SpikeIsJudged
      <4>2. m > 0 =>
              /\ m * rate > SumOf(obs, others) + (m + 1) * ThresholdPP
                   => m * rate > SumOf(obs, others) + m * ThresholdPP
              /\ m * rate > SumOf(obs, others) + m * (2 * ThresholdPP)
                   => m * rate > SumOf(obs, others) + (m + 1) * ThresholdPP
        <5> SUFFICES ASSUME m > 0
                     PROVE  /\ m * rate > SumOf(obs, others) + (m + 1) * ThresholdPP
                                 => m * rate > SumOf(obs, others) + m * ThresholdPP
                            /\ m * rate > SumOf(obs, others) + m * (2 * ThresholdPP)
                                 => m * rate > SumOf(obs, others) + (m + 1) * ThresholdPP
          OBVIOUS
        <5>1. m \in Nat
          <6>1. IsFiniteSet(1 .. n)
            BY <2>0, FS_Interval
          <6>2. IsFiniteSet(others)
            BY <6>1, FS_Subset
          <6> QED BY <6>2, FS_CardinalityType
        <5>2. SumOf(obs, others) \in Nat
          <6> DEFINE f == [i \in DOMAIN obs |-> obs[i].rate]
          <6>1. \A i \in others : f[i] \in Nat
            BY <3>1, <3>4
          <6>2. IsFiniteSet(1 .. n)
            BY <2>0, FS_Interval
          <6>3. IsFiniteSet(others)
            BY <6>2, FS_Subset
          <6> HIDE DEF f, others
          <6>4. SumFunctionOnSet(f, others) \in Nat
            BY <6>1, <6>3, SumIsNat
          <6> QED BY <6>4 DEF SumOf, f
        <5> HIDE DEF m
        <5>3. m * ThresholdPP <= (m + 1) * ThresholdPP
              /\ (m + 1) * ThresholdPP <= m * (2 * ThresholdPP)
          BY <2>0, <5>1, ThresholdsBetween
        <5> QED BY <2>0, <3>3, <5>1, <5>2, <5>3, SMTT(30)
      <4>3. (n + 1) - 1 = n
        BY <2>0
      <4> QED BY <3>1, <3>2, <3>3, <4>1, <4>2, <4>3 DEF RateIsJudgedByTheOthers
    <3> QED BY <3>8, <3>9, <3>10
  <2>2. CASE ErrorTick
    <3>1. /\ DOMAIN observed' = 1 .. n /\ first' = first
          /\ \A i \in 1 .. n : observed'[i].age =
               IF observed[i].age < Expired THEN observed[i].age + 1 ELSE observed[i].age
      <4>1. /\ DOMAIN observed' = 1 .. n /\ first' = first
            /\ \A i \in 1 .. n : observed'[i] =
                 [observed[i] EXCEPT !.age = IF @ < Expired THEN @ + 1 ELSE @]
        BY <2>0, <2>2 DEF ErrorTick
      <4>2. observed \in Seq(Observation)
        BY DEF ErrorInv, ErrorTypeOK, Observation
      <4>3. \A i \in 1 .. n : observed[i] \in Observation
        BY <4>2, ElementOfSeq
      <4> QED BY <4>1, <4>3 DEF Observation
    <3>2. Expired \in Nat /\ Expired = ErrorWindow + 1
      BY <2>0 DEF Expired
    <3>3. AgesFall'
      BY <2>0, <3>1, <3>2, SMTT(30) DEF AgesFall, ErrorInv
    <3>4. PrunedIsOld'
      BY <2>0, <3>1, <3>2 DEF PrunedIsOld, ErrorInv
    <3>5. Len(observed') = n
      BY <2>0, <3>1, LenProperties DEF ErrorTypeOK
    <3>6. n > 0 => observed'[n].age # 0
      BY <2>0, <3>1, <3>2
    <3> QED BY <3>3, <3>4, <3>5, <3>6 DEF RateIsJudgedByTheOthers
  <2>3. CASE UNCHANGED errorVars
    BY <2>3 DEF errorVars, ErrorInv, AgesFall, PrunedIsOld, RateIsJudgedByTheOthers, SumOf
  <2> QED BY <2>1, <2>2, <2>3 DEF ErrorNext
<1> QED BY <1>1, <1>2, PTL DEF ErrorSpec

\* The observations and the window of the average keep their types.
THEOREM ErrorTypeCorrect == ErrorSpec => []ErrorTypeOK
BY ErrorInvariant, PTL DEF ErrorInv

\* RecordErrorRate reports only what exceeds the others of the window by the
\* threshold (or the absolute limit), and all that exceeds them by twice the
\* threshold, whatever was observed and pruned before.
THEOREM RatesAreJudgedByTheOthers == ErrorSpec => []RateIsJudgedByTheOthers
BY ErrorInvariant, PTL DEF ErrorInv
-----------------------------------------------------------------------------
(***************************************************************************)
(* The classifier: its rules by place, and the registered types they give. *)
(***************************************************************************)

\* The rules of all families.
AllRules ==
  {ControlPlaneRules[i] : i \in 1 .. 5} \cup {MemoryRules[i] : i \in 1 .. 6}
    \cup {ApplicationRules[i] : i \in 1 .. 8} \cup {NetworkRules[i] : i \in 1 .. 7}
    \cup {CPURules[i] : i \in 1 .. 5}

\* How many rules a family has.
LEMMA FamilySizes ==
  /\ ControlPlaneRules \in Seq(AllRules) /\ Len(ControlPlaneRules) = 5
  /\ MemoryRules \in Seq(AllRules) /\ Len(MemoryRules) = 6
  /\ ApplicationRules \in Seq(AllRules) /\ Len(ApplicationRules) = 8
  /\ NetworkRules \in Seq(AllRules) /\ Len(NetworkRules) = 7
  /\ CPURules \in Seq(AllRules) /\ Len(CPURules) = 5
<1>1. /\ ControlPlaneRules = [i \in 1 .. 5 |-> ControlPlaneRules[i]]
      /\ MemoryRules = [i \in 1 .. 6 |-> MemoryRules[i]]
      /\ ApplicationRules = [i \in 1 .. 8 |-> ApplicationRules[i]]
      /\ NetworkRules = [i \in 1 .. 7 |-> NetworkRules[i]]
      /\ CPURules = [i \in 1 .. 5 |-> CPURules[i]]
  BY DEF ControlPlaneRules, MemoryRules, ApplicationRules, NetworkRules, CPURules
<1>2. /\ ControlPlaneRules \in [1 .. 5 -> AllRules]
      /\ MemoryRules \in [1 .. 6 -> AllRules]
      /\ ApplicationRules \in [1 .. 8 -> AllRules]
      /\ NetworkRules \in [1 .. 7 -> AllRules]
      /\ CPURules \in [1 .. 5 -> AllRules]
  BY <1>1 DEF AllRules
<1>3. ASSUME NEW n \in Nat, NEW rules \in [1 .. n -> AllRules]
      PROVE  rules \in Seq(AllRules) /\ Len(rules) = n
  BY <1>3, IsASeq, LenProperties
<1> QED BY <1>2, <1>3

\* The place of a rule in the order in which Classify asks.
LEMMA RulesAre ==
  /\ DOMAIN Rules = 1 .. 31
  /\ \A i \in 1 .. 5 : Rules[i] = ControlPlaneRules[i]
  /\ \A i \in 1 .. 6 : Rules[i + 5] = MemoryRules[i]
  /\ \A i \in 1 .. 8 : Rules[i + 11] = ApplicationRules[i]
  /\ \A i \in 1 .. 7 : Rules[i + 19] = NetworkRules[i]
  /\ \A i \in 1 .. 5 : Rules[i + 26] = CPURules[i]
<1> DEFINE A == ControlPlaneRules \o MemoryRules
           B == A \o ApplicationRules
           C == B \o NetworkRules
           D == C \o CPURules
<1>1. /\ A \in Seq(AllRules) /\ Len(A) = 5 + 6
      /\ \A i \in 1 .. 5 : A[i] = ControlPlaneRules[i]
      /\ \A i \in 1 .. 6 : A[i + 5] = MemoryRules[i]
  <2>0. ControlPlaneRules \in Seq(AllRules) /\ MemoryRules \in Seq(AllRules)
    BY FamilySizes
  <2>1. /\ A \in Seq(AllRules) /\ Len(A) = Len(ControlPlaneRules) + Len(MemoryRules)
        /\ \A i \in 1 .. Len(ControlPlaneRules) : A[i] = ControlPlaneRules[i]
        /\ \A i \in 1 .. Len(MemoryRules) : A[i + Len(ControlPlaneRules)] = MemoryRules[i]
    BY <2>0
  <2> HIDE DEF A
  <2> QED BY <2>1, FamilySizes
<1> HIDE DEF A
<1>2. /\ B \in Seq(AllRules) /\ Len(B) = 19
      /\ \A i \in 1 .. 11 : B[i] = A[i]
      /\ \A i \in 1 .. 8 : B[i + 11] = ApplicationRules[i]
  <2>0. A \in Seq(AllRules) /\ ApplicationRules \in Seq(AllRules)
    BY <1>1, FamilySizes
  <2>1. /\ B \in Seq(AllRules) /\ Len(B) = Len(A) + Len(ApplicationRules)
        /\ \A i \in 1 .. Len(A) : B[i] = A[i]
        /\ \A i \in 1 .. Len(ApplicationRules) : B[i + Len(A)] = ApplicationRules[i]
    BY <2>0
  <2> HIDE DEF B
  <2> QED BY <1>1, <2>1, FamilySizes
<1> HIDE DEF B
<1>3. /\ C \in Seq(AllRules) /\ Len(C) = 26
      /\ \A i \in 1 .. 19 : C[i] = B[i]
      /\ \A i \in 1 .. 7 : C[i + 19] = NetworkRules[i]
  <2>0. B \in Seq(AllRules) /\ NetworkRules \in Seq(AllRules)
    BY <1>2, FamilySizes
  <2>1. /\ C \in Seq(AllRules) /\ Len(C) = Len(B) + Len(NetworkRules)
        /\ \A i \in 1 .. Len(B) : C[i] = B[i]
        /\ \A i \in 1 .. Len(NetworkRules) : C[i + Len(B)] = NetworkRules[i]
    BY <2>0
  <2> HIDE DEF C
  <2> QED BY <1>2, <2>1, FamilySizes
<1> HIDE DEF C
<1>4. /\ D \in Seq(AllRules) /\ Len(D) = 31
      /\ \A i \in 1 .. 26 : D[i] = C[i]
      /\ \A i \in 1 .. 5 : D[i + 26] = CPURules[i]
  <2>0. C \in Seq(AllRules) /\ CPURules \in Seq(AllRules)
    BY <1>3, FamilySizes
  <2>1. /\ D \in Seq(AllRules) /\ Len(D) = Len(C) + Len(CPURules)
        /\ \A i \in 1 .. Len(C) : D[i] = C[i]
        /\ \A i \in 1 .. Len(CPURules) : D[i + Len(C)] = CPURules[i]
    BY <2>0
  <2> HIDE DEF D
  <2> QED BY <1>3, <2>1, FamilySizes
<1> HIDE DEF D
<1>5. D = Rules
  BY DEF A, B, C, D, Rules
<1>6. DOMAIN Rules = 1 .. 31
  <2>1. DOMAIN D = 1 .. Len(D)
    BY <1>4, LenProperties, Zenon
  <2> QED BY <1>4, <1>5, <2>1
<1>7. ASSUME NEW i \in 1 .. 5 PROVE Rules[i] = ControlPlaneRules[i]
  <2>1. i \in 1 .. 11 /\ i \in 1 .. 19 /\ i \in 1 .. 26
    OBVIOUS
  <2>2. Rules[i] = B[i]
    BY <1>3, <1>4, <1>5, <2>1, Zenon
  <2>3. B[i] = ControlPlaneRules[i]
    BY <1>1, <1>2, <2>1, Zenon
  <2> QED BY <2>2, <2>3
<1>8. /\ \A i \in 1 .. 6 : A[i + 5] = MemoryRules[i]
      /\ \A i \in 1 .. 8 : B[i + 11] = ApplicationRules[i]
      /\ \A i \in 1 .. 7 : C[i + 19] = NetworkRules[i]
  BY <1>1, <1>2, <1>3, Zenon
<1>9. ASSUME NEW i \in 1 .. 6 PROVE Rules[i + 5] = MemoryRules[i]
  <2> DEFINE j == i + 5
  <2>1. j \in 1 .. 11 /\ j \in 1 .. 19 /\ j \in 1 .. 26
    OBVIOUS
  <2>2. A[j] = MemoryRules[i]
    BY <1>8
  <2> HIDE DEF j
  <2>3. Rules[j] = A[j]
    BY <1>2, <1>3, <1>4, <1>5, <2>1, Zenon
  <2> QED BY <2>2, <2>3 DEF j
<1>10. ASSUME NEW i \in 1 .. 8 PROVE Rules[i + 11] = ApplicationRules[i]
  <2> DEFINE j == i + 11
  <2>1. j \in 1 .. 19 /\ j \in 1 .. 26
    OBVIOUS
  <2>2. B[j] = ApplicationRules[i]
    BY <1>8
  <2> HIDE DEF j
  <2>3. Rules[j] = B[j]
    BY <1>3, <1>4, <1>5, <2>1, Zenon
  <2> QED BY <2>2, <2>3 DEF j
<1>11. ASSUME NEW i \in 1 .. 7 PROVE Rules[i + 19] = NetworkRules[i]
  <2> DEFINE j == i + 19
  <2>1. j \in 1 .. 26
    OBVIOUS
  <2>2. C[j] = NetworkRules[i]
    BY <1>8
  <2> HIDE DEF j
  <2>3. Rules[j] = C[j]
    BY <1>4, <1>5, <2>1, Zenon
  <2> QED BY <2>2, <2>3 DEF j
<1>12. \A i \in 1 .. 5 : Rules[i + 26] = CPURules[i]
  BY <1>4, <1>5, Zenon
<1> QED BY <1>6, <1>7, <1>9, <1>10, <1>11, <1>12

\* A fact that is there, or follows from one of those that are.
Sure(f, s) == f \in s \/ (f = "network call" /\ "network failed" \in s)

\* The signals registered for e are enough for the rule r, and what r asks
\* for is registered for e.
Found(r, e) ==
  /\ \A f \in r.needs : Sure(f, e.needs)
  /\ r.excludes \subseteq e.excludes

Meant(r, e) ==
  e.needs \subseteq r.needs /\ e.excludes \subseteq r.excludes

\* What every registered type has.
Proper(e) ==
  e.severity \in {"P0", "P1", "P2", "P3"} /\ e.auto \in BOOLEAN /\ e.needs # {}

\* The rule r of the k-th family is the one that gives the type e, with the
\* exceptions that ClassifiedAsRegistered names.
Matches(k, r, e) ==
  /\ e.type = r.type /\ e.family = Families[k] /\ Proper(e)
  /\ e.type \notin {"MEM-006", "APP-003"} => Meant(r, e)
  /\ e.type \notin {"MEM-006", "APP-003", "CPU-001"} => Found(r, e)

\* Rule by rule, the registered type that it gives.
LEMMA ControlPlaneEntries ==
  /\ Matches(1, ControlPlaneRules[1],
       Entry("CTL", "CTL-003", "P0", TRUE, {"webhook > 10"}, {}))
  /\ Matches(1, ControlPlaneRules[2], Entry("CTL", "CTL-001", "P1", FALSE, {"etcd > 10"}, {}))
  /\ Matches(1, ControlPlaneRules[3],
       Entry("CTL", "CTL-002", "P1", FALSE, {"apiserver > 1000"}, {}))
  /\ Matches(1, ControlPlaneRules[4],
       Entry("CTL", "CTL-005", "P1", FALSE, {"pending > 50", "pending 2 min"}, {}))
  /\ Matches(1, ControlPlaneRules[5],
       Entry("CTL", "CTL-004", "P2", FALSE, {"queue > 1000"}, {}))
<1>1. Families[1] = "CTL"
  BY DEF Families
<1> QED BY <1>1 DEF ControlPlaneRules, Matches, Proper, Meant, Found, Sure, When, Entry

\* The same of the memory family.
LEMMA MemoryEntries ==
  /\ Matches(2, MemoryRules[1], Entry("MEM", "MEM-001", "P1", FALSE, {"oom kernel"}, {}))
  /\ Matches(2, MemoryRules[2], Entry("MEM", "MEM-002", "P1", TRUE, {"oom cgroup"}, {}))
  /\ Matches(2, MemoryRules[3],
       Entry("MEM", "MEM-006", "P1", FALSE, {"heap > 95", "oom"}, {}))
  /\ Matches(2, MemoryRules[4], Entry("MEM", "MEM-004", "P1", TRUE, {"rss > 20"}, {}))
  /\ Matches(2, MemoryRules[5],
       Entry("MEM", "MEM-003", "P2", FALSE, {"rss > 5", "rss 10 min"}, {}))
  /\ Matches(2, MemoryRules[6],
       Entry("MEM", "MEM-005", "P1", TRUE, {"node memory", "node memory 5 min"}, {}))
<1>1. Families[2] = "MEM"
  BY DEF Families
<1> QED BY <1>1 DEF MemoryRules, Matches, Proper, Meant, Found, Sure, When, Entry

\* The same of the application family.
LEMMA ApplicationEntries ==
  /\ Matches(3, ApplicationRules[1], Entry("APP", "APP-007", "P2", FALSE, {"image pull"}, {}))
  /\ Matches(3, ApplicationRules[2],
       Entry("APP", "APP-008", "P2", FALSE, {"init failed"}, {}))
  /\ Matches(3, ApplicationRules[3], Entry("APP", "APP-002", "P1", TRUE, {"exit 137"}, {}))
  /\ Matches(3, ApplicationRules[4],
       Entry("APP", "APP-004", "P2", FALSE, {"not ready"}, ExitCodes))
  /\ Matches(3, ApplicationRules[5],
       Entry("APP", "APP-001", "P1", FALSE, {"exit 1", "network failed"}, {"slow start"}))
  /\ Matches(3, ApplicationRules[6],
       Entry("APP", "APP-005", "P2", FALSE, {"exit 1", "bind failed"}, {}))
  /\ Matches(3, ApplicationRules[7],
       Entry("APP", "APP-006", "P1", FALSE, {"exit 1", "tcp refused"}, {}))
  /\ Matches(3, ApplicationRules[8],
       Entry("APP", "APP-003", "P1", FALSE, {"exit 1", "config unread"}, {"network call"}))
<1>1. Families[3] = "APP"
  BY DEF Families
<1> QED BY <1>1 DEF ApplicationRules, Matches, Proper, Meant, Found, Sure, When, Entry, ExitCodes

\* The same of the network family.
LEMMA NetworkEntries ==
  /\ Matches(4, NetworkRules[1], Entry("NET", "NET-007", "P1", TRUE, {"conntrack > 90"}, {}))
  /\ Matches(4, NetworkRules[2],
       Entry("NET", "NET-004", "P1", TRUE, {"connections > 500"}, {}))
  /\ Matches(4, NetworkRules[3],
       Entry("NET", "NET-002", "P1", TRUE, {"coredns > 80", "dns > 50"}, {}))
  /\ Matches(4, NetworkRules[4], Entry("NET", "NET-001", "P2", FALSE, {"nxdomain > 40"}, {}))
  /\ Matches(4, NetworkRules[5],
       Entry("NET", "NET-003", "P2", FALSE, {"large retransmits > 5"}, {"retransmits >= 5"}))
  /\ Matches(4, NetworkRules[6],
       Entry("NET", "NET-005", "P2", FALSE, {"tcp retransmits > 10"}, {}))
  /\ Matches(4, NetworkRules[7], Entry("NET", "NET-006", "P2", FALSE, {"endpoints > 10"}, {}))
<1>1. Families[4] = "NET"
  BY DEF Families
<1> QED BY <1>1 DEF NetworkRules, Matches, Proper, Meant, Found, Sure, When, Entry

\* The same of the CPU family.
LEMMA CPUEntries ==
  /\ Matches(5, CPURules[1], Entry("CPU", "CPU-001", "P2", TRUE, {"throttle > 25"}, {}))
  /\ Matches(5, CPURules[2],
       Entry("CPU", "CPU-006", "P3", TRUE, {"throttle > 25"}, {"cpu >= 60"}))
  /\ Matches(5, CPURules[3],
       Entry("CPU", "CPU-003", "P1", TRUE, {"node cpu", "node cpu 3 min"}, {}))
  /\ Matches(5, CPURules[4],
       Entry("CPU", "CPU-002", "P2", TRUE, {"syscalls > 3 sigma", "syscalls 30 s"}, {}))
  /\ Matches(5, CPURules[5], Entry("CPU", "CPU-004", "P2", FALSE, {"runqueue > 50"}, {}))
<1>1. Families[5] = "CPU"
  BY DEF Families
<1> QED BY <1>1 DEF CPURules, Matches, Proper, Meant, Found, Sure, When, Entry

\* The types that the rules give, in their order.
TypeAt == <<"CTL-003", "CTL-001", "CTL-002", "CTL-005", "CTL-004", "MEM-001", "MEM-002",
            "MEM-006", "MEM-004", "MEM-003", "MEM-005", "APP-007", "APP-008", "APP-002",
            "APP-004", "APP-001", "APP-005", "APP-006", "APP-003", "NET-007", "NET-004",
            "NET-002", "NET-001", "NET-003", "NET-005", "NET-006", "CPU-001", "CPU-006",
            "CPU-003", "CPU-002", "CPU-004">>

\* The family of the rule at a place, by its rank.
Turn(i) ==
  IF i <= 5 THEN 1 ELSE IF i <= 11 THEN 2 ELSE IF i <= 19 THEN 3 ELSE IF i <= 26 THEN 4 ELSE 5

\* A type that some rule gives, and a rule whose type is registered.
Placed(e) == \E i \in 1 .. 31 : Matches(Turn(i), Rules[i], e)
Listed(k, r) == \E e \in Registry : Matches(k, r, e)

\* The rule at a place, with the rank of its family.
LEMMA RulesInTurn ==
  /\ \A i \in 1 .. 5 : i \in 1 .. 31 /\ Rules[i] = ControlPlaneRules[i] /\ Turn(i) = 1
  /\ \A i \in 1 .. 6 : i + 5 \in 1 .. 31 /\ Rules[i + 5] = MemoryRules[i] /\ Turn(i + 5) = 2
  /\ \A i \in 1 .. 8 :
       i + 11 \in 1 .. 31 /\ Rules[i + 11] = ApplicationRules[i] /\ Turn(i + 11) = 3
  /\ \A i \in 1 .. 7 : i + 19 \in 1 .. 31 /\ Rules[i + 19] = NetworkRules[i] /\ Turn(i + 19) = 4
  /\ \A i \in 1 .. 5 : i + 26 \in 1 .. 31 /\ Rules[i + 26] = CPURules[i] /\ Turn(i + 26) = 5
BY RulesAre DEF Turn

\* Every registered type is given by a rule, but for the one whose signal no
\* snapshot holds.
LEMMA EntryIsPlaced ==
  ASSUME NEW e \in Registry
  PROVE  (e.type = "CPU-005" /\ e.needs = {"context switches"} /\ Proper(e)) \/ Placed(e)
<1>1. ASSUME NEW d, NEW i \in 1 .. 5, Matches(1, ControlPlaneRules[i], d) PROVE Placed(d)
  <2>1. i \in 1 .. 31 /\ Rules[i] = ControlPlaneRules[i] /\ Turn(i) = 1
    BY RulesInTurn
  <2> QED BY <1>1, <2>1 DEF Placed
<1>2. ASSUME NEW d, NEW i \in 1 .. 6, Matches(2, MemoryRules[i], d) PROVE Placed(d)
  <2>1. i + 5 \in 1 .. 31 /\ Rules[i + 5] = MemoryRules[i] /\ Turn(i + 5) = 2
    BY RulesInTurn
  <2> QED BY <1>2, <2>1 DEF Placed
<1>3. ASSUME NEW d, NEW i \in 1 .. 8, Matches(3, ApplicationRules[i], d) PROVE Placed(d)
  <2>1. i + 11 \in 1 .. 31 /\ Rules[i + 11] = ApplicationRules[i] /\ Turn(i + 11) = 3
    BY RulesInTurn
  <2> QED BY <1>3, <2>1 DEF Placed
<1>4. ASSUME NEW d, NEW i \in 1 .. 7, Matches(4, NetworkRules[i], d) PROVE Placed(d)
  <2>1. i + 19 \in 1 .. 31 /\ Rules[i + 19] = NetworkRules[i] /\ Turn(i + 19) = 4
    BY RulesInTurn
  <2> QED BY <1>4, <2>1 DEF Placed
<1>5. ASSUME NEW d, NEW i \in 1 .. 5, Matches(5, CPURules[i], d) PROVE Placed(d)
  <2>1. i + 26 \in 1 .. 31 /\ Rules[i + 26] = CPURules[i] /\ Turn(i + 26) = 5
    BY RulesInTurn
  <2> QED BY <1>5, <2>1 DEF Placed
<1>11. \A d : Matches(1, ControlPlaneRules[1], d) \/ Matches(1, ControlPlaneRules[2], d) \/
             Matches(1, ControlPlaneRules[3], d) \/ Matches(1, ControlPlaneRules[4], d) \/
             Matches(1, ControlPlaneRules[5], d)
           => Placed(d)
  BY <1>1
<1>12. \A d : Matches(2, MemoryRules[1], d) \/ Matches(2, MemoryRules[2], d) \/
             Matches(2, MemoryRules[3], d) \/ Matches(2, MemoryRules[4], d) \/
             Matches(2, MemoryRules[5], d) \/ Matches(2, MemoryRules[6], d)
           => Placed(d)
  BY <1>2
<1>13. \A d : Matches(3, ApplicationRules[1], d) \/ Matches(3, ApplicationRules[2], d) \/
             Matches(3, ApplicationRules[3], d) \/ Matches(3, ApplicationRules[4], d) \/
             Matches(3, ApplicationRules[5], d) \/ Matches(3, ApplicationRules[6], d) \/
             Matches(3, ApplicationRules[7], d) \/ Matches(3, ApplicationRules[8], d)
           => Placed(d)
  BY <1>3
<1>14. \A d : Matches(4, NetworkRules[1], d) \/ Matches(4, NetworkRules[2], d) \/
             Matches(4, NetworkRules[3], d) \/ Matches(4, NetworkRules[4], d) \/
             Matches(4, NetworkRules[5], d) \/ Matches(4, NetworkRules[6], d) \/
             Matches(4, NetworkRules[7], d)
           => Placed(d)
  BY <1>4
<1>15. \A d : Matches(5, CPURules[1], d) \/ Matches(5, CPURules[2], d) \/
             Matches(5, CPURules[3], d) \/ Matches(5, CPURules[4], d) \/
             Matches(5, CPURules[5], d)
           => Placed(d)
  BY <1>5
<1>20. LET c == Entry("CPU", "CPU-005", "P2", FALSE, {"context switches"}, {})
       IN  c.type = "CPU-005" /\ c.needs = {"context switches"} /\ Proper(c)
  BY DEF Entry, Proper
<1> QED BY <1>11, <1>12, <1>13, <1>14, <1>15, <1>20, Zenon, ControlPlaneEntries, MemoryEntries,
           ApplicationEntries, NetworkEntries, CPUEntries DEF Registry

\* No rule gives a type that is not registered.
LEMMA RuleIsListed ==
  ASSUME NEW i \in 1 .. 31
  PROVE  Listed(Turn(i), Rules[i])
<1>1. Listed(1, ControlPlaneRules[1]) /\ Listed(1, ControlPlaneRules[2]) /\
      Listed(1, ControlPlaneRules[3]) /\ Listed(1, ControlPlaneRules[4]) /\
      Listed(1, ControlPlaneRules[5])
  BY ControlPlaneEntries, ZenonT(60) DEF Registry, Listed
<1>2. Listed(2, MemoryRules[1]) /\ Listed(2, MemoryRules[2]) /\
      Listed(2, MemoryRules[3]) /\ Listed(2, MemoryRules[4]) /\
      Listed(2, MemoryRules[5]) /\ Listed(2, MemoryRules[6])
  BY MemoryEntries, ZenonT(60) DEF Registry, Listed
<1>3. Listed(3, ApplicationRules[1]) /\ Listed(3, ApplicationRules[2]) /\
      Listed(3, ApplicationRules[3]) /\ Listed(3, ApplicationRules[4]) /\
      Listed(3, ApplicationRules[5]) /\ Listed(3, ApplicationRules[6]) /\
      Listed(3, ApplicationRules[7]) /\ Listed(3, ApplicationRules[8])
  BY ApplicationEntries, ZenonT(60) DEF Registry, Listed
<1>4. Listed(4, NetworkRules[1]) /\ Listed(4, NetworkRules[2]) /\
      Listed(4, NetworkRules[3]) /\ Listed(4, NetworkRules[4]) /\
      Listed(4, NetworkRules[5]) /\ Listed(4, NetworkRules[6]) /\ Listed(4, NetworkRules[7])
  BY NetworkEntries, ZenonT(60) DEF Registry, Listed
<1>5. Listed(5, CPURules[1]) /\ Listed(5, CPURules[2]) /\ Listed(5, CPURules[3]) /\
      Listed(5, CPURules[4]) /\ Listed(5, CPURules[5])
  BY CPUEntries, ZenonT(60) DEF Registry, Listed
<1>11. ASSUME NEW j \in 1 .. 5, i = j PROVE Listed(Turn(i), Rules[i])
  <2>1. Listed(1, ControlPlaneRules[j])
    BY <1>1
  <2> QED BY <1>11, <2>1, RulesInTurn
<1>12. ASSUME NEW j \in 1 .. 6, i = j + 5 PROVE Listed(Turn(i), Rules[i])
  <2>1. Listed(2, MemoryRules[j])
    BY <1>2
  <2> QED BY <1>12, <2>1, RulesInTurn
<1>13. ASSUME NEW j \in 1 .. 8, i = j + 11 PROVE Listed(Turn(i), Rules[i])
  <2>1. Listed(3, ApplicationRules[j])
    BY <1>3
  <2> QED BY <1>13, <2>1, RulesInTurn
<1>14. ASSUME NEW j \in 1 .. 7, i = j + 19 PROVE Listed(Turn(i), Rules[i])
  <2>1. Listed(4, NetworkRules[j])
    BY <1>4
  <2> QED BY <1>14, <2>1, RulesInTurn
<1>15. ASSUME NEW j \in 1 .. 5, i = j + 26 PROVE Listed(Turn(i), Rules[i])
  <2>1. Listed(5, CPURules[j])
    BY <1>5
  <2> QED BY <1>15, <2>1, RulesInTurn
<1>20. \/ \E j \in 1 .. 5 : i = j
       \/ \E j \in 1 .. 6 : i = j + 5
       \/ \E j \in 1 .. 8 : i = j + 11
       \/ \E j \in 1 .. 7 : i = j + 19
       \/ \E j \in 1 .. 5 : i = j + 26
  <2>1. \/ i \in 1 .. 5
        \/ i - 5 \in 1 .. 6
        \/ i - 11 \in 1 .. 8
        \/ i - 19 \in 1 .. 7
        \/ i - 26 \in 1 .. 5
    OBVIOUS
  <2>2. i = (i - 5) + 5 /\ i = (i - 11) + 11 /\ i = (i - 19) + 19 /\ i = (i - 26) + 26
    OBVIOUS
  <2> QED BY <2>1, <2>2
<1> QED BY <1>11, <1>12, <1>13, <1>14, <1>15, <1>20

\* No two rules give the same type.
LEMMA TypesApart ==
  /\ \A i, j \in 1 .. 31 : Rules[i].type = Rules[j].type => i = j
  /\ \A i \in 1 .. 31 : Rules[i].type \notin {"CPU-005", "none"}
<1>1. \A l \in 1 .. 31 : Rules[l].type = TypeAt[l]
  <2>1. \A l \in 1 .. 5 : ControlPlaneRules[l].type = TypeAt[l]
    <3>1. ControlPlaneRules[1].type = TypeAt[1] /\ ControlPlaneRules[2].type = TypeAt[2] /\
          ControlPlaneRules[3].type = TypeAt[3] /\ ControlPlaneRules[4].type = TypeAt[4] /\
          ControlPlaneRules[5].type = TypeAt[5]
      BY DEF ControlPlaneRules, When, TypeAt
    <3> QED BY <3>1
  <2>2. \A l \in 1 .. 6 : MemoryRules[l].type = TypeAt[l + 5]
    <3>1. MemoryRules[1].type = TypeAt[6] /\ MemoryRules[2].type = TypeAt[7] /\
          MemoryRules[3].type = TypeAt[8] /\ MemoryRules[4].type = TypeAt[9] /\
          MemoryRules[5].type = TypeAt[10] /\ MemoryRules[6].type = TypeAt[11]
      BY DEF MemoryRules, When, TypeAt
    <3> QED BY <3>1
  <2>3. \A l \in 1 .. 8 : ApplicationRules[l].type = TypeAt[l + 11]
    <3>1. ApplicationRules[1].type = TypeAt[12] /\ ApplicationRules[2].type = TypeAt[13] /\
          ApplicationRules[3].type = TypeAt[14] /\ ApplicationRules[4].type = TypeAt[15] /\
          ApplicationRules[5].type = TypeAt[16] /\ ApplicationRules[6].type = TypeAt[17] /\
          ApplicationRules[7].type = TypeAt[18] /\ ApplicationRules[8].type = TypeAt[19]
      BY DEF ApplicationRules, When, TypeAt
    <3> QED BY <3>1
  <2>4. \A l \in 1 .. 7 : NetworkRules[l].type = TypeAt[l + 19]
    <3>1. NetworkRules[1].type = TypeAt[20] /\ NetworkRules[2].type = TypeAt[21] /\
          NetworkRules[3].type = TypeAt[22] /\ NetworkRules[4].type = TypeAt[23] /\
          NetworkRules[5].type = TypeAt[24] /\ NetworkRules[6].type = TypeAt[25] /\
          NetworkRules[7].type = TypeAt[26]
      BY DEF NetworkRules, When, TypeAt
    <3> QED BY <3>1
  <2>5. \A l \in 1 .. 5 : CPURules[l].type = TypeAt[l + 26]
    <3>1. CPURules[1].type = TypeAt[27] /\ CPURules[2].type = TypeAt[28] /\
          CPURules[3].type = TypeAt[29] /\ CPURules[4].type = TypeAt[30] /\
          CPURules[5].type = TypeAt[31]
      BY DEF CPURules, When, TypeAt
    <3> QED BY <3>1
  <2> QED BY <2>1, <2>2, <2>3, <2>4, <2>5, RulesAre
<1>2. \A l, m \in 1 .. 31 : TypeAt[l] = TypeAt[m] => l = m
  BY DEF TypeAt
<1>3. \A l \in 1 .. 31 : TypeAt[l] \notin {"CPU-005", "none"}
  BY DEF TypeAt
<1> QED BY <1>1, <1>2, <1>3
-----------------------------------------------------------------------------
(***************************************************************************)
(* The classifier: the first rule that applies gives a type as registered. *)
(***************************************************************************)

\* The rank of a type is that of its family.
LEMMA RankIs ==
  ASSUME NEW e, NEW k \in 1 .. 5, e.family = Families[k]
  PROVE  Rank(e) = k
<1>1. DOMAIN Families = 1 .. 5
  BY DEF Families
<1>2. \A i \in 1 .. 5 : Families[i] = Families[k] => i = k
  BY DEF Families
<1> QED BY <1>1, <1>2 DEF Rank

\* A registered type has a severity, and a signal of its own.
LEMMA EntriesAreProper == \A e \in Registry : Proper(e)
<1>1. \A e : Placed(e) => Proper(e)
  BY DEF Placed, Matches
<1> QED BY <1>1, EntryIsPlaced

\* What a snapshot can hold: all that brings something else with it, never
\* the signal of CPU-005.
LEMMA FactsAre ==
  "context switches" \notin Facts /\ {"etcd > 10", "rss > 5", "network call"} \subseteq Facts
<1>1. ASSUME NEW e \in Registry, NEW f \in e.needs \cup e.excludes PROVE f \in Named
  BY <1>1, Zenon DEF Named
<1>2. ASSUME NEW e \in Registry, NEW f \in e.needs \cup e.excludes,
             f \notin {"context switches", "oom"}
      PROVE  f \in Facts
  BY <1>1, <1>2 DEF Facts
<1>3. "etcd > 10" \in Facts
  <2> DEFINE e == Entry("CTL", "CTL-001", "P1", FALSE, {"etcd > 10"}, {})
  <2>1. e \in Registry
    BY Zenon DEF Registry
  <2>2. "etcd > 10" \in e.needs \cup e.excludes
    BY DEF Entry
  <2> HIDE DEF e
  <2> QED BY <1>2, <2>1, <2>2
<1>4. "rss > 5" \in Facts
  <2> DEFINE e == Entry("MEM", "MEM-003", "P2", FALSE, {"rss > 5", "rss 10 min"}, {})
  <2>1. e \in Registry
    BY Zenon DEF Registry
  <2>2. "rss > 5" \in e.needs \cup e.excludes
    BY DEF Entry
  <2> HIDE DEF e
  <2> QED BY <1>2, <2>1, <2>2
<1>5. "network call" \in Facts
  <2> DEFINE e == Entry("APP", "APP-003", "P1", FALSE,
                        {"exit 1", "config unread"}, {"network call"})
  <2>1. e \in Registry
    BY Zenon DEF Registry
  <2>2. "network call" \in e.needs \cup e.excludes
    BY DEF Entry
  <2> HIDE DEF e
  <2> QED BY <1>2, <2>1, <2>2
<1>6. "context switches" \notin Facts
  BY DEF Facts
<1> QED BY <1>3, <1>4, <1>5, <1>6

\* A snapshot that can be taken.
Snapshot(s) == s \subseteq Facts /\ ("network failed" \in s => "network call" \in s)

\* The places of the rules that apply.
Hits(s) == {i \in 1 .. 31 : Holds(Rules[i], s)}

\* Where a registered type is present, the rule that gives it applies.
LEMMA RegisteredIsHit ==
  ASSUME NEW s, Snapshot(s), NEW e \in Registry, Holds(e, s),
         e.type \notin {"MEM-006", "APP-003", "CPU-001"}
  PROVE  \E i \in Hits(s) : Rank(e) = Turn(i)
<1>1. e.type # "CPU-005" \/ e.needs # {"context switches"}
  BY FactsAre DEF Snapshot, Holds
<1>2. PICK i \in 1 .. 31 : Matches(Turn(i), Rules[i], e)
  BY <1>1, EntryIsPlaced DEF Placed
<1>3. Turn(i) \in 1 .. 5 /\ Rank(e) = Turn(i)
  BY <1>2, RankIs DEF Matches, Turn
<1>4. Holds(Rules[i], s)
  BY <1>2 DEF Matches, Found, Sure, Holds, Snapshot
<1> QED BY <1>3, <1>4 DEF Hits

\* The severity that an incident of a registered type is given.
Raised(e, s) == IF e.type = "CTL-001" /\ "etcd > 100" \in s THEN "P0" ELSE e.severity

\* The incident that a rule gives is the one registered, and present but for
\* the two exceptions.
LEMMA TheIncident ==
  ASSUME NEW s, NEW i \in 1 .. 31, Holds(Rules[i], s)
  PROVE  \E e \in Registry :
           /\ buildIncident(Rules[i].type, s) =
                [type |-> e.type, severity |-> Raised(e, s), auto |-> e.auto]
           /\ e.type = Rules[i].type /\ Rank(e) = Turn(i)
           /\ e.type \notin {"MEM-006", "APP-003"} => Holds(e, s)
<1> DEFINE e == CHOOSE d \in Registry : d.type = Rules[i].type
<1>1. e \in Registry /\ e.type = Rules[i].type
  BY RuleIsListed DEF Listed, Matches
<1>2. buildIncident(Rules[i].type, s) =
        [type |-> e.type, severity |-> Raised(e, s), auto |-> e.auto]
  BY <1>1 DEF buildIncident, Raised
<1> HIDE DEF e
<1>3. Placed(e)
  BY <1>1, EntryIsPlaced, TypesApart
<1>4. Matches(Turn(i), Rules[i], e)
  BY <1>1, <1>3, TypesApart DEF Placed, Matches
<1>5. Rank(e) = Turn(i)
  BY <1>4, RankIs DEF Matches, Turn
<1>6. e.type \notin {"MEM-006", "APP-003"} => Holds(e, s)
  BY <1>4 DEF Matches, Meant, Holds
<1> QED BY <1>1, <1>2, <1>5, <1>6

\* What Classify returns is as registered: the rule it takes is the first
\* that applies, so no other family comes before.
LEMMA ClassifyIsRegistered ==
  ASSUME Snapshot(facts), incident = Classify(facts)
  PROVE  ClassifiedAsRegistered
<1> DEFINE loose == {e \in Registry : e.type \in {"MEM-006", "APP-003"}}
           sure == {e \in Present : e.type # "CPU-001"} \ loose
<1>1. \A e \in sure : \E i \in Hits(facts) : Rank(e) = Turn(i)
  BY RegisteredIsHit DEF Present
<1>2. Hits(facts) = {i \in DOMAIN Rules : Holds(Rules[i], facts)}
  BY RulesAre DEF Hits
<1>3. CASE Hits(facts) = {}
  <2>1. incident = None /\ sure = {}
    BY <1>1, <1>2, <1>3 DEF Classify
  <2> QED BY <2>1 DEF ClassifiedAsRegistered
<1>4. CASE Hits(facts) # {}
  <2> DEFINE i == Min(Hits(facts))
  <2>1. i \in Hits(facts) /\ \A j \in Hits(facts) : i <= j
    <3>1. Hits(facts) \subseteq Nat
      BY DEF Hits
    <3> QED BY <1>4, <3>1, MinIsLeast, Zenon
  <2>2. incident = buildIncident(Rules[i].type, facts)
    BY <1>2, <1>4 DEF Classify
  <2> HIDE DEF i
  <2>3. i \in 1 .. 31 /\ Holds(Rules[i], facts)
    BY <2>1 DEF Hits
  <2>4. PICK e \in Registry :
          /\ incident =
               [type |-> e.type, severity |-> Raised(e, facts), auto |-> e.auto]
          /\ e.type = Rules[i].type /\ Rank(e) = Turn(i)
          /\ e.type \notin {"MEM-006", "APP-003"} => Holds(e, facts)
    BY <2>2, <2>3, TheIncident, Zenon
  <2>5. incident # None
    <3>1. incident.type # "none" /\ None.type = "none"
      BY <2>3, <2>4, TypesApart DEF None
    <3> QED BY <3>1
  <2>6. \A other \in sure : Rank(e) <= Rank(other)
    <3>1. \A j \in Hits(facts) : Turn(i) <= Turn(j)
      BY <2>1 DEF Turn, Hits
    <3> QED BY <1>1, <2>4, <3>1
  <2>7. e \in Present \cup loose
    BY <2>4 DEF Present
  <2>8. /\ incident.type = e.type
        /\ incident.severity = IF "etcd > 100" \in facts /\ e.type = "CTL-001"
                               THEN "P0" ELSE e.severity
    <3>1. incident.type = e.type /\ incident.severity = Raised(e, facts)
      BY <2>4
    <3> QED BY <3>1 DEF Raised
  <2> QED BY <2>5, <2>6, <2>7, <2>8 DEF ClassifiedAsRegistered
<1> QED BY <1>3, <1>4

\* What follows from a fact, and that a network call excludes none.
LEMMA FactsThatFollow ==
  /\ \A f : /\ f \in Implied(f)
            /\ Implied(f) \subseteq {f, "etcd > 10", "rss > 5", "network call"}
  /\ "network call" \in Implied("network failed")
  /\ Implied("network call") = {"network call"}
  /\ \A f : "network call" \notin Rivals(f)
<1>1. ASSUME NEW f, "network call" \in Rivals(f) PROVE FALSE
  <2>1. PICK X \in {ExitCodes, {"oom kernel", "oom cgroup"}} : "network call" \in X
    BY <1>1, Zenon DEF Rivals
  <2>2. X = ExitCodes \/ X = {"oom kernel", "oom cgroup"}
    BY Zenon
  <2>3. "network call" \notin ExitCodes /\ "network call" \notin {"oom kernel", "oom cgroup"}
    BY DEF ExitCodes
  <2> QED BY <2>1, <2>2, <2>3, Zenon
<1> QED BY <1>1 DEF Implied

\* Classify returns no incident or one with fields of the registry.
LEMMA ClassifyHasType ==
  ASSUME NEW s, s \subseteq Facts
  PROVE  Classify(s) \in {None} \cup
           [type : {e.type : e \in Registry}, severity : {"P0", "P1", "P2", "P3"},
            auto : BOOLEAN]
<1>1. Hits(s) = {i \in DOMAIN Rules : Holds(Rules[i], s)}
  BY RulesAre DEF Hits
<1>2. CASE Hits(s) = {}
  BY <1>1, <1>2 DEF Classify
<1>3. CASE Hits(s) # {}
  <2> DEFINE i == Min(Hits(s))
  <2>1. i \in Hits(s)
    <3>1. Hits(s) \subseteq Nat
      BY DEF Hits
    <3> QED BY <1>3, <3>1, MinIsLeast, Zenon
  <2>2. Classify(s) = buildIncident(Rules[i].type, s)
    BY <1>1, <1>3 DEF Classify
  <2> HIDE DEF i
  <2>3. i \in 1 .. 31 /\ Holds(Rules[i], s)
    BY <2>1 DEF Hits
  <2>4. PICK e \in Registry :
          buildIncident(Rules[i].type, s) =
            [type |-> e.type, severity |-> Raised(e, s), auto |-> e.auto]
    BY <2>3, TheIncident, Zenon
  <2>5. Raised(e, s) \in {"P0", "P1", "P2", "P3"} /\ e.auto \in BOOLEAN
    BY EntriesAreProper DEF Proper, Raised
  <2>6. e.type \in {d.type : d \in Registry}
    OBVIOUS
  <2> QED BY <2>2, <2>4, <2>5, <2>6
<1> QED BY <1>2, <1>3

\* The inductive invariant: the snapshot can be taken, and the incident is
\* that of the latest call.
ClassifierInv ==
  /\ Snapshot(facts)
  /\ incident = Classify(facts) \/ (facts = {} /\ incident = None)

\* The invariant, for any bound on the facts of a snapshot.
THEOREM ClassifierInvariant == ClassifierSpec => []ClassifierInv
<1>1. ClassifierInit => ClassifierInv
  BY DEF ClassifierInit, ClassifierInv, Snapshot
<1>2. ClassifierInv /\ [ClassifierNext]_typeVars => ClassifierInv'
  <2> SUFFICES ASSUME ClassifierInv, [ClassifierNext]_typeVars PROVE ClassifierInv'
    OBVIOUS
  <2>1. ASSUME NEW f \in Facts, Observe(f) PROVE ClassifierInv'
    <3>1. Implied(f) \subseteq Facts
      <4>1. Implied(f) \subseteq {f, "etcd > 10", "rss > 5", "network call"}
        BY FactsThatFollow
      <4> QED BY <4>1, FactsAre
    <3>2. Snapshot(facts')
      BY <2>1, <3>1, FactsThatFollow DEF Observe, Snapshot, ClassifierInv
    <3> QED BY <2>1, <3>2 DEF Observe, ClassifierInv
  <2>2. ASSUME NEW f \in facts, Clear(f) PROVE ClassifierInv'
    <3>1. Snapshot(facts')
      BY <2>2, FactsThatFollow DEF Clear, Snapshot, ClassifierInv
    <3> QED BY <2>2, <3>1 DEF Clear, ClassifierInv
  <2>3. CASE UNCHANGED typeVars
    BY <2>3 DEF typeVars, ClassifierInv
  <2> QED BY <2>1, <2>2, <2>3 DEF ClassifierNext
<1> QED BY <1>1, <1>2, PTL DEF ClassifierSpec

\* Classify never returns a type, severity or flag that is not registered.
THEOREM ClassifierTypeCorrect == ClassifierSpec => []ClassifierTypeOK
<1>1. ClassifierInv => ClassifierTypeOK
  <2>1. ClassifierInv => facts \subseteq Facts
    BY DEF ClassifierInv, Snapshot
  <2> QED BY <2>1, ClassifyHasType DEF ClassifierInv, ClassifierTypeOK
<1> QED BY <1>1, ClassifierInvariant, PTL

\* What the rules of classifier.go return agrees with the registry of
\* incident_types.go, which it shares no condition with, for any snapshot.
THEOREM TypesStayRegistered == ClassifierSpec => []ClassifiedAsRegistered
<1>1. ClassifierInv => ClassifiedAsRegistered
  <2>1. ASSUME facts = {}, incident = None PROVE ClassifiedAsRegistered
    <3>1. Present = {}
      BY <2>1, EntriesAreProper DEF Present, Holds, Proper
    <3> QED BY <2>1, <3>1 DEF ClassifiedAsRegistered
  <2> QED BY <2>1, ClassifyIsRegistered DEF ClassifierInv
<1> QED BY <1>1, ClassifierInvariant, PTL
-----------------------------------------------------------------------------
(***************************************************************************)
(* The parts of the collector together.                                    *)
(***************************************************************************)

\* A behaviour of the parts together is one of each: a step of one part leaves
\* the state of the others alone.
LEMMA PartsAreTheirOwn ==
  PartsSpec => Spec /\ NoisySpec /\ ErrorSpec /\ ClassifierSpec /\ TraceSpec
<1>1. PartsInit => Init /\ NoisyInit /\ ErrorInit /\ ClassifierInit /\ TraceInit
  BY DEF PartsInit
<1>2. [LatencyStep(Next) \/ OtherStep]_allVars =>
        /\ [Next]_vars /\ [NoisyNext]_noisyVars /\ [ErrorNext]_errorVars
        /\ [ClassifierNext]_typeVars /\ [TraceNext]_traceVars
  BY DEF LatencyStep, OtherStep, allVars
<1> QED
  BY <1>1, <1>2, PTL DEF PartsSpec, Spec, NoisySpec, ErrorSpec, ClassifierSpec, TraceSpec

\* The types of all parts of the collector together.
THEOREM PartsKeepTheirTypes == PartsSpec => []PartsTypeOK
<1>1. TypeOK /\ NoisyTypeOK /\ ErrorTypeOK /\ ClassifierTypeOK /\ TraceTypeOK => PartsTypeOK
  BY DEF PartsTypeOK
<1> QED
  BY <1>1, PartsAreTheirOwn, LatencyTypeCorrect, NoisyTypeCorrect, ErrorTypeCorrect,
     ClassifierTypeCorrect, TraceTypeCorrect, PTL

\* What each part of the collector promises, of all together: the baseline is
\* the window and alarms are spikes, reports stand out, rates are judged by
\* the others, incidents are classified as registered, answers of the trace
\* store are of one moment.
THEOREM PartsKeepTheirPromises ==
  PartsSpec => [](/\ BaselineIsTheWindow /\ AlarmsAreSpikes /\ ReportsStandOut
                  /\ RateIsJudgedByTheOthers /\ ClassifiedAsRegistered /\ AnswerIsOneMoment)
BY PartsAreTheirOwn, BaselineStaysTheWindow, AlarmsStaySpikes, ReportsAlwaysStandOut,
   RatesAreJudgedByTheOthers, TypesStayRegistered, AnswersAreOneMoment, PTL
=============================================================================
