--------------------------- MODULE LatencyAnomaly ---------------------------
(***************************************************************************)
(* The latency detector of internal/collector/anomaly/engine.go for one    *)
(* service (the engine keeps a map of them, and no entry touches another), *)
(* with its RollingPercentile: a ring of buckets that is turned when it is *)
(* used, by as many buckets as intervals have passed since it last was.    *)
(*                                                                         *)
(* Every method holds the engine's mutex.  A time stamp is its age in      *)
(* ticks; firstSeen and lastTick stop at Window and the ages of samples at *)
(* Oldest.  A sample is its position in `log', the list of all samples     *)
(* ever recorded, which the code does not keep.                            *)
(***************************************************************************)
EXTENDS Naturals, Sequences, FiniteSets

CONSTANTS Latencies,   \* latencies, observed or reported as a p99
          Factor,      \* latencyAnomalyFactor
          NumBuckets,  \* buckets of a RollingPercentile
          Interval,    \* the time each stands for, in ticks
          MaxSamples   \* bound on the samples ever recorded

ASSUME LatencyAssumption ==
  /\ Latencies \subseteq Nat
  /\ {Factor, NumBuckets, Interval} \subseteq Nat \ {0}
  /\ MaxSamples \in Nat

Window == NumBuckets * Interval   \* latencyBaselineWindow
Oldest == 2 * Window
Never == Window + 1

Bucket == 0 .. NumBuckets - 1

VARIABLES
  firstSeen,  \* time since the service was seen first, or Never
  buckets,    \* RollingPercentile
  current,
  lastTick,   \* time since lastTick
  windows,    \* latencyAnomalyWindows, which counts on beyond 2
  alarm,      \* the Value of the anomaly the latest step emitted, or 0
  log         \* the samples

vars == <<firstSeen, buckets, current, lastTick, windows, alarm, log>>

Sample == [value : Latencies, age : 0 .. Oldest]
Samples == DOMAIN log

TypeOK ==
  /\ firstSeen \in 0 .. Never
  /\ log \in Seq(Sample) /\ Len(log) <= MaxSamples
  /\ buckets \in [Bucket -> SUBSET Samples]
  /\ current \in Bucket
  /\ lastTick \in 0 .. Window
  /\ windows \in 0 .. 2
  /\ alarm \in Latencies \cup {0}
-----------------------------------------------------------------------------
(***************************************************************************)
(* RollingPercentile.                                                      *)
(***************************************************************************)

\* The buckets that advance turns to.  Mutants: one more, for the remainder;
\* one at most.
Ticks_RoundedUp == (lastTick + Interval - 1) \div Interval
Ticks_OneAtMost == IF lastTick >= Interval THEN 1 ELSE 0
Ticks == lastTick \div Interval

\* advance: it empties each bucket it turns to, and forgets the part of an
\* interval that is left over.
Turned == {(current + i) % NumBuckets : i \in 1 .. Ticks}
Advanced == [b \in Bucket |-> IF b \in Turned THEN {} ELSE buckets[b]]

\* Mutant: the ring is not closed.
Current_Open == current + Ticks
Current == (current + Ticks) % NumBuckets

\* Mutant: every use restarts the interval.
LastTick_Always == 0
LastTick == IF Ticks > 0 THEN 0 ELSE lastTick

Kept == UNION {Advanced[b] : b \in Bucket}

\* The value at index int(0.99 n) of the n sorted values, from 0.
P99(S) ==
  LET index == (99 * Cardinality(S)) \div 100
  IN  CHOOSE v \in Latencies :
        /\ Cardinality({k \in S : log[k].value < v}) <= index
        /\ Cardinality({k \in S : log[k].value <= v}) > index

Baseline == IF Kept = {} THEN 0 ELSE P99(Kept)
-----------------------------------------------------------------------------
Init ==
  /\ firstSeen = Never
  /\ buckets = [b \in Bucket |-> {}]
  /\ current = 0 /\ lastTick = 0
  /\ windows = 0 /\ alarm = 0
  /\ log = <<>>

RecordLatency(latency) ==
  /\ Len(log) < MaxSamples
  /\ firstSeen' = IF firstSeen = Never THEN 0 ELSE firstSeen
  /\ log' = Append(log, [value |-> latency, age |-> 0])
  /\ buckets' = [Advanced EXCEPT ![Current] = @ \cup {Len(log) + 1}]
  /\ current' = Current
  /\ lastTick' = LastTick
  /\ alarm' = 0
  /\ UNCHANGED windows

\* Mutant: the learning period is not observed.
Learning_Never == FALSE
Learning == firstSeen < Window

\* CheckLatencyAnomaly before there is a baseline.
CheckTooEarly ==
  /\ Learning \/ firstSeen = Never
  /\ alarm' = 0
  /\ UNCHANGED <<firstSeen, buckets, current, lastTick, windows, log>>

\* CheckLatencyAnomaly.  An empty baseline neither counts nor resets.
CheckLatencyAnomaly(currentP99) ==
  /\ firstSeen # Never /\ ~Learning
  /\ windows' = CASE Baseline = 0 -> windows
                  [] Baseline > 0 /\ currentP99 > Factor * Baseline ->
                       IF windows < 2 THEN windows + 1 ELSE windows
                  [] OTHER -> 0
  /\ alarm' = IF /\ Baseline > 0 /\ currentP99 > Factor * Baseline
                 /\ windows' = 2
              THEN currentP99 ELSE 0
  /\ buckets' = Advanced
  /\ current' = Current
  /\ lastTick' = LastTick
  /\ UNCHANGED <<firstSeen, log>>

UpTo(bound, n) == IF n < bound THEN n + 1 ELSE n

Tick ==
  /\ firstSeen' = UpTo(Window, firstSeen)
  /\ lastTick' = IF firstSeen = Never THEN lastTick ELSE UpTo(Window, lastTick)
  /\ log' = [k \in Samples |-> [log[k] EXCEPT !.age = UpTo(Oldest, @)]]
  /\ alarm' = 0
  /\ UNCHANGED <<buckets, current, windows>>

Next ==
  \/ \E v \in Latencies : RecordLatency(v) \/ CheckLatencyAnomaly(v)
  \/ CheckTooEarly
  \/ Tick

Spec == Init /\ [][Next]_vars

\* Time passes; nothing need be recorded or checked.
FairSpec == Spec /\ WF_vars(Tick)
-----------------------------------------------------------------------------
Fresh == {k \in Samples : log[k].age <= Window - Interval}

\* The baseline is the window, as far as the ring can tell: whenever it was
\* used last, P99 reads every sample that is younger than the window by an
\* interval, and none that is twice as old as the window (advance, Add, P99).
BaselineIsTheWindow ==
  /\ Fresh \subseteq Kept
  /\ \A k \in Kept : log[k].age < Oldest

\* No false alarm: a service in its learning period raises none, and a value
\* that is reported exceeds Factor times every fresh sample, as long as the
\* 99th percentile of so few samples is their maximum.
AlarmsAreSpikes ==
  alarm > 0 =>
    /\ firstSeen = Window
    /\ Len(log) <= 100 => \A k \in Fresh : alarm > Factor * log[k].value

\* A service that is silent is forgotten: its baseline empties, however
\* often it is checked meanwhile.
BaselineExpires == <>[](Kept = {})
=============================================================================
