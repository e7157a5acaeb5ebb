---------------------------- MODULE NoisyNeighbor ----------------------------
(***************************************************************************)
(* The noisy-neighbour detector of internal/collector/anomaly/engine.go    *)
(* for one node: the latest syscall rate of every pod ever seen on it, and *)
(* how many observations of a pod in a row were above mean + Sigma times   *)
(* the standard deviation of these rates.                                  *)
(*                                                                         *)
(* Rates are integers, and the comparison is multiplied by the number of   *)
(* pods and squared, which removes the root.  Observations are counted, as *)
(* the code does, whatever the time between them.                          *)
(***************************************************************************)
EXTENDS Integers, FiniteSets, Functions

CONSTANTS Pods, Rates,
          Sigma,    \* noisyNeighborSigma
          Needed,   \* observations in a row that make an anomaly (6)
          Absent,   \* no rate: the pod was never seen
          NoPod

ASSUME NoisyAssumption ==
  /\ Rates \subseteq Nat /\ Absent \notin Rates
  /\ NoPod \notin Pods
  /\ Sigma \in Nat /\ Needed \in Nat \ {0}

VARIABLES
  rates,                 \* NodeSyscallStats.rates
  noisyNeighborWindows,  \* which counts on beyond Needed
  noisy,                 \* the pod the latest step reported, or NoPod
  stood                  \* ghost: for how many observations in a row, up to
                         \* Needed, a pod has stood out from the others

noisyVars == <<rates, noisyNeighborWindows, noisy, stood>>

NoisyTypeOK ==
  /\ rates \in [Pods -> Rates \cup {Absent}]
  /\ noisyNeighborWindows \in [Pods -> 0 .. Needed]
  /\ noisy \in Pods \cup {NoPod}
  /\ stood \in [Pods -> 0 .. Needed]

Known == {p \in Pods : rates[p] # Absent}

NoisyInit ==
  /\ rates = [p \in Pods |-> Absent]
  /\ noisyNeighborWindows = [p \in Pods |-> 0]
  /\ noisy = NoPod
  /\ stood = [p \in Pods |-> 0]

\* MeanAndStdDev and the threshold: whether `rate' exceeds that of the pods
\* `on', whose rates are f.  With n rates of sum s and sum of squares q, the
\* mean is s / n and the variance (n q - s^2) / n^2.
AboveThreshold(rate, f, on) ==
  LET n == Cardinality(on)
      s == SumFunctionOnSet(f, on)
      q == SumFunctionOnSet([p \in on |-> f[p] * f[p]], on)
      excess == n * rate - s
  IN  excess > 0 /\ excess * excess > Sigma * Sigma * (n * q - s * s)

\* Whether an observation is above the threshold of the node, of which it is
\* a part by then.
TooLoud(p, rate) ==
  AboveThreshold(rate, [rates EXCEPT ![p] = rate], Known \cup {p})

\* Whether it is above the threshold that the other pods make.
StandsOut(p, rate) == AboveThreshold(rate, rates, Known \ {p})

OneMore(n) == IF n < Needed THEN n + 1 ELSE n

\* The observations of a pod in a row above the threshold.  Mutant: one that is
\* not does not begin again.
InARow_KeptWhenQuiet(p, rate) ==
  LET w == noisyNeighborWindows[p]
  IN  IF TooLoud(p, rate) THEN OneMore(w) ELSE w
InARow(p, rate) ==
  IF TooLoud(p, rate) THEN OneMore(noisyNeighborWindows[p]) ELSE 0

RecordSyscallRate(p, rate) ==
  /\ rates' = [rates EXCEPT ![p] = rate]
  /\ noisyNeighborWindows' = [noisyNeighborWindows EXCEPT ![p] = InARow(p, rate)]
  /\ noisy' = IF noisyNeighborWindows'[p] = Needed /\ TooLoud(p, rate) THEN p ELSE NoPod
  /\ stood' = [stood EXCEPT ![p] = IF StandsOut(p, rate) THEN OneMore(@) ELSE 0]

NoisyNext == \E p \in Pods, rate \in Rates : RecordSyscallRate(p, rate)

NoisySpec == NoisyInit /\ [][NoisyNext]_noisyVars
-----------------------------------------------------------------------------
\* No pod is reported for what its neighbours do, or for a passing peak: a pod
\* is reported only if each of its last Needed observations exceeded the mean
\* of the other pods of the node, as they were then, by Sigma of their own
\* deviations, though RecordSyscallRate compares it with a mean and a deviation
\* that it takes part in.  The converse is not so: this deviation may hide it
\* (FewPodsAreNotReported).
ReportsStandOut == noisy # NoPod => stood[noisy] = Needed
=============================================================================
