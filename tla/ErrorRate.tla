----------------------------- MODULE ErrorRate -----------------------------
(***************************************************************************)
(* The error-rate detector of internal/collector/anomaly/engine.go for one *)
(* service, with its RollingAverage: RecordErrorRate adds the observation  *)
(* to the average that it is then compared with, and reports in the same   *)
(* call, all under the engine's mutex.                                     *)
(*                                                                         *)
(* Rates are percentages, compared without division.  An observation has   *)
(* its age in ticks, which stops counting beyond the window.               *)
(***************************************************************************)
EXTENDS Naturals, Sequences, FiniteSetsExt, Functions

CONSTANTS Percents,      \* error rates that are observed
          ErrorWindow,   \* errorRateBaselineWindow, in ticks
          ThresholdPP,   \* errorRateThresholdPP
          AbsoluteMax,   \* errorRateAbsoluteMax
          MaxRates       \* bound on the observations ever made

ASSUME ErrorRateAssumption ==
  /\ Percents \subseteq Nat
  /\ {ErrorWindow, ThresholdPP, AbsoluteMax, MaxRates} \subseteq Nat

VARIABLES
  observed,   \* every observation ever made, oldest first
  first,      \* RollingAverage.values is observed from here on
  raised      \* the latest call reported an anomaly

errorVars == <<observed, first, raised>>

Expired == ErrorWindow + 1

ErrorTypeOK ==
  /\ observed \in Seq([rate : Percents, age : 0 .. Expired])
  /\ first \in 1 .. Len(observed) + 1
  /\ raised \in BOOLEAN

SumOf(obs, S) == SumFunctionOnSet([i \in DOMAIN obs |-> obs[i].rate], S)

\* prune: it drops from the front what is older than the window.  Mutant:
\* only the very oldest.
Pruned_OneAtMost(obs) ==
  IF first <= Len(obs) /\ obs[first].age > ErrorWindow THEN first + 1 ELSE first
Pruned(obs) ==
  Min({i \in first .. Len(obs) : obs[i].age <= ErrorWindow} \cup {Len(obs) + 1})

\* rate > Average + ThresholdPP, or above the absolute limit.
Spike(rate, obs, from) ==
  LET n == Len(obs) + 1 - from
      sum == SumOf(obs, from .. Len(obs))
  IN  \/ n * rate > sum + n * ThresholdPP
      \/ rate > AbsoluteMax

ErrorInit == observed = <<>> /\ first = 1 /\ raised = FALSE

RecordErrorRate(rate) ==
  /\ Len(observed) < MaxRates
  /\ observed' = Append(observed, [rate |-> rate, age |-> 0])
  /\ first' = Pruned(observed')
  /\ raised' = Spike(rate, observed', first')

ErrorTick ==
  /\ observed' = [i \in DOMAIN observed |->
       [observed[i] EXCEPT !.age = IF @ < Expired THEN @ + 1 ELSE @]]
  /\ raised' = FALSE
  /\ UNCHANGED first

ErrorNext == (\E rate \in Percents : RecordErrorRate(rate)) \/ ErrorTick

ErrorSpec == ErrorInit /\ [][ErrorNext]_errorVars
-----------------------------------------------------------------------------
\* Whatever has left the window, and whenever the average was pruned last, an
\* observation is judged by the others of the window alone: RecordErrorRate
\* reports only what exceeds their mean by the threshold or the absolute limit,
\* always what exceeds the limit, and always what exceeds their mean by twice
\* the threshold.  (In between it depends on how many they are, because the
\* observation is part of the mean that it is compared with.)
RateIsJudgedByTheOthers ==
  LET latest == Len(observed)
      others == {i \in 1 .. latest - 1 : observed[i].age <= ErrorWindow}
      n == Cardinality(others)
      rate == observed[latest].rate
      Exceeds(pp) == n > 0 /\ n * rate > SumOf(observed, others) + n * pp
  IN  latest > 0 /\ observed[latest].age = 0 =>
        /\ raised => rate > AbsoluteMax \/ Exceeds(ThresholdPP)
        /\ rate > AbsoluteMax \/ Exceeds(2 * ThresholdPP) => raised
=============================================================================
