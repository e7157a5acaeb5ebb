----------------------------- MODULE MCCollector -----------------------------
(***************************************************************************)
(* The parts of the collector, for TLC: the three detectors of the anomaly *)
(* engine, which share its mutex and no state, the classifier, which has   *)
(* none, and the trace store.  None calls another, so that their           *)
(* interleavings show nothing: a behaviour is one of a single part.        *)
(***************************************************************************)
EXTENDS LatencyAnomaly, NoisyNeighbor, ErrorRate, Classifier, TraceStore

VARIABLE part

allVars == <<vars, noisyVars, errorVars, typeVars, traceVars, part>>

PartsInit ==
  /\ part \in {"latency", "noisy", "errors", "types", "traces"}
  /\ Init /\ NoisyInit /\ ErrorInit /\ ClassifierInit /\ TraceInit

LatencyStep(A) ==
  /\ part = "latency" /\ A
  /\ UNCHANGED <<noisyVars, errorVars, typeVars, traceVars, part>>

OtherStep ==
  /\ UNCHANGED <<vars, part>>
  /\ \/ /\ part = "noisy" /\ NoisyNext
        /\ UNCHANGED <<errorVars, typeVars, traceVars>>
     \/ /\ part = "errors" /\ ErrorNext
        /\ UNCHANGED <<noisyVars, typeVars, traceVars>>
     \/ /\ part = "types" /\ ClassifierNext
        /\ UNCHANGED <<noisyVars, errorVars, traceVars>>
     \/ /\ part = "traces" /\ TraceNext
        /\ UNCHANGED <<noisyVars, errorVars, typeVars>>

\* Fairness: the clock of the latency detector goes on.
PartsSpec ==
  /\ PartsInit
  /\ [][LatencyStep(Next) \/ OtherStep]_allVars
  /\ WF_allVars(LatencyStep(Tick))

\* The state of every part has its type.
PartsTypeOK ==
  /\ TypeOK /\ NoisyTypeOK /\ ErrorTypeOK /\ ClassifierTypeOK /\ TraceTypeOK
=============================================================================
