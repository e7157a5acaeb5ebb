---------------------------- MODULE MCEscalation ----------------------------
(***************************************************************************)
(* Instances of Escalation for TLC.                                        *)
(***************************************************************************)
EXTENDS EscalationRefinement

\* Minutes become one or two ticks: only the order of an incident's own
\* deadlines matters, and every interleaving of ticks and sweeps is explored.
MCTimeout ==
  [s \in TimedStates |-> IF s \in {"CLASSIFYING", "MONITORING_EFFECT"} THEN 2 ELSE 1]
=============================================================================
