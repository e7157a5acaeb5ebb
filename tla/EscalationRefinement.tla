------------------------ MODULE EscalationRefinement ------------------------
(***************************************************************************)
(* The escalation engine implements the abstract incident lifecycle.       *)
(***************************************************************************)
EXTENDS Escalation

\* An incident's phase, seen through the engine's ten states.
PhaseOf(r) ==
  IF r \notin created THEN "unborn"
  ELSE IF state[r] \in Automated THEN "automated"
  ELSE IF state[r] \in HumanOwned THEN "human"
  ELSE "closed"

Lifecycle == INSTANCE IncidentLifecycle
  WITH Incidents <- Refs, phase <- [r \in Refs |-> PhaseOf(r)]

\* Transition and CheckTimeouts move incidents only as the lifecycle allows:
\* from the automation to a human to closed, never back, with one page each
\* time an incident is put in a human's hands.
RefinesLifecycle == Lifecycle!Spec

\* Under the fairness of the sweep no incident stays with the automation:
\* whatever the pipeline fails to do, it reaches a human or is closed.
AutomationGivesWay == Lifecycle!Progress
=============================================================================
