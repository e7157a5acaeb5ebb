------------------------- MODULE IncidentLifecycle --------------------------
(***************************************************************************)
(* What the escalation engine promises about incidents, without saying how:*)
(* each is first in the hands of the automation, may then be put in the    *)
(* hands of a human, who may be paged again, and is closed at last.  It    *)
(* never moves the other way, a human is paged whenever an incident        *)
(* becomes theirs, and the automation does not keep an incident for ever.  *)
(* One step may move any number of incidents.                              *)
(***************************************************************************)
EXTENDS Naturals

CONSTANT Incidents

VARIABLES phase,  \* where each incident is in its life
          pages   \* how often a human was paged for it

lifecycle == <<phase, pages>>

Phase == {"unborn", "automated", "human", "closed"}

\* The moves of one incident and whether they page a human.
Stay(i)   == phase'[i] = phase[i] /\ pages'[i] = pages[i]
Detect(i) == phase[i] = "unborn" /\ phase'[i] = "automated" /\ pages'[i] = pages[i]
Page(i)   == /\ phase[i] \in {"automated", "human"}
             /\ phase'[i] = "human"
             /\ pages'[i] = pages[i] + 1
Close(i)  == /\ phase[i] \in {"automated", "human"}
             /\ phase'[i] = "closed"
             /\ pages'[i] = pages[i]

Init ==
  /\ phase = [i \in Incidents |-> "unborn"]
  /\ pages = [i \in Incidents |-> 0]

Next ==
  /\ phase' \in [Incidents -> Phase]
  /\ pages' \in [Incidents -> Nat]
  /\ \A i \in Incidents : Stay(i) \/ Detect(i) \/ Page(i) \/ Close(i)

Spec == Init /\ [][Next]_lifecycle

\* The automation gives every incident up.
Progress == \A i \in Incidents : phase[i] = "automated" ~> phase[i] # "automated"
=============================================================================
