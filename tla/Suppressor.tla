----------------------------- MODULE Suppressor -----------------------------
(***************************************************************************)
(* The alert suppressor of internal/escalation/suppressor.go: which of the *)
(* incidents are not worth waking anybody for.                             *)
(*                                                                         *)
(* Deployments, maintenance windows, new services and alerts are recorded  *)
(* with their time; ShouldSuppress compares these times with now.  The     *)
(* alerts are kept twice, for the cascade rule and, by service and code,   *)
(* for the flapping rule, and each copy is trimmed as it is written.       *)
(*                                                                         *)
(* A time stamp is its age in ticks; ages stop at Hour, the longest window *)
(* of the code.  An alert is the position of its record in `log', the list *)
(* of all alerts ever recorded, which the code does not keep.              *)
(***************************************************************************)
EXTENDS Naturals, Sequences, FiniteSets

CONSTANTS Services,
          Codes, AppCodes,   \* incident codes, and those that begin with "APP"
          MaxServices,       \* services that may alert without a cascade (3)
          MaxFires,          \* alerts of one incident that are no flapping (3)
          CascadeWindow,     \* 60 seconds, in ticks
          CascadeKept,       \* 2 minutes
          RolloutWindow,     \* 5 minutes
          LearningPeriod,    \* 30 minutes
          Hour,
          Maintenance,       \* the lengths of maintenance windows
          MaxCalls           \* calls of the recording methods (model bound)

Severity == {"P0", "P1", "P2", "P3", "P4"}
Incident == [service : Services, code : Codes, severity : Severity]
Age == 0 .. Hour
Never == Hour + 1

ASSUME SuppressorAssumption ==
  /\ AppCodes \subseteq Codes
  /\ {MaxServices, MaxFires, MaxCalls} \subseteq Nat
  /\ {CascadeWindow, CascadeKept, RolloutWindow, LearningPeriod, Hour} \subseteq Nat \ {0}
  /\ CascadeWindow <= CascadeKept
  /\ {CascadeKept, RolloutWindow, LearningPeriod} \subseteq Age
  /\ Maintenance \subseteq Nat

VARIABLES
  activeRollouts,    \* time since the rollout of each service, or Never
  maintenanceUntil,  \* time until the end of its maintenance window
  recentAlerts,      \* the alerts kept for the cascade rule
  flapHistory,       \* those kept for the flapping rule, by service and code
  serviceFirstSeen,  \* time since each service was registered, or Never
  log,               \* every alert recorded
  calls

vars == <<activeRollouts, maintenanceUntil, recentAlerts, flapHistory,
          serviceFirstSeen, log, calls>>

Alert == [service : Services, code : Codes, age : Age]
Alerts == DOMAIN log

TypeOK ==
  /\ activeRollouts \in [Services -> Age \cup {Never}]
  /\ maintenanceUntil \in [Services -> Nat]
  /\ log \in Seq(Alert)
  /\ recentAlerts \subseteq Alerts
  /\ flapHistory \in [Services \X Codes -> SUBSET Alerts]
  /\ serviceFirstSeen \in [Services -> Age \cup {Never}]
  /\ calls \in 0 .. MaxCalls
-----------------------------------------------------------------------------
(***************************************************************************)
(* The rules of ShouldSuppress, for the alerts `recent' and the earlier    *)
(* alerts of the incident, `fires'.                                        *)
(***************************************************************************)

Routine(i) == i.severity \in {"P2", "P3"}

DeploymentWindow(i) ==
  i.code \in AppCodes /\ activeRollouts[i.service] < RolloutWindow

\* Mutant: the severity is not looked at.
KnownMaintenance_Always(i) == maintenanceUntil[i.service] > 0
KnownMaintenance(i) == Routine(i) /\ maintenanceUntil[i.service] > 0

Cascade(recent) ==
  Cardinality({log[k].service : k \in {k \in recent : log[k].age < CascadeWindow}}) > MaxServices

\* Mutant: fires of any age count.
Flapping_ForEver(fires) == Cardinality(fires) > MaxFires
Flapping(fires) == Cardinality({k \in fires : log[k].age < Hour}) > MaxFires

Learning(s) == serviceFirstSeen[s] < LearningPeriod

Decide(i, recent, fires) ==
  \/ DeploymentWindow(i)
  \/ KnownMaintenance(i)
  \/ Cascade(recent)
  \/ Flapping(fires)
  \/ Routine(i) /\ Learning(i.service)

\* Mutant: the history is kept by code, whatever the service.
ShouldSuppress_ByCode(i) ==
  Decide(i, recentAlerts, UNION {flapHistory[<<s, i.code>>] : s \in Services})
ShouldSuppress(i) == Decide(i, recentAlerts, flapHistory[<<i.service, i.code>>])
-----------------------------------------------------------------------------
Init ==
  /\ activeRollouts = [s \in Services |-> Never]
  /\ maintenanceUntil = [s \in Services |-> 0]
  /\ recentAlerts = {}
  /\ flapHistory = [k \in Services \X Codes |-> {}]
  /\ serviceFirstSeen = [s \in Services |-> Never]
  /\ log = <<>>
  /\ calls = 0

Called == calls < MaxCalls /\ calls' = calls + 1

RecordRollout(s) ==
  /\ Called
  /\ activeRollouts' = [activeRollouts EXCEPT ![s] = 0]
  /\ UNCHANGED <<maintenanceUntil, recentAlerts, flapHistory,
                 serviceFirstSeen, log>>

SetMaintenance(s, length) ==
  /\ Called
  /\ maintenanceUntil' = [maintenanceUntil EXCEPT ![s] = length]
  /\ UNCHANGED <<activeRollouts, recentAlerts, flapHistory, serviceFirstSeen,
                 log>>

\* What RecordAlert keeps of the earlier alerts.  Mutant: too little.
StillRecent_TooFew(k) == log[k].age < CascadeWindow - 1
StillRecent(k) == log[k].age < CascadeKept
StillInHour(k) == log[k].age < Hour

RecordAlert(s, c) ==
  /\ Called
  /\ log' = Append(log, [service |-> s, code |-> c, age |-> 0])
  /\ LET new == Len(log) + 1 IN
     /\ recentAlerts' = {k \in recentAlerts : StillRecent(k)} \cup {new}
     /\ flapHistory' = [flapHistory EXCEPT
                          ![<<s, c>>] = {k \in @ : StillInHour(k)} \cup {new}]
  /\ UNCHANGED <<activeRollouts, maintenanceUntil, serviceFirstSeen>>

RegisterService(s) ==
  /\ Called
  /\ serviceFirstSeen' = [serviceFirstSeen EXCEPT ![s] = IF @ = Never THEN 0 ELSE @]
  /\ UNCHANGED <<activeRollouts, maintenanceUntil, recentAlerts, flapHistory,
                 log>>

Older(n) == IF n < Hour THEN n + 1 ELSE n
Nearer(n) == IF n > 0 THEN n - 1 ELSE n

Tick ==
  /\ activeRollouts' = [s \in Services |-> Older(activeRollouts[s])]
  /\ serviceFirstSeen' = [s \in Services |-> Older(serviceFirstSeen[s])]
  /\ maintenanceUntil' = [s \in Services |-> Nearer(maintenanceUntil[s])]
  /\ log' = [k \in Alerts |-> [log[k] EXCEPT !.age = Older(@)]]
  /\ UNCHANGED <<recentAlerts, flapHistory, calls>>

Next ==
  \/ \E s \in Services : RecordRollout(s) \/ RegisterService(s)
  \/ \E s \in Services, n \in Maintenance : SetMaintenance(s, n)
  \/ \E s \in Services, c \in Codes : RecordAlert(s, c)
  \/ Tick

Spec == Init /\ [][Next]_vars

\* Time passes; nothing need be recorded.
FairSpec == Spec /\ WF_vars(Tick)
-----------------------------------------------------------------------------
\* Trimming never changes a decision: ShouldSuppress decides as it would with
\* every alert ever recorded, whenever each copy was last trimmed.
TrimmingIsInvisible ==
  \A i \in Incident :
    ShouldSuppress(i) <=>
      Decide(i, Alerts, {k \in Alerts : log[k].service = i.service /\ log[k].code = i.code})

\* "P0/P1 still fire" (rule 2): an urgent incident of a service is silenced
\* by a rollout, a cascade or its own flapping, whatever else was recorded.
UrgentStillFires ==
  \A i \in Incident : i.severity \in {"P0", "P1"} /\ ShouldSuppress(i) =>
    \/ i.code \in AppCodes /\ activeRollouts[i.service] # Never
    \/ Cardinality({log[k].service : k \in Alerts}) > MaxServices
    \/ Cardinality({k \in Alerts : log[k].service = i.service /\ log[k].code = i.code}) > MaxFires

\* What was recorded that concerns an incident alone.
OfOwn(i) == <<activeRollouts[i.service], maintenanceUntil[i.service],
              serviceFirstSeen[i.service], flapHistory[<<i.service, i.code>>]>>

\* "Same incident" (rule 4), "new services" (rule 6): an incident is silenced
\* by a record of its own service and code, or by one that makes a cascade of
\* several services, and never by what others do, by time that passes or by a
\* window of another rule that ends.
SilenceHasACause ==
  [][\A i \in Incident : ~ShouldSuppress(i) /\ ShouldSuppress(i)' =>
       /\ calls' # calls
       /\ OfOwn(i)' # OfOwn(i) \/ Cascade(recentAlerts)']_vars

\* No silence lasts: when nothing more is recorded, every incident fires
\* again.
SilenceEnds == <>[](\A i \in Incident : ~ShouldSuppress(i))
=============================================================================
