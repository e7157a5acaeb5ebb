--------------------------- MODULE AlertingProofs ---------------------------
(***************************************************************************)
(* Theorems about the alerts: about Suppressor, for any services, codes,   *)
(* windows and limits, and about EmailDigest, for any incidents.           *)
(*                                                                         *)
(* Argument for the suppressor.  RecordAlert trims each copy of the alerts *)
(* at moments that have nothing to do with those of the decisions.  What   *)
(* makes trimming invisible is that it drops only what no window of        *)
(* ShouldSuppress will see again (DroppedAreOld): an age never falls, and  *)
(* the alerts are kept at least as long as they count.                     *)
(*                                                                         *)
(* A silence has a cause because every window closes as time passes        *)
(* (TickSilencesNobody), and a call changes only what it is about.         *)
(*                                                                         *)
(* Argument for the digest.  What a Send has read is the buffer, or was    *)
(* held while a flush cleared it (SeenIsBuffer); what a flush has read is  *)
(* still in the buffer, along with what it caught (BodyIsBuffered); and    *)
(* what is buffered or digested was accepted before (AcceptedFirst).       *)
(***************************************************************************)
EXTENDS MCAlerting, FiniteSetTheorems, SequenceTheorems, TLAPS
-----------------------------------------------------------------------------
(***************************************************************************)
(* The suppressor.                                                         *)
(***************************************************************************)

Own(s, c) == {k \in Alerts : log[k].service = s /\ log[k].code = c}

FlapsAreOwn == \A s \in Services, c \in Codes : flapHistory[<<s, c>>] \subseteq Own(s, c)

DroppedAreOld ==
  /\ \A k \in Alerts \ recentAlerts : log[k].age >= CascadeWindow
  /\ \A s \in Services, c \in Codes :
       \A k \in Own(s, c) \ flapHistory[<<s, c>>] : log[k].age = Hour

IInv == TypeOK /\ FlapsAreOwn /\ DroppedAreOld
-----------------------------------------------------------------------------
\* What a tick makes of an age: another age, which is not less.
LEMMA AgesGrow ==
  ASSUME NEW n \in Age
  PROVE  Older(n) \in Age /\ Older(n) >= n /\ (n = Hour => Older(n) = Hour)
BY SuppressorAssumption DEF Age, Older

\* The age of an alert that was recorded.
LEMMA AlertsHaveAges ==
  ASSUME TypeOK, NEW k \in Alerts
  PROVE  log[k] \in Alert /\ log[k].age \in Age
<1>1. k \in 1 .. Len(log) /\ log \in Seq(Alert)
  BY LenProperties DEF TypeOK, Alerts
<1>2. log[k] \in Alert
  BY <1>1, ElementOfSeq
<1> QED BY <1>2 DEF Alert

\* The log after RecordAlert: one alert more, and the others as they were.
LEMMA LogGrows ==
  ASSUME TypeOK, NEW s \in Services, NEW c \in Codes, RecordAlert(s, c)
  PROVE  /\ log' \in Seq(Alert)
         /\ Alerts = 1 .. Len(log) /\ Len(log) \in Nat
         /\ Alerts' = Alerts \cup {Len(log) + 1}
         /\ Len(log) + 1 \notin Alerts
         /\ \A k \in Alerts : log'[k] = log[k]
         /\ log'[Len(log) + 1] = [service |-> s, code |-> c, age |-> 0]
<1>1. [service |-> s, code |-> c, age |-> 0] \in Alert
  BY SuppressorAssumption DEF Alert, Age
<1>2. log \in Seq(Alert) /\ Len(log) \in Nat /\ Alerts = 1 .. Len(log)
  BY LenProperties DEF TypeOK, Alerts
<1>3. /\ log' \in Seq(Alert) /\ Len(log') = Len(log) + 1
      /\ \A k \in 1 .. Len(log) : log'[k] = log[k]
      /\ log'[Len(log) + 1] = [service |-> s, code |-> c, age |-> 0]
  BY <1>1, <1>2, AppendProperties DEF RecordAlert
<1>4. Alerts' = 1 .. Len(log) + 1
  BY <1>3, LenProperties DEF Alerts
<1> QED BY <1>2, <1>3, <1>4

\* The log after a tick: the same alerts, older.
LEMMA LogAges ==
  ASSUME TypeOK, Tick
  PROVE  /\ log' \in Seq(Alert)
         /\ Alerts' = Alerts
         /\ \A k \in Alerts :
              /\ log'[k].service = log[k].service
              /\ log'[k].code = log[k].code
              /\ log[k].age \in Age
              /\ log'[k].age = Older(log[k].age)
<1>1. Len(log) \in Nat /\ Alerts = 1 .. Len(log) /\ log \in [1 .. Len(log) -> Alert]
  BY LenProperties DEF TypeOK, Alerts
<1>2. \A k \in Alerts : /\ log[k].age \in Age
                        /\ [log[k] EXCEPT !.age = Older(@)] \in Alert
  BY <1>1, AgesGrow DEF Alert
<1>3. log' \in [1 .. Len(log) -> Alert]
  BY <1>1, <1>2 DEF Tick
<1>4. log' \in Seq(Alert)
  BY <1>1, <1>3, SeqDef
<1>5. \A k \in Alerts : log'[k] = [log[k] EXCEPT !.age = Older(@)]
  BY DEF Tick
<1>6. \A k \in Alerts : log[k] \in Alert
  BY <1>1
<1> QED BY <1>1, <1>2, <1>3, <1>4, <1>5, <1>6 DEF Alerts, Alert

\* Every variable keeps its type.
THEOREM SuppressorTypeCorrect == Spec => []TypeOK
<1> USE SuppressorAssumption
<1>1. Init => TypeOK
  BY EmptySeq DEF Init, TypeOK, Never
<1>2. TypeOK /\ [Next]_vars => TypeOK'
  <2> SUFFICES ASSUME TypeOK, [Next]_vars PROVE TypeOK'
    OBVIOUS
  <2>1. ASSUME NEW s \in Services, RecordRollout(s) PROVE TypeOK'
    BY <2>1 DEF RecordRollout, Called, TypeOK, Age, Alerts
  <2>2. ASSUME NEW s \in Services, RegisterService(s) PROVE TypeOK'
    BY <2>2 DEF RegisterService, Called, TypeOK, Age, Alerts
  <2>3. ASSUME NEW s \in Services, NEW n \in Maintenance, SetMaintenance(s, n)
        PROVE  TypeOK'
    BY <2>3 DEF SetMaintenance, Called, TypeOK, Alerts
  <2>4. ASSUME NEW s \in Services, NEW c \in Codes, RecordAlert(s, c) PROVE TypeOK'
    <3>1. /\ log' \in Seq(Alert)
          /\ recentAlerts' \subseteq Alerts'
      BY <2>4, LogGrows DEF RecordAlert, TypeOK
    <3>2. flapHistory' \in [Services \X Codes -> SUBSET Alerts']
      BY <2>4, LogGrows DEF RecordAlert, TypeOK
    <3>3. /\ calls' \in 0 .. MaxCalls
          /\ UNCHANGED <<activeRollouts, maintenanceUntil, serviceFirstSeen>>
      BY <2>4 DEF RecordAlert, Called, TypeOK
    <3> QED BY <3>1, <3>2, <3>3 DEF TypeOK
  <2>5. CASE Tick
    <3>1. /\ activeRollouts' \in [Services -> Age \cup {Never}]
          /\ serviceFirstSeen' \in [Services -> Age \cup {Never}]
      <4>1. \A n \in Age \cup {Never} : Older(n) \in Age \cup {Never}
        BY DEF Older, Age, Never
      <4>2. \A s \in Services : /\ activeRollouts[s] \in Age \cup {Never}
                                /\ serviceFirstSeen[s] \in Age \cup {Never}
        BY DEF TypeOK
      <4> QED BY <2>5, <4>1, <4>2 DEF Tick
    <3>2. maintenanceUntil' \in [Services -> Nat]
      BY <2>5 DEF Tick, TypeOK, Nearer
    <3>3. log' \in Seq(Alert) /\ Alerts' = Alerts
      BY <2>5, LogAges
    <3> QED BY <2>5, <3>1, <3>2, <3>3 DEF Tick, TypeOK
  <2>6. CASE UNCHANGED vars
    BY <2>6 DEF vars, TypeOK, Alerts
  <2> QED BY <2>1, <2>2, <2>3, <2>4, <2>5, <2>6 DEF Next
<1> QED BY <1>1, <1>2, PTL DEF Spec
-----------------------------------------------------------------------------
\* RecordAlert drops nothing that counts, from either copy.
LEMMA AlertKeepsInv ==
  ASSUME TypeOK, FlapsAreOwn, DroppedAreOld,
         NEW s \in Services, NEW c \in Codes, RecordAlert(s, c)
  PROVE  FlapsAreOwn' /\ DroppedAreOld'
<1> USE SuppressorAssumption
<1> DEFINE new == Len(log) + 1
<1>1. /\ Alerts' = Alerts \cup {new} /\ new \notin Alerts
      /\ \A k \in Alerts : log'[k] = log[k]
      /\ log'[new] = [service |-> s, code |-> c, age |-> 0]
  BY LogGrows
<1>2. recentAlerts' = {k \in recentAlerts : StillRecent(k)} \cup {new}
  BY DEF RecordAlert
<1>3. flapHistory' = [flapHistory EXCEPT ![<<s, c>>] = {k \in @ : StillInHour(k)} \cup {new}]
  BY DEF RecordAlert
<1>9. \A k \in Alerts : log[k].age \in Age
  BY AlertsHaveAges
<1> HIDE DEF new
<1>4. \A t \in Services, d \in Codes :
        Own(t, d)' = IF t = s /\ d = c THEN Own(t, d) \cup {new} ELSE Own(t, d)
  BY <1>1 DEF Own
<1>5. \A t \in Services, d \in Codes :
        flapHistory'[<<t, d>>] =
          IF t = s /\ d = c THEN {k \in flapHistory[<<t, d>>] : StillInHour(k)} \cup {new}
          ELSE flapHistory[<<t, d>>]
  BY <1>3 DEF TypeOK
<1>6. FlapsAreOwn'
  BY <1>4, <1>5 DEF FlapsAreOwn
<1>7. \A k \in Alerts' \ recentAlerts' : log'[k].age >= CascadeWindow
  <2> SUFFICES ASSUME NEW k \in Alerts' \ recentAlerts'
               PROVE  log'[k].age >= CascadeWindow
    OBVIOUS
  <2>1. k \in Alerts /\ log'[k] = log[k] /\ log[k].age \in Age
    BY <1>1, <1>2, <1>9
  <2>2. CASE k \in recentAlerts
    BY <1>2, <2>1, <2>2 DEF StillRecent, Age
  <2>3. CASE k \notin recentAlerts
    BY <2>1, <2>3 DEF DroppedAreOld
  <2> QED BY <2>2, <2>3
<1>8. \A t \in Services, d \in Codes :
        \A k \in Own(t, d)' \ flapHistory'[<<t, d>>] : log'[k].age = Hour
  <2> SUFFICES ASSUME NEW t \in Services, NEW d \in Codes,
                      NEW k \in Own(t, d)' \ flapHistory'[<<t, d>>]
               PROVE  log'[k].age = Hour
    OBVIOUS
  <2>1. k \in Own(t, d)
    BY <1>4, <1>5
  <2>2. k \in Alerts /\ log'[k] = log[k] /\ log[k].age \in Age
    BY <1>1, <1>9, <2>1 DEF Own
  <2>3. CASE k \in flapHistory[<<t, d>>]
    <3>1. ~StillInHour(k)
      BY <1>5, <2>3
    <3> QED BY <2>2, <3>1 DEF StillInHour, Age
  <2>4. CASE k \notin flapHistory[<<t, d>>]
    BY <2>1, <2>2, <2>4 DEF DroppedAreOld
  <2> QED BY <2>3, <2>4
<1> QED BY <1>6, <1>7, <1>8 DEF DroppedAreOld

\* Time passes, and what was old stays old.
LEMMA TickKeepsInv ==
  ASSUME TypeOK, FlapsAreOwn, DroppedAreOld, Tick
  PROVE  FlapsAreOwn' /\ DroppedAreOld'
<1> USE SuppressorAssumption
<1>1. /\ Alerts' = Alerts /\ recentAlerts' = recentAlerts /\ flapHistory' = flapHistory
      /\ \A k \in Alerts : /\ log'[k].service = log[k].service
                           /\ log'[k].code = log[k].code
  BY LogAges DEF Tick
<1>2. \A k \in Alerts : /\ log[k].age \in Age /\ log'[k].age \in Age
                        /\ log'[k].age >= log[k].age
                        /\ log[k].age = Hour => log'[k].age = Hour
  BY LogAges, AgesGrow
<1>3. \A t \in Services, d \in Codes : Own(t, d)' = Own(t, d)
  BY <1>1 DEF Own
<1>4. FlapsAreOwn'
  BY <1>1, <1>3 DEF FlapsAreOwn
<1>5. \A k \in Alerts' \ recentAlerts' : log'[k].age >= CascadeWindow
  BY <1>1, <1>2 DEF DroppedAreOld, Age
<1>6. \A t \in Services, d \in Codes :
        \A k \in Own(t, d)' \ flapHistory'[<<t, d>>] : log'[k].age = Hour
  BY <1>1, <1>2, <1>3 DEF DroppedAreOld, Own
<1> QED BY <1>4, <1>5, <1>6 DEF DroppedAreOld

\* The invariant of the suppressor.
THEOREM SuppressorInvariant == Spec => []IInv
<1> USE SuppressorAssumption
<1>1. Init => FlapsAreOwn /\ DroppedAreOld
  BY DEF Init, FlapsAreOwn, DroppedAreOld, Own, Alerts
<1>2. TypeOK /\ FlapsAreOwn /\ DroppedAreOld /\ [Next]_vars => FlapsAreOwn' /\ DroppedAreOld'
  <2> SUFFICES ASSUME TypeOK, FlapsAreOwn, DroppedAreOld, [Next]_vars
               PROVE  FlapsAreOwn' /\ DroppedAreOld'
    OBVIOUS
  <2>1. ASSUME UNCHANGED <<log, recentAlerts, flapHistory>>
        PROVE  FlapsAreOwn' /\ DroppedAreOld'
    BY <2>1 DEF FlapsAreOwn, DroppedAreOld, Own, Alerts
  <2>2. ASSUME NEW s \in Services, RecordRollout(s) \/ RegisterService(s)
        PROVE  FlapsAreOwn' /\ DroppedAreOld'
    BY <2>1, <2>2 DEF RecordRollout, RegisterService
  <2>3. ASSUME NEW s \in Services, NEW n \in Maintenance, SetMaintenance(s, n)
        PROVE  FlapsAreOwn' /\ DroppedAreOld'
    BY <2>1, <2>3 DEF SetMaintenance
  <2>4. ASSUME NEW s \in Services, NEW c \in Codes, RecordAlert(s, c)
        PROVE  FlapsAreOwn' /\ DroppedAreOld'
    BY <2>4, AlertKeepsInv
  <2>5. CASE Tick
    BY <2>5, TickKeepsInv
  <2>6. CASE UNCHANGED vars
    BY <2>1, <2>6 DEF vars
  <2> QED BY <2>2, <2>3, <2>4, <2>5, <2>6 DEF Next
<1> QED BY <1>1, <1>2, SuppressorTypeCorrect, PTL DEF Spec, IInv
-----------------------------------------------------------------------------
\* Trimming never changes a decision: ShouldSuppress decides as it would with
\* every alert that RecordAlert was ever called for.
THEOREM TrimmingStaysInvisible == Spec => []TrimmingIsInvisible
<1> USE SuppressorAssumption
<1>1. IInv => TrimmingIsInvisible
  <2> SUFFICES ASSUME IInv, NEW i \in Incident
               PROVE  ShouldSuppress(i) <=> Decide(i, Alerts, Own(i.service, i.code))
    BY DEF TrimmingIsInvisible, Own
  <2> DEFINE s == i.service
             c == i.code
  <2>1. s \in Services /\ c \in Codes
    BY DEF Incident
  <2>2. \A k \in Alerts : log[k].age \in Age
    BY AlertsHaveAges DEF IInv
  <2>3. {k \in recentAlerts : log[k].age < CascadeWindow} =
          {k \in Alerts : log[k].age < CascadeWindow}
    BY <2>2 DEF IInv, TypeOK, DroppedAreOld, Age
  <2>4. {k \in flapHistory[<<s, c>>] : log[k].age < Hour} =
          {k \in Own(s, c) : log[k].age < Hour}
    BY <2>1, <2>2 DEF IInv, FlapsAreOwn, DroppedAreOld, Own, Age
  <2>5. Cascade(recentAlerts) <=> Cascade(Alerts)
    BY <2>3 DEF Cascade
  <2>6. Flapping(flapHistory[<<s, c>>]) <=> Flapping(Own(s, c))
    BY <2>4 DEF Flapping
  <2> QED BY <2>5, <2>6 DEF ShouldSuppress, Decide
<1> QED BY <1>1, SuppressorInvariant, PTL

\* The services that alerted are finitely many.
LEMMA AlertsAreFinite ==
  ASSUME TypeOK
  PROVE  IsFiniteSet(Alerts) /\ IsFiniteSet({log[k].service : k \in Alerts})
<1>1. IsFiniteSet(Alerts)
  BY LenProperties, FS_Interval DEF TypeOK, Alerts
<1> DEFINE T == {log[k].service : k \in Alerts}
           f == [k \in Alerts |-> log[k].service]
<1>2. f \in Surjection(Alerts, T)
  BY DEF Surjection
<1> QED BY <1>1, <1>2, FS_Surjection

\* "P0/P1 still fire" (rule 2): ShouldSuppress silences an urgent incident
\* only for a rollout of its service, a cascade or its own flapping.
THEOREM UrgentAlwaysFires == Spec => []UrgentStillFires
<1> USE SuppressorAssumption
<1>1. IInv => UrgentStillFires
  <2> SUFFICES ASSUME IInv, NEW i \in Incident,
                      i.severity \in {"P0", "P1"}, ShouldSuppress(i)
               PROVE
                 \/ i.code \in AppCodes /\ activeRollouts[i.service] # Never
                 \/ Cardinality({log[k].service : k \in Alerts}) > MaxServices
                 \/ Cardinality(Own(i.service, i.code)) > MaxFires
    BY DEF UrgentStillFires, Own
  <2> DEFINE s == i.service
             c == i.code
  <2>0. s \in Services /\ c \in Codes /\ ~Routine(i)
    BY DEF Incident, Routine
  <2>1. CASE DeploymentWindow(i)
    BY <2>0, <2>1 DEF DeploymentWindow, Never, Age
  <2>2. CASE Cascade(recentAlerts)
    <3> DEFINE all == {log[k].service : k \in Alerts}
               some == {log[k].service : k \in {k \in recentAlerts : log[k].age < CascadeWindow}}
    <3>1. some \subseteq all
      BY DEF IInv, TypeOK
    <3>2. /\ Cardinality(some) \in Nat /\ Cardinality(all) \in Nat
          /\ Cardinality(some) <= Cardinality(all)
      BY <3>1, AlertsAreFinite, FS_Subset, FS_CardinalityType DEF IInv
    <3>3. Cardinality(some) > MaxServices
      BY <2>2 DEF Cascade
    <3> QED BY <3>2, <3>3
  <2>3. CASE Flapping(flapHistory[<<s, c>>])
    <3> DEFINE some == {k \in flapHistory[<<s, c>>] : log[k].age < Hour}
    <3>1. some \subseteq Own(s, c) /\ Own(s, c) \subseteq Alerts
      BY <2>0 DEF IInv, FlapsAreOwn, Own
    <3>2. IsFiniteSet(Own(s, c))
      BY <3>1, AlertsAreFinite, FS_Subset DEF IInv
    <3>3. /\ Cardinality(some) \in Nat /\ Cardinality(Own(s, c)) \in Nat
          /\ Cardinality(some) <= Cardinality(Own(s, c))
      BY <3>1, <3>2, FS_Subset, FS_CardinalityType
    <3>4. Cardinality(some) > MaxFires
      BY <2>3 DEF Flapping
    <3> QED BY <3>3, <3>4
  <2> QED BY <2>0, <2>1, <2>2, <2>3 DEF ShouldSuppress, Decide, KnownMaintenance
<1> QED BY <1>1, SuppressorInvariant, PTL
-----------------------------------------------------------------------------
\* The rules read ages only to see whether they are below a window, and a tick
\* makes none younger.
LEMMA TickSilencesNobody ==
  ASSUME IInv, Tick, NEW i \in Incident, ShouldSuppress(i)'
  PROVE  ShouldSuppress(i)
<1> USE SuppressorAssumption
<1> DEFINE s == i.service
           c == i.code
<1>1. s \in Services /\ c \in Codes
  BY DEF Incident
<1>2. /\ Alerts' = Alerts /\ recentAlerts' = recentAlerts /\ flapHistory' = flapHistory
      /\ \A k \in Alerts : /\ log'[k].service = log[k].service
                           /\ log[k].age \in Age /\ log'[k].age \in Age
                           /\ log'[k].age >= log[k].age
  BY LogAges, AgesGrow DEF IInv, Tick
<1>3. recentAlerts \subseteq Alerts /\ flapHistory[<<s, c>>] \subseteq Alerts
  BY <1>1 DEF IInv, TypeOK
<1>4. IsFiniteSet(Alerts)
  BY AlertsAreFinite DEF IInv
<1>5. DeploymentWindow(i)' => DeploymentWindow(i)
  <2>1. /\ activeRollouts[s] \in Age \cup {Never}
        /\ activeRollouts'[s] = Older(activeRollouts[s])
    BY <1>1 DEF IInv, TypeOK, Tick
  <2> QED BY <2>1 DEF DeploymentWindow, Older, Age, Never
<1>6. Learning(s)' => Learning(s)
  <2>1. /\ serviceFirstSeen[s] \in Age \cup {Never}
        /\ serviceFirstSeen'[s] = Older(serviceFirstSeen[s])
    BY <1>1 DEF IInv, TypeOK, Tick
  <2> QED BY <2>1 DEF Learning, Older, Age, Never
<1>7. KnownMaintenance(i)' => KnownMaintenance(i)
  <2>1. /\ maintenanceUntil[s] \in Nat
        /\ maintenanceUntil'[s] = Nearer(maintenanceUntil[s])
    BY <1>1 DEF IInv, TypeOK, Tick
  <2> QED BY <2>1 DEF KnownMaintenance, Nearer
<1>8. Cascade(recentAlerts)' => Cascade(recentAlerts)
  <2> DEFINE now == {log[k].service : k \in {k \in recentAlerts : log[k].age < CascadeWindow}}
             then == {log'[k].service : k \in {k \in recentAlerts : log'[k].age < CascadeWindow}}
             all == {log[k].service : k \in Alerts}
  <2>1. then \subseteq now /\ now \subseteq all
    BY <1>2, <1>3 DEF Age
  <2>2. IsFiniteSet(all)
    BY AlertsAreFinite DEF IInv
  <2> HIDE DEF now, then, all
  <2>3. IsFiniteSet(now) /\ Cardinality(now) \in Nat
    BY <2>1, <2>2, FS_Subset, FS_CardinalityType
  <2>4. Cardinality(then) \in Nat /\ Cardinality(then) <= Cardinality(now)
    BY <2>1, <2>3, FS_Subset, FS_CardinalityType
  <2>5. Cardinality(then) > MaxServices => Cardinality(now) > MaxServices
    BY <2>3, <2>4
  <2> QED BY <1>2, <2>5 DEF Cascade, now, then
<1>9. Flapping(flapHistory[<<s, c>>])' => Flapping(flapHistory[<<s, c>>])
  <2> DEFINE fires == flapHistory[<<s, c>>]
             now == {k \in fires : log[k].age < Hour}
             then == {k \in fires : log'[k].age < Hour}
  <2>1. then \subseteq now /\ now \subseteq Alerts
    BY <1>2, <1>3 DEF Age
  <2> HIDE DEF now, then
  <2>2. IsFiniteSet(now) /\ Cardinality(now) \in Nat
    BY <1>4, <2>1, FS_Subset, FS_CardinalityType
  <2>3. Cardinality(then) \in Nat /\ Cardinality(then) <= Cardinality(now)
    BY <2>1, <2>2, FS_Subset, FS_CardinalityType
  <2>4. Cardinality(then) > MaxFires => Cardinality(now) > MaxFires
    BY <2>2, <2>3
  <2> QED BY <1>2, <2>4 DEF Flapping, now, then
<1> QED BY <1>5, <1>6, <1>7, <1>8, <1>9 DEF ShouldSuppress, Decide, Routine

\* A call that changes nothing the rules read of the incident leaves it as it
\* was, or makes a cascade.
LEMMA OthersSilenceNobody ==
  ASSUME IInv, NEW i \in Incident, OfOwn(i)' = OfOwn(i),
         ~ShouldSuppress(i), ShouldSuppress(i)',
         \/ UNCHANGED <<log, recentAlerts>>
         \/ \E s \in Services, c \in Codes : RecordAlert(s, c)
  PROVE  Cascade(recentAlerts)'
<1> DEFINE fires == flapHistory[<<i.service, i.code>>]
<1>1. /\ activeRollouts'[i.service] = activeRollouts[i.service]
      /\ maintenanceUntil'[i.service] = maintenanceUntil[i.service]
      /\ serviceFirstSeen'[i.service] = serviceFirstSeen[i.service]
      /\ fires' = fires
  BY DEF OfOwn
<1>2. i.service \in Services /\ i.code \in Codes
  BY DEF Incident
<1>3. fires \subseteq Alerts
  BY <1>2 DEF IInv, TypeOK
<1>4. \A k \in Alerts : log'[k] = log[k]
  BY LogGrows DEF IInv
<1>5. {k \in fires' : log'[k].age < Hour} = {k \in fires : log[k].age < Hour}
  BY <1>1, <1>3, <1>4
<1>6. Flapping(fires)' <=> Flapping(fires)
  BY <1>5 DEF Flapping
<1>7. /\ DeploymentWindow(i)' <=> DeploymentWindow(i)
      /\ KnownMaintenance(i)' <=> KnownMaintenance(i)
      /\ Learning(i.service)' <=> Learning(i.service)
  BY <1>1 DEF DeploymentWindow, KnownMaintenance, Learning
<1> QED BY <1>6, <1>7 DEF ShouldSuppress, Decide

\* An incident is silenced by a record of its own service and code or by one
\* that makes a cascade, and never by the passing of time (RecordRollout,
\* SetMaintenance, RecordAlert, RegisterService, ShouldSuppress).
THEOREM SilenceAlwaysHasACause == Spec => SilenceHasACause
<1> DEFINE Caused(i) ==
      ~ShouldSuppress(i) /\ ShouldSuppress(i)' =>
        /\ calls' # calls
        /\ OfOwn(i)' # OfOwn(i) \/ Cascade(recentAlerts)'
<1>1. ASSUME IInv, [Next]_vars, NEW i \in Incident, ~ShouldSuppress(i), ShouldSuppress(i)'
      PROVE  /\ calls' # calls
             /\ OfOwn(i)' # OfOwn(i) \/ Cascade(recentAlerts)'
  <2>1. CASE Tick
    BY <1>1, <2>1, TickSilencesNobody
  <2>2. CASE UNCHANGED vars
    <3>1. ShouldSuppress(i)' <=> ShouldSuppress(i)
      BY <2>2 DEF vars, ShouldSuppress, Decide, DeploymentWindow, KnownMaintenance,
                  Cascade, Flapping, Learning
    <3> QED BY <1>1, <3>1
  <2>3. CASE Next /\ ~Tick
    <3>1. Called
      BY <2>3 DEF Next, RecordRollout, RegisterService, SetMaintenance, RecordAlert
    <3>2. calls' # calls
      BY <1>1, <3>1, SuppressorAssumption DEF Called, IInv, TypeOK
    <3>3. \/ UNCHANGED <<log, recentAlerts>>
          \/ \E s \in Services, c \in Codes : RecordAlert(s, c)
      BY <2>3 DEF Next, RecordRollout, RegisterService, SetMaintenance
    <3> QED BY <1>1, <3>2, <3>3, OthersSilenceNobody
  <2> QED BY <1>1, <2>1, <2>2, <2>3
<1>2. IInv /\ [Next]_vars => [\A i \in Incident : Caused(i)]_vars
  BY <1>1
<1> QED BY <1>2, SuppressorInvariant, PTL DEF Spec, SilenceHasACause
-----------------------------------------------------------------------------
(***************************************************************************)
(* The digest.                                                             *)
(***************************************************************************)

\* Every variable of the digest keeps its type.
THEOREM DigestTypeCorrect == DigestSpec => []DigestTypeOK
<1> USE DigestAssumption
<1>0. <<>> \in Seq(Incidents)
  BY EmptySeq
<1>1. DigestInit => DigestTypeOK
  <2> SUFFICES ASSUME DigestInit PROVE DigestTypeOK
    OBVIOUS
  <2>1. {buffer, seen, body} \subseteq Seq(Incidents)
    BY <1>0 DEF DigestInit
  <2>2. digested \in [Incidents -> Nat] /\ {accepted, caught, held} \subseteq SUBSET Incidents
    BY DEF DigestInit
  <2> QED BY <2>1, <2>2 DEF DigestInit, DigestTypeOK
<1>2. DigestTypeOK /\ [DigestNext]_digestVars => DigestTypeOK'
  <2> SUFFICES ASSUME DigestTypeOK, [DigestNext]_digestVars PROVE DigestTypeOK'
    OBVIOUS
  <2> USE DEF DigestTypeOK
  <2>1. ASSUME NEW i \in Incidents, SendReads(i) PROVE DigestTypeOK'
    BY <2>1 DEF SendReads
  <2>2. CASE SendWrites
    <3>1. Append(seen, sending) \in Seq(Incidents) /\ <<>> \in Seq(Incidents)
      BY <2>2, AppendProperties, EmptySeq DEF SendWrites
    <3>2. {accepted', caught', held'} \subseteq SUBSET Incidents
      BY <2>2 DEF SendWrites
    <3> QED BY <2>2, <3>1, <3>2 DEF SendWrites
  <2>3. CASE FlushReads
    BY <2>3 DEF FlushReads
  <2>4. CASE FlushClears
    <3>1. digested' \in [Incidents -> Nat]
      BY <2>4 DEF FlushClears
    <3>2. Range(seen) \subseteq Incidents
      BY LenProperties DEF Range
    <3>3. {accepted', caught', held'} \subseteq SUBSET Incidents
      BY <2>4, <3>2 DEF FlushClears
    <3> QED BY <1>0, <2>4, <3>1, <3>3 DEF FlushClears, Cleared
  <2>5. CASE UNCHANGED digestVars
    BY <2>5 DEF digestVars
  <2> QED BY <2>1, <2>2, <2>3, <2>4, <2>5 DEF DigestNext
<1> QED BY <1>1, <1>2, PTL DEF DigestSpec

\* What a Send under way has read is the buffer, or was held when a flush
\* cleared it.
SeenIsBuffer ==
  /\ sending = NoOne => seen = <<>>
  /\ sending # NoOne => \/ seen = buffer
                        \/ buffer = <<>> /\ Range(seen) \subseteq held

\* What a flush under way has read is in the buffer still, and whatever else
\* is, it caught.
BodyIsBuffered ==
  flushing => /\ buffer # <<>>
              /\ Range(body) \subseteq Range(buffer)
              /\ Range(buffer) \subseteq Range(body) \cup caught

\* Only what was accepted is buffered, read or in a digest.
AcceptedFirst ==
  /\ Range(buffer) \cup Range(seen) \subseteq accepted
  /\ sending \notin accepted
  /\ \A i \in Incidents \ accepted : digested[i] = 0

IDigest == DigestTypeOK /\ SeenIsBuffer /\ BodyIsBuffered /\ AcceptedFirst /\ DigestIsComplete

\* What a Send writes: the buffer it has read, and its incident.
LEMMA SendExtends ==
  ASSUME DigestTypeOK, SendWrites
  PROVE  /\ Range(buffer') = Range(seen) \cup {sending}
         /\ buffer' # <<>>
<1>1. sending \in Incidents /\ seen \in Seq(Incidents) /\ buffer' = Append(seen, sending)
  BY DEF SendWrites, DigestTypeOK
<1>2. /\ Len(seen) \in Nat /\ DOMAIN seen = 1 .. Len(seen)
      /\ DOMAIN buffer' = 1 .. Len(seen) + 1
      /\ \A k \in 1 .. Len(seen) : buffer'[k] = seen[k]
      /\ buffer'[Len(seen) + 1] = sending
  BY <1>1, AppendProperties, LenProperties
<1>3. Range(buffer') = Range(seen) \cup {sending}
  BY <1>2 DEF Range
<1>4. Range(<<>>) = {}
  BY DEF Range
<1> QED BY <1>3, <1>4

\* A Send that ends: what it read is buffered as before, or was held.
LEMMA SendKeepsDigest ==
  ASSUME IDigest, SendWrites
  PROVE  (SeenIsBuffer /\ BodyIsBuffered /\ AcceptedFirst /\ DigestIsComplete)'
<1> USE DigestAssumption DEF IDigest
<1>0. Range(<<>>) = {}
  BY DEF Range
<1>1. /\ Range(buffer') = Range(seen) \cup {sending} /\ buffer' # <<>>
      /\ sending' = NoOne /\ seen' = <<>> /\ accepted' = accepted \cup {sending}
      /\ caught' = (IF flushing THEN caught \cup {sending} ELSE caught)
      /\ UNCHANGED <<flushing, body, digested, held>>
      /\ sending \in Incidents \ accepted
  BY SendExtends DEF SendWrites, DigestTypeOK, AcceptedFirst
<1>2. \/ Range(seen) = Range(buffer)
      \/ Range(buffer) = {} /\ Range(seen) \subseteq held /\ ~flushing
  BY <1>0, <1>1 DEF SeenIsBuffer, SendWrites, BodyIsBuffered
<1>3. SeenIsBuffer'
  BY <1>1 DEF SeenIsBuffer
<1>4. BodyIsBuffered'
  BY <1>1, <1>2 DEF BodyIsBuffered
<1>5. AcceptedFirst'
  BY <1>0, <1>1 DEF AcceptedFirst, DigestTypeOK
<1>6. DigestIsComplete'
  <2> SUFFICES ASSUME NEW i \in accepted'
               PROVE  LET copies == digested'[i] + (IF i \in Range(buffer') THEN 1 ELSE 0) IN
                      /\ i \notin caught' => copies >= 1
                      /\ i \notin held' => copies <= 1
    BY DEF DigestIsComplete
  <2>1. digested'[i] = digested[i] /\ digested[i] \in Nat /\ held' = held
    BY <1>1 DEF DigestTypeOK
  <2>2. CASE i = sending
    BY <1>1, <2>1, <2>2 DEF AcceptedFirst
  <2>3. CASE i # sending
    <3>1. i \in accepted /\ (i \notin caught' => i \notin caught)
      BY <1>1, <2>3
    <3>2. \/ i \in Range(buffer') <=> i \in Range(buffer)
          \/ i \in held /\ i \in Range(buffer')
          \/ i \notin Range(buffer') /\ i \notin Range(buffer)
      BY <1>1, <1>2, <2>3
    <3> QED BY <2>1, <3>1, <3>2 DEF DigestIsComplete
  <2> QED BY <2>2, <2>3
<1> QED BY <1>3, <1>4, <1>5, <1>6

\* A flush that ends: what it read is in a digest more, and what else the
\* buffer held was caught.
LEMMA ClearKeepsDigest ==
  ASSUME IDigest, FlushClears
  PROVE  (SeenIsBuffer /\ BodyIsBuffered /\ AcceptedFirst /\ DigestIsComplete)'
<1> USE DigestAssumption DEF IDigest
<1>0. Range(<<>>) = {}
  BY DEF Range
<1>1. /\ flushing /\ ~flushing' /\ buffer' = <<>> /\ held' = held \cup Range(seen)
      /\ UNCHANGED <<sending, seen, accepted, caught>>
  BY DEF FlushClears, Cleared
<1>2. \A i \in Incidents :
        digested'[i] = IF i \in Range(body) THEN digested[i] + 1 ELSE digested[i]
  BY DEF FlushClears
<1>3. SeenIsBuffer' /\ BodyIsBuffered'
  BY <1>1 DEF SeenIsBuffer, BodyIsBuffered
<1>4. Range(body) \subseteq Range(buffer) /\ Range(buffer) \subseteq Range(body) \cup caught
  BY <1>1 DEF BodyIsBuffered
<1>5. AcceptedFirst'
  BY <1>0, <1>1, <1>2, <1>4 DEF AcceptedFirst
<1>6. DigestIsComplete'
  <2> SUFFICES ASSUME NEW i \in accepted
               PROVE  /\ i \notin caught => digested'[i] >= 1
                      /\ i \notin held' => digested'[i] <= 1
    <3>1. \A i \in accepted : digested'[i] \in Nat
      BY <1>2 DEF DigestTypeOK
    <3> QED BY <1>0, <1>1, <3>1 DEF DigestIsComplete
  <2>1. i \in Incidents /\ digested[i] \in Nat /\ (i \notin held' => i \notin held)
    BY <1>1 DEF DigestTypeOK
  <2>2. CASE i \in Range(body)
    BY <1>2, <1>4, <2>1, <2>2 DEF DigestIsComplete
  <2>3. CASE i \notin Range(body)
    BY <1>2, <1>4, <2>1, <2>3 DEF DigestIsComplete
  <2> QED BY <2>2, <2>3
<1> QED BY <1>3, <1>5, <1>6

\* The invariant of the digest.
THEOREM DigestInvariant == DigestSpec => []IDigest
<1> USE DigestAssumption DEF IDigest
<1> DEFINE Rest == SeenIsBuffer /\ BodyIsBuffered /\ AcceptedFirst /\ DigestIsComplete
<1>0. Range(<<>>) = {}
  BY DEF Range
<1>1. DigestInit => Rest
  BY <1>0 DEF DigestInit, SeenIsBuffer, BodyIsBuffered, AcceptedFirst, DigestIsComplete
<1>2. IDigest /\ [DigestNext]_digestVars => Rest'
  <2> SUFFICES ASSUME IDigest, [DigestNext]_digestVars PROVE Rest'
    OBVIOUS
  <2>1. ASSUME NEW i \in Incidents, SendReads(i) PROVE Rest'
    BY <2>1 DEF SendReads, SeenIsBuffer, BodyIsBuffered, AcceptedFirst, DigestIsComplete
  <2>2. CASE SendWrites
    BY <2>2, SendKeepsDigest
  <2>3. CASE FlushReads
    BY <2>3 DEF FlushReads, SeenIsBuffer, BodyIsBuffered, AcceptedFirst, DigestIsComplete
  <2>4. CASE FlushClears
    BY <2>4, ClearKeepsDigest
  <2>5. CASE UNCHANGED digestVars
    BY <2>5 DEF digestVars, SeenIsBuffer, BodyIsBuffered, AcceptedFirst, DigestIsComplete
  <2> QED BY <2>1, <2>2, <2>3, <2>4, <2>5 DEF DigestNext
<1> QED BY <1>1, <1>2, DigestTypeCorrect, PTL DEF DigestSpec

\* Through any flushes and any Sends that overlap them, an accepted P3 or P4
\* incident is in the buffer or in a digest unless its own Send ended during a
\* flush, and in one only unless a Send had read it before a flush cleared.
THEOREM DigestStaysComplete == DigestSpec => []DigestIsComplete
BY DigestInvariant, PTL DEF IDigest
-----------------------------------------------------------------------------
(***************************************************************************)
(* The two together.                                                       *)
(***************************************************************************)

\* A behaviour of the parts together is one of each: a step of one part leaves
\* the state of the others alone.
LEMMA PartsAreTheirOwn ==
  PartsSpec => Spec /\ DigestSpec
<1>1. PartsInit => Init /\ DigestInit
  BY DEF PartsInit
<1>2. [SuppressorStep \/ DigestStep]_allVars => [Next]_vars /\ [DigestNext]_digestVars
  BY DEF SuppressorStep, DigestStep, allVars
<1> QED BY <1>1, <1>2, PTL DEF PartsSpec, Spec, DigestSpec

\* What each part of the alerting promises, of both together: trimming is
\* invisible, urgent incidents still fire, every silence has a cause, and the
\* digest is complete but for what its overlaps with a Send cost.
THEOREM PartsKeepTheirPromises ==
  PartsSpec => /\ [](/\ TypeOK /\ DigestTypeOK
                     /\ TrimmingIsInvisible /\ UrgentStillFires /\ DigestIsComplete)
               /\ SilenceHasACause
BY PartsAreTheirOwn, SuppressorTypeCorrect, DigestTypeCorrect, TrimmingStaysInvisible,
   UrgentAlwaysFires, SilenceAlwaysHasACause, DigestStaysComplete, PTL
=============================================================================
