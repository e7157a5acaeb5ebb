-------------------------- MODULE EscalationProofs --------------------------
(***************************************************************************)
(* Proofs about the escalation engine, for any number of ids, objects and  *)
(* channels, any timeouts and whether or not callers reuse ids.            *)
(*                                                                         *)
(* Every step treats each object in one of four ways: it leaves it alone   *)
(* but for its age, allocates it, moves it by Transition or moves it by a  *)
(* timeout (StepOfOneObject).  The invariants speak of one object at a     *)
(* time, so each is proved against these four cases.                       *)
(***************************************************************************)
EXTENDS EscalationRefinement, TLAPS

USE EscalationAssumption

\* What the code writes into a timeline: CreateIncident's event, and states.
Written == {"anomaly"} \cup State

\* TypeOK with what is written, not what may be, as the events.
Typed ==
  /\ incidents \in [Ids -> Refs \cup {NoIncident}]
  /\ created \subseteq Refs
  /\ state \in [Refs -> State]
  /\ age \in [Refs -> Nat]
  /\ timeline \in [Refs -> Seq(Written)]
  /\ resolvedAt \subseteq Refs
  /\ generic \subseteq Refs
  /\ noAI \subseteq Refs
  /\ pages \in [Refs -> Nat]
  /\ delivered \in [Refs -> SUBSET Channels]
  /\ failed \in [Refs -> SUBSET Channels]

LEMMA TypeCorrectInit == Init => Typed
BY DEF Init, Typed, State, Written

LEMMA TableTypes ==
  /\ AfterTimeout \in [State -> State]
  /\ \A s \in State : ValidTargets[s] \subseteq State
<1>1. \A s \in State : AfterTimeout[s] \in State
  BY DEF AfterTimeout, State
<1>2. QED  BY <1>1 DEF AfterTimeout, ValidTargets, State

\* Type correctness is inductive by itself.
LEMMA TypeCorrectNext == Typed /\ [Next]_vars => Typed'
<1> SUFFICES ASSUME Typed, [Next]_vars PROVE Typed'
  OBVIOUS
<1>1. ASSUME NEW id \in Ids, NEW r \in Refs, CreateIncident(id, r)
      PROVE  Typed'
  <2>1. <<"anomaly">> \in Seq(Written)
    BY DEF Written
  <2>2. QED  BY <1>1, <2>1 DEF CreateIncident, Typed
<1>2. ASSUME NEW id \in Ids, NEW s \in State, NEW up \in Outcomes,
             Transition(id, s, up)
      PROVE  Typed'
  <2> DEFINE r == incidents[id]
  <2>1. r \in Refs
    BY <1>2 DEF Transition, Typed
  <2>2. Append(timeline[r], s) \in Seq(Written)
    BY <2>1 DEF Typed, Written
  <2>3. /\ state' \in [Refs -> State]
        /\ age' \in [Refs -> Nat]
        /\ timeline' \in [Refs -> Seq(Written)]
        /\ resolvedAt' \subseteq Refs
    BY <1>2, <2>1, <2>2 DEF Transition, Typed
  <2>4. /\ pages' \in [Refs -> Nat]
        /\ delivered' \in [Refs -> SUBSET Channels]
        /\ failed' \in [Refs -> SUBSET Channels]
    BY <1>2 DEF Transition, EscalateToHuman, Tried, Outcomes, Typed
  <2>5. QED  BY <1>2, <2>3, <2>4 DEF Transition, Typed
<1>3. ASSUME NEW up \in Outcomes, CheckTimeouts(up)
      PROVE  Typed'
  <2>1. Expired \subseteq Refs
    BY DEF Expired, Tracked, Typed
  <2>2. /\ state' \in [Refs -> State]
        /\ age' \in [Refs -> Nat]
    BY <1>3, TableTypes DEF CheckTimeouts, SweptTo, Typed
  <2>3. /\ resolvedAt' \subseteq Refs
        /\ generic' \subseteq Refs
        /\ noAI' \subseteq Refs
    BY <1>3, <2>1 DEF CheckTimeouts, ResolvedByTimeout, WithoutAI, TimedOutIn, Typed
  <2>4. /\ pages' \in [Refs -> Nat]
        /\ delivered' \in [Refs -> SUBSET Channels]
        /\ failed' \in [Refs -> SUBSET Channels]
    BY <1>3 DEF CheckTimeouts, EscalateToHuman, Tried, Outcomes, Typed
  <2>5. QED  BY <1>3, <2>2, <2>3, <2>4 DEF CheckTimeouts, Typed
<1>4. CASE Tick
  BY <1>4 DEF Tick, Typed
<1>5. CASE UNCHANGED vars
  BY <1>5 DEF vars, Typed
<1>6. QED  BY <1>1, <1>2, <1>3, <1>4, <1>5 DEF Next, Sweep, TransitionRefused

LEMMA TypedIsTypeOK == Typed => TypeOK
<1> SUFFICES ASSUME Typed PROVE TypeOK
  OBVIOUS
<1>1. Written \subseteq EventType
  BY DEF Written, EventType
<1>2. ASSUME NEW r \in Refs PROVE timeline[r] \in Seq(EventType)
  <2>1. timeline[r] \in Seq(Written)
    BY DEF Typed
  <2>2. QED  BY <1>1, <2>1
<1>3. timeline \in [Refs -> Seq(EventType)]
  BY <1>2 DEF Typed
<1>4. QED  BY <1>3 DEF Typed, TypeOK

\* The variables keep their types: in particular every state that Transition
\* or a sweep writes is one of the ten.
THEOREM TypeCorrect == Spec => []TypeOK
BY TypeCorrectInit, TypeCorrectNext, TypedIsTypeOK, PTL DEF Spec
-----------------------------------------------------------------------------
(***************************************************************************)
(* One object at a time.                                                   *)
(***************************************************************************)

\* What a step leaves alone of an object: all but its age.
Same(r) ==
  /\ r \in created' <=> r \in created
  /\ state'[r] = state[r]
  /\ timeline'[r] = timeline[r]
  /\ pages'[r] = pages[r]
  /\ r \in resolvedAt' <=> r \in resolvedAt
  /\ r \in generic' <=> r \in generic
  /\ r \in noAI' <=> r \in noAI

Born(r) ==
  /\ r \notin created /\ r \in created'
  /\ timeline'[r] = <<"anomaly">>
  /\ state'[r] = state[r]
  /\ pages'[r] = pages[r]
  /\ r \in resolvedAt' <=> r \in resolvedAt

Moved(r) ==
  /\ r \in created /\ r \in created'
  /\ state'[r] \in ValidTargets[state[r]]
  /\ timeline'[r] = Append(timeline[r], state'[r])
  /\ pages'[r] = IF state'[r] = "ESCALATED" THEN pages[r] + 1 ELSE pages[r]
  /\ r \in resolvedAt' <=> (r \in resolvedAt \/ state'[r] = "RESOLVED")
  /\ r \in generic' <=> r \in generic
  /\ r \in noAI' <=> r \in noAI

TimedOut(r) ==
  /\ r \in created /\ r \in created'
  /\ state[r] \in TimedStates
  /\ state'[r] = AfterTimeout[state[r]]
  /\ timeline'[r] = timeline[r]
  /\ pages'[r] = IF state[r] \in {"READY_TO_ESCALATE", "AUTO_REMEDIATING"}
                 THEN pages[r] + 1 ELSE pages[r]
  /\ r \in resolvedAt' <=> (r \in resolvedAt \/ state[r] = "MONITORING_EFFECT")
  /\ r \in generic' <=> (r \in generic \/ state[r] = "CLASSIFYING")
  /\ r \in noAI' <=> (r \in noAI \/ state[r] = "CORRELATING")

\* Only allocated objects are in the map.
TrackedCreated == Tracked \subseteq created

LEMMA StepOfOneObject ==
  ASSUME Typed, TrackedCreated, [Next]_vars, NEW r \in Refs
  PROVE  Same(r) \/ Born(r) \/ Moved(r) \/ TimedOut(r)
<1>1. ASSUME NEW id \in Ids, NEW q \in Refs, CreateIncident(id, q)
      PROVE  Same(r) \/ Born(r)
  BY <1>1 DEF CreateIncident, Typed, Same, Born
<1>2. ASSUME NEW id \in Ids, NEW s \in State, NEW up \in Outcomes,
             Transition(id, s, up)
      PROVE  Same(r) \/ Moved(r)
  <2> DEFINE q == incidents[id]
  <2>1. q \in Refs /\ q \in created
    BY <1>2 DEF Transition, Typed, TrackedCreated, Tracked
  <2>2. CASE r = q
    <3>1. /\ state'[r] = s
          /\ s \in ValidTargets[state[r]]
          /\ timeline'[r] = Append(timeline[r], s)
      BY <1>2, <2>1, <2>2 DEF Transition, IsValidTransition, Typed
    <3>2. pages'[r] = IF s = "ESCALATED" THEN pages[r] + 1 ELSE pages[r]
      BY <1>2, <2>1, <2>2 DEF Transition, EscalateToHuman
    <3>3. QED  BY <1>2, <2>1, <2>2, <3>1, <3>2 DEF Transition, Moved
  <2>3. CASE r # q
    <3>1. state'[r] = state[r] /\ timeline'[r] = timeline[r]
      BY <1>2, <2>1, <2>3 DEF Transition, Typed
    <3>2. pages'[r] = pages[r]
      BY <1>2, <2>1, <2>3 DEF Transition, EscalateToHuman
    <3>3. QED  BY <1>2, <2>1, <2>3, <3>1, <3>2 DEF Transition, Same
  <2>4. QED  BY <2>2, <2>3
<1>3. ASSUME NEW up \in Outcomes, CheckTimeouts(up)
      PROVE  Same(r) \/ TimedOut(r)
  <2>1. CASE r \in Expired
    <3>1. r \in created /\ state[r] \in TimedStates
      BY <2>1 DEF Expired, TrackedCreated
    <3>2. /\ state'[r] = AfterTimeout[state[r]]
          /\ pages'[r] = IF state[r] \in {"READY_TO_ESCALATE", "AUTO_REMEDIATING"}
                         THEN pages[r] + 1 ELSE pages[r]
      BY <1>3, <2>1 DEF CheckTimeouts, SweptTo, EscalateToHuman, PagedByTimeout, TimedOutIn
    <3>3. QED  BY <1>3, <2>1, <3>1, <3>2
               DEF CheckTimeouts, TimedOut, ResolvedByTimeout, WithoutAI, TimedOutIn
  <2>2. CASE r \notin Expired
    BY <1>3, <2>2 DEF CheckTimeouts, SweptTo, EscalateToHuman, PagedByTimeout,
                      ResolvedByTimeout, WithoutAI, TimedOutIn, Same
  <2>3. QED  BY <2>1, <2>2
<1>4. CASE Tick
  BY <1>4 DEF Tick, Same
<1>5. CASE UNCHANGED vars
  BY <1>5 DEF vars, Same
<1>6. QED  BY <1>1, <1>2, <1>3, <1>4, <1>5 DEF Next, Sweep, TransitionRefused

LEMMA TrackedCreatedNext == Typed /\ TrackedCreated /\ [Next]_vars => TrackedCreated'
<1> SUFFICES ASSUME Typed, TrackedCreated, [Next]_vars PROVE TrackedCreated'
  OBVIOUS
<1> USE DEF TrackedCreated, Tracked
<1>1. ASSUME NEW id \in Ids, NEW q \in Refs, CreateIncident(id, q)
      PROVE  TrackedCreated'
  BY <1>1 DEF CreateIncident, Typed
<1>2. ASSUME UNCHANGED <<incidents, created>> PROVE TrackedCreated'
  BY <1>2
<1>3. QED  BY <1>1, <1>2 DEF Next, Sweep, TransitionRefused, Transition,
                             CheckTimeouts, Tick, vars
-----------------------------------------------------------------------------
(***************************************************************************)
(* The inductive invariant.  The promises themselves speak of paged or     *)
(* closed incidents; what makes them inductive is what is known of an      *)
(* incident in each state before that.                                     *)
(***************************************************************************)

Classified(r) == "CORRELATING" \in Range(timeline[r]) \/ r \in generic
Analysed(r) == "READY_TO_ESCALATE" \in Range(timeline[r]) \/ r \in noAI

\* An object that has not been allocated is as Init left it.
FreshOutside ==
  \A r \in Refs \ created : /\ state[r] = "DETECTED"
                            /\ timeline[r] = <<>>
                            /\ pages[r] = 0
                            /\ r \notin resolvedAt

\* An incident past a phase of the pipeline went through it or timed out.
ContextSoFar ==
  \A r \in created :
    /\ state[r] \notin {"DETECTED", "CLASSIFYING"} \cup Closed => Classified(r)
    /\ state[r] \notin {"DETECTED", "CLASSIFYING", "CORRELATING"} \cup Closed => Analysed(r)

\* An ACKNOWLEDGED incident has the event.
AcknowledgedIsRecorded ==
  \A r \in created : state[r] = "ACKNOWLEDGED" => "ACKNOWLEDGED" \in Range(timeline[r])

\* A DETECTED incident, or one that expired there, has only its first event.
UnmovedIsNew ==
  \A r \in created :
    state[r] = "DETECTED" \/ (state[r] = "RESOLVED" /\ r \notin resolvedAt) =>
      Range(timeline[r]) \subseteq {"anomaly"}

LEMMA RangeOfAppend ==
  ASSUME NEW S, NEW s \in Seq(S), NEW e
  PROVE  Range(Append(s, e)) = Range(s) \cup {e}
<1>1. Len(s) \in Nat
  OBVIOUS
<1>2. \A x \in Range(Append(s, e)) : x \in Range(s) \/ x = e
  BY <1>1 DEF Range
<1>3. \A k \in 1 .. Len(s) : Append(s, e)[k] = s[k] /\ k \in DOMAIN Append(s, e)
  BY <1>1
<1>4. Append(s, e)[Len(s) + 1] = e /\ Len(s) + 1 \in DOMAIN Append(s, e)
  BY <1>1
<1>5. QED  BY <1>2, <1>3, <1>4 DEF Range

\* What a step does to the promises about one object, by the four cases.
LEMMA PromisesInductive ==
  ASSUME Typed, Typed', TrackedCreated, [Next]_vars, FreshOutside,
         AutomationEndsAtFirstPage
  PROVE  FreshOutside' /\ AutomationEndsAtFirstPage'
<1>1. ASSUME NEW r \in Refs, r \notin created'
      PROVE  /\ state'[r] = "DETECTED"
             /\ timeline'[r] = <<>>
             /\ pages'[r] = 0
             /\ r \notin resolvedAt'
  BY <1>1, StepOfOneObject DEF Same, Born, Moved, TimedOut, FreshOutside
<1>2. ASSUME NEW r \in Refs, r \in created'
      PROVE  /\ pages'[r] > 0 => state'[r] \in HumanOwned \cup Closed
             /\ state'[r] \in HumanOwned => pages'[r] > 0
  <2> USE <1>2 DEF HumanOwned, Closed
  <2>1. pages[r] \in Nat /\ state[r] \in State
    BY DEF Typed
  <2>2. CASE Same(r)
    BY <2>2 DEF Same, AutomationEndsAtFirstPage
  <2>3. CASE Born(r)
    BY <2>3 DEF Born, FreshOutside
  <2>4. CASE Moved(r)
    BY <2>1, <2>4 DEF Moved, ValidTargets, State, AutomationEndsAtFirstPage
  <2>5. CASE TimedOut(r)
    BY <2>1, <2>5 DEF TimedOut, AfterTimeout, State, AutomationEndsAtFirstPage
  <2>6. QED  BY <2>2, <2>3, <2>4, <2>5, StepOfOneObject
<1>3. QED  BY <1>1, <1>2 DEF FreshOutside, AutomationEndsAtFirstPage, Typed

LEMMA ContextInductive ==
  ASSUME Typed, Typed', TrackedCreated, [Next]_vars, FreshOutside,
         AutomationEndsAtFirstPage, ContextSoFar, NoPageWithoutContext
  PROVE  ContextSoFar' /\ NoPageWithoutContext'
<1> DEFINE After(r) ==
       /\ state[r] \notin {"DETECTED", "CLASSIFYING"} \cup Closed => Classified(r)
       /\ state[r] \notin {"DETECTED", "CLASSIFYING", "CORRELATING"} \cup Closed => Analysed(r)
       /\ pages[r] > 0 => Classified(r) /\ Analysed(r)
<1>1. ASSUME NEW r \in Refs, r \in created'
      PROVE  After(r)'
  <2> USE <1>1 DEF Closed
  <2>1. pages[r] \in Nat /\ state[r] \in State /\ timeline[r] \in Seq(Written)
    BY DEF Typed
  <2>2. r \in created => After(r)
    BY DEF ContextSoFar, NoPageWithoutContext, Classified, Analysed
  <2>3. CASE Same(r)
    BY <2>2, <2>3 DEF Same, Classified, Analysed
  <2>4. CASE Born(r)
    BY <2>4 DEF Born, FreshOutside
  <2>5. CASE Moved(r)
    <3>1. Range(timeline'[r]) = Range(timeline[r]) \cup {state'[r]}
      BY <2>1, <2>5, RangeOfAppend DEF Moved
    <3>2. /\ Classified(r)' <=> Classified(r) \/ state'[r] = "CORRELATING"
          /\ Analysed(r)' <=> Analysed(r) \/ state'[r] = "READY_TO_ESCALATE"
      BY <2>5, <3>1 DEF Moved, Classified, Analysed
    <3>3. QED  BY <2>1, <2>2, <2>5, <3>2 DEF Moved, ValidTargets, State
  <2>6. CASE TimedOut(r)
    <3>1. /\ Classified(r)' <=> Classified(r) \/ state[r] = "CLASSIFYING"
          /\ Analysed(r)' <=> Analysed(r) \/ state[r] = "CORRELATING"
      BY <2>6 DEF TimedOut, Classified, Analysed
    <3>2. QED  BY <2>1, <2>2, <2>6, <3>1 DEF TimedOut, AfterTimeout, State
  <2>7. QED  BY <2>3, <2>4, <2>5, <2>6, StepOfOneObject
<1>2. created' \subseteq Refs
  BY DEF Typed
<1>3. QED  BY <1>1, <1>2 DEF ContextSoFar, NoPageWithoutContext, Classified, Analysed

LEMMA AcknowledgedInductive ==
  ASSUME Typed, Typed', TrackedCreated, [Next]_vars, FreshOutside,
         AutomationEndsAtFirstPage, AcknowledgedIsRecorded, PagedCloseWasAcknowledged
  PROVE  AcknowledgedIsRecorded' /\ PagedCloseWasAcknowledged'
<1> DEFINE Ack(r) == "ACKNOWLEDGED" \in Range(timeline[r])
           Known(r) == state[r] = "ACKNOWLEDGED" \/ (pages[r] > 0 /\ state[r] \in Closed)
<1>1. ASSUME NEW r \in Refs, r \in created', Known(r)'
      PROVE  Ack(r)'
  <2> USE <1>1 DEF Closed, HumanOwned
  <2>1. pages[r] \in Nat /\ state[r] \in State /\ timeline[r] \in Seq(Written)
    BY DEF Typed
  <2>2. r \in created /\ Known(r) => Ack(r)
    BY DEF AcknowledgedIsRecorded, PagedCloseWasAcknowledged
  <2>3. r \in created /\ pages[r] > 0 => state[r] \in HumanOwned \cup Closed
    BY DEF AutomationEndsAtFirstPage
  <2>4. CASE Same(r)
    BY <2>2, <2>4 DEF Same
  <2>5. CASE Born(r)
    BY <2>5 DEF Born, FreshOutside
  <2>6. CASE Moved(r)
    <3>1. Range(timeline'[r]) = Range(timeline[r]) \cup {state'[r]}
      BY <2>1, <2>6, RangeOfAppend DEF Moved
    <3>2. Ack(r)' <=> Ack(r) \/ state'[r] = "ACKNOWLEDGED"
      BY <3>1
    <3>3. QED  BY <2>1, <2>2, <2>3, <2>6, <3>2 DEF Moved, ValidTargets, State
  <2>7. CASE TimedOut(r)
    BY <2>1, <2>2, <2>3, <2>7 DEF TimedOut, AfterTimeout, State
  <2>8. QED  BY <2>4, <2>5, <2>6, <2>7, StepOfOneObject
<1>2. created' \subseteq Refs
  BY DEF Typed
<1>3. QED  BY <1>1, <1>2 DEF AcknowledgedIsRecorded, PagedCloseWasAcknowledged

LEMMA ResolvedInductive ==
  ASSUME Typed, Typed', TrackedCreated, [Next]_vars, FreshOutside,
         UnmovedIsNew, ResolvedAtTellsClosed
  PROVE  UnmovedIsNew' /\ ResolvedAtTellsClosed'
<1> DEFINE Told(r) ==
       /\ state[r] = "DETECTED" \/ (state[r] = "RESOLVED" /\ r \notin resolvedAt) =>
            Range(timeline[r]) \subseteq {"anomaly"}
       /\ r \in resolvedAt => state[r] \in Closed
       /\ state[r] \in Closed /\ r \notin resolvedAt =>
            Range(timeline[r]) \subseteq {"anomaly", "POST_INCIDENT"}
<1>1. ASSUME NEW r \in Refs, r \in created'
      PROVE  Told(r)'
  <2> USE <1>1 DEF Closed
  <2>1. /\ state[r] \in State
        /\ timeline[r] \in Seq(Written)
        /\ r \in created => Told(r)
    BY DEF Typed, UnmovedIsNew, ResolvedAtTellsClosed
  <2>2. CASE Same(r)
    BY <2>1, <2>2 DEF Same
  <2>3. CASE Born(r)
    BY <2>3 DEF Born, FreshOutside, Range
  <2>4. CASE Moved(r)
    <3>1. Range(timeline'[r]) = Range(timeline[r]) \cup {state'[r]}
      BY <2>1, <2>4, RangeOfAppend DEF Moved
    <3>2. QED  BY <2>1, <2>4, <3>1 DEF Moved, ValidTargets, State
  <2>5. CASE TimedOut(r)
    BY <2>1, <2>5, SMTT(30) DEF TimedOut, AfterTimeout, State, TimedStates
  <2>6. QED  BY <2>2, <2>3, <2>4, <2>5, StepOfOneObject
<1>2. created' \subseteq Refs
  BY DEF Typed
<1>3. QED  BY <1>1, <1>2 DEF UnmovedIsNew, ResolvedAtTellsClosed

\* A timeout stays within the drift.
LEMMA DriftClosed ==
  ASSUME NEW e \in State, NEW s \in Drift(e)
  PROVE  AfterTimeout[s] \in Drift(e)
BY ZenonT(40) DEF Drift, AfterTimeout, State

LEMMA TimelineInductive ==
  ASSUME Typed, Typed', TrackedCreated, [Next]_vars, FreshOutside,
         TimelineExplainsState, NoActionWithoutRecord
  PROVE  TimelineExplainsState' /\ NoActionWithoutRecord'
<1> DEFINE
      Explained(tl, s) ==
        /\ Len(tl) > 0
        /\ tl[1] = "anomaly"
        /\ \A k \in 1 .. Len(tl) - 1 :
             \E x \in Drift(EnteredBy(tl[k])) : tl[k + 1] \in ValidTargets[x]
        /\ s \in Drift(EnteredBy(tl[Len(tl)]))
      OnRecord(tl, s) ==
        /\ s \in {"AUTO_REMEDIATING", "MONITORING_EFFECT"} => tl[Len(tl)] = s
        /\ \A k \in DOMAIN tl : tl[k] = "MONITORING_EFFECT" =>
             k > 1 /\ tl[k - 1] = "AUTO_REMEDIATING"
<1>1. ASSUME NEW r \in Refs, r \in created'
      PROVE  Explained(timeline'[r], state'[r]) /\ OnRecord(timeline'[r], state'[r])
  <2> USE <1>1
  <2> DEFINE tl == timeline[r]
             n == Len(tl)
             new == state'[r]
  <2>1. state[r] \in State /\ tl \in Seq(Written) /\ new \in State /\ n \in Nat
    BY DEF Typed
  <2>2. r \in created => Explained(tl, state[r]) /\ OnRecord(tl, state[r])
    BY DEF TimelineExplainsState, NoActionWithoutRecord
  <2>3. CASE Same(r)
    BY <2>2, <2>3 DEF Same
  <2>4. CASE Born(r)
    BY <2>4 DEF Born, FreshOutside, Drift, EnteredBy
  <2>5. CASE Moved(r)
    <3>1. timeline'[r] = Append(tl, new) /\ new \in ValidTargets[state[r]]
      BY <2>5 DEF Moved
    <3>2. /\ Len(Append(tl, new)) = n + 1
          /\ Append(tl, new)[n + 1] = new
          /\ \A k \in 1 .. n : Append(tl, new)[k] = tl[k]
          /\ DOMAIN Append(tl, new) = 1 .. n + 1
      BY <2>1
    <3>3. Explained(tl, state[r]) /\ OnRecord(tl, state[r])
      BY <2>2, <2>5 DEF Moved
    <3>4. EnteredBy(new) = new /\ new \in Drift(new)
      BY <2>1 DEF EnteredBy, Drift, State
    <3>5. \A k \in 1 .. n :
            \E x \in Drift(EnteredBy(Append(tl, new)[k])) :
              Append(tl, new)[k + 1] \in ValidTargets[x]
      <4>1. TAKE k \in 1 .. n
      <4>2. CASE k = n
        BY <2>1, <3>1, <3>2, <3>3, <4>2
      <4>3. CASE k # n
        <5>1. k \in 1 .. n - 1 /\ k + 1 \in 1 .. n
          BY <2>1, <4>3
        <5>2. QED  BY <3>2, <3>3, <5>1
      <4>4. QED  BY <4>2, <4>3
    <3>6. Explained(Append(tl, new), new)
      BY <2>1, <3>2, <3>3, <3>4, <3>5
    <3>7. new = "MONITORING_EFFECT" => state[r] = "AUTO_REMEDIATING"
      BY <2>1, <3>1 DEF ValidTargets, State
    <3>8. \A k \in 1 .. n + 1 : Append(tl, new)[k] = "MONITORING_EFFECT" =>
            k > 1 /\ Append(tl, new)[k - 1] = "AUTO_REMEDIATING"
      <4>1. TAKE k \in 1 .. n + 1
      <4>2. CASE k = n + 1
        BY <2>1, <3>2, <3>3, <3>7, <4>2
      <4>3. CASE k # n + 1
        <5>1. k \in 1 .. n /\ (k > 1 => k - 1 \in 1 .. n) /\ k \in DOMAIN tl
          BY <2>1, <4>3
        <5>2. QED  BY <3>2, <3>3, <5>1
      <4>4. QED  BY <4>2, <4>3
    <3>9. OnRecord(Append(tl, new), new)
      BY <2>1, <3>2, <3>8
    <3>10. QED  BY <3>1, <3>6, <3>9
  <2>6. CASE TimedOut(r)
    <3>1. new = AfterTimeout[state[r]] /\ timeline'[r] = tl
      BY <2>6 DEF TimedOut
    <3>2. Explained(tl, state[r]) /\ OnRecord(tl, state[r])
      BY <2>2, <2>6 DEF TimedOut
    <3>3. EnteredBy(tl[n]) \in State
      <4>1. n \in DOMAIN tl
        BY <2>1, <3>2
      <4>2. tl[n] \in Written
        BY <2>1, <4>1
      <4>3. QED  BY <4>2 DEF EnteredBy, Written, State
    <3>4. new \in Drift(EnteredBy(tl[n]))
      BY <3>1, <3>2, <3>3, DriftClosed
    <3>5. new \notin {"AUTO_REMEDIATING", "MONITORING_EFFECT"}
      BY <2>1, <3>1 DEF AfterTimeout, State
    <3>6. QED  BY <3>1, <3>2, <3>4, <3>5
  <2>7. QED  BY <2>3, <2>4, <2>5, <2>6, StepOfOneObject
<1>2. created' \subseteq Refs
  BY DEF Typed
<1>3. QED  BY <1>1, <1>2 DEF TimelineExplainsState, NoActionWithoutRecord
-----------------------------------------------------------------------------
(***************************************************************************)
(* The theorems.                                                           *)
(***************************************************************************)

Inductive ==
  /\ Typed
  /\ TrackedCreated
  /\ FreshOutside
  /\ AutomationEndsAtFirstPage
  /\ ContextSoFar
  /\ NoPageWithoutContext
  /\ AcknowledgedIsRecorded
  /\ PagedCloseWasAcknowledged
  /\ UnmovedIsNew
  /\ ResolvedAtTellsClosed
  /\ TimelineExplainsState
  /\ NoActionWithoutRecord

LEMMA InductiveInit == Init => Inductive
<1> SUFFICES ASSUME Init PROVE Inductive
  OBVIOUS
<1>1. created = {} /\ Tracked = {}
  BY DEF Init, Tracked
<1>2. FreshOutside
  BY DEF Init, FreshOutside
<1>3. QED
  BY <1>1, <1>2, TypeCorrectInit
  DEF Inductive, TrackedCreated, AutomationEndsAtFirstPage, ContextSoFar,
      NoPageWithoutContext, AcknowledgedIsRecorded, PagedCloseWasAcknowledged,
      UnmovedIsNew, ResolvedAtTellsClosed, TimelineExplainsState,
      NoActionWithoutRecord

LEMMA InductiveNext == Inductive /\ [Next]_vars => Inductive'
<1> SUFFICES ASSUME Inductive, [Next]_vars PROVE Inductive'
  OBVIOUS
<1>1. Typed'
  BY TypeCorrectNext DEF Inductive
<1>2. TrackedCreated'
  BY TrackedCreatedNext DEF Inductive
<1>3. FreshOutside' /\ AutomationEndsAtFirstPage'
  BY <1>1, PromisesInductive DEF Inductive
<1>4. ContextSoFar' /\ NoPageWithoutContext'
  BY <1>1, ContextInductive DEF Inductive
<1>5. AcknowledgedIsRecorded' /\ PagedCloseWasAcknowledged'
  BY <1>1, AcknowledgedInductive DEF Inductive
<1>6. UnmovedIsNew' /\ ResolvedAtTellsClosed'
  BY <1>1, ResolvedInductive DEF Inductive
<1>7. TimelineExplainsState' /\ NoActionWithoutRecord'
  BY <1>1, TimelineInductive DEF Inductive
<1>8. QED  BY <1>1, <1>2, <1>3, <1>4, <1>5, <1>6, <1>7 DEF Inductive

\* The inductive invariant holds in every reachable state of the engine.
THEOREM InductiveInvariant == Spec => []Inductive
BY InductiveInit, InductiveNext, PTL DEF Spec

\* A human is in charge exactly from the first page on, whatever the order
\* of transitions and sweeps (Transition and CheckTimeouts of engine.go).
THEOREM AutomationEnds == Spec => []AutomationEndsAtFirstPage
BY InductiveInvariant, PTL DEF Inductive

\* No page is sent without context, even when the deadlines of the
\* classifier and of the LLM race with their answers.
THEOREM PagesHaveContext == Spec => []NoPageWithoutContext
BY InductiveInvariant, PTL DEF Inductive

\* A paged incident is closed only after an acknowledgement.
THEOREM PagedCloseAcknowledged == Spec => []PagedCloseWasAcknowledged
BY InductiveInvariant, PTL DEF Inductive

\* ResolvedAt is missing only from incidents that expired in DETECTED.
THEOREM ResolvedAtTold == Spec => []ResolvedAtTellsClosed
BY InductiveInvariant, PTL DEF Inductive

\* The timeline explains the state, and every automated action is on it.
THEOREM TimelineHonest == Spec => [](TimelineExplainsState /\ NoActionWithoutRecord)
BY InductiveInvariant, PTL DEF Inductive

\* An object paged by a step had every channel called, and the channels of
\* the others are left alone.
LEMMA PagedThroughAll ==
  ASSUME NEW rs \in SUBSET Refs, NEW up \in Outcomes, EscalateToHuman(rs, up),
         NEW r \in rs
  PROVE  delivered'[r] \cup failed'[r] = Channels
BY DEF EscalateToHuman, Tried, Outcomes

\* Every entry into ESCALATED pages anew and calls every channel, whichever of
\* Transition and CheckTimeouts makes it and whichever channels fail.
THEOREM EveryChannelTried == Spec => EveryChannelIsTried
<1> DEFINE Reached(r) ==
      state[r] # "ESCALATED" /\ state'[r] = "ESCALATED" =>
        /\ pages'[r] > pages[r]
        /\ delivered'[r] \cup failed'[r] = Channels
<1>1. ASSUME Inductive, [Next]_vars, NEW r \in Refs,
             state[r] # "ESCALATED", state'[r] = "ESCALATED"
      PROVE  pages'[r] > pages[r] /\ delivered'[r] \cup failed'[r] = Channels
  <2>1. state[r] \in State /\ pages[r] \in Nat
    BY <1>1 DEF Inductive, Typed
  <2>2. CASE \E id \in Ids, s \in State, up \in Outcomes : Transition(id, s, up)
    <3>1. PICK id \in Ids, s \in State, up \in Outcomes : Transition(id, s, up)
      BY <2>2
    <3>2. r = incidents[id] /\ s = "ESCALATED"
      BY <1>1, <3>1 DEF Transition, Inductive, Typed
    <3>3. EscalateToHuman({r}, up)
      BY <3>1, <3>2 DEF Transition
    <3>4. pages'[r] = pages[r] + 1
      BY <3>3 DEF EscalateToHuman
    <3>5. delivered'[r] \cup failed'[r] = Channels
      BY <3>3, PagedThroughAll
    <3>6. QED  BY <2>1, <3>4, <3>5
  <2>3. CASE Sweep
    <3>1. PICK up \in Outcomes : CheckTimeouts(up)
      BY <2>3 DEF Sweep
    <3>2. r \in Expired /\ AfterTimeout[state[r]] = "ESCALATED"
      BY <1>1, <3>1 DEF CheckTimeouts, SweptTo
    <3>3. state[r] \in {"READY_TO_ESCALATE", "AUTO_REMEDIATING"}
      BY <1>1, <2>1, <3>2 DEF AfterTimeout, State
    <3>4. r \in PagedByTimeout
      BY <3>2, <3>3 DEF PagedByTimeout, TimedOutIn
    <3>5. PagedByTimeout \subseteq Refs
      BY <1>1 DEF PagedByTimeout, TimedOutIn, Expired, Tracked, Inductive, Typed
    <3>6. EscalateToHuman(PagedByTimeout, up)
      BY <3>1 DEF CheckTimeouts
    <3>7. pages'[r] = pages[r] + 1
      BY <3>4, <3>6 DEF EscalateToHuman
    <3>8. delivered'[r] \cup failed'[r] = Channels
      BY <3>4, <3>5, <3>6, PagedThroughAll
    <3>9. QED  BY <2>1, <3>7, <3>8
  <2>4. CASE state' = state
    BY <1>1, <2>4
  <2>5. QED  BY <1>1, <2>2, <2>3, <2>4
             DEF Next, CreateIncident, TransitionRefused, Tick, vars
<1>2. Inductive /\ [Next]_vars => [\A r \in Refs : Reached(r)]_vars
  BY <1>1
<1>3. QED  BY <1>2, InductiveInvariant, PTL DEF Spec, EveryChannelIsTried

\* The engine implements the abstract lifecycle: an incident goes from the
\* automation to a human to closed, never back, with a page whenever it
\* becomes a human's.
THEOREM EngineRefinesLifecycle == Spec => RefinesLifecycle
<1>1. Init => Lifecycle!Init
  BY DEF Init, Lifecycle!Init, PhaseOf
<1>2. ASSUME Inductive, [Next]_vars
      PROVE  [Lifecycle!Next]_(Lifecycle!lifecycle)
  <2> USE DEF PhaseOf, Automated, HumanOwned, Closed
  <2> DEFINE phi == [r \in Refs |-> PhaseOf(r)]
  <2>1. Typed /\ Typed'
    BY <1>2, TypeCorrectNext DEF Inductive
  <2>2. phi' \in [Refs -> Lifecycle!Phase] /\ pages' \in [Refs -> Nat]
    BY <2>1 DEF Typed, Lifecycle!Phase
  <2>3. ASSUME NEW r \in Refs
        PROVE  Lifecycle!Stay(r) \/ Lifecycle!Detect(r) \/ Lifecycle!Page(r) \/ Lifecycle!Close(r)
    <3>1. /\ phi[r] = PhaseOf(r)
          /\ phi'[r] = PhaseOf(r)'
          /\ state[r] \in State
          /\ pages[r] \in Nat
      BY <2>1 DEF Typed
    <3>2. CASE Same(r)
      <4>1. Lifecycle!Stay(r)
        BY <3>1, <3>2 DEF Same, Lifecycle!Stay
      <4>2. QED  BY <4>1
    <3>3. CASE Born(r)
      <4>1. state[r] = "DETECTED"
        BY <1>2, <3>3 DEF Inductive, FreshOutside, Born
      <4>2. Lifecycle!Detect(r)
        BY <3>1, <3>3, <4>1 DEF Born, Lifecycle!Detect
      <4>3. QED  BY <4>2
    <3>4. CASE Moved(r)
      BY <3>1, <3>4 DEF Moved, ValidTargets, State,
         Lifecycle!Stay, Lifecycle!Page, Lifecycle!Close
    <3>5. CASE TimedOut(r)
      BY <3>1, <3>5 DEF TimedOut, AfterTimeout, State,
         Lifecycle!Stay, Lifecycle!Page, Lifecycle!Close
    <3>6. QED  BY <1>2, <3>2, <3>3, <3>4, <3>5, StepOfOneObject DEF Inductive
  <2>4. QED  BY <2>2, <2>3 DEF Lifecycle!Next
<1>3. QED  BY <1>1, <1>2, InductiveInvariant, PTL DEF Spec, RefinesLifecycle, Lifecycle!Spec
=============================================================================
