----------------------------- MODULE Escalation -----------------------------
(***************************************************************************)
(* The incident escalation engine of internal/escalation/engine.go.        *)
(*                                                                         *)
(* The engine keeps a map from incident ids to heap-allocated              *)
(* ManagedIncident objects.  Callers create incidents and move them along  *)
(* the lifecycle with Transition; a periodic sweep, CheckTimeouts, moves   *)
(* those that have stayed too long in a state.  Entering ESCALATED pages a *)
(* human through every configured channel; a channel's Send may fail, and  *)
(* a failure is logged and forgotten.  Every method holds the engine's     *)
(* mutex, so each is one atomic step here.                                 *)
(*                                                                         *)
(* Wall-clock time is abstracted to `age', the time an incident has been   *)
(* in its state, which stops counting once the state's timeout is reached  *)
(* (the code never distinguishes later ages).                              *)
(***************************************************************************)
EXTENDS Naturals, Sequences, Functions

CONSTANTS Ids,        \* incident ids, chosen by the callers of CreateIncident
          Refs,       \* heap addresses of ManagedIncident objects
          NoIncident, \* what the map yields for an absent id
          Channels,   \* the EscalationChannels registered with AddChannel
          Timeout,    \* stateTimeout, in ticks
          UniqueIds,  \* TRUE: callers never create two incidents of one id
          MaxEvents   \* bound on the length of a timeline (model bound)

State == {"DETECTED", "CLASSIFYING", "CORRELATING", "READY_TO_ESCALATE",
          "AUTO_REMEDIATING", "MONITORING_EFFECT", "ESCALATED",
          "ACKNOWLEDGED", "RESOLVED", "POST_INCIDENT"}

\* The states that have an entry in stateTimeout: all but POST_INCIDENT.
TimedStates == State \ {"POST_INCIDENT"}

ASSUME EscalationAssumption ==
  /\ NoIncident \notin Refs
  /\ Timeout \in [TimedStates -> Nat \ {0}]
  /\ UniqueIds \in BOOLEAN
  /\ MaxEvents \in Nat

\* The types of timeline events: those that the comment of TimelineEvent
\* lists, and the names of the states, which are what Transition writes.
EventType ==
  {"anomaly", "classification", "correlation", "safety", "remediation",
   "escalation", "resolution"} \cup State

VARIABLES
  incidents,   \* Engine.incidents: id -> object
  created,     \* the objects CreateIncident has allocated
  state,       \* ManagedIncident.State
  age,         \* now - ManagedIncident.StateEnteredAt, capped
  timeline,    \* the Types of ManagedIncident.TimelineEvents
  resolvedAt,  \* the objects whose ResolvedAt is set
  generic,     \* the objects whose IncidentCode was replaced by "GENERIC"
  noAI,        \* the objects whose AIExplanation says that it timed out
  pages,       \* how often escalateToHuman was called for the object
  delivered,   \* the channels whose Send accepted the latest page
  failed       \* the channels whose Send returned an error for it

vars == <<incidents, created, state, age, timeline, resolvedAt, generic,
          noAI, pages, delivered, failed>>

TypeOK ==
  /\ incidents \in [Ids -> Refs \cup {NoIncident}]
  /\ created \subseteq Refs
  /\ state \in [Refs -> State]
  /\ age \in [Refs -> Nat]
  /\ timeline \in [Refs -> Seq(EventType)]
  /\ resolvedAt \subseteq Refs
  /\ generic \subseteq Refs
  /\ noAI \subseteq Refs
  /\ pages \in [Refs -> Nat]
  /\ delivered \in [Refs -> SUBSET Channels]
  /\ failed \in [Refs -> SUBSET Channels]
-----------------------------------------------------------------------------
(***************************************************************************)
(* The transition table and the timeouts.                                  *)
(***************************************************************************)

\* isValidTransition: the states Transition may move an incident to.
ValidTargets ==
  [s \in State |->
     CASE s = "DETECTED"          -> {"CLASSIFYING", "RESOLVED"}
       [] s = "CLASSIFYING"       -> {"CORRELATING"}
       [] s = "CORRELATING"       -> {"READY_TO_ESCALATE"}
       [] s = "READY_TO_ESCALATE" -> {"ESCALATED", "AUTO_REMEDIATING"}
       [] s = "AUTO_REMEDIATING"  -> {"MONITORING_EFFECT", "ESCALATED"}
       [] s = "MONITORING_EFFECT" -> {"RESOLVED", "ESCALATED"}
       [] s = "ESCALATED"         -> {"ACKNOWLEDGED"}
       [] s = "ACKNOWLEDGED"      -> {"RESOLVED", "ESCALATED"}
       [] s = "RESOLVED"          -> {"POST_INCIDENT"}
       [] s = "POST_INCIDENT"     -> {}]

\* Mutants of isValidTransition: a closed incident may be reopened; an
\* incident nobody acknowledged may be resolved.
IsValidTransition_Reopens(from, to) ==
  to \in ValidTargets[from] \/ (from = "RESOLVED" /\ to = "DETECTED")
IsValidTransition_SelfHeals(from, to) ==
  to \in ValidTargets[from] \/ (from = "ESCALATED" /\ to = "RESOLVED")

IsValidTransition(from, to) == to \in ValidTargets[from]

\* The state an expired incident is moved to by CheckTimeouts.  ESCALATED,
\* ACKNOWLEDGED and RESOLVED are timed but not moved: their clock restarts.
AfterTimeout ==
  [s \in State |->
     CASE s = "DETECTED"          -> "RESOLVED"
       [] s = "CLASSIFYING"       -> "CORRELATING"
       [] s = "CORRELATING"       -> "READY_TO_ESCALATE"
       [] s = "READY_TO_ESCALATE" -> "ESCALATED"
       [] s = "AUTO_REMEDIATING"  -> "ESCALATED"
       [] s = "MONITORING_EFFECT" -> "RESOLVED"
       [] OTHER                   -> s]

Tracked == {incidents[id] : id \in Ids} \ {NoIncident}

\* Mutant: the analysis has no deadline.
Expired_NoLLMDeadline ==
  {r \in Tracked : /\ state[r] \in TimedStates \ {"CORRELATING"}
                   /\ age[r] >= Timeout[state[r]]}

Expired == {r \in Tracked : /\ state[r] \in TimedStates
                            /\ age[r] >= Timeout[state[r]]}
-----------------------------------------------------------------------------
(***************************************************************************)
(* The operations.                                                         *)
(***************************************************************************)

Init ==
  /\ incidents = [id \in Ids |-> NoIncident]
  /\ created = {}
  /\ state = [r \in Refs |-> "DETECTED"]
  /\ age = [r \in Refs |-> 0]
  /\ timeline = [r \in Refs |-> <<>>]
  /\ resolvedAt = {}
  /\ generic = {}
  /\ noAI = {}
  /\ pages = [r \in Refs |-> 0]
  /\ delivered = [r \in Refs |-> {}]
  /\ failed = [r \in Refs |-> {}]

\* CreateIncident allocates a fresh object in DETECTED and stores it under
\* its id, replacing whatever the map held there.
CreateIncident(id, r) ==
  /\ r \notin created
  /\ UniqueIds => incidents[id] = NoIncident
  /\ 0 < MaxEvents
  /\ incidents' = [incidents EXCEPT ![id] = r]
  /\ created' = created \cup {r}
  /\ timeline' = [timeline EXCEPT ![r] = <<"anomaly">>]
  /\ UNCHANGED <<state, age, resolvedAt, generic, noAI, pages, delivered, failed>>

\* The channels that escalateToHuman calls when those of `up' work: an error
\* is logged, and the loop goes on.  Mutant: the first error ends the loop.
Tried_UntilOneFails(up) ==
  IF up = Channels THEN up ELSE {CHOOSE c \in Channels : c \notin up}
Tried(up) == Channels

\* escalateToHuman for each object of rs, when the channels that work are
\* those of up[r].
EscalateToHuman(rs, up) ==
  /\ pages' = [r \in Refs |-> IF r \in rs THEN pages[r] + 1 ELSE pages[r]]
  /\ delivered' = [r \in Refs |-> IF r \in rs THEN Tried(up[r]) \cap up[r] ELSE delivered[r]]
  /\ failed' = [r \in Refs |-> IF r \in rs THEN Tried(up[r]) \ up[r] ELSE failed[r]]

\* A Transition that isValidTransition admits.
Transition(id, newState, up) ==
  LET r == incidents[id] IN
  /\ r # NoIncident
  /\ IsValidTransition(state[r], newState)
  /\ Len(timeline[r]) < MaxEvents
  /\ state' = [state EXCEPT ![r] = newState]
  /\ age' = [age EXCEPT ![r] = 0]
  /\ timeline' = [timeline EXCEPT ![r] = Append(@, newState)]
  /\ resolvedAt' =
       IF newState = "RESOLVED" THEN resolvedAt \cup {r} ELSE resolvedAt
  /\ EscalateToHuman(IF newState = "ESCALATED" THEN {r} ELSE {}, up)
  /\ UNCHANGED <<incidents, created, generic, noAI>>

\* A Transition of an unknown id, or one outside the table, returns an error
\* and changes nothing.
TransitionRefused(id, newState) ==
  /\ incidents[id] # NoIncident =>
       ~IsValidTransition(state[incidents[id]], newState)
  /\ UNCHANGED vars

\* What a sweep does to the expired incidents it finds in each state.
TimedOutIn(s) == {r \in Expired : state[r] = s}

\* Mutants: an expired analysis leaves no mark; an incident declared resolved
\* has no ResolvedAt; a failed remediation pages nobody.
WithoutAI_Unmarked == {}
ResolvedByTimeout_Undated == {}
PagedByTimeout_NotAuto == TimedOutIn("READY_TO_ESCALATE")

WithoutAI == TimedOutIn("CORRELATING")
ResolvedByTimeout == TimedOutIn("MONITORING_EFFECT")
PagedByTimeout ==
  TimedOutIn("READY_TO_ESCALATE") \cup TimedOutIn("AUTO_REMEDIATING")

\* Where a sweep leaves an incident.  Mutant: the next state is looked up in
\* a map that has no entry for the states that stay, which yields "".
SweptTo_NoEntry(r) ==
  IF r \notin Expired THEN state[r]
  ELSE IF AfterTimeout[state[r]] = state[r] THEN "" ELSE AfterTimeout[state[r]]
SweptTo(r) == IF r \in Expired THEN AfterTimeout[state[r]] ELSE state[r]

\* CheckTimeouts: one sweep over all tracked incidents under the mutex.  It
\* appends no timeline event.
CheckTimeouts(up) ==
  /\ state' = [r \in Refs |-> SweptTo(r)]
  /\ age' = [r \in Refs |-> IF r \in Expired THEN 0 ELSE age[r]]
  /\ resolvedAt' = resolvedAt \cup ResolvedByTimeout
  /\ generic' = generic \cup TimedOutIn("CLASSIFYING")
  /\ noAI' = noAI \cup WithoutAI
  /\ EscalateToHuman(PagedByTimeout, up)
  /\ UNCHANGED <<incidents, created, timeline>>

\* The clock.
Tick ==
  /\ age' = [r \in Refs |->
               IF /\ r \in created
                  /\ state[r] \in TimedStates
                  /\ age[r] < Timeout[state[r]]
               THEN age[r] + 1 ELSE age[r]]
  /\ UNCHANGED <<incidents, created, state, timeline, resolvedAt, generic,
                 noAI, pages, delivered, failed>>

\* The channels that work when an object is paged: any.
Outcomes == [Refs -> SUBSET Channels]

Sweep == \E up \in Outcomes : CheckTimeouts(up)

Next ==
  \/ \E id \in Ids, r \in Refs : CreateIncident(id, r)
  \/ \E id \in Ids, s \in State, up \in Outcomes : Transition(id, s, up)
  \/ \E id \in Ids, s \in State : TransitionRefused(id, s)
  \/ Sweep
  \/ Tick

\* The process that owns the engine is expected to keep calling
\* CheckTimeouts, and time passes.  Nothing obliges a caller to Transition.
Fairness == WF_vars(Tick) /\ WF_vars(Sweep)

Spec == Init /\ [][Next]_vars
FairSpec == Spec /\ Fairness
-----------------------------------------------------------------------------
(***************************************************************************)
(* What the engine promises.                                               *)
(***************************************************************************)

Automated == {"DETECTED", "CLASSIFYING", "CORRELATING", "READY_TO_ESCALATE",
              "AUTO_REMEDIATING", "MONITORING_EFFECT"}
HumanOwned == {"ESCALATED", "ACKNOWLEDGED"}
Closed == {"RESOLVED", "POST_INCIDENT"}

\* Timeouts leave no event, so the timeline shows only part of the path.
\* These are the states an incident may have drifted to, without an event,
\* since it entered s.
Drift(s) ==
  LET one == AfterTimeout[s]
      two == AfterTimeout[one]
  IN  {s, one, two, AfterTimeout[two]}

EnteredBy(event) == IF event = "anomaly" THEN "DETECTED" ELSE event

\* The timeline is an honest, if incomplete, account of an incident: each
\* event is a transition the table admits from where timeouts may have taken
\* the incident since the event before, and its present state is where they
\* may have taken it since the last one (Transition and CheckTimeouts of
\* engine.go write the state in two different ways).
TimelineExplainsState ==
  \A r \in created :
    LET tl == timeline[r] IN
    /\ Len(tl) > 0
    /\ tl[1] = "anomaly"
    /\ \A k \in 1 .. Len(tl) - 1 :
         \E s \in Drift(EnteredBy(tl[k])) : tl[k + 1] \in ValidTargets[s]
    /\ state[r] \in Drift(EnteredBy(tl[Len(tl)]))

\* "no automated action executes without a record" (engine.go, package
\* comment): while the operator acts, or its effect is watched, the last
\* event says so, and an observed effect is preceded by the action.
NoActionWithoutRecord ==
  \A r \in created :
    LET tl == timeline[r] IN
    /\ state[r] \in {"AUTO_REMEDIATING", "MONITORING_EFFECT"} =>
         tl[Len(tl)] = state[r]
    /\ \A k \in DOMAIN tl : tl[k] = "MONITORING_EFFECT" =>
         k > 1 /\ tl[k - 1] = "AUTO_REMEDIATING"

\* "no page is sent without context" (engine.go, package comment): a paged
\* incident was classified or marked GENERIC, and its analysis was reported
\* done or its explanation says that it timed out, whichever of the sweep
\* and the pipeline moved it.
NoPageWithoutContext ==
  \A r \in created : pages[r] > 0 =>
    /\ "CORRELATING" \in Range(timeline[r]) \/ r \in generic
    /\ "READY_TO_ESCALATE" \in Range(timeline[r]) \/ r \in noAI

\* A human is in charge exactly from the first page on: no later call or
\* timeout hands a paged incident back to the automation, and no incident is
\* in a human's hands without a page (Transition, CheckTimeouts).
AutomationEndsAtFirstPage ==
  \A r \in created :
    /\ pages[r] > 0 => state[r] \in HumanOwned \cup Closed
    /\ state[r] \in HumanOwned => pages[r] > 0

\* A paged incident is closed only after a human acknowledged it: metrics
\* that recover by themselves, or a timeout, do not close it.
PagedCloseWasAcknowledged ==
  \A r \in created : pages[r] > 0 /\ state[r] \in Closed =>
    "ACKNOWLEDGED" \in Range(timeline[r])

\* ResolvedAt, from which the postmortem computes the duration, is set in
\* closed incidents only, and in all of them but those that expired in
\* DETECTED, for which the postmortem says "ongoing" (postmortem.go).
ResolvedAtTellsClosed ==
  \A r \in created :
    /\ r \in resolvedAt => state[r] \in Closed
    /\ state[r] \in Closed /\ r \notin resolvedAt =>
         Range(timeline[r]) \subseteq {"anomaly", "POST_INCIDENT"}

\* Channels fail, one or all of them, and the incident becomes ESCALATED all
\* the same, with nothing to retry (escalateToHuman): so whoever put it there,
\* Transition or a sweep that moves several at once, has paged anew and called
\* every channel, those behind one that failed included.
EveryChannelIsTried ==
  [][\A r \in Refs : state[r] # "ESCALATED" /\ state'[r] = "ESCALATED" =>
       /\ pages'[r] > pages[r]
       /\ delivered'[r] \cup failed'[r] = Channels]_vars
-----------------------------------------------------------------------------
(***************************************************************************)
(* What comments of engine.go say, and the code does not do.               *)
(***************************************************************************)

\* The sweep restarted the clock of an incident that stays in s.
RestartedIn(s, r) ==
  state[r] = s /\ state'[r] = s /\ age'[r] < age[r]

\* "P0: 5 min, P1: 15 min -> page next on-call" and "1 hour still open ->
\* escalate to manager" (CheckTimeouts): an incident that a human leaves
\* alone past its deadline is paged for again.
OverdueIsPagedAgain ==
  [][\A r \in Refs, s \in HumanOwned :
       RestartedIn(s, r) => pages'[r] > pages[r]]_vars
=============================================================================
