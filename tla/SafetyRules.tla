---------------------------- MODULE SafetyRules -----------------------------
(***************************************************************************)
(* The safety engine of internal/operator/safety/rules.go and the          *)
(* remediation workers that consult it.                                    *)
(*                                                                         *)
(* A worker evaluates the rules for an action, carries the action out if   *)
(* all pass, and then calls RecordAction.  Evaluate and RecordAction each  *)
(* take the engine's lock for themselves, so other workers run in between. *)
(* The history they share is kept in memory only.                          *)
(*                                                                         *)
(* A time stamp is its age in ticks.  Ages stop at Hour + 1: neither the   *)
(* rate limit nor the pruning tells later ones apart.                      *)
(***************************************************************************)
EXTENDS Integers, FiniteSets

CONSTANTS Actions,        \* the actions proposed, in all
          Contexts,       \* the ActionContexts they may come with
          NumWorkers,     \* actions under way at once
          Protected,      \* protectedNamespaces
          MaxActions,     \* maxActionsPerHour
          MinCPUPercent,  \* minCPUPercent
          MaxCordonned,   \* maxCordonnedPercent
          Hour,           \* one hour, in ticks
          MaxRestarts     \* restarts of the operator process (model bound)

ActionType == {"THROTTLE_CPU", "RESTART_POD", "SCALE_DOWN", "ISOLATE_POD"}

ASSUME SafetyAssumption ==
  /\ \A c \in Contexts :
       /\ c.type \in ActionType
       /\ {c.newCPU, c.declaredCPU, c.replicas, c.pdbMin, c.cordonned, c.nodes} \subseteq Nat
       /\ {c.hasPDB, c.stateful} \subseteq BOOLEAN
  /\ IsFiniteSet(Actions)
  /\ {NumWorkers, MaxActions, Hour} \subseteq Nat \ {0}
  /\ {MinCPUPercent, MaxCordonned, MaxRestarts} \subseteq Nat

VARIABLES ctx,       \* the ActionContext of each action
          status,    \* how far it got
          actedAge,  \* time since it was carried out
          age,       \* now - its time stamp in actionHistory
          restarts   \* restarts so far

vars == <<ctx, status, actedAge, age, restarts>>

Age == 0 .. Hour + 1

\* An action is in actionHistory while it is "recorded".  It is "lost" if it
\* was carried out, and the process restarted since.
Status == {"new", "refused", "cleared", "acted", "recorded", "pruned", "lost"}

Executed == {a \in Actions : status[a] \in {"acted", "recorded", "pruned", "lost"}}
Underway == {a \in Actions : status[a] \in {"cleared", "acted"}}

\* actionHistory[pod]: the key is the pod's name, without its namespace.
History(pod) == {a \in Actions : status[a] = "recorded" /\ ctx[a].pod = pod}

\* Two contexts name the same pod of the cluster.
SamePod(c, d) == c.pod = d.pod /\ c.namespace = d.namespace

TypeOK ==
  /\ ctx \in [Actions -> Contexts]
  /\ status \in [Actions -> Status]
  /\ actedAge \in [Actions -> Age]
  /\ age \in [Actions -> Age]
  /\ restarts \in 0 .. MaxRestarts
-----------------------------------------------------------------------------
(***************************************************************************)
(* The rules, each named after its function.  CPU limits and node shares   *)
(* are compared in integers.                                               *)
(***************************************************************************)

checkProtectedNamespace(c) == c.namespace \notin Protected
checkSingleReplicaRestart(c) == c.type = "RESTART_POD" => c.replicas > 1 \/ c.hasPDB
checkMinCPUThrottle(c) ==
  c.type = "THROTTLE_CPU" /\ c.declaredCPU > 0 =>
    c.newCPU * 100 >= c.declaredCPU * MinCPUPercent
checkIsolateRequiresApproval(c) == c.type # "ISOLATE_POD"
checkPDBCompliance(c) ==
  c.type \in {"RESTART_POD", "SCALE_DOWN"} /\ c.hasPDB => c.replicas > c.pdbMin
checkStatefulSetRestart(c) == ~(c.type = "RESTART_POD" /\ c.stateful)
checkClusterUpgradeState(c) ==
  c.nodes > 0 => c.cordonned * 100 <= MaxCordonned * c.nodes

\* Mutant: the limit is on the actions of half an hour.
Recent_HalfHour(as) == {a \in as : age[a] < Hour \div 2}
Recent(as) == {a \in as : age[a] < Hour}

\* Mutant: one action too many is let through.
checkActionRateLimit_OffByOne(c) == Cardinality(Recent(History(c.pod))) <= MaxActions
checkActionRateLimit(c) == Cardinality(Recent(History(c.pod))) < MaxActions

AllRulesPass(c) ==
  /\ checkProtectedNamespace(c)
  /\ checkSingleReplicaRestart(c)
  /\ checkMinCPUThrottle(c)
  /\ checkActionRateLimit(c)
  /\ checkIsolateRequiresApproval(c)
  /\ checkPDBCompliance(c)
  /\ checkStatefulSetRestart(c)
  /\ checkClusterUpgradeState(c)
-----------------------------------------------------------------------------
Init ==
  /\ ctx \in [Actions -> Contexts]
  /\ status = [a \in Actions |-> "new"]
  /\ actedAge = [a \in Actions |-> 0]
  /\ age = [a \in Actions |-> 0]
  /\ restarts = 0

\* Evaluate, called by a free worker.  Only the rate limit reads the engine's
\* state, and only while it holds the lock.
Evaluate(a) ==
  /\ status[a] = "new"
  /\ Cardinality(Underway) < NumWorkers
  /\ status' = [status EXCEPT ![a] = IF AllRulesPass(ctx[a]) THEN "cleared" ELSE "refused"]
  /\ UNCHANGED <<ctx, actedAge, age, restarts>>

\* The worker carries the action out.
Execute(a) ==
  /\ status[a] = "cleared"
  /\ status' = [status EXCEPT ![a] = "acted"]
  /\ actedAge' = [actedAge EXCEPT ![a] = 0]
  /\ UNCHANGED <<ctx, age, restarts>>

\* What RecordAction drops from the history of its pod.  Mutant: it drops
\* nothing.
Stale_Never(pod) == {}
Stale(pod) == {a \in History(pod) : age[a] > Hour}

\* RecordAction, for an action that was carried out.
RecordAction(a) ==
  /\ status[a] = "acted"
  /\ status' = [b \in Actions |->
                  IF b = a THEN "recorded"
                  ELSE IF b \in Stale(ctx[a].pod) THEN "pruned" ELSE status[b]]
  /\ age' = [age EXCEPT ![a] = 0]
  /\ UNCHANGED <<ctx, actedAge, restarts>>

Older(n) == IF n < Hour + 1 THEN n + 1 ELSE n

Tick ==
  /\ actedAge' = [a \in Actions |-> Older(actedAge[a])]
  /\ age' = [a \in Actions |-> Older(age[a])]
  /\ UNCHANGED <<ctx, status, restarts>>

\* The operator process restarts: NewEngine starts from an empty history, and
\* what the workers were about to do or to record is lost.
Restart ==
  /\ restarts < MaxRestarts
  /\ restarts' = restarts + 1
  /\ status' = [a \in Actions |->
                  CASE status[a] \in {"acted", "recorded"} -> "lost"
                    [] status[a] = "cleared" -> "refused"
                    [] OTHER -> status[a]]
  /\ UNCHANGED <<ctx, actedAge, age>>

Next ==
  \/ \E a \in Actions : Evaluate(a) \/ Execute(a) \/ RecordAction(a)
  \/ Tick
  \/ Restart

Spec == Init /\ [][Next]_vars
-----------------------------------------------------------------------------
\* The actions on the pod of c carried out in the last hour.
InLastHour(c) == {a \in Executed : SamePod(ctx[a], c) /\ actedAge[a] < Hour}
Lost == {a \in Actions : status[a] = "lost"}

\* "Max 3 automated actions per pod per hour" (rules.go, Rule 4), counted
\* when they are carried out, however late each is recorded.
AtMostMaxPerHour ==
  \A c \in Contexts : Cardinality(InLastHour(c)) <= MaxActions

\* The same, of the actions since the operator last started.
AtMostMaxPerHourSinceStart ==
  \A c \in Contexts : Cardinality(InLastHour(c) \ Lost) <= MaxActions

\* The history is lost with the process (NewEngine), so a restart lets a pod be
\* acted on anew, but never by more than one allotment each, however the lost
\* records, the actions cut short and the passing of the hour fall together.
EachRestartGrantsOneAllotment ==
  \A c \in Contexts : Cardinality(InLastHour(c)) <= (restarts + 1) * MaxActions

\* The history of a pod does not grow with the number of its actions: what
\* RecordAction keeps beyond the actions that count are those that turned an
\* hour old at that moment or later.
HistoryIsBounded ==
  \A c \in Contexts : Cardinality(History(c.pod)) <= 2 * MaxActions
=============================================================================
