---------------------------- MODULE SafetyProofs ----------------------------
(***************************************************************************)
(* Theorems about SafetyRules, for any actions, contexts, limits and hour. *)
(*                                                                         *)
(* The rate limit is proved of one worker: SafetyConcurrent.cfg shows that *)
(* two exceed it.  A restart empties the history, so that the limit holds  *)
(* of the actions since the latest one; each grants a pod as many again.   *)
(*                                                                         *)
(* Argument.  An action uses a slot of its pod from the moment it is       *)
(* cleared until it was recorded for an hour (Using).  Evaluate clears an  *)
(* action only when it is the only one under way, so that every other slot *)
(* in use is in the history, where checkActionRateLimit counts it; no      *)
(* other step takes a slot.  An action carried out within the hour is      *)
(* either unrecorded or recorded after it was carried out, hence uses one. *)
(***************************************************************************)
EXTENDS SafetyRules, FiniteSetTheorems, TLAPS

Serial == NumWorkers = 1

Using(pod) ==
  {a \in Actions : /\ ctx[a].pod = pod
                   /\ \/ status[a] = "recorded" /\ age[a] < Hour
                      \/ status[a] \in {"cleared", "acted"}}

SlotsBounded == \A c \in Contexts : Cardinality(Using(c.pod)) <= MaxActions

\* The record of an action is not older than the action, and only those that
\* are over an hour old are pruned.
RecordedAfterActed ==
  \A a \in Actions :
    /\ status[a] = "recorded" => age[a] <= actedAge[a]
    /\ status[a] = "pruned" => actedAge[a] > Hour

IInv == TypeOK /\ RecordedAfterActed /\ SlotsBounded
-----------------------------------------------------------------------------
\* Every variable keeps its type, whatever the number of workers and restarts.
THEOREM TypeCorrect == Spec => []TypeOK
<1> USE SafetyAssumption
<1>1. Init => TypeOK
  BY DEF Init, TypeOK, Status, Age
<1>2. TypeOK /\ [Next]_vars => TypeOK'
  <2> SUFFICES ASSUME TypeOK, [Next]_vars PROVE TypeOK'
    OBVIOUS
  <2> USE DEF TypeOK, Status, Age
  <2>1. ASSUME NEW a \in Actions, Evaluate(a) PROVE TypeOK'
    BY <2>1 DEF Evaluate
  <2>2. ASSUME NEW a \in Actions, Execute(a) PROVE TypeOK'
    BY <2>2 DEF Execute
  <2>3. ASSUME NEW a \in Actions, RecordAction(a) PROVE TypeOK'
    BY <2>3 DEF RecordAction
  <2>4. CASE Tick
    BY <2>4 DEF Tick, Older
  <2>5. CASE Restart
    BY <2>5 DEF Restart
  <2>6. CASE UNCHANGED vars
    BY <2>6 DEF vars
  <2> QED BY <2>1, <2>2, <2>3, <2>4, <2>5, <2>6 DEF Next
<1> QED BY <1>1, <1>2, PTL DEF Spec

\* Sets of actions are finite, and a subset is not larger.
LEMMA ActionSets ==
  ASSUME NEW S \in SUBSET Actions, NEW T \in SUBSET S
  PROVE  /\ IsFiniteSet(S) /\ Cardinality(S) \in Nat
         /\ Cardinality(T) \in Nat /\ Cardinality(T) <= Cardinality(S)
<1> USE SafetyAssumption
<1>1. IsFiniteSet(S) /\ IsFiniteSet(T)
  BY FS_Subset
<1> QED BY <1>1, FS_CardinalityType, FS_Subset

\* With one worker, an action is evaluated only if none is under way.
LEMMA FreeWorker ==
  ASSUME Serial, Cardinality(Underway) < NumWorkers
  PROVE  Underway = {}
<1>1. IsFiniteSet(Underway) /\ Cardinality(Underway) \in Nat
  BY ActionSets DEF Underway
<1>2. Cardinality(Underway) = 0
  BY <1>1 DEF Serial
<1> QED BY <1>1, <1>2, FS_EmptySet
-----------------------------------------------------------------------------
\* A step that frees slots only keeps the bound.
LEMMA SlotsFreed ==
  ASSUME SlotsBounded, \A c \in Contexts : Using(c.pod)' \subseteq Using(c.pod)
  PROVE  SlotsBounded'
<1> SUFFICES ASSUME NEW c \in Contexts
             PROVE  Cardinality(Using(c.pod)') <= MaxActions
  BY DEF SlotsBounded
<1>1. /\ Cardinality(Using(c.pod)') \in Nat /\ Cardinality(Using(c.pod)) \in Nat
      /\ Cardinality(Using(c.pod)') <= Cardinality(Using(c.pod))
  BY ActionSets DEF Using
<1>2. Cardinality(Using(c.pod)) <= MaxActions
  BY DEF SlotsBounded
<1> QED BY <1>1, <1>2, SafetyAssumption

\* Clearing an action takes a slot that checkActionRateLimit found free.
LEMMA EvaluateKeepsSlots ==
  ASSUME Serial, TypeOK, SlotsBounded, NEW a \in Actions, Evaluate(a)
  PROVE  SlotsBounded'
<1> SUFFICES ASSUME NEW c \in Contexts
             PROVE  Cardinality(Using(c.pod)') <= MaxActions
  BY DEF SlotsBounded
<1>1. Underway = {}
  BY FreeWorker DEF Evaluate
<1>2. Using(c.pod) = Recent(History(c.pod))
  BY <1>1 DEF Using, Recent, History, Underway
<1>3. CASE AllRulesPass(ctx[a]) /\ ctx[a].pod = c.pod
  <2>1. Using(c.pod)' = Using(c.pod) \cup {a}
    BY <1>3 DEF Evaluate, Using, TypeOK
  <2>2. Cardinality(Using(c.pod)) < MaxActions
    BY <1>2, <1>3 DEF AllRulesPass, checkActionRateLimit
  <2>3. IsFiniteSet(Using(c.pod)) /\ Cardinality(Using(c.pod)) \in Nat
    BY ActionSets DEF Using
  <2>4. a \notin Using(c.pod)
    BY <1>2 DEF Evaluate, Recent, History
  <2>5. Cardinality(Using(c.pod) \cup {a}) = Cardinality(Using(c.pod)) + 1
    BY <2>3, <2>4, FS_AddElement
  <2> QED BY <2>1, <2>2, <2>3, <2>4, <2>5, SafetyAssumption
<1>4. CASE ~(AllRulesPass(ctx[a]) /\ ctx[a].pod = c.pod)
  <2>1. Using(c.pod)' \subseteq Using(c.pod)
    BY <1>4 DEF Evaluate, Using, TypeOK
  <2>2. /\ Cardinality(Using(c.pod)') \in Nat /\ Cardinality(Using(c.pod)) \in Nat
        /\ Cardinality(Using(c.pod)') <= Cardinality(Using(c.pod))
    BY <2>1, ActionSets DEF Using
  <2>3. Cardinality(Using(c.pod)) <= MaxActions
    BY DEF SlotsBounded
  <2> QED BY <2>2, <2>3, SafetyAssumption
<1> QED BY <1>3, <1>4
-----------------------------------------------------------------------------
\* The invariant of the serial engine.
THEOREM SerialInvariant ==
  ASSUME Serial
  PROVE  Spec => []IInv
<1> USE SafetyAssumption
<1>1. Init => IInv
  <2> SUFFICES ASSUME Init PROVE RecordedAfterActed /\ SlotsBounded
    BY DEF IInv, Init, TypeOK, Status, Age
  <2>1. \A c \in Contexts : Using(c.pod) = {}
    BY DEF Init, Using
  <2>2. Cardinality({}) = 0
    BY FS_EmptySet
  <2>3. SlotsBounded
    BY <2>1, <2>2 DEF SlotsBounded
  <2> QED BY <2>3 DEF Init, RecordedAfterActed
<1>2. IInv /\ TypeOK' /\ [Next]_vars => IInv'
  <2> SUFFICES ASSUME IInv, TypeOK', [Next]_vars
               PROVE  RecordedAfterActed' /\ SlotsBounded'
    BY DEF IInv
  <2> USE DEF IInv, TypeOK
  <2>1. ASSUME NEW a \in Actions, Evaluate(a)
        PROVE  RecordedAfterActed' /\ SlotsBounded'
    <3>1. RecordedAfterActed'
      BY <2>1 DEF Evaluate, RecordedAfterActed
    <3>2. SlotsBounded'
      BY <2>1, EvaluateKeepsSlots
    <3> QED BY <3>1, <3>2
  <2>2. ASSUME NEW a \in Actions, Execute(a)
        PROVE  RecordedAfterActed' /\ SlotsBounded'
    <3>1. RecordedAfterActed'
      BY <2>2 DEF Execute, RecordedAfterActed
    <3>2. \A c \in Contexts : Using(c.pod)' \subseteq Using(c.pod)
      BY <2>2 DEF Execute, Using
    <3> QED BY <3>1, <3>2, SlotsFreed
  <2>3. ASSUME NEW a \in Actions, RecordAction(a)
        PROVE  RecordedAfterActed' /\ SlotsBounded'
    <3>1. RecordedAfterActed'
      BY <2>3 DEF RecordAction, RecordedAfterActed, Stale, History, Age
    <3>2. \A c \in Contexts : Using(c.pod)' \subseteq Using(c.pod)
      BY <2>3 DEF RecordAction, Using, Stale, History
    <3> QED BY <3>1, <3>2, SlotsFreed
  <2>4. CASE Tick
    <3>1. RecordedAfterActed'
      BY <2>4 DEF Tick, Older, RecordedAfterActed, Age
    <3>2. \A c \in Contexts : Using(c.pod)' \subseteq Using(c.pod)
      BY <2>4 DEF Tick, Older, Using, Age
    <3> QED BY <3>1, <3>2, SlotsFreed
  <2>5. CASE Restart
    <3>1. RecordedAfterActed'
      BY <2>5 DEF Restart, RecordedAfterActed
    <3>2. \A c \in Contexts : Using(c.pod)' \subseteq Using(c.pod)
      BY <2>5 DEF Restart, Using
    <3> QED BY <3>1, <3>2, SlotsFreed
  <2>6. CASE UNCHANGED vars
    <3>1. \A c \in Contexts : Using(c.pod)' \subseteq Using(c.pod)
      BY <2>6 DEF vars, Using
    <3>2. RecordedAfterActed'
      BY <2>6 DEF vars, RecordedAfterActed
    <3> QED BY <3>1, <3>2, SlotsFreed
  <2> QED BY <2>1, <2>2, <2>3, <2>4, <2>5, <2>6 DEF Next
<1> QED BY <1>1, <1>2, TypeCorrect, PTL DEF Spec

\* "Max 3 automated actions per pod per hour": with one worker a pod never
\* sees more than MaxActions actions within an hour since the operator
\* started, counted when they are carried out, however late each is recorded
\* (Evaluate, RecordAction, NewEngine).
THEOREM RateLimitHoldsSinceStart ==
  ASSUME Serial
  PROVE  Spec => []AtMostMaxPerHourSinceStart
<1> USE SafetyAssumption
<1>1. IInv => AtMostMaxPerHourSinceStart
  <2> SUFFICES ASSUME IInv, NEW c \in Contexts
               PROVE  Cardinality(InLastHour(c) \ Lost) <= MaxActions
    BY DEF AtMostMaxPerHourSinceStart
  <2>1. InLastHour(c) \ Lost \subseteq Using(c.pod)
    BY DEF InLastHour, Lost, Executed, SamePod, Using, IInv, TypeOK, RecordedAfterActed, Age
  <2>2. /\ Cardinality(InLastHour(c) \ Lost) \in Nat /\ Cardinality(Using(c.pod)) \in Nat
        /\ Cardinality(InLastHour(c) \ Lost) <= Cardinality(Using(c.pod))
    BY <2>1, ActionSets DEF Using
  <2>3. Cardinality(Using(c.pod)) <= MaxActions
    BY DEF IInv, SlotsBounded
  <2> QED BY <2>2, <2>3
<1> QED BY <1>1, SerialInvariant, PTL

\* Without a restart there is nothing to except.
THEOREM RateLimitHolds ==
  ASSUME Serial, MaxRestarts = 0
  PROVE  Spec => []AtMostMaxPerHour
<1> DEFINE NothingLost == TypeOK /\ Lost = {}
<1>1. Init => NothingLost
  BY SafetyAssumption DEF Init, Lost, TypeOK, Status, Age
<1>2. NothingLost /\ TypeOK' /\ [Next]_vars => NothingLost'
  <2> SUFFICES ASSUME TypeOK, Lost = {}, [Next]_vars
               PROVE  \A b \in Actions : status'[b] # "lost"
    BY DEF Lost
  <2>1. \A b \in Actions : status[b] # "lost"
    BY DEF Lost
  <2>2. ~Restart
    BY DEF Restart, TypeOK
  <2> QED BY <2>1, <2>2
      DEF Next, Evaluate, Execute, RecordAction, Tick, vars, TypeOK
<1>3. NothingLost /\ AtMostMaxPerHourSinceStart => AtMostMaxPerHour
  <2> SUFFICES ASSUME Lost = {}, NEW c \in Contexts
               PROVE  InLastHour(c) \ Lost = InLastHour(c)
    BY DEF AtMostMaxPerHour, AtMostMaxPerHourSinceStart
  <2> QED OBVIOUS
<1> QED BY <1>1, <1>2, <1>3, TypeCorrect, RateLimitHoldsSinceStart, PTL DEF Spec
-----------------------------------------------------------------------------
\* The actions of the last hour that the history has lost.
Forgotten(c) == InLastHour(c) \cap Lost
ForgottenBounded == \A c \in Contexts : Cardinality(Forgotten(c)) <= MaxActions * restarts

\* A step that forgets nothing more keeps the bound.
LEMMA NothingMoreForgotten ==
  ASSUME TypeOK, ForgottenBounded, restarts' = restarts,
         \A c \in Contexts : Forgotten(c)' \subseteq Forgotten(c)
  PROVE  ForgottenBounded'
<1> SUFFICES ASSUME NEW c \in Contexts
             PROVE  Cardinality(Forgotten(c)') <= MaxActions * restarts
  BY DEF ForgottenBounded
<1>1. /\ Cardinality(Forgotten(c)') \in Nat /\ Cardinality(Forgotten(c)) \in Nat
      /\ Cardinality(Forgotten(c)') <= Cardinality(Forgotten(c))
  BY ActionSets DEF Forgotten, Lost
<1>2. Cardinality(Forgotten(c)) <= MaxActions * restarts
  BY DEF ForgottenBounded
<1>3. MaxActions \in Nat /\ restarts \in Nat
  BY SafetyAssumption DEF TypeOK
<1>4. MaxActions * restarts \in Nat
  BY <1>3
<1> QED BY <1>1, <1>2, <1>4

\* A restart forgets what was within the limit since the last one.
LEMMA RestartForgetsOneAllotment ==
  ASSUME TypeOK, AtMostMaxPerHourSinceStart, ForgottenBounded, Restart
  PROVE  ForgottenBounded'
<1> SUFFICES ASSUME NEW c \in Contexts
             PROVE  Cardinality(Forgotten(c)') <= MaxActions * restarts'
  BY DEF ForgottenBounded
<1> DEFINE Known == InLastHour(c) \ Lost
<1>1. Forgotten(c)' \subseteq Forgotten(c) \cup Known
  BY DEF Restart, Forgotten, InLastHour, Executed, SamePod, Lost, TypeOK, Status
<1>2. /\ IsFiniteSet(Forgotten(c)) /\ Cardinality(Forgotten(c)) \in Nat
      /\ IsFiniteSet(Known) /\ Cardinality(Known) \in Nat
  BY ActionSets DEF Forgotten, InLastHour, Executed
<1>3. Cardinality(Forgotten(c)) <= MaxActions * restarts /\ Cardinality(Known) <= MaxActions
  BY DEF ForgottenBounded, AtMostMaxPerHourSinceStart
<1>4. Forgotten(c) \cap Known = {}
  BY DEF Forgotten
<1>5. Cardinality(Forgotten(c) \cup Known) = Cardinality(Forgotten(c)) + Cardinality(Known)
  <2>1. Cardinality(Forgotten(c) \cap Known) = 0
    BY <1>4, FS_EmptySet
  <2> HIDE DEF Known
  <2>2. Cardinality(Forgotten(c) \cup Known)
          = Cardinality(Forgotten(c)) + Cardinality(Known) - Cardinality(Forgotten(c) \cap Known)
    BY <1>2, FS_Union
  <2> QED BY <1>2, <2>1, <2>2
<1>6. /\ Cardinality(Forgotten(c)') \in Nat
      /\ Cardinality(Forgotten(c)') <= Cardinality(Forgotten(c) \cup Known)
  <2>1. Forgotten(c) \cup Known \in SUBSET Actions
    BY DEF Forgotten, InLastHour, Executed
  <2> HIDE DEF Known
  <2> QED BY <1>1, <2>1, ActionSets
<1>7. MaxActions \in Nat /\ restarts \in Nat /\ restarts' = restarts + 1
  BY SafetyAssumption DEF TypeOK, Restart
<1>8. /\ MaxActions * (restarts + 1) = MaxActions * restarts + MaxActions
      /\ MaxActions * restarts \in Nat
  BY <1>7
<1> HIDE DEF Known
<1> QED BY <1>2, <1>3, <1>5, <1>6, <1>7, <1>8

\* With one worker a restart, which empties the history (NewEngine), lets a pod
\* be acted on at most MaxActions times more within the hour.
THEOREM RestartsGrantOneAllotment ==
  ASSUME Serial
  PROVE  Spec => []EachRestartGrantsOneAllotment
<1>1. TypeOK /\ Init => ForgottenBounded
  <2> SUFFICES ASSUME Init, TypeOK, NEW c \in Contexts
               PROVE  Cardinality(Forgotten(c)) <= MaxActions * restarts
    BY DEF ForgottenBounded
  <2>1. Forgotten(c) = {} /\ restarts = 0
    BY DEF Init, Forgotten, Lost
  <2>2. MaxActions * 0 = 0
    BY SafetyAssumption
  <2> QED BY <2>1, <2>2, FS_EmptySet
<1>2. /\ ForgottenBounded /\ TypeOK /\ AtMostMaxPerHourSinceStart /\ [Next]_vars
      => ForgottenBounded'
  <2> SUFFICES ASSUME ForgottenBounded, TypeOK, AtMostMaxPerHourSinceStart, [Next]_vars
               PROVE  ForgottenBounded'
    OBVIOUS
  <2>1. CASE Restart
    BY <2>1, RestartForgetsOneAllotment
  <2>2. ASSUME NEW a \in Actions, Evaluate(a) \/ Execute(a) \/ RecordAction(a)
        PROVE  ForgottenBounded'
    <3>1. \A c \in Contexts : Forgotten(c)' \subseteq Forgotten(c)
      BY <2>2 DEF Evaluate, Execute, RecordAction, Stale, History, Forgotten,
                  InLastHour, Executed, SamePod, Lost, TypeOK
    <3>2. restarts' = restarts
      BY <2>2 DEF Evaluate, Execute, RecordAction
    <3> QED BY <3>1, <3>2, NothingMoreForgotten
  <2>3. CASE Tick
    <3>1. \A c \in Contexts : Forgotten(c)' \subseteq Forgotten(c)
      BY <2>3 DEF Tick, Older, Forgotten, InLastHour, Executed, SamePod, Lost, TypeOK, Age
    <3> QED BY <2>3, <3>1, NothingMoreForgotten DEF Tick
  <2>4. CASE UNCHANGED vars
    <3>1. \A c \in Contexts : Forgotten(c)' \subseteq Forgotten(c)
      BY <2>4 DEF vars, Forgotten, InLastHour, Executed, SamePod, Lost
    <3> QED BY <2>4, <3>1, NothingMoreForgotten DEF vars
  <2> QED BY <2>1, <2>2, <2>3, <2>4 DEF Next
<1>3. TypeOK /\ ForgottenBounded /\ AtMostMaxPerHourSinceStart => EachRestartGrantsOneAllotment
  <2> SUFFICES ASSUME TypeOK, ForgottenBounded, AtMostMaxPerHourSinceStart, NEW c \in Contexts
               PROVE  Cardinality(InLastHour(c)) <= (restarts + 1) * MaxActions
    BY DEF EachRestartGrantsOneAllotment
  <2> DEFINE Known == InLastHour(c) \ Lost
  <2>1. InLastHour(c) = Forgotten(c) \cup Known /\ Forgotten(c) \cap Known = {}
    BY DEF Forgotten
  <2>2. /\ IsFiniteSet(Forgotten(c)) /\ Cardinality(Forgotten(c)) \in Nat
        /\ IsFiniteSet(Known) /\ Cardinality(Known) \in Nat
    BY ActionSets DEF Forgotten, InLastHour, Executed
  <2>3. Cardinality(Forgotten(c)) <= MaxActions * restarts /\ Cardinality(Known) <= MaxActions
    BY DEF ForgottenBounded, AtMostMaxPerHourSinceStart
  <2>4. Cardinality(InLastHour(c)) = Cardinality(Forgotten(c)) + Cardinality(Known)
    <3>1. Cardinality(Forgotten(c) \cap Known) = 0
      BY <2>1, FS_EmptySet
    <3> HIDE DEF Known
    <3>2. Cardinality(Forgotten(c) \cup Known)
            = Cardinality(Forgotten(c)) + Cardinality(Known)
                - Cardinality(Forgotten(c) \cap Known)
      BY <2>2, FS_Union
    <3> QED BY <2>1, <2>2, <3>1, <3>2
  <2>5. MaxActions \in Nat /\ restarts \in Nat
    BY SafetyAssumption DEF TypeOK
  <2>6. /\ (restarts + 1) * MaxActions = MaxActions * restarts + MaxActions
        /\ MaxActions * restarts \in Nat
    BY <2>5
  <2> HIDE DEF Known
  <2> QED BY <2>2, <2>3, <2>4, <2>5, <2>6
<1> QED BY <1>1, <1>2, <1>3, TypeCorrect, RateLimitHoldsSinceStart, PTL DEF Spec
-----------------------------------------------------------------------------
\* What turned an hour old at the latest tick: it no longer counts, and is not
\* pruned yet.
TurnedHour(pod) == {a \in History(pod) : age[a] = Hour}
TurnedBounded == \A c \in Contexts : Cardinality(TurnedHour(c.pod)) <= MaxActions

\* A step that leaves a pod no record more keeps both bounds.
LEMMA RecordsDropped ==
  ASSUME TurnedBounded, HistoryIsBounded,
         \A c \in Contexts : /\ History(c.pod)' \subseteq History(c.pod)
                             /\ TurnedHour(c.pod)' \subseteq TurnedHour(c.pod)
  PROVE  TurnedBounded' /\ HistoryIsBounded'
<1> SUFFICES ASSUME NEW c \in Contexts
             PROVE  /\ Cardinality(TurnedHour(c.pod)') <= MaxActions
                    /\ Cardinality(History(c.pod)') <= 2 * MaxActions
  BY DEF TurnedBounded, HistoryIsBounded
<1>1. /\ Cardinality(TurnedHour(c.pod)') \in Nat /\ Cardinality(TurnedHour(c.pod)) \in Nat
      /\ Cardinality(TurnedHour(c.pod)') <= Cardinality(TurnedHour(c.pod))
  BY ActionSets DEF TurnedHour, History
<1>2. /\ Cardinality(History(c.pod)') \in Nat /\ Cardinality(History(c.pod)) \in Nat
      /\ Cardinality(History(c.pod)') <= Cardinality(History(c.pod))
  BY ActionSets DEF History
<1>3. /\ Cardinality(TurnedHour(c.pod)) <= MaxActions
      /\ Cardinality(History(c.pod)) <= 2 * MaxActions
  BY DEF TurnedBounded, HistoryIsBounded
<1> QED BY <1>1, <1>2, <1>3, SafetyAssumption

\* RecordAction keeps what is under an hour old, which uses slots, and what
\* has just turned an hour old.
LEMMA RecordKeepsBounds ==
  ASSUME TypeOK, SlotsBounded', TurnedBounded, HistoryIsBounded,
         NEW a \in Actions, RecordAction(a)
  PROVE  TurnedBounded' /\ HistoryIsBounded'
<1> USE SafetyAssumption
<1>1. \A c \in Contexts : TurnedHour(c.pod)' \subseteq TurnedHour(c.pod)
  BY DEF RecordAction, TurnedHour, History, Stale, TypeOK, Age
<1> SUFFICES ASSUME NEW c \in Contexts
             PROVE  /\ Cardinality(TurnedHour(c.pod)') <= MaxActions
                    /\ Cardinality(History(c.pod)') <= 2 * MaxActions
  BY DEF TurnedBounded, HistoryIsBounded
<1>2. /\ Cardinality(TurnedHour(c.pod)) \in Nat
      /\ Cardinality(TurnedHour(c.pod)) <= MaxActions
      /\ IsFiniteSet(TurnedHour(c.pod))
  BY ActionSets DEF TurnedBounded, TurnedHour, History
<1>3. Cardinality(TurnedHour(c.pod)') <= MaxActions
  <2>1. /\ Cardinality(TurnedHour(c.pod)') \in Nat
        /\ Cardinality(TurnedHour(c.pod)') <= Cardinality(TurnedHour(c.pod))
    BY <1>1, ActionSets DEF TurnedHour, History
  <2> QED BY <2>1, <1>2
<1>4. CASE ctx[a].pod = c.pod
  <2> DEFINE Kept == Using(c.pod)' \cup TurnedHour(c.pod)
  <2>1. History(c.pod)' \subseteq Kept
    <3> SUFFICES ASSUME NEW b \in History(c.pod)' PROVE b \in Kept
      OBVIOUS
    <3>1. b \in Actions /\ ctx' = ctx /\ ctx[b].pod = c.pod /\ status'[b] = "recorded"
      BY DEF RecordAction, History
    <3>2. CASE b = a
      BY <3>1, <3>2 DEF RecordAction, Using, TypeOK
    <3>3. CASE b # a
      <4>1. status[b] = "recorded" /\ age'[b] = age[b] /\ ~(age[b] > Hour)
        BY <1>4, <3>1, <3>3 DEF RecordAction, History, Stale, TypeOK
      <4>2. age[b] < Hour \/ age[b] = Hour
        BY <3>1, <4>1 DEF TypeOK, Age
      <4> QED BY <3>1, <4>1, <4>2 DEF Using, TurnedHour, History
    <3> QED BY <3>2, <3>3
  <2>2. Kept \in SUBSET Actions
    BY DEF Using, TurnedHour, History
  <2>3. /\ IsFiniteSet(Using(c.pod)') /\ Cardinality(Using(c.pod)') \in Nat
        /\ Cardinality(Using(c.pod)') <= MaxActions
    BY ActionSets DEF SlotsBounded, Using
  <2>4. Cardinality(Kept) <= Cardinality(Using(c.pod)') + Cardinality(TurnedHour(c.pod))
    <3>1. Using(c.pod)' \cap TurnedHour(c.pod) \in SUBSET Actions
      BY <2>2
    <3>2. Cardinality(Using(c.pod)' \cap TurnedHour(c.pod)) \in Nat
      BY <3>1, ActionSets
    <3>3. Cardinality(Kept) = Cardinality(Using(c.pod)') + Cardinality(TurnedHour(c.pod))
                                - Cardinality(Using(c.pod)' \cap TurnedHour(c.pod))
      BY <1>2, <2>3, FS_Union
    <3> QED BY <1>2, <2>3, <3>2, <3>3
  <2>5. /\ Cardinality(History(c.pod)') \in Nat /\ Cardinality(Kept) \in Nat
        /\ Cardinality(History(c.pod)') <= Cardinality(Kept)
    <3> HIDE DEF Kept
    <3> QED BY <2>1, <2>2, ActionSets
  <2> QED BY <1>2, <1>3, <2>3, <2>4, <2>5
<1>5. CASE ctx[a].pod # c.pod
  <2>1. History(c.pod)' \subseteq History(c.pod)
    BY <1>5 DEF RecordAction, History, Stale, TypeOK
  <2>2. /\ Cardinality(History(c.pod)') \in Nat /\ Cardinality(History(c.pod)) \in Nat
        /\ Cardinality(History(c.pod)') <= Cardinality(History(c.pod))
    BY <2>1, ActionSets DEF History
  <2>3. Cardinality(History(c.pod)) <= 2 * MaxActions
    BY DEF HistoryIsBounded
  <2> QED BY <1>3, <2>2, <2>3
<1> QED BY <1>4, <1>5

\* With one worker the history of a pod holds at most twice the limit, however
\* many actions the pod sees and however seldom (RecordAction prunes it).
THEOREM HistoryStaysBounded ==
  ASSUME Serial
  PROVE  Spec => []HistoryIsBounded
<1> USE SafetyAssumption
<1> DEFINE HInv == TurnedBounded /\ HistoryIsBounded
<1>1. Init => HInv
  <2> SUFFICES ASSUME Init PROVE HInv
    OBVIOUS
  <2>1. \A c \in Contexts : History(c.pod) = {}
    BY DEF Init, History
  <2>2. Cardinality({}) = 0 /\ 0 <= MaxActions /\ 0 <= 2 * MaxActions
    BY FS_EmptySet
  <2>3. HistoryIsBounded
    BY <2>1, <2>2 DEF HistoryIsBounded
  <2>4. \A c \in Contexts : TurnedHour(c.pod) = {}
    BY <2>1 DEF TurnedHour
  <2>5. TurnedBounded
    BY <2>2, <2>4 DEF TurnedBounded
  <2> QED BY <2>3, <2>5
<1>2. HInv /\ IInv /\ IInv' /\ [Next]_vars => HInv'
  <2> SUFFICES ASSUME TurnedBounded, HistoryIsBounded, IInv, IInv', [Next]_vars
               PROVE  TurnedBounded' /\ HistoryIsBounded'
    OBVIOUS
  <2> USE DEF IInv, TypeOK
  <2>1. ASSUME NEW a \in Actions, Evaluate(a) \/ Execute(a)
        PROVE  TurnedBounded' /\ HistoryIsBounded'
    <3>1. \A c \in Contexts : /\ History(c.pod)' \subseteq History(c.pod)
                              /\ TurnedHour(c.pod)' \subseteq TurnedHour(c.pod)
      BY <2>1 DEF Evaluate, Execute, History, TurnedHour
    <3> QED BY <3>1, RecordsDropped
  <2>2. ASSUME NEW a \in Actions, RecordAction(a)
        PROVE  TurnedBounded' /\ HistoryIsBounded'
    BY <2>2, RecordKeepsBounds
  <2>3. CASE Tick
    <3>1. \A c \in Contexts : /\ History(c.pod)' = History(c.pod)
                              /\ TurnedHour(c.pod)' \subseteq Using(c.pod)
      BY <2>3 DEF Tick, Older, History, TurnedHour, Using, Age
    <3>2. TurnedBounded'
      <4> SUFFICES ASSUME NEW c \in Contexts
                   PROVE  Cardinality(TurnedHour(c.pod)') <= MaxActions
        BY DEF TurnedBounded
      <4>1. /\ Cardinality(TurnedHour(c.pod)') \in Nat /\ Cardinality(Using(c.pod)) \in Nat
            /\ Cardinality(TurnedHour(c.pod)') <= Cardinality(Using(c.pod))
        BY <3>1, ActionSets DEF Using
      <4>2. Cardinality(Using(c.pod)) <= MaxActions
        BY DEF SlotsBounded
      <4> QED BY <4>1, <4>2
    <3>3. HistoryIsBounded'
      BY <3>1 DEF HistoryIsBounded
    <3> QED BY <3>2, <3>3
  <2>4. CASE Restart
    <3>1. \A c \in Contexts : /\ History(c.pod)' \subseteq History(c.pod)
                              /\ TurnedHour(c.pod)' \subseteq TurnedHour(c.pod)
      BY <2>4 DEF Restart, History, TurnedHour
    <3> QED BY <3>1, RecordsDropped
  <2>5. CASE UNCHANGED vars
    <3>1. \A c \in Contexts : /\ History(c.pod)' \subseteq History(c.pod)
                              /\ TurnedHour(c.pod)' \subseteq TurnedHour(c.pod)
      BY <2>5 DEF vars, History, TurnedHour
    <3> QED BY <3>1, RecordsDropped
  <2> QED BY <2>1, <2>2, <2>3, <2>4, <2>5 DEF Next
<1> QED BY <1>1, <1>2, SerialInvariant, PTL DEF Spec
=============================================================================
