---------------------------- MODULE AgentProofs -----------------------------
(***************************************************************************)
(* Theorems about the agent: about MetadataResolver, for any PIDs,         *)
(* containers and callers, about AgentEvents, for any objects, ring size   *)
(* and number of events, and about the parts together (MCAgent).           *)
(*                                                                         *)
(* Argument for the resolver.  A Resolve that is under way and was not     *)
(* overtaken still finds its miss: its PID has no entry (MissStillHolds),  *)
(* so that what it writes is what the uninterrupted call would have        *)
(* written. And every entry tells of a container that its PID really was   *)
(* in (EntriesAreTrue), so that an entry of cgMap can only be left behind  *)
(* by a PID that was in two.                                               *)
(*                                                                         *)
(* Argument for the events.  EventsInOrderOnce tells of the batch and of   *)
(* what was sent.  What is inductive is that each ring with what has left  *)
(* it by now, sent, batched or in the hand of the handler, is all that it  *)
(* ever took, in order (RingsAreWhole).                                    *)
(***************************************************************************)
EXTENDS MCAgent, HookProofs, SequenceTheorems, TLAPS
-----------------------------------------------------------------------------
(***************************************************************************)
(* The resolver.                                                           *)
(***************************************************************************)

MissStillHolds ==
  \A x \in Callers :
    asked[x] # NoPid /\ ~overtaken[asked[x]] => cache[asked[x]] = NoInfo

FoundIsAsked ==
  \A x \in Callers :
    found[x] # NoInfo => asked[x] # NoPid /\ found[x].pid = asked[x]

SerialInv == TypeOK /\ FoundIsAsked /\ MissStillHolds /\ SerialUnlessOvertaken

EntriesAreTrue ==
  /\ \A p \in Pids : runs[p] # Gone => runs[p] \in ever[p]
  /\ \A x \in Callers : found[x] # NoInfo => found[x].container \in ever[asked[x]]
  /\ \A p \in Pids : cache[p] # NoInfo => cache[p].container \in ever[p]
  /\ \A c \in Containers : cgMap[c] # NoInfo =>
       cgMap[c].container = c /\ c \in ever[cgMap[c].pid]

IndexInv == TypeOK /\ FoundIsAsked /\ EntriesAreTrue /\ OrphansNeedPidReuse
-----------------------------------------------------------------------------
\* Every variable keeps its type.
THEOREM ResolverTypeCorrect == Spec => []TypeOK
<1> USE ResolverAssumption DEF PodInfo
<1>1. Init => TypeOK
  BY DEF Init, TypeOK
<1>2. TypeOK /\ [Next]_vars => TypeOK'
  <2> SUFFICES ASSUME TypeOK, [Next]_vars PROVE TypeOK'
    OBVIOUS
  <2> USE DEF TypeOK
  <2>1. ASSUME NEW p \in Pids, NEW c \in Containers \cup {NoContainer},
               ProcessStarts(p, c)
        PROVE  TypeOK'
    BY <2>1 DEF ProcessStarts
  <2>2. ASSUME NEW p \in Pids, ProcessEnds(p) PROVE TypeOK'
    BY <2>2 DEF ProcessEnds
  <2>3. ASSUME NEW x \in Callers, NEW p \in Pids, Resolve(x, p) PROVE TypeOK'
    BY <2>3 DEF Resolve
  <2>4. ASSUME NEW x \in Callers, resolveFromProc(x) PROVE TypeOK'
    <3> DEFINE info == [pid |-> asked[x], container |-> runs[asked[x]], named |-> FALSE]
    <3>1. CASE ReadFails(asked[x])
      BY <2>4, <3>1 DEF resolveFromProc
    <3>2. CASE ~ReadFails(asked[x])
      <4>1. info \in PodInfo
        BY <2>4, <3>2 DEF resolveFromProc, ReadFails
      <4>2. found' = [found EXCEPT ![x] = info]
        BY <2>4, <3>2 DEF resolveFromProc
      <4> HIDE DEF info
      <4> QED BY <2>4, <3>2, <4>1, <4>2 DEF resolveFromProc
    <3> QED BY <3>1, <3>2
  <2>5. ASSUME NEW x \in Callers, ResolveFills(x) PROVE TypeOK'
    BY <2>5 DEF ResolveFills, Indexed
  <2>6. ASSUME NEW p \in Pids, NEW c \in Containers, UpdateFromKubernetes(p, c)
        PROVE  TypeOK'
    BY <2>6 DEF UpdateFromKubernetes, Indexed, Told
  <2>7. ASSUME NEW p \in Pids, Invalidate(p) PROVE TypeOK'
    BY <2>7 DEF Invalidate, Unindexed
  <2>8. CASE UNCHANGED vars
    BY <2>8 DEF vars
  <2> QED BY <2>1, <2>2, <2>3, <2>4, <2>5, <2>6, <2>7, <2>8 DEF Next
<1> QED BY <1>1, <1>2, PTL DEF Spec

\* What a Resolve brings from /proc is about the PID it was asked for.
LEMMA FoundStep ==
  ASSUME TypeOK, FoundIsAsked, [Next]_vars
  PROVE  FoundIsAsked'
<1> USE ResolverAssumption DEF PodInfo, TypeOK, FoundIsAsked
<1>1. ASSUME NEW x \in Callers, NEW p \in Pids, Resolve(x, p) PROVE FoundIsAsked'
  BY <1>1 DEF Resolve
<1>2. ASSUME NEW x \in Callers, resolveFromProc(x) PROVE FoundIsAsked'
  BY <1>2 DEF resolveFromProc, ReadFails
<1>3. ASSUME NEW x \in Callers, ResolveFills(x) PROVE FoundIsAsked'
  BY <1>3 DEF ResolveFills
<1>4. CASE UNCHANGED <<asked, found>>
  BY <1>4
<1> QED BY <1>1, <1>2, <1>3, <1>4
    DEF Next, ProcessStarts, ProcessEnds, UpdateFromKubernetes, Invalidate, vars

\* Only a Resolve that another write overtook can make the cache differ from
\* the one that uninterrupted calls build: a name is never lost, and a
\* forgotten PID never returns, without that race.
THEOREM SerialWithoutRace == Spec => []SerialUnlessOvertaken
<1>1. Init => SerialInv
  BY ResolverAssumption
     DEF Init, SerialInv, TypeOK, FoundIsAsked, MissStillHolds, SerialUnlessOvertaken
<1>2. SerialInv /\ TypeOK' /\ [Next]_vars => SerialInv'
  <2> SUFFICES ASSUME SerialInv, TypeOK', [Next]_vars
               PROVE  MissStillHolds' /\ SerialUnlessOvertaken'
    BY FoundStep DEF SerialInv
  <2> USE ResolverAssumption
      DEF SerialInv, TypeOK, FoundIsAsked, MissStillHolds, SerialUnlessOvertaken
  <2>1. CASE \E p \in Pids, c \in Containers \cup {NoContainer} : ProcessStarts(p, c)
    BY <2>1 DEF ProcessStarts
  <2>2. CASE \E p \in Pids : ProcessEnds(p)
    BY <2>2 DEF ProcessEnds
  <2>3. ASSUME NEW x \in Callers, NEW p \in Pids, Resolve(x, p)
        PROVE  MissStillHolds' /\ SerialUnlessOvertaken'
    BY <2>3 DEF Resolve
  <2>4. ASSUME NEW x \in Callers, resolveFromProc(x)
        PROVE  MissStillHolds' /\ SerialUnlessOvertaken'
    BY <2>4 DEF resolveFromProc
  <2>5. ASSUME NEW x \in Callers, ResolveFills(x)
        PROVE  MissStillHolds' /\ SerialUnlessOvertaken'
    <3> DEFINE p == asked[x]
    <3>1. p \in Pids
      BY <2>5 DEF ResolveFills
    <3>2. ASSUME ~overtaken'[p] PROVE ~overtaken[p] /\ UnderWay(p) = {x}
      BY <2>5, <3>1, <3>2 DEF ResolveFills
    <3>3. MissStillHolds'
      <4> SUFFICES ASSUME NEW y \in Callers, asked'[y] # NoPid, ~overtaken'[asked'[y]]
                   PROVE  cache'[asked'[y]] = NoInfo
        OBVIOUS
      <4>1. y # x /\ asked'[y] = asked[y]
        BY <2>5 DEF ResolveFills
      <4>2. asked[y] # p
        BY <3>2, <4>1 DEF UnderWay
      <4> QED BY <2>5, <3>1, <4>1, <4>2 DEF ResolveFills
    <3>4. SerialUnlessOvertaken'
      <4> SUFFICES ASSUME NEW q \in Pids, ~overtaken'[q]
                   PROVE  cache'[q] = serial'[q]
        OBVIOUS
      <4>1. CASE q = p
        BY <2>5, <3>1, <3>2, <4>1 DEF ResolveFills
      <4>2. CASE q # p
        BY <2>5, <3>1, <4>2 DEF ResolveFills
      <4> QED BY <4>1, <4>2
    <3> QED BY <3>3, <3>4
  <2>6. ASSUME NEW p \in Pids, NEW c \in Containers, UpdateFromKubernetes(p, c)
        PROVE  MissStillHolds' /\ SerialUnlessOvertaken'
    <3> DEFINE info == [pid |-> p, container |-> c, named |-> TRUE]
    <3>1. /\ cache' = [cache EXCEPT ![p] = info]
          /\ serial' = [serial EXCEPT ![p] = info]
          /\ overtaken' = [overtaken EXCEPT ![p] = UnderWay(p) # {}]
          /\ asked' = asked
      BY <2>6 DEF UpdateFromKubernetes, Told
    <3> HIDE DEF info
    <3>2. MissStillHolds'
      <4> SUFFICES ASSUME NEW y \in Callers, asked[y] # NoPid, ~overtaken'[asked[y]]
                   PROVE  cache'[asked[y]] = NoInfo
        BY <3>1
      <4>1. asked[y] # p
        BY <3>1 DEF UnderWay
      <4> QED BY <3>1, <4>1
    <3>3. SerialUnlessOvertaken'
      BY <3>1
    <3> QED BY <3>2, <3>3
  <2>7. ASSUME NEW p \in Pids, Invalidate(p)
        PROVE  MissStillHolds' /\ SerialUnlessOvertaken'
    BY <2>7 DEF Invalidate, UnderWay
  <2>8. CASE UNCHANGED vars
    BY <2>8 DEF vars
  <2> QED BY <2>1, <2>2, <2>3, <2>4, <2>5, <2>6, <2>7, <2>8 DEF Next
<1>3. SerialInv => SerialUnlessOvertaken
  BY DEF SerialInv
<1> QED BY <1>1, <1>2, <1>3, ResolverTypeCorrect, PTL DEF Spec

\* An entry that is put into cgMap together with the PID's own entry.
LEMMA IndexedKeepsIndex ==
  ASSUME IndexInv, TypeOK', NEW p \in Pids, NEW info \in PodInfo,
         info.pid = p, info.container \in ever[p],
         ever' = ever, cache' = [cache EXCEPT ![p] = info], cgMap' = Indexed(info)
  PROVE  /\ \A c \in Containers : cgMap'[c] # NoInfo =>
              cgMap'[c].container = c /\ c \in ever'[cgMap'[c].pid]
         /\ \A q \in Pids : cache'[q] # NoInfo => cache'[q].container \in ever'[q]
         /\ OrphansNeedPidReuse'
<1> USE ResolverAssumption DEF IndexInv, TypeOK, EntriesAreTrue, PodInfo, Indexed
<1>1. \A c \in Containers : cgMap'[c] # NoInfo =>
        cgMap'[c].container = c /\ c \in ever'[cgMap'[c].pid]
  OBVIOUS
<1>2. OrphansNeedPidReuse'
  <2> SUFFICES ASSUME NEW c \in Containers, cgMap'[c] # NoInfo,
                      ever'[cgMap'[c].pid] = {c}
               PROVE  LET q == cgMap'[c].pid IN
                      cache'[q] # NoInfo /\ cache'[q].container = c
    BY DEF OrphansNeedPidReuse
  <2>1. CASE c = info.container
    BY <2>1
  <2>2. CASE c # info.container
    <3>1. cgMap'[c] = cgMap[c] /\ cgMap[c].pid # p
      BY <2>2
    <3> QED BY <3>1 DEF OrphansNeedPidReuse
  <2> QED BY <2>1, <2>2
<1> QED BY <1>1, <1>2

\* However calls interleave and fail, and whenever processes come and go, an
\* entry of cgMap outlives its PID's entry only after the PID was reused.
THEOREM OrphansOnlyByReuse == Spec => []OrphansNeedPidReuse
<1>1. Init => IndexInv
  BY ResolverAssumption
     DEF Init, IndexInv, TypeOK, FoundIsAsked, EntriesAreTrue, OrphansNeedPidReuse
<1>2. IndexInv /\ TypeOK' /\ [Next]_vars => IndexInv'
  <2> SUFFICES ASSUME IndexInv, TypeOK', [Next]_vars
               PROVE  EntriesAreTrue' /\ OrphansNeedPidReuse'
    BY FoundStep DEF IndexInv
  <2> USE ResolverAssumption
  <2>1. ASSUME NEW p \in Pids, NEW c \in Containers \cup {NoContainer},
               ProcessStarts(p, c)
        PROVE  EntriesAreTrue' /\ OrphansNeedPidReuse'
    <3> USE <2>1 DEF ProcessStarts, IndexInv, TypeOK, FoundIsAsked, EntriesAreTrue, PodInfo
    <3>1. \A q \in Pids : ever[q] \subseteq ever'[q]
      OBVIOUS
    <3>2. EntriesAreTrue'
      BY <3>1
    <3>3. OrphansNeedPidReuse'
      BY <3>1 DEF OrphansNeedPidReuse
    <3> QED BY <3>2, <3>3
  <2>2. ASSUME NEW p \in Pids, ProcessEnds(p)
        PROVE  EntriesAreTrue' /\ OrphansNeedPidReuse'
    BY <2>2 DEF ProcessEnds, IndexInv, TypeOK, EntriesAreTrue, OrphansNeedPidReuse
  <2>3. ASSUME NEW x \in Callers, NEW p \in Pids, Resolve(x, p)
        PROVE  EntriesAreTrue' /\ OrphansNeedPidReuse'
    BY <2>3 DEF Resolve, IndexInv, TypeOK, FoundIsAsked, EntriesAreTrue, OrphansNeedPidReuse
  <2>4. ASSUME NEW x \in Callers, resolveFromProc(x)
        PROVE  EntriesAreTrue' /\ OrphansNeedPidReuse'
    BY <2>4 DEF resolveFromProc, ReadFails, IndexInv, TypeOK, FoundIsAsked,
                EntriesAreTrue, OrphansNeedPidReuse
  <2>5. ASSUME NEW x \in Callers, ResolveFills(x)
        PROVE  EntriesAreTrue' /\ OrphansNeedPidReuse'
    <3>1. /\ asked[x] \in Pids /\ found[x] \in PodInfo
          /\ found[x].pid = asked[x] /\ found[x].container \in ever[asked[x]]
      BY <2>5 DEF ResolveFills, IndexInv, TypeOK, FoundIsAsked, EntriesAreTrue
    <3>2. /\ ever' = ever /\ cgMap' = Indexed(found[x])
          /\ cache' = [cache EXCEPT ![asked[x]] = found[x]]
      BY <2>5 DEF ResolveFills
    <3>3. /\ runs' = runs /\ asked' = [asked EXCEPT ![x] = NoPid]
          /\ found' = [found EXCEPT ![x] = NoInfo]
      BY <2>5 DEF ResolveFills
    <3>4. \A y \in Callers : found'[y] # NoInfo => found'[y].container \in ever'[asked'[y]]
      BY <3>2, <3>3 DEF IndexInv, TypeOK, EntriesAreTrue
    <3>5. \A q \in Pids : runs'[q] # Gone => runs'[q] \in ever'[q]
      BY <3>2, <3>3 DEF IndexInv, EntriesAreTrue
    <3> QED BY <3>1, <3>2, <3>4, <3>5, IndexedKeepsIndex DEF EntriesAreTrue
  <2>6. ASSUME NEW p \in Pids, NEW c \in Containers, UpdateFromKubernetes(p, c)
        PROVE  EntriesAreTrue' /\ OrphansNeedPidReuse'
    <3> DEFINE info == [pid |-> p, container |-> c, named |-> TRUE]
    <3>1. info \in PodInfo /\ info.pid = p /\ info.container \in ever[p]
      BY <2>6 DEF UpdateFromKubernetes, PodInfo
    <3>2. /\ ever' = ever /\ cgMap' = Indexed(info)
          /\ cache' = [cache EXCEPT ![p] = info]
      BY <2>6 DEF UpdateFromKubernetes, Told
    <3> HIDE DEF info
    <3>3. runs' = runs /\ asked' = asked /\ found' = found
      BY <2>6 DEF UpdateFromKubernetes
    <3>4. \A y \in Callers : found'[y] # NoInfo => found'[y].container \in ever'[asked'[y]]
      BY <3>2, <3>3 DEF IndexInv, EntriesAreTrue
    <3>5. \A q \in Pids : runs'[q] # Gone => runs'[q] \in ever'[q]
      BY <3>2, <3>3 DEF IndexInv, EntriesAreTrue
    <3> QED BY <3>1, <3>2, <3>4, <3>5, IndexedKeepsIndex DEF EntriesAreTrue
  <2>7. ASSUME NEW p \in Pids, Invalidate(p)
        PROVE  EntriesAreTrue' /\ OrphansNeedPidReuse'
    BY <2>7 DEF Invalidate, Unindexed, IndexInv, TypeOK, EntriesAreTrue, OrphansNeedPidReuse
  <2>8. CASE UNCHANGED vars
    BY <2>8 DEF vars, IndexInv, EntriesAreTrue, OrphansNeedPidReuse
  <2> QED BY <2>1, <2>2, <2>3, <2>4, <2>5, <2>6, <2>7, <2>8 DEF Next
<1>3. IndexInv => OrphansNeedPidReuse
  BY DEF IndexInv
<1> QED BY <1>1, <1>2, <1>3, ResolverTypeCorrect, PTL DEF Spec
-----------------------------------------------------------------------------
(***************************************************************************)
(* The events.                                                             *)
(***************************************************************************)

\* A goroutine that reads has a reader, which main does not replace any more.
ReaderIsOpen ==
  /\ consumer = "reading" => reader # NoObject
  /\ main = "loading" => consumer = "started"

Event == 1 .. MaxEvents

-----------------------------------------------------------------------------
\* Every variable keeps its type.
THEOREM EventsTypeCorrect == EventsSpec => [](EventsTypeOK /\ ReaderIsOpen)
<1> USE EventsAssumption
<1>1. EventsInit => EventsTypeOK /\ ReaderIsOpen
  <2>1. <<>> \in Seq(1 .. MaxEvents) /\ Len(<<>>) = 0
    BY EmptySeq
  <2> SUFFICES ASSUME EventsInit PROVE EventsTypeOK /\ ReaderIsOpen
    OBVIOUS
  <2>2. /\ ring \in [Objects -> Seq(1 .. MaxEvents)]
        /\ \A o \in Objects : Len(ring[o]) <= RingSize
    BY <2>1 DEF EventsInit
  <2>3. /\ {batch, sent} \subseteq Seq(1 .. MaxEvents)
        /\ hand \in Seq(1 .. MaxEvents) /\ Len(hand) <= 1
    BY <2>1 DEF EventsInit
  <2>4. taken \in [Objects -> 0 .. MaxEvents]
    BY DEF EventsInit
  <2> QED BY <2>2, <2>3, <2>4 DEF EventsInit, EventsTypeOK, ReaderIsOpen, Untried
<1>2. EventsTypeOK /\ ReaderIsOpen /\ [EventsNext]_eventVars => EventsTypeOK' /\ ReaderIsOpen'
  <2> SUFFICES ASSUME EventsTypeOK, ReaderIsOpen, [EventsNext]_eventVars
               PROVE  EventsTypeOK' /\ ReaderIsOpen'
    OBVIOUS
  <2> USE DEF EventsTypeOK, ReaderIsOpen, loadVars, mainVars, kernelVars, streamVars
  <2>1. ASSUME NEW o \in Objects, LoadFails(o) PROVE EventsTypeOK' /\ ReaderIsOpen'
    BY <2>1 DEF LoadFails
  <2>2. ASSUME NEW o \in Objects, LoadProgram(o) PROVE EventsTypeOK' /\ ReaderIsOpen'
    BY <2>2 DEF LoadProgram
  <2>3. ASSUME NEW o \in Objects, Emit(o) PROVE EventsTypeOK' /\ ReaderIsOpen'
    <3>1. taken[o] + 1 \in 1 .. MaxEvents /\ Len(ring[o]) \in Nat
      BY <2>3, LenProperties DEF Emit
    <3>2. /\ Append(ring[o], taken[o] + 1) \in Seq(1 .. MaxEvents)
          /\ Len(Append(ring[o], taken[o] + 1)) <= RingSize
      BY <2>3, <3>1, AppendProperties DEF Emit
    <3> QED BY <2>3, <3>1, <3>2 DEF Emit
  <2>4. CASE Start \/ Signal \/ CloseLoader \/ Exit
    BY <2>4 DEF Start, Signal, CloseLoader, Exit
  <2>5. CASE ReadEvents
    BY <2>5 DEF ReadEvents, Alive
  <2>6. CASE Read
    <3>1. reader \in Objects /\ ring[reader] \in Seq(1 .. MaxEvents) /\ ring[reader] # <<>>
      BY <2>6 DEF Read, Alive
    <3>2. /\ Head(ring[reader]) \in 1 .. MaxEvents
          /\ Tail(ring[reader]) \in Seq(1 .. MaxEvents)
          /\ Len(Tail(ring[reader])) <= RingSize
      BY <3>1, HeadTailProperties, LenProperties
    <3>3. <<Head(ring[reader])>> \in Seq(1 .. MaxEvents) /\ Len(<<Head(ring[reader])>>) = 1
      BY <3>2
    <3> QED BY <2>6, <3>1, <3>2, <3>3 DEF Read, Alive
  <2>7. CASE HandlerAppends
    <3>1. batch \o hand \in Seq(1 .. MaxEvents) /\ <<>> \in Seq(1 .. MaxEvents) /\ Len(<<>>) = 0
      BY ConcatProperties, EmptySeq
    <3> QED BY <2>7, <3>1 DEF HandlerAppends
  <2>8. CASE ReadEnds
    BY <2>8 DEF ReadEnds, Alive
  <2>9. CASE Loop \/ Connect \/ ConnectFails \/ Retry \/ Ticks \/ RunReturns
    BY <2>9 DEF Loop, Connect, ConnectFails, Retry, Ticks, RunReturns
  <2>10. CASE DrainBatch
    <3>1. sent \o batch \in Seq(1 .. MaxEvents) /\ <<>> \in Seq(1 .. MaxEvents)
      BY ConcatProperties, EmptySeq
    <3> QED BY <2>10, <3>1 DEF DrainBatch, Delivered, Drained
  <2>11. CASE UNCHANGED eventVars
    BY <2>11 DEF eventVars
  <2> QED
    BY <2>1, <2>2, <2>3, <2>4, <2>5, <2>6, <2>7, <2>8, <2>9, <2>10, <2>11
    DEF EventsNext, Goroutines
<1> QED BY <1>1, <1>2, PTL DEF EventsSpec
-----------------------------------------------------------------------------
\* What has left the ring that is read, in the order in which it did.
Out == sent \o batch \o hand

Numbers(n) == [i \in 1 .. n |-> i]

\* Each ring with what was read from it is all that it ever took; and nothing
\* is read before the consumer begins, or without a reader.
RingsAreWhole ==
  /\ \A o \in Objects :
       (IF o = reader THEN Out ELSE <<>>) \o ring[o] = Numbers(taken[o])
  /\ consumer = "started" \/ reader = NoObject => sent = <<>> /\ batch = <<>> /\ hand = <<>>

EventsInv == EventsTypeOK /\ ReaderIsOpen /\ RingsAreWhole

\* An event more at the end.
LEMMA NumbersGrow ==
  ASSUME NEW n \in Nat
  PROVE  Append(Numbers(n), n + 1) = Numbers(n + 1)
<1>1. Numbers(n) \in Seq(Nat) /\ Len(Numbers(n)) = n /\ Numbers(n + 1) \in Seq(Nat)
      /\ Len(Numbers(n + 1)) = n + 1
  BY IsASeq DEF Numbers
<1>2. /\ Append(Numbers(n), n + 1) \in Seq(Nat) /\ Len(Append(Numbers(n), n + 1)) = n + 1
      /\ \A i \in 1 .. n : Append(Numbers(n), n + 1)[i] = Numbers(n)[i]
      /\ Append(Numbers(n), n + 1)[n + 1] = n + 1
  BY <1>1, AppendProperties
<1>3. \A i \in 1 .. n + 1 : Append(Numbers(n), n + 1)[i] = Numbers(n + 1)[i]
  BY <1>2 DEF Numbers
<1> QED BY <1>1, <1>2, <1>3, SeqEqual

\* Appending to what follows is appending to the whole.
LEMMA AppendAfter ==
  ASSUME NEW a \in Seq(Event), NEW b \in Seq(Event), NEW e \in Event
  PROVE  a \o Append(b, e) = Append(a \o b, e)
<1>1. <<e>> \in Seq(Event) /\ a \o b \in Seq(Event)
  BY ConcatProperties
<1>2. Append(b, e) = b \o <<e>> /\ Append(a \o b, e) = (a \o b) \o <<e>>
  BY <1>1, AppendIsConcat
<1>3. a \o (b \o <<e>>) = (a \o b) \o <<e>>
  BY <1>1, ConcatAssociative
<1> QED BY <1>2, <1>3

\* Three stretches of events, in whatever order they are joined.
LEMMA ConcatRegroups ==
  ASSUME NEW a \in Seq(Event), NEW b \in Seq(Event), NEW c \in Seq(Event)
  PROVE  a \o (b \o c) = (a \o b) \o c
BY ConcatAssociative

\* The invariant of the event path.
THEOREM EventsInvariant == EventsSpec => []EventsInv
<1> USE EventsAssumption
<1>1. EventsInit => RingsAreWhole
  <2>1. <<>> \o <<>> = Numbers(0)
    BY DEF Numbers
  <2>2. <<>> \o <<>> \o <<>> = <<>>
    OBVIOUS
  <2> QED BY <2>1, <2>2 DEF EventsInit, RingsAreWhole, Out
<1>2. EventsInv /\ [EventsNext]_eventVars => RingsAreWhole'
  <2> SUFFICES ASSUME EventsTypeOK, ReaderIsOpen, RingsAreWhole, [EventsNext]_eventVars
               PROVE  RingsAreWhole'
    BY DEF EventsInv
  <2> USE DEF loadVars, mainVars, kernelVars, streamVars
  <2> DEFINE Pipe(o) == IF o = reader THEN Out ELSE <<>>
  <2>0. /\ sent \in Seq(Event) /\ batch \in Seq(Event) /\ hand \in Seq(Event)
        /\ <<>> \in Seq(Event)
        /\ Out \in Seq(Event)
        /\ \A o \in Objects : ring[o] \in Seq(Event)
    BY ConcatProperties, EmptySeq DEF EventsTypeOK, Out, Event
  <2>1. ASSUME NEW o \in Objects, LoadFails(o) PROVE RingsAreWhole'
    BY <2>1 DEF LoadFails, RingsAreWhole, Out
  <2>2. ASSUME NEW o \in Objects, LoadProgram(o) PROVE RingsAreWhole'
    <3>1. Out = <<>> /\ Out' = <<>>
      BY <2>2 DEF LoadProgram, ReaderIsOpen, RingsAreWhole, Out
    <3> QED BY <2>2, <3>1 DEF LoadProgram, ReaderIsOpen, RingsAreWhole
  <2>3. ASSUME NEW o \in Objects, Emit(o) PROVE RingsAreWhole'
    <3>1. taken[o] \in Nat /\ taken[o] + 1 \in Event
      BY <2>3 DEF Emit, EventsTypeOK, Event
    <3>2. Pipe(o) \in Seq(Event) /\ ring[o] \in Seq(Event)
      BY <2>0
    <3>3. Pipe(o) \o Append(ring[o], taken[o] + 1) = Append(Pipe(o) \o ring[o], taken[o] + 1)
      <4> HIDE DEF Pipe
      <4> QED BY <3>1, <3>2, AppendAfter
    <3>4. Append(Pipe(o) \o ring[o], taken[o] + 1) = Numbers(taken[o] + 1)
      BY <3>1, NumbersGrow DEF RingsAreWhole
    <3>5. /\ ring'[o] = Append(ring[o], taken[o] + 1) /\ taken'[o] = taken[o] + 1
          /\ \A p \in Objects \ {o} : ring'[p] = ring[p] /\ taken'[p] = taken[p]
          /\ UNCHANGED <<reader, Out, consumer, sent, batch, hand>>
      BY <2>3 DEF Emit, EventsTypeOK, Out
    <3> QED BY <3>3, <3>4, <3>5 DEF RingsAreWhole
  <2>4. CASE Start \/ Signal \/ CloseLoader \/ Exit
    BY <2>4 DEF Start, Signal, CloseLoader, Exit, RingsAreWhole, Out
  <2>5. CASE ReadEvents
    BY <2>5 DEF ReadEvents, RingsAreWhole, Out
  <2>6. CASE Read
    <3>1. /\ reader \in Objects /\ ring[reader] \in Seq(Event) /\ ring[reader] # <<>>
          /\ consumer' = "reading" /\ reader' # NoObject
      BY <2>6 DEF Read, ReaderIsOpen, EventsTypeOK, Event
    <3> DEFINE e == <<Head(ring[reader])>>
               r == Tail(ring[reader])
    <3>2. e \in Seq(Event) /\ r \in Seq(Event) /\ ring[reader] = e \o r
      BY <3>1, HeadTailProperties
    <3>3. /\ hand = <<>> /\ hand' = e /\ UNCHANGED <<sent, batch, reader, taken>>
          /\ ring'[reader] = r /\ \A p \in Objects \ {reader} : ring'[p] = ring[p]
      BY <2>6, <3>1 DEF Read, EventsTypeOK
    <3> HIDE DEF e, r
    <3>4. Out' \o r = Out \o ring[reader]
      <4>1. Out = sent \o batch /\ Out' = (sent \o batch) \o e
        BY <3>3, <2>0, ConcatProperties, ConcatEmptySeq DEF Out
      <4>2. ((sent \o batch) \o e) \o r = (sent \o batch) \o (e \o r)
        <5>1. sent \o batch \in Seq(Event)
          BY <2>0, ConcatProperties
        <5> QED BY <5>1, <3>2, ConcatRegroups
      <4> QED BY <4>1, <4>2, <3>2
    <3> QED BY <3>1, <3>3, <3>4 DEF RingsAreWhole
  <2>7. CASE HandlerAppends
    <3>1. /\ batch' = batch \o hand /\ hand' = <<>>
          /\ UNCHANGED <<sent, reader, ring, taken, consumer>>
      BY <2>7 DEF HandlerAppends
    <3>2. Out' = Out
      <4>1. sent \o (batch \o hand) = (sent \o batch) \o hand
        BY <2>0, ConcatRegroups
      <4>2. sent \o (batch \o hand) \in Seq(Event)
        BY <2>0, ConcatProperties
      <4> QED BY <3>1, <4>1, <4>2, ConcatEmptySeq DEF Out
    <3>3. consumer # "started" /\ reader # NoObject
      BY <2>7 DEF HandlerAppends, RingsAreWhole
    <3> QED BY <3>1, <3>2, <3>3 DEF RingsAreWhole
  <2>8. CASE ReadEnds
    BY <2>8 DEF ReadEnds, RingsAreWhole, Out
  <2>9. CASE Loop \/ Connect \/ ConnectFails \/ Retry \/ Ticks \/ RunReturns
    BY <2>9 DEF Loop, Connect, ConnectFails, Retry, Ticks, RunReturns, RingsAreWhole, Out
  <2>10. CASE DrainBatch
    <3>1. /\ sent' = sent \o batch /\ batch' = <<>>
          /\ UNCHANGED <<hand, reader, ring, taken, consumer>>
      BY <2>10 DEF DrainBatch, Delivered, Drained
    <3>2. sent \o batch \in Seq(Event)
      BY <2>0, ConcatProperties
    <3>3. Out' = Out
      BY <3>1, <3>2, ConcatEmptySeq DEF Out
    <3>4. sent = <<>> /\ batch = <<>> => sent' = <<>>
      BY <3>1
    <3> QED BY <3>1, <3>3, <3>4 DEF RingsAreWhole
  <2>11. CASE UNCHANGED eventVars
    BY <2>11 DEF eventVars, RingsAreWhole, Out
  <2> QED
    BY <2>1, <2>2, <2>3, <2>4, <2>5, <2>6, <2>7, <2>8, <2>9, <2>10, <2>11
    DEF EventsNext, Goroutines
<1> QED BY <1>1, <1>2, EventsTypeCorrect, PTL DEF EventsSpec, EventsInv

\* No event of the ring that is read is lost, repeated or overtaken between
\* the kernel and the collector, whatever fails on the way (ReadEvents,
\* the handler of consumeRingBuffer, drainBatch).
THEOREM EventsStayInOrder == EventsSpec => []EventsInOrderOnce
<1>1. EventsInv => EventsInOrderOnce
  BY DEF EventsInv, EventsTypeOK, RingsAreWhole, EventsInOrderOnce, Out, Numbers
<1> QED BY <1>1, EventsInvariant, PTL
-----------------------------------------------------------------------------
(***************************************************************************)
(* The parts together.                                                     *)
(***************************************************************************)

\* A behaviour of the parts together is one of each: a step of one part leaves
\* the state of the others alone.
LEMMA PartsAreTheirOwn ==
  PartsSpec => Spec /\ EventsSpec /\ HttpSpec /\ CountersSpec
<1>1. PartsInit => Init /\ EventsInit /\ HttpInit /\ CountersInit
  BY DEF PartsInit
<1>2. [ResolverStep \/ EventStep(EventsNext) \/ HookStep]_allVars =>
        /\ [Next]_vars /\ [EventsNext]_eventVars
        /\ [HttpNext]_httpVars /\ [CountersNext]_counterVars
  BY DEF ResolverStep, EventStep, HookStep, allVars, hookVars
<1> QED BY <1>1, <1>2, PTL DEF PartsSpec, Spec, EventsSpec, HttpSpec, CountersSpec

\* The types of all parts of the agent together.
THEOREM PartsKeepTheirTypes == PartsSpec => []PartsTypeOK
<1>1. HttpSpec => []HttpTypeOK
  BY HooksAssumption, HttpTypeCorrect
<1>2. TypeOK /\ (EventsTypeOK /\ ReaderIsOpen) /\ HttpTypeOK /\ CountersTypeOK => PartsTypeOK
  BY DEF PartsTypeOK
<1> QED
  BY <1>1, <1>2, PartsAreTheirOwn, ResolverTypeCorrect, EventsTypeCorrect,
     CountersTypeCorrect, PTL

\* What each part of the agent promises, of all together: Resolve is serial
\* unless overtaken and leaves orphans only to a PID that is used again, events
\* leave in order and once, durations are paired, and counts exact and settled.
THEOREM PartsKeepTheirPromises ==
  PartsSpec => /\ [](/\ SerialUnlessOvertaken /\ OrphansNeedPidReuse
                     /\ EventsInOrderOnce /\ DurationsArePaired /\ CountsAreExact)
               /\ SettledCounts
<1>1. /\ HttpSpec => []DurationsArePaired
      /\ CountersSpec => []CountsAreExact
      /\ CountersSpec => SettledCounts
  BY HooksAssumption, DurationsArePairedAlways, CountsAreExactAlways, SettledCountsAlways
<1> QED
  BY <1>1, PartsAreTheirOwn, SerialWithoutRace, OrphansOnlyByReuse, EventsStayInOrder, PTL
=============================================================================
