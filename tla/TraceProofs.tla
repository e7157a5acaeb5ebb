----------------------------- MODULE TraceProofs -----------------------------
(***************************************************************************)
(* Theorems about TraceStore, for any times, ids, services, retention,     *)
(* queries and limits.                                                     *)
(*                                                                         *)
(* Argument.  A query reads a snapshot, so that nothing that is stored     *)
(* meanwhile matters, and a moment that is past stays past, so that what   *)
(* has expired stays expired.  What is inductive is that the cursor parts  *)
(* the snapshot (SoFar): every trace wanted that it has passed is in the   *)
(* answer or has expired, and nothing else is in it.                       *)
(***************************************************************************)
EXTENDS TraceStore, SequenceTheorems, WellFoundedInduction, TLAPS

\* The cursor has reached k.
Reached(k) == k = query.cursor \/ Before(k, query.cursor)

SoFar ==
  query.phase # "none" =>
    /\ query.from <= query.cursor[1]
    /\ Len(query.results) <= query.limit
    /\ \A k \in ToSet(query.results) : k \in Wanted /\ Reached(k)
    /\ \A i \in 2 .. Len(query.results) : Before(query.results[i - 1], query.results[i])
    /\ \A k \in Wanted \ ToSet(query.results) :
         Reached(k) => query.snapshot[k].dies <= now

TraceInv == TraceTypeOK /\ SoFar /\ AnswerIsOneMoment
-----------------------------------------------------------------------------
\* The order of the keys.
LEMMA KeysAreOrdered ==
  ASSUME NEW k \in Int \X Int, NEW l \in Int \X Int
  PROVE  /\ Before(k, l) \/ Before(l, k) \/ k = l
         /\ ~(Before(k, l) /\ Before(l, k))
         /\ ~Before(k, k)
         /\ \A m \in Int \X Int : Before(k, l) /\ Before(l, m) => Before(k, m)
<1>1. k = <<k[1], k[2]>> /\ l = <<l[1], l[2]>>
  OBVIOUS
<1>2. k[1] \in Int /\ k[2] \in Int /\ l[1] \in Int /\ l[2] \in Int
  OBVIOUS
<1>3. \A m \in Int \X Int : m[1] \in Int /\ m[2] \in Int
  OBVIOUS
<1>4. k # l => k[1] # l[1] \/ k[2] # l[2]
  BY <1>1
<1> QED BY <1>2, <1>3, <1>4 DEF Before

LEMMA KeysArePairs == \A k \in Keys : k \in Int \X Int /\ k[1] \in Int /\ k[2] \in Nat
<1>1. 0 .. MaxTime \subseteq Int /\ Ids \subseteq Int
  BY TraceAssumption
<1> QED BY <1>1, TraceAssumption DEF Keys

\* A set of numbers that is not empty has a least one.
LEMMA LeastNumber ==
  ASSUME NEW T, T \subseteq Nat, T # {}
  PROVE  \E t \in T : \A u \in T : t <= u
<1>1. IsWellFoundedOn(OpToRel(<, Nat), Nat)
  BY NatLessThanWellFounded
<1>2. PICK t \in T : \A u \in T : ~(<<u, t>> \in OpToRel(<, Nat))
  BY <1>1, WFMin
<1>3. \A u \in T : ~(u < t)
  BY <1>2 DEF OpToRel
<1>4. \A u \in T : t <= u
  BY <1>3
<1> QED BY <1>4

\* So has a set of keys.
LEMMA LeastKey ==
  ASSUME NEW S, S \subseteq Keys, S # {}
  PROVE  \E k \in S : \A l \in S \ {k} : Before(k, l)
<1> USE TraceAssumption
<1> DEFINE T == {k[1] : k \in S}
<1>1. PICK t \in T : \A u \in T : t <= u
  <2>1. T \subseteq Nat /\ T # {}
    BY DEF Keys
  <2> HIDE DEF T
  <2> QED BY <2>1, LeastNumber
<1> DEFINE E == {k \in S : k[1] = t}
           U == {k[2] : k \in E}
<1>2. PICK u \in U : \A v \in U : u <= v
  <2>1. U \subseteq Nat /\ U # {}
    BY <1>1 DEF Keys
  <2> HIDE DEF U
  <2> QED BY <2>1, LeastNumber
<1>3. PICK k \in E : k[2] = u
  BY <1>2
<1>4. ASSUME NEW l \in S \ {k} PROVE Before(k, l)
  <2>1. t <= l[1] /\ k[1] = t
    BY <1>1, <1>3
  <2>2. CASE l[1] = t
    <3>1. u <= l[2]
      BY <1>2, <2>2
    <3>2. l[2] # u
      <4>1. k = <<k[1], k[2]>> /\ l = <<l[1], l[2]>>
        BY DEF Keys
      <4> QED BY <4>1, <1>3, <2>2
    <3>3. l[2] \in Nat /\ u \in Nat
      BY <1>3 DEF Keys
    <3> QED BY <1>3, <2>1, <2>2, <3>1, <3>2, <3>3 DEF Before
  <2>3. CASE l[1] # t
    <3>1. l[1] \in Nat /\ t \in Nat
      BY <1>3 DEF Keys
    <3> QED BY <2>1, <2>3, <3>1 DEF Before
  <2> QED BY <2>2, <2>3
<1> QED BY <1>3, <1>4
-----------------------------------------------------------------------------
\* The first of a set of keys.
IsFirst(k, S) == k \in S /\ \A l \in S \ {k} : Before(k, l)

\* What the cursor has not reached, and the two outcomes of a turn that skips
\* some of it.
Ahead == {k \in DOMAIN query.snapshot : Before(query.cursor, k)}

Ends(skipped) ==
  /\ \A k \in skipped : query.snapshot[k].dies <= now
  /\ \/ Len(query.results) >= query.limit
     \/ Ahead \ skipped = {}
     \/ \E k \in Ahead : IsFirst(k, Ahead \ skipped) /\ PastEnd(k)
  /\ query' = [query EXCEPT !.phase = "done"]

Examines(k, skipped) ==
  /\ \A l \in skipped : query.snapshot[l].dies <= now
  /\ Len(query.results) < query.limit
  /\ IsFirst(k, Ahead \ skipped) /\ ~PastEnd(k)
  /\ query' = [query EXCEPT !.cursor = k,
                 !.results = IF Passes(k) THEN Append(@, k) ELSE @]

\* A turn of QueryTraces has one of these outcomes.
LEMMA QueryTurns ==
  ASSUME TraceTypeOK, QueryTraces
  PROVE  \E skipped \in SUBSET Ahead :
           Ends(skipped) \/ \E k \in Ahead : Examines(k, skipped)
<1>1. PICK skipped \in SUBSET {k \in Ahead : query.snapshot[k].dies <= now} :
        LET left == Ahead \ skipped
            next == CHOOSE k \in left : \A l \in left \ {k} : Before(k, l)
        IN  IF Len(query.results) >= query.limit \/ left = {} \/ PastEnd(next)
            THEN query' = [query EXCEPT !.phase = "done"]
            ELSE query' = [query EXCEPT !.cursor = next,
                             !.results = IF Passes(next) THEN Append(@, next) ELSE @]
  BY DEF QueryTraces, Ahead, Visible
<1> DEFINE left == Ahead \ skipped
           next == CHOOSE k \in left : \A l \in left \ {k} : Before(k, l)
<1>2. ASSUME left # {} PROVE IsFirst(next, left)
  <2>1. left \subseteq Keys
    BY DEF Ahead, TraceTypeOK, QueryTraces
  <2>2. \E k \in left : \A l \in left \ {k} : Before(k, l)
    <3> HIDE DEF left
    <3> QED BY <1>2, <2>1, LeastKey
  <2> QED BY <2>2 DEF IsFirst
<1>3. /\ Len(query.results) \in Nat /\ query.limit \in Nat
      /\ skipped \subseteq Ahead /\ \A k \in skipped : query.snapshot[k].dies <= now
  BY LenProperties DEF TraceTypeOK, QueryTraces, Query
<1> HIDE DEF next
<1>4. CASE Len(query.results) >= query.limit \/ left = {} \/ PastEnd(next)
  <2>1. query' = [query EXCEPT !.phase = "done"]
    BY <1>1, <1>4 DEF next
  <2>2. left = {} \/ (next \in Ahead /\ IsFirst(next, left))
    BY <1>2 DEF IsFirst
  <2> QED BY <1>3, <1>4, <2>1, <2>2 DEF Ends
<1>5. CASE ~(Len(query.results) >= query.limit \/ left = {} \/ PastEnd(next))
  <2>1. query' = [query EXCEPT !.cursor = next,
                    !.results = IF Passes(next) THEN Append(@, next) ELSE @]
    BY <1>1, <1>5 DEF next
  <2>2. next \in Ahead /\ IsFirst(next, left)
    BY <1>2, <1>5 DEF IsFirst
  <2>3. Len(query.results) < query.limit /\ ~PastEnd(next)
    BY <1>3, <1>5
  <2>4. Examines(next, skipped)
    BY <1>3, <2>1, <2>2, <2>3, Zenon DEF Examines
  <2> QED BY <1>3, <2>2, <2>4
<1> QED BY <1>4, <1>5

\* Every variable keeps its type.
THEOREM TraceTypeCorrect == TraceSpec => []TraceTypeOK
<1> USE TraceAssumption
<1>1. TraceInit => TraceTypeOK
  BY DEF TraceInit, TraceTypeOK
<1>2. TraceTypeOK /\ [TraceNext]_traceVars => TraceTypeOK'
  <2> SUFFICES ASSUME TraceTypeOK, [TraceNext]_traceVars PROVE TraceTypeOK'
    OBVIOUS
  <2>1. CASE TraceTick
    BY <2>1 DEF TraceTick, TraceTypeOK
  <2>2. ASSUME NEW k \in Keys, NEW s \in Services \cup {NoService}, StoreTrace(k, s)
        PROVE  TraceTypeOK'
    <3> DEFINE new == [service |-> s, dies |-> now + Retention]
    <3>1. new \in Trace
      BY DEF TraceTypeOK, Trace
    <3>2. /\ db' = [l \in DOMAIN db \cup {k} |-> IF l = k THEN new ELSE db[l]]
          /\ UNCHANGED <<now, query>> /\ stored' \in 0 .. MaxStored
      BY <2>2 DEF StoreTrace, TraceTypeOK
    <3> HIDE DEF new
    <3>3. DOMAIN db' \subseteq Keys /\ db' \in [DOMAIN db' -> Trace]
      BY <3>1, <3>2 DEF TraceTypeOK
    <3> QED BY <3>2, <3>3 DEF TraceTypeOK
  <2>3. ASSUME NEW s \in Asked \cup {NoService},
               NEW d \in Durations \cup {DefaultDuration, -1}, NEW n \in Limits,
               HandleTraces(s, d, n)
        PROVE  TraceTypeOK'
    <3> DEFINE live == {k \in DOMAIN db : db[k].dies > now}
    <3>1. Restrict(db, live) \in [live -> Trace] /\ live \subseteq Keys
      BY DEF Restrict, TraceTypeOK
    <3>2. parseIntParam(n, DefaultLimit) \in Nat \ {0}
      BY DEF parseIntParam
    <3>3. /\ now - d \in Int /\ now \in 0 .. MaxTime
          /\ <<now - d, -1>> \in Int \X Int /\ <<>> \in Seq(Keys)
      <4>1. now \in Int /\ now \in 0 .. MaxTime /\ d \in Int
        BY DEF TraceTypeOK
      <4> QED BY <4>1, EmptySeq
    <3>4. /\ query' = [phase |-> "open", service |-> s, from |-> now - d, to |-> now,
                       limit |-> parseIntParam(n, DefaultLimit),
                       snapshot |-> Restrict(db, live),
                       cursor |-> <<now - d, -1>>, results |-> <<>>]
          /\ UNCHANGED <<now, db, stored>>
      BY <2>3 DEF HandleTraces
    <3> HIDE DEF live
    <3>5. DOMAIN query'.snapshot = live /\ query' \in Query(live)
      BY <3>1, <3>2, <3>3, <3>4 DEF Query
    <3>6. query'.phase = "open"
      BY <3>4
    <3> QED BY <3>1, <3>4, <3>5, <3>6 DEF TraceTypeOK
  <2>4. CASE QueryTraces
    <3>1. PICK skipped \in SUBSET Ahead : Ends(skipped) \/ \E k \in Ahead : Examines(k, skipped)
      BY <2>4, QueryTurns
    <3>2. /\ query \in Query(DOMAIN query.snapshot) /\ query.phase = "open"
          /\ UNCHANGED <<now, db, stored>>
      BY <2>4 DEF QueryTraces, TraceTypeOK
    <3>3. CASE Ends(skipped)
      BY <3>2, <3>3 DEF Ends, TraceTypeOK, Query
    <3>4. ASSUME NEW k \in Ahead, Examines(k, skipped) PROVE TraceTypeOK'
      <4>1. k \in Keys /\ k \in Int \X Int
        BY <3>2, KeysArePairs DEF Ahead, TraceTypeOK
      <4>2. query.results \in Seq(Keys)
        BY <3>2 DEF Query
      <4>3. query'.results \in Seq(Keys)
        BY <3>2, <3>4, <4>1, <4>2, AppendProperties DEF Examines, Query
      <4>4. query' \in Query(DOMAIN query.snapshot) /\ query'.snapshot = query.snapshot
        BY <3>2, <3>4, <4>1, <4>3 DEF Examines, Query
      <4>5. query'.phase = "open"
        BY <3>2, <3>4 DEF Examines, Query
      <4> QED BY <3>2, <4>4, <4>5 DEF TraceTypeOK
    <3> QED BY <3>1, <3>3, <3>4
  <2>5. CASE UNCHANGED traceVars
    BY <2>5 DEF traceVars, TraceTypeOK
  <2> QED BY <2>1, <2>2, <2>3, <2>4, <2>5 DEF TraceNext
<1> QED BY <1>1, <1>2, PTL DEF TraceSpec
-----------------------------------------------------------------------------
\* A query that stays as it is keeps its answer, while time goes on.
LEMMA WaitingKeepsInv ==
  ASSUME TraceInv, UNCHANGED query, now' \in Int, now' >= now
  PROVE  SoFar' /\ AnswerIsOneMoment'
<1>1. Wanted' = Wanted /\ \A k : Reached(k)' = Reached(k)
  BY DEF Wanted, Reached
<1>2. ASSUME query.phase # "none", NEW k \in Wanted, query.snapshot[k].dies <= now
      PROVE  query.snapshot[k].dies <= now'
  <2>1. query.snapshot[k].dies \in Int /\ now \in Int
    BY <1>2 DEF TraceInv, TraceTypeOK, Query, Trace, Wanted
  <2> QED BY <1>2, <2>1
<1>3. SoFar'
  BY <1>1, <1>2 DEF TraceInv, SoFar
<1>4. AnswerIsOneMoment'
  BY <1>1, <1>2 DEF TraceInv, AnswerIsOneMoment
<1> QED BY <1>3, <1>4

\* A query that begins has reached nothing that is wanted.
LEMMA BeginningKeepsInv ==
  ASSUME TraceInv, TraceTypeOK',
         NEW s \in Asked \cup {NoService},
         NEW d \in Durations \cup {DefaultDuration, -1}, NEW n \in Limits,
         HandleTraces(s, d, n)
  PROVE  SoFar' /\ AnswerIsOneMoment'
<1>1. /\ query'.phase = "open" /\ query'.results = <<>>
      /\ query'.cursor = <<query'.from, -1>>
  BY DEF HandleTraces
<1>2. /\ query'.from \in Int /\ query'.limit \in Nat \ {0}
      /\ \A k \in Wanted' : k \in Keys /\ query'.from <= k[1]
  BY <1>1 DEF TraceTypeOK, Query, Wanted
<1>3. ASSUME NEW k \in Wanted' PROVE ~Reached(k)'
  <2>1. k[1] \in Int /\ k[2] \in Nat /\ query'.from <= k[1]
    BY <1>2, <1>3, KeysArePairs
  <2> QED BY <1>1, <1>2, <2>1 DEF Reached, Before
<1>4. ToSet(<<>>) = {} /\ Len(<<>>) = 0
  BY EmptySeq DEF ToSet
<1>5. query'.from <= query'.cursor[1]
  BY <1>1, <1>2
<1> QED BY <1>1, <1>2, <1>3, <1>4, <1>5 DEF SoFar, AnswerIsOneMoment

\* What is ahead is a key of the period's start or later, and what is wanted
\* has been reached or is ahead.
LEMMA AheadAndReached ==
  ASSUME TraceInv, query.phase = "open"
  PROVE  /\ query.cursor \in Int \X Int
         /\ \A k \in Ahead : k \in Int \X Int /\ query.from <= k[1] /\ ~Reached(k)
         /\ \A k \in Wanted : k \in Int \X Int /\ (Reached(k) \/ k \in Ahead)
<1>1. /\ query.cursor \in Int \X Int /\ query.from \in Int
      /\ query.from <= query.cursor[1]
      /\ \A k \in DOMAIN query.snapshot : k \in Int \X Int
  BY KeysArePairs DEF TraceInv, TraceTypeOK, Query, SoFar
<1>2. ASSUME NEW k \in Ahead PROVE query.from <= k[1] /\ ~Reached(k)
  <2>1. k \in Int \X Int /\ Before(query.cursor, k)
    BY <1>1 DEF Ahead
  <2>2. query.cursor[1] \in Int /\ k[1] \in Int /\ query.cursor[1] <= k[1]
    BY <1>1, <2>1 DEF Before
  <2>3. ~Reached(k)
    BY <1>1, <2>1, KeysAreOrdered DEF Reached
  <2> QED BY <1>1, <2>2, <2>3
<1>3. ASSUME NEW k \in Wanted PROVE k \in Int \X Int /\ (Reached(k) \/ k \in Ahead)
  BY <1>1, KeysAreOrdered DEF Wanted, Reached, Ahead
<1> QED BY <1>1, <1>2, <1>3 DEF Ahead

\* A query that ends has left out only what it may.
LEMMA EndingKeepsInv ==
  ASSUME TraceInv, query.phase = "open", UNCHANGED now,
         NEW skipped \in SUBSET Ahead, Ends(skipped)
  PROVE  SoFar' /\ AnswerIsOneMoment'
<1>1. /\ query \in Query(DOMAIN query.snapshot) /\ DOMAIN query.snapshot \subseteq Keys
      /\ query'.phase = "done" /\ query'.results = query.results
      /\ query'.cursor = query.cursor /\ query'.snapshot = query.snapshot
      /\ query'.from = query.from /\ query'.to = query.to
      /\ query'.limit = query.limit /\ query'.service = query.service
  BY DEF TraceInv, TraceTypeOK, Ends, Query
<1>2. Wanted' = Wanted /\ \A k : Reached(k)' = Reached(k)
  BY <1>1 DEF Wanted, Reached
<1>3. SoFar'
  BY <1>1, <1>2 DEF TraceInv, SoFar
<1>4. /\ query.results \in Seq(Keys) /\ Len(query.results) \in Nat
      /\ query.limit \in Nat \ {0} /\ Len(query.results) <= query.limit
  BY <1>1, LenProperties DEF TraceInv, SoFar, Query
<1>5. ASSUME NEW k \in Wanted \ ToSet(query.results), ~(query.snapshot[k].dies <= now)
      PROVE  Len(query.results) = query.limit /\ Before(Last(query.results), k)
  <2>1. k \in Ahead \ skipped
    BY <1>5, AheadAndReached DEF Ends, TraceInv, SoFar
  <2>2. CASE Len(query.results) >= query.limit
    <3>1. Len(query.results) = query.limit /\ Len(query.results) \in 1 .. Len(query.results)
      BY <1>4, <2>2
    <3>2. Last(query.results) \in ToSet(query.results) /\ Last(query.results) \in Int \X Int
      BY <1>4, <3>1, KeysArePairs DEF Last, ToSet
    <3>3. Reached(Last(query.results))
      BY <3>2 DEF TraceInv, SoFar
    <3> QED BY <2>1, <3>1, <3>2, <3>3, AheadAndReached, KeysAreOrdered DEF Reached, Ahead
  <2>3. ASSUME NEW next \in Ahead, IsFirst(next, Ahead \ skipped), PastEnd(next) PROVE FALSE
    <3>1. next = k \/ Before(next, k)
      BY <2>1, <2>3 DEF IsFirst
    <3>2. <<query.to, 0>> \in Int \X Int /\ next \in Int \X Int /\ k \in Int \X Int
      BY <1>1, <2>1, <2>3, AheadAndReached, TraceAssumption DEF Query
    <3>3. Before(<<query.to, 0>>, k)
      BY <2>3, <3>1, <3>2, KeysAreOrdered DEF PastEnd
    <3>4. k[1] < query.to \/ k = <<query.to, 0>>
      BY <1>5 DEF Wanted
    <3> QED BY <3>2, <3>3, <3>4 DEF Before
  <2> QED BY <2>1, <2>2, <2>3 DEF Ends
<1>6. ToSet(query.results) \subseteq Wanted
  BY DEF TraceInv, SoFar
<1> QED BY <1>1, <1>2, <1>3, <1>4, <1>5, <1>6 DEF AnswerIsOneMoment, TraceInv, SoFar

\* A trace that is examined is the next one wanted, or is not wanted.
LEMMA ExaminingKeepsInv ==
  ASSUME TraceInv, query.phase = "open", UNCHANGED now,
         NEW skipped \in SUBSET Ahead, NEW next \in Ahead, Examines(next, skipped)
  PROVE  SoFar' /\ AnswerIsOneMoment'
<1> DEFINE r == query.results
<1>1. /\ query \in Query(DOMAIN query.snapshot) /\ DOMAIN query.snapshot \subseteq Keys
      /\ query'.phase = "open" /\ query'.cursor = next
      /\ query'.results = (IF Passes(next) THEN Append(r, next) ELSE r)
      /\ query'.snapshot = query.snapshot
      /\ query'.from = query.from /\ query'.to = query.to
      /\ query'.limit = query.limit /\ query'.service = query.service
  BY DEF TraceInv, TraceTypeOK, Examines, Query
<1>2. Wanted' = Wanted
  BY <1>1 DEF Wanted
<1>3. next \in Keys /\ next \in Int \X Int /\ query.from <= next[1]
  BY <1>1, AheadAndReached DEF Ahead
<1>4. /\ r \in Seq(Keys) /\ Len(r) \in Nat /\ query.limit \in Nat /\ Len(r) < query.limit
      /\ \A k \in ToSet(r) : k \in Wanted /\ Reached(k)
  BY <1>1, LenProperties DEF Examines, Query, TraceInv, SoFar
<1>5. /\ ToSet(Append(r, next)) = ToSet(r) \cup {next}
      /\ Len(Append(r, next)) = Len(r) + 1
      /\ \A i \in 1 .. Len(r) : Append(r, next)[i] = r[i]
      /\ Append(r, next)[Len(r) + 1] = next
  <2>1. /\ Append(r, next) \in Seq(Keys) /\ Len(Append(r, next)) = Len(r) + 1
        /\ DOMAIN Append(r, next) = 1 .. Len(r) + 1 /\ DOMAIN r = 1 .. Len(r)
        /\ \A i \in 1 .. Len(r) : Append(r, next)[i] = r[i]
        /\ Append(r, next)[Len(r) + 1] = next
    BY <1>3, <1>4, AppendProperties, LenProperties
  <2> HIDE DEF r
  <2>2. ToSet(Append(r, next)) = ToSet(r) \cup {next}
    BY <1>4, <2>1 DEF ToSet
  <2> QED BY <2>1, <2>2
<1>6. Passes(next) <=> next \in Wanted
  <2>1. next \in DOMAIN query.snapshot
    BY DEF Ahead
  <2>2. next[1] < query.to \/ next = <<query.to, 0>>
    <3>1. /\ next[1] \in Int /\ next[2] \in Nat /\ query.to \in Int
          /\ next = <<next[1], next[2]>> /\ ~Before(<<query.to, 0>>, next)
      BY <1>1, <1>3, KeysArePairs, TraceAssumption DEF Examines, PastEnd, Query
    <3> QED BY <3>1 DEF Before
  <2> QED BY <1>3, <2>1, <2>2 DEF Passes, Visible, Wanted
<1>7. \A k \in Int \X Int : Reached(k) => Before(k, next)
  <2>1. query.cursor \in Int \X Int /\ Before(query.cursor, next)
    BY <1>1, AheadAndReached DEF Ahead
  <2> QED BY <1>3, <2>1, KeysAreOrdered DEF Reached
<1>8. ASSUME NEW k \in Wanted, k = next \/ Before(k, next)
      PROVE  \/ k = next \/ Reached(k)
             \/ query.snapshot[k].dies <= now
  <2>1. CASE k \in Ahead \ skipped
    <3>1. k = next \/ Before(next, k)
      BY <2>1 DEF Examines, IsFirst
    <3>2. k \in Int \X Int
      BY AheadAndReached
    <3> QED BY <1>3, <1>8, <3>1, <3>2, KeysAreOrdered
  <2>2. CASE k \in skipped
    BY <2>2 DEF Examines
  <2> QED BY <2>1, <2>2, AheadAndReached
<1>9. \A k : Reached(k)' <=> k = next \/ Before(k, next)
  BY <1>1 DEF Reached
<1>10. query'.from <= query'.cursor[1] /\ Len(query'.results) <= query'.limit
  BY <1>1, <1>3, <1>4, <1>5
<1>11. \A k \in ToSet(query'.results) : k \in Wanted /\ (k = next \/ Before(k, next))
  <2>1. \A k \in ToSet(r) : k \in Int \X Int
    BY <1>4, AheadAndReached
  <2> QED BY <1>1, <1>4, <1>5, <1>6, <1>7, <2>1
<1>12. \A i \in 2 .. Len(query'.results) : Before(query'.results[i - 1], query'.results[i])
  <2>1. \A i \in 2 .. Len(r) : Before(r[i - 1], r[i])
    BY DEF TraceInv, SoFar
  <2>2. ASSUME NEW i \in 2 .. Len(r) + 1
        PROVE  Before(Append(r, next)[i - 1], Append(r, next)[i])
    <3>1. CASE i = Len(r) + 1
      <4>1. Len(r) \in 1 .. Len(r) /\ i - 1 = Len(r)
        BY <1>4, <3>1
      <4>2. r[Len(r)] \in ToSet(r) /\ r[Len(r)] \in Int \X Int
        BY <1>4, <4>1, KeysArePairs DEF ToSet
      <4> QED BY <1>4, <1>5, <1>7, <3>1, <4>1, <4>2
    <3>2. CASE i # Len(r) + 1
      <4>1. i \in 2 .. Len(r) /\ i \in 1 .. Len(r) /\ i - 1 \in 1 .. Len(r)
        BY <1>4, <3>2
      <4> QED BY <1>5, <2>1, <4>1
    <3> QED BY <3>1, <3>2
  <2> QED BY <1>1, <1>5, <2>1, <2>2
<1>13. \A k \in Wanted \ ToSet(query'.results) :
         k = next \/ Before(k, next) => query.snapshot[k].dies <= now
  <2>1. \A k \in Wanted \ ToSet(r) : Reached(k) => query.snapshot[k].dies <= now
    BY DEF TraceInv, SoFar
  <2> QED BY <1>1, <1>5, <1>6, <1>8, <2>1
<1>14. SoFar'
  BY <1>1, <1>2, <1>9, <1>10, <1>11, <1>12, <1>13 DEF SoFar
<1>15. AnswerIsOneMoment'
  BY <1>1 DEF AnswerIsOneMoment
<1> QED BY <1>14, <1>15

\* The invariant of the queries.
THEOREM TraceInvariant == TraceSpec => []TraceInv
<1> USE TraceAssumption
<1>1. TraceInit => SoFar /\ AnswerIsOneMoment
  BY DEF TraceInit, SoFar, AnswerIsOneMoment
<1>2. TraceInv /\ TraceTypeOK' /\ [TraceNext]_traceVars => SoFar' /\ AnswerIsOneMoment'
  <2> SUFFICES ASSUME TraceInv, TraceTypeOK', [TraceNext]_traceVars
               PROVE  SoFar' /\ AnswerIsOneMoment'
    OBVIOUS
  <2>0. now \in Int
    BY DEF TraceInv, TraceTypeOK
  <2>1. CASE TraceTick
    BY <2>0, <2>1, WaitingKeepsInv DEF TraceTick
  <2>2. ASSUME NEW k \in Keys, NEW s \in Services \cup {NoService}, StoreTrace(k, s)
        PROVE  SoFar' /\ AnswerIsOneMoment'
    BY <2>0, <2>2, WaitingKeepsInv DEF StoreTrace
  <2>3. ASSUME NEW s \in Asked \cup {NoService},
               NEW d \in Durations \cup {DefaultDuration, -1}, NEW n \in Limits,
               HandleTraces(s, d, n)
        PROVE  SoFar' /\ AnswerIsOneMoment'
    BY <2>3, BeginningKeepsInv
  <2>4. CASE QueryTraces
    <3>1. PICK skipped \in SUBSET Ahead :
            Ends(skipped) \/ \E k \in Ahead : Examines(k, skipped)
      BY <2>4, QueryTurns DEF TraceInv
    <3>2. query.phase = "open" /\ UNCHANGED now
      BY <2>4 DEF QueryTraces
    <3> QED BY <3>1, <3>2, EndingKeepsInv, ExaminingKeepsInv
  <2>5. CASE UNCHANGED traceVars
    BY <2>0, <2>5, WaitingKeepsInv DEF traceVars
  <2> QED BY <2>1, <2>2, <2>3, <2>4, <2>5 DEF TraceNext
<1>3. TraceInv <=> TraceTypeOK /\ SoFar /\ AnswerIsOneMoment
  BY DEF TraceInv
<1> QED BY <1>1, <1>2, <1>3, TraceTypeCorrect, PTL DEF TraceSpec

\* The answer of handleTraces is one moment of the store, for any store, any
\* query and whatever is stored or expires meanwhile.
THEOREM AnswersAreOneMoment == TraceSpec => []AnswerIsOneMoment
BY TraceInvariant, PTL DEF TraceInv
=============================================================================
