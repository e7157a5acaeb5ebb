----------------------------- MODULE TraceStore -----------------------------
(***************************************************************************)
(* The traces of the collector: internal/collector/store/badger.go and the *)
(* handler of GET /api/v1/traces (internal/collector/api/server.go).       *)
(*                                                                         *)
(* The key of a trace is its time and its id, and its life is counted from *)
(* when it is stored.  A query walks a snapshot of the keys in order,      *)
(* while more is stored and old traces expire.  BadgerDB is external: its  *)
(* transactions read one moment, but an entry that expires on the way may  *)
(* be skipped or, when it was fetched ahead, returned.  That DataSource    *)
(* hands the request on to QueryTraces is assumed: nothing implements it.  *)
(***************************************************************************)
EXTENDS Integers, Sequences, FiniteSets, SequencesExt

CONSTANTS MaxTime,          \* bound on the clock
          Ids,              \* trace ids, in their order; 0 is the empty one
          Services,
          Asked,            \* values of the parameter service
          NoService,        \* a trace without a service; in a query, no filter
          Retention,        \* life of a stored trace
          Durations,        \* values of the parameter duration; negative ones parse too
          Limits,           \* values of the parameter limit
          DefaultDuration,  \* 1 h
          DefaultLimit,     \* 200
          MaxStored         \* bound on the traces stored

ASSUME TraceAssumption ==
  /\ Ids \subseteq Nat
  /\ Durations \cup Limits \cup {DefaultDuration} \subseteq Int
  /\ DefaultLimit \in Nat \ {0}
  /\ {MaxTime, Retention, MaxStored} \subseteq Nat

VARIABLES
  now,
  db,      \* the stored traces, by key
  stored,  \* how many were stored
  query    \* the running or latest query

traceVars == <<now, db, stored, query>>

Keys == (0 .. MaxTime) \X Ids

Before(k, l) == k[1] < l[1] \/ (k[1] = l[1] /\ k[2] < l[2])

\* A stored trace, and a query of a store with the keys K.
Trace == [service : Services \cup {NoService}, dies : 0 .. MaxTime + Retention]
Query(K) ==
  [phase : {"open", "done"}, service : Asked \cup {NoService},
   from : Int, to : 0 .. MaxTime, limit : Nat \ {0},
   snapshot : [K -> Trace], cursor : Int \X Int, results : Seq(Keys)]

TraceTypeOK ==
  /\ now \in 0 .. MaxTime
  /\ DOMAIN db \subseteq Keys /\ db \in [DOMAIN db -> Trace]
  /\ stored \in 0 .. MaxStored
  /\ query.phase \in {"none", "open", "done"}
  /\ query.phase # "none" =>
       /\ DOMAIN query.snapshot \subseteq Keys
       /\ query \in Query(DOMAIN query.snapshot)

TraceInit == now = 0 /\ db = <<>> /\ stored = 0 /\ query = [phase |-> "none"]

TraceTick == now < MaxTime /\ now' = now + 1 /\ UNCHANGED <<db, stored, query>>

\* A trace of any time is stored; one with the same key is replaced.
StoreTrace(k, service) ==
  /\ stored < MaxStored
  /\ stored' = stored + 1
  /\ db' = [l \in DOMAIN db \cup {k} |->
       IF l = k THEN [service |-> service, dies |-> now + Retention] ELSE db[l]]
  /\ UNCHANGED <<now, query>>

\* What does not parse is 0 here, and anything below 1 takes the default.
parseIntParam(v, default) == IF v <= 0 THEN default ELSE v

\* handleTraces: from `duration' ago (ahead, when negative) until now.  The
\* transaction and its snapshot begin with the query.
HandleTraces(service, duration, limit) ==
  /\ query.phase # "open"
  /\ query' = [phase |-> "open", service |-> service,
               from |-> now - duration, to |-> now,
               limit |-> parseIntParam(limit, DefaultLimit),
               snapshot |-> Restrict(db, {k \in DOMAIN db : db[k].dies > now}),
               cursor |-> <<now - duration, -1>>, results |-> <<>>]
  /\ UNCHANGED <<now, db, stored>>

\* What the iterator reads.  Mutant: the store as it is by now.
Visible_Live == db
Visible == query.snapshot

\* Only a trace with another service is filtered out.
Passes(k) ==
  query.service = NoService \/ Visible[k].service \in {query.service, NoService}

\* key > endKey: the end is excluded, except for an empty id.
PastEnd(k) == Before(<<query.to, 0>>, k)

\* One turn of the loop of QueryTraces: it ends, or examines the next key.
QueryTraces ==
  LET ahead == {k \in DOMAIN Visible : Before(query.cursor, k)}
  IN  /\ query.phase = "open"
      /\ \E skipped \in SUBSET {k \in ahead : Visible[k].dies <= now} :
           LET left == ahead \ skipped
               next == CHOOSE k \in left : \A l \in left \ {k} : Before(k, l)
           IN  IF Len(query.results) >= query.limit \/ left = {} \/ PastEnd(next)
               THEN query' = [query EXCEPT !.phase = "done"]
               ELSE query' = [query EXCEPT !.cursor = next,
                                !.results = IF Passes(next) THEN Append(@, next) ELSE @]
      /\ UNCHANGED <<now, db, stored>>

TraceNext ==
  \/ TraceTick
  \/ \E k \in Keys, service \in Services \cup {NoService} : StoreTrace(k, service)
  \/ \E service \in Asked \cup {NoService},
        duration \in Durations \cup {DefaultDuration, -1}, limit \in Limits :
       HandleTraces(service, duration, limit)
  \/ QueryTraces

TraceSpec == TraceInit /\ [][TraceNext]_traceVars
-----------------------------------------------------------------------------
\* The traces of the period that were there when the query began, of the
\* service asked for or of none.
Wanted ==
  {k \in DOMAIN query.snapshot :
     /\ query.from <= k[1]
     /\ k[1] < query.to \/ k = <<query.to, 0>>
     /\ query.service # NoService =>
          query.snapshot[k].service \in {query.service, NoService}}

\* The answer of handleTraces is one moment of the store, whatever is stored
\* or expires during the query: the traces of the period that were there
\* when it began, of the service asked for or of none, oldest first and no
\* more than the limit.  Left out are only those that come after a full
\* answer, and those that have expired meanwhile.
AnswerIsOneMoment ==
  query.phase = "done" =>
    LET answer == query.results
    IN  /\ Len(answer) <= query.limit
        /\ ToSet(answer) \subseteq Wanted
        /\ \A i \in 2 .. Len(answer) : Before(answer[i - 1], answer[i])
        /\ \A k \in Wanted \ ToSet(answer) :
             \/ Len(answer) = query.limit /\ Before(Last(answer), k)
             \/ query.snapshot[k].dies <= now
=============================================================================
