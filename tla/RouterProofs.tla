---------------------------- MODULE RouterProofs ----------------------------
(***************************************************************************)
(* Theorems about the parts of the correlator (MCRouter): the lock of the  *)
(* LLM router, for any goroutines and any number of clients; its circuit   *)
(* breaker, for any workers, requests, clients, threshold and window; the  *)
(* prompts, for any data; and the answers, for any that a provider can     *)
(* send.                                                                   *)
(*                                                                         *)
(* Argument for the lock.  The inductive invariant says how often each     *)
(* goroutine holds the lock at each place of its call, that readers wait   *)
(* only behind a writer, and that a writer is inside alone.  When nobody   *)
(* in a call can go on, the writer must be waiting for somebody who holds  *)
(* the lock and waits itself; by the invariant only a lister does both.    *)
(*                                                                         *)
(* Argument for the breaker.  BreakerTracksReports says nothing of a count *)
(* below the threshold.  What is inductive is that the count is the number *)
(* of failures at the end of the latest reports, and the time stamp that   *)
(* of the last report while there is a failure to stamp (CountsTheEnd).    *)
(*                                                                         *)
(* Argument for the prompts.  The truncator is a run of eight passes, each *)
(* of which touches one field and changes nothing that fits (Pass).  So    *)
(* what is too long at a place of the run was too long at every place      *)
(* before (OnceItFits): all fields before it in the order were cut, and    *)
(* are spent.  Nothing is used of the length of a prompt but whether it is *)
(* over the limit, and a field may even grow when it is cut.               *)
(***************************************************************************)
EXTENDS MCRouter, SequenceTheorems, WellFoundedInduction, TLAPS
-----------------------------------------------------------------------------
(***************************************************************************)
(* The lock.                                                               *)
(***************************************************************************)

ReaderHolds ==
  \A g \in Readers :
    /\ pc[g] \in {"idle", "reading"}
    /\ holds[g] = IF pc[g] = "reading" /\ g \notin queue THEN 1 ELSE 0
    /\ g \in queue => pc[g] = "reading"

ListerHolds ==
  \A g \in Listers :
    /\ pc[g] \in {"idle", "listing", "asking"}
    /\ holds[g] = (IF pc[g] = "idle" THEN 0 ELSE IF pc[g] = "listing" THEN 1 ELSE 2)
                    - (IF g \in queue THEN 1 ELSE 0)
    /\ g \in queue => pc[g] # "idle"
    /\ pc[g] = "asking" => asked[g] < NumClients

WriterPlaces ==
  /\ \A g \in Writers : /\ pc[g] \in {"idle", "locking", "writing"}
                        /\ pc[g] = "writing" <=> g = writer /\ inside
  /\ writer # NoWriter => pc[writer] \in {"locking", "writing"}
  /\ inside => writer # NoWriter
  /\ queue # {} => writer # NoWriter

\* A writer that is inside excludes every reader.
Exclusion == inside => \A g \in Shared : holds[g] = 0

LocksInv == TypeOK /\ ReaderHolds /\ ListerHolds /\ WriterPlaces /\ Exclusion
-----------------------------------------------------------------------------
\* The invariant is inductive: one step per action.
THEOREM LocksInvariant == Init /\ [][Next]_vars => []LocksInv
<1> USE LockAssumption DEF Shared, Goroutines
<1>1. Init => LocksInv
  <2> SUFFICES ASSUME Init PROVE LocksInv
    OBVIOUS
  <2> USE DEF Init
  <2>1. TypeOK
    <3>1. pc \in [Goroutines -> {"idle", "locking", "reading", "listing", "asking", "writing"}]
      OBVIOUS
    <3>2. asked \in [Listers -> 0 .. NumClients]
      OBVIOUS
    <3>3. holds \in [Shared -> 0 .. 2]
      OBVIOUS
    <3>4. queue \subseteq Shared
      OBVIOUS
    <3>5. writer \in Writers \cup {NoWriter}
      OBVIOUS
    <3>6. inside \in BOOLEAN
      OBVIOUS
    <3> QED BY <3>1, <3>2, <3>3, <3>4, <3>5, <3>6 DEF TypeOK
  <2>2. ReaderHolds /\ ListerHolds
    BY DEF ReaderHolds, ListerHolds
  <2>3. WriterPlaces /\ Exclusion
    BY DEF WriterPlaces, Exclusion
  <2> QED BY <2>1, <2>2, <2>3 DEF LocksInv
<1>2. LocksInv /\ [Next]_vars => LocksInv'
  <2> SUFFICES ASSUME LocksInv, [Next]_vars PROVE LocksInv'
    OBVIOUS
  <2> USE DEF LocksInv, Goto
  <2>1. ASSUME NEW g \in Goroutines, WriterCalls(g) PROVE LocksInv'
    <3> USE <2>1 DEF WriterCalls
    <3>1. TypeOK' /\ Exclusion'
      BY DEF TypeOK, ReaderHolds, ListerHolds, WriterPlaces, Exclusion
    <3>2. ReaderHolds' /\ ListerHolds'
      BY DEF TypeOK, ReaderHolds, ListerHolds, Exclusion
    <3>3. WriterPlaces'
      BY DEF TypeOK, ReaderHolds, ListerHolds, WriterPlaces
    <3> QED BY <3>1, <3>2, <3>3
  <2>2. ASSUME NEW g \in Goroutines, WriterIsNext(g) PROVE LocksInv'
    <3> USE <2>2 DEF WriterIsNext
    <3>1. TypeOK' /\ Exclusion'
      BY DEF TypeOK, ReaderHolds, ListerHolds, WriterPlaces, Exclusion
    <3>2. ReaderHolds' /\ ListerHolds'
      BY DEF TypeOK, ReaderHolds, ListerHolds, Exclusion
    <3>3. WriterPlaces'
      BY DEF TypeOK, ReaderHolds, ListerHolds, WriterPlaces
    <3> QED BY <3>1, <3>2, <3>3
  <2>3. ASSUME NEW g \in Goroutines, WriterEnters(g) PROVE LocksInv'
    <3> USE <2>3 DEF WriterEnters
    <3>0. g \in Writers /\ writer # NoWriter /\ pc[g] = "locking"
      BY DEF TypeOK, WriterPlaces
    <3> USE <3>0
    <3>1. TypeOK' /\ Exclusion'
      BY DEF TypeOK, ReaderHolds, ListerHolds, WriterPlaces, Exclusion
    <3>2. ReaderHolds' /\ ListerHolds'
      BY DEF TypeOK, ReaderHolds, ListerHolds, Exclusion
    <3>3. WriterPlaces'
      BY DEF TypeOK, ReaderHolds, ListerHolds, WriterPlaces
    <3> QED BY <3>1, <3>2, <3>3
  <2>4. ASSUME NEW g \in Goroutines, WriterReturns(g) PROVE LocksInv'
    <3> USE <2>4 DEF WriterReturns, Release, Unlock
    <3>0. g \in Writers /\ g = writer /\ inside /\ \A r \in Shared : holds[r] = 0
      BY DEF TypeOK, ReaderHolds, ListerHolds, WriterPlaces, Exclusion
    <3> USE <3>0
    <3>1. TypeOK' /\ Exclusion'
      <4>1. holds' \in [Shared -> 0 .. 2]
        BY <3>0 DEF TypeOK
      <4>2. pc' \in [Goroutines -> {"idle", "locking", "reading", "listing", "asking", "writing"}]
        BY DEF TypeOK
      <4>3. writer' = NoWriter /\ inside' = FALSE /\ queue' = {} /\ asked' = asked
        OBVIOUS
      <4> QED BY <4>1, <4>2, <4>3 DEF TypeOK, Exclusion
    <3>2. ReaderHolds' /\ ListerHolds'
      BY DEF TypeOK, ReaderHolds, ListerHolds, Exclusion
    <3>3. WriterPlaces'
      BY DEF TypeOK, ReaderHolds, ListerHolds, WriterPlaces
    <3> QED BY <3>1, <3>2, <3>3
  <2>5. ASSUME NEW g \in Goroutines, ReaderCalls(g) PROVE LocksInv'
    <3> USE <2>5 DEF ReaderCalls, RLock
    <3>1. TypeOK' /\ Exclusion'
      BY DEF TypeOK, ReaderHolds, ListerHolds, WriterPlaces, Exclusion
    <3>2. ReaderHolds' /\ ListerHolds'
      BY DEF TypeOK, ReaderHolds, ListerHolds, Exclusion
    <3>3. WriterPlaces'
      BY DEF TypeOK, ReaderHolds, ListerHolds, WriterPlaces
    <3> QED BY <3>1, <3>2, <3>3
  <2>6. ASSUME NEW g \in Goroutines, ReaderReturns(g) PROVE LocksInv'
    <3> USE <2>6 DEF ReaderReturns, RUnlock
    <3>1. TypeOK' /\ Exclusion'
      BY DEF TypeOK, ReaderHolds, ListerHolds, WriterPlaces, Exclusion
    <3>2. ReaderHolds' /\ ListerHolds'
      BY DEF TypeOK, ReaderHolds, ListerHolds, Exclusion
    <3>3. WriterPlaces'
      BY DEF TypeOK, ReaderHolds, ListerHolds, WriterPlaces
    <3> QED BY <3>1, <3>2, <3>3
  <2>7. ASSUME NEW g \in Goroutines, ListerCalls(g) PROVE LocksInv'
    <3> USE <2>7 DEF ListerCalls, RLock
    <3>1. TypeOK' /\ Exclusion'
      BY DEF TypeOK, ReaderHolds, ListerHolds, WriterPlaces, Exclusion
    <3>2. ReaderHolds' /\ ListerHolds'
      BY DEF TypeOK, ReaderHolds, ListerHolds, Exclusion
    <3>3. WriterPlaces'
      BY DEF TypeOK, ReaderHolds, ListerHolds, WriterPlaces
    <3> QED BY <3>1, <3>2, <3>3
  <2>8. ASSUME NEW g \in Goroutines, ListerAsks(g) PROVE LocksInv'
    <3> USE <2>8 DEF ListerAsks, RLock
    <3>1. TypeOK' /\ Exclusion'
      BY DEF TypeOK, ReaderHolds, ListerHolds, WriterPlaces, Exclusion
    <3>2. ReaderHolds' /\ ListerHolds'
      BY DEF TypeOK, ReaderHolds, ListerHolds, Exclusion
    <3>3. WriterPlaces'
      BY DEF TypeOK, ReaderHolds, ListerHolds, WriterPlaces
    <3> QED BY <3>1, <3>2, <3>3
  <2>9. ASSUME NEW g \in Goroutines, ListerIsAnswered(g) PROVE LocksInv'
    <3> USE <2>9 DEF ListerIsAnswered, RUnlock
    <3>1. TypeOK' /\ Exclusion'
      BY DEF TypeOK, ReaderHolds, ListerHolds, WriterPlaces, Exclusion
    <3>2. ReaderHolds' /\ ListerHolds'
      BY DEF TypeOK, ReaderHolds, ListerHolds, Exclusion
    <3>3. WriterPlaces'
      BY DEF TypeOK, ReaderHolds, ListerHolds, WriterPlaces
    <3> QED BY <3>1, <3>2, <3>3
  <2>10. ASSUME NEW g \in Goroutines, ListerReturns(g) PROVE LocksInv'
    <3> USE <2>10 DEF ListerReturns, Leave, RUnlock
    <3>1. TypeOK' /\ Exclusion'
      BY DEF TypeOK, ReaderHolds, ListerHolds, WriterPlaces, Exclusion
    <3>2. ReaderHolds' /\ ListerHolds'
      BY DEF TypeOK, ReaderHolds, ListerHolds, Exclusion
    <3>3. WriterPlaces'
      BY DEF TypeOK, ReaderHolds, ListerHolds, WriterPlaces
    <3> QED BY <3>1, <3>2, <3>3
  <2>11. CASE UNCHANGED vars
    BY <2>11 DEF vars, TypeOK, ReaderHolds, ListerHolds, WriterPlaces, Exclusion
  <2> QED
    BY <2>1, <2>2, <2>3, <2>4, <2>5, <2>6, <2>7, <2>8, <2>9, <2>10, <2>11 DEF Next, Step
<1> QED BY <1>1, <1>2, PTL

\* The router hangs in one way only, however many goroutines call it: a
\* lister that holds the read lock waits for it behind a writer
\* (AvailableProviders, isProviderHealthy).
THEOREM HangsByNesting == Init /\ [][Next]_vars => []HangsByNestingOnly
<1>1. LocksInv => HangsByNestingOnly
  <2> SUFFICES ASSUME LocksInv, Stuck
               PROVE  \E g \in Listers : pc[g] = "asking" /\ holds[g] = 1 /\ g \in queue
    BY DEF HangsByNestingOnly
  <2> USE LockAssumption DEF LocksInv, TypeOK, Stuck, Shared, Goroutines
  <2>1. writer # NoWriter
    BY DEF WriterPlaces
  <2>2. ~inside
    BY <2>1 DEF WriterPlaces
  <2>3. PICK r \in Shared : holds[r] > 0
    BY <2>1, <2>2
  <2>4. pc[r] # "idle" /\ r \in queue
    BY <2>3 DEF ReaderHolds, ListerHolds
  <2>5. r \in Listers /\ pc[r] = "asking" /\ holds[r] = 1
    BY <2>3, <2>4 DEF ReaderHolds, ListerHolds
  <2> QED BY <2>4, <2>5
<1> QED BY <1>1, LocksInvariant, PTL

\* Every variable keeps its type.
THEOREM LocksTypeCorrect == Spec => []TypeOK
<1>1. LocksInv => TypeOK
  BY DEF LocksInv
<1> QED BY <1>1, LocksInvariant, PTL DEF Spec

\* A writer works on the circuits while nobody reads them.
THEOREM WritersExclude == Spec => []Exclusion
<1>1. LocksInv => Exclusion
  BY DEF LocksInv
<1> QED BY <1>1, LocksInvariant, PTL DEF Spec
-----------------------------------------------------------------------------
(***************************************************************************)
(* The circuit breaker.                                                    *)
(***************************************************************************)

Tracks(o, f, last) ==
  /\ f <= Len(o)
  /\ \A k \in 1 .. Len(o) : k > Len(o) - f => ~o[k].ok
  /\ f < Threshold /\ f < Len(o) => o[Len(o) - f].ok
  /\ f > 0 => last = o[Len(o)].age

CountsTheEnd == \A p \in Provider : Tracks(outcomes[p], failures[p], lastFail[p])

BreakerInv == BreakerTypeOK /\ CountsTheEnd
-----------------------------------------------------------------------------
\* The reports new are o and then r: one more, or all but the oldest.
Follows(new, o, r) ==
  /\ new \in Seq(Report) /\ Len(new) \in 1 .. Threshold
  /\ Len(o) \in Nat
  /\ Len(new) = Len(o) + 1 \/ (Len(new) = Len(o) /\ Len(o) = Threshold)
  /\ new[Len(new)] = r
  /\ \A k \in 1 .. Len(new) - 1 : new[k] = o[k + (Len(o) + 1 - Len(new))]

\* What Log keeps of the reports and another.
LEMMA LatestReports ==
  ASSUME RouterAssumption, NEW o \in Seq(Report), Len(o) <= Threshold, NEW r \in Report
  PROVE  Follows(Latest(Append(o, r)), o, r)
<1> DEFINE new == Latest(Append(o, r))
           all == Append(o, r)
           n == Len(o) + 1
           m == n - Least(n, Threshold) + 1
<1>1. /\ Len(o) \in Nat /\ all \in Seq(Report) /\ Len(all) = n
      /\ \A k \in 1 .. Len(o) : all[k] = o[k]
      /\ all[n] = r
  BY LenProperties, AppendProperties
<1>2. Threshold \in Nat /\ Threshold >= 1
  BY DEF RouterAssumption
<1>3. new = SubSeq(all, m, n)
  BY <1>1 DEF Latest
<1> HIDE DEF all, new
<1>4. /\ n \in Nat /\ m \in Int
      /\ (m = 1 /\ n <= Threshold) \/ (m = 2 /\ Len(o) = Threshold)
      /\ m <= n
  <2>1. CASE n <= Threshold
    <3>1. Least(n, Threshold) = n
      BY <2>1 DEF Least
    <3> QED BY <3>1, <2>1, <1>1, <1>2
  <2>2. CASE ~(n <= Threshold)
    <3>1. Least(n, Threshold) = Threshold
      BY <2>2 DEF Least
    <3>2. Len(o) = Threshold
      BY <2>2, <1>1, <1>2
    <3> QED BY <3>1, <3>2, <2>2, <1>1, <1>2
  <2> QED BY <2>1, <2>2
<1> HIDE DEF m
<1>6. \A k \in m .. n : all[k] \in Report
  <2> SUFFICES ASSUME NEW k \in m .. n PROVE all[k] \in Report
    OBVIOUS
  <2>1. k \in 1 .. Len(all)
    BY <1>1, <1>4
  <2> QED BY <1>1, <2>1, ElementOfSeq
<1>7. /\ new \in Seq(Report) /\ Len(new) = n - m + 1
      /\ \A k \in 1 .. n - m + 1 : new[k] = all[m + k - 1]
  BY <1>1, <1>3, <1>4, <1>6, SubSeqProperties
<1>8. new[Len(new)] = r
  BY <1>1, <1>4, <1>7
<1>9. \A k \in 1 .. Len(new) - 1 : new[k] = o[k + (Len(o) + 1 - Len(new))]
  <2> SUFFICES ASSUME NEW k \in 1 .. Len(new) - 1
               PROVE  new[k] = o[k + (Len(o) + 1 - Len(new))]
    OBVIOUS
  <2>1. k \in 1 .. n - m + 1 /\ m + k - 1 \in 1 .. Len(o)
    BY <1>1, <1>4, <1>7
  <2>2. k + (Len(o) + 1 - Len(new)) = m + k - 1
    BY <1>1, <1>4, <1>7
  <2> QED BY <1>1, <1>7, <2>1, <2>2
<1>10. /\ Len(new) \in 1 .. Threshold
       /\ Len(new) = Len(o) + 1 \/ (Len(new) = Len(o) /\ Len(o) = Threshold)
  BY <1>1, <1>2, <1>4, <1>7
<1>11. Follows(new, o, r)
  BY <1>1, <1>7, <1>8, <1>9, <1>10 DEF Follows
<1> QED BY <1>11 DEF new

\* Every question and answer names a provider.
LEMMA Chains ==
  ASSUME RouterAssumption, NEW r \in Requests
  PROVE  Chain(r[1], r[2]) \in Seq(Provider)
<1>1. r[1] \in Severity
  BY DEF RouterAssumption
<1>2. /\ {"claude", "gemini", "openai", "ollama"} = Provider
      /\ <<>> \in Seq(Provider)
  BY EmptySeq DEF Provider, Cloud
<1>3. /\ <<"claude", "openai">> \in Seq(Provider) /\ <<"claude", "gemini">> \in Seq(Provider)
      /\ <<"gemini", "claude">> \in Seq(Provider) /\ <<"gemini">> \in Seq(Provider)
      /\ <<"openai">> \in Seq(Provider) /\ <<"ollama">> \in Seq(Provider)
  BY <1>2
<1>4. BySeverity(r[1]) \in Seq(Provider)
  BY <1>1, <1>3 DEF BySeverity, Severity
<1>5. ForCrash(r[2]) \in Seq(Provider)
  BY <1>2, <1>3 DEF ForCrash
<1>6. ForCrash(r[2]) \o BySeverity(r[1]) \in Seq(Provider)
  BY <1>4, <1>5, ConcatProperties
<1> QED BY <1>3, <1>6, ConcatProperties DEF Chain

\* What a report makes of the logs.
LEMMA Logged ==
  ASSUME RouterAssumption, BreakerTypeOK, NEW p \in Provider, NEW ok \in BOOLEAN, Log(p, ok)
  PROVE  /\ NewReport(ok) \in Report
         /\ NewReport(ok).ok = ok /\ (~ok => NewReport(ok).age = 0)
         /\ outcomes[p] \in Seq(Report) /\ Len(outcomes[p]) <= Threshold
         /\ outcomes' \in [Provider -> Seq(Report)]
         /\ outcomes'[p] = Latest(Append(outcomes[p], NewReport(ok)))
         /\ \A q \in Provider \ {p} : outcomes'[q] = outcomes[q]
         /\ \A q \in Provider : Len(outcomes'[q]) <= Threshold
<1>1. /\ NewReport(ok) \in Report /\ NewReport(ok).ok = ok
      /\ ~ok => NewReport(ok).age = 0
  BY DEF RouterAssumption, NewReport, Report, Age
<1>2. /\ outcomes \in [Provider -> Seq(Report)]
      /\ \A q \in Provider : Len(outcomes[q]) <= Threshold
  BY DEF BreakerTypeOK
<1>3. outcomes' = [outcomes EXCEPT ![p] = Latest(Append(outcomes[p], NewReport(ok)))]
  BY DEF Log
<1>4. outcomes'[p] = Latest(Append(outcomes[p], NewReport(ok)))
  BY <1>2, <1>3
<1>5. outcomes'[p] \in Seq(Report) /\ Len(outcomes'[p]) \in 1 .. Threshold
  <2>1. Follows(outcomes'[p], outcomes[p], NewReport(ok))
    BY <1>1, <1>2, <1>4, LatestReports
  <2> QED BY <2>1 DEF Follows
<1>6. \A q \in Provider \ {p} : outcomes'[q] = outcomes[q]
  BY <1>2, <1>3
<1>7. outcomes' \in [Provider -> Seq(Report)]
  BY <1>2, <1>3, <1>4, <1>5
<1>8. \A q \in Provider : Len(outcomes'[q]) <= Threshold
  BY <1>2, <1>5, <1>6 DEF RouterAssumption
<1> QED BY <1>1, <1>2, <1>4, <1>6, <1>7, <1>8

\* The logs after a tick: the same reports, older.
LEMMA LogAges ==
  ASSUME RouterAssumption, BreakerTypeOK, Tick
  PROVE  /\ outcomes' \in [Provider -> Seq(Report)]
         /\ \A p \in Provider :
              /\ Len(outcomes'[p]) = Len(outcomes[p])
              /\ \A k \in 1 .. Len(outcomes[p]) :
                   /\ outcomes'[p][k].ok = outcomes[p][k].ok
                   /\ outcomes'[p][k].age = Older(outcomes[p][k].age)
<1> SUFFICES ASSUME NEW p \in Provider
             PROVE  /\ outcomes'[p] \in Seq(Report)
                    /\ Len(outcomes'[p]) = Len(outcomes[p])
                    /\ \A k \in 1 .. Len(outcomes[p]) :
                         /\ outcomes'[p][k].ok = outcomes[p][k].ok
                         /\ outcomes'[p][k].age = Older(outcomes[p][k].age)
  BY DEF Tick
<1> DEFINE o == outcomes[p]
<1>1. o \in Seq(Report) /\ Len(o) \in Nat /\ DOMAIN o = 1 .. Len(o)
  BY LenProperties DEF BreakerTypeOK
<1>2. \A k \in 1 .. Len(o) : o[k] \in Report
  BY <1>1, ElementOfSeq
<1>3. outcomes'[p] = [k \in 1 .. Len(o) |-> [o[k] EXCEPT !.age = Older(@)]]
  BY <1>1 DEF Tick
<1> HIDE DEF o
<1>4. \A k \in 1 .. Len(o) : /\ [o[k] EXCEPT !.age = Older(@)] \in Report
                             /\ [o[k] EXCEPT !.age = Older(@)].ok = o[k].ok
                             /\ [o[k] EXCEPT !.age = Older(@)].age = Older(o[k].age)
  BY <1>2 DEF Report, Age, Older, Least, RouterAssumption
<1>5. outcomes'[p] \in [1 .. Len(o) -> Report]
  BY <1>3, <1>4
<1>6. outcomes'[p] \in Seq(Report)
  BY <1>1, <1>5, SeqDef
<1>7. Len(outcomes'[p]) = Len(o)
  BY <1>1, <1>5, <1>6, LenProperties
<1> QED BY <1>3, <1>4, <1>6, <1>7 DEF o

\* Every variable keeps its type.
THEOREM BreakerTypeCorrect == ASSUME RouterAssumption PROVE BreakerSpec => []BreakerTypeOK
<1>1. BreakerInit => BreakerTypeOK
  BY EmptySeq DEF BreakerInit, BreakerTypeOK, Age, RouterAssumption
<1>2. BreakerTypeOK /\ [BreakerNext]_breakerVars => BreakerTypeOK'
  <2> SUFFICES ASSUME BreakerTypeOK, [BreakerNext]_breakerVars PROVE BreakerTypeOK'
    OBVIOUS
  <2>1. ASSUME NEW p \in Provider, RegisterClient(p) PROVE BreakerTypeOK'
    BY <2>1 DEF RegisterClient, BreakerTypeOK
  <2>2. ASSUME NEW w \in Workers, NEW r \in Requests, SelectProvider(w, r[1], r[2])
        PROVE  BreakerTypeOK'
    <3>1. todo' \in [Workers -> Seq(Provider)]
      BY <2>2, Chains DEF SelectProvider, BreakerTypeOK
    <3>2. chosen' \in [Workers -> Provider \cup {None}]
      BY <2>2 DEF SelectProvider, Give, BreakerTypeOK, Provider
    <3> QED BY <2>2, <3>1, <3>2 DEF SelectProvider, BreakerUnchanged, BreakerTypeOK
  <2>3. ASSUME NEW w \in Workers, AskHealthy(w) PROVE BreakerTypeOK'
    <3>1. /\ todo[w] \in Seq(Provider) /\ todo[w] # <<>>
          /\ Head(todo[w]) \in Provider /\ Tail(todo[w]) \in Seq(Provider)
      BY <2>3, HeadTailProperties DEF AskHealthy, BreakerTypeOK
    <3>2. <<>> \in Seq(Provider)
      BY EmptySeq
    <3>3. todo' \in [Workers -> Seq(Provider)]
      BY <2>3, <3>1, <3>2 DEF AskHealthy, BreakerTypeOK
    <3>4. chosen' \in [Workers -> Provider \cup {None}]
      BY <2>3, <3>1 DEF AskHealthy, Give, BreakerTypeOK, RouterAssumption
    <3> QED BY <2>3, <3>3, <3>4 DEF AskHealthy, BreakerUnchanged, BreakerTypeOK
  <2>4. ASSUME NEW w \in Workers, GetClientFails(w) PROVE BreakerTypeOK'
    BY <2>4 DEF GetClientFails, Give, BreakerUnchanged, BreakerTypeOK
  <2>5. ASSUME NEW w \in Workers, RecordFailure(w) PROVE BreakerTypeOK'
    <3>1. chosen[w] \in Provider
      BY <2>5 DEF RecordFailure, BreakerTypeOK, RouterAssumption
    <3>2. Log(chosen[w], FALSE)
      BY <2>5 DEF RecordFailure
    <3>3. /\ outcomes' \in [Provider -> Seq(Report)]
          /\ \A q \in Provider : Len(outcomes'[q]) <= Threshold
      BY <3>1, <3>2, Logged
    <3>4. failures' \in [Provider -> 0 .. Threshold] /\ lastFail' \in [Provider -> Age]
      BY <2>5, <3>1 DEF RecordFailure, BreakerTypeOK, Least, FailedAt, Age, RouterAssumption
    <3>5. chosen' \in [Workers -> Provider \cup {None}]
      BY <2>5 DEF RecordFailure, Give, BreakerTypeOK
    <3> QED BY <2>5, <3>3, <3>4, <3>5 DEF RecordFailure, BreakerTypeOK
  <2>6. ASSUME NEW w \in Workers, RecordSuccess(w) PROVE BreakerTypeOK'
    <3>1. chosen[w] \in Provider
      BY <2>6 DEF RecordSuccess, BreakerTypeOK, RouterAssumption
    <3>2. Log(chosen[w], TRUE)
      BY <2>6 DEF RecordSuccess
    <3>3. /\ outcomes' \in [Provider -> Seq(Report)]
          /\ \A q \in Provider : Len(outcomes'[q]) <= Threshold
      BY <3>1, <3>2, Logged
    <3>4. failures' \in [Provider -> 0 .. Threshold]
      BY <2>6, <3>1 DEF RecordSuccess, BreakerTypeOK, AfterSuccess, RouterAssumption
    <3>5. chosen' \in [Workers -> Provider \cup {None}]
      BY <2>6 DEF RecordSuccess, Give, BreakerTypeOK
    <3> QED BY <2>6, <3>3, <3>4, <3>5 DEF RecordSuccess, BreakerTypeOK
  <2>7. CASE Tick
    <3>1. outcomes' \in [Provider -> Seq(Report)]
      BY <2>7, LogAges
    <3>2. \A p \in Provider : Len(outcomes'[p]) <= Threshold
      BY <2>7, LogAges DEF BreakerTypeOK
    <3>3. lastFail' \in [Provider -> Age]
      BY <2>7 DEF Tick, BreakerTypeOK, Older, Least, Age, RouterAssumption
    <3> QED BY <2>7, <3>1, <3>2, <3>3 DEF Tick, BreakerTypeOK
  <2>8. CASE UNCHANGED breakerVars
    BY <2>8 DEF breakerVars, BreakerTypeOK
  <2> QED BY <2>1, <2>2, <2>3, <2>4, <2>5, <2>6, <2>7, <2>8 DEF BreakerNext
<1> QED BY <1>1, <1>2, PTL DEF BreakerSpec
-----------------------------------------------------------------------------
\* A failure keeps the count that of the failures at the end ...
LEMMA FailureTracked ==
  ASSUME RouterAssumption, NEW o \in Seq(Report), Len(o) <= Threshold,
         NEW f \in 0 .. Threshold, NEW last \in Age, Tracks(o, f, last),
         NEW r \in Report, r.ok = FALSE, r.age = 0
  PROVE  Tracks(Latest(Append(o, r)), Least(f + 1, Threshold), 0)
<1> DEFINE new == Latest(Append(o, r))
           g == Least(f + 1, Threshold)
           l == Len(new)
           dropped == Len(o) + 1 - l
<1>0. Follows(new, o, r)
  BY LatestReports
<1> HIDE DEF new
<1>1. /\ new \in Seq(Report) /\ l \in 1 .. Threshold /\ Len(o) \in Nat
      /\ l = Len(o) + 1 \/ (l = Len(o) /\ Len(o) = Threshold)
      /\ new[l] = r
      /\ \A k \in 1 .. l - 1 : new[k] = o[k + dropped]
  BY <1>0 DEF Follows
<1>2. Threshold \in Nat \ {0} /\ f \in Nat /\ f <= Len(o)
  BY DEF RouterAssumption, Tracks
<1> HIDE DEF l
<1>3. /\ l \in Nat /\ l >= 1 /\ dropped \in {0, 1} /\ l + dropped = Len(o) + 1
  BY <1>1
<1>4. g \in Nat /\ g <= f + 1 /\ g > 0 /\ (g < Threshold => g = f + 1)
  BY <1>2 DEF Least
<1>5. g <= l
  BY <1>1, <1>2 DEF Least
<1> HIDE DEF g, dropped
<1>6. ASSUME NEW k \in 1 .. l, k > l - g PROVE ~new[k].ok
  <2>1. CASE k = l
    BY <1>1, <2>1
  <2>2. CASE k # l
    <3>1. k \in 1 .. l - 1 /\ new[k] = o[k + dropped]
      BY <1>1, <1>3, <2>2
    <3>2. k + dropped \in 1 .. Len(o) /\ k + dropped > Len(o) - f
      BY <1>1, <1>2, <1>3, <1>4, <1>6, <3>1
    <3> QED BY <3>1, <3>2 DEF Tracks
  <2> QED BY <2>1, <2>2
<1>7. ASSUME g < Threshold, g < l PROVE new[l - g].ok
  <2>1. g = f + 1 /\ f < Threshold
    BY <1>2, <1>4, <1>7
  <2>2. l - g \in 1 .. l - 1
    BY <1>3, <1>4, <1>7
  <2>3. new[l - g] = o[(l - g) + dropped]
    BY <1>1, <2>2
  <2>4. (l - g) + dropped = Len(o) - f /\ f < Len(o)
    BY <1>1, <1>2, <1>3, <1>7, <2>1
  <2> QED BY <2>1, <2>3, <2>4 DEF Tracks
<1>8. 0 = new[l].age
  BY <1>1
<1> QED BY <1>3, <1>4, <1>5, <1>6, <1>7, <1>8 DEF Tracks, new, l, g

\* ... and so does a success.
LEMMA SuccessTracked ==
  ASSUME RouterAssumption, NEW o \in Seq(Report), Len(o) <= Threshold,
         NEW last, NEW r \in Report, r.ok = TRUE
  PROVE  Tracks(Latest(Append(o, r)), 0, last)
<1> DEFINE new == Latest(Append(o, r))
<1>1. Len(new) \in 1 .. Threshold /\ new[Len(new)] = r
  BY LatestReports DEF Follows
<1>2. Threshold \in Nat
  BY DEF RouterAssumption
<1> HIDE DEF new
<1>3. Tracks(new, 0, last)
  BY <1>1, <1>2 DEF Tracks
<1> QED BY <1>3 DEF new

\* The invariant of the breaker.
THEOREM BreakerInvariant == ASSUME RouterAssumption PROVE BreakerSpec => []BreakerInv
<1>1. BreakerInit => CountsTheEnd
  BY EmptySeq DEF BreakerInit, CountsTheEnd, Tracks
<1>2. BreakerTypeOK /\ CountsTheEnd /\ [BreakerNext]_breakerVars => CountsTheEnd'
  <2> SUFFICES ASSUME BreakerTypeOK, CountsTheEnd, [BreakerNext]_breakerVars
               PROVE  CountsTheEnd'
    OBVIOUS
  <2>1. ASSUME UNCHANGED <<failures, lastFail, outcomes>> PROVE CountsTheEnd'
    BY <2>1 DEF CountsTheEnd
  <2>2. ASSUME NEW p \in Provider, RegisterClient(p) PROVE CountsTheEnd'
    BY <2>1, <2>2 DEF RegisterClient
  <2>3. ASSUME NEW w \in Workers, NEW r \in Requests, SelectProvider(w, r[1], r[2])
        PROVE  CountsTheEnd'
    BY <2>1, <2>3 DEF SelectProvider, BreakerUnchanged
  <2>4. ASSUME NEW w \in Workers, AskHealthy(w) \/ GetClientFails(w) PROVE CountsTheEnd'
    BY <2>1, <2>4 DEF AskHealthy, GetClientFails, BreakerUnchanged
  <2>5. ASSUME NEW w \in Workers, RecordFailure(w) PROVE CountsTheEnd'
    <3> DEFINE p == chosen[w]
    <3>1. p \in Provider /\ Log(p, FALSE)
      BY <2>5 DEF RecordFailure, BreakerTypeOK, RouterAssumption
    <3>2. /\ failures' = [failures EXCEPT ![p] = Least(@ + 1, Threshold)]
          /\ lastFail' = [lastFail EXCEPT ![p] = 0]
      BY <2>5 DEF RecordFailure, FailedAt
    <3> HIDE DEF p
    <3>3. /\ failures[p] \in 0 .. Threshold /\ lastFail[p] \in Age
          /\ Tracks(outcomes[p], failures[p], lastFail[p])
      BY <3>1 DEF BreakerTypeOK, CountsTheEnd
    <3>4. failures'[p] = Least(failures[p] + 1, Threshold) /\ lastFail'[p] = 0
      BY <3>1, <3>2 DEF BreakerTypeOK
    <3>5. Tracks(outcomes'[p], failures'[p], lastFail'[p])
      BY <3>1, <3>3, <3>4, Logged, FailureTracked
    <3>6. \A q \in Provider \ {p} :
            outcomes'[q] = outcomes[q] /\ failures'[q] = failures[q] /\ lastFail'[q] = lastFail[q]
      BY <3>1, <3>2, Logged DEF BreakerTypeOK
    <3> QED BY <3>5, <3>6 DEF CountsTheEnd
  <2>6. ASSUME NEW w \in Workers, RecordSuccess(w) PROVE CountsTheEnd'
    <3> DEFINE p == chosen[w]
    <3>1. p \in Provider /\ Log(p, TRUE)
      BY <2>6 DEF RecordSuccess, BreakerTypeOK, RouterAssumption
    <3>2. /\ failures' = [failures EXCEPT ![p] = 0]
          /\ lastFail' = lastFail
      BY <2>6 DEF RecordSuccess, AfterSuccess
    <3> HIDE DEF p
    <3>3. /\ failures[p] \in 0 .. Threshold /\ lastFail[p] \in Age
          /\ Tracks(outcomes[p], failures[p], lastFail[p])
      BY <3>1 DEF BreakerTypeOK, CountsTheEnd
    <3>4. failures'[p] = 0 /\ lastFail'[p] = lastFail[p]
      BY <3>1, <3>2 DEF BreakerTypeOK
    <3>5. Tracks(outcomes'[p], failures'[p], lastFail'[p])
      BY <3>1, <3>3, <3>4, Logged, SuccessTracked
    <3>6. \A q \in Provider \ {p} :
            outcomes'[q] = outcomes[q] /\ failures'[q] = failures[q] /\ lastFail'[q] = lastFail[q]
      BY <3>1, <3>2, Logged DEF BreakerTypeOK
    <3> QED BY <3>5, <3>6 DEF CountsTheEnd
  <2>7. CASE Tick
    <3> SUFFICES ASSUME NEW p \in Provider
                 PROVE  Tracks(outcomes'[p], failures'[p], lastFail'[p])
      BY DEF CountsTheEnd
    <3>1. Tracks(outcomes[p], failures[p], lastFail[p]) /\ failures[p] \in Nat
      BY DEF CountsTheEnd, BreakerTypeOK
    <3>2. Len(outcomes[p]) \in Nat
      BY LenProperties DEF BreakerTypeOK
    <3>3. failures'[p] = failures[p] /\ lastFail'[p] = Older(lastFail[p])
      BY <2>7 DEF Tick
    <3>4. /\ Len(outcomes'[p]) = Len(outcomes[p])
          /\ \A k \in 1 .. Len(outcomes[p]) :
               /\ outcomes'[p][k].ok = outcomes[p][k].ok
               /\ outcomes'[p][k].age = Older(outcomes[p][k].age)
      BY <2>7, LogAges
    <3>5. /\ failures'[p] <= Len(outcomes'[p])
          /\ \A k \in 1 .. Len(outcomes'[p]) :
               k > Len(outcomes'[p]) - failures'[p] => ~outcomes'[p][k].ok
      BY <3>1, <3>2, <3>3, <3>4 DEF Tracks
    <3>6. ASSUME failures'[p] < Threshold, failures'[p] < Len(outcomes'[p])
          PROVE  outcomes'[p][Len(outcomes'[p]) - failures'[p]].ok
      <4>1. outcomes[p][Len(outcomes[p]) - failures[p]].ok
        BY <3>1, <3>3, <3>4, <3>6 DEF Tracks
      <4>2. Len(outcomes[p]) - failures[p] \in 1 .. Len(outcomes[p])
        BY <3>1, <3>2, <3>3, <3>4, <3>6
      <4> QED BY <4>1, <4>2, <3>3, <3>4
    <3>7. ASSUME failures'[p] > 0
          PROVE  lastFail'[p] = outcomes'[p][Len(outcomes'[p])].age
      <4>1. Len(outcomes[p]) \in 1 .. Len(outcomes[p])
        BY <3>1, <3>2, <3>3, <3>7 DEF Tracks
      <4>2. lastFail[p] = outcomes[p][Len(outcomes[p])].age
        BY <3>1, <3>3, <3>7 DEF Tracks
      <4> QED BY <4>1, <4>2, <3>3, <3>4
    <3> QED BY <3>5, <3>6, <3>7 DEF Tracks
  <2>8. CASE UNCHANGED breakerVars
    BY <2>1, <2>8 DEF breakerVars
  <2> QED BY <2>2, <2>3, <2>4, <2>5, <2>6, <2>7, <2>8 DEF BreakerNext
<1> QED BY <1>1, <1>2, BreakerTypeCorrect, PTL DEF BreakerSpec, BreakerInv

\* The circuit of a provider is open only when its latest Threshold reports are
\* failures and the last is younger than the window, and always when all of
\* them are, in whatever order workers call RecordFailure and RecordSuccess.
THEOREM BreakerAlwaysTracks ==
  ASSUME RouterAssumption
  PROVE  BreakerSpec => []BreakerTracksReports
<1>1. BreakerInv => BreakerTracksReports
  <2> SUFFICES ASSUME BreakerInv, NEW p \in Provider
               PROVE  LET o == outcomes[p]
                          allFailed == /\ Len(o) = Threshold
                                       /\ \A k \in 1 .. Threshold : ~o[k].ok
                      IN  /\ Open(p) => allFailed /\ o[Threshold].age < Window
                          /\ allFailed /\ (\A k \in 1 .. Threshold : o[k].age < Window)
                               => Open(p)
    BY DEF BreakerTracksReports
  <2>1. /\ Tracks(outcomes[p], failures[p], lastFail[p])
        /\ failures[p] \in 0 .. Threshold /\ Len(outcomes[p]) <= Threshold
    BY DEF BreakerInv, CountsTheEnd, BreakerTypeOK
  <2>2. Len(outcomes[p]) \in Nat /\ Threshold \in Nat \ {0}
    BY LenProperties DEF BreakerInv, BreakerTypeOK, RouterAssumption
  <2>3. CASE failures[p] = Threshold
    BY <2>1, <2>2, <2>3 DEF Tracks, Open
  <2>4. CASE failures[p] # Threshold
    BY <2>1, <2>2, <2>4 DEF Tracks, Open
  <2> QED BY <2>3, <2>4
<1> QED BY <1>1, BreakerInvariant, PTL

\* While a circuit is open, nobody joins the callers of its provider: every
\* way through SelectProvider but the unasked ones passes isProviderHealthy.
THEOREM OpenAlwaysSheds ==
  ASSUME RouterAssumption
  PROVE  BreakerSpec => OpenCircuitShedsLoad
<1> DEFINE Shed == \A p \in Provider \ Unasked : Open(p) => Callers(p)' \subseteq Callers(p)
<1>1. BreakerTypeOK /\ [BreakerNext]_breakerVars => [Shed]_breakerVars
  <2> SUFFICES ASSUME BreakerTypeOK, [BreakerNext]_breakerVars, NEW p \in Provider \ Unasked,
                      Open(p), NEW v \in Workers, chosen'[v] = p
               PROVE  chosen[v] = p
    BY DEF Callers
  <2>1. ASSUME NEW q \in Provider, RegisterClient(q) PROVE chosen[v] = p
    BY <2>1 DEF RegisterClient
  <2>2. ASSUME NEW w \in Workers, NEW r \in Requests, SelectProvider(w, r[1], r[2])
        PROVE  chosen[v] = p
    BY <2>2 DEF SelectProvider, Give, Unasked, BreakerTypeOK
  <2>3. ASSUME NEW w \in Workers, AskHealthy(w) PROVE chosen[v] = p
    BY <2>3 DEF AskHealthy, Give, Unasked, BreakerTypeOK, isProviderHealthy
  <2>4. ASSUME NEW w \in Workers, GetClientFails(w) \/ RecordFailure(w) \/ RecordSuccess(w)
        PROVE  chosen[v] = p
    BY <2>4 DEF GetClientFails, RecordFailure, RecordSuccess, Give, BreakerTypeOK, None,
                Provider, Cloud
  <2>5. CASE Tick
    BY <2>5 DEF Tick
  <2>6. CASE UNCHANGED breakerVars
    BY <2>6 DEF breakerVars
  <2> QED BY <2>1, <2>2, <2>3, <2>4, <2>5, <2>6 DEF BreakerNext
<1> QED BY <1>1, BreakerTypeCorrect, PTL DEF BreakerSpec, OpenCircuitShedsLoad
-----------------------------------------------------------------------------
(***************************************************************************)
(* The answers in JSON.                                                    *)
(***************************************************************************)

\* What a provider may send when less is allowed, it may always send.
LEMMA MoreReplies ==
  ASSUME NEW shapes, shapes \subseteq Shape, NEW r \in Replies(shapes)
  PROVE  r \in Replies(Shape)
<1>1. CASE r \in [status : {"lost", "refused", "garbled"}]
  BY <1>1 DEF Replies
<1>2. CASE r \in [status : {"ok"}, texts : {<<>>, <<Silence>>} \cup
                                   {<<t>> : t \in {u \in Text : u.shape \in shapes}}]
  <2>1. {<<t>> : t \in {u \in Text : u.shape \in shapes}}
          \subseteq {<<t>> : t \in {u \in Text : u.shape \in Shape}}
    OBVIOUS
  <2>2. r \in [status : {"ok"},
               texts : {<<>>, <<Silence>>} \cup {<<t>> : t \in {u \in Text : u.shape \in Shape}}]
    BY <1>2, <2>1
  <2> QED BY <2>2 DEF Replies
<1> QED BY <1>1, <1>2 DEF Replies

\* The candidates of a reply: none, or one text.
LEMMA TextOfReply ==
  ASSUME NEW r \in Replies(Shape), r.status = "ok"
  PROVE  \/ r.texts = <<>>
         \/ \E t \in Text \cup {Silence} : r.texts = <<t>>
<1>1. r \in [status : {"ok"},
             texts : {<<>>, <<Silence>>} \cup {<<t>> : t \in {u \in Text : u.shape \in Shape}}]
  <2>1. CASE r \in [status : {"lost", "refused", "garbled"}]
    BY <2>1
  <2> QED BY <2>1 DEF Replies
<1>2. r.texts \in {<<>>, <<Silence>>} \cup {<<t>> : t \in {u \in Text : u.shape \in Shape}}
  BY <1>1
<1>3. CASE r.texts \in {<<>>, <<Silence>>}
  BY <1>3, Zenon
<1>4. CASE r.texts \in {<<t>> : t \in {u \in Text : u.shape \in Shape}}
  <2>1. PICK t \in {u \in Text : u.shape \in Shape} : r.texts = <<t>>
    BY <1>4, Zenon
  <2> QED BY <2>1, Zenon
<1> QED BY <1>2, <1>3, <1>4

\* The fields of a text.
LEMMA TextFields ==
  ASSUME NEW t \in Text \cup {Silence}
  PROVE  /\ t.shape \in Shape /\ t.confidence \in Level \cup {"other"}
         /\ t.words \subseteq Level /\ t.auto \in BOOLEAN
         /\ t.confidence \in t.words \cup {"other"}
<1>1. CASE t \in Text
  BY <1>1 DEF Text
<1>2. CASE t = Silence
  BY <1>2 DEF Silence, Shape
<1> QED BY <1>1, <1>2

\* A result of the right type that claims nothing which the text does not
\* say.
Says(t, p) ==
  /\ p.ok = TRUE /\ p.auto \in BOOLEAN /\ p.parseError \in BOOLEAN
  /\ p.confidence \in Level \cup {"UNKNOWN"}
  /\ p.auto => t.auto /\ t.shape \notin {"broken", "wrapped"}
  /\ p.confidence # "UNKNOWN" =>
       p.confidence = t.confidence \/ (p.parseError /\ p.confidence \in t.words)
  /\ t.confidence # "other" => p.confidence # "UNKNOWN"

\* What parseCorrelationJSON makes of a text is such a result.
LEMMA Parsed ==
  ASSUME NEW t \in Text \cup {Silence}
  PROVE  Says(t, parseCorrelationJSON(t))
<1> DEFINE said == normalizeConfidence(IF Decodes(t) THEN t.confidence
                                       ELSE extractConfidence(t.words))
           p == parseCorrelationJSON(t)
<1>1. p.ok = TRUE /\ p.auto = SaysSafe(t) /\ p.parseError = ~Decodes(t) /\ p.confidence = said
  BY DEF parseCorrelationJSON
<1>2. /\ SaysSafe(t) \in BOOLEAN
      /\ SaysSafe(t) => t.auto /\ t.shape \notin {"broken", "wrapped"}
  BY DEF SaysSafe, Decodes
<1>3. Decodes(t) \in BOOLEAN
  BY DEF Decodes
<1>4. /\ said \in Level \cup {"UNKNOWN"}
      /\ said # "UNKNOWN" =>
           said = t.confidence \/ (~Decodes(t) /\ said \in t.words)
      /\ t.confidence # "other" => said # "UNKNOWN"
  BY TextFields DEF Level, extractConfidence, normalizeConfidence
<1> HIDE DEF p, said
<1> QED BY <1>1, <1>2, <1>3, <1>4 DEF Says, p

\* The inductive invariant: the result is that of the latest reply.
AnswerInv == reply \in Replies(Shape) /\ result = Interpreted(reply)

\* The invariant, for any replies the requests allow.
THEOREM AnswerInvariant == AnswerSpec => []AnswerInv
<1>1. AnswerInit => AnswerInv
  BY DEF AnswerInit, AnswerInv, Replies, Interpreted
<1>2. AnswerInv /\ [AnswerNext]_answerVars => AnswerInv'
  <2> SUFFICES ASSUME AnswerInv, [AnswerNext]_answerVars PROVE AnswerInv'
    OBVIOUS
  <2>1. ASSUME NEW shapes, shapes \subseteq Shape, Correlate(shapes) PROVE AnswerInv'
    BY <2>1, MoreReplies DEF Correlate, AnswerInv
  <2>2. CASE UNCHANGED answerVars
    BY <2>2 DEF answerVars, AnswerInv
  <2>3. CASE AnswerNext
    <3>1. {"object", "broken"} \subseteq Shape /\ {"object", "broken", "mistyped"} \subseteq Shape
      BY DEF Shape
    <3> QED
      BY <2>1, <2>3, <3>1 DEF AnswerNext, ClaudeCorrelate, OpenAICorrelate, GeminiCorrelate,
                              OllamaCorrelate
  <2> QED BY <2>2, <2>3
<1> QED BY <1>1, <1>2, PTL DEF AnswerSpec

\* So a result that is no failure is that of the first candidate, or of
\* silence where there is none.
LEMMA ResultIsFailureOrParsed ==
  ASSUME AnswerInv
  PROVE  \/ result = Failure
         \/ \E t \in Text \cup {Silence} :
              /\ t \in IF reply.texts = <<>> THEN {Silence} ELSE {reply.texts[1]}
              /\ result = parseCorrelationJSON(t)
<1>1. CASE reply.status # "ok"
  BY <1>1 DEF AnswerInv, Interpreted
<1>2. CASE reply.status = "ok" /\ reply.texts = <<>>
  BY <1>2 DEF AnswerInv, Interpreted
<1>3. ASSUME reply.status = "ok", NEW t \in Text \cup {Silence}, reply.texts = <<t>>
      PROVE  result = parseCorrelationJSON(t) /\ reply.texts # <<>> /\ reply.texts[1] = t
  BY <1>3 DEF AnswerInv, Interpreted
<1> QED BY <1>1, <1>2, <1>3, TextOfReply DEF AnswerInv

\* Correlate returns a failure or a result whose fields have their types,
\* whatever the provider sends.
THEOREM AnswerTypeCorrect == AnswerSpec => []AnswerTypeOK
<1>1. AnswerInv => AnswerTypeOK
  <2> SUFFICES ASSUME AnswerInv PROVE AnswerTypeOK
    OBVIOUS
  <2> DEFINE Result == [ok : {TRUE}, auto : BOOLEAN, parseError : BOOLEAN,
                        confidence : Level \cup {"UNKNOWN"}]
  <2>1. ASSUME NEW t \in Text \cup {Silence} PROVE parseCorrelationJSON(t) \in Result
    <3>1. Says(t, parseCorrelationJSON(t))
      BY Parsed
    <3> QED BY <3>1 DEF Says, parseCorrelationJSON
  <2> HIDE DEF Result
  <2>2. result \in {Failure} \cup Result
    BY <2>1, ResultIsFailureOrParsed
  <2> QED BY <2>2 DEF AnswerTypeOK, AnswerInv, Result
<1> QED BY <1>1, AnswerInvariant, PTL

\* No client makes of any reply a level of confidence, or a safe
\* remediation, that the text does not state.
THEOREM AnswersInventNothing == AnswerSpec => []NothingIsInvented
<1>1. AnswerInv => NothingIsInvented
  <2> SUFFICES ASSUME AnswerInv, result.ok PROVE NothingIsInvented
    BY DEF NothingIsInvented
  <2>1. result # Failure
    BY DEF Failure
  <2>2. PICK t \in Text \cup {Silence} :
          /\ t \in IF reply.texts = <<>> THEN {Silence} ELSE {reply.texts[1]}
          /\ result = parseCorrelationJSON(t)
    BY <2>1, ResultIsFailureOrParsed, Zenon
  <2>3. Says(t, result)
    BY <2>2, Parsed
  <2> QED BY <2>2, <2>3, Zenon DEF Says, NothingIsInvented
<1> QED BY <1>1, AnswerInvariant, PTL
-----------------------------------------------------------------------------
(***************************************************************************)
(* The answers in numbered lines.                                          *)
(***************************************************************************)

\* A set of numbers that is not empty has a least one.
LEMMA LeastNumber ==
  ASSUME NEW T, T \subseteq Nat, T # {}
  PROVE  \E t \in T : \A u \in T : t <= u
<1>1. IsWellFoundedOn(OpToRel(<, Nat), Nat)
  BY NatLessThanWellFounded
<1>2. PICK t \in T : \A u \in T : ~(<<u, t>> \in OpToRel(<, Nat))
  BY <1>1, WFMin
<1>3. \A u \in T : ~(u < t)
  BY <1>2 DEF OpToRel
<1> QED BY <1>3

\* The first of some words in a text is one of them, if there is one.
LEMMA FirstIsOneOfThem ==
  ASSUME NEW words, DOMAIN words \subseteq Nat, NEW text, NEW otherwise
  PROVE  FirstOf(words, text, otherwise) \in {words[i] : i \in DOMAIN words} \cup {otherwise}
<1> DEFINE hits == {i \in DOMAIN words : words[i] \in text}
           least == CHOOSE i \in hits : \A j \in hits : i <= j
<1>1. CASE hits = {}
  BY <1>1 DEF FirstOf
<1>2. CASE hits # {}
  <2>1. least \in hits
    <3>1. \E i \in hits : \A j \in hits : i <= j
      BY <1>2, LeastNumber
    <3> HIDE DEF hits
    <3> QED BY <3>1
  <2>2. FirstOf(words, text, otherwise) = words[least]
    BY <1>2 DEF FirstOf
  <2> HIDE DEF least
  <2> QED BY <2>1, <2>2
<1> QED BY <1>1, <1>2

\* No line about safety falls through the cases of Means.
LEMMA MeansOneOfThree ==
  ASSUME NEW words, words \subseteq {"YES", "SAFE", "HUMAN", "NO", "UNSAFE"},
         "UNSAFE" \in words => "SAFE" \in words, NEW otherwise
  PROVE  Means(words, otherwise) \in {"SAFE", "HUMAN_REQUIRED", "UNSAFE", otherwise}
<1>1. CASE words \cap {"YES", "SAFE"} # {}
  BY <1>1 DEF Means
<1>2. CASE words \cap {"YES", "SAFE"} = {} /\ "HUMAN" \in words
  <2>1. words \cap {"YES", "SAFE", "HUMAN"} = {"HUMAN"}
    BY <1>2
  <2> QED BY <1>2, <2>1 DEF Means
<1>3. CASE words \cap {"YES", "SAFE"} = {} /\ "HUMAN" \notin words
  <2>1. words = {"NO"} \/ words = {}
    BY <1>3
  <2>2. ~(words \cap {"YES", "SAFE", "HUMAN"} = {"HUMAN"})
    BY <1>3
  <2> QED BY <1>3, <2>1, <2>2 DEF Means
<1> QED BY <1>1, <1>2, <1>3

\* Whatever lines Parse reads, the fields of its ParsedResponse hold the
\* words it looks for, or nothing.
THEOREM LinesTypeCorrect == LinesSpec => []LinesTypeOK
<1> DEFINE Types == {""} \cup {Remediation[i] : i \in DOMAIN Remediation}
           Safe == {"", "SAFE", "HUMAN_REQUIRED", "UNSAFE"}
           Kept == [cause : BOOLEAN, confidence : Confidence \cup {"", "PARSE_ERROR"},
                    safe : Safe, type : Types]
<1>0. Nothing \in Kept
  <2>1. "" \in Types
    OBVIOUS
  <2> HIDE DEF Types
  <2> QED BY <2>1 DEF Nothing
<1>1. LinesInit => LinesTypeOK
  BY <1>0 DEF LinesInit, LinesTypeOK
<1>2. LinesTypeOK /\ [LinesNext]_lineVars => LinesTypeOK'
  <2> SUFFICES ASSUME LinesTypeOK, [LinesNext]_lineVars PROVE LinesTypeOK'
    OBVIOUS
  <2>0. parsed \in Kept
    BY DEF LinesTypeOK
  <2>1. ASSUME NEW l \in Line, ReadLine(l) PROVE LinesTypeOK'
    <3> DEFINE confidence == FirstOf(Levels, l.words, parsed.confidence)
               safe == Means(l.words, parsed.safe)
               type == FirstOf(Remediation, l.words, parsed.type)
               Line1 == [number : {1}, words : {{"cause"}, {}}]
               Line2 == [number : {2}, words : SUBSET Confidence]
               Line4 == {m \in [number : {4},
                                words : SUBSET {"YES", "SAFE", "HUMAN", "NO", "UNSAFE"}] :
                           "UNSAFE" \in m.words => "SAFE" \in m.words}
               Line5 == [number : {5}, words : {{}} \cup
                           {{Remediation[i], Remediation[j]} : i, j \in DOMAIN Remediation}]
    <3>1. l \in Line1 \/ l \in Line2 \/ l \in Line4 \/ l \in Line5
      <4>1. Line = Line1 \cup Line2 \cup Line4 \cup Line5
        BY DEF Line
      <4> HIDE DEF Line1, Line2, Line4, Line5
      <4> QED BY <4>1
    <3>2. l.number \in {1, 2, 4, 5} /\ (l.number = 4 =>
            /\ l.words \subseteq {"YES", "SAFE", "HUMAN", "NO", "UNSAFE"}
            /\ "UNSAFE" \in l.words => "SAFE" \in l.words)
      BY <3>1
    <3>3. confidence \in Confidence \cup {"", "PARSE_ERROR"}
      <4>1. DOMAIN Levels = 1 .. 3 /\ {Levels[i] : i \in 1 .. 3} \subseteq Confidence
        BY DEF Levels, Confidence
      <4>2. confidence \in {Levels[i] : i \in DOMAIN Levels} \cup {parsed.confidence}
        BY <4>1, FirstIsOneOfThem
      <4>3. parsed.confidence \in Confidence \cup {"", "PARSE_ERROR"}
        BY <2>0
      <4> HIDE DEF confidence
      <4> QED BY <4>1, <4>2, <4>3
    <3>4. l.number = 4 => safe \in Safe
      <4>1. parsed.safe \in Safe
        BY <2>0
      <4>2. l.number = 4 => safe \in {"SAFE", "HUMAN_REQUIRED", "UNSAFE", parsed.safe}
        BY <3>2, MeansOneOfThree
      <4> HIDE DEF safe
      <4> QED BY <4>1, <4>2
    <3>5. type \in {""} \cup {Remediation[i] : i \in DOMAIN Remediation}
      <4>1. DOMAIN Remediation = 1 .. 5
        BY DEF Remediation
      <4>2. type \in {Remediation[i] : i \in DOMAIN Remediation} \cup {parsed.type}
        BY <4>1, FirstIsOneOfThem
      <4>3. parsed.type \in {""} \cup {Remediation[i] : i \in DOMAIN Remediation}
        BY <2>0
      <4> HIDE DEF type
      <4> QED BY <4>2, <4>3
    <3>6. /\ l.number = 1 => parsed' = [parsed EXCEPT !.cause = l.words # {}]
          /\ l.number = 2 => parsed' = [parsed EXCEPT !.confidence = confidence]
          /\ l.number = 4 => parsed' = [parsed EXCEPT !.safe = safe]
          /\ l.number = 5 => parsed' = [parsed EXCEPT !.type = type]
      BY <2>1 DEF ReadLine
    <3>7. parsed' \in Kept
      <4> HIDE DEF confidence, safe, type
      <4> QED BY <2>0, <3>2, <3>3, <3>4, <3>5, <3>6
    <3> QED BY <2>1, <3>7 DEF ReadLine, LinesTypeOK
  <2>2. CASE ParseReturns
    BY <2>0, <2>2 DEF ParseReturns, LinesTypeOK
  <2>3. CASE Parse
    BY <1>0, <2>3 DEF Parse, LinesTypeOK
  <2>4. CASE UNCHANGED lineVars
    BY <2>4 DEF lineVars, LinesTypeOK
  <2> QED BY <2>1, <2>2, <2>3, <2>4 DEF LinesNext
<1> QED BY <1>1, <1>2, PTL DEF LinesSpec
-----------------------------------------------------------------------------
(***************************************************************************)
(* What is left out of a prompt that is too long: the parts of its order.  *)
(***************************************************************************)

\* A value of a bundle or a context, as the lengths of its lines.
Lines == Seq(Nat)

\* The assumption on the data, in terms of lines.
LEMMA LinesAreFunctions ==
  /\ \A d \in Bundles : d \in [DOMAIN d -> Lines]
  /\ Contexts \subseteq [PodLogs : Lines, UpstreamMetrics : Lines, MetricsJSON : Lines,
                         K8sEvents : Lines]
BY PromptAssumption DEF Lines

\* The first and the newest of some lines.
LEMMA Parts ==
  ASSUME NEW v \in Lines, NEW n \in Nat
  PROVE  /\ n <= Len(v) => First(v, n) \in Lines /\ Len(First(v, n)) = n
         /\ Newest(v, n) \in Lines
         /\ Len(v) <= n => Newest(v, n) = v
         /\ n < Len(v) => /\ Len(Newest(v, n)) = n
                          /\ Newest(v, n) = SubSeq(v, Len(v) - n + 1, Len(v))
<1> USE DEF Lines, First, Newest
<1>0. Len(v) \in Nat
  BY LenProperties
<1>1. ASSUME n <= Len(v) PROVE First(v, n) \in Lines /\ Len(First(v, n)) = n
  <2>1. \A i \in 1 .. n : v[i] \in Nat
    BY <1>0, <1>1, ElementOfSeq
  <2> QED BY <1>0, <1>1, <2>1, SubSeqProperties
<1>2. ASSUME n < Len(v)
      PROVE  /\ SubSeq(v, Len(v) - n + 1, Len(v)) \in Lines
             /\ Len(SubSeq(v, Len(v) - n + 1, Len(v))) = n
  <2> DEFINE m == Len(v) - n + 1
  <2>1. m \in 1 .. Len(v) + 1 /\ Len(v) - m + 1 = n
    BY <1>0, <1>2
  <2>2. \A i \in 1 .. Len(v) : v[i] \in Nat
    BY ElementOfSeq
  <2> HIDE DEF m
  <2>3. SubSeq(v, m, Len(v)) \in Lines /\ Len(SubSeq(v, m, Len(v))) = Len(v) - m + 1
    BY <1>0, <2>1, <2>2, SubSeqProperties
  <2> QED BY <2>1, <2>3 DEF m
<1> QED BY <1>0, <1>1, <1>2

\* All of a value.
LEMMA WholeValue ==
  ASSUME NEW v \in Lines
  PROVE  SubSeq(v, 1, Len(v)) = v
BY SubSeqFull DEF Lines
\* The fields of steps 2 to 4, in the order in which they are cut.
LEMMA TheOrder ==
  /\ Len(Cuttable) = 7
  /\ Cuttable[1] = Series[1] /\ Cuttable[2] = Series[2]
  /\ Cuttable[3] = Dependencies[1] /\ Cuttable[4] = Dependencies[2]
  /\ Cuttable[5] = Dependencies[3]
  /\ Cuttable[6] = Metrics[1] /\ Cuttable[7] = Metrics[2]
  /\ \A i, j \in 1 .. 7 : Cuttable[i] = Cuttable[j] => i = j
  /\ \A i \in 1 .. 7 : Cuttable[i] \notin {"pod_logs", "PodLogs", "UpstreamMetrics"}
BY DEF Cuttable, Series, Dependencies, Metrics

\* What is cut remains a value: each field is cut by one rule.
LEMMA CutHasType ==
  ASSUME NEW v \in Lines, NEW i \in 1 .. 7
  PROVE  Cut(Cuttable[i], v) \in Lines
<1> DEFINE key == Cuttable[i]
           fifth == Len(v) \div 5
<1>0. Len(v) \in Nat /\ fifth \in Nat /\ fifth <= Len(v)
  BY LenProperties DEF Lines
<1>1. /\ Contains(Series, key) <=> i \in 1 .. 2
      /\ Contains(Dependencies, key) <=> i \in 3 .. 5
      /\ Contains(Metrics, key) <=> i \in 6 .. 7
  <2>1. Len(Series) = 2 /\ Len(Dependencies) = 3 /\ Len(Metrics) = 2
    BY DEF Series, Dependencies, Metrics
  <2>2. Contains(Series, key) <=> Cuttable[1] = key \/ Cuttable[2] = key
    BY <2>1, TheOrder DEF Contains
  <2>3. Contains(Dependencies, key) <=>
          Cuttable[3] = key \/ Cuttable[4] = key \/ Cuttable[5] = key
    BY <2>1, TheOrder DEF Contains
  <2>4. Contains(Metrics, key) <=> Cuttable[6] = key \/ Cuttable[7] = key
    BY <2>1, TheOrder DEF Contains
  <2> QED BY <2>2, <2>3, <2>4, TheOrder
<1>2. Ends(v) \in Lines
  <2>1. First(v, fifth) \in Seq(Nat) /\ <<19>> \in Seq(Nat) /\ Newest(v, fifth) \in Seq(Nat)
    BY <1>0, Parts DEF Lines
  <2> HIDE DEF fifth
  <2>2. First(v, fifth) \o <<19>> \o Newest(v, fifth) \in Lines
    BY <2>1 DEF Lines
  <2> QED BY <2>2 DEF Ends, fifth
<1>3. <<500 + 15>> \in Lines /\ <<300 + 15>> \in Lines
  BY DEF Lines
<1> HIDE DEF key
<1>4. CASE i \in 1 .. 2
  <2>1. Contains(Series, key) /\ ~Contains(Dependencies, key) /\ ~Contains(Metrics, key)
    BY <1>1, <1>4
  <2> QED BY <1>2, <2>1 DEF Cut, key
<1>5. CASE i \in 3 .. 5
  <2>1. ~Contains(Series, key) /\ Contains(Dependencies, key) /\ ~Contains(Metrics, key)
    BY <1>1, <1>5
  <2> QED BY <1>3, <2>1 DEF Cut, key
<1>6. CASE i \in 6 .. 7
  <2>1. ~Contains(Series, key) /\ ~Contains(Dependencies, key) /\ Contains(Metrics, key)
    BY <1>1, <1>6
  <2> QED BY <1>3, <2>1 DEF Cut, key
<1> QED BY <1>4, <1>5, <1>6

\* The logs without their n oldest lines, and whether one more goes.
WithoutLines(d, n) == [d EXCEPT !["pod_logs"] = SubSeq(@, n + 1, Len(@))]
Goes(d, max, n) == Len(d["pod_logs"]) > n + 10 /\ Total(WithoutLines(d, n)) > max

\* Step 1 stops at the first line that need not go.
LEMMA LinesGo ==
  ASSUME NEW K, "pod_logs" \in K, NEW d \in [K -> Lines], NEW max
  PROVE  \E n \in 0 .. Len(d["pod_logs"]) :
           /\ DropLogs(d, max) = WithoutLines(d, n)
           /\ ~Goes(d, max, n) /\ \A m \in 0 .. n - 1 : Goes(d, max, m)
<1> DEFINE total == Len(d["pod_logs"])
           n == CHOOSE k \in 0 .. total :
                  ~Goes(d, max, k) /\ \A m \in 0 .. k - 1 : Goes(d, max, m)
<1>0. total \in Nat
  BY LenProperties DEF Lines
<1>1. \E k \in 0 .. total : ~Goes(d, max, k) /\ \A m \in 0 .. k - 1 : Goes(d, max, m)
  <2> DEFINE T == {k \in 0 .. total : ~Goes(d, max, k)}
  <2>1. total \in T
    BY <1>0 DEF Goes
  <2>2. PICK k \in T : \A u \in T : k <= u
    <3>1. T \subseteq Nat /\ T # {}
      BY <1>0, <2>1
    <3> HIDE DEF T
    <3> QED BY <3>1, LeastNumber
  <2>3. k \in 0 .. total /\ ~Goes(d, max, k)
    OBVIOUS
  <2>4. ASSUME NEW m \in 0 .. k - 1 PROVE Goes(d, max, m)
    <3>1. m \in 0 .. total /\ ~(k <= m)
      BY <1>0, <2>3
    <3> QED BY <2>2, <3>1
  <2> QED BY <2>3, <2>4
<1>2. n \in 0 .. total /\ ~Goes(d, max, n) /\ \A m \in 0 .. n - 1 : Goes(d, max, m)
  <2> HIDE DEF total
  <2> QED BY <1>1
<1>3. DropLogs(d, max) = WithoutLines(d, n)
  BY DEF DropLogs, WithoutLines, Goes
<1> HIDE DEF n
<1> QED BY <1>2, <1>3
-----------------------------------------------------------------------------
(***************************************************************************)
(* The truncator: eight passes, of which none changes what fits.           *)
(***************************************************************************)

\* One pass of the truncator: it touches one field, and only what is too long.
Pass(d, c, key, max) ==
  /\ c \in [DOMAIN d -> Lines]
  /\ \A k \in DOMAIN d : k # key => c[k] = d[k]
  /\ ~(Total(d) > max) => c = d

\* One pass of the loops of steps 2 to 4.
LEMMA CutIsPass ==
  ASSUME NEW K, NEW d \in [K -> Lines], NEW max, NEW i \in 1 .. 7
  PROVE  LET c == CutIfOver(d, Cuttable[i], max)
         IN  /\ c \in [K -> Lines]
             /\ Pass(d, c, Cuttable[i], max)
             /\ Cuttable[i] \in K /\ Total(d) > max =>
                  c[Cuttable[i]] = Cut(Cuttable[i], d[Cuttable[i]])
<1> DEFINE key == Cuttable[i]
           c == CutIfOver(d, key, max)
<1>1. CASE key \in K /\ Total(d) > max
  <2>1. c = [d EXCEPT ![key] = Cut(key, @)]
    BY <1>1 DEF CutIfOver
  <2>2. Cut(key, d[key]) \in Lines
    BY <1>1, CutHasType
  <2> HIDE DEF c, key
  <2>3. /\ c \in [K -> Lines] /\ c[key] = Cut(key, d[key])
        /\ \A k \in K : k # key => c[k] = d[k]
    BY <1>1, <2>1, <2>2
  <2> QED BY <1>1, <2>3 DEF Pass, c, key
<1>2. CASE ~(key \in K /\ Total(d) > max)
  <2>1. c = d
    BY <1>2 DEF CutIfOver
  <2> HIDE DEF c, key
  <2> QED BY <1>2, <2>1 DEF Pass, c, key
<1> QED BY <1>1, <1>2

\* Step 1 is a pass too; logs that leave the data too long are spent, and
\* with one line more it would have been too long.
LEMMA LinesGoIsPass ==
  ASSUME NEW K, NEW d \in [K -> Lines], NEW max
  PROVE  LET c == DropLogs(d, max)
         IN  /\ c \in [K -> Lines]
             /\ Pass(d, c, "pod_logs", max)
             /\ "pod_logs" \in K =>
                  /\ Total(c) > max => Len(c["pod_logs"]) <= 10
                  /\ c["pod_logs"] # d["pod_logs"] =>
                       Total([d EXCEPT !["pod_logs"] = Newest(@, Len(c["pod_logs"]) + 1)]) > max
<1>1. CASE "pod_logs" \notin K
  <2>1. DropLogs(d, max) = d
    BY <1>1 DEF DropLogs
  <2> QED BY <1>1, <2>1 DEF Pass
<1>2. CASE "pod_logs" \in K
  <2> DEFINE v == d["pod_logs"]
             c == DropLogs(d, max)
  <2>1. v \in Lines /\ Len(v) \in Nat
    BY <1>2, LenProperties DEF Lines
  <2>2. PICK n \in 0 .. Len(v) :
          /\ c = WithoutLines(d, n)
          /\ ~Goes(d, max, n) /\ \A m \in 0 .. n - 1 : Goes(d, max, m)
    BY <1>2, LinesGo
  <2>3. ASSUME NEW m \in 0 .. Len(v)
        PROVE  /\ WithoutLines(d, m) \in [K -> Lines]
               /\ WithoutLines(d, m)["pod_logs"] = SubSeq(v, m + 1, Len(v))
               /\ Len(WithoutLines(d, m)["pod_logs"]) = Len(v) - m
               /\ \A k \in K : k # "pod_logs" => WithoutLines(d, m)[k] = d[k]
    <3>1. SubSeq(v, m + 1, Len(v)) \in Lines /\ Len(SubSeq(v, m + 1, Len(v))) = Len(v) - m
      <4>1. \A j \in m + 1 .. Len(v) : v[j] \in Nat
        BY <2>1, ElementOfSeq DEF Lines
      <4>2. m + 1 \in Int /\ m + 1 <= Len(v) + 1 /\ 0 < m + 1 /\ Len(v) \in Int
        BY <2>1
      <4> HIDE DEF v
      <4> QED BY <2>1, <4>1, <4>2, SubSeqProperties DEF Lines
    <3> HIDE DEF v
    <3>2. WithoutLines(d, m) = [d EXCEPT !["pod_logs"] = SubSeq(v, m + 1, Len(v))]
      BY DEF WithoutLines, v
    <3> QED BY <1>2, <3>1, <3>2
  <2> HIDE DEF c, v
  <2>4. c \in [K -> Lines] /\ (\A k \in K : k # "pod_logs" => c[k] = d[k])
        /\ c["pod_logs"] = SubSeq(v, n + 1, Len(v)) /\ Len(c["pod_logs"]) = Len(v) - n
    BY <2>2, <2>3
  <2>5. WithoutLines(d, 0) = d
    <3>1. SubSeq(v, 1, Len(v)) = v
      BY <2>1, WholeValue
    <3> QED BY <3>1 DEF WithoutLines, v
  <2>6. ~(Total(d) > max) => c = d
    <3>1. ~(Total(d) > max) => n = 0
      <4>1. ~(Total(d) > max) => ~Goes(d, max, 0)
        BY <2>5 DEF Goes
      <4> QED BY <2>1, <2>2, <4>1
    <3> QED BY <2>2, <2>5, <3>1
  <2>7. Total(c) > max => Len(c["pod_logs"]) <= 10
    <3>1. Total(c) > max => ~(Len(v) > n + 10)
      BY <2>2 DEF Goes, v
    <3> QED BY <2>1, <2>4, <3>1
  <2>8. c["pod_logs"] # v =>
          Total([d EXCEPT !["pod_logs"] = Newest(@, Len(c["pod_logs"]) + 1)]) > max
    <3> SUFFICES ASSUME c["pod_logs"] # v
                 PROVE  Total([d EXCEPT !["pod_logs"] = Newest(@, Len(c["pod_logs"]) + 1)]) > max
      OBVIOUS
    <3>1. n # 0
      BY <2>2, <2>5 DEF v
    <3>2. n - 1 \in 0 .. n - 1 /\ (n - 1) + 1 = n
      BY <2>1, <3>1
    <3>3. Total(WithoutLines(d, n - 1)) > max
      BY <2>2, <3>2 DEF Goes
    <3>4. Newest(v, Len(c["pod_logs"]) + 1) = SubSeq(v, n, Len(v))
      <4>1. Len(c["pod_logs"]) + 1 = Len(v) - n + 1
        BY <2>4, SMTT(30)
      <4>2. CASE n = 1
        <5>1. Len(c["pod_logs"]) + 1 = Len(v)
          BY <2>1, <4>1, <4>2
        <5>2. Newest(v, Len(v)) = v /\ SubSeq(v, 1, Len(v)) = v
          BY <2>1, Parts, WholeValue
        <5> QED BY <4>2, <5>1, <5>2
      <4>3. CASE n # 1
        <5>1. Len(v) - n + 1 \in Nat /\ Len(v) - n + 1 < Len(v)
              /\ Len(v) - (Len(v) - n + 1) + 1 = n
          BY <2>1, <3>1, <4>3
        <5> QED BY <2>1, <4>1, <5>1, Parts, ZenonT(40)
      <4> QED BY <4>2, <4>3
    <3>5. WithoutLines(d, n - 1) =
            [d EXCEPT !["pod_logs"] = Newest(@, Len(c["pod_logs"]) + 1)]
      <4>1. SubSeq(v, (n - 1) + 1, Len(v)) = Newest(v, Len(c["pod_logs"]) + 1)
        BY <3>2, <3>4
      <4> QED BY <4>1 DEF WithoutLines, v
    <3> QED BY <3>3, <3>5
  <2>9. Pass(d, c, "pod_logs", max)
    BY <2>4, <2>6 DEF Pass
  <2> QED BY <2>4, <2>7, <2>8, <2>9 DEF c, v
<1> QED BY <1>1, <1>2

\* The order of the truncator.
Fields == <<"pod_logs">> \o Cuttable

\* The names of its fields.
Names ==
  {Series[i] : i \in 1 .. 2} \cup {Dependencies[i] : i \in 1 .. 3}
    \cup {Metrics[i] : i \in 1 .. 2} \cup {"pod_logs"}

\* The fields by their place in the order.
LEMMA TheFields ==
  /\ DOMAIN Fields = 1 .. 8 /\ Fields[1] = "pod_logs"
  /\ \A i \in 2 .. 8 : Fields[i] = Cuttable[i - 1]
  /\ \A i, j \in 1 .. 8 : Fields[i] = Fields[j] => i = j
  /\ \A i \in 1 .. 8 : Fields[i] \notin {"PodLogs", "UpstreamMetrics"}
<1>1. Cuttable \in Seq(Names) /\ <<"pod_logs">> \in Seq(Names) /\ Len(<<"pod_logs">>) = 1
  <2>1. /\ Series = [i \in 1 .. 2 |-> Series[i]]
        /\ Dependencies = [i \in 1 .. 3 |-> Dependencies[i]]
        /\ Metrics = [i \in 1 .. 2 |-> Metrics[i]]
        /\ <<"pod_logs">> = [i \in 1 .. 1 |-> "pod_logs"]
    BY DEF Series, Dependencies, Metrics
  <2>2. /\ \A i \in 1 .. 2 : Series[i] \in Names /\ "pod_logs" \in Names /\ Metrics[i] \in Names
        /\ \A i \in 1 .. 3 : Dependencies[i] \in Names
    BY DEF Names
  <2>3. /\ Series \in [1 .. 2 -> Names] /\ Dependencies \in [1 .. 3 -> Names]
        /\ Metrics \in [1 .. 2 -> Names] /\ <<"pod_logs">> \in [1 .. 1 -> Names]
    BY <2>1, <2>2
  <2>4. ASSUME NEW n \in Nat, NEW s \in [1 .. n -> Names] PROVE s \in Seq(Names) /\ Len(s) = n
    BY <2>4, IsASeq, LenProperties
  <2>5. /\ Series \in Seq(Names) /\ Dependencies \in Seq(Names) /\ Metrics \in Seq(Names)
        /\ <<"pod_logs">> \in Seq(Names) /\ Len(<<"pod_logs">>) = 1
    BY <2>3, <2>4
  <2>6. Cuttable \in Seq(Names)
    BY <2>5 DEF Cuttable
  <2> QED BY <2>5, <2>6
<1>2. DOMAIN Fields = 1 .. 8 /\ Fields[1] = "pod_logs"
      /\ \A i \in 2 .. 8 : Fields[i] = Cuttable[i - 1]
  <2> DEFINE logs == <<"pod_logs">>
  <2>0. logs[1] = "pod_logs" /\ logs \in Seq(Names) /\ Len(logs) = 1
    BY <1>1
  <2> HIDE DEF logs
  <2> DEFINE all == logs \o Cuttable
  <2>5. logs \in Seq(Names) /\ Cuttable \in Seq(Names)
    BY <1>1, <2>0
  <2>1. /\ all \in Seq(Names) /\ Len(all) = Len(logs) + Len(Cuttable)
        /\ \A i \in 1 .. Len(logs) : all[i] = logs[i]
        /\ \A i \in 1 .. Len(Cuttable) : all[i + Len(logs)] = Cuttable[i]
    BY <2>5
  <2> HIDE DEF all
  <2>2. ASSUME NEW i \in 2 .. 8 PROVE all[i] = Cuttable[i - 1]
    <3>1. i - 1 \in 1 .. Len(Cuttable) /\ (i - 1) + Len(logs) = i
      BY <2>0, TheOrder
    <3> QED BY <2>1, <3>1
  <2>3. Fields = all
    BY DEF Fields, logs, all
  <2>4. DOMAIN all = 1 .. 8
    <3>1. DOMAIN all = 1 .. Len(all)
      BY <2>1, LenProperties, Zenon
    <3> QED BY <2>0, <2>1, <3>1, TheOrder
  <2> QED BY <2>0, <2>1, <2>2, <2>3, <2>4
<1>3. ASSUME NEW i \in 1 .. 8, NEW j \in 1 .. 8, Fields[i] = Fields[j] PROVE i = j
  BY <1>2, <1>3, TheOrder
<1>4. ASSUME NEW i \in 1 .. 8 PROVE Fields[i] \notin {"PodLogs", "UpstreamMetrics"}
  BY <1>2, TheOrder
<1> QED BY <1>2, <1>3, <1>4

\* The passes of the truncator, one after the other.
Run(run, d, max) ==
  /\ run[0] = d /\ run[8] = Truncated(d, max) /\ run[1] = DropLogs(d, max)
  /\ \A i \in 0 .. 8 : run[i] \in [DOMAIN d -> Lines]
  /\ \A i \in 1 .. 8 : Pass(run[i - 1], run[i], Fields[i], max)
  /\ \A i \in 2 .. 8 : Fields[i] \in DOMAIN d /\ Total(run[i - 1]) > max =>
       run[i][Fields[i]] = Cut(Fields[i], run[i - 1][Fields[i]])

\* TruncateBundle goes through eight passes.
LEMMA RunExists ==
  ASSUME NEW K, NEW d \in [K -> Lines], NEW max
  PROVE  \E run : Run(run, d, max)
<1> DEFINE s1 == DropLogs(d, max)
           s2 == CutIfOver(s1, Cuttable[1], max)
           s3 == CutIfOver(s2, Cuttable[2], max)
           s4 == CutIfOver(s3, Cuttable[3], max)
           s5 == CutIfOver(s4, Cuttable[4], max)
           s6 == CutIfOver(s5, Cuttable[5], max)
           s7 == CutIfOver(s6, Cuttable[6], max)
           s8 == CutIfOver(s7, Cuttable[7], max)
           run == [i \in 0 .. 8 |->
                     IF i = 0 THEN d ELSE IF i = 1 THEN s1 ELSE IF i = 2 THEN s2
                     ELSE IF i = 3 THEN s3 ELSE IF i = 4 THEN s4 ELSE IF i = 5 THEN s5
                     ELSE IF i = 6 THEN s6 ELSE IF i = 7 THEN s7 ELSE s8]
           Done(a, b, i) ==
             /\ b \in [K -> Lines] /\ Pass(a, b, Cuttable[i], max)
             /\ Cuttable[i] \in K /\ Total(a) > max =>
                  b[Cuttable[i]] = Cut(Cuttable[i], a[Cuttable[i]])
<1>1. s1 \in [K -> Lines] /\ Pass(d, s1, "pod_logs", max)
  BY LinesGoIsPass
<1>2. s8 = Truncated(d, max)
  BY TheOrder, Zenon DEF Truncated, CutSeries, CutDependencies, CutMetrics
<1>3. ASSUME NEW a \in [K -> Lines], NEW i \in 1 .. 7
      PROVE  Done(a, CutIfOver(a, Cuttable[i], max), i)
  BY CutIsPass
<1> HIDE DEF s1, Done
<1>4. Done(s1, s2, 1)
  BY <1>1, <1>3
<1> HIDE DEF s2
<1>5. Done(s2, s3, 2)
  BY <1>3, <1>4 DEF Done
<1> HIDE DEF s3
<1>6. Done(s3, s4, 3)
  BY <1>3, <1>5 DEF Done
<1> HIDE DEF s4
<1>7. Done(s4, s5, 4)
  BY <1>3, <1>6 DEF Done
<1> HIDE DEF s5
<1>8. Done(s5, s6, 5)
  BY <1>3, <1>7 DEF Done
<1> HIDE DEF s6
<1>9. Done(s6, s7, 6)
  BY <1>3, <1>8 DEF Done
<1> HIDE DEF s7
<1>10. Done(s7, s8, 7)
  BY <1>3, <1>9 DEF Done
<1> HIDE DEF s8
<1>11. /\ run[0] = d /\ run[1] = s1 /\ run[2] = s2 /\ run[3] = s3 /\ run[4] = s4
       /\ run[5] = s5 /\ run[6] = s6 /\ run[7] = s7 /\ run[8] = s8
  OBVIOUS
<1> HIDE DEF run
<1>12. \A i \in 0 .. 8 : \/ i = 0 \/ i = 1 \/ i = 2 \/ i = 3 \/ i = 4
                          \/ i = 5 \/ i = 6 \/ i = 7 \/ i = 8
  OBVIOUS
<1>13. ASSUME NEW i \in 1 .. 7 PROVE Done(run[i], run[i + 1], i)
  BY <1>4, <1>5, <1>6, <1>7, <1>8, <1>9, <1>10, <1>11, <1>12
<1>14. ASSUME NEW i \in 2 .. 8 PROVE Done(run[i - 1], run[i], i - 1)
  <2>1. i - 1 \in 1 .. 7 /\ (i - 1) + 1 = i
    OBVIOUS
  <2> QED BY <1>13, <2>1
<1>15. DOMAIN d = K
  OBVIOUS
<1>16. ASSUME NEW i \in 0 .. 8 PROVE run[i] \in [DOMAIN d -> Lines]
  <2>1. i = 0 \/ i = 1 \/ i \in 2 .. 8
    OBVIOUS
  <2> QED BY <1>1, <1>11, <1>14, <1>15, <2>1 DEF Done
<1>17. ASSUME NEW i \in 1 .. 8 PROVE Pass(run[i - 1], run[i], Fields[i], max)
  <2>1. i = 1 \/ i \in 2 .. 8
    OBVIOUS
  <2>2. CASE i = 1
    BY <1>1, <1>11, <2>2, TheFields
  <2>3. CASE i \in 2 .. 8
    BY <1>14, <2>3, TheFields DEF Done
  <2> QED BY <2>1, <2>2, <2>3
<1>18. ASSUME NEW i \in 2 .. 8, Fields[i] \in DOMAIN d, Total(run[i - 1]) > max
       PROVE  run[i][Fields[i]] = Cut(Fields[i], run[i - 1][Fields[i]])
  <2>1. Fields[i] = Cuttable[i - 1]
    BY TheFields
  <2> QED BY <1>14, <1>15, <1>18, <2>1 DEF Done
<1>19. Run(run, d, max)
  <2>1. run[0] = d /\ run[8] = Truncated(d, max) /\ run[1] = DropLogs(d, max)
    BY <1>2, <1>11, Zenon DEF s1
  <2> QED BY <1>16, <1>17, <1>18, <2>1 DEF Run
<1> QED BY <1>19

\* What no step changes is the same at the end.
LEMMA SameAtTheEnd ==
  ASSUME NEW f, NEW a \in Nat, NEW b \in Nat, a <= b,
         \A i \in a + 1 .. b : f[i] = f[i - 1]
  PROVE  f[b] = f[a]
<1> DEFINE T == {i \in a .. b : f[i] # f[a]}
<1>1. ASSUME NEW t \in T, \A u \in T : t <= u PROVE FALSE
  <2>1. t \in a + 1 .. b /\ t - 1 \in a .. b /\ ~(t <= t - 1)
    BY <1>1
  <2>2. f[t] = f[t - 1] /\ f[t - 1] = f[a]
    BY <1>1, <2>1
  <2> QED BY <2>2
<1>2. T = {}
  <2>1. T \subseteq Nat
    OBVIOUS
  <2> HIDE DEF T
  <2> QED BY <1>1, <2>1, LeastNumber
<1>3. b \in a .. b
  OBVIOUS
<1> QED BY <1>2, <1>3

\* Nothing goes once the rest fits.
LEMMA OnceItFits ==
  ASSUME NEW d, NEW max, NEW run, Run(run, d, max),
         NEW a \in 0 .. 8, NEW b \in 0 .. 8, a <= b, ~(Total(run[a]) > max)
  PROVE  run[b] = run[a]
<1> DEFINE T == {i \in a .. b : run[i] # run[a]}
<1>1. ASSUME NEW t \in T, \A u \in T : t <= u PROVE FALSE
  <2>1. t \in a + 1 .. b /\ t - 1 \in a .. b /\ ~(t <= t - 1) /\ t \in 1 .. 8
    BY <1>1
  <2>2. run[t - 1] = run[a]
    BY <1>1, <2>1
  <2>3. Pass(run[t - 1], run[t], Fields[t], max)
    BY <2>1 DEF Run
  <2>4. run[t] = run[t - 1]
    BY <2>2, <2>3 DEF Pass
  <2> QED BY <2>2, <2>4
<1>2. T = {}
  <2>1. T \subseteq Nat
    OBVIOUS
  <2> HIDE DEF T
  <2> QED BY <1>1, <2>1, LeastNumber
<1>3. b \in a .. b
  OBVIOUS
<1> QED BY <1>2, <1>3

\* A field that goes in no pass between two places is the same at both.
LEMMA FieldsBetween ==
  ASSUME NEW d, NEW max, NEW run, Run(run, d, max),
         NEW a \in 0 .. 8, NEW b \in 0 .. 8, a <= b,
         NEW k \in DOMAIN d, \A i \in a + 1 .. b : Fields[i] # k
  PROVE  run[b][k] = run[a][k]
<1> DEFINE f == [i \in 0 .. 8 |-> run[i][k]]
<1>1. ASSUME NEW i \in a + 1 .. b PROVE f[i] = f[i - 1]
  <2>1. i \in 1 .. 8 /\ i - 1 \in 0 .. 8 /\ i \in 0 .. 8
    OBVIOUS
  <2>2. Pass(run[i - 1], run[i], Fields[i], max) /\ k \in DOMAIN run[i - 1]
    BY <2>1 DEF Run
  <2>3. run[i][k] = run[i - 1][k]
    BY <2>2 DEF Pass
  <2> QED BY <2>1, <2>3
<1>2. f[b] = run[b][k] /\ f[a] = run[a][k]
  OBVIOUS
<1> HIDE DEF f
<1>3. f[b] = f[a]
  BY <1>1, SameAtTheEnd
<1> QED BY <1>2, <1>3
\* Where a bundle was truncated, the data before a place is the run so far.
LEMMA BeforeIsRun ==
  ASSUME given \in Bundles, NEW run, Run(run, given, limit), kept = Truncated(given, limit),
         NEW i \in 1 .. 9
  PROVE  Before(i) = run[i - 1]
<1>0. Order = Fields
  BY PromptAssumption, Zenon DEF Order, IsContext, Fields
<1>1. i - 1 \in 0 .. 8 /\ i - 1 <= 8 /\ 0 \in 0 .. 8 /\ 0 <= i - 1 /\ 8 \in 0 .. 8
  OBVIOUS
<1>2. run[0] = given /\ run[8] = kept
  BY DEF Run
<1>3. ASSUME NEW k \in DOMAIN given, NEW j \in 1 .. i - 1, Fields[j] = k
      PROVE  run[i - 1][k] = kept[k]
  <2>1. \A m \in (i - 1) + 1 .. 8 : Fields[m] # k
    BY <1>3, TheFields
  <2> QED BY <1>1, <1>2, <2>1, FieldsBetween
<1>4. ASSUME NEW k \in DOMAIN given, ~\E j \in 1 .. i - 1 : Fields[j] = k
      PROVE  run[i - 1][k] = given[k]
  <2>1. \A m \in 0 + 1 .. i - 1 : Fields[m] # k
    BY <1>4
  <2> QED BY <1>1, <1>2, <2>1, FieldsBetween
<1>5. run[i - 1] \in [DOMAIN given -> Lines]
  BY <1>1 DEF Run
<1>6. \A k \in DOMAIN given :
        run[i - 1][k] = IF \E j \in 1 .. i - 1 : Fields[j] = k THEN kept[k] ELSE given[k]
  BY <1>3, <1>4
<1>7. Before(i) = [k \in DOMAIN given |->
                     IF \E j \in 1 .. i - 1 : Fields[j] = k THEN kept[k] ELSE given[k]]
  BY <1>0 DEF Before
<1> QED BY <1>5, <1>6, <1>7

\* TruncateBundle loses no more than it must.
LEMMA BundleIsCutInOrder ==
  ASSUME given \in Bundles, kept = Truncated(given, limit)
  PROVE  PromptsAreCutInOrder
<1>0. given \in [DOMAIN given -> Lines] /\ ~IsContext
  BY LinesAreFunctions, PromptAssumption DEF IsContext
<1>1. PICK run : Run(run, given, limit)
  BY <1>0, RunExists
<1>2. Order = Fields /\ \A d : Over(d) <=> Total(d) > limit
  BY <1>0 DEF Order, Fields, Over
<1>3. run[0] = given /\ run[8] = kept
  BY <1>1 DEF Run
<1>4. \A i \in 1 .. 9 : Before(i) = run[i - 1]
  BY <1>1, BeforeIsRun
\* What was too long at a place was too long before, and went.
<1>5. ASSUME NEW i \in 0 .. 8, Total(run[i]) > limit, NEW j \in 1 .. 8, j <= i,
             Fields[j] \in DOMAIN given
      PROVE  Spent(Fields[j])
  <2> DEFINE k == Fields[j]
  <2>0. j - 1 \in 0 .. 8 /\ j - 1 <= i /\ j \in 0 .. 8 /\ 0 \in 0 .. 8 /\ 0 <= j - 1 /\ j <= 8
        /\ 8 \in 0 .. 8
    BY <1>5
  <2>1. Total(run[j]) > limit /\ Total(run[j - 1]) > limit
    BY <1>1, <1>5, <2>0, OnceItFits
  <2>2. kept[k] = run[j][k] /\ run[j - 1][k] = given[k]
    <3>1. \A m \in j + 1 .. 8 : Fields[m] # k
      BY TheFields
    <3>2. \A m \in 0 + 1 .. j - 1 : Fields[m] # k
      BY TheFields
    <3> HIDE DEF k
    <3>3. k \in DOMAIN given
      BY <1>5 DEF k
    <3>4. run[8][k] = run[j][k]
      BY <1>1, <2>0, <3>1, <3>3, FieldsBetween
    <3>5. run[j - 1][k] = run[0][k]
      BY <1>1, <2>0, <3>2, <3>3, FieldsBetween
    <3> QED BY <1>3, <3>4, <3>5
  <2>3. k \notin {"PodLogs", "UpstreamMetrics"}
    BY TheFields
  <2>4. CASE j = 1
    <3>1. k = "pod_logs" /\ run[1] = DropLogs(given, limit)
      BY <1>1, <2>4, TheFields DEF Run
    <3>2. Total(DropLogs(given, limit)) > limit =>
            Len(DropLogs(given, limit)["pod_logs"]) <= 10
      <4>1. "pod_logs" \in DOMAIN given
        BY <1>5, <3>1
      <4> QED BY <1>0, <4>1, LinesGoIsPass
    <3>3. Len(kept["pod_logs"]) <= 10
      BY <2>1, <2>2, <2>4, <3>1, <3>2
    <3> QED BY <3>1, <3>3 DEF Spent
  <2>5. CASE j # 1
    <3>1. j \in 2 .. 8 /\ k # "pod_logs"
      BY <2>5, TheFields
    <3>2. run[j][k] = Cut(k, run[j - 1][k])
      BY <1>1, <1>5, <2>1, <3>1 DEF Run
    <3> QED BY <2>2, <2>3, <3>1, <3>2 DEF Spent
  <2> QED BY <2>4, <2>5
<1>6. ASSUME NEW key \in DOMAIN given, kept[key] # given[key]
      PROVE  \E i \in DOMAIN Order :
               /\ Order[i] = key /\ Over(Before(i))
               /\ \A j \in 1 .. i - 1 : Order[j] \in DOMAIN given => Spent(Order[j])
               /\ key = "pod_logs" => Over(OneMoreLine)
  <2>1. PICK i \in 1 .. 8 : Fields[i] = key
    <3>1. (\A m \in 0 + 1 .. 8 : Fields[m] # key) => run[8][key] = run[0][key]
      BY <1>1, FieldsBetween
    <3> QED BY <1>3, <1>6, <3>1
  <2>2. i - 1 \in 0 .. 8 /\ i \in 0 .. 8 /\ 0 <= i - 1 /\ 0 \in 0 .. 8 /\ i <= 8 /\ 8 \in 0 .. 8
        /\ i - 1 <= 8
    OBVIOUS
  <2>3. Total(run[i - 1]) > limit
    <3>1. SUFFICES ASSUME ~(Total(run[i - 1]) > limit) PROVE FALSE
      OBVIOUS
    <3>2. run[8] = run[i - 1]
      BY <1>1, <2>2, <3>1, OnceItFits
    <3>3. \A m \in 0 + 1 .. i - 1 : Fields[m] # key
      BY <2>1, TheFields
    <3>4. run[i - 1][key] = run[0][key]
      BY <1>1, <2>2, <3>3, FieldsBetween
    <3> QED BY <1>3, <1>6, <3>2, <3>4
  <2>4. Over(Before(i))
    BY <1>2, <1>4, <2>3
  <2>5. \A j \in 1 .. i - 1 : Fields[j] \in DOMAIN given => Spent(Fields[j])
    BY <1>5, <2>2, <2>3
  <2>6. key = "pod_logs" => Over(OneMoreLine)
    <3> SUFFICES ASSUME key = "pod_logs" PROVE Over(OneMoreLine)
      OBVIOUS
    <3>1. \A m \in 1 + 1 .. 8 : Fields[m] # key
      BY TheFields
    <3>2. run[8][key] = run[1][key]
      BY <1>1, <3>1, FieldsBetween
    <3>3. kept["pod_logs"] = DropLogs(given, limit)["pod_logs"]
      BY <1>1, <1>3, <3>2 DEF Run
    <3>4. Total([given EXCEPT !["pod_logs"] = Newest(@, Len(kept["pod_logs"]) + 1)]) > limit
      BY <1>0, <1>6, <3>3, LinesGoIsPass
    <3> QED BY <1>2, <3>4 DEF OneMoreLine
  <2> QED BY <1>2, <2>1, <2>4, <2>5, <2>6, TheFields
<1>7. ASSUME Over(kept), NEW key \in ToSet(Order) \cap DOMAIN given PROVE Spent(key)
  <2>1. PICK j \in 1 .. 8 : Fields[j] = key
    BY <1>2, TheFields DEF ToSet
  <2> QED BY <1>2, <1>3, <1>5, <1>7, <2>1
<1>8. (\E key \in ToSet(Order) \cap DOMAIN given : ~Spent(key)) => ~Over(kept)
  BY <1>7
<1> QED BY <1>6, <1>8 DEF PromptsAreCutInOrder
-----------------------------------------------------------------------------
(***************************************************************************)
(* The phases of Build, and the prompts of both.                           *)
(***************************************************************************)

\* The phases of Build: what each leaves of a context.
LEMMA ThePhases ==
  ASSUME NEW ctx \in Contexts
  PROVE  LET p == Phases(ctx)
             Same(c) == c.MetricsJSON = ctx.MetricsJSON /\ c.K8sEvents = ctx.K8sEvents
         IN  /\ p[1] = ctx
             /\ \A i \in 1 .. 5 :
                  /\ p[i] \in [PodLogs : Lines, UpstreamMetrics : Lines, MetricsJSON : Lines,
                               K8sEvents : Lines]
                  /\ Same(p[i])
             /\ \A i \in 1 .. 4 : p[i].UpstreamMetrics = ctx.UpstreamMetrics
             /\ p[4] = [ctx EXCEPT !.PodLogs = <<>>]
             /\ p[5].PodLogs = <<>> /\ Len(p[5].UpstreamMetrics) <= 2
<1> DEFINE Context == [PodLogs : Lines, UpstreamMetrics : Lines, MetricsJSON : Lines,
                       K8sEvents : Lines]
           metrics == ctx.UpstreamMetrics
           fewer == First(metrics, IF Len(metrics) <= 2 THEN Len(metrics) ELSE 2)
<1>1. ctx \in Context /\ ctx.PodLogs \in Lines /\ metrics \in Lines
  BY LinesAreFunctions
<1>2. \A n \in Nat : Newest(ctx.PodLogs, n) \in Lines
  BY <1>1, Parts
<1>3. Newest(ctx.PodLogs, 0) = <<>>
  <2>1. Newest(ctx.PodLogs, 0) \in Seq(Nat) /\ Len(Newest(ctx.PodLogs, 0)) = 0
    <3>1. Len(ctx.PodLogs) \in Nat
      BY <1>1, LenProperties DEF Lines
    <3>2. CASE Len(ctx.PodLogs) = 0
      BY <1>1, <3>2, Parts DEF Lines
    <3>3. CASE Len(ctx.PodLogs) # 0
      <4>1. 0 \in Nat /\ 0 < Len(ctx.PodLogs)
        BY <3>1, <3>3
      <4>2. Newest(ctx.PodLogs, 0) \in Lines /\ Len(Newest(ctx.PodLogs, 0)) = 0
        BY <1>1, <4>1, Parts, Zenon
      <4> QED BY <4>2 DEF Lines
    <3> QED BY <3>2, <3>3
  <2> QED BY <2>1, EmptySeq
<1>4. fewer \in Lines /\ Len(fewer) <= 2
  <2>1. Len(metrics) \in Nat
    BY <1>1, LenProperties DEF Lines
  <2>2. CASE Len(metrics) <= 2
    BY <1>1, <2>1, <2>2, Parts, SMTT(30)
  <2>3. CASE ~(Len(metrics) <= 2)
    BY <1>1, <2>1, <2>3, Parts, SMTT(30)
  <2> QED BY <2>2, <2>3
<1> DEFINE logs10 == Newest(ctx.PodLogs, 10)
           logs5 == Newest(ctx.PodLogs, 5)
<1>5. /\ Phases(ctx)[1] = ctx
      /\ Phases(ctx)[2] = [ctx EXCEPT !.PodLogs = logs10]
      /\ Phases(ctx)[3] = [ctx EXCEPT !.PodLogs = logs5]
      /\ Phases(ctx)[4] = [ctx EXCEPT !.PodLogs = <<>>]
      /\ Phases(ctx)[5] = [[ctx EXCEPT !.PodLogs = <<>>] EXCEPT !.UpstreamMetrics = fewer]
  <2>1. /\ truncateLogs(ctx, 10) = [ctx EXCEPT !.PodLogs = logs10]
        /\ truncateLogs(ctx, 5) = [ctx EXCEPT !.PodLogs = logs5]
        /\ truncateLogs(ctx, 0) = [ctx EXCEPT !.PodLogs = <<>>]
    BY <1>3 DEF truncateLogs
  <2>2. truncateJSON(truncateLogs(ctx, 0), 2) =
          [[ctx EXCEPT !.PodLogs = <<>>] EXCEPT !.UpstreamMetrics = fewer]
    BY <1>1, <2>1 DEF truncateJSON
  <2>3. /\ Phases(ctx)[1] = ctx
        /\ Phases(ctx)[2] = truncateLogs(ctx, 10)
        /\ Phases(ctx)[3] = truncateLogs(ctx, 5)
        /\ Phases(ctx)[4] = truncateLogs(ctx, 0)
        /\ Phases(ctx)[5] = truncateJSON(truncateLogs(ctx, 0), 2)
    BY DEF Phases
  <2> QED BY <2>1, <2>2, <2>3
<1>6. logs10 \in Lines /\ logs5 \in Lines /\ <<>> \in Lines
  BY <1>2, <1>3
<1> DEFINE q == Phases(ctx)
<1> HIDE DEF fewer, logs10, logs5, q
<1>7. /\ q[1] = ctx
      /\ q[2] = [ctx EXCEPT !.PodLogs = logs10]
      /\ q[3] = [ctx EXCEPT !.PodLogs = logs5]
      /\ q[4] = [ctx EXCEPT !.PodLogs = <<>>]
      /\ q[5] = [[ctx EXCEPT !.PodLogs = <<>>] EXCEPT !.UpstreamMetrics = fewer]
  BY <1>5 DEF q
<1> DEFINE Good(c) == /\ c \in Context
                      /\ c.MetricsJSON = ctx.MetricsJSON /\ c.K8sEvents = ctx.K8sEvents
<1>8. Good(q[1]) /\ q[1].UpstreamMetrics = ctx.UpstreamMetrics
  BY <1>1, <1>7
<1>9. Good(q[2]) /\ q[2].UpstreamMetrics = ctx.UpstreamMetrics
  BY <1>1, <1>6, <1>7
<1>10. Good(q[3]) /\ q[3].UpstreamMetrics = ctx.UpstreamMetrics
  BY <1>1, <1>6, <1>7
<1>11. Good(q[4]) /\ q[4].UpstreamMetrics = ctx.UpstreamMetrics
  BY <1>1, <1>6, <1>7
<1>12. Good(q[5]) /\ q[5].PodLogs = <<>> /\ q[5].UpstreamMetrics = fewer
  BY <1>1, <1>4, <1>6, <1>7
<1> HIDE DEF Good
<1>13. \A i \in 1 .. 5 : i = 1 \/ i = 2 \/ i = 3 \/ i = 4 \/ i = 5
  OBVIOUS
<1>14. \A i \in 1 .. 5 : Good(q[i])
  BY <1>8, <1>9, <1>10, <1>11, <1>12, <1>13
<1>15. \A i \in 1 .. 4 : q[i].UpstreamMetrics = ctx.UpstreamMetrics
  <2>1. \A i \in 1 .. 4 : i = 1 \/ i = 2 \/ i = 3 \/ i = 4
    OBVIOUS
  <2> QED BY <1>8, <1>9, <1>10, <1>11, <2>1
<1> QED BY <1>4, <1>7, <1>12, <1>14, <1>15 DEF q, Good

\* The first phase that fits, or the last; all before it did not.
LEMMA ReducedIs ==
  ASSUME NEW ctx \in Contexts
  PROVE  \E m \in 1 .. 5 :
           /\ Reduced(ctx) = Phases(ctx)[m]
           /\ m < 5 => Fits(Phases(ctx)[m])
           /\ \A i \in 1 .. m - 1 : ~Fits(Phases(ctx)[i])
<1> DEFINE fitting == {i \in 1 .. 5 : Fits(Phases(ctx)[i])}
           T == fitting \cup {5}
           m == Min(T)
<1>1. m \in T /\ \A u \in T : m <= u
  <2>1. T \subseteq Nat /\ T # {}
    OBVIOUS
  <2> HIDE DEF T
  <2>2. \E t \in T : \A u \in T : t <= u
    BY <2>1, LeastNumber
  <2> QED BY <2>2 DEF Min
<1>2. Reduced(ctx) = Phases(ctx)[m]
  BY DEF Reduced
<1> HIDE DEF m
<1>3. m \in 1 .. 5 /\ (m < 5 => Fits(Phases(ctx)[m]))
  BY <1>1
<1>4. \A i \in 1 .. m - 1 : ~Fits(Phases(ctx)[i])
  <2>1. \A i \in 1 .. m - 1 : i \in 1 .. 5 /\ ~(m <= i)
    BY <1>3
  <2> QED BY <1>1, <2>1
<1> QED BY <1>2, <1>3, <1>4

\* Build loses no more than it must.
LEMMA ContextIsCutInOrder ==
  ASSUME given \in Contexts, kept = Reduced(given)
  PROVE  PromptsAreCutInOrder
<1>0. /\ IsContext /\ DOMAIN given = {"PodLogs", "UpstreamMetrics", "MetricsJSON", "K8sEvents"}
      /\ given = [k \in DOMAIN given |-> given[k]]
  BY LinesAreFunctions DEF IsContext
<1>1. PICK m \in 1 .. 5 :
        /\ kept = Phases(given)[m]
        /\ m < 5 => Fits(Phases(given)[m])
        /\ \A i \in 1 .. m - 1 : ~Fits(Phases(given)[i])
  BY ReducedIs
<1>2. Order = <<"PodLogs", "UpstreamMetrics">> /\ \A d : Over(d) <=> ~Fits(d)
  BY <1>0 DEF Order, Over
<1>3. DOMAIN Order = 1 .. 2 /\ Order[1] = "PodLogs" /\ Order[2] = "UpstreamMetrics"
  BY <1>2
<1>14. /\ Phases(given)[1] = given
       /\ \A i \in 1 .. 5 : /\ Phases(given)[i].MetricsJSON = given.MetricsJSON
                            /\ Phases(given)[i].K8sEvents = given.K8sEvents
       /\ \A i \in 1 .. 4 : Phases(given)[i].UpstreamMetrics = given.UpstreamMetrics
       /\ Phases(given)[5].PodLogs = <<>> /\ Len(Phases(given)[5].UpstreamMetrics) <= 2
  BY ThePhases, Zenon
<1> DEFINE p == Phases(given)
<1> HIDE DEF p
<1>15. /\ p[1] = given
       /\ \A i \in 1 .. 5 : /\ p[i].MetricsJSON = given.MetricsJSON
                            /\ p[i].K8sEvents = given.K8sEvents
       /\ \A i \in 1 .. 4 : p[i].UpstreamMetrics = given.UpstreamMetrics
       /\ p[5].PodLogs = <<>> /\ Len(p[5].UpstreamMetrics) <= 2
       /\ kept = p[m] /\ \A i \in 1 .. m - 1 : ~Fits(p[i])
  BY <1>1, <1>14, Zenon DEF p
<1>4. kept.MetricsJSON = given.MetricsJSON /\ kept.K8sEvents = given.K8sEvents
  BY <1>15
<1>5. m < 5 => kept.UpstreamMetrics = given.UpstreamMetrics
  BY <1>15
<1>6. m = 5 => kept.PodLogs = <<>> /\ Len(kept.UpstreamMetrics) <= 2
  BY <1>15
<1>7. m = 1 => kept = given
  BY <1>15
<1>8. m > 1 => ~Fits(given)
  BY <1>15
<1>9. m = 5 => Spent("PodLogs") /\ Spent("UpstreamMetrics")
  BY <1>6 DEF Spent
<1>10. Before(1) = given
  <2>1. \A k \in DOMAIN given : ~\E j \in 1 .. 1 - 1 : Order[j] = k
    OBVIOUS
  <2> QED BY <1>0, <2>1 DEF Before
<1>11. m = 5 => ~Fits(Before(2))
  <2> SUFFICES ASSUME m = 5 PROVE ~Fits(Before(2))
    OBVIOUS
  <2>1. \A k \in DOMAIN given : (\E j \in 1 .. 2 - 1 : Order[j] = k) <=> k = "PodLogs"
    BY <1>3
  <2>2. Before(2) = [k \in DOMAIN given |-> IF k = "PodLogs" THEN <<>> ELSE given[k]]
    BY <1>6, <2>1 DEF Before
  <2>3. [given EXCEPT !.PodLogs = <<>>] =
          [k \in DOMAIN given |-> IF k = "PodLogs" THEN <<>> ELSE given[k]]
    BY <1>0
  <2>4. Phases(given)[4] = [given EXCEPT !.PodLogs = <<>>] /\ ~Fits(Phases(given)[4])
    BY <1>1, ThePhases
  <2> QED BY <2>2, <2>3, <2>4
<1>12. ASSUME NEW key \in DOMAIN given, kept[key] # given[key]
       PROVE  \E i \in DOMAIN Order :
                /\ Order[i] = key /\ Over(Before(i))
                /\ \A j \in 1 .. i - 1 : Order[j] \in DOMAIN given => Spent(Order[j])
                /\ key = "pod_logs" => Over(OneMoreLine)
  <2>1. m > 1 /\ key \in {"PodLogs", "UpstreamMetrics"}
    BY <1>0, <1>4, <1>7, <1>12
  <2>2. CASE key = "PodLogs"
    <3>1. Over(Before(1))
      BY <1>2, <1>8, <1>10, <2>1
    <3> QED BY <1>3, <2>2, <3>1
  <2>3. CASE key = "UpstreamMetrics"
    <3>1. m = 5
      BY <1>5, <1>12, <2>3
    <3>2. Over(Before(2)) /\ Spent(Order[1])
      BY <1>2, <1>3, <1>9, <1>11, <3>1
    <3> QED BY <1>3, <2>3, <3>2
  <2> QED BY <2>1, <2>2, <2>3
<1>13. ASSUME Over(kept), NEW key \in ToSet(Order) \cap DOMAIN given PROVE Spent(key)
  <2>1. m = 5
    BY <1>1, <1>2, <1>13
  <2>2. key \in {"PodLogs", "UpstreamMetrics"}
    BY <1>3 DEF ToSet
  <2> QED BY <1>9, <2>1, <2>2
<1>16. (\E key \in ToSet(Order) \cap DOMAIN given : ~Spent(key)) => ~Over(kept)
  BY <1>13
<1> QED BY <1>12, <1>16 DEF PromptsAreCutInOrder

\* The inductive invariant: what is kept is what the truncation of the
\* latest data leaves.
PromptInv ==
  /\ limit \in Nat
  /\ \/ given = <<>> /\ kept = <<>>
     \/ given \in Bundles /\ kept = Truncated(given, limit)
     \/ given \in Contexts /\ kept = Reduced(given)
  /\ prompt \subseteq DOMAIN given

\* No field is lost or added, and each remains a value.
LEMMA WhatIsKept ==
  ASSUME PromptInv
  PROVE  DOMAIN kept = DOMAIN given /\ \A key \in DOMAIN kept : kept[key] \in Lines
<1>1. CASE given = <<>> /\ kept = <<>>
  BY <1>1
<1>2. CASE given \in Bundles /\ kept = Truncated(given, limit)
  <2>1. PICK run : Run(run, given, limit)
    BY <1>2, LinesAreFunctions, RunExists
  <2>2. kept \in [DOMAIN given -> Lines]
    BY <1>2, <2>1 DEF Run
  <2> QED BY <2>2
<1>3. CASE given \in Contexts /\ kept = Reduced(given)
  <2> DEFINE Context == [PodLogs : Lines, UpstreamMetrics : Lines, MetricsJSON : Lines,
                         K8sEvents : Lines]
  <2>1. \A i \in 1 .. 5 : Phases(given)[i] \in Context
    BY <1>3, ThePhases, Zenon
  <2>2. kept \in Context
    <3> HIDE DEF Context
    <3>1. \E m \in 1 .. 5 : Reduced(given) = Phases(given)[m]
      BY <1>3, ReducedIs
    <3> QED BY <1>3, <2>1, <3>1
  <2>3. given \in Context
    BY <1>3, LinesAreFunctions
  <2> QED BY <2>2, <2>3
<1> QED BY <1>1, <1>2, <1>3 DEF PromptInv

\* The invariant, for any bundles, contexts, providers and codes.
THEOREM PromptInvariant == PromptSpec => []PromptInv
<1>1. PromptInit => PromptInv
  BY DEF PromptInit, PromptInv
<1>2. PromptInv /\ [PromptNext]_promptVars => PromptInv'
  <2> SUFFICES ASSUME PromptInv, [PromptNext]_promptVars PROVE PromptInv'
    OBVIOUS
  <2>1. ASSUME NEW p \in Providers, NEW d \in Bundles, TruncateBundle(p, d) PROVE PromptInv'
    <3>1. 4 * MaxTokensForProvider(p) \in Nat
      <4>1. MaxTokensForProvider(p) \in Nat
        BY DEF MaxTokensForProvider
      <4> QED BY <4>1
    <3> QED BY <2>1, <3>1 DEF TruncateBundle, PromptInv
  <2>2. ASSUME NEW c \in Codes, BuilderBuild(c) PROVE PromptInv'
    BY <2>2, WhatIsKept DEF BuilderBuild, PromptInv
  <2>3. ASSUME NEW ctx \in Contexts, Build(ctx) PROVE PromptInv'
    BY <2>3 DEF Build, PromptInv, MaxTokens
  <2>4. CASE UNCHANGED promptVars
    BY <2>4 DEF promptVars, PromptInv
  <2> QED BY <2>1, <2>2, <2>3, <2>4 DEF PromptNext
<1> QED BY <1>1, <1>2, PTL DEF PromptSpec

\* Neither truncation loses or adds a field, and no template shows one that
\* the data lacks.
THEOREM PromptTypeCorrect == PromptSpec => []PromptTypeOK
<1>1. PromptInv => PromptTypeOK
  BY WhatIsKept DEF PromptInv, PromptTypeOK, Lines
<1> QED BY <1>1, PromptInvariant, PTL

\* Whatever the data, the limit and the lengths of the fields, the truncator
\* and Build cut a field only where all before it are spent and the rest
\* does not fit, and what has something left to give fits.
THEOREM PromptsStayCutInOrder == PromptSpec => []PromptsAreCutInOrder
<1>1. PromptInv => PromptsAreCutInOrder
  <2>1. given = <<>> /\ kept = <<>> => PromptsAreCutInOrder
    BY DEF PromptsAreCutInOrder
  <2> QED BY <2>1, BundleIsCutInOrder, ContextIsCutInOrder DEF PromptInv
<1> QED BY <1>1, PromptInvariant, PTL
-----------------------------------------------------------------------------
(***************************************************************************)
(* The parts of the correlator together.                                   *)
(***************************************************************************)

\* A behaviour of the parts together is one of each: a step of one part leaves
\* the state of the others alone.
LEMMA PartsAreTheirOwn ==
  PartsSpec => /\ Init /\ [][Next]_vars
               /\ BreakerSpec /\ PromptSpec /\ AnswerSpec /\ LinesSpec
<1>1. PartsInit => Init /\ BreakerInit /\ PromptInit /\ AnswerInit /\ LinesInit
  BY DEF PartsInit
<1>2. [PartsNext]_allVars =>
        /\ [Next]_vars /\ [BreakerNext]_breakerVars /\ [PromptNext]_promptVars
        /\ [AnswerNext]_answerVars /\ [LinesNext]_lineVars
  BY DEF PartsNext, LockStep, BreakerStep, PromptStep, AnswerStep, LineStep, allVars
<1> QED
  BY <1>1, <1>2, PTL DEF PartsSpec, BreakerSpec, PromptSpec, AnswerSpec, LinesSpec

\* The types of all parts of the correlator together.
THEOREM PartsKeepTheirTypes == PartsSpec => []PartsTypeOK
<1>1. LocksInv => TypeOK
  BY DEF LocksInv
<1>2. TypeOK /\ BreakerTypeOK /\ PromptTypeOK /\ AnswerTypeOK /\ LinesTypeOK => PartsTypeOK
  BY DEF PartsTypeOK
<1>3. BreakerSpec => []BreakerTypeOK
  BY BreakerTypeCorrect, BreakerAssumption
<1> QED
  BY <1>1, <1>2, <1>3, PartsAreTheirOwn, LocksInvariant, PromptTypeCorrect,
     AnswerTypeCorrect, LinesTypeCorrect, PTL

\* What each part of the correlator promises, of all together: the router hangs
\* by nesting only, circuits track reports and shed load, prompts are cut in
\* order, and nothing of an answer is invented.
THEOREM PartsKeepTheirPromises ==
  PartsSpec => /\ [](/\ HangsByNestingOnly /\ BreakerTracksReports
                     /\ PromptsAreCutInOrder /\ NothingIsInvented)
               /\ OpenCircuitShedsLoad
<1>1. BreakerSpec => []BreakerTracksReports
  BY BreakerAlwaysTracks, BreakerAssumption
<1>2. BreakerSpec => OpenCircuitShedsLoad
  BY OpenAlwaysSheds, BreakerAssumption
<1> QED
  BY <1>1, <1>2, PartsAreTheirOwn, HangsByNesting, PromptsStayCutInOrder,
     AnswersInventNothing, PTL
=============================================================================
