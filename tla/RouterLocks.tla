----------------------------- MODULE RouterLocks -----------------------------
(***************************************************************************)
(* The read-write lock of the LLM router (internal/correlator/llm/         *)
(* router.go) and the three ways its methods use it.                       *)
(*                                                                         *)
(*  - A writer (RecordFailure, RecordSuccess, RegisterClient) takes the    *)
(*    lock exclusively, once.                                              *)
(*  - A reader (isProviderHealthy, for SelectProvider) takes it shared.    *)
(*  - A lister (AvailableProviders) takes it shared and, holding it, calls *)
(*    isProviderHealthy for each client, which takes it shared again.      *)
(*                                                                         *)
(* sync.RWMutex is external.  A waiting writer keeps new readers out, also *)
(* those that hold the lock already; when a writer leaves, every reader    *)
(* that waits is let in.                                                   *)
(***************************************************************************)
EXTENDS Naturals, FiniteSets

CONSTANTS Writers, Readers, Listers,  \* goroutines, by what they call
          NumClients,                 \* registered providers
          NoWriter                    \* nobody has or awaits the write lock

Shared == Readers \cup Listers
Goroutines == Writers \cup Shared

ASSUME LockAssumption ==
  /\ NumClients \in Nat \ {0}
  /\ NoWriter \notin Goroutines
  /\ Writers \cap Shared = {} /\ Readers \cap Listers = {}

VARIABLES
  pc,      \* where each goroutine is
  asked,   \* the clients a lister has asked about
  holds,   \* how often each goroutine holds the lock shared
  queue,   \* the readers that wait for a writer to leave
  writer,  \* the writer that holds the lock or is next, or NoWriter
  inside   \* it holds the lock

vars == <<pc, asked, holds, queue, writer, inside>>

TypeOK ==
  /\ pc \in [Goroutines -> {"idle", "locking", "reading", "listing", "asking", "writing"}]
  /\ asked \in [Listers -> 0 .. NumClients]
  /\ holds \in [Shared -> 0 .. 2]
  /\ queue \subseteq Shared
  /\ writer \in Writers \cup {NoWriter}
  /\ inside \in BOOLEAN
-----------------------------------------------------------------------------
(***************************************************************************)
(* sync.RWMutex.                                                           *)
(***************************************************************************)

\* RLock, called by g: it holds the lock now, or waits in the queue.
RLock(g) ==
  IF writer = NoWriter
  THEN holds' = [holds EXCEPT ![g] = @ + 1] /\ UNCHANGED queue
  ELSE queue' = queue \cup {g} /\ UNCHANGED holds

RUnlock(g) == holds' = [holds EXCEPT ![g] = @ - 1]

\* Unlock lets the queue in.
Unlock ==
  /\ writer' = NoWriter
  /\ inside' = FALSE
  /\ holds' = [g \in Shared |-> IF g \in queue THEN holds[g] + 1 ELSE holds[g]]
  /\ queue' = {}
-----------------------------------------------------------------------------
Init ==
  /\ pc = [g \in Goroutines |-> "idle"]
  /\ asked = [g \in Listers |-> 0]
  /\ holds = [g \in Shared |-> 0]
  /\ queue = {}
  /\ writer = NoWriter
  /\ inside = FALSE

Goto(g, s) == pc' = [pc EXCEPT ![g] = s]

\* A writer asks for the lock, gets it, and releases it.
WriterCalls(g) ==
  /\ g \in Writers /\ pc[g] = "idle"
  /\ Goto(g, "locking")
  /\ UNCHANGED <<asked, holds, queue, writer, inside>>

WriterIsNext(g) ==
  /\ g \in Writers /\ pc[g] = "locking" /\ writer = NoWriter
  /\ writer' = g
  /\ UNCHANGED <<pc, asked, holds, queue, inside>>

WriterEnters(g) ==
  /\ g = writer /\ ~inside
  /\ \A r \in Shared : holds[r] = 0
  /\ inside' = TRUE
  /\ Goto(g, "writing")
  /\ UNCHANGED <<asked, holds, queue, writer>>

\* The deferred Unlock.  Mutant: it is missing.
Release_Missing == UNCHANGED <<writer, inside, holds, queue>>
Release == Unlock

WriterReturns(g) ==
  /\ pc[g] = "writing"
  /\ Release
  /\ Goto(g, "idle")
  /\ UNCHANGED asked

\* isProviderHealthy on its own.
ReaderCalls(g) ==
  /\ g \in Readers /\ pc[g] = "idle"
  /\ RLock(g)
  /\ Goto(g, "reading")
  /\ UNCHANGED <<asked, writer, inside>>

ReaderReturns(g) ==
  /\ pc[g] = "reading" /\ g \notin queue
  /\ RUnlock(g)
  /\ Goto(g, "idle")
  /\ UNCHANGED <<asked, queue, writer, inside>>

\* AvailableProviders: the outer lock, the nested ones, the return.
ListerCalls(g) ==
  /\ g \in Listers /\ pc[g] = "idle"
  /\ RLock(g)
  /\ Goto(g, "listing")
  /\ asked' = [asked EXCEPT ![g] = 0]
  /\ UNCHANGED <<writer, inside>>

ListerAsks(g) ==
  /\ pc[g] = "listing" /\ g \notin queue /\ asked[g] < NumClients
  /\ RLock(g)
  /\ Goto(g, "asking")
  /\ UNCHANGED <<asked, writer, inside>>

ListerIsAnswered(g) ==
  /\ pc[g] = "asking" /\ g \notin queue
  /\ RUnlock(g)
  /\ Goto(g, "listing")
  /\ asked' = [asked EXCEPT ![g] = @ + 1]
  /\ UNCHANGED <<queue, writer, inside>>

\* The deferred RUnlock.  Mutant: it is missing.
Leave_Missing(g) == UNCHANGED holds
Leave(g) == RUnlock(g)

ListerReturns(g) ==
  /\ pc[g] = "listing" /\ g \notin queue /\ asked[g] = NumClients
  /\ Leave(g)
  /\ Goto(g, "idle")
  /\ UNCHANGED <<asked, queue, writer, inside>>

Step(g) ==
  \/ WriterEnters(g) \/ WriterReturns(g) \/ ReaderReturns(g)
  \/ ListerAsks(g) \/ ListerIsAnswered(g) \/ ListerReturns(g)

Next == \E g \in Goroutines :
  WriterCalls(g) \/ WriterIsNext(g) \/ ReaderCalls(g) \/ ListerCalls(g) \/ Step(g)

\* A call goes on once it was made; calls need not be made.  The mutex
\* between writers hands over to one that waits long.
Spec == /\ Init /\ [][Next]_vars
        /\ \A g \in Goroutines : WF_vars(Step(g)) /\ SF_vars(WriterIsNext(g))
-----------------------------------------------------------------------------
\* Nobody who is in a call can go on with it.
Stuck ==
  /\ \E g \in Goroutines : pc[g] # "idle"
  /\ \A g \in Writers : pc[g] # "writing" /\ (pc[g] = "locking" => writer # NoWriter)
  /\ writer # NoWriter /\ ~inside => \E r \in Shared : holds[r] > 0
  /\ \A r \in Shared : pc[r] # "idle" => r \in queue

\* The only way for the router to hang: a lister holds the lock and waits,
\* behind a writer, for holding it twice.
HangsByNestingOnly ==
  Stuck => \E g \in Listers : pc[g] = "asking" /\ holds[g] = 1 /\ g \in queue

\* Every call of a method of the router returns (AvailableProviders "returns
\* a list of registered and healthy providers").
EveryCallReturns == \A g \in Goroutines : pc[g] # "idle" ~> pc[g] = "idle"
=============================================================================
