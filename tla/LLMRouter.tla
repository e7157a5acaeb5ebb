------------------------------ MODULE LLMRouter ------------------------------
(***************************************************************************)
(* The provider router of internal/correlator/llm/router.go, with the      *)
(* analysis workers that call it.                                          *)
(*                                                                         *)
(* SelectProvider asks isProviderHealthy about one provider after another; *)
(* each question takes the lock for itself, so failures and successes of   *)
(* other workers are recorded between two of them.  The worker then calls  *)
(* the provider it was given and reports how that went.                    *)
(*                                                                         *)
(* A time stamp is its age in ticks, which stops at Window; a failure      *)
(* count stops at Threshold: the code tells later ages and higher counts   *)
(* apart in its log only.                                                  *)
(***************************************************************************)
EXTENDS Naturals, Sequences

CONSTANTS Workers,          \* goroutines that analyse incidents
          Requests,         \* the <<severity, is it APP_CRASH>> they handle
          Registered,       \* the providers RegisterClient is called for
          DefaultProvider,  \* RouterConfig.DefaultProvider
          Threshold,        \* failures that open the circuit (3)
          Window            \* five minutes, in ticks

Cloud == {"claude", "gemini", "openai"}
Provider == Cloud \cup {"ollama"}
Severity == {"P0", "P1", "P2", "P3", "P4"}

\* What the code and its configuration fix.
RouterAssumption ==
  /\ Requests \subseteq Severity \X BOOLEAN
  /\ Registered \subseteq Provider
  /\ DefaultProvider \in Provider
  /\ {Threshold, Window} \subseteq Nat \ {0}

VARIABLES
  BYOCMode,  \* RouterConfig.BYOCMode, fixed when the router is created
  clients,   \* the providers that have a client
  failures,  \* consecutive failures of each provider, as the router counts
  lastFail,  \* time since the last failure of each provider
  todo,      \* the providers the worker's SelectProvider has yet to ask about
  chosen,    \* the provider the worker was given, until it reports
  outcomes   \* the latest Threshold reports on each provider, oldest first

breakerVars == <<BYOCMode, clients, failures, lastFail, todo, chosen, outcomes>>

None == "none"
Age == 0 .. Window
Report == [ok : BOOLEAN, age : Age]

BreakerTypeOK ==
  /\ BYOCMode \in BOOLEAN
  /\ clients \subseteq Registered
  /\ failures \in [Provider -> 0 .. Threshold]
  /\ lastFail \in [Provider -> Age]
  /\ todo \in [Workers -> Seq(Provider)]
  /\ chosen \in [Workers -> Provider \cup {None}]
  /\ outcomes \in [Provider -> Seq(Report)]
  /\ \A p \in Provider : Len(outcomes[p]) <= Threshold
-----------------------------------------------------------------------------
\* The providers SelectProvider asks about, in order.
BySeverity(s) ==
  CASE s = "P0" -> <<"claude", "openai">>
    [] s = "P1" -> <<"claude", "gemini">>
    [] s = "P2" -> <<"gemini", "claude">>
    [] s \in {"P3", "P4"} -> <<"gemini">>

ForCrash(crash) == IF crash THEN <<"openai">> ELSE <<>>

Chain(s, crash) == ForCrash(crash) \o BySeverity(s) \o <<"ollama">>

\* The circuit breaker of isProviderHealthy.  Mutant: an open circuit is
\* never tried again.
Open_Latched(p) == failures[p] >= Threshold
Open(p) == failures[p] >= Threshold /\ lastFail[p] < Window

\* Mutant: the circuit of a provider is not consulted.
isProviderHealthy_NoBreaker(p) == p \in clients
isProviderHealthy(p) == p \in clients /\ ~Open(p)

Idle(w) == chosen[w] = None /\ todo[w] = <<>>

Give(w, p) == chosen' = [chosen EXCEPT ![w] = p]

BreakerUnchanged == UNCHANGED <<BYOCMode, clients, failures, lastFail, outcomes>>
-----------------------------------------------------------------------------
BreakerInit ==
  /\ BYOCMode \in BOOLEAN
  /\ clients = {}
  /\ failures = [p \in Provider |-> 0]
  /\ lastFail = [p \in Provider |-> Window]
  /\ todo = [w \in Workers |-> <<>>]
  /\ chosen = [w \in Workers |-> None]
  /\ outcomes = [p \in Provider |-> <<>>]

RegisterClient(p) ==
  /\ p \in Registered \ clients
  /\ clients' = clients \cup {p}
  /\ UNCHANGED <<BYOCMode, failures, lastFail, todo, chosen, outcomes>>

\* SelectProvider begins.
SelectProvider(w, s, crash) ==
  /\ Idle(w)
  /\ IF BYOCMode
     THEN Give(w, "ollama") /\ UNCHANGED todo
     ELSE todo' = [todo EXCEPT ![w] = Chain(s, crash)] /\ UNCHANGED chosen
  /\ BreakerUnchanged

\* One answer of isProviderHealthy.  After the last one in the negative
\* SelectProvider returns the default provider, whatever its state.
AskHealthy(w) ==
  /\ todo[w] # <<>>
  /\ LET p == Head(todo[w])
         rest == Tail(todo[w])
     IN  IF isProviderHealthy(p)
         THEN /\ Give(w, p)
              /\ todo' = [todo EXCEPT ![w] = <<>>]
         ELSE /\ todo' = [todo EXCEPT ![w] = rest]
              /\ IF rest = <<>> THEN Give(w, DefaultProvider)
                 ELSE UNCHANGED chosen
  /\ BreakerUnchanged

\* GetClient finds no client: the worker has nothing to report.
GetClientFails(w) ==
  /\ chosen[w] \in Provider \ clients
  /\ Give(w, None)
  /\ UNCHANGED todo
  /\ BreakerUnchanged

Least(m, n) == IF m <= n THEN m ELSE n

\* The record of reports that the properties refer to.  When a success was
\* reported does not matter.
Latest(all) == SubSeq(all, Len(all) - Least(Len(all), Threshold) + 1, Len(all))

NewReport(ok) == [ok |-> ok, age |-> IF ok THEN Window ELSE 0]

Log(p, ok) == outcomes' = [outcomes EXCEPT ![p] = Latest(Append(@, NewReport(ok)))]

\* The age of lastFail after RecordFailure.  Mutant: only the first of a run
\* of failures is stamped.
FailedAt_First(p) == IF failures[p] = 0 THEN 0 ELSE lastFail[p]
FailedAt(p) == 0

\* The worker called the provider in vain, and RecordFailure.
RecordFailure(w) ==
  /\ chosen[w] \in clients
  /\ LET p == chosen[w] IN
     /\ failures' = [failures EXCEPT ![p] = Least(@ + 1, Threshold)]
     /\ lastFail' = [lastFail EXCEPT ![p] = FailedAt(p)]
     /\ Log(p, FALSE)
  /\ Give(w, None)
  /\ UNCHANGED <<BYOCMode, clients, todo>>

\* What RecordSuccess leaves of the failure count.  Mutant: one less.
AfterSuccess_Decays(n) == n - 1
AfterSuccess(n) == 0

\* The provider answered the worker, and RecordSuccess.
RecordSuccess(w) ==
  /\ chosen[w] \in clients
  /\ failures' = [failures EXCEPT ![chosen[w]] = AfterSuccess(@)]
  /\ Log(chosen[w], TRUE)
  /\ Give(w, None)
  /\ UNCHANGED <<BYOCMode, clients, lastFail, todo>>

Older(n) == Least(n + 1, Window)

Tick ==
  /\ lastFail' = [p \in Provider |-> Older(lastFail[p])]
  /\ outcomes' = [p \in Provider |-> [k \in DOMAIN outcomes[p] |->
                    [outcomes[p][k] EXCEPT !.age = Older(@)]]]
  /\ UNCHANGED <<BYOCMode, clients, failures, todo, chosen>>

BreakerNext ==
  \/ \E p \in Provider : RegisterClient(p)
  \/ \E w \in Workers, r \in Requests : SelectProvider(w, r[1], r[2])
  \/ \E w \in Workers : AskHealthy(w) \/ GetClientFails(w)
                        \/ RecordFailure(w) \/ RecordSuccess(w)
  \/ Tick

BreakerSpec == BreakerInit /\ [][BreakerNext]_breakerVars

\* Time passes; nobody is obliged to do anything.
FairBreakerSpec == BreakerSpec /\ WF_breakerVars(Tick)
-----------------------------------------------------------------------------
\* "3+ consecutive failures in the last 5 minutes" (isProviderHealthy): what
\* workers wrote in any order keeps a circuit open on nothing less than
\* Threshold failures in a row, the last of them recent, and when all of them
\* are recent it is open.  Nothing is said of failures further apart than the
\* window, of which the router dates the last only.
BreakerTracksReports ==
  \A p \in Provider :
    LET o == outcomes[p]
        allFailed == Len(o) = Threshold /\ \A k \in 1 .. Threshold : ~o[k].ok
    IN  /\ Open(p) => allFailed /\ o[Threshold].age < Window
        /\ allFailed /\ (\A k \in 1 .. Threshold : o[k].age < Window) => Open(p)

Callers(p) == {w \in Workers : chosen[w] = p}

\* SelectProvider returns these without a question: the default, and in BYOC
\* mode Ollama.
Unasked == {DefaultProvider} \cup {p \in {"ollama"} : BYOCMode}

\* An open circuit sheds its load: whatever questions are under way, nobody
\* joins the callers of the provider until it closes, unless SelectProvider
\* returns it unasked.
OpenCircuitShedsLoad ==
  [][\A p \in Provider \ Unasked :
       Open(p) => Callers(p)' \subseteq Callers(p)]_breakerVars

\* "Circuit breaker will auto-recover in 5 min" (docs/troubleshooting.md):
\* the late failures of those who called before the circuit opened extend it,
\* but not for ever.
AutoRecovers ==
  \A p \in Provider : (Open(p) /\ p \notin Unasked) ~> ~Open(p)
=============================================================================
