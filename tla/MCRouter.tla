------------------------------ MODULE MCRouter ------------------------------
(***************************************************************************)
(* The correlator for TLC.  The LLM router: its lock, with goroutines of   *)
(* all three kinds, and its circuit breaker, where the lock is taken for   *)
(* granted.  What goes to a model and what comes back: the length of the   *)
(* prompts, the answers in JSON and the answers in numbered lines.  These  *)
(* are separate views of one program: a behaviour is one of any.           *)
(***************************************************************************)
EXTENDS RouterLocks, LLMRouter, PromptBudget, Answers, NumberedLines

VARIABLE part

ASSUME BreakerAssumption == RouterAssumption

\* An emergency of the special type: SelectProvider asks about OpenAI, Claude,
\* OpenAI once more, and Ollama.
MCRequests == {<<"P0", TRUE>>}

\* Data of which each field may be absent, short or too long, for 128,000
\* characters and for 512,000; one that grows when it is cut; and two that
\* nothing cuts.
Of(n, length) == [i \in 1 .. n |-> length]
Maybe(key, values) == {<<>>} \cup {key :> v : v \in values}
MCBundles ==
  {a @@ b @@ c @@ d @@ e @@ ("k8s_events_json" :> <<9000>>) :
     a \in Maybe("pod_logs", {Of(12, 9000), Of(11, 45000)}),
     b \in Maybe("requests_per_second_timeseries", {Of(20, 1500), Of(21, 3000)}),
     c \in Maybe("network_calls_json", {<<510>>, <<60000>>}),
     d \in Maybe("metrics_json", {<<20000>>}),
     e \in Maybe("victim_pods_json", {<<120000>>})}

MCContexts ==
  [PodLogs : {Of(n, 1000) : n \in {0, 5, 7, 11, 14}},
   UpstreamMetrics : {Of(n, 1500) : n \in {0, 2, 5}},
   MetricsJSON : {<<>>, <<5000>>, <<11000>>},
   K8sEvents : {<<>>, <<6000>>}]

allVars == <<vars, breakerVars, promptVars, answerVars, lineVars, part>>

PartsInit ==
  /\ part \in {"locks", "breaker", "prompts", "answers", "lines"}
  /\ Init
  /\ BreakerInit
  /\ PromptInit
  /\ AnswerInit
  /\ LinesInit

LockStep(A) ==
  /\ part = "locks" /\ A
  /\ UNCHANGED <<breakerVars, promptVars, answerVars, lineVars, part>>
BreakerStep(A) ==
  /\ part = "breaker" /\ A
  /\ UNCHANGED <<vars, promptVars, answerVars, lineVars, part>>
PromptStep ==
  /\ part = "prompts" /\ PromptNext
  /\ UNCHANGED <<vars, breakerVars, answerVars, lineVars, part>>
AnswerStep ==
  /\ part = "answers" /\ AnswerNext
  /\ UNCHANGED <<vars, breakerVars, promptVars, lineVars, part>>
LineStep ==
  /\ part = "lines" /\ LinesNext
  /\ UNCHANGED <<vars, breakerVars, promptVars, answerVars, part>>

PartsNext ==
  \/ LockStep(Next) \/ BreakerStep(BreakerNext)
  \/ PromptStep \/ AnswerStep \/ LineStep

\* Fairness as in LLMRouter (time passes), and as in RouterLocks.
PartsSpec ==
  PartsInit /\ [][PartsNext]_allVars /\ WF_allVars(BreakerStep(Tick))

LocksSpec ==
  /\ PartsInit /\ [][PartsNext]_allVars
  /\ \A g \in Goroutines : /\ WF_allVars(LockStep(Step(g)))
                           /\ SF_allVars(LockStep(WriterIsNext(g)))

\* The state of every view has its type.
PartsTypeOK ==
  /\ TypeOK /\ BreakerTypeOK
  /\ PromptTypeOK /\ AnswerTypeOK /\ LinesTypeOK
=============================================================================
