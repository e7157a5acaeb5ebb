---------------------------- MODULE PromptBudget ----------------------------
(***************************************************************************)
(* What is left out of a prompt that is too long: TruncateBundle and the   *)
(* templates of internal/correlator/prompts, and Build of                  *)
(* internal/correlator/prompt, each with a limit and an order of its own.  *)
(*                                                                         *)
(* A value is the sequence of the lengths of its lines (of its items, for  *)
(* the JSON array of the upstream services): all that the code asks of it. *)
(* Names, numbers and the fixed text of the prompts are left out, but for  *)
(* the length of what Build writes around its fields.  The code keeps      *)
(* nothing from one call to the next: a behaviour is one bundle, of which  *)
(* any prompts are built, or one context.                                  *)
(***************************************************************************)
EXTENDS Naturals, SequencesExt

CONSTANTS
  Bundles,    \* the data that TruncateBundle is called with
  Contexts,   \* the fields of an AnomalyContext, as far as they are long
  Providers,  \* the names a truncator is made for
  Codes,      \* the incident codes
  Frame,      \* characters of the prompt of an AnomalyContext without a field
  Heading     \* characters that come with each of its fields

\* A bundle is a map of any fields; an AnomalyContext has a type of its own.
ASSUME PromptAssumption ==
  /\ \A d \in Bundles : d \in [DOMAIN d -> Seq(Nat)]
  /\ Contexts \subseteq [PodLogs : Seq(Nat), UpstreamMetrics : Seq(Nat),
                         MetricsJSON : Seq(Nat), K8sEvents : Seq(Nat)]
  /\ Bundles \cap Contexts = {}

VARIABLES
  given,   \* the data of the latest call
  limit,   \* the characters that may be used, in that call
  kept,    \* the data that is left
  prompt   \* the fields of `kept' that the prompt made of them shows

promptVars == <<given, limit, kept, prompt>>

Size(v) == IF v = <<>> THEN 0 ELSE FoldLeft(+, Len(v) - 1, v)
Total(d) == MapThenSumSet(LAMBDA key : Size(d[key]), DOMAIN d)

First(v, n) == SubSeq(v, 1, n)
Newest(v, n) == IF Len(v) <= n THEN v ELSE SubSeq(v, Len(v) - n + 1, Len(v))
-----------------------------------------------------------------------------
(***************************************************************************)
(* The truncator.                                                          *)
(***************************************************************************)

MaxTokensForProvider(provider) ==
  CASE provider = "gemini" -> 1000000
    [] provider = "anthropic" -> 200000
    [] provider = "openai" -> 128000
    [] OTHER -> 32000

Series == <<"memory_rss_timeseries_json", "requests_per_second_timeseries">>
Dependencies == <<"network_calls_json", "dns_query_sample_json", "external_domains_json">>
Metrics == <<"syscall_sequence_json", "metrics_json">>
Cuttable == Series \o Dependencies \o Metrics

\* A fifth at each end; 19 and 15 are the lengths of the markers.
Ends(v) ==
  LET fifth == Len(v) \div 5 IN First(v, fifth) \o <<19>> \o Newest(v, fifth)

\* A long series keeps its ends, any other long value its start.
Cut(key, v) ==
  CASE Contains(Series, key) -> IF Len(v) > 20 THEN Ends(v) ELSE v
    [] Contains(Dependencies, key) -> IF Size(v) > 500 THEN <<500 + 15>> ELSE v
    [] Contains(Metrics, key) -> IF Size(v) > 300 THEN <<300 + 15>> ELSE v

\* One pass of the loops of steps 2 to 4.  Mutant: what was cut before is not
\* counted.
CutIfOver_Regardless(d, key, max) ==
  IF key \in DOMAIN d THEN [d EXCEPT ![key] = Cut(key, @)] ELSE d
CutIfOver(d, key, max) ==
  IF key \in DOMAIN d /\ Total(d) > max THEN [d EXCEPT ![key] = Cut(key, @)] ELSE d

\* Step 1: the oldest lines go while there are more than 10 of them.
DropLogs(d, max) ==
  LET Without(n) == [d EXCEPT !["pod_logs"] = SubSeq(@, n + 1, Len(@))]
      Goes(n) == Len(d["pod_logs"]) > n + 10 /\ Total(Without(n)) > max
  IN  IF "pod_logs" \notin DOMAIN d THEN d
      ELSE Without(CHOOSE n \in 0 .. Len(d["pod_logs"]) :
                     ~Goes(n) /\ \A m \in 0 .. n - 1 : Goes(m))

\* Steps 2 to 4, one field after the other.
CutSeries(d, max) ==
  CutIfOver(CutIfOver(d, Series[1], max), Series[2], max)
CutDependencies(d, max) ==
  CutIfOver(CutIfOver(CutIfOver(d, Dependencies[1], max), Dependencies[2], max),
            Dependencies[3], max)
CutMetrics(d, max) ==
  CutIfOver(CutIfOver(d, Metrics[1], max), Metrics[2], max)

Truncated(data, max) ==
  CutMetrics(CutDependencies(CutSeries(DropLogs(data, max), max), max), max)

TruncateBundle(provider, data) ==
  /\ given = <<>>
  /\ given' = data
  /\ limit' = 4 * MaxTokensForProvider(provider)
  /\ kept' = Truncated(data, limit')
  /\ prompt' = {}
-----------------------------------------------------------------------------
(***************************************************************************)
(* The templates: the long fields that each has a place for.               *)
(***************************************************************************)

oomKillTemplate ==
  {"memory_rss_timeseries_json", "k8s_events_json", "pod_logs", "sibling_pods_killed_json"}
memoryLeakTemplate == {"memory_rss_timeseries_json", "k8s_events_json", "pod_logs"}
nodeMemPressureTemplate ==
  {"pods_by_rss_json", "top_consumers_json", "besteffort_pods", "burstable_pods"}

cfsThrottleTemplate == {"requests_per_second_timeseries"}
noisyNeighborTemplate == {"victim_pods_json"}
nodeCPUTemplate == {"top_cpu_pods_json"}

dnsNdotsTemplate == {"dns_query_sample_json", "external_domains_json"}
mtuMismatchTemplate == {"xdp_drops_json"}
conntrackTemplate == {"top_connection_pods_json"}

crashLoopTemplate ==
  {"network_calls_json", "syscall_sequence_json", "k8s_events_json", "pod_logs"}

etcdIOTemplate == {"active_deployments", "hpa_events", "crd_modifications"}
webhookTimeoutTemplate == {"webhook_configs_json", "webhook_endpoint_status_json"}

genericTemplate == {"metrics_json", "k8s_events_json", "pod_logs"}

Template(code) ==
  CASE code \in {"MEM-001", "MEM-002"} -> oomKillTemplate
    [] code \in {"MEM-003", "MEM-004"} -> memoryLeakTemplate
    [] code = "MEM-005" -> nodeMemPressureTemplate
    [] code \in {"MEM-006", "CPU-006"} -> {}  \* numbers alone
    [] code = "CPU-001" -> cfsThrottleTemplate
    [] code = "CPU-002" -> noisyNeighborTemplate
    [] code = "CPU-003" -> nodeCPUTemplate
    [] code = "NET-001" -> dnsNdotsTemplate
    [] code = "NET-003" -> mtuMismatchTemplate
    [] code = "NET-007" -> conntrackTemplate
    [] code = "APP" -> crashLoopTemplate
    [] code = "CTL-001" -> etcdIOTemplate
    [] code = "CTL-003" -> webhookTimeoutTemplate
    [] OTHER -> genericTemplate

\* Builder.Build: a field that the data lacks stays a placeholder.
BuilderBuild(code) ==
  /\ given \in Bundles
  /\ prompt' = Template(code) \cap DOMAIN kept
  /\ UNCHANGED <<given, limit, kept>>
-----------------------------------------------------------------------------
(***************************************************************************)
(* Build of internal/correlator/prompt.                                    *)
(***************************************************************************)

MaxTokens == 4096

\* An AnomalyContext: its logs, and its other fields; absent is empty.
buildFullPrompt(ctx) ==
  Frame + MapThenSumSet(LAMBDA f : IF ctx[f] = <<>> THEN 0 ELSE Heading + Size(ctx[f]),
                        DOMAIN ctx)

Fits(ctx) == buildFullPrompt(ctx) \div 4 <= MaxTokens

truncateLogs(ctx, n) == [ctx EXCEPT !.PodLogs = Newest(@, n)]
truncateJSON(ctx, n) ==
  [ctx EXCEPT !.UpstreamMetrics = First(@, IF Len(@) <= n THEN Len(@) ELSE n)]

\* A prompt that is too long is built again, with ever less of its context.
Phases(ctx) ==
  <<ctx, truncateLogs(ctx, 10), truncateLogs(ctx, 5), truncateLogs(ctx, 0),
    truncateJSON(truncateLogs(ctx, 0), 2)>>

\* The first that fits, or the last.
Reduced(ctx) ==
  LET fitting == {i \in 1 .. 5 : Fits(Phases(ctx)[i])}
  IN  Phases(ctx)[Min(fitting \cup {5})]

Build(ctx) ==
  /\ given = <<>>
  /\ given' = ctx
  /\ limit' = 4 * MaxTokens + 3
  /\ kept' = Reduced(ctx)
  /\ prompt' = DOMAIN ctx
-----------------------------------------------------------------------------
PromptTypeOK ==
  /\ given \in Bundles \cup Contexts \cup {<<>>}
  /\ limit \in Nat
  /\ DOMAIN kept = DOMAIN given
  /\ \A key \in DOMAIN kept : kept[key] \in Seq(Nat)
  /\ prompt \subseteq DOMAIN given

PromptInit ==
  /\ given = <<>>
  /\ limit = 0
  /\ kept = <<>>
  /\ prompt = {}

PromptNext ==
  \/ \E p \in Providers, d \in Bundles : TruncateBundle(p, d)
  \/ \E c \in Codes : BuilderBuild(c)
  \/ \E ctx \in Contexts : Build(ctx)

PromptSpec == PromptInit /\ [][PromptNext]_promptVars
-----------------------------------------------------------------------------
IsContext == given \in Contexts

Over(d) == IF IsContext THEN ~Fits(d) ELSE Total(d) > limit

\* What may be cut, in the order in which it goes, and whether it all has.
Order == IF IsContext THEN <<"PodLogs", "UpstreamMetrics">> ELSE <<"pod_logs">> \o Cuttable
Spent(key) ==
  CASE key = "PodLogs" -> kept[key] = <<>>
    [] key = "UpstreamMetrics" -> Len(kept[key]) <= 2
    [] key = "pod_logs" -> Len(kept[key]) <= 10
    [] OTHER -> kept[key] = Cut(key, given[key])

\* The data as it is when the field at place i of the order is to go.
Before(i) ==
  [key \in DOMAIN given |->
     IF \E j \in 1 .. i - 1 : Order[j] = key THEN kept[key] ELSE given[key]]
OneMoreLine ==
  [given EXCEPT !["pod_logs"] = Newest(@, Len(kept["pod_logs"]) + 1)]

\* "Truncation priority" (truncator.go, template.go): the least useful goes
\* first, and no more than must.  A field is cut only where all before it in the
\* order are spent and the rest does not fit; logs lose no line that there was
\* room for; Kubernetes events are never cut; and while anything in the order
\* has something to give, the prompt fits.  Nothing is said of two places where
\* the code does less than its comments: the window of the metrics, which
\* template.go:30 says is reduced next to the logs and Build leaves whole, and a
\* prompt that is too long with everything spent, which truncator.go:30 excludes.
PromptsAreCutInOrder ==
  /\ \A key \in DOMAIN given \ {"MetricsJSON"} :
       kept[key] # given[key] =>
         \E i \in DOMAIN Order :
           /\ Order[i] = key /\ Over(Before(i))
           /\ \A j \in 1 .. i - 1 : Order[j] \in DOMAIN given => Spent(Order[j])
           /\ key = "pod_logs" => Over(OneMoreLine)
  /\ (\E key \in ToSet(Order) \cap DOMAIN given : ~Spent(key)) => ~Over(kept)
=============================================================================
