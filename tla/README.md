# A TLA+ model of KernelView

KernelView watches a Kubernetes cluster with eBPF programs, classifies what it
sees into incidents, asks a language model for the root cause, and either
remediates or pages a human. This directory holds TLA+ modules translated from
the repository's source, the TLC configurations that check them on small
instances, and theorems that TLAPS checks for every instance.

## The system

| Part | Code | State it keeps | Operations | What is hard |
|---|---|---|---|---|
| BPF programs | `bpf/*.c` | per-CPU and hash maps, ring buffers | kprobes and tracepoints on every node | maps at capacity, stale entries of closed sockets, non-atomic counters, wrap-around |
| Agent loader | `internal/agent/bpf` | loaded programs, links, the ring reader | `LoadProgram`, `ReadEvents`, `Close` | one step of several failing, resources overwritten |
| Agent stream | `internal/agent/stream` | event channel, batch | consume, drain, send | batching against cancellation, loss at shutdown |
| Metadata resolver | `internal/agent/metadata` | PID and cgroup caches | `Resolve`, `UpdateFromKubernetes`, `Invalidate` | read, unlock, fill; a stale fill after an invalidation |
| Cgroup controller | `internal/agent/cgroup` | the kernel's cgroup files | `Throttle`, `ReadCPULimit` | parsing and rounding |
| Collector ingest | `internal/collector/ingest` | handler list | gRPC stream, dispatch | handlers run under a read lock |
| Anomaly engine | `internal/collector/anomaly` | windows per service and per node | `Record*`, `CheckLatencyAnomaly` | sliding windows, consecutive counters, learning period |
| Classifier | `internal/collector/classifier` | none | `Classify` | the order of the rules; a registry that repeats their conditions |
| Trace store | `internal/collector/store`, `internal/collector/api` | BadgerDB | `StoreTrace`, `QueryTraces`, `handleTraces` | key order, range ends, limit; traces stored or expiring during a query |
| LLM router | `internal/correlator/llm` | clients, failure counts | `SelectProvider`, `RecordFailure`, `RecordSuccess`, `AvailableProviders` | circuit breaker, several lock acquisitions per decision |
| Prompts and parsing | `internal/correlator/prompt*`, `internal/correlator/llm` | none | build, truncate, `Correlate`, parse | limits in two packages, answers cut off or wrapped, text matching |
| Safety rules | `internal/operator/safety` | actions per pod | `Evaluate`, `RecordAction` | check then act |
| Escalation engine | `internal/escalation/engine.go` | incidents, their state and timeline | `CreateIncident`, `Transition`, `CheckTimeouts` | deadlines racing with answers, failing channels, reused ids |
| Alert suppressor | `internal/escalation/suppressor.go` | time windows per service | `Record*`, `ShouldSuppress` | windows, trimming, thresholds |
| Ownership router, channels, postmortem | `internal/escalation` | digest buffer | `ResolveOwner`, `Send`, `FlushDigest` | precedence of owners, a buffer shared without a lock |

The commands under `cmd/` wire these together only in part: the agent runs its
stream and heartbeat, the collector its gRPC server, and the correlator and the
operator are stubs. No code calls `CheckTimeouts`, the safety engine, the LLM
router or the suppressor, so how often and by whom they are called is an
assumption of the models, stated where it is made.

### How the parts interact

- On a node, the BPF programs write events into ring buffers; the agent's
  loader opens a reader, the stream client's consumer goroutine appends what it
  reads to a batch, and a ticker drains the batch to the collector. The
  resolver is handed to the stream client, which never calls it.
- In the collector, the gRPC handlers dispatch events to registered handlers;
  the anomaly engine calls back on an anomaly, with its mutex held; the
  classifier is a pure function of the snapshot it is given.
- The correlator selects a language model with the router, calls it through a
  client and reports the outcome back to the router. Workers share the router.
- The escalation engine owns the incident. It calls its channels from inside
  `Transition` and `CheckTimeouts`, with its mutex held; the suppressor and the
  ownership router are consulted by callers.
- The safety engine is consulted before an action and told after it; the two
  calls are separate, and so is the lock each takes.

### What makes each part correct

| Part | Properties |
|---|---|
| Escalation engine | the record explains the state; no page without context; a paged incident is never handed back and never closed unacknowledged; every entry into ESCALATED pages every channel, whichever fail; no incident stays with the automation |
| Safety rules | at most three actions per pod and hour, and as many more for each restart; a bounded history |
| LLM router | the breaker is open only after three failures in a row, the last within five minutes, and open when all are; an open circuit gains no callers and closes; every call returns |
| Suppressor | trimming changes no decision; urgent incidents are silenced by three rules only; a silence has a cause of its own service, or a cascade; every silence ends |
| Digest | every accepted incident is in the buffer or in one digest, but for what an overlap of the two methods can cost |
| Resolver | the cache is what serial calls would have built; no entry outlives its PID |
| Agent's event path | no event lost, repeated or reordered; every event gets out; every ring is read |
| Anomaly engine | the latency baseline is the recent window, whenever it was last used; an alarm is a spike over every fresh sample, and none is raised while learning; a silent service is forgotten; a noisy pod has stood out from the others all the while |
| Error rate | an observation is judged by the others of its window, however late the average was pruned |
| Classifier | one incident, of the first type in order that the registry names a signal for; none is missed |
| Trace store | the answer to a query is one moment of the store: the traces of the period and service, oldest first, up to the limit |
| HTTP tracing | a latency pairs a response with its own request |
| Kernel counters | every call is counted, unless two CPUs meet or the map is full, and however they meet once the entry is settled |
| Prompts | a prompt loses no more than it must, the least useful first |
| Answers | a result claims no more than the answer says; an UNSAFE is heard |
| Ownership router (not modelled) | the most specific owner wins |
| Cgroup controller (not modelled) | a throttle is restored to the limit that was read |

## The modules

| Module | Models | State and actions |
|---|---|---|
| `Escalation` | `internal/escalation/engine.go` | `incidents` is the map, `state`, `timeline`, `resolvedAt`, ... the fields of the objects it points to; `CreateIncident`, `Transition` (with `TransitionRefused` for its error returns) and `CheckTimeouts` are the methods, one step each because each holds the mutex throughout; `delivered` and `failed` are what the channels' `Send` came to |
| `IncidentLifecycle` | what the engine promises | each incident is unborn, automated, human or closed, and pages are counted |
| `EscalationRefinement` | the mapping between the two | `phase` from `state` and `created` |
| `SafetyRules` | `internal/operator/safety/rules.go` and the workers around it | a worker evaluates (`Evaluate`), acts (`Execute`, external), records (`RecordAction`); the rules keep the names of their functions; `Restart` empties the history, which is kept in memory |
| `LLMRouter` | `internal/correlator/llm/router.go`: selection and breaker | `SelectProvider` begins a chain of `AskHealthy` steps, one per lock acquisition; `RecordFailure` and `RecordSuccess` are the reports |
| `RouterLocks` | the same file's use of `sync.RWMutex` | goroutines that write, read, or list (`AvailableProviders`), and the lock itself (external) |
| `Suppressor` | `internal/escalation/suppressor.go` | the four recording methods are actions, `ShouldSuppress` is a state function: it changes nothing |
| `EmailDigest` | `internal/escalation/channels/email.go` | the buffer read and written by `Send` and by `FlushDigest`, two steps each, as no lock orders them; incidents are followed into the digest that is composed and no further, as the code mails nothing |
| `MetadataResolver` | `internal/agent/metadata/resolver.go` | a missing `Resolve` is three steps (look-up, `/proc`, fill), the informer's calls one each; PIDs start, end and are reused (external) |
| `AgentEvents` | `internal/agent/bpf/loader.go`, `internal/agent/stream/client.go`, `cmd/agent/main.go` | loading object by object, the two goroutines of the stream client, the signal and the close |
| `LatencyAnomaly` | `internal/collector/anomaly/engine.go`: `RecordLatency`, `CheckLatencyAnomaly`, `RollingPercentile` | the ring of buckets, turned by `Advanced` wherever the code calls `advance`; one service, as the engine's maps never relate two |
| `NoisyNeighbor` | the same file: `RecordSyscallRate`, `NodeSyscallStats` | the latest rate of each pod of a node and its count of loud observations; the comparison with mean + 3 sigma in integers |
| `ErrorRate` | the same file: `RecordErrorRate`, `RollingAverage` | every observation made, and where the kept ones begin; the average that contains the observation, compared without division |
| `Classifier` | `internal/collector/classifier` | a snapshot as the set of thresholds it exceeds and flags it has; the families as sequences of rules (`MemoryRules`, ...), the `Registry` as a set of its own; `Classify` runs on every step |
| `TraceStore` | `internal/collector/store/badger.go`, `handleTraces` of `internal/collector/api/server.go` | `db` by key, with the moment each trace dies; `HandleTraces` opens the transaction, `QueryTraces` is one turn of its loop, so that stores and expiries fall in between (BadgerDB is external) |
| `HttpTrace` | `bpf/http_trace.c` | the two maps and the sampling counter; each hook in as many steps as it changes maps, the thread of each socket (external) that calls them |
| `KernelCounters` | `bpf/syscall_rate.c`, `bpf/cfs_throttle.c`, `bpf/dns_trace.c` | look-up, addition (at once, or a load and a store) and insertion as steps of each CPU; the elements of the map, which an insertion over an entry replaces and later ones reuse (the kernel's hash map, external); a per-CPU map is updated in place |
| `PromptBudget` | `internal/correlator/prompts` (truncator, builder, templates), `Build` of `internal/correlator/prompt` | a value as the lengths of its lines; one operator for each step of the truncator (`DropLogs`, `CutSeries`, ...), in its order |
| `Answers` | `Correlate` of the four clients in `internal/correlator/llm`, `parseCorrelationJSON` | one call: any reply that the request allows, and the result made of it |
| `NumberedLines` | `Parse` of `internal/correlator/prompt/template.go` | `ReadLine` is one turn of its loop |
| `MCEscalation`, `MCSafetyRules`, `MCRouter`, `MCAlerting`, `MCAgent`, `MCCollector` | nothing of the code | instances for TLC |
| `EscalationProofs`, `SafetyProofs`, `RouterProofs`, `AlertingProofs`, `HookProofs`, `AgentProofs`, `TraceProofs`, `CollectorProofs` | nothing of the code | theorems; those about a part of an `MC` module extend that module, so that they are about the formulas its run checks |

`MCRouter`, `MCAlerting`, `MCAgent` and `MCCollector` each check parts that
share no state: `MCRouter` the lock, the breaker it protects, prompts, answers
in JSON and answers in lines; `MCAgent` the resolver (two ways of bounding it),
the event path, the HTTP capture and the counters (two ways of bounding them);
`MCCollector` the three detectors, the classifier and the trace store. A
variable `part`, chosen at the start, says which of them the behaviour is one
of, so that a run has the sum of their states and not the product; nothing is
lost, since no part can see another.

Time is discrete. A time stamp is modelled by its age in ticks, and an age
stops counting where the code stops telling ages apart. Which calls fall
before, on and after a deadline is then a matter of interleaving, and every
interleaving is explored.

These variables have no counterpart in the code and only record what the
properties speak of: `pages`, `delivered` and `failed` of `Escalation`,
`status` and `actedAge` of `SafetyRules`, `outcomes` of `LLMRouter`, `log` of
`Suppressor`, `accepted`, `digested`, `caught` and `held` of `EmailDigest`,
`serial`, `overtaken` and `ever` of `MetadataResolver`, `taken`, `opened` and
`sent` of `AgentEvents`, `log` and `alarm` of `LatencyAnomaly`, `noisy` and
`stood` of `NoisyNeighbor`, `observed` before `first` and `raised` of
`ErrorRate`, `query.snapshot` after the query of `TraceStore`, `request`,
`left` and `event` of `HttpTrace`, `fired`, `met` and `refused` of
`KernelCounters`, `given` and `limit` of `PromptBudget`, `reply` of `Answers`.

## The runs

| Run | Instance | What it shows | Why the bounds are enough |
|---|---|---|---|
| `escalation_one` | 1 incident, 2 channels, 11 events; 2 k states | record, pages and closing of an incident agree over every life it can have; every channel is called | the longest path through the table without a cycle has 10 events, and the path through ESCALATED, ACKNOWLEDGED, ESCALATED again to the end fits in 11; two channels give all of partial failure |
| `escalation_two` | 2 incidents, 1 channel, 4 events; 19 k states | the engine implements `IncidentLifecycle`; a fair sweep takes every incident from the automation | one sweep that moves both incidents, one, or none; four events reach ESCALATED, and timeouts go on from there |
| `escalation_repage` | 1 incident | *violation*: an overdue ESCALATED incident is not paged again | |
| `safety_serial` | 3 actions of 1 worker, limit 1, 13 contexts, 1 restart; 337 k states | the limit counted from the last start, and over restarts; the bounded history | three actions exceed a limit of one twice; the contexts sit on both sides of every rule's boundary; two ticks an hour separate "within", "at" and "after" |
| `safety_concurrent` | 3 actions, 2 workers, limit 2 | *violation*: both workers find the last slot free | |
| `router` | breaker: 2 workers, Claude and OpenAI, an unregistered default, threshold 3; lock: 2 goroutines of each kind, 2 clients; 108 bundles, 90 contexts; every answer; 126 k states | the breaker's state, load shedding and recovery, under late reports; a hang always has the same cause; prompts are cut in order; nothing in a result is invented | the crash chain asks OpenAI twice and ends in the default; two workers are one caller inside an open circuit and one outside; two goroutines of each kind queue behind each other; two clients give a second nested acquisition; the fields of a bundle are absent, short or too long for 128,000 and for 512,000 characters, one grows when it is cut, and some bundles stay too long; the contexts end in each of the five phases; answers and lines are enumerated whole |
| `router_hang` | 1 writer, 1 lister | *violation*: a writer between the two read locks stops the router for good | |
| `answers_unsafe` | the answers in lines | *violation*: an answer that says UNSAFE is read as SAFE | |
| `alerting` | 2 services, 2 codes, 4 calls, thresholds 1; 3 digest incidents; 121 k states | see the properties | four calls exceed each threshold of one and leave a call for another rule; the four windows have different lengths |
| `agent` | 2 PIDs, 2 containers, 2 callers; 2 objects, 1 program, rings of 2, 3 events; 2 sockets, maps of 1, 1 event in 2; 3 CPUs, 3 cgroups, a map of 2 and its spares, 5 calls; 179 k states | the cache under races and reuse; the event path under failures and a shutdown; latencies of reused sockets; counters under races, replaced elements and a full map | two callers race on one PID, and one PID moves between containers two share; a ring of two fills, and a third event arrives after a drain; one socket finds the map full while the other is in it, and its second request meets what the first left; two CPUs that miss replace an entry that a third holds, the element becomes another cgroup's, and one cgroup finds no room (of three kinds of counter, two with a CPU and a call less, the syscalls also with all CPUs and one cgroup less) |
| `agent_rings` | as `agent` | *violation*: the ring of the first object is never read | |
| `collector` | latency: 3 buckets of 2 ticks, 3 samples; noise: 5 pods, 3 rates, sigma 1, 2 in a row; errors: 4 observations of 4 rates, a window of 2; types: 3 independent facts; traces: 2 stored, 3 moments, limits 1 and 2; 509 k states | see the properties | two ticks an interval leave a remainder to lose; three samples let the ring turn past a sample in more than one way; with sigma 1 three pods are the fewest that can be loud, five leave room on both sides, and two in a row let a quiet observation fall between; four observations outlive a window of two ticks in every order; three facts are enough for any two rules of at most two conditions to compete, and to exclude one; two traces fall on one key or two, on either end, and expire during the query |

Model bounds, none of which the code has: `MaxEvents` (length of a timeline;
events per ring), `MaxRestarts`, `MaxCalls`, `MaxSamples`, `MaxRates`,
`MaxFacts`, `MaxTime`, `MaxStored`, `MaxRequests`, `MaxFired`, and the finite
sets `Actions`, `Refs`, `Incidents`, `Bundles`, `Contexts`. The windows and
thresholds are constants of the modules, so the theorems hold for the code's
own values as for the runs' small ones.

Deadlock is checked in `escalation_*`, `safety_*` and `collector`. It is off in
`alerting` and `agent*`, where one part (the digest, an agent that has exited)
really stops, and in `router*` and `answers_unsafe`: there the hang of the
router is stated as a property instead, so that a run can say which hang it is,
and a prompt is an end.

`SYMMETRY` is used in the safety runs only (interchangeable actions, no
temporal property).

### Fairness

- `Escalation`: time passes (`WF Tick`) and `CheckTimeouts` keeps being called
  (`WF Sweep`). Nothing in the repository calls it, and deadlines of minutes
  mean nothing unless somebody does; that is the assumption. Nobody is
  obliged to call `Transition`.
- `LLMRouter`, `Suppressor`, `LatencyAnomaly`: time passes; no call need ever
  be made again.
- `RouterLocks`: a goroutine that can take its next step does (the scheduler);
  a writer that keeps finding the write lock free gets it (`SF`): a Go mutex
  hands over to a waiter that is starved.
- `AgentEvents`: the consumer goroutine, the ticker and the stream goroutine
  run. Connecting, signals and the kernel's events are not fair: a collector
  may stay away for ever.

### What the code does and its comments do not say

Each violation run is a difference between the code and what is written about
it; `PROJECT.json` quotes the line.

1. An ESCALATED or ACKNOWLEDGED incident that runs out of time has its clock
   restarted and pages nobody (`escalation_repage`).
2. The limit of three actions an hour is checked and recorded under separate
   locks (`safety_concurrent`).
3. `AvailableProviders` takes the read lock twice; with a writer in between
   the router stops (`router_hang`).
4. The loader keeps one ring reader, that of the last object loaded
   (`agent_rings`).
5. `Parse` looks for `SAFE` before it looks for `UNSAFE`, which contains it,
   and takes an answer that says UNSAFE, or one that echoes "safe:" before a
   NO, for SAFE (`answers_unsafe`).

Others were met while reading and are built into the models as the code has
them, without a run of their own:

- Creating an incident under an id in use drops the one that was open
  (`engine.go:139`). The runs set `UniqueIds`, without which a dropped object
  is swept no more and stays with the automation for ever; the theorems hold
  for either value.
- When every channel fails the incident still becomes ESCALATED
  (`engine.go:282`): `pages` counts attempts, `delivered` and `failed` say
  how each channel answered the last one.
- The types of timeline events are the seven that the comment of
  `TimelineEvent` lists (`engine.go:76`) in one case only, "anomaly":
  `Transition` writes the name of the state instead (`:167`), and timeouts
  leave no event at all.
- The weekly digest is not sent: `FlushDigest` clears the buffer "after
  sending" and discards what it has composed, the SMTP call being a TODO
  (`channels/email.go:98`, `:100`), so that what was buffered is gone.
  `sendImmediate` mails nothing either and reports success.
- A restart empties the rate limiter (`safety/rules.go:64`), and pods of one
  name in two namespaces share a limit (`rules.go:180`).
- The breaker opens on three failures however far apart, if no success came
  between (`llm/router.go:194`), where the comments say "in the last 5
  minutes" (`:181`, `:193`): `BreakerTracksReports` claims what both agree on.
  Past the five minutes every caller may try at once (`:200`), not one; the
  default provider is returned unchecked (`:139`).
- A cascade silences the alerts and raises none of its own, and flapping
  counts fires without resolutions (`suppressor.go:70`, `:85`).
- `docs/agent.md` speaks of a 60 s expiry of the metadata cache and of
  draining at shutdown; the code has neither. Nor does a full batch cause a
  flush: the ticker alone does.
- `stream/client.go:112` takes the event type from the first byte of the
  record, which is the low byte of a time stamp.
- The latency check wants two spikes in a row, but a check that finds no
  baseline neither counts nor resets (`anomaly/engine.go:134`): the two may be
  hours apart. Six loud observations are an anomaly at any distance in time,
  where the text says 30 seconds (`:211`); the model counts observations.
- A pod is compared with a mean and a deviation that it takes part in
  (`anomaly/engine.go:203`). With three deviations that hides every pod of a
  node where at most ten were seen, whatever its rate: no promise, but a
  limit, which `FewPodsAreNotReported` states. `docs/collector.md:72` has the
  median absolute deviation of all detectors "instead of standard deviation to
  be robust to outliers", which would not hide them.
- The `Threshold` of an error-rate anomaly is the greater of two limits, either
  of which suffices (`:188`), so that it need not be "the threshold that was
  exceeded" (`:34`). The detectors of `docs/collector.md:50-63` (medians, a
  traffic detector, other windows) are not those of the code: they want an
  error rate "> 5% AND > 2× baseline" within 2 minutes, the code one that is 15
  points above the average of 24 hours, or above 20 percent.
- Whether a program attaches is a free choice in `AgentEvents`: the loader
  derives the name to attach to from the program's own name.
- The rolling window forgets the rest of an interval at each use, so that a
  service used every 119 seconds keeps samples for nearly two hours:
  `BaselineIsTheWindow` has twice the window as its bound.
- An observed error rate is part of the average it is compared with
  (`anomaly/engine.go:173`), so that "baseline + 15pp" (`:177`) is by
  (n + 1) / n more than 15 points above the n others, and is never reached if
  there are none. `RateIsJudgedByTheOthers` claims the documented threshold
  one way, and leaves what lies between it and its double open.
- Classifier: "most impactful first" (`classifier.go:88`), yet CTL-004, a P2,
  hides every P1 of the memory family; MEM-006 is found without the OOM kill
  that the registry names (with one the rules say MEM-001 or 002), APP-003
  without the failed read of a configuration; no field of the snapshot can
  show CPU-005; "check liveness probe first!" (`app.go:14`) is not done. No
  code calls the classifier.
- A trace without a service passes any filter, and a trace stored at the very
  end of the period is left out (`store/badger.go`).
- HTTP capture: the clock of a request starts at the entry of `tcp_recvmsg`,
  so that a latency includes waiting for the request to arrive. A response
  that is not sampled leaves both entries behind, and the next request on the
  socket inherits the stamp (`http_trace.c:90`). No code writes the sampling
  configuration.
- Ownership: rule 3, "P0 or >3 affected services → platform team", never
  counts services (`escalation/router.go:9`). Cgroups: the throttle of v1
  writes the quota alone, so that it is of whatever period the container has,
  and a v2 container without a limit cannot be read (`cgroup/detect.go:144`,
  `:159`).
- Counters: of two CPUs that miss together one replaces the entry of the
  other (`BPF_ANY`), and additions to the element that was replaced are lost
  or, once the kernel has reused it, counted for another cgroup. The plain
  increments of `cfs_throttle.c` race (`:53`, `:79`). Its throttling hook makes
  a missing entry with `total_periods = 1` (`:84`), a period that its other
  hook has not seen, which no meeting of CPUs is needed for. The per-CPU array
  of `syscall_rate.c` counts no PID above its size.
- Prompts: `TruncateBundle` "ensures the total prompt stays within the context
  window" (`truncator.go:30`), but counts the fields alone, without the
  template, and leaves what it may not cut, so that a prompt may stay too long;
  a value of 501 to 514 characters grows when it is cut, its marker being
  longer. The default name "claude" is none of those it has a size for and gets
  32,000 tokens. Step 2 of `template.go:30`, "Reduce metric time window", does
  not exist; `PromptsAreCutInOrder` says nothing of it. "Every incident type
  has a dedicated prompt" (`builder.go:2`), and nine of them use the generic
  one.
- Answers: of an answer in JSON that was cut off, the confidence is the
  highest level that occurs anywhere in it, so that "High memory" makes it
  HIGH where the model said LOW; one with a field of another type has
  `parse_error` set and may still allow automatic remediation.

## The theorems

TLAPS checks them for every value of the constants that the modules' `ASSUME`s
admit; the runs check the same formulas on the instances above. Each invariant
is the inductive part of a stronger formula. Every invariant and every action
property of a passing run has a theorem; what is left to TLC is liveness.

Where parts are checked in one run, `PartsAreTheirOwn` proves that a behaviour
of the parts is one of each part, and `PartsKeepTheirTypes` and
`PartsKeepTheirPromises` conclude from the theorems about the parts what the
run checks of the whole (`RouterProofs`, `AlertingProofs`, `AgentProofs`,
`CollectorProofs`).

Induction is done by the least counterexample: a set of numbers that is not
empty has a least element (`LeastNumber`), and from it follow the same for
keys (`LeastKey`), a highest value of finitely many samples (`HighestValue`),
and that a set of finite sets which has a set as soon as it has the smaller
ones has them all (`SmallerFirst`).

**`EscalationProofs`**, from `EscalationAssumption`. An operation moves one
object and a sweep moves any number, but what happens to a *single* object in a
step is always one of four things: it stays the same, is born, is moved by
`Transition`, or times out (`StepOfOneObject`). Every invariant is then a
statement about one object proved against the four cases. `Inductive` adds to
the checked invariants: that context is gathered state by state
(`ContextSoFar`), that an ACKNOWLEDGED incident has the event on its timeline,
that an object nobody created is unpaged and in DETECTED (`FreshOutside`), and
that one still in DETECTED has only its first event (`UnmovedIsNew`). Needed,
since "paged implies context" says nothing of the states before the page. The
honesty of the timeline rests on `DriftClosed`: timeouts lead at most three
states on, and one more leads to none that is new. `EngineRefinesLifecycle`
uses the same four cases for the step simulation of `IncidentLifecycle!Next`;
`EveryChannelTried` needs the types only: each channel is among those that
work or those that do not. `AutomationGivesWay` is liveness and stays with TLC.

**`SafetyProofs`**, from `SafetyAssumption` and, for the limit, `Serial`
(`NumWorkers = 1`); `safety_concurrent` shows that the latter is necessary. The
limit does not follow from itself: between acting and recording, an action is
in no history. `SlotsBounded` therefore counts the *slots in use*: recent
records and actions under way together. With one worker an action is under way
only if no other is, so that `Evaluate` sees every other slot; and an action is
recorded no earlier than it was carried out (`RecordedAfterActed`), so that the
slots outlast the hour that is counted. `RateLimitHolds` drops "since the
start" where there is no restart; `RestartsGrantOneAllotment` counts what the
restarts forgot (`ForgottenBounded`), of which each adds what was within the
hour since the one before. `HistoryStaysBounded` follows from the same
slots: what turned an hour old at the latest tick used them until then
(`TurnedBounded`), and what is older is pruned with the next record.

**`RouterProofs`** has four parts.

- The lock, from `LockAssumption`. The invariant ties each goroutine's program
  counter to the number of shared locks it holds and to the queue
  (`ReaderHolds`, `ListerHolds`), and the lock's owner to the writer's
  (`WriterPlaces`, `Exclusion`). A hang then leaves one cause: whoever the
  writer waits for is queued, hence holds the lock and asks again, hence is a
  lister.
- The breaker, from `RouterAssumption` (`BreakerAssumption` of `MCRouter`).
  `BreakerTracksReports` says nothing of a count below the threshold, nor of
  failures that are too far apart. The
  invariant does: the count is the number of failures at the end of the latest
  reports, and the time stamp is that of the last report while there is a
  failure to stamp (`CountsTheEnd`). `OpenAlwaysSheds` goes through the ways
  out of `SelectProvider`; all but the default provider and, in BYOC mode,
  Ollama (`Unasked`) lead past the circuit.
- The prompts, from `PromptAssumption` (a bundle maps fields to lines, a
  context has the four long fields, and the two are apart). A truncation is a
  run of eight passes, each of which touches one field and changes nothing
  that fits (`Pass`). What is too long at a place of the run was too long at
  every place before (`OnceItFits`), so that all fields before it in the order
  were cut and are spent. Of the length of a prompt nothing is used but
  whether it is over the limit: the argument survives a field that grows when
  it is cut.
- The answers, without an assumption: a result is that of the latest reply
  (`AnswerInv`), and `Interpreted` claims only what `Says` of the text; for
  answers in lines the types only.

**`AlertingProofs`**, from `SuppressorAssumption` and `DigestAssumption`.
`RecordAlert` trims its copies of the alerts at moments that have nothing to do
with those of the decisions. What makes that invisible is that it drops only
what no window will see again (`DroppedAreOld`), since an age never falls; and
that the history of a service and code holds alerts of theirs alone
(`FlapsAreOwn`). `SilenceAlwaysHasACause` is an action property: as time passes
every window closes and none opens (`TickSilencesNobody`), and a call changes
only what it is about. For the digest: what a `Send` has read is the buffer, or
was held when a flush cleared it (`SeenIsBuffer`); what a flush has read is
still buffered, along with what it caught (`BodyIsBuffered`); and only what was
accepted is buffered or digested (`AcceptedFirst`).

**`HookProofs`**, from `HttpAssumption` and `CountersAssumption`.
`DurationsArePaired` tells of the latest response alone; what makes it
inductive is what holds of each socket before its response is captured
(`StampsAreOwn`): where nothing was left behind, a stamp is that of the request
at hand, and a thread that is done with its request has none. For the counters:
the elements of the map are shared out, one is the entry of one cgroup, the
spare of one CPU or free, and nobody holds a free one (`Wired`). A cgroup that
no two hooks were at work for at a time has at most one hook (`Alone`), which
holds its entry and no other (`Holders`), saw the count as it still is
(`WhatIsSeen`), or missed an entry that is still missing (`Missing`); and a
cgroup without an entry has counted nothing that the map did not refuse
(`NothingBefore`). `SettledCountsAlways` is an action property: in a settled
cgroup `Wired` keeps all others off its element, and an atomic addition never
loads (`Working`).

**`AgentProofs`**, from `ResolverAssumption`, `EventsAssumption` and, through
`HookProofs`, `HooksAssumption`. `SerialWithoutRace` adds that a miss that
nothing overtook is still a miss (`MissStillHolds`). `OrphansOnlyByReuse` adds
that every entry names a container its PID was in (`EntriesAreTrue`), also
those still in a caller's hands. `EventsStayInOrder` tells of the batch and of
what was sent; what is inductive is that each ring, after what has left it by
now, sent, batched or in the hand of the handler, is all that it ever took, in
order (`RingsAreWhole`), and that the ring that is read is open
(`ReaderIsOpen`).

**`TraceProofs`**, from `TraceAssumption`. A query reads a snapshot, so that
nothing that is stored meanwhile matters, and what has expired stays expired.
What is inductive is that the cursor parts the snapshot (`SoFar`): every trace
wanted that it has passed is in the answer or has expired, and nothing else is
in it. That the cursor finds the next key uses `LeastKey`.

**`CollectorProofs`** has a part for each detector and one for the classifier.

- Latency, from `LatencyAssumption`. What is inductive is that the ring tells
  the time (`RingIsTime`): a sample d buckets back is as old as d intervals and
  the time since the ring was turned, less one interval, and younger than two
  intervals for each, because a turn forgets the rest of an interval; and a
  sample that is in no bucket has left the window. `AlarmsStaySpikes` adds that
  the 99th percentile of at most a hundred samples is the highest
  (`PercentileIsHighest`).
- Noisy neighbours, from `NoisyAssumption`, whose `Needed` is at least 1: with
  none needed a quiet pod would be reported. That a node has finitely many
  known pods is part of the invariant, and that a pod has stood out for at
  least as long as it was counted loud. The rest is algebra: sums over finite
  sets may begin at any element (`SumWithout`), so that the mean and the
  deviation split into the latest rate and the others; the inequality of Cauchy
  and Schwarz (`CauchySchwarz`) bounds the square of the others' sum; so the
  latest rate exceeds the threshold of the others alone (`OthersAreExceeded`),
  and these are more than the square of Sigma (`ExcessIsBounded`).
- Error rates, from `ErrorRateAssumption`. What is inductive is that
  observations are never younger than later ones (`AgesFall`) and that what was
  pruned has left the window (`PrunedIsOld`). Pruning from the front then
  leaves exactly the window (`PruningFollowsAge`), whatever was pruned before,
  and the sum splits into the latest rate and the others. The threshold then
  counts once more than there are others, at most twice as often
  (`ThresholdsBetween`).
- The classifier has no assumption. The rules are compared with the registry
  one by one (`Matches`, the lemmas `...Entries`): every rule gives one
  registered type, from its own signals, and no two rules the same. So the
  first rule that applies gives a type that is present, and a present type of
  an earlier family would be a rule that applies at an earlier place. TLC
  checks snapshots of up to three facts, the theorem those of any number.

Only model-checked: all liveness (`AutomationGivesWay`, `AutoRecovers`,
`SilenceEnds`, `EventsGetOut`, `BaselineExpires`), which TLAPS does not reach.
The runs that show a violation refute what they state, so that there is nothing
to prove.

## What is not modelled

| Part | Why |
|---|---|
| Collector ingest | handlers are registered before the server starts and called in order under a read lock; the stream hands each message on and keeps nothing; the OTLP receiver is a stub |
| Ownership router, postmortem | `ResolveOwner` is a chain of look-ups in maps that nothing changes after start; the postmortem only builds a prompt |
| Cgroup controller | reads and writes one kernel file per call; its arithmetic is one rounding, and nothing calls it |
| Other BPF programs | each turns one kernel event into one ring-buffer event and keeps no state; `net_policy.c` is "loaded separately" by code that is not there, and the bytes of `mem_rss_rate.c` are always 0 |
| LLM health checks, VictoriaMetrics writer, REST handlers other than that of the traces | one request per call, no state of their own; the REST handlers hand on what a `DataSource` returns, which nothing implements |
| Slack and PagerDuty channels | stateless: their `Send` succeeds or fails, which `Escalation` chooses freely |
| Secrets scrubber | regular expressions over text |
| Configuration, models, custom resources, dashboard, Helm charts | data and layout |
| Half-written slice headers in `EmailDigest`, memory-model effects of other unlocked reads | only the order of whole reads and writes is modelled |

## The plan

Done: everything with state that the program's own code keeps, and the pure
functions whose order or limits decide what a user sees. What is left, in the
order of what it would add:

1. **Ownership router**: `ResolveOwner` against "the most specific owner".
2. **Cgroup limits**: the paths for both drivers and both versions, and that a
   throttle is undone to the limit that was read.
3. **Composition** of `Escalation` with `Suppressor` and `SafetyRules`: what an
   automated action needs before AUTO_REMEDIATING. No code joins them yet; it
   is worth writing only if such code appears.

Theorems next: that the resolver without overtaking implements an atomic
cache, as a refinement; that the breaker seen through `Open` alone implements
an abstract circuit; and the safety half of the liveness properties, such as
that a digest or a batch only ever shrinks by being sent.
