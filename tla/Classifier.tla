----------------------------- MODULE Classifier -----------------------------
(***************************************************************************)
(* internal/collector/classifier: which of the registered incident types   *)
(* a snapshot of a service's signals is given, before any model is asked.  *)
(*                                                                         *)
(* A snapshot is the set of facts that the code tells apart, each a        *)
(* threshold that is exceeded, a duration that is reached or a flag; no    *)
(* exit code among them is exit code 0.  A family is the sequence of its   *)
(* rules, and the first that applies gives the type.  Descriptions,        *)
(* signal values and confidences are left out.                             *)
(***************************************************************************)
EXTENDS Naturals, Sequences, FiniteSetsExt

CONSTANT MaxFacts   \* bound on the independent facts of a snapshot

VARIABLES
  facts,     \* the Signals of the latest call
  incident   \* what Classify returned for them

typeVars == <<facts, incident>>

\* A type of the Registry: the facts its DetectionSignal names, and those
\* it excludes.
Entry(family, type, severity, auto, needs, excludes) ==
  [family |-> family, type |-> type, severity |-> severity, auto |-> auto,
   needs |-> needs, excludes |-> excludes]

ExitCodes == {"exit 1", "exit 137", "exit other"}

Registry == {
  Entry("MEM", "MEM-001", "P1", FALSE, {"oom kernel"}, {}),
  Entry("MEM", "MEM-002", "P1", TRUE, {"oom cgroup"}, {}),
  Entry("MEM", "MEM-003", "P2", FALSE, {"rss > 5", "rss 10 min"}, {}),
  Entry("MEM", "MEM-004", "P1", TRUE, {"rss > 20"}, {}),
  Entry("MEM", "MEM-005", "P1", TRUE, {"node memory", "node memory 5 min"}, {}),
  Entry("MEM", "MEM-006", "P1", FALSE, {"heap > 95", "oom"}, {}),
  Entry("CPU", "CPU-001", "P2", TRUE, {"throttle > 25"}, {}),
  Entry("CPU", "CPU-002", "P2", TRUE, {"syscalls > 3 sigma", "syscalls 30 s"}, {}),
  Entry("CPU", "CPU-003", "P1", TRUE, {"node cpu", "node cpu 3 min"}, {}),
  Entry("CPU", "CPU-004", "P2", FALSE, {"runqueue > 50"}, {}),
  Entry("CPU", "CPU-005", "P2", FALSE, {"context switches"}, {}),
  Entry("CPU", "CPU-006", "P3", TRUE, {"throttle > 25"}, {"cpu >= 60"}),
  Entry("NET", "NET-001", "P2", FALSE, {"nxdomain > 40"}, {}),
  Entry("NET", "NET-002", "P1", TRUE, {"coredns > 80", "dns > 50"}, {}),
  Entry("NET", "NET-003", "P2", FALSE, {"large retransmits > 5"}, {"retransmits >= 5"}),
  Entry("NET", "NET-004", "P1", TRUE, {"connections > 500"}, {}),
  Entry("NET", "NET-005", "P2", FALSE, {"tcp retransmits > 10"}, {}),
  Entry("NET", "NET-006", "P2", FALSE, {"endpoints > 10"}, {}),
  Entry("NET", "NET-007", "P1", TRUE, {"conntrack > 90"}, {}),
  Entry("APP", "APP-001", "P1", FALSE, {"exit 1", "network failed"}, {"slow start"}),
  Entry("APP", "APP-002", "P1", TRUE, {"exit 137"}, {}),
  Entry("APP", "APP-003", "P1", FALSE, {"exit 1", "config unread"}, {"network call"}),
  Entry("APP", "APP-004", "P2", FALSE, {"not ready"}, ExitCodes),
  Entry("APP", "APP-005", "P2", FALSE, {"exit 1", "bind failed"}, {}),
  Entry("APP", "APP-006", "P1", FALSE, {"exit 1", "tcp refused"}, {}),
  Entry("APP", "APP-007", "P2", FALSE, {"image pull"}, {}),
  Entry("APP", "APP-008", "P2", FALSE, {"init failed"}, {}),
  Entry("CTL", "CTL-001", "P1", FALSE, {"etcd > 10"}, {}),
  Entry("CTL", "CTL-002", "P1", FALSE, {"apiserver > 1000"}, {}),
  Entry("CTL", "CTL-003", "P0", TRUE, {"webhook > 10"}, {}),
  Entry("CTL", "CTL-004", "P2", FALSE, {"queue > 1000"}, {}),
  Entry("CTL", "CTL-005", "P1", FALSE, {"pending > 50", "pending 2 min"}, {})}

\* The facts that the Registry names.
Named == UNION {e.needs \cup e.excludes : e \in Registry}

\* The facts of a Signals value.  "syscalls > 3 sigma" includes a deviation
\* above zero, "p99 > 3 p50" two latencies above zero.  No field of Signals
\* holds the context switches of CPU-005, and "oom" is either kind.
Facts ==
  (Named \ {"context switches", "oom"}) \cup {"etcd > 100", "jvm", "p99 > 3 p50"}

\* What a fact brings with it, and what excludes one another.
Implied(f) ==
  {f} \cup (CASE f = "etcd > 100" -> {"etcd > 10"}
              [] f = "rss > 20" -> {"rss > 5"}
              [] f = "network failed" -> {"network call"}
              [] OTHER -> {})
Rivals(f) ==
  UNION {X \in {ExitCodes, {"oom kernel", "oom cgroup"}} : f \in X} \ {f}

When(needs, excludes, type) ==
  [needs |-> needs, excludes |-> excludes, type |-> type]

ControlPlaneRules == <<
  When({"webhook > 10"}, {}, "CTL-003"),
  When({"etcd > 10"}, {}, "CTL-001"),
  When({"apiserver > 1000"}, {}, "CTL-002"),
  When({"pending > 50", "pending 2 min"}, {}, "CTL-005"),
  When({"queue > 1000"}, {}, "CTL-004")>>

MemoryRules == <<
  When({"oom kernel"}, {}, "MEM-001"),
  When({"oom cgroup"}, {}, "MEM-002"),
  When({"jvm", "heap > 95"}, {}, "MEM-006"),
  When({"rss > 20"}, {}, "MEM-004"),
  When({"rss > 5", "rss 10 min"}, {}, "MEM-003"),
  When({"node memory", "node memory 5 min"}, {}, "MEM-005")>>

ApplicationRules == <<
  When({"image pull"}, {}, "APP-007"),
  When({"init failed"}, {}, "APP-008"),
  When({"exit 137"}, {}, "APP-002"),
  When({"not ready"}, ExitCodes, "APP-004"),
  When({"exit 1", "network call", "network failed"}, {"slow start"}, "APP-001"),
  When({"exit 1", "bind failed"}, {}, "APP-005"),
  When({"exit 1", "tcp refused"}, {}, "APP-006"),
  When({"exit 1"}, {"network call"}, "APP-003")>>

\* Mutant: large packets are not told from all packets.
NetworkRules_AnyRetransmit == <<
  When({"conntrack > 90"}, {}, "NET-007"),
  When({"connections > 500"}, {}, "NET-004"),
  When({"coredns > 80", "dns > 50"}, {}, "NET-002"),
  When({"nxdomain > 40"}, {}, "NET-001"),
  When({"large retransmits > 5"}, {}, "NET-003"),
  When({"tcp retransmits > 10"}, {}, "NET-005"),
  When({"endpoints > 10"}, {}, "NET-006")>>
NetworkRules == <<
  When({"conntrack > 90"}, {}, "NET-007"),
  When({"connections > 500"}, {}, "NET-004"),
  When({"coredns > 80", "dns > 50"}, {}, "NET-002"),
  When({"nxdomain > 40"}, {}, "NET-001"),
  When({"large retransmits > 5"}, {"retransmits >= 5"}, "NET-003"),
  When({"tcp retransmits > 10"}, {}, "NET-005"),
  When({"endpoints > 10"}, {}, "NET-006")>>

CPURules == <<
  When({"throttle > 25", "p99 > 3 p50"}, {}, "CPU-001"),
  When({"throttle > 25"}, {"cpu >= 60"}, "CPU-006"),
  When({"node cpu", "node cpu 3 min"}, {}, "CPU-003"),
  When({"syscalls > 3 sigma", "syscalls 30 s"}, {}, "CPU-002"),
  When({"runqueue > 50"}, {}, "CPU-004")>>

Holds(rule, s) == rule.needs \subseteq s /\ rule.excludes \cap s = {}

None == [type |-> "none", severity |-> "none", auto |-> FALSE]

\* A new incident has the severity of the registry; that of an etcd that
\* will stop responding is raised.
buildIncident(type, s) ==
  LET info == CHOOSE e \in Registry : e.type = type
      raise == type = "CTL-001" /\ "etcd > 100" \in s
  IN  [type |-> type, severity |-> IF raise THEN "P0" ELSE info.severity,
       auto |-> info.auto]

\* The rules of the families in the order in which Classify asks them.
Rules ==
  ControlPlaneRules \o MemoryRules \o ApplicationRules \o NetworkRules \o CPURules

Classify(s) ==
  LET hits == {i \in DOMAIN Rules : Holds(Rules[i], s)}
  IN  IF hits = {} THEN None ELSE buildIncident(Rules[Min(hits)].type, s)

ClassifierTypeOK ==
  /\ facts \subseteq Facts
  /\ incident \in {None} \cup
       [type : {e.type : e \in Registry}, severity : {"P0", "P1", "P2", "P3"},
        auto : BOOLEAN]

ClassifierInit == facts = {} /\ incident = None

\* The next snapshot has one fact more, or one less.
Observe(f) ==
  /\ f \notin facts
  /\ facts' = (facts \cup Implied(f)) \ Rivals(f)
  /\ Cardinality({g \in facts' : \A h \in facts' : g \in Implied(h) => h = g}) <= MaxFacts
  /\ incident' = Classify(facts')

Clear(f) ==
  /\ facts' = {g \in facts : f \notin Implied(g)}
  /\ incident' = Classify(facts')

ClassifierNext ==
  \/ \E f \in Facts : Observe(f)
  \/ \E f \in facts : Clear(f)

ClassifierSpec == ClassifierInit /\ [][ClassifierNext]_typeVars
-----------------------------------------------------------------------------
Families == <<"CTL", "MEM", "APP", "NET", "CPU">>
Rank(e) == CHOOSE i \in DOMAIN Families : Families[i] = e.family

Present == {e \in Registry : Holds(e, facts)}

\* Classify keeps to the Registry it shares no condition with: what it
\* returns has a signal that the Registry names for it and belongs to the
\* first family, in the order the tests require, that has any; and what the
\* Registry can see is never missed.  The exceptions: JVM heap exhaustion
\* (MEM-006) and a missing configuration (APP-003) are found without the OOM
\* kill and the failed read that are registered for them, and throttling
\* (CPU-001) is not enough at a busy CPU without an effect on the latency.
ClassifiedAsRegistered ==
  LET loose == {e \in Registry : e.type \in {"MEM-006", "APP-003"}}
      sure == {e \in Present : e.type # "CPU-001"} \ loose
  IN  /\ incident = None => sure = {}
      /\ incident # None => \E e \in Present \cup loose :
           /\ incident.type = e.type
           /\ \A other \in sure : Rank(e) <= Rank(other)
           /\ incident.severity = IF "etcd > 100" \in facts /\ e.type = "CTL-001"
                                 THEN "P0" ELSE e.severity
=============================================================================
