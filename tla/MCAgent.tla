------------------------------- MODULE MCAgent -------------------------------
(***************************************************************************)
(* The parts of the agent, for TLC.  The stream client is handed the       *)
(* resolver and never calls it (internal/agent/stream/client.go), and each *)
(* BPF program has maps of its own, so that their interleavings show       *)
(* nothing: a behaviour is one of the resolver, of the event path, of the  *)
(* HTTP capture or of a program that counts.  One of the resolver is       *)
(* bounded: every caller asks for the same PID, or one asks for any and    *)
(* only one PID is reused for another container.  So is one of the         *)
(* counters: one CPU is idle and there is a call less, or syscalls are     *)
(* counted and one cgroup has none.                                        *)
(***************************************************************************)
EXTENDS MetadataResolver, AgentEvents, HttpTrace, KernelCounters

VARIABLE part

ASSUME HooksAssumption == HttpAssumption /\ CountersAssumption

hookVars == <<httpVars, counterVars>>
allVars == <<vars, eventVars, hookVars, part>>

PartsInit ==
  /\ part \in {"race", "sharing", "events", "http", "cgroups", "elements"}
  /\ Init /\ EventsInit /\ HttpInit /\ CountersInit
  /\ part # "http" => enabled = FALSE
  /\ part # "cgroups" => kind = IF part = "elements" THEN "syscalls" ELSE "queries"

OnePid == CHOOSE p \in Pids : TRUE
OneCaller == CHOOSE x \in Callers : TRUE
OneCpu == CHOOSE c \in Cpus : TRUE
OneCgroup == CHOOSE g \in Cgroups : TRUE

ResolverStep ==
  /\ part \in {"race", "sharing"} /\ Next /\ UNCHANGED <<eventVars, hookVars, part>>
  /\ part = "race" =>
       \A p \in Pids \ {OnePid} : runs'[p] = Gone /\ \A x \in Callers : asked'[x] # p
  /\ part = "sharing" =>
       /\ \A x \in Callers \ {OneCaller} : asked'[x] = NoPid
       /\ \A p \in Pids \ {OnePid} : Cardinality(ever'[p]) <= 1

EventStep(A) == part = "events" /\ A /\ UNCHANGED <<vars, hookVars, part>>

HookStep ==
  /\ UNCHANGED <<vars, eventVars, part>>
  /\ \/ part = "http" /\ HttpNext /\ UNCHANGED counterVars
     \/ /\ part \in {"cgroups", "elements"} /\ CountersNext /\ UNCHANGED httpVars
        /\ part = "cgroups" =>
             key'[OneCpu] = None /\ FoldFunction(+, Cardinality(Busy), fired)' < MaxFired
        /\ part = "elements" => AtWork(OneCgroup)' = {}

\* Fairness: goroutines that can run do, and the ticker ticks.
PartsSpec ==
  /\ PartsInit
  /\ [][ResolverStep \/ EventStep(EventsNext) \/ HookStep]_allVars
  /\ WF_allVars(EventStep(ReadEvents))
  /\ WF_allVars(EventStep(Read))
  /\ WF_allVars(EventStep(HandlerAppends))
  /\ WF_allVars(EventStep(Ticks))
  /\ WF_allVars(EventStep(DrainBatch))

\* The state of every part has its type.
PartsTypeOK == TypeOK /\ EventsTypeOK /\ HttpTypeOK /\ CountersTypeOK
=============================================================================
