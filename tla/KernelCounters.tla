--------------------------- MODULE KernelCounters ---------------------------
(***************************************************************************)
(* The counters that the BPF programs keep per cgroup, of three kinds: the *)
(* syscalls of bpf/syscall_rate.c, with an atomic addition; the CFS        *)
(* periods of bpf/cfs_throttle.c and those that were throttled, with a     *)
(* plain increment, by two hooks; the DNS queries of bpf/dns_trace.c, with *)
(* a value for each CPU.  A hook looks its cgroup up and adds to the       *)
(* element it found, or makes an entry of its own.                         *)
(*                                                                         *)
(* A hash map of the kernel has all its elements from the beginning, and a *)
(* spare one for each CPU.  An update with BPF_ANY copies the value into a *)
(* free element; where there is an entry by then, into the spare of the    *)
(* CPU, and the element of the entry becomes the spare: a hook that has    *)
(* looked the entry up goes on with an element that is nobody's, or later  *)
(* another cgroup's.  A map with a value for each CPU is updated in place. *)
(*                                                                         *)
(* A CPU runs one of these hooks at a time.  The events and times of the   *)
(* hooks are left out.  Counts are 64 bits wide and do not wrap.           *)
(***************************************************************************)
EXTENDS Naturals, FiniteSets, Functions

CONSTANTS Cpus, Cgroups,
          Total, Throttled, \* the values of an entry that all CPUs share
          Room,             \* max_entries of the map, as elements
          None,             \* in place of an element, a key or a value
          MaxFired          \* bound on the calls

\* Where a hook counts: a value of an entry.
Fields == Cpus \cup {Total, Throttled}
Keys == Cgroups \X Fields

\* The spare element of a CPU is its own at first.
Elements == Room \cup Cpus

CountersAssumption ==
  /\ IsFiniteSet(Cpus) /\ IsFiniteSet(Cgroups)
  /\ Total \notin Cpus /\ Throttled \notin Cpus \cup {Total}
  /\ Room \cap Cpus = {}
  /\ None \notin Elements \cup Keys /\ None \notin Nat
  /\ MaxFired \in Nat

VARIABLES
  kind,     \* whose map it is: "syscalls", "periods" or "queries"
  element,  \* the element that is the entry of a cgroup, if it has one
  spare,    \* the spare element of a CPU
  value,    \* the values in an element
  key,      \* what the hook of a CPU counts, or None
  held,     \* the element it has found
  seen,     \* the value it has loaded
  fired,    \* ghost: the calls that have counted, or failed to
  met,      \* ghost: the cgroups that two hooks were at work for at a time
  refused   \* ghost: the cgroups for which the map had no room

counterVars == <<kind, element, spare, value, key, held, seen, fired, met, refused>>

CountersTypeOK ==
  /\ kind \in {"syscalls", "periods", "queries"}
  /\ element \in [Cgroups -> Elements \cup {None}]
  /\ spare \in [Cpus -> Elements]
  /\ value \in [Elements -> [Fields -> Nat]]
  /\ key \in [Cpus -> Keys \cup {None}]
  /\ held \in [Cpus -> Elements \cup {None}]
  /\ seen \in [Cpus -> Nat \cup {None}]
  /\ fired \in [Keys -> Nat]
  /\ met \subseteq Cgroups
  /\ refused \subseteq Cgroups

CountersInit ==
  /\ kind \in {"syscalls", "periods", "queries"}
  /\ element = [g \in Cgroups |-> None]
  /\ spare = [c \in Cpus |-> c]
  /\ value = [e \in Elements |-> [f \in Fields |-> 0]]
  /\ key = [c \in Cpus |-> None]
  /\ held = [c \in Cpus |-> None]
  /\ seen = [c \in Cpus |-> None]
  /\ fired = [k \in Keys |-> 0]
  /\ met = {}
  /\ refused = {}

Busy == {c \in Cpus : key[c] # None}
AtWork(g) == {c \in Busy : key[c][1] = g}
Present(g) == element[g] # None
Free == Elements \ ({element[g] : g \in Cgroups} \cup {spare[c] : c \in Cpus})

\* What userspace reads of an entry.
count(k) == IF Present(k[1]) THEN value[element[k[1]]][k[2]] ELSE 0

\* What the hooks of a CPU count: trace_cfs_runtime the periods of its cgroup,
\* trace_cfs_throttle those that were throttled.
Counted(cpu) ==
  IF kind = "queries" THEN {cpu}
  ELSE IF kind = "periods" THEN {Total, Throttled} ELSE {Total}

\* bpf_map_lookup_elem.
Lookup(cpu, g) ==
  /\ FoldFunction(+, Cardinality(Busy), fired) < MaxFired
  /\ key[cpu] = None
  /\ \E f \in Counted(cpu) : key' = [key EXCEPT ![cpu] = <<g, f>>]
  /\ held' = [held EXCEPT ![cpu] = element[g]]
  /\ met' = IF kind = "queries" \/ AtWork(g) = {} THEN met ELSE met \cup {g}
  /\ UNCHANGED <<kind, element, spare, value, seen, fired, refused>>

Return(cpu) ==
  /\ key' = [key EXCEPT ![cpu] = None]
  /\ held' = [held EXCEPT ![cpu] = None]
  /\ seen' = [seen EXCEPT ![cpu] = None]
  /\ fired' = [fired EXCEPT ![key[cpu]] = @ + 1]

\* __sync_fetch_and_add(count, 1).  Mutant: count++, everywhere.
AddsAtOnce_Never == FALSE
AddsAtOnce == kind # "periods"

Add(cpu) ==
  /\ cpu \in Busy /\ held[cpu] # None /\ AddsAtOnce
  /\ value' = [value EXCEPT ![held[cpu]][key[cpu][2]] = @ + 1]
  /\ Return(cpu)
  /\ UNCHANGED <<kind, element, spare, met, refused>>

\* total_periods++ and throttled_periods++ are a load ...
Load(cpu) ==
  /\ cpu \in Busy /\ held[cpu] # None /\ seen[cpu] = None /\ ~AddsAtOnce
  /\ seen' = [seen EXCEPT ![cpu] = value[held[cpu]][key[cpu][2]]]
  /\ UNCHANGED <<kind, element, spare, value, key, held, fired, met, refused>>

\* ... and a store.
Store(cpu) ==
  /\ cpu \in Busy /\ seen[cpu] # None
  /\ value' = [value EXCEPT ![held[cpu]][key[cpu][2]] = seen[cpu] + 1]
  /\ Return(cpu)
  /\ UNCHANGED <<kind, element, spare, met, refused>>

\* The value of a new entry.  Mutant: the call that makes it is not counted.
FirstValue_Zero == 0
FirstValue == 1

\* The values of a new entry: either hook of cfs_throttle.c begins with a
\* period.
NewEntry(cpu) ==
  [f \in Fields |->
     IF f = key[cpu][2] \/ (kind = "periods" /\ f = Total) THEN FirstValue ELSE 0]

Missed(cpu) == cpu \in Busy /\ held[cpu] = None

\* bpf_map_update_elem with BPF_ANY, for a cgroup that has no entry ...
InsertNew(cpu) ==
  LET g == key[cpu][1]
  IN  /\ Missed(cpu) /\ ~Present(g)
      /\ \E e \in Free :
           /\ element' = [element EXCEPT ![g] = e]
           /\ value' = [value EXCEPT ![e] = NewEntry(cpu)]
      /\ Return(cpu)
      /\ UNCHANGED <<kind, spare, met, refused>>

\* ... for which there is no room ...
InsertFails(cpu) ==
  LET g == key[cpu][1]
  IN  /\ Missed(cpu) /\ ~Present(g) /\ Free = {}
      /\ refused' = refused \cup {g}
      /\ Return(cpu)
      /\ UNCHANGED <<kind, element, spare, value, met>>

\* ... or that has had one since the lookup.
InsertOver(cpu) ==
  LET g == key[cpu][1]
  IN  /\ Missed(cpu) /\ Present(g) /\ kind # "queries"
      /\ element' = [element EXCEPT ![g] = spare[cpu]]
      /\ spare' = [spare EXCEPT ![cpu] = element[g]]
      /\ value' = [value EXCEPT ![spare[cpu]] = NewEntry(cpu)]
      /\ Return(cpu)
      /\ UNCHANGED <<kind, met, refused>>

InsertInPlace(cpu) ==
  LET g == key[cpu][1]
  IN  /\ Missed(cpu) /\ Present(g) /\ kind = "queries"
      /\ value' = [value EXCEPT ![element[g]][cpu] = FirstValue]
      /\ Return(cpu)
      /\ UNCHANGED <<kind, element, spare, met, refused>>

CountersNext == \E cpu \in Cpus :
  \/ \E g \in Cgroups : Lookup(cpu, g)
  \/ Add(cpu) \/ Load(cpu) \/ Store(cpu)
  \/ InsertNew(cpu) \/ InsertFails(cpu) \/ InsertOver(cpu) \/ InsertInPlace(cpu)

CountersSpec == CountersInit /\ [][CountersNext]_counterVars
-----------------------------------------------------------------------------
\* A count is what the hooks have counted, for every cgroup the map had room
\* for, unless two CPUs were in the hooks for it at the same time.  The periods
\* of cfs_throttle.c are one too many where its other hook made the entry
\* (trace_cfs_throttle); the counts of the per-CPU map of dns_trace.c are exact
\* however the CPUs meet.
CountsAreExact ==
  /\ \A k \in Keys : k[1] \notin met \cup refused =>
       IF kind = "periods" /\ k[2] = Total
       THEN count(k) \in {fired[k], fired[k] + 1}
       ELSE count(k) = fired[k]
  /\ kind = "queries" => met = {}

\* An entry is there, and the hooks that hold its element are those at work
\* for its cgroup.
Settled(g) ==
  /\ Present(g)
  /\ \A c \in Busy : key[c][1] = g <=> held[c] = element[g]

\* The atomic additions of syscall_rate.c lose and gain calls while entries are
\* made at the same time, and none after: from when no hook that missed the
\* entry of a cgroup is on its way to replace it, none that holds a replaced
\* element is left, and none of another cgroup holds this one, its count goes
\* up by one for every call, whatever happens to the other entries.
SettledCounts ==
  [][\A g \in Cgroups :
       LET k == <<g, Total>>
       IN  kind = "syscalls" /\ Settled(g) =>
             Settled(g)' /\ fired'[k] + count(k) = fired[k] + count(k)']_counterVars
=============================================================================
