-------------------------- MODULE MetadataResolver --------------------------
(***************************************************************************)
(* The pod metadata cache of internal/agent/metadata/resolver.go.          *)
(*                                                                         *)
(* Resolve looks a PID up under the read lock, releases it, reads          *)
(* /proc/<pid>/cgroup and writes what it found under the write lock,       *)
(* whatever the cache holds by then.  UpdateFromKubernetes and Invalidate, *)
(* for the informer, each hold the lock throughout.  Meanwhile processes   *)
(* end and the kernel reuses their PIDs.                                   *)
(***************************************************************************)
EXTENDS FiniteSets

CONSTANTS Pids, Containers, Callers,
          NoContainer,   \* the container of a process of the host: ""
          Gone,          \* the container of a PID without a process
          NoInfo, NoPid

ASSUME ResolverAssumption ==
  /\ NoContainer \notin Containers /\ Gone \notin Containers /\ NoContainer # Gone
  /\ NoPid \notin Pids
  /\ NoInfo \notin [pid : Pids, container : Containers \cup {NoContainer}, named : BOOLEAN]

\* PodInfo.  Only Kubernetes knows the name: resolveFromProc leaves it empty.
PodInfo == [pid : Pids, container : Containers \cup {NoContainer}, named : BOOLEAN]

VARIABLES
  runs,       \* the container that each PID's process is in
  ever,       \* the containers that each PID's processes have been in
  cache,      \* Resolver.cache
  cgMap,      \* Resolver.cgMap
  asked,      \* the PID a caller's Resolve has missed
  found,      \* what that Resolve has read from /proc
  serial,     \* what cache would hold had each Resolve been one step
  overtaken   \* another write to the PID fell between a Resolve's two locks

vars == <<runs, ever, cache, cgMap, asked, found, serial, overtaken>>

TypeOK ==
  /\ runs \in [Pids -> Containers \cup {NoContainer, Gone}]
  /\ ever \in [Pids -> SUBSET (Containers \cup {NoContainer})]
  /\ cache \in [Pids -> PodInfo \cup {NoInfo}]
  /\ cgMap \in [Containers -> PodInfo \cup {NoInfo}]
  /\ asked \in [Callers -> Pids \cup {NoPid}]
  /\ found \in [Callers -> PodInfo \cup {NoInfo}]
  /\ serial \in [Pids -> PodInfo \cup {NoInfo}]
  /\ overtaken \in [Pids -> BOOLEAN]

Init ==
  /\ runs = [p \in Pids |-> Gone]
  /\ ever = [p \in Pids |-> {}]
  /\ cache = [p \in Pids |-> NoInfo]
  /\ cgMap = [c \in Containers |-> NoInfo]
  /\ asked = [x \in Callers |-> NoPid]
  /\ found = [x \in Callers |-> NoInfo]
  /\ serial = cache
  /\ overtaken = [p \in Pids |-> FALSE]

(***************************************************************************)
(* The node: processes start and end.                                      *)
(***************************************************************************)
ProcessStarts(p, c) ==
  /\ runs[p] = Gone
  /\ runs' = [runs EXCEPT ![p] = c]
  /\ ever' = [ever EXCEPT ![p] = @ \cup {c}]
  /\ UNCHANGED <<cache, cgMap, asked, found, serial, overtaken>>

ProcessEnds(p) ==
  /\ runs[p] # Gone
  /\ runs' = [runs EXCEPT ![p] = Gone]
  /\ UNCHANGED <<ever, cache, cgMap, asked, found, serial, overtaken>>

(***************************************************************************)
(* Resolve.  A hit changes nothing; a miss goes on without the lock.       *)
(***************************************************************************)
Resolve(x, p) ==
  /\ asked[x] = NoPid
  /\ cache[p] = NoInfo
  /\ asked' = [asked EXCEPT ![x] = p]
  /\ UNCHANGED <<runs, ever, cache, cgMap, found, serial, overtaken>>

\* Mutant: the error of os.ReadFile is ignored.
ReadFails_Ignored(p) == FALSE

ReadFails(p) == runs[p] = Gone

\* resolveFromProc fails on a PID without a process, and Resolve returns.
resolveFromProc(x) ==
  /\ asked[x] # NoPid
  /\ found[x] = NoInfo
  /\ IF ReadFails(asked[x])
     THEN /\ asked' = [asked EXCEPT ![x] = NoPid]
          /\ UNCHANGED found
     ELSE /\ found' = [found EXCEPT ![x] =
               [pid |-> asked[x], container |-> runs[asked[x]], named |-> FALSE]]
          /\ UNCHANGED asked
  /\ UNCHANGED <<runs, ever, cache, cgMap, serial, overtaken>>

UnderWay(p) == {x \in Callers : asked[x] = p}

\* cgMap once an info is filed under its container, if it has one.
Indexed(info) == [c \in Containers |-> IF c = info.container THEN info ELSE cgMap[c]]

ResolveFills(x) ==
  /\ found[x] # NoInfo
  /\ LET p == asked[x] IN
     /\ cache' = [cache EXCEPT ![p] = found[x]]
     /\ cgMap' = Indexed(found[x])
     /\ serial' = [serial EXCEPT ![p] = IF @ = NoInfo THEN found[x] ELSE @]
     /\ overtaken' = [overtaken EXCEPT ![p] = @ \/ UnderWay(p) # {x}]
  /\ asked' = [asked EXCEPT ![x] = NoPid]
  /\ found' = [found EXCEPT ![x] = NoInfo]
  /\ UNCHANGED <<runs, ever>>

(***************************************************************************)
(* The informer's calls, which may be late: the PID may be another's.      *)
(***************************************************************************)
\* Mutant: the informer fills gaps only, as a cache of /proc would.
Told_IfAbsent(p, info) ==
  [cache EXCEPT ![p] = IF @ = NoInfo THEN info ELSE @]

Told(p, info) == [cache EXCEPT ![p] = info]

UpdateFromKubernetes(p, c) ==
  /\ c \in ever[p] \cap Containers
  /\ LET info == [pid |-> p, container |-> c, named |-> TRUE] IN
     /\ cache' = Told(p, info)
     /\ cgMap' = Indexed(info)
     /\ serial' = [serial EXCEPT ![p] = info]
  /\ overtaken' = [overtaken EXCEPT ![p] = UnderWay(p) # {}]
  /\ UNCHANGED <<runs, ever, asked, found>>

\* Mutant: the PID is dropped from cache before cgMap is looked at.
Unindexed_TooLate(p) == cgMap

\* cgMap without the container that the PID was last known to be in.
Unindexed(p) ==
  [c \in Containers |->
     IF cache[p] # NoInfo /\ cache[p].container = c THEN NoInfo ELSE cgMap[c]]

Invalidate(p) ==
  /\ cgMap' = Unindexed(p)
  /\ cache' = [cache EXCEPT ![p] = NoInfo]
  /\ serial' = [serial EXCEPT ![p] = NoInfo]
  /\ overtaken' = [overtaken EXCEPT ![p] = UnderWay(p) # {}]
  /\ UNCHANGED <<runs, ever, asked, found>>

Next ==
  \/ \E p \in Pids, c \in Containers \cup {NoContainer} : ProcessStarts(p, c)
  \/ \E p \in Pids : ProcessEnds(p)
  \/ \E x \in Callers, p \in Pids : Resolve(x, p)
  \/ \E x \in Callers : resolveFromProc(x)
  \/ \E x \in Callers : ResolveFills(x)
  \/ \E p \in Pids, c \in Containers : UpdateFromKubernetes(p, c)
  \/ \E p \in Pids : Invalidate(p)

Spec == Init /\ [][Next]_vars

(***************************************************************************)
(* Properties.                                                             *)
(***************************************************************************)

\* The cache is the one that uninterrupted calls would have built for every
\* PID that no write overtook: a name from Kubernetes is lost, and an entry
\* returns after Invalidate, only through a Resolve that was between its two
\* locks at the time.
SerialUnlessOvertaken ==
  \A p \in Pids : ~overtaken[p] => cache[p] = serial[p]

\* An entry of cgMap, which no call removes but the Invalidate of a PID that
\* the cache has in that container, outlives the entry of the PID it names, or
\* disagrees with it, only when the kernel reused that PID for another
\* container.
OrphansNeedPidReuse ==
  \A c \in Containers :
    cgMap[c] # NoInfo =>
      LET p == cgMap[c].pid IN
      ever[p] = {c} => cache[p] # NoInfo /\ cache[p].container = c
=============================================================================
