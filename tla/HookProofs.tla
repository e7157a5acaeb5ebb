----------------------------- MODULE HookProofs -----------------------------
(***************************************************************************)
(* Theorems about the BPF programs: about HttpTrace, for any sockets,      *)
(* capacity and sampling rate, and about KernelCounters, for any CPUs,     *)
(* cgroups and map size.                                                   *)
(*                                                                         *)
(* Argument for HttpTrace.  DurationsArePaired tells of the latest event   *)
(* alone.  What makes it inductive is what holds of each socket before a   *)
(* response is captured (StampsAreOwn): where nothing was left behind, a   *)
(* stamp is that of the request at hand, and a thread that is done with    *)
(* its request has none, so that the next request finds none either.       *)
(*                                                                         *)
(* Argument for KernelCounters.  The elements of the map are shared out:   *)
(* one is the entry of one cgroup, the spare of one CPU, or free, and a    *)
(* free one nobody holds (Wired).  While a single hook at most was ever at *)
(* work for a cgroup (Alone), its entry is never replaced: its hook holds  *)
(* it and no other does (Holders), a hook that missed it has not been      *)
(* overtaken by an insertion and nothing was counted before it (Missing),  *)
(* and a value that is loaded is still the count (WhatIsSeen).  A cgroup   *)
(* without an entry has only calls that the map refused (NothingBefore).   *)
(* SettledCounts needs no more than Wired and the fields in use (Working). *)
(***************************************************************************)
EXTENDS HttpTrace, KernelCounters, TLAPS
-----------------------------------------------------------------------------
(***************************************************************************)
(* HttpTrace.                                                              *)
(***************************************************************************)

StampsAreOwn ==
  \A s \in Sockets :
    /\ ~left[s] => stamps[s] \in {NoStamp, request[s]}
    /\ ~left[s] /\ thread[s] \in {"closed", "ready"} => stamps[s] = NoStamp
    /\ thread[s] = "clearing" => stamps[s] = NoStamp

-----------------------------------------------------------------------------
\* Every variable keeps its type.
THEOREM HttpTypeCorrect == ASSUME HttpAssumption PROVE HttpSpec => []HttpTypeOK
<1> USE HttpAssumption DEF HttpAssumption, Request
<1>1. HttpInit => HttpTypeOK
  BY DEF HttpInit, HttpTypeOK, Threads, NoEvent
<1>2. HttpTypeOK /\ [HttpNext]_httpVars => HttpTypeOK'
  <2> SUFFICES ASSUME HttpTypeOK, [HttpNext]_httpVars PROVE HttpTypeOK'
    OBVIOUS
  <2> USE DEF HttpTypeOK, Threads, Goto, AfterResponse
  <2>0. ASSUME Count PROVE counter' \in 0 .. SampleRate - 1
    BY <2>0 DEF Count
  <2>1. ASSUME NEW s \in Sockets, Open(s) PROVE HttpTypeOK'
    BY <2>1 DEF Open
  <2>2. ASSUME NEW s \in Sockets, Close(s) PROVE HttpTypeOK'
    BY <2>2 DEF Close, Known
  <2>3. ASSUME NEW s \in Sockets, kprobe_tcp_recvmsg(s) PROVE HttpTypeOK'
    <3>1. request' \in [Sockets -> Request]
      BY <2>3 DEF kprobe_tcp_recvmsg, Wait
    <3>2. thread' \in [Sockets -> Threads]
      BY <2>3 DEF kprobe_tcp_recvmsg
    <3> QED BY <2>0, <2>3, <3>1, <3>2 DEF kprobe_tcp_recvmsg
  <2>4. ASSUME NEW s \in Sockets, Stamp(s) PROVE HttpTypeOK'
    BY <2>4 DEF Stamp
  <2>5. ASSUME NEW s \in Sockets, Mark(s) PROVE HttpTypeOK'
    BY <2>5 DEF Mark
  <2>6. ASSUME NEW s \in Sockets, RequestSent(s) PROVE HttpTypeOK'
    BY <2>0, <2>6 DEF RequestSent
  <2>7. ASSUME NEW s \in Sockets, ResponseSkipped(s) PROVE HttpTypeOK'
    BY <2>0, <2>7 DEF ResponseSkipped, Known
  <2>8. ASSUME NEW s \in Sockets, ResponseCaptured(s) PROVE HttpTypeOK'
    BY <2>0, <2>8 DEF ResponseCaptured
  <2>9. ASSUME NEW s \in Sockets, Unstamp(s) PROVE HttpTypeOK'
    BY <2>9 DEF Unstamp, Unstamped
  <2>10. ASSUME NEW s \in Sockets, Clear(s) PROVE HttpTypeOK'
    BY <2>10 DEF Clear
  <2>11. ASSUME UNCHANGED httpVars PROVE HttpTypeOK'
    BY <2>11 DEF httpVars
  <2> QED
    BY <2>1, <2>2, <2>3, <2>4, <2>5, <2>6, <2>7, <2>8, <2>9, <2>10, <2>11 DEF HttpNext
<1> QED BY <1>1, <1>2, PTL DEF HttpSpec

\* The duration of a response is that of its own request, or the socket had
\* entries of an earlier request that no response has removed.
THEOREM DurationsArePairedAlways ==
  ASSUME HttpAssumption PROVE HttpSpec => []DurationsArePaired
<1>1. HttpInit => StampsAreOwn /\ DurationsArePaired
  BY DEF HttpInit, StampsAreOwn, DurationsArePaired, NoEvent
<1>2. HttpTypeOK /\ StampsAreOwn /\ [HttpNext]_httpVars => StampsAreOwn'
  <2> SUFFICES ASSUME HttpTypeOK, StampsAreOwn, [HttpNext]_httpVars PROVE StampsAreOwn'
    OBVIOUS
  <2> USE DEF HttpTypeOK, StampsAreOwn, Goto, AfterResponse
  <2>1. ASSUME NEW s \in Sockets, Open(s) PROVE StampsAreOwn'
    BY <2>1 DEF Open
  <2>2. ASSUME NEW s \in Sockets, Close(s) PROVE StampsAreOwn'
    BY <2>2 DEF Close, Known
  <2>3. ASSUME NEW s \in Sockets, kprobe_tcp_recvmsg(s) PROVE StampsAreOwn'
    <3>1. CASE thread[s] = "ready"
      BY <2>3, <3>1 DEF kprobe_tcp_recvmsg, Wait
    <3>2. CASE thread[s] = "serving"
      BY <2>3, <3>2 DEF kprobe_tcp_recvmsg
    <3> QED BY <2>3, <3>1, <3>2 DEF kprobe_tcp_recvmsg
  <2>4. ASSUME NEW s \in Sockets, Stamp(s) PROVE StampsAreOwn'
    BY <2>4 DEF Stamp
  <2>5. ASSUME NEW s \in Sockets, Mark(s) PROVE StampsAreOwn'
    BY <2>5 DEF Mark
  <2>6. ASSUME NEW s \in Sockets, RequestSent(s) PROVE StampsAreOwn'
    BY <2>6 DEF RequestSent
  <2>7. ASSUME NEW s \in Sockets, ResponseSkipped(s) PROVE StampsAreOwn'
    BY <2>7 DEF ResponseSkipped, Known
  <2>8. ASSUME NEW s \in Sockets, ResponseCaptured(s) PROVE StampsAreOwn'
    BY <2>8 DEF ResponseCaptured
  <2>9. ASSUME NEW s \in Sockets, Unstamp(s) PROVE StampsAreOwn'
    BY <2>9 DEF Unstamp, Unstamped
  <2>10. ASSUME NEW s \in Sockets, Clear(s) PROVE StampsAreOwn'
    BY <2>10 DEF Clear
  <2>11. ASSUME UNCHANGED httpVars PROVE StampsAreOwn'
    BY <2>11 DEF httpVars
  <2> QED
    BY <2>1, <2>2, <2>3, <2>4, <2>5, <2>6, <2>7, <2>8, <2>9, <2>10, <2>11 DEF HttpNext
<1>3. HttpTypeOK /\ StampsAreOwn /\ DurationsArePaired /\ [HttpNext]_httpVars
        => DurationsArePaired'
  <2> SUFFICES ASSUME HttpTypeOK, StampsAreOwn, DurationsArePaired, [HttpNext]_httpVars
               PROVE  DurationsArePaired'
    OBVIOUS
  <2>1. ASSUME NEW s \in Sockets, ResponseCaptured(s) PROVE DurationsArePaired'
    BY <2>1 DEF ResponseCaptured, StampsAreOwn, DurationsArePaired, HttpTypeOK
  <2>2. ASSUME UNCHANGED event PROVE DurationsArePaired'
    BY <2>2 DEF DurationsArePaired
  <2> QED
    BY <2>1, <2>2 DEF HttpNext, httpVars, Open, Close, kprobe_tcp_recvmsg, Stamp, Mark,
                      RequestSent, ResponseSkipped, Unstamp, Clear
<1>4. HttpSpec => []HttpTypeOK
  BY HttpTypeCorrect
<1> QED BY <1>1, <1>2, <1>3, <1>4, PTL DEF HttpSpec
-----------------------------------------------------------------------------
(***************************************************************************)
(* KernelCounters.                                                         *)
(***************************************************************************)

Wired ==
  /\ \A g, h \in Cgroups : Present(g) /\ element[g] = element[h] => g = h
  /\ \A c, d \in Cpus : spare[c] = spare[d] => c = d
  /\ \A g \in Cgroups, c \in Cpus : element[g] # spare[c]
  /\ \A c \in Cpus : held[c] \notin Free

Working ==
  /\ \A c \in Cpus : key[c] # None => key[c] \in Keys /\ key[c][2] \in Counted(c)
  /\ \A c \in Cpus : seen[c] # None => c \in Busy /\ held[c] # None /\ kind = "periods"

Alone ==
  /\ \A c, d \in Cpus :
       /\ key[c] # None /\ key[d] # None /\ key[c][1] = key[d][1]
       /\ kind # "queries" /\ key[c][1] \notin met
       => c = d
  /\ kind = "queries" => met = {}

Holders ==
  \A c \in Cpus :
    key[c] # None /\ held[c] # None =>
      /\ Present(key[c][1])
      /\ key[c][1] \notin met => held[c] = element[key[c][1]]
      /\ \A g \in Cgroups \ met : held[c] = element[g] => g = key[c][1]

Missing ==
  \A c \in Cpus :
    key[c] # None /\ held[c] = None /\ key[c][1] \notin met =>
      /\ kind = "queries" \/ ~Present(key[c][1])
      /\ key[c][1] \notin refused => fired[key[c]] = 0

NothingBefore ==
  \A k \in Keys : ~Present(k[1]) /\ k[1] \notin refused => fired[k] = 0

WhatIsSeen ==
  \A c \in Cpus :
    key[c] # None /\ seen[c] # None /\ key[c][1] \notin met => seen[c] = count(key[c])

-----------------------------------------------------------------------------
\* A key is a cgroup and a field, and no others make the same.
LEMMA KeyParts ==
  /\ \A k \in Keys : k[1] \in Cgroups /\ k[2] \in Fields /\ k = <<k[1], k[2]>>
  /\ \A g \in Cgroups, f \in Fields :
       <<g, f>> \in Keys /\ <<g, f>>[1] = g /\ <<g, f>>[2] = f
  /\ \A k, l \in Keys : k[1] = l[1] /\ k[2] = l[2] => k = l
BY DEF Keys

\* A hook counts in a field of the entries.
LEMMA CountedAreFields == \A c \in Cpus : Counted(c) \subseteq Fields
BY DEF Counted, Fields

\* Every variable keeps its type.
THEOREM CountersTypeCorrect == CountersSpec => []CountersTypeOK
<1>1. CountersInit => CountersTypeOK
  BY DEF CountersInit, CountersTypeOK, Elements
<1>2. CountersTypeOK /\ [CountersNext]_counterVars => CountersTypeOK'
  <2> SUFFICES ASSUME CountersTypeOK, [CountersNext]_counterVars PROVE CountersTypeOK'
    OBVIOUS
  <2> USE DEF CountersTypeOK
  <2>0. ASSUME NEW cpu \in Cpus, cpu \in Busy, Return(cpu)
        PROVE  /\ key' \in [Cpus -> Keys \cup {None}]
               /\ held' \in [Cpus -> Elements \cup {None}]
               /\ seen' \in [Cpus -> Nat \cup {None}]
               /\ fired' \in [Keys -> Nat]
    BY <2>0 DEF Return, Busy
  <2>10. ASSUME NEW cpu \in Cpus, cpu \in Busy
        PROVE  key[cpu] \in Keys /\ key[cpu][1] \in Cgroups /\ key[cpu][2] \in Fields
    BY <2>10, KeyParts DEF Busy
  <2>11. ASSUME NEW cpu \in Cpus PROVE NewEntry(cpu) \in [Fields -> Nat]
    BY DEF NewEntry, FirstValue
  <2>1. ASSUME NEW cpu \in Cpus, NEW g \in Cgroups, Lookup(cpu, g) PROVE CountersTypeOK'
    <3>1. PICK f \in Counted(cpu) : key' = [key EXCEPT ![cpu] = <<g, f>>]
      BY <2>1 DEF Lookup
    <3>2. <<g, f>> \in Keys
      BY CountedAreFields, KeyParts
    <3> QED BY <2>1, <3>1, <3>2 DEF Lookup
  <2>2. ASSUME NEW cpu \in Cpus, Add(cpu) PROVE CountersTypeOK'
    BY <2>0, <2>2, <2>10 DEF Add
  <2>3. ASSUME NEW cpu \in Cpus, Load(cpu) PROVE CountersTypeOK'
    BY <2>3, <2>10 DEF Load
  <2>4. ASSUME NEW cpu \in Cpus, Store(cpu) PROVE CountersTypeOK'
    <3>1. seen[cpu] + 1 \in Nat
      BY <2>4 DEF Store
    <3>2. value' \in [Elements -> [Fields -> Nat]]
      <4>1. CASE held[cpu] \in Elements
        BY <2>4, <2>10, <3>1, <4>1 DEF Store
      <4>2. CASE held[cpu] \notin Elements
        BY <2>4, <4>2 DEF Store
      <4> QED BY <4>1, <4>2
    <3> QED BY <2>0, <2>4, <3>2 DEF Store
  <2>5. ASSUME NEW cpu \in Cpus, InsertNew(cpu) PROVE CountersTypeOK'
    BY <2>0, <2>5, <2>10, <2>11 DEF InsertNew, Missed, Free
  <2>6. ASSUME NEW cpu \in Cpus, InsertFails(cpu) PROVE CountersTypeOK'
    BY <2>0, <2>6, <2>10 DEF InsertFails, Missed
  <2>7. ASSUME NEW cpu \in Cpus, InsertOver(cpu) PROVE CountersTypeOK'
    BY <2>0, <2>7, <2>10, <2>11 DEF InsertOver, Missed, Present
  <2>8. ASSUME NEW cpu \in Cpus, InsertInPlace(cpu) PROVE CountersTypeOK'
    BY <2>0, <2>8, <2>10 DEF InsertInPlace, Missed, Present, FirstValue, Fields
  <2>9. ASSUME UNCHANGED counterVars PROVE CountersTypeOK'
    BY <2>9 DEF counterVars
  <2> QED BY <2>1, <2>2, <2>3, <2>4, <2>5, <2>6, <2>7, <2>8, <2>9 DEF CountersNext
<1> QED BY <1>1, <1>2, PTL DEF CountersSpec
-----------------------------------------------------------------------------
\* What the kernel's elements are shared out to stays so.
LEMMA WiredAndWorking ==
  ASSUME CountersAssumption PROVE CountersSpec => [](Wired /\ Working)
<1> USE CountersAssumption DEF CountersAssumption
<1>1. CountersInit => Wired /\ Working
  <2> SUFFICES ASSUME CountersInit PROVE Wired /\ Working
    OBVIOUS
  <2>1. Working /\ \A c \in Cpus : held[c] \notin Free
    BY DEF CountersInit, Working, Free, Elements
  <2> QED BY <2>1 DEF CountersInit, Wired, Present, Elements
<1>2. CountersTypeOK /\ Wired /\ Working /\ [CountersNext]_counterVars => Wired' /\ Working'
  <2> SUFFICES ASSUME CountersTypeOK, Wired, Working, [CountersNext]_counterVars
               PROVE  Wired' /\ Working'
    OBVIOUS
  <2> USE DEF CountersTypeOK
  <2>0. ASSUME UNCHANGED <<element, spare>>,
               \A c \in Cpus : held'[c] \in {held[c], None} \cup {element[g] : g \in Cgroups}
        PROVE  Wired'
    <3>1. Free' = Free /\ None \notin Free
      BY <2>0 DEF Free
    <3>2. \A g \in Cgroups : element[g] \notin Free
      BY DEF Free
    <3>3. \A c \in Cpus : held'[c] \notin Free'
      BY <2>0, <3>1, <3>2 DEF Wired
    <3> QED BY <2>0, <3>3 DEF Wired, Present
  <2>9. ASSUME NEW cpu \in Cpus, Return(cpu), kind' = kind
        PROVE  Working' /\ \A c \in Cpus : held'[c] \in {held[c], None}
    BY <2>9 DEF Return, Working, Counted, Busy
  <2>1. ASSUME NEW cpu \in Cpus, NEW g \in Cgroups, Lookup(cpu, g) PROVE Wired' /\ Working'
    <3>1. PICK f \in Counted(cpu) : key' = [key EXCEPT ![cpu] = <<g, f>>]
      BY <2>1 DEF Lookup
    <3>2. <<g, f>> \in Keys /\ <<g, f>>[2] = f
      BY CountedAreFields, KeyParts
    <3>3. /\ held' = [held EXCEPT ![cpu] = element[g]] /\ key[cpu] = None
          /\ UNCHANGED <<kind, element, spare, seen>>
      BY <2>1 DEF Lookup
    <3>4. seen[cpu] = None
      BY <3>3 DEF Working, Busy
    <3>5. Working'
      BY <3>1, <3>2, <3>3, <3>4 DEF Working, Counted, Busy
    <3> QED BY <2>0, <3>3, <3>5
  <2>2. ASSUME NEW cpu \in Cpus, Add(cpu) \/ Store(cpu) \/ InsertFails(cpu) \/ InsertInPlace(cpu)
        PROVE  Wired' /\ Working'
    BY <2>0, <2>2, <2>9 DEF Add, Store, InsertFails, InsertInPlace
  <2>3. ASSUME NEW cpu \in Cpus, Load(cpu) PROVE Wired' /\ Working'
    <3>1. Working'
      BY <2>3 DEF Load, Working, Counted, AddsAtOnce, Busy
    <3> QED BY <2>0, <2>3, <3>1 DEF Load
  <2>4. ASSUME NEW cpu \in Cpus, InsertNew(cpu) PROVE Wired' /\ Working'
    <3> DEFINE g == key[cpu][1]
    <3>1. PICK e \in Free : element' = [element EXCEPT ![g] = e]
      BY <2>4 DEF InsertNew
    <3>2. /\ g \in Cgroups /\ spare' = spare /\ ~Present(g)
          /\ \A c \in Cpus : held'[c] \in {held[c], None}
      BY <2>4, <2>9, KeyParts DEF InsertNew, Missed, Busy, Working
    <3> HIDE DEF g
    <3>3. /\ \A h \in Cgroups : e # element[h]
          /\ \A c \in Cpus : e # spare[c]
          /\ e \in Elements
      BY DEF Free
    <3>4. /\ \A c, d \in Cpus : spare'[c] = spare'[d] => c = d
          /\ \A h \in Cgroups, c \in Cpus : element'[h] # spare'[c]
          /\ \A h, i \in Cgroups : Present(h)' /\ element'[h] = element'[i] => h = i
      BY <3>1, <3>2, <3>3 DEF Wired, Present
    <3>5. Free' \subseteq Free
      BY <3>1, <3>2 DEF Free, Present
    <3>6. \A c \in Cpus : held'[c] \notin Free'
      BY <3>2, <3>5 DEF Wired, Free
    <3> QED BY <2>4, <2>9, <3>4, <3>6 DEF Wired, InsertNew
  <2>5. ASSUME NEW cpu \in Cpus, InsertOver(cpu) PROVE Wired' /\ Working'
    <3> DEFINE g == key[cpu][1]
    <3>1. /\ g \in Cgroups /\ Present(g)
          /\ element' = [element EXCEPT ![g] = spare[cpu]]
          /\ spare' = [spare EXCEPT ![cpu] = element[g]]
          /\ \A c \in Cpus : held'[c] \in {held[c], None}
      BY <2>5, <2>9, KeyParts DEF InsertOver, Missed, Busy, Working
    <3> HIDE DEF g
    <3>2. /\ \A c, d \in Cpus : spare'[c] = spare'[d] => c = d
          /\ \A h \in Cgroups, c \in Cpus : element'[h] # spare'[c]
      BY <3>1 DEF Wired, Present
    <3>3. \A h, i \in Cgroups : Present(h)' /\ element'[h] = element'[i] => h = i
      BY <3>1 DEF Wired, Present
    <3>4. Free' \subseteq Free
      BY <3>1 DEF Free
    <3>5. \A c \in Cpus : held'[c] \notin Free'
      BY <3>1, <3>4 DEF Wired, Free
    <3> QED BY <2>5, <2>9, <3>2, <3>3, <3>5 DEF Wired, InsertOver
  <2>6. CASE UNCHANGED counterVars
    BY <2>6, <2>0 DEF counterVars, Working, Counted, Busy
  <2> QED BY <2>1, <2>2, <2>3, <2>4, <2>5, <2>6 DEF CountersNext
<1>3. CountersSpec => []CountersTypeOK
  BY CountersTypeCorrect
<1> QED BY <1>1, <1>2, <1>3, PTL DEF CountersSpec
-----------------------------------------------------------------------------
\* The entries of the cgroups at which no two CPUs have met are those of their
\* hooks.
CountsInv == Alone /\ Holders /\ Missing /\ NothingBefore /\ WhatIsSeen /\ CountsAreExact

\* A hook that returns leaves fewer at work.
LEMMA ReturnKeepsAlone ==
  ASSUME CountersTypeOK, Alone, NEW cpu \in Cpus, Return(cpu), UNCHANGED <<kind, met>>
  PROVE  Alone'
BY DEF CountersTypeOK, Alone, Return

\* A count is exact unless two CPUs were at work for its cgroup at a time or
\* the map had no room, but for the period that trace_cfs_throttle begins with;
\* the per-CPU counts of dns_trace.c always are.
THEOREM CountsAreExactAlways ==
  ASSUME CountersAssumption PROVE CountersSpec => []CountsAreExact
<1> USE CountersAssumption DEF CountersAssumption
<1>1. CountersInit => CountsInv
  <2> SUFFICES ASSUME CountersInit PROVE CountsInv
    OBVIOUS
  <2>1. \A k \in Keys : count(k) = 0 /\ fired[k] = 0
    BY KeyParts DEF CountersInit, count, Present
  <2>2. CountsAreExact
    BY <2>1 DEF CountersInit, CountsAreExact
  <2> QED
    BY <2>1, <2>2 DEF CountersInit, CountsInv, Alone, Holders, Missing, NothingBefore, WhatIsSeen
<1>2. /\ CountersTypeOK /\ CountersTypeOK' /\ Wired /\ Wired' /\ Working /\ CountsInv
      /\ [CountersNext]_counterVars
      => CountsInv'
  <2> SUFFICES ASSUME CountersTypeOK, CountersTypeOK', Wired, Wired', Working, CountsInv,
                      [CountersNext]_counterVars
               PROVE  CountsInv'
    OBVIOUS
  <2> USE DEF CountersTypeOK
  <2>0. Alone /\ Holders /\ Missing /\ NothingBefore /\ WhatIsSeen /\ CountsAreExact
    BY DEF CountsInv
  <2>1. ASSUME NEW cpu \in Cpus, NEW g \in Cgroups, Lookup(cpu, g) PROVE CountsInv'
    <3>1. PICK f \in Counted(cpu) : key' = [key EXCEPT ![cpu] = <<g, f>>]
      BY <2>1 DEF Lookup
    <3>2. /\ <<g, f>> \in Keys /\ <<g, f>>[1] = g /\ <<g, f>>[2] = f
          /\ key'[cpu] = <<g, f>> /\ key'[cpu] # None
      BY <3>1, CountedAreFields, KeyParts
    <3>3. /\ key[cpu] = None
          /\ held' = [held EXCEPT ![cpu] = element[g]]
          /\ met' = IF kind = "queries" \/ AtWork(g) = {} THEN met ELSE met \cup {g}
          /\ UNCHANGED <<kind, element, spare, value, seen, fired, refused>>
      BY <2>1 DEF Lookup
    <3>4. met \subseteq met' /\ (kind = "queries" => met' = {})
      BY <2>0, <3>3 DEF Alone
    <3>5. Alone'
      <4>1. ASSUME NEW c \in Cpus, NEW d \in Cpus,
                   key'[c] # None, key'[d] # None, key'[c][1] = key'[d][1],
                   kind # "queries", key'[c][1] \notin met'
            PROVE  c = d
        <5>1. CASE c # cpu /\ d # cpu
          BY <2>0, <3>1, <3>4, <4>1, <5>1 DEF Alone
        <5>2. CASE c = cpu /\ d # cpu
          BY <3>1, <3>2, <3>3, <4>1, <5>2 DEF AtWork, Busy
        <5>3. CASE c # cpu /\ d = cpu
          BY <3>1, <3>2, <3>3, <4>1, <5>3 DEF AtWork, Busy
        <5> QED BY <5>1, <5>2, <5>3
      <4> QED BY <3>3, <3>4, <4>1 DEF Alone
    <3>6. \A k \in Keys : count(k)' = count(k)
      BY <3>3 DEF count, Present
    <3>7. Holders'
      <4>1. ASSUME NEW c \in Cpus, c # cpu, key'[c] # None, held'[c] # None
            PROVE  /\ Present(key[c][1])'
                   /\ key'[c][1] \notin met' => held'[c] = element'[key'[c][1]]
                   /\ \A h \in Cgroups \ met' : held'[c] = element'[h] => h = key'[c][1]
        BY <2>0, <3>1, <3>3, <3>4, <4>1 DEF Holders, Present
      <4>2. /\ key'[cpu][1] = g /\ held'[cpu] = element[g] /\ element' = element
        BY <3>2, <3>3
      <4>3. ASSUME held'[cpu] # None
            PROVE  /\ Present(key[cpu][1])'
                   /\ held'[cpu] = element'[key'[cpu][1]]
                   /\ \A h \in Cgroups \ met' : held'[cpu] = element'[h] => h = key'[cpu][1]
        BY <4>2, <4>3 DEF Wired, Present
      <4> QED BY <4>1, <4>3 DEF Holders
    <3>8. Missing'
      <4>1. ASSUME NEW c \in Cpus, c # cpu, key'[c] # None, held'[c] = None,
                   key'[c][1] \notin met'
            PROVE  /\ kind' = "queries" \/ ~Present(key[c][1])'
                   /\ key'[c][1] \notin refused' => fired'[key'[c]] = 0
        BY <2>0, <3>1, <3>3, <3>4, <4>1 DEF Missing, Present
      <4>2. ASSUME held'[cpu] = None
            PROVE  /\ kind' = "queries" \/ ~Present(key[cpu][1])'
                   /\ key'[cpu][1] \notin refused' => fired'[key'[cpu]] = 0
        BY <2>0, <3>2, <3>3, <4>2 DEF NothingBefore, Present
      <4> QED BY <4>1, <4>2 DEF Missing
    <3>9. NothingBefore'
      BY <2>0, <3>3 DEF NothingBefore, Present
    <3>10. WhatIsSeen'
      <4>1. seen[cpu] = None
        BY <3>3 DEF Working, Busy
      <4>2. \A c \in Cpus \ {cpu} : key'[c] = key[c]
        BY <3>1
      <4>3. \A c \in Cpus : key[c] # None => key[c] \in Keys
        OBVIOUS
      <4> QED BY <2>0, <3>3, <3>4, <3>6, <4>1, <4>2, <4>3 DEF WhatIsSeen
    <3>11. CountsAreExact'
      BY <2>0, <3>3, <3>4, <3>6 DEF CountsAreExact
    <3> QED BY <3>5, <3>7, <3>8, <3>9, <3>10, <3>11 DEF CountsInv
  <2>8. ASSUME NEW cpu \in Cpus, cpu \in Busy, Return(cpu), UNCHANGED <<kind, met>>
        PROVE  /\ Alone'
               /\ key[cpu] \in Keys /\ key[cpu][1] \in Cgroups /\ key[cpu][2] \in Fields
               /\ key'[cpu] = None
               /\ \A c \in Cpus \ {cpu} :
                    key'[c] = key[c] /\ held'[c] = held[c] /\ seen'[c] = seen[c]
               /\ \A k \in Keys : fired'[k] = IF k = key[cpu] THEN fired[k] + 1 ELSE fired[k]
               /\ \A c \in Cpus \ {cpu} :
                    key[c] # None /\ key[c] = key[cpu] => key[c][1] \in met
    <3>1. Alone'
      BY <2>0, <2>8, ReturnKeepsAlone
    <3>2. key[cpu] \in Keys /\ key[cpu][1] \in Cgroups /\ key[cpu][2] \in Fields
      BY <2>8, KeyParts DEF Busy
    <3>3. \A c \in Cpus \ {cpu} : key[c] # None /\ key[c] = key[cpu] => key[c][1] \in met
      <4> SUFFICES ASSUME NEW c \in Cpus \ {cpu}, key[c] # None, key[c] = key[cpu]
                   PROVE  key[c][1] \in met
        OBVIOUS
      <4>1. /\ key[c][2] \in Counted(c) /\ key[cpu][2] \in Counted(cpu)
            /\ key[c][2] = key[cpu][2] /\ c # cpu
        BY DEF Working
      <4>2. kind # "queries"
        BY <4>1 DEF Counted
      <4> QED BY <2>0, <2>8, <4>2 DEF Alone, Busy
    <3> QED BY <2>8, <3>1, <3>2, <3>3 DEF Return
  <2>9. ASSUME NEW cpu \in Cpus, cpu \in Busy, Return(cpu),
               UNCHANGED <<kind, met, element>>, refused \subseteq refused',
               key[cpu][1] \notin refused' => Present(key[cpu][1]),
               \A k \in Keys : k[1] \notin met \cup refused' =>
                 count(k)' = IF k = key[cpu] THEN count(k) + 1 ELSE count(k),
               \A k \in Keys : k[1] \notin met /\ k # key[cpu] => count(k)' = count(k)
        PROVE  CountsInv'
    <3>1. /\ Alone'
          /\ key[cpu] \in Keys /\ key[cpu][1] \in Cgroups /\ key'[cpu] = None
          /\ \A c \in Cpus \ {cpu} :
               key'[c] = key[c] /\ held'[c] = held[c] /\ seen'[c] = seen[c]
          /\ \A k \in Keys : fired'[k] = IF k = key[cpu] THEN fired[k] + 1 ELSE fired[k]
          /\ \A c \in Cpus \ {cpu} : key[c] # None /\ key[c] = key[cpu] => key[c][1] \in met
      BY <2>8, <2>9
    <3>2. \A k \in Keys : Present(k[1])' = Present(k[1])
      BY <2>9 DEF Present
    <3>3. Holders'
      <4> SUFFICES ASSUME NEW c \in Cpus, key'[c] # None, held'[c] # None
                   PROVE  /\ Present(key[c][1])'
                          /\ key'[c][1] \notin met' => held'[c] = element'[key'[c][1]]
                          /\ \A h \in Cgroups \ met' :
                               held'[c] = element'[h] => h = key'[c][1]
        BY DEF Holders
      <4>1. c # cpu /\ key'[c] = key[c] /\ held'[c] = held[c]
        BY <3>1
      <4> QED BY <2>0, <2>9, <4>1 DEF Holders, Present
    <3>4. Missing'
      <4> SUFFICES ASSUME NEW c \in Cpus, key'[c] # None, held'[c] = None,
                          key'[c][1] \notin met'
                   PROVE  /\ kind' = "queries" \/ ~Present(key[c][1])'
                          /\ key'[c][1] \notin refused' => fired'[key'[c]] = 0
        BY DEF Missing
      <4>1. c # cpu /\ key'[c] = key[c] /\ key[c] \in Keys /\ key[c] # key[cpu]
        BY <2>9, <3>1
      <4>2. /\ kind = "queries" \/ ~Present(key[c][1])
            /\ key[c][1] \notin refused => fired[key[c]] = 0
        BY <2>0, <2>9, <3>1, <4>1 DEF Missing
      <4> QED BY <2>9, <3>1, <3>2, <4>1, <4>2
    <3>5. NothingBefore'
      <4> SUFFICES ASSUME NEW k \in Keys, ~Present(k[1])', k[1] \notin refused'
                   PROVE  fired'[k] = 0
        BY DEF NothingBefore
      <4>1. ~Present(k[1]) /\ k[1] \notin refused /\ k # key[cpu]
        BY <2>9, <3>2
      <4> QED BY <2>0, <3>1, <4>1 DEF NothingBefore
    <3>6. WhatIsSeen'
      <4> SUFFICES ASSUME NEW c \in Cpus, key'[c] # None, seen'[c] # None,
                          key'[c][1] \notin met'
                   PROVE  seen'[c] = count(key[c])'
        BY DEF WhatIsSeen
      <4>1. /\ c # cpu /\ key'[c] = key[c] /\ key[c] \in Keys /\ key[c] # key[cpu]
            /\ seen'[c] = seen[c]
        BY <2>9, <3>1
      <4>2. seen[c] = count(key[c])
        BY <2>0, <2>9, <4>1 DEF WhatIsSeen
      <4>3. count(key[c])' = count(key[c])
        BY <2>9, <4>1
      <4> QED BY <4>1, <4>2, <4>3 DEF count, Present
    <3>7. CountsAreExact'
      <4>1. ASSUME NEW k \in Keys, k[1] \notin met' \cup refused'
            PROVE  IF kind' = "periods" /\ k[2] = Total
                   THEN count(k)' \in {fired'[k], fired'[k] + 1}
                   ELSE count(k)' = fired'[k]
        <5>1. IF kind = "periods" /\ k[2] = Total
              THEN count(k) \in {fired[k], fired[k] + 1}
              ELSE count(k) = fired[k]
          BY <2>0, <2>9, <4>1 DEF CountsAreExact
        <5>2. count(k)' = IF k = key[cpu] THEN count(k) + 1 ELSE count(k)
          BY <2>9, <4>1
        <5>3. fired'[k] = IF k = key[cpu] THEN fired[k] + 1 ELSE fired[k]
          BY <3>1
        <5> QED BY <2>9, <5>1, <5>2, <5>3
      <4> QED BY <2>0, <2>9, <4>1 DEF CountsAreExact
    <3> QED BY <3>1, <3>3, <3>4, <3>5, <3>6, <3>7 DEF CountsInv
  <2>10. ASSUME NEW cpu \in Cpus, NEW v, cpu \in Busy, held[cpu] # None,
                value' = [value EXCEPT ![held[cpu]][key[cpu][2]] = v],
                Return(cpu), UNCHANGED <<kind, element, met, refused>>,
                key[cpu][1] \notin met => v = count(key[cpu]) + 1
         PROVE  CountsInv'
    <3>1. /\ key[cpu] \in Keys /\ key[cpu][1] \in Cgroups /\ key[cpu][2] \in Fields
          /\ key[cpu] # None /\ held[cpu] \in Elements
      BY <2>10, KeyParts DEF Busy
    <3>2. /\ key[cpu][1] \notin met => held[cpu] = element[key[cpu][1]]
          /\ \A g \in Cgroups \ met : held[cpu] = element[g] => g = key[cpu][1]
      BY <2>0, <2>10, <3>1 DEF Holders
    <3>3. \A e \in Elements, f \in Fields :
            value'[e][f] = IF e = held[cpu] /\ f = key[cpu][2] THEN v ELSE value[e][f]
      BY <2>10, <3>1
    <3>4. \A k \in Keys : k[1] \notin met =>
            count(k)' = IF k = key[cpu] THEN count(k) + 1 ELSE count(k)
      <4> SUFFICES ASSUME NEW k \in Keys, k[1] \notin met
                   PROVE  count(k)' = IF k = key[cpu] THEN count(k) + 1 ELSE count(k)
        OBVIOUS
      <4>1. k[1] \in Cgroups /\ k[2] \in Fields
            /\ (k[1] = key[cpu][1] /\ k[2] = key[cpu][2] <=> k = key[cpu])
        BY <3>1, KeyParts
      <4>2. CASE Present(k[1])
        <5>1. element[k[1]] \in Elements
          BY <4>1, <4>2 DEF Present
        <5>2. count(k)' = value'[element[k[1]]][k[2]] /\ count(k) = value[element[k[1]]][k[2]]
          BY <2>10, <4>2 DEF count, Present
        <5> QED BY <2>10, <3>2, <3>3, <4>1, <5>1, <5>2
      <4>3. CASE ~Present(k[1])
        BY <2>10, <3>2, <4>1, <4>3 DEF count, Present
      <4> QED BY <4>2, <4>3
    <3>5. Present(key[cpu][1])
      BY <2>0, <2>10, <3>1 DEF Holders
    <3> QED BY <2>9, <2>10, <3>4, <3>5
  <2>2. ASSUME NEW cpu \in Cpus, Add(cpu) PROVE CountsInv'
    <3> DEFINE v == value[held[cpu]][key[cpu][2]] + 1
    <3>1. /\ cpu \in Busy /\ held[cpu] # None /\ Return(cpu)
          /\ value' = [value EXCEPT ![held[cpu]][key[cpu][2]] = v]
          /\ UNCHANGED <<kind, element, met, refused>>
      BY <2>2 DEF Add
    <3>2. key[cpu][1] \notin met => v = count(key[cpu]) + 1
      BY <2>0, <3>1 DEF Holders, count, Present, Busy
    <3> HIDE DEF v
    <3> QED BY <2>10, <3>1, <3>2
  <2>3. ASSUME NEW cpu \in Cpus, Load(cpu) PROVE CountsInv'
    <3>1. /\ cpu \in Busy /\ held[cpu] # None
          /\ seen' = [seen EXCEPT ![cpu] = value[held[cpu]][key[cpu][2]]]
          /\ UNCHANGED <<kind, element, value, key, held, fired, met, refused>>
      BY <2>3 DEF Load
    <3>2. \A k \in Keys : count(k)' = count(k)
      BY <3>1 DEF count, Present
    <3>3. key[cpu][1] \notin met => value[held[cpu]][key[cpu][2]] = count(key[cpu])
      BY <2>0, <3>1 DEF Holders, count, Present, Busy
    <3>4. WhatIsSeen'
      <4> SUFFICES ASSUME NEW c \in Cpus, key'[c] # None, seen'[c] # None,
                          key'[c][1] \notin met'
                   PROVE  seen'[c] = count(key[c])'
        BY DEF WhatIsSeen
      <4>1. count(key[c])' = count(key[c]) /\ key'[c] = key[c]
        BY <3>1 DEF count, Present
      <4> QED BY <2>0, <3>1, <3>3, <4>1 DEF WhatIsSeen
    <3>5. Alone' /\ Holders' /\ Missing' /\ NothingBefore'
      BY <2>0, <3>1 DEF Alone, Holders, Missing, NothingBefore, Present
    <3>6. CountsAreExact'
      BY <2>0, <3>1, <3>2 DEF CountsAreExact
    <3> QED BY <3>4, <3>5, <3>6 DEF CountsInv
  <2>4. ASSUME NEW cpu \in Cpus, Store(cpu) PROVE CountsInv'
    <3> DEFINE v == seen[cpu] + 1
    <3>1. /\ cpu \in Busy /\ held[cpu] # None /\ Return(cpu)
          /\ value' = [value EXCEPT ![held[cpu]][key[cpu][2]] = v]
          /\ UNCHANGED <<kind, element, met, refused>>
      BY <2>4 DEF Store, Working
    <3>2. key[cpu][1] \notin met => v = count(key[cpu]) + 1
      BY <2>0, <2>4 DEF Store, WhatIsSeen, Busy
    <3> HIDE DEF v
    <3> QED BY <2>10, <3>1, <3>2
  <2>5. ASSUME NEW cpu \in Cpus, InsertNew(cpu) PROVE CountsInv'
    <3> DEFINE g == key[cpu][1]
    <3>1. /\ cpu \in Busy /\ Return(cpu) /\ UNCHANGED <<kind, spare, met, refused>>
          /\ held[cpu] = None /\ key[cpu] # None /\ ~Present(g)
      BY <2>5 DEF InsertNew, Missed, Busy
    <3>2. PICK e \in Free : /\ element' = [element EXCEPT ![g] = e]
                            /\ value' = [value EXCEPT ![e] = NewEntry(cpu)]
      BY <2>5 DEF InsertNew
    <3>3. /\ Alone'
          /\ key[cpu] \in Keys /\ g \in Cgroups /\ key'[cpu] = None
          /\ \A c \in Cpus \ {cpu} :
               key'[c] = key[c] /\ held'[c] = held[c] /\ seen'[c] = seen[c]
          /\ \A k \in Keys : fired'[k] = IF k = key[cpu] THEN fired[k] + 1 ELSE fired[k]
          /\ \A c \in Cpus \ {cpu} : key[c] # None /\ key[c] = key[cpu] => key[c][1] \in met
      BY <2>8, <3>1
    <3>4. \A c \in Cpus \ {cpu} :
            key[c] # None /\ key[c][1] = g /\ kind # "queries" => g \in met
      BY <2>0, <3>1 DEF Alone
    <3> HIDE DEF g
    <3>5. /\ e \in Elements /\ e # None
          /\ \A h \in Cgroups : element[h] # e
          /\ \A h \in Cgroups \ {g} : element'[h] = element[h]
          /\ element'[g] = e
      BY <3>2, <3>3 DEF Free
    <3>6. \A k \in Keys : count(k)' = IF k[1] = g THEN NewEntry(cpu)[k[2]] ELSE count(k)
      <4> SUFFICES ASSUME NEW k \in Keys
                   PROVE  count(k)' = IF k[1] = g THEN NewEntry(cpu)[k[2]] ELSE count(k)
        OBVIOUS
      <4>1. k[1] \in Cgroups /\ k[2] \in Fields
        BY KeyParts
      <4>2. CASE k[1] = g
        BY <3>2, <3>5, <4>1, <4>2 DEF count, Present
      <4>3. CASE k[1] # g
        BY <3>2, <3>5, <4>1, <4>3 DEF count, Present
      <4> QED BY <4>2, <4>3
    <3>7. Holders'
      <4> SUFFICES ASSUME NEW c \in Cpus, key'[c] # None, held'[c] # None
                   PROVE  /\ Present(key[c][1])'
                          /\ key'[c][1] \notin met' => held'[c] = element'[key'[c][1]]
                          /\ \A h \in Cgroups \ met' :
                               held'[c] = element'[h] => h = key'[c][1]
        BY DEF Holders
      <4>1. c # cpu /\ key'[c] = key[c] /\ held'[c] = held[c] /\ key[c][1] \in Cgroups
        BY <3>3, KeyParts
      <4>2. held[c] # e
        BY DEF Wired
      <4> QED BY <2>0, <3>1, <3>5, <4>1, <4>2 DEF Holders, Present
    <3>8. Missing'
      <4> SUFFICES ASSUME NEW c \in Cpus, key'[c] # None, held'[c] = None,
                          key'[c][1] \notin met'
                   PROVE  /\ kind' = "queries" \/ ~Present(key[c][1])'
                          /\ key'[c][1] \notin refused' => fired'[key'[c]] = 0
        BY DEF Missing
      <4>1. /\ c # cpu /\ key'[c] = key[c] /\ held'[c] = held[c] /\ key[c] \in Keys
            /\ key[c][1] \in Cgroups /\ key[c] # key[cpu]
        BY <3>1, <3>3, KeyParts
      <4>2. fired'[key[c]] = fired[key[c]]
        BY <3>3, <4>1
      <4>3. kind = "queries" \/ key[c][1] # g
        BY <3>1, <3>4, <4>1
      <4>4. /\ kind = "queries" \/ ~Present(key[c][1])
            /\ key[c][1] \notin refused => fired[key[c]] = 0
        BY <2>0, <3>1, <4>1 DEF Missing
      <4> QED BY <3>1, <3>5, <4>1, <4>2, <4>3, <4>4 DEF Present
    <3>9. NothingBefore'
      <4> SUFFICES ASSUME NEW k \in Keys, ~Present(k[1])', k[1] \notin refused'
                   PROVE  fired'[k] = 0
        BY DEF NothingBefore
      <4>1. k[1] \in Cgroups
        BY KeyParts
      <4>2. k[1] # g
        BY <3>5 DEF Present
      <4>3. ~Present(k[1])
        BY <3>5, <4>1, <4>2 DEF Present
      <4>4. k # key[cpu]
        BY <4>2 DEF g
      <4>5. fired[k] = 0
        BY <2>0, <3>1, <4>3 DEF NothingBefore
      <4> QED BY <3>3, <4>4, <4>5
    <3>10. WhatIsSeen'
      <4> SUFFICES ASSUME NEW c \in Cpus, key'[c] # None, seen'[c] # None,
                          key'[c][1] \notin met'
                   PROVE  seen'[c] = count(key[c])'
        BY DEF WhatIsSeen
      <4>1. /\ c # cpu /\ key'[c] = key[c] /\ seen'[c] = seen[c] /\ key[c] \in Keys
        BY <3>3
      <4>2. held[c] = element[key[c][1]] /\ held[c] # None
        BY <2>0, <3>1, <4>1 DEF Working, Holders
      <4>3. key[c][1] # g
        BY <3>1, <4>2 DEF Present
      <4>4. count(key[c])' = count(key[c])
        BY <3>6, <4>1, <4>3 DEF count, Present
      <4> QED BY <2>0, <3>1, <4>1, <4>4 DEF WhatIsSeen
    <3>11. CountsAreExact'
      <4>1. ASSUME NEW k \in Keys, k[1] \notin met' \cup refused'
            PROVE  IF kind' = "periods" /\ k[2] = Total
                   THEN count(k)' \in {fired'[k], fired'[k] + 1}
                   ELSE count(k)' = fired'[k]
        <5>1. CASE k[1] # g
          <6>1. fired'[k] = fired[k] /\ count(k)' = count(k)
            <7>1. k # key[cpu]
              BY <5>1 DEF g
            <7> QED BY <3>3, <3>6, <5>1, <7>1
          <6>2. IF kind = "periods" /\ k[2] = Total
                THEN count(k) \in {fired[k], fired[k] + 1}
                ELSE count(k) = fired[k]
            BY <2>0, <3>1, <4>1 DEF CountsAreExact
          <6> QED BY <3>1, <6>1, <6>2
        <5>2. CASE k[1] = g
          <6>1. fired[k] = 0
            BY <2>0, <3>1, <4>1, <5>2 DEF NothingBefore
          <6>2. k[2] \in Fields /\ (k[2] = key[cpu][2] <=> k = key[cpu])
            BY <3>3, <5>2, KeyParts DEF g
          <6>3. count(k)' = IF k = key[cpu] \/ (kind = "periods" /\ k[2] = Total)
                            THEN 1 ELSE 0
            BY <3>6, <5>2, <6>2 DEF NewEntry, FirstValue
          <6> QED BY <3>1, <3>3, <6>1, <6>3
        <5> QED BY <5>1, <5>2
      <4> QED BY <2>0, <3>1, <4>1 DEF CountsAreExact
    <3> QED BY <3>3, <3>7, <3>8, <3>9, <3>10, <3>11 DEF CountsInv
  <2>6. ASSUME NEW cpu \in Cpus, InsertFails(cpu) PROVE CountsInv'
    <3>1. /\ cpu \in Busy /\ Return(cpu) /\ UNCHANGED <<kind, met, element, value>>
          /\ refused' = refused \cup {key[cpu][1]}
      BY <2>6 DEF InsertFails, Missed
    <3>2. \A k \in Keys : count(k)' = count(k)
      BY <3>1 DEF count, Present
    <3> QED BY <2>9, <3>1, <3>2
  <2>7. ASSUME NEW cpu \in Cpus, InsertInPlace(cpu) PROVE CountsInv'
    <3>1. /\ cpu \in Busy /\ Return(cpu) /\ UNCHANGED <<kind, met, element, refused>>
          /\ value' = [value EXCEPT ![element[key[cpu][1]]][cpu] = FirstValue]
          /\ Present(key[cpu][1]) /\ kind = "queries" /\ held[cpu] = None /\ key[cpu] # None
      BY <2>7 DEF InsertInPlace, Missed, Busy
    <3>2. key[cpu] \in Keys /\ key[cpu][1] \in Cgroups /\ key[cpu][2] = cpu /\ cpu \in Fields
      BY <3>1, KeyParts DEF Working, Counted, Fields
    <3>3. element[key[cpu][1]] \in Elements
      BY <3>1, <3>2 DEF Present
    <3>4. \A e \in Elements, f \in Fields :
            value'[e][f] = IF e = element[key[cpu][1]] /\ f = cpu THEN 1 ELSE value[e][f]
      BY <3>1, <3>2, <3>3 DEF FirstValue
    <3>5. ASSUME NEW k \in Keys
          PROVE  count(k)' = IF k = key[cpu] THEN 1 ELSE count(k)
      <4>1. k[1] \in Cgroups /\ k[2] \in Fields
            /\ (k[1] = key[cpu][1] /\ k[2] = cpu <=> k = key[cpu])
        BY <3>2, KeyParts
      <4>2. CASE Present(k[1])
        <5>1. element[k[1]] \in Elements
          BY <4>1, <4>2 DEF Present
        <5>2. count(k)' = value'[element[k[1]]][k[2]] /\ count(k) = value[element[k[1]]][k[2]]
          BY <3>1, <4>2 DEF count, Present
        <5>3. element[k[1]] = element[key[cpu][1]] => k[1] = key[cpu][1]
          BY <3>2, <4>1, <4>2 DEF Wired
        <5> QED BY <3>4, <4>1, <5>1, <5>2, <5>3
      <4>3. CASE ~Present(k[1])
        BY <3>1, <4>1, <4>3 DEF count, Present
      <4> QED BY <4>2, <4>3
    <3>6. key[cpu][1] \notin met \cup refused => count(key[cpu]) = 0
      BY <2>0, <3>1, <3>2 DEF Missing, CountsAreExact
    <3>7. \A k \in Keys : k[1] \notin met \cup refused' =>
            count(k)' = IF k = key[cpu] THEN count(k) + 1 ELSE count(k)
      BY <3>1, <3>5, <3>6
    <3>8. \A k \in Keys : k[1] \notin met /\ k # key[cpu] => count(k)' = count(k)
      BY <3>5
    <3> QED BY <2>9, <3>1, <3>7, <3>8
  <2>11. ASSUME NEW cpu \in Cpus, InsertOver(cpu) PROVE CountsInv'
    <3> DEFINE g == key[cpu][1]
    <3>1. /\ cpu \in Busy /\ Return(cpu) /\ UNCHANGED <<kind, met, refused>>
          /\ held[cpu] = None /\ key[cpu] # None /\ Present(g) /\ kind # "queries"
          /\ element' = [element EXCEPT ![g] = spare[cpu]]
          /\ value' = [value EXCEPT ![spare[cpu]] = NewEntry(cpu)]
      BY <2>11 DEF InsertOver, Missed, Busy
    <3>2. g \in met
      BY <2>0, <3>1 DEF Missing
    <3>3. /\ Alone'
          /\ key[cpu] \in Keys /\ g \in Cgroups /\ key'[cpu] = None
          /\ \A c \in Cpus \ {cpu} :
               key'[c] = key[c] /\ held'[c] = held[c] /\ seen'[c] = seen[c]
          /\ \A k \in Keys : fired'[k] = IF k = key[cpu] THEN fired[k] + 1 ELSE fired[k]
      BY <2>8, <3>1
    <3> HIDE DEF g
    <3>4. /\ \A h \in Cgroups \ met : element'[h] = element[h] /\ element[h] # spare[cpu]
          /\ element'[g] # None
      BY <3>1, <3>2, <3>3 DEF Wired
    <3>5. \A k \in Keys : k[1] \notin met => count(k)' = count(k) /\ fired'[k] = fired[k]
      <4> SUFFICES ASSUME NEW k \in Keys, k[1] \notin met
                   PROVE  count(k)' = count(k) /\ fired'[k] = fired[k]
        OBVIOUS
      <4>1. k[1] \in Cgroups /\ k # key[cpu]
        BY <3>2, KeyParts DEF g
      <4>2. CASE Present(k[1])
        <5>1. element[k[1]] \in Elements
          BY <4>1, <4>2 DEF Present
        <5>2. value'[element[k[1]]] = value[element[k[1]]]
          BY <3>1, <3>4, <4>1, <5>1
        <5> QED BY <3>3, <3>4, <4>1, <5>2 DEF count, Present
      <4>3. CASE ~Present(k[1])
        BY <3>3, <3>4, <4>1, <4>3 DEF count, Present
      <4> QED BY <4>2, <4>3
    <3>6. Holders'
      <4> SUFFICES ASSUME NEW c \in Cpus, key'[c] # None, held'[c] # None
                   PROVE  /\ Present(key[c][1])'
                          /\ key'[c][1] \notin met' => held'[c] = element'[key'[c][1]]
                          /\ \A h \in Cgroups \ met' :
                               held'[c] = element'[h] => h = key'[c][1]
        BY DEF Holders
      <4>1. /\ c # cpu /\ key'[c] = key[c] /\ held'[c] = held[c] /\ key[c][1] \in Cgroups
            /\ key[c] # None /\ held[c] # None
        BY <3>3, KeyParts
      <4>2. /\ Present(key[c][1])
            /\ key[c][1] \notin met => held[c] = element[key[c][1]]
            /\ \A h \in Cgroups \ met : held[c] = element[h] => h = key[c][1]
        BY <2>0, <4>1 DEF Holders
      <4>3. element'[key[c][1]] # None
        BY <3>1, <3>4, <4>1, <4>2 DEF Present
      <4> QED BY <3>1, <3>4, <4>1, <4>2, <4>3 DEF Present
    <3>7. Missing'
      <4> SUFFICES ASSUME NEW c \in Cpus, key'[c] # None, held'[c] = None,
                          key'[c][1] \notin met'
                   PROVE  /\ kind' = "queries" \/ ~Present(key[c][1])'
                          /\ key'[c][1] \notin refused' => fired'[key'[c]] = 0
        BY DEF Missing
      <4>1. c # cpu /\ key'[c] = key[c] /\ held'[c] = held[c] /\ key[c] \in Keys
            /\ key[c][1] \in Cgroups
        BY <3>3, KeyParts
      <4> QED BY <2>0, <3>1, <3>4, <3>5, <4>1 DEF Missing, Present
    <3>8. NothingBefore'
      <4> SUFFICES ASSUME NEW k \in Keys, ~Present(k[1])', k[1] \notin refused'
                   PROVE  fired'[k] = 0
        BY DEF NothingBefore
      <4>1. k[1] # g /\ k[1] \in Cgroups /\ k # key[cpu]
        BY <3>4, KeyParts DEF Present, g
      <4> QED BY <2>0, <3>1, <3>3, <4>1 DEF NothingBefore, Present
    <3>9. WhatIsSeen'
      <4> SUFFICES ASSUME NEW c \in Cpus, key'[c] # None, seen'[c] # None,
                          key'[c][1] \notin met'
                   PROVE  seen'[c] = count(key[c])'
        BY DEF WhatIsSeen
      <4>1. c # cpu /\ key'[c] = key[c] /\ seen'[c] = seen[c] /\ key[c] \in Keys
        BY <3>3
      <4>2. count(key[c])' = count(key[c])
        BY <3>1, <3>5, <4>1 DEF count, Present
      <4> QED BY <2>0, <3>1, <4>1, <4>2 DEF WhatIsSeen
    <3>10. CountsAreExact'
      BY <2>0, <3>1, <3>5 DEF CountsAreExact
    <3> QED BY <3>3, <3>6, <3>7, <3>8, <3>9, <3>10 DEF CountsInv
  <2>12. CASE UNCHANGED counterVars
    <3>1. \A k \in Keys : count(k)' = count(k)
      BY <2>12 DEF counterVars, count, Present
    <3>2. Alone' /\ Holders' /\ Missing' /\ NothingBefore' /\ CountsAreExact'
      BY <2>0, <2>12, <3>1
      DEF counterVars, Alone, Holders, Missing, NothingBefore, CountsAreExact, Present
    <3>3. WhatIsSeen'
      BY <2>0, <2>12 DEF counterVars, WhatIsSeen, count, Present
    <3> QED BY <3>2, <3>3 DEF CountsInv
  <2> QED BY <2>1, <2>2, <2>3, <2>4, <2>5, <2>6, <2>7, <2>11, <2>12 DEF CountersNext
<1>3. CountsInv => CountsAreExact
  BY DEF CountsInv
<1>4. CountersSpec => [](CountersTypeOK /\ Wired /\ Working)
  BY CountersTypeCorrect, WiredAndWorking, PTL
<1> QED BY <1>1, <1>2, <1>3, <1>4, PTL DEF CountersSpec

\* The atomic additions of syscall_rate.c lose and gain nothing once an entry is
\* there and held by its own hooks alone, and it then stays so.
THEOREM SettledCountsAlways ==
  ASSUME CountersAssumption PROVE CountersSpec => SettledCounts
<1> USE CountersAssumption DEF CountersAssumption
<1> DEFINE Stays ==
      \A g \in Cgroups :
        LET k == <<g, Total>>
        IN  kind = "syscalls" /\ Settled(g) =>
              Settled(g)' /\ fired'[k] + count(k) = fired[k] + count(k)'
<1>1. CountersTypeOK /\ Wired /\ Working /\ [CountersNext]_counterVars => [Stays]_counterVars
  <2> SUFFICES ASSUME CountersTypeOK, Wired, Working, CountersNext,
                      NEW g \in Cgroups, kind = "syscalls", Settled(g)
               PROVE  /\ Settled(g)'
                      /\ fired'[<<g, Total>>] + count(<<g, Total>>)
                           = fired[<<g, Total>>] + count(<<g, Total>>)'
    OBVIOUS
  <2> USE DEF CountersTypeOK
  <2> DEFINE k == <<g, Total>>
             Kept == /\ Settled(g)'
                     /\ fired'[k] + count(k) = fired[k] + count(k)'
  <2>1. /\ k \in Keys /\ k[1] = g /\ k[2] = Total /\ Total \in Fields
        /\ Present(g) /\ element[g] \in Elements
        /\ count(k) = value[element[g]][Total] /\ count(k) \in Nat
        /\ \A c \in Busy : key[c][1] = g <=> held[c] = element[g]
        /\ \A c \in Busy : key[c] \in Keys /\ key[c][2] = Total
    BY KeyParts DEF Settled, Present, count, Fields, Working, Counted, Busy
  <2>2. ASSUME NEW cpu \in Cpus, NEW h \in Cgroups, Lookup(cpu, h) PROVE Kept
    <3>1. PICK f \in Counted(cpu) : key' = [key EXCEPT ![cpu] = <<h, f>>]
      BY <2>2 DEF Lookup
    <3>2. <<h, f>> \in Keys /\ <<h, f>>[1] = h
      BY CountedAreFields, KeyParts
    <3>3. /\ held' = [held EXCEPT ![cpu] = element[h]]
          /\ UNCHANGED <<element, value, fired>>
      BY <2>2 DEF Lookup
    <3>4. Settled(g)'
      BY <2>1, <3>1, <3>2, <3>3 DEF Settled, Wired, Present, Busy
    <3> QED BY <2>1, <3>3, <3>4 DEF count, Present
  <2>3. ASSUME NEW cpu \in Cpus, cpu \in Busy, Return(cpu), element'[g] = element[g]
        PROVE  /\ Settled(g)'
               /\ fired'[k] = IF key[cpu][1] = g THEN fired[k] + 1 ELSE fired[k]
               /\ count(k)' = value'[element[g]][Total]
    <3>1. Settled(g)'
      BY <2>1, <2>3 DEF Return, Settled, Present, Busy
    <3>2. key[cpu] = k <=> key[cpu][1] = g
      BY <2>1, <2>3, KeyParts
    <3>3. count(k)' = value'[element[g]][Total]
      BY <2>1, <2>3 DEF count, Present
    <3> QED BY <2>1, <2>3, <3>1, <3>2, <3>3 DEF Return
  <2>4. ASSUME NEW cpu \in Cpus, Add(cpu) PROVE Kept
    <3>1. /\ cpu \in Busy /\ held[cpu] \in Elements /\ Return(cpu) /\ element' = element
          /\ value' = [value EXCEPT ![held[cpu]][Total] = @ + 1]
      BY <2>1, <2>4 DEF Add
    <3>2. value'[element[g]][Total] = IF key[cpu][1] = g THEN count(k) + 1 ELSE count(k)
      BY <2>1, <3>1
    <3>3. /\ Settled(g)'
          /\ fired'[k] = IF key[cpu][1] = g THEN fired[k] + 1 ELSE fired[k]
          /\ count(k)' = value'[element[g]][Total]
      BY <2>3, <3>1
    <3>4. fired[k] \in Nat
      BY <2>1
    <3> QED BY <2>1, <3>2, <3>3, <3>4
  <2>5. ASSUME NEW cpu \in Cpus, Load(cpu) \/ Store(cpu) \/ InsertInPlace(cpu) PROVE Kept
    BY <2>5 DEF Load, Store, InsertInPlace, AddsAtOnce, Working
  <2>6. ASSUME NEW cpu \in Cpus, InsertNew(cpu) PROVE Kept
    <3>1. /\ cpu \in Busy /\ Return(cpu) /\ ~Present(key[cpu][1]) /\ key[cpu][1] # g
      BY <2>1, <2>6 DEF InsertNew, Missed
    <3>2. PICK e \in Free : /\ element' = [element EXCEPT ![key[cpu][1]] = e]
                            /\ value' = [value EXCEPT ![e] = NewEntry(cpu)]
      BY <2>6 DEF InsertNew
    <3>3. e # element[g] /\ element'[g] = element[g]
      BY <3>1, <3>2 DEF Free
    <3>4. value'[element[g]][Total] = count(k)
      BY <2>1, <3>2, <3>3
    <3> QED BY <2>3, <3>1, <3>3, <3>4
  <2>7. ASSUME NEW cpu \in Cpus, InsertFails(cpu) PROVE Kept
    <3>1. cpu \in Busy /\ Return(cpu) /\ key[cpu][1] # g /\ UNCHANGED <<element, value>>
      BY <2>1, <2>7 DEF InsertFails, Missed
    <3> QED BY <2>1, <2>3, <3>1
  <2>8. ASSUME NEW cpu \in Cpus, InsertOver(cpu) PROVE Kept
    <3>1. /\ cpu \in Busy /\ Return(cpu) /\ held[cpu] = None
          /\ element' = [element EXCEPT ![key[cpu][1]] = spare[cpu]]
          /\ value' = [value EXCEPT ![spare[cpu]] = NewEntry(cpu)]
      BY <2>8 DEF InsertOver, Missed
    <3>2. key[cpu][1] # g /\ spare[cpu] # element[g]
      BY <2>1, <3>1 DEF Present, Wired
    <3>3. element'[g] = element[g] /\ value'[element[g]][Total] = count(k)
      BY <2>1, <3>1, <3>2
    <3> QED BY <2>3, <3>1, <3>2, <3>3
  <2> QED BY <2>2, <2>4, <2>5, <2>6, <2>7, <2>8 DEF CountersNext
<1>2. CountersSpec => [](CountersTypeOK /\ Wired /\ Working)
  BY CountersTypeCorrect, WiredAndWorking, PTL
<1> QED BY <1>1, <1>2, PTL DEF CountersSpec, SettledCounts
=============================================================================
