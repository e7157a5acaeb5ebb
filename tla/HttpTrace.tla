----------------------------- MODULE HttpTrace -----------------------------
(***************************************************************************)
(* The HTTP capture of bpf/http_trace.c: a hook at the entry of            *)
(* tcp_recvmsg stamps the address of the socket, one at the entry of       *)
(* tcp_sendmsg takes the stamp to time the response.  The hooks of         *)
(* different sockets run at once; those of one socket follow its thread.   *)
(* A hook is taken apart where it changes a map that others share.         *)
(*                                                                         *)
(* A time is the number of the request that the thread was at: the stamp   *)
(* is taken when it begins to wait for the request, not when the request   *)
(* arrives.  Sends that are not HTTP end without a trace.  A client's      *)
(* socket receives and never responds; the event of its request has no     *)
(* duration.  The kernel reuses the address of a closed socket.            *)
(***************************************************************************)
EXTENDS Naturals, FiniteSets

CONSTANTS Sockets,      \* addresses of sockets
          Capacity,     \* MAX_ENTRIES of either map
          SampleRate,   \* one event in so many, if sampling is enabled
          MaxRequests,  \* bound on the requests of an address
          NoStamp

HttpAssumption ==
  /\ IsFiniteSet(Sockets)
  /\ Capacity \in Nat
  /\ SampleRate \in Nat \ {0}
  /\ MaxRequests \in Nat
  /\ NoStamp \notin Nat

VARIABLES
  enabled,  \* sampling_config.enabled, which userspace has set
  counter,  \* sampling_config.counter, modulo the rate
  stamps,   \* request_timestamps: the request of each stamp
  active,   \* active_requests
  thread,   \* where the thread of a socket is
  request,  \* how many requests an address has seen
  left,     \* ghost: entries of the address outlived their request
  event     \* the latest event of a response

httpVars == <<enabled, counter, stamps, active, thread, request, left, event>>

Threads == {"closed", "ready", "stamping", "marking", "serving", "unstamping", "clearing"}
Request == 0 .. MaxRequests
NoEvent == [start |-> NoStamp, request |-> 0, left |-> FALSE]

HttpTypeOK ==
  /\ enabled \in BOOLEAN
  /\ counter \in 0 .. SampleRate - 1
  /\ stamps \in [Sockets -> Request \cup {NoStamp}]
  /\ active \subseteq Sockets
  /\ thread \in [Sockets -> Threads]
  /\ request \in [Sockets -> Request]
  /\ left \in [Sockets -> BOOLEAN]
  /\ event \in [start : Request \cup {NoStamp}, request : Request, left : BOOLEAN]

HttpInit ==
  /\ enabled \in BOOLEAN
  /\ counter = 0
  /\ stamps = [s \in Sockets |-> NoStamp]
  /\ active = {}
  /\ thread = [s \in Sockets |-> "closed"]
  /\ request = [s \in Sockets |-> 0]
  /\ left = [s \in Sockets |-> FALSE]
  /\ event = NoEvent

Stamped == {s \in Sockets : stamps[s] # NoStamp}
Known(s) == stamps[s] # NoStamp \/ s \in active

\* should_sample, which counts the events it is asked about.
should_sample == enabled => counter = 0
Count == counter' = IF enabled THEN (counter + 1) % SampleRate ELSE counter

Goto(s, place) == thread' = [thread EXCEPT ![s] = place]

\* The thread of a connection that is open waits for its next request.
Wait(s) ==
  /\ request[s] < MaxRequests
  /\ request' = [request EXCEPT ![s] = @ + 1]

Open(s) ==
  /\ thread[s] = "closed" /\ Goto(s, "ready")
  /\ UNCHANGED <<enabled, counter, stamps, active, request, left, event>>

\* No hook sees a socket close: its entries stay.
Close(s) ==
  /\ thread[s] \in {"ready", "serving"} /\ Goto(s, "closed")
  /\ left' = [left EXCEPT ![s] = @ \/ Known(s)]
  /\ UNCHANGED <<enabled, counter, stamps, active, request, event>>

\* kprobe_tcp_recvmsg, for the first call of a request or for a further one.
kprobe_tcp_recvmsg(s) ==
  /\ \/ thread[s] = "ready" /\ Wait(s)
     \/ thread[s] = "serving" /\ UNCHANGED request
  /\ Goto(s, IF should_sample /\ s \notin active THEN "stamping" ELSE "serving")
  /\ Count
  /\ UNCHANGED <<enabled, stamps, active, left, event>>

\* bpf_map_update_elem fails for a new key of a full map, and no hook looks.
Stamp(s) ==
  /\ thread[s] = "stamping" /\ Goto(s, "marking")
  /\ stamps' = IF s \in Stamped \/ Cardinality(Stamped) < Capacity
               THEN [stamps EXCEPT ![s] = request[s]] ELSE stamps
  /\ UNCHANGED <<enabled, counter, active, request, left, event>>

Mark(s) ==
  /\ thread[s] = "marking" /\ Goto(s, "serving")
  /\ active' = IF Cardinality(active) < Capacity THEN active \cup {s} ELSE active
  /\ UNCHANGED <<enabled, counter, stamps, request, left, event>>

\* kprobe_tcp_sendmsg, for the request of a client: it is counted.
RequestSent(s) ==
  /\ thread[s] = "ready" /\ Count
  /\ UNCHANGED <<enabled, stamps, active, thread, request, left, event>>

\* A thread has done with its request, or will respond again (100 Continue).
AfterResponse == {"ready", "serving"}

\* kprobe_tcp_sendmsg, for a response.  It returns early if the message
\* cannot be read, if it is not sampled or if the ring is full; the entries of
\* a thread that will respond again are still those of its request ...
ResponseSkipped(s) ==
  /\ thread[s] = "serving"
  /\ \/ Goto(s, "ready") /\ left' = [left EXCEPT ![s] = @ \/ Known(s)]
     \/ Goto(s, "serving") /\ UNCHANGED left
  /\ Count \/ UNCHANGED counter
  /\ UNCHANGED <<enabled, stamps, active, request, event>>

\* ... or takes the stamp, and removes both entries.
ResponseCaptured(s) ==
  /\ thread[s] = "serving" /\ Goto(s, "unstamping")
  /\ should_sample /\ Count
  /\ event' = [start |-> stamps[s], request |-> request[s], left |-> left[s]]
  /\ UNCHANGED <<enabled, stamps, active, request, left>>

\* Mutant: the stamp is kept.
Unstamped_Kept(s) == stamps
Unstamped(s) == [stamps EXCEPT ![s] = NoStamp]

Unstamp(s) ==
  /\ thread[s] = "unstamping" /\ Goto(s, "clearing")
  /\ stamps' = Unstamped(s)
  /\ UNCHANGED <<enabled, counter, active, request, left, event>>

Clear(s) ==
  /\ thread[s] = "clearing" /\ \E place \in AfterResponse : Goto(s, place)
  /\ active' = active \ {s}
  /\ left' = [left EXCEPT ![s] = FALSE]
  /\ UNCHANGED <<enabled, counter, stamps, request, event>>

HttpNext == \E s \in Sockets :
  \/ Open(s) \/ Close(s)
  \/ kprobe_tcp_recvmsg(s) \/ Stamp(s) \/ Mark(s)
  \/ RequestSent(s) \/ ResponseSkipped(s) \/ ResponseCaptured(s) \/ Unstamp(s) \/ Clear(s)

HttpSpec == HttpInit /\ [][HttpNext]_httpVars
-----------------------------------------------------------------------------
\* The duration of a response is that of its own request, or it has none:
\* kprobe_tcp_sendmsg takes the stamp of another request only where an
\* earlier response was skipped or the socket closed without one, and their
\* entries stayed behind.
DurationsArePaired ==
  event.start \in {NoStamp, event.request} \/ event.left
=============================================================================
