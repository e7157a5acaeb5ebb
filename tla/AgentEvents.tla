----------------------------- MODULE AgentEvents -----------------------------
(***************************************************************************)
(* The way of an event through the agent: cmd/agent/main.go loads the      *)
(* object files one by one (internal/agent/bpf/loader.go) and starts the   *)
(* stream client (internal/agent/stream/client.go), in which one goroutine *)
(* moves events from a ring buffer to the batch and another, on a ticker,  *)
(* from the batch to the collector.                                        *)
(*                                                                         *)
(* Every object file declares its own ring `events' (bpf/headers/maps.h).  *)
(* An event is the number it has in its ring.  The send itself is a stub   *)
(* in the code: a drained batch counts as sent.                            *)
(***************************************************************************)
EXTENDS Naturals, SequencesExt

CONSTANTS Objects,     \* the object files that main loads
          Programs,    \* the programs of an object file
          RingSize,    \* events that fit in a ring
          MaxEvents,   \* bound: events that each ring ever takes
          NoObject

ASSUME EventsAssumption ==
  /\ NoObject \notin Objects
  /\ {RingSize, MaxEvents} \subseteq Nat

VARIABLES
  loaded,      \* Loader.programs: what LoadProgram noted of each object
  hooked,      \* the programs that the kernel runs
  opened,      \* the objects whose ring a reader was opened on
  reader,      \* Loader.reader: the object whose ring it reads
  main,        \* how far main is
  cancelled,   \* the context is
  closed,      \* the loader is
  ring,        \* the events in each ring
  taken,       \* the events that each ring has taken so far
  consumer,    \* consumeRingBuffer: its state, and the event in its hands
  hand,
  stream,      \* Run and streamToCollector
  tick,        \* the ticker's channel holds a tick
  batch,       \* Client.batch
  sent         \* the events of all drained batches

loadVars == <<loaded, hooked, opened, reader>>
mainVars == <<main, cancelled, closed>>
kernelVars == <<ring, taken>>
streamVars == <<stream, tick, sent>>
eventVars == <<loadVars, mainVars, kernelVars, consumer, hand, batch, streamVars>>

Untried == [loaded |-> FALSE, error |-> FALSE, tried |-> FALSE]

EventsTypeOK ==
  /\ loaded \in
       [Objects -> [loaded : BOOLEAN, error : BOOLEAN, tried : BOOLEAN]]
  /\ hooked \in [Objects -> SUBSET Programs]
  /\ opened \subseteq Objects
  /\ reader \in Objects \cup {NoObject}
  /\ main \in {"loading", "running", "stopping", "exited"}
  /\ {cancelled, closed, tick} \subseteq BOOLEAN
  /\ ring \in [Objects -> Seq(1 .. MaxEvents)]
  /\ \A o \in Objects : Len(ring[o]) <= RingSize
  /\ taken \in [Objects -> 0 .. MaxEvents]
  /\ consumer \in {"started", "reading", "done"}
  /\ hand \in Seq(1 .. MaxEvents) /\ Len(hand) <= 1
  /\ stream \in {"looping", "connecting", "retrying", "streaming", "done"}
  /\ {batch, sent} \subseteq Seq(1 .. MaxEvents)

EventsInit ==
  /\ loaded = [o \in Objects |-> Untried]
  /\ hooked = [o \in Objects |-> {}]
  /\ opened = {} /\ reader = NoObject
  /\ main = "loading" /\ cancelled = FALSE /\ closed = FALSE
  /\ ring = [o \in Objects |-> <<>>] /\ taken = [o \in Objects |-> 0]
  /\ consumer = "started" /\ hand = <<>>
  /\ stream = "looping" /\ tick = FALSE
  /\ batch = <<>> /\ sent = <<>>

(***************************************************************************)
(* Loading.                                                                *)
(***************************************************************************)
\* The specification or the collection cannot be loaded; main goes on.
LoadFails(o) ==
  /\ main = "loading" /\ ~loaded[o].tried
  /\ loaded' = [loaded EXCEPT
       ![o] = [loaded |-> FALSE, error |-> TRUE, tried |-> TRUE]]
  /\ UNCHANGED <<hooked, opened, reader, mainVars, kernelVars, consumer, hand,
                 batch, streamVars>>

\* Every program of the object is attached, fails to attach, or is left
\* alone (XDP).  The reader takes the place of the one opened before.
LoadProgram(o) ==
  /\ main = "loading" /\ ~loaded[o].tried
  /\ \E outcome \in [Programs -> {"attached", "failed", "left"}] :
       /\ hooked' = [hooked EXCEPT
            ![o] = {p \in Programs : outcome[p] = "attached"}]
       /\ loaded' = [loaded EXCEPT ![o] =
            [loaded |-> TRUE, tried |-> TRUE,
             error |-> \E p \in Programs : outcome[p] = "failed"]]
  /\ \/ reader' = o /\ opened' = opened \cup {o}
     \/ UNCHANGED <<reader, opened>>          \* NewReader fails: a warning
  /\ UNCHANGED <<mainVars, kernelVars, consumer, hand, batch, streamVars>>

(***************************************************************************)
(* The kernel: a program that is attached puts an event in its own ring,   *)
(* and drops it when the ring is full (which changes nothing).             *)
(***************************************************************************)
Emit(o) ==
  /\ main # "exited"
  /\ hooked[o] # {}
  /\ Len(ring[o]) < RingSize
  /\ taken[o] < MaxEvents
  /\ taken' = [taken EXCEPT ![o] = @ + 1]
  /\ ring' = [ring EXCEPT ![o] = Append(@, taken[o] + 1)]
  /\ UNCHANGED <<loadVars, mainVars, consumer, hand, batch, streamVars>>

(***************************************************************************)
(* main: start the goroutines; on a signal cancel, close, return.          *)
(***************************************************************************)
Start ==
  /\ main = "loading" /\ \A o \in Objects : loaded[o].tried
  /\ main' = "running"
  /\ UNCHANGED <<loadVars, cancelled, closed, kernelVars, consumer, hand,
                 batch, streamVars>>

Signal ==
  /\ main = "running"
  /\ main' = "stopping" /\ cancelled' = TRUE
  /\ UNCHANGED <<loadVars, closed, kernelVars, consumer, hand, batch,
                 streamVars>>

CloseLoader ==
  /\ main = "stopping" /\ ~closed
  /\ closed' = TRUE
  /\ UNCHANGED <<loadVars, main, cancelled, kernelVars, consumer, hand, batch,
                 streamVars>>

Exit ==
  /\ main = "stopping" /\ closed
  /\ main' = "exited"
  /\ UNCHANGED <<loadVars, cancelled, closed, kernelVars, consumer, hand,
                 batch, streamVars>>

Alive == main \in {"running", "stopping"}

(***************************************************************************)
(* consumeRingBuffer and ReadEvents.                                       *)
(***************************************************************************)
ReadEvents ==
  /\ Alive /\ consumer = "started"
  /\ consumer' = IF reader = NoObject THEN "done" ELSE "reading"
  /\ UNCHANGED <<loadVars, mainVars, kernelVars, hand, batch, streamVars>>

Read ==
  /\ Alive /\ consumer = "reading" /\ hand = <<>>
  /\ ~closed /\ ring[reader] # <<>>
  /\ hand' = <<Head(ring[reader])>>
  /\ ring' = [ring EXCEPT ![reader] = Tail(@)]
  /\ UNCHANGED <<loadVars, mainVars, taken, consumer, batch, streamVars>>

HandlerAppends ==
  /\ Alive /\ hand # <<>>
  /\ batch' = batch \o hand
  /\ hand' = <<>>
  /\ UNCHANGED <<loadVars, mainVars, kernelVars, consumer, streamVars>>

ReadEnds ==
  /\ Alive /\ consumer = "reading" /\ hand = <<>> /\ closed
  /\ consumer' = "done"
  /\ UNCHANGED <<loadVars, mainVars, kernelVars, hand, batch, streamVars>>

(***************************************************************************)
(* Run and streamToCollector.                                              *)
(***************************************************************************)
Loop ==
  /\ Alive /\ stream = "looping" /\ ~cancelled
  /\ stream' = "connecting"
  /\ UNCHANGED <<loadVars, mainVars, kernelVars, consumer, hand, batch, tick,
                 sent>>

Connect ==
  /\ Alive /\ stream = "connecting"
  /\ stream' = "streaming"
  /\ tick' = FALSE                            \* a new ticker
  /\ UNCHANGED <<loadVars, mainVars, kernelVars, consumer, hand, batch, sent>>

ConnectFails ==
  /\ Alive /\ stream = "connecting"
  /\ stream' = "retrying"
  /\ UNCHANGED <<loadVars, mainVars, kernelVars, consumer, hand, batch, tick,
                 sent>>

Retry ==
  /\ Alive /\ stream = "retrying"
  /\ stream' = "looping"
  /\ UNCHANGED <<loadVars, mainVars, kernelVars, consumer, hand, batch, tick,
                 sent>>

Ticks ==
  /\ Alive /\ stream = "streaming" /\ ~tick
  /\ tick' = TRUE
  /\ UNCHANGED <<loadVars, mainVars, kernelVars, consumer, hand, batch,
                 stream, sent>>

\* Mutant: the batch is handed out and goes on being filled.
Drained_Shared == batch

Drained == <<>>

\* Mutant: a batch below the size limit is not worth a send.
Delivered_FullOnly == IF Len(batch) >= RingSize THEN sent \o batch ELSE sent

Delivered == sent \o batch

\* A tick is received and the batch drained, also in the moment after the
\* cancellation: select takes any branch that is ready.
DrainBatch ==
  /\ Alive /\ stream = "streaming" /\ tick
  /\ tick' = FALSE
  /\ sent' = Delivered
  /\ batch' = Drained
  /\ UNCHANGED <<loadVars, mainVars, kernelVars, consumer, hand, stream>>

RunReturns ==
  /\ Alive /\ cancelled /\ stream \in {"looping", "retrying", "streaming"}
  /\ stream' = "done"
  /\ UNCHANGED <<loadVars, mainVars, kernelVars, consumer, hand, batch, tick,
                 sent>>

Goroutines ==
  \/ ReadEvents \/ Read \/ HandlerAppends \/ ReadEnds
  \/ Loop \/ Connect \/ ConnectFails \/ Retry \/ Ticks \/ DrainBatch \/ RunReturns

EventsNext ==
  \/ \E o \in Objects : LoadFails(o) \/ LoadProgram(o) \/ Emit(o)
  \/ Start \/ Signal \/ CloseLoader \/ Exit
  \/ Goroutines

EventsSpec == EventsInit /\ [][EventsNext]_eventVars

(***************************************************************************)
(* Properties.                                                             *)
(***************************************************************************)

\* What the ring that is read ever took is, in order and once each, sent,
\* in the batch, in the consumer's hands or still in the ring: appending
\* and draining the batch side by side neither lose nor repeat an event.
EventsInOrderOnce ==
  reader # NoObject =>
    sent \o batch \o hand \o ring[reader] = [i \in 1 .. taken[reader] |-> i]

\* Once the stream is up, every event that the read ring took is sent
\* unless the agent is stopped.
EventsGetOut ==
  \A o \in Objects, n \in 1 .. MaxEvents :
    (reader = o /\ taken[o] >= n /\ stream = "streaming")
      ~> (n \in Range(sent) \/ cancelled)

\* "Open ring buffer readers for each program" (docs/agent.md): an agent
\* that runs consumes every ring it opened a reader on.
EveryRingIsConsumed == main = "running" => opened \subseteq {reader}
=============================================================================
