----------------------------- MODULE EmailDigest -----------------------------
(***************************************************************************)
(* The weekly digest of internal/escalation/channels/email.go.             *)
(*                                                                         *)
(* Send, called with the engine's mutex, appends a P3 or P4 incident to    *)
(* the buffer; FlushDigest, called without it, composes a digest of what   *)
(* is in the buffer and clears it.  No lock orders the two.  Each is a     *)
(* read of the buffer and a later write.  (That an unordered read may see  *)
(* half of a slice header is left out.)                                    *)
(*                                                                         *)
(* Nothing is mailed: FlushDigest discards the digest it has composed (the *)
(* SMTP call is yet to be written), so that no sending can fail, and what  *)
(* the buffer no longer holds is gone.  The model follows the incidents    *)
(* into the digest and no further.                                         *)
(***************************************************************************)
EXTENDS Naturals, Sequences, Functions

CONSTANTS Incidents,  \* P3 and P4 incidents, each sent once
          NoOne

ASSUME DigestAssumption == NoOne \notin Incidents

VARIABLES
  buffer,      \* EmailChannel.buffer
  sending,     \* the incident a Send is under way for, and the buffer it read
  seen,
  flushing,    \* a FlushDigest is under way, and the buffer it read
  body,
  accepted,    \* the incidents whose Send returned
  digested,    \* how many digests each incident is in
  caught,      \* the incidents whose Send ended while a flush was under way
  held         \* those that a Send under way had read when a flush cleared

digestVars == <<buffer, sending, seen, flushing, body, accepted, digested, caught, held>>

DigestTypeOK ==
  /\ {buffer, seen, body} \subseteq Seq(Incidents)
  /\ sending \in Incidents \cup {NoOne}
  /\ {accepted, caught, held} \subseteq SUBSET Incidents
  /\ digested \in [Incidents -> Nat]
  /\ flushing \in BOOLEAN

DigestInit ==
  /\ buffer = <<>> /\ seen = <<>> /\ body = <<>>
  /\ sending = NoOne /\ flushing = FALSE
  /\ accepted = {} /\ caught = {} /\ held = {}
  /\ digested = [i \in Incidents |-> 0]

SendReads(i) ==
  /\ sending = NoOne /\ i \notin accepted
  /\ sending' = i
  /\ seen' = buffer
  /\ UNCHANGED <<buffer, flushing, body, accepted, digested, caught, held>>

SendWrites ==
  /\ sending # NoOne
  /\ buffer' = Append(seen, sending)
  /\ accepted' = accepted \cup {sending}
  /\ sending' = NoOne
  /\ seen' = <<>>
  /\ caught' = IF flushing THEN caught \cup {sending} ELSE caught
  /\ UNCHANGED <<flushing, body, digested, held>>

\* FlushDigest of a buffer that is not empty.
FlushReads ==
  /\ ~flushing /\ buffer # <<>>
  /\ flushing' = TRUE
  /\ body' = buffer
  /\ UNCHANGED <<buffer, sending, seen, accepted, digested, caught, held>>

\* Mutant: the buffer is kept.
Cleared_Never == buffer
Cleared == <<>>

FlushClears ==
  /\ flushing
  /\ digested' = [i \in Incidents |->
                    IF i \in Range(body) THEN digested[i] + 1 ELSE digested[i]]
  /\ held' = held \cup Range(seen)
  /\ buffer' = Cleared
  /\ flushing' = FALSE
  /\ body' = <<>>
  /\ UNCHANGED <<sending, seen, accepted, caught>>

DigestNext ==
  \/ \E i \in Incidents : SendReads(i)
  \/ SendWrites \/ FlushReads \/ FlushClears

DigestSpec == DigestInit /\ [][DigestNext]_digestVars
-----------------------------------------------------------------------------
\* "the weekly digest email with all buffered P3/P4 incidents" (FlushDigest):
\* an accepted incident is in the buffer or in a digest, and in one only,
\* through any number of flushes and of Sends that overlap them.  What such an
\* overlap can cost is no more than this: an incident whose own Send ended
\* during a flush may be in no digest, and one that a Send had read before a
\* flush cleared the buffer may come back and be in two.
DigestIsComplete ==
  \A i \in accepted :
    LET copies == digested[i] + (IF i \in Range(buffer) THEN 1 ELSE 0) IN
    /\ i \notin caught => copies >= 1
    /\ i \notin held => copies <= 1
=============================================================================
