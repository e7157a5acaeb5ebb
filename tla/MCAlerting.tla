----------------------------- MODULE MCAlerting -----------------------------
(***************************************************************************)
(* The alert suppressor and the weekly digest, for TLC.  The two share no  *)
(* state and do not call each other, so that their interleavings show      *)
(* nothing: a behaviour is one of the suppressor or one of the digest.     *)
(***************************************************************************)
EXTENDS Suppressor, EmailDigest

VARIABLE part

allVars == <<vars, digestVars, part>>

PartsInit ==
  /\ part \in {"suppressor", "digest"}
  /\ Init
  /\ DigestInit

SuppressorStep == part = "suppressor" /\ Next /\ UNCHANGED <<digestVars, part>>
DigestStep == part = "digest" /\ DigestNext /\ UNCHANGED <<vars, part>>

\* The clock of the suppressor goes on.
TickStep == part = "suppressor" /\ Tick /\ UNCHANGED <<digestVars, part>>

PartsSpec ==
  PartsInit /\ [][SuppressorStep \/ DigestStep]_allVars /\ WF_allVars(TickStep)
=============================================================================
