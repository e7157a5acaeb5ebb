---------------------------- MODULE NumberedLines ----------------------------
(***************************************************************************)
(* Parse of internal/correlator/prompt/template.go: what is read from a    *)
(* response that answers the prompt's five questions in numbered lines.    *)
(*                                                                         *)
(* A line is its number and what Parse can tell of it, the words that it   *)
(* contains.  The recommended action (3) is free text and left out.        *)
(***************************************************************************)
EXTENDS Naturals, Sequences

VARIABLES
  line,    \* the latest line that Parse has read
  parsed   \* its ParsedResponse so far

lineVars == <<line, parsed>>

Levels == <<"HIGH", "MEDIUM", "LOW">>
Confidence == {"HIGH", "MEDIUM", "LOW"}
Remediation == <<"THROTTLE_POD", "RESTART_POD", "ISOLATE_POD", "ADJUST_LIMITS", "NONE">>

\* The first of some words that a text contains, or `otherwise'.
FirstOf(words, text, otherwise) ==
  LET hits == {i \in DOMAIN words : words[i] \in text}
  IN  IF hits = {} THEN otherwise
      ELSE words[CHOOSE i \in hits : \A j \in hits : i <= j]

\* A line: its number and the words it contains.  A line about a root cause
\* has one.  What contains UNSAFE contains SAFE.
Line ==
  [number : {1}, words : {{"cause"}, {}}] \cup
  [number : {2}, words : SUBSET Confidence] \cup
  {l \in [number : {4}, words : SUBSET {"YES", "SAFE", "HUMAN", "NO", "UNSAFE"}] :
     "UNSAFE" \in l.words => "SAFE" \in l.words} \cup
  [number : {5},
   words : {{}} \cup {{Remediation[i], Remediation[j]} : i, j \in DOMAIN Remediation}]

NoLine == [number |-> 0, words |-> {}]  \* none is read yet
LastLine == [number |-> 6, words |-> {}]  \* Parse has returned
Nothing == [cause |-> FALSE, confidence |-> "", safe |-> "", type |-> ""]

\* YES and SAFE are looked for first, then HUMAN, then NO and UNSAFE.
Means(words, otherwise) ==
  CASE words \cap {"YES", "SAFE"} # {} -> "SAFE"
    [] words \cap {"YES", "SAFE", "HUMAN"} = {"HUMAN"} -> "HUMAN_REQUIRED"
    [] words = {"NO"} -> "UNSAFE"
    [] words = {} -> otherwise

\* The part of the loop of Parse that a line is for.
ReadLine(l) ==
  /\ line # LastLine
  /\ line' = l
  /\ parsed' =
       CASE l.number = 1 -> [parsed EXCEPT !.cause = l.words # {}]
         [] l.number = 2 -> [parsed EXCEPT !.confidence = FirstOf(Levels, l.words, @)]
         [] l.number = 4 -> [parsed EXCEPT !.safe = Means(l.words, @)]
         [] l.number = 5 -> [parsed EXCEPT !.type = FirstOf(Remediation, l.words, @)]

\* Parse returns.  Nothing but the confidence tells that it found too little.
ParseReturns ==
  /\ line # LastLine
  /\ line' = LastLine
  /\ parsed' = IF ~parsed.cause /\ parsed.confidence = ""
                THEN [parsed EXCEPT !.confidence = "PARSE_ERROR"] ELSE parsed

\* Another response is to be parsed.
Parse ==
  /\ line = LastLine
  /\ line' = NoLine
  /\ parsed' = Nothing
-----------------------------------------------------------------------------
LinesTypeOK ==
  /\ line \in Line \cup {NoLine, LastLine}
  /\ parsed \in [cause : BOOLEAN, confidence : Confidence \cup {"", "PARSE_ERROR"},
                 safe : {"", "SAFE", "HUMAN_REQUIRED", "UNSAFE"},
                 type : {""} \cup {Remediation[i] : i \in DOMAIN Remediation}]

LinesInit ==
  /\ line = NoLine
  /\ parsed = Nothing

LinesNext == (\E l \in Line : ReadLine(l)) \/ ParseReturns \/ Parse

LinesSpec == LinesInit /\ [][LinesNext]_lineVars
-----------------------------------------------------------------------------
\* Violated.  An answer to "(4) Whether automated remediation is safe: YES /
\* NO / REQUIRES_HUMAN" that says no is not taken for a yes: Parse looks for
\* SAFE before it looks for UNSAFE.
UnsafeIsHeard ==
  line.number = 4 /\ "UNSAFE" \in line.words /\ "YES" \notin line.words =>
    parsed.safe # "SAFE"
=============================================================================
