------------------------------- MODULE Answers -------------------------------
(***************************************************************************)
(* What the correlator makes of a model's answer in JSON: Correlate of the *)
(* four clients in internal/correlator/llm with parseCorrelationJSON,      *)
(* which they share.                                                       *)
(*                                                                         *)
(* A text is what the parsers can tell of it.  The provider is external:   *)
(* it sends any reply that the request allows.  Root causes, actions and   *)
(* token counts are handed on as they are and left out.                    *)
(***************************************************************************)
EXTENDS Sequences

VARIABLES
  reply,   \* the reply to the latest call of a client
  result   \* what Correlate returned

answerVars == <<reply, result>>

Level == {"HIGH", "MEDIUM", "LOW"}

\* A text: a JSON object, one in a fence, one in a fence with prose around
\* it, one cut off or not JSON at all, or one with a field of another type;
\* its field `confidence' ("other" if it is absent or none of the levels),
\* the levels it contains anywhere, and whether auto_remediation_safe is true.
Shape == {"object", "fenced", "wrapped", "broken", "mistyped"}
Text ==
  {t \in [shape : Shape, confidence : Level \cup {"other"}, words : SUBSET Level,
          auto : BOOLEAN] : t.confidence \in t.words \cup {"other"}}
Silence == [shape |-> "broken", confidence |-> "other", words |-> {}, auto |-> FALSE]

Failure == [ok |-> FALSE]

\* json.Unmarshal decodes nothing of a text that is not JSON, and all but the
\* one field of an object with a mistyped field.  Mutant:
\* auto_remediation_safe is looked for in the text.
Decodes(t) == t.shape \in {"object", "fenced"}
SaysSafe_Anywhere(t) == t.auto
SaysSafe(t) == t.auto /\ (Decodes(t) \/ t.shape = "mistyped")

extractConfidence(words) ==
  IF "HIGH" \in words THEN "HIGH"
  ELSE IF "MEDIUM" \in words THEN "MEDIUM"
  ELSE IF "LOW" \in words THEN "LOW" ELSE "UNKNOWN"

normalizeConfidence(c) == IF c \in Level THEN c ELSE "UNKNOWN"

parseCorrelationJSON(t) ==
  [ok |-> TRUE, auto |-> SaysSafe(t), parseError |-> ~Decodes(t),
   confidence |-> normalizeConfidence(
     IF Decodes(t) THEN t.confidence ELSE extractConfidence(t.words))]

\* A reply: no connection, no body or a status other than 200; a body that
\* does not decode; or one with the texts of its candidates.
Replies(shapes) ==
  [status : {"lost", "refused", "garbled"}] \cup
  [status : {"ok"},
   texts : {<<>>, <<Silence>>} \cup {<<t>> : t \in {u \in Text : u.shape \in shapes}}]

Interpreted(r) ==
  IF r.status # "ok" THEN Failure
  ELSE parseCorrelationJSON(IF r.texts = <<>> THEN Silence ELSE Head(r.texts))

Correlate(shapes) ==
  /\ reply' \in Replies(shapes)
  /\ result' = Interpreted(reply')

\* Claude is asked for JSON in the prompt alone; OpenAI and Gemini are held
\* to a schema, and cut off at 1024 tokens; Ollama to JSON.
ClaudeCorrelate == Correlate(Shape)
OpenAICorrelate == Correlate({"object", "broken"})
GeminiCorrelate == Correlate({"object", "broken"})
OllamaCorrelate == Correlate({"object", "broken", "mistyped"})
-----------------------------------------------------------------------------
AnswerTypeOK ==
  /\ reply \in Replies(Shape)
  /\ result \in {Failure} \cup
       [ok : {TRUE}, auto : BOOLEAN, parseError : BOOLEAN,
        confidence : Level \cup {"UNKNOWN"}]

AnswerInit ==
  /\ reply = [status |-> "lost"]
  /\ result = Failure

AnswerNext ==
  \/ ClaudeCorrelate \/ OpenAICorrelate \/ GeminiCorrelate \/ OllamaCorrelate

AnswerSpec == AnswerInit /\ [][AnswerNext]_answerVars
-----------------------------------------------------------------------------
\* Whatever a provider sends, a result claims nothing that the answer does not
\* say: a level of confidence is the stated one, or, where the text does not
\* decode, one that it contains; remediation is safe only by the field of an
\* object, never by what a text that is cut off or wrapped in prose contains;
\* and where there is no text there is neither (parseCorrelationJSON and
\* Correlate of the four clients).
NothingIsInvented ==
  result.ok =>
    \E t \in IF reply.texts = <<>> THEN {Silence} ELSE {reply.texts[1]} :
      /\ result.auto => t.auto /\ t.shape \notin {"broken", "wrapped"}
      /\ result.confidence # "UNKNOWN" =>
           \/ result.confidence = t.confidence
           \/ result.parseError /\ result.confidence \in t.words
      /\ t.confidence # "other" => result.confidence # "UNKNOWN"
=============================================================================
