-------------------------- MODULE JSONTextMetrics ---------------------------
(***************************************************************************)
(* analyzeJSONTextMetrics (internal/core/charset.go): the loop over the    *)
(* tokens of a JSON decoder that counts keys and values.  The decoder does *)
(* not say which strings are keys; the loop works it out with a stack of   *)
(* frames of its own.                                                      *)
(*                                                                         *)
(* The decoder is the environment.  It hands out well-nested tokens, one   *)
(* top-level value after the other, and between any two of them it may     *)
(* answer io.EOF, inside an object or an array too, or an error.  What it  *)
(* keeps to do so is the variable nesting.  Lengths are left out.          *)
(***************************************************************************)
EXTENDS Integers, Sequences, SequencesExt

CONSTANT MaxTokens   \* the most tokens of an input

ASSUME TokensAssumption == MaxTokens \in Nat

VARIABLES
  tokens,      \* what the decoder has handed out; a key is a "key"
  nesting,     \* the containers it has open: an object where a key is due, where
               \* its value is due, or while that value is open; or an array
  frames,      \* the loop's stack: kind and expectKey
  complete,    \* topLevelValueComplete
  metrics,     \* the FormatTextMetrics
  outcome      \* "running", then how the function returned

metricsVars == <<tokens, nesting, frames, complete, metrics, outcome>>

Scalars == {"string", "number", "bool", "null"}
Opening == {"openObject", "openArray"}
Closing == {"closeObject", "closeArray"}
Kinds == Scalars \cup Opening \cup Closing \cup {"key"}
Outcomes == {"running", "clean", "trailing", "unexpected", "partial", "nil"}

Fields == {"tokenCount", "keyCount", "valueCount", "stringCount", "numberCount"}
NoMetrics == [f \in Fields |-> 0]

MetricsInit ==
    /\ tokens = <<>>
    /\ nesting = <<>>
    /\ frames = <<>>
    /\ complete = FALSE
    /\ metrics = NoMetrics
    /\ outcome = "running"

\* A sequence with its last element replaced.
WithLast(s, e) == Append(Front(s), e)

-----------------------------------------------------------------------------
\* The decoder.
Inside(where) == nesting # <<>> /\ Last(nesting) \in where

ValueIsDue == ~Inside({"keyDue"})

\* The containers around a value that begins, and around one that has ended.
Begun == IF Inside({"valueDue"}) THEN WithLast(nesting, "valueOpen") ELSE nesting
Ended(outer) ==
    IF outer # <<>> /\ Last(outer) \in {"valueDue", "valueOpen"} THEN WithLast(outer, "keyDue")
    ELSE outer

Token(token) ==
    /\ outcome = "running"
    /\ Len(tokens) < MaxTokens
    /\ tokens' = Append(tokens, token)

-----------------------------------------------------------------------------
Buggy_IsJSONObjectKey == frames # <<>> /\ Last(frames).kind = "object"

IsJSONObjectKey == frames # <<>> /\ Last(frames).kind = "object" /\ Last(frames).expectKey

\* markJSONValueConsumed: the frames after a value in them has ended.
MarkJSONValueConsumed(fs) ==
    IF fs # <<>> /\ Last(fs).kind = "object" /\ ~Last(fs).expectKey
    THEN WithLast(fs, [Last(fs) EXCEPT !.expectKey = TRUE]) ELSE fs

Buggy_CompleteAfter(fs) == complete

\* topLevelValueComplete after a token that leaves the frames fs.
CompleteAfter(fs) == complete \/ fs = <<>>

\* A token after the top-level value ends the loop; any other is counted, and
\* the frames and the complete flag follow.
Counted(fs, ms) ==
    IF complete THEN outcome' = "trailing" /\ UNCHANGED <<frames, complete, metrics>>
    ELSE /\ frames' = fs
         /\ metrics' = ms
         /\ complete' = CompleteAfter(fs)
         /\ UNCHANGED outcome

\* The metrics with one token more, counted in these fields.
OneMore(fields) ==
    [f \in Fields |-> metrics[f] + IF f \in fields \cup {"tokenCount"} THEN 1 ELSE 0]

OpenToken ==
    \E kind \in {"object", "array"} :
      /\ ValueIsDue
      /\ Token(IF kind = "object" THEN "openObject" ELSE "openArray")
      /\ nesting' = Append(Begun, IF kind = "object" THEN "keyDue" ELSE "inArray")
      /\ Counted(Append(frames, [kind |-> kind, expectKey |-> kind = "object"]), OneMore({}))

CloseToken ==
    \E token \in Closing :
      /\ Inside(IF token = "closeObject" THEN {"keyDue"} ELSE {"inArray"})
      /\ Token(token)
      /\ nesting' = Ended(Front(nesting))
      /\ Counted(MarkJSONValueConsumed(IF frames # <<>> THEN Front(frames) ELSE frames), OneMore({}))

\* A string is a key when the frames say so.
WithString ==
    OneMore(IF IsJSONObjectKey THEN {"keyCount"} ELSE {"valueCount", "stringCount"})

AfterString ==
    IF IsJSONObjectKey THEN WithLast(frames, [Last(frames) EXCEPT !.expectKey = FALSE])
    ELSE MarkJSONValueConsumed(frames)

StringToken ==
    /\ Token(IF ValueIsDue THEN "string" ELSE "key")
    /\ nesting' = IF ValueIsDue THEN Ended(nesting) ELSE WithLast(nesting, "valueDue")
    /\ Counted(AfterString, WithString)

\* A number, a boolean or null.
ScalarToken ==
    \E kind \in Scalars \ {"string"} :
      /\ ValueIsDue
      /\ Token(kind)
      /\ nesting' = Ended(nesting)
      /\ Counted(MarkJSONValueConsumed(frames),
                 OneMore({"valueCount"} \cup IF kind = "number" THEN {"numberCount"} ELSE {}))

\* io.EOF: the frames tell whether something was left open.
EndOfInput ==
    /\ outcome = "running"
    /\ outcome' = IF frames # <<>> THEN "unexpected" ELSE "clean"
    /\ UNCHANGED <<tokens, nesting, frames, complete, metrics>>

\* Any other error: what was counted is the result, if there is anything.
DecodeError ==
    /\ outcome = "running"
    /\ outcome' = IF metrics.tokenCount = 0 THEN "nil" ELSE "partial"
    /\ UNCHANGED <<tokens, nesting, frames, complete, metrics>>

MetricsNext ==
    \/ OpenToken \/ CloseToken \/ StringToken \/ ScalarToken
    \/ EndOfInput \/ DecodeError

-----------------------------------------------------------------------------
\* The frames are the containers the decoder has open, and the innermost one
\* expects a key exactly when the decoder does: a nested value that ends puts
\* the object around it back to expecting a key.  A token after the top-level
\* value is not followed any further.
FramesFollowDecoder ==
    outcome # "trailing" =>
      /\ Len(frames) = Len(nesting)
      /\ \A i \in DOMAIN frames :
           /\ frames[i].kind = IF nesting[i] = "inArray" THEN "array" ELSE "object"
           /\ frames[i].expectKey <=> nesting[i] = "keyDue"

Handed(kinds) == Cardinality({i \in DOMAIN tokens : tokens[i] \in kinds})

\* The metrics count the keys as keys and every scalar as a value, however deep
\* and in whatever order they come; a token after the top-level value is not
\* counted.
CountsMatchTokens ==
    LET extra(kinds) == IF outcome = "trailing" /\ Last(tokens) \in kinds THEN 1 ELSE 0
        Count(kinds) == Handed(kinds) - extra(kinds)
    IN  /\ metrics.tokenCount = Count(Kinds)
        /\ metrics.keyCount = Count({"key"})
        /\ metrics.valueCount = Count(Scalars)
        /\ metrics.stringCount = Count({"string"})
        /\ metrics.numberCount = Count({"number"})

\* The tokens before the i-th leave nothing open.
TopLevel(i) ==
    Cardinality({j \in 1 .. i - 1 : tokens[j] \in Opening})
      = Cardinality({j \in 1 .. i - 1 : tokens[j] \in Closing})

Values == {i \in DOMAIN tokens : TopLevel(i) /\ tokens[i] \notin Closing}

\* Metrics come without a complaint only for an input of at most one value,
\* read to its end, as the complexity analysis demands with
\* ensureSingleJSONPayload; a second value is noticed at its first token; and
\* metrics are left out only when nothing was counted.
CleanMeansOneValue ==
    /\ outcome = "clean" => nesting = <<>> /\ Cardinality(Values) <= 1
    /\ outcome = "trailing" <=> Cardinality(Values) > 1
    /\ outcome = "unexpected" => nesting # <<>>
    /\ outcome = "nil" => tokens = <<>>

=============================================================================
