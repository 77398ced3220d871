------------------------------ MODULE XMLWalk -------------------------------
(***************************************************************************)
(* analyzeXMLComplexity (internal/core/complexity.go): the loop over the   *)
(* tokens of an XML decoder that gathers the statistics and gives up at    *)
(* MaxJSONDepth and MaxFields.  The decoder is the environment: it hands   *)
(* out well-nested start and end tags and text, and then io.EOF, which it  *)
(* only does outside every element, or an error.                           *)
(*                                                                         *)
(* The lengths of names, values and texts are left out; of the averages    *)
(* the numbers they divide by are kept.                                    *)
(***************************************************************************)
EXTENDS Integers, Sequences

CONSTANTS
  MaxDepths,      \* the values of MaxJSONDepth considered
  MaxFieldses,    \* the values of MaxFields considered
  MaxAttributes,  \* the most attributes an element has
  MaxTokens       \* the most tokens of an input

ASSUME ParametersAssumption ==
    /\ MaxDepths \cup MaxFieldses \subseteq Nat \ {0}
    /\ MaxAttributes \in Nat
    /\ MaxTokens \in Nat

VARIABLES
  maxJSONDepth, maxFields,   \* the limits, fixed
  tokens,                    \* what the decoder has handed out so far
  open,                      \* the elements the decoder has open
  depth,                     \* the loop's own count of them
  stats,                     \* the statistics
  outcome                    \* "running", then how the loop was left

vars == <<maxJSONDepth, maxFields, tokens, open, depth, stats, outcome>>

Outcomes == {"running", "ended", "depth", "fields", "failed", "nil"}

NoStats == [maxDepth |-> 0, elementCount |-> 0, attributeCount |-> 0,
            textNodeCount |-> 0, maxAttributes |-> 0, nameCount |-> 0, valueCount |-> 0]

Larger(m, n) == IF m > n THEN m ELSE n

Init ==
    /\ maxJSONDepth \in MaxDepths
    /\ maxFields \in MaxFieldses
    /\ tokens = <<>>
    /\ open = 0
    /\ depth = 0
    /\ stats = NoStats
    /\ outcome = "running"

\* decoder.Token returns a token.
Token(tag, attrs) ==
    /\ outcome = "running"
    /\ Len(tokens) < MaxTokens
    /\ tokens' = Append(tokens, [tag |-> tag, attrs |-> attrs])

-----------------------------------------------------------------------------
Buggy_TooDeep == depth > maxJSONDepth

\* The element that starts is one too deep.
TooDeep == depth + 1 > maxJSONDepth

Buggy_Room == maxFields - stats.elementCount - stats.attributeCount

\* How many attributes the element that starts may have: negative when the
\* element alone is too much.
Room == maxFields - (stats.elementCount + 1) - stats.attributeCount

Buggy_ReadsTagFirst(s, attrs) ==
    [maxDepth       |-> Larger(s.maxDepth, depth + 1),
     elementCount   |-> s.elementCount + 1,
     attributeCount |-> s.attributeCount + IF attrs > Room THEN Room + 1 ELSE attrs,
     textNodeCount  |-> s.textNodeCount,
     maxAttributes  |-> Larger(s.maxAttributes, attrs),
     nameCount      |-> s.nameCount + attrs + 1,
     valueCount     |-> s.valueCount + attrs]

\* The statistics after a start tag: the item that passes the limit is counted,
\* but neither its name nor its value, and nothing after it in the tag.
WithElement(s, attrs) ==
    [maxDepth       |-> Larger(s.maxDepth, depth + 1),
     elementCount   |-> s.elementCount + 1,
     attributeCount |-> s.attributeCount + IF attrs > Room THEN Room + 1 ELSE attrs,
     textNodeCount  |-> s.textNodeCount,
     maxAttributes  |-> IF Room < 0 THEN s.maxAttributes ELSE Larger(s.maxAttributes, attrs),
     nameCount      |-> s.nameCount + IF attrs > Room THEN Room + 1 ELSE attrs + 1,
     valueCount     |-> s.valueCount + IF attrs > Room THEN Larger(Room, 0) ELSE attrs]

StartElement ==
    \E attrs \in 0 .. MaxAttributes :
      /\ Token("start", attrs)
      /\ open' = open + 1
      /\ IF TooDeep
         THEN outcome' = "depth" /\ UNCHANGED <<depth, stats>>
         ELSE /\ depth' = depth + 1
              /\ stats' = WithElement(stats, attrs)
              /\ outcome' = IF attrs > Room THEN "fields" ELSE "running"
      /\ UNCHANGED <<maxJSONDepth, maxFields>>

\* The depth after an end tag.
Leave == IF depth > 0 THEN depth - 1 ELSE depth

EndElement ==
    /\ open > 0
    /\ Token("end", 0)
    /\ open' = open - 1
    /\ depth' = Leave
    /\ UNCHANGED <<maxJSONDepth, maxFields, stats, outcome>>

\* The statistics after text that is not blank.
WithText(s) == [s EXCEPT !.textNodeCount = @ + 1, !.valueCount = @ + 1]

CharData ==
    \E tag \in {"text", "blank"} :
      /\ Token(tag, 0)
      /\ stats' = IF tag = "blank" THEN stats ELSE WithText(stats)
      /\ UNCHANGED <<maxJSONDepth, maxFields, open, depth, outcome>>

\* io.EOF.
EndOfInput ==
    /\ outcome = "running"
    /\ open = 0
    /\ outcome' = "ended"
    /\ UNCHANGED <<maxJSONDepth, maxFields, tokens, open, depth, stats>>

NothingSeen ==
    stats.elementCount = 0 /\ stats.attributeCount = 0 /\ stats.textNodeCount = 0

\* A syntax error, or an input that ends inside an element: what was counted
\* so far is the result, if there is any.
ParseError ==
    /\ outcome = "running"
    /\ outcome' = IF NothingSeen THEN "nil" ELSE "failed"
    /\ UNCHANGED <<maxJSONDepth, maxFields, tokens, open, depth, stats>>

Next == StartElement \/ EndElement \/ CharData \/ EndOfInput \/ ParseError

Spec == Init /\ [][Next]_vars

-----------------------------------------------------------------------------
\* The FieldCount buildXMLComplexityResult reports.
FieldCount == stats.elementCount + stats.attributeCount

\* The values every variable takes; the depth the loop keeps is the nesting of
\* the decoder as long as it runs, so that the test depth > 0 never matters.
TypeOK ==
    /\ maxJSONDepth \in MaxDepths
    /\ maxFields \in MaxFieldses
    /\ stats \in [maxDepth: 0 .. maxJSONDepth, elementCount: Nat, attributeCount: Nat,
                  textNodeCount: Nat, maxAttributes: 0 .. MaxAttributes,
                  nameCount: Nat, valueCount: Nat]
    /\ open \in Nat
    /\ depth \in 0 .. maxJSONDepth
    /\ outcome \in Outcomes
    /\ outcome = "running" => depth = open

\* The loop stops at the very element or attribute that passes MaxFields: the
\* count it reports is within the limit, or one over it when the limit is what
\* it warns of.
FieldsBounded ==
    IF outcome = "fields" THEN FieldCount = maxFields + 1 ELSE FieldCount <= maxFields

\* The averages divide by what they added up: one length for every name
\* counted, and one for every attribute and text, but for the one item that
\* passed the limit and whose lengths were not read.
AveragesMatchCounts ==
    LET over == IF outcome = "fields" THEN 1 ELSE 0
    IN  /\ stats.nameCount = FieldCount - over
        /\ stats.valueCount \in {stats.attributeCount + stats.textNodeCount,
                                 stats.attributeCount + stats.textNodeCount - over}

=============================================================================
