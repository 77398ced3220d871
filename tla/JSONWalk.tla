------------------------------ MODULE JSONWalk ------------------------------
(***************************************************************************)
(* walkJSONComplexity (internal/core/complexity.go): the depth-first walk  *)
(* over a decoded JSON value that gathers the complexity statistics and    *)
(* gives up at MaxJSONDepth and MaxFields.  The recursion is an explicit   *)
(* stack of frames.  A Go map is ranged over in any order, so the next     *)
(* member of an object is any of those left.                               *)
(*                                                                         *)
(* A value is a record: [kind |-> "string", len |-> n], [kind |-> "null"], *)
(* [kind |-> "scalar"] for numbers and booleans, [kind |-> "array",        *)
(* items |-> a sequence of values] or [kind |-> "object", members |-> a    *)
(* function from keys to values].                                          *)
(***************************************************************************)
EXTENDS Integers, Sequences, FiniteSets

CONSTANTS
  Values,        \* the decoded values considered, with all they contain
  Documents,     \* those of them that are payloads
  MaxDepths,     \* the values of MaxJSONDepth considered
  MaxFieldses,   \* the values of MaxFields considered
  KeyLength(_)   \* the length of a key

ASSUME LimitsAssumption == MaxDepths \cup MaxFieldses \subseteq Nat \ {0}

ValueKinds == {"object", "array", "string", "null", "scalar"}

ASSUME ValuesAssumption ==
    /\ Documents \subseteq Values
    /\ \A v \in Values :
         /\ v.kind \in ValueKinds
         /\ v.kind = "object" => /\ v.members \in [DOMAIN v.members -> Values]
                                /\ IsFiniteSet(DOMAIN v.members)
         /\ v.kind = "array" => v.items \in Seq(Values)
         /\ v.kind = "string" => v.len \in Nat
    /\ \A v \in Values : v.kind = "object" => \A key \in DOMAIN v.members : KeyLength(key) \in Nat

VARIABLES
  doc, maxDepth, maxFields,   \* the arguments, fixed
  stack,                      \* the calls in progress, the last is the top
  stats,                      \* jsonComplexityStats
  err                         \* "running", then what the walk returned

vars == <<doc, maxDepth, maxFields, stack, stats, err>>

Errors == {"nil", "depth", "fields"}

NoStats == [depth |-> 0, fieldCount |-> 0, objectCount |-> 0, arrayCount |-> 0,
            scalarCount |-> 0, nullCount |-> 0, stringCount |-> 0,
            seenKeys |-> {}, maxArrayLength |-> 0, maxObjectFields |-> 0,
            maxKeyLength |-> 0, maxStringLength |-> 0]

Larger(m, n) == IF m > n THEN m ELSE n

Init ==
    /\ doc \in Documents
    /\ maxDepth \in MaxDepths
    /\ maxFields \in MaxFieldses
    /\ stack = <<>>
    /\ stats = NoStats
    /\ err = "running"

Size(value) == Cardinality(DOMAIN value.members)

Buggy_LatestDepth(s, depth) == depth

\* The greatest depth seen.
Deepest(s, depth) == Larger(s.depth, depth)

\* The statistics after the part of a call that comes before its loop.
Entered(s, value, depth) ==
    LET t == [s EXCEPT !.depth = Deepest(s, depth)]
    IN  CASE value.kind = "object" ->
               [t EXCEPT !.objectCount = @ + 1,
                         !.fieldCount = @ + Size(value),
                         !.maxObjectFields = Larger(@, Size(value))]
          [] value.kind = "array" ->
               [t EXCEPT !.arrayCount = @ + 1,
                         !.maxArrayLength = Larger(@, Len(value.items))]
          [] value.kind = "string" ->
               [t EXCEPT !.scalarCount = @ + 1, !.stringCount = @ + 1,
                         !.maxStringLength = Larger(@, value.len)]
          [] value.kind = "null" ->
               [t EXCEPT !.scalarCount = @ + 1, !.nullCount = @ + 1]
          [] value.kind = "scalar" ->
               [t EXCEPT !.scalarCount = @ + 1]

\* The frame of a call that has a loop to run.
Frame(value, depth) ==
    IF value.kind = "object"
    THEN [kind |-> "object", depth |-> depth, left |-> value.members]
    ELSE [kind |-> "array", depth |-> depth, left |-> value.items]

Buggy_TooDeep(depth) == depth > maxDepth + 1

TooDeep(depth) == depth > maxDepth

Buggy_TooMany(fieldCount) == fieldCount >= maxFields

Buggy_TooManyLate(fieldCount) == fieldCount > maxFields + 1

TooMany(fieldCount) == fieldCount > maxFields

\* walkJSONComplexity(value, depth) up to its loop, called from the frames
\* below with the statistics s.
Enter(value, depth, below, s) ==
    IF TooDeep(depth)
    THEN stats' = s /\ err' = "depth" /\ stack' = below
    ELSE LET t == Entered(s, value, depth)
         IN  /\ stats' = t
             /\ IF value.kind = "object" /\ TooMany(t.fieldCount)
                THEN err' = "fields" /\ stack' = below
                ELSE /\ stack' = IF value.kind \in {"object", "array"}
                                 THEN Append(below, Frame(value, depth))
                                 ELSE below
                     /\ err' = IF stack' = <<>> THEN "nil" ELSE "running"

Top == stack[Len(stack)]
Below == SubSeq(stack, 1, Len(stack) - 1)

\* A frame with what its loop has left.
With(left) == Append(Below, [Top EXCEPT !.left = left])

\* The call on the payload, after it was decoded.
Start ==
    /\ err = "running"
    /\ stack = <<>>
    /\ Enter(doc, 1, <<>>, stats)
    /\ UNCHANGED <<doc, maxDepth, maxFields>>

\* The next iteration of the loop over a map: any key that is left.
NextMember ==
    /\ err = "running"
    /\ stack # <<>> /\ Top.kind = "object"
    /\ \E key \in DOMAIN Top.left :
         Enter(Top.left[key], Top.depth + 1,
               With([k \in DOMAIN Top.left \ {key} |-> Top.left[k]]),
               [stats EXCEPT !.seenKeys = @ \cup {key},
                             !.maxKeyLength = Larger(@, KeyLength(key))])
    /\ UNCHANGED <<doc, maxDepth, maxFields>>

\* The next iteration of the loop over an array.
NextItem ==
    /\ err = "running"
    /\ stack # <<>> /\ Top.kind = "array"
    /\ Top.left # <<>>
    /\ Enter(Head(Top.left), Top.depth + 1, With(Tail(Top.left)), stats)
    /\ UNCHANGED <<doc, maxDepth, maxFields>>

\* A loop ends and its call returns nil.
Return ==
    /\ err = "running"
    /\ stack # <<>> /\ DOMAIN Top.left = {}
    /\ stack' = Below
    /\ err' = IF stack' = <<>> THEN "nil" ELSE "running"
    /\ UNCHANGED <<doc, maxDepth, maxFields, stats>>

Next == Start \/ NextMember \/ NextItem \/ Return

Spec == Init /\ [][Next]_vars

-----------------------------------------------------------------------------
\* The values every variable takes; a frame sits at the depth its place says,
\* and nothing deeper than the limit is on the stack or in the statistics.
TypeOK ==
    /\ doc \in Documents
    /\ DOMAIN stats = DOMAIN NoStats
    /\ stats.depth \in 0 .. maxDepth
    /\ Len(stack) <= maxDepth
    /\ \A i \in DOMAIN stack : stack[i].depth = i
    /\ err \in Errors \cup {"running"}

\* The walk stops at the first object that takes the count over MaxFields:
\* the field count it reports passes the limit by at most the members of one
\* object, and it passes the limit only when the limit is what it returns.
FieldsBounded ==
    /\ err # "fields" => stats.fieldCount <= maxFields
    /\ stats.fieldCount <= maxFields + stats.maxObjectFields

=============================================================================
