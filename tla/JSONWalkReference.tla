-------------------------- MODULE JSONWalkReference -------------------------
(***************************************************************************)
(* The statistics of a JSON document defined from the set of the values in *)
(* it, with no walk and no limits, and what JSONWalk has to do with them.  *)
(***************************************************************************)
EXTENDS JSONWalk, FiniteSetsExt

CONSTANT MaxNesting   \* the most containers around a value of a document

\* The steps from a value to its parts: the keys of an object and the indexes
\* of an array.
Steps(value) ==
    CASE value.kind = "object" -> DOMAIN value.members
      [] value.kind = "array"  -> DOMAIN value.items
      [] OTHER                 -> {}

Part(value, step) == IF value.kind = "object" THEN value.members[step] ELSE value.items[step]

\* A value in a document, with the path to it, and the parts of such a value.
Root(document) == [path |-> <<>>, value |-> document]
PartNode(n, step) == [path |-> Append(n.path, step), value |-> Part(n.value, step)]

\* The values in a document, those with d containers around them at level d.
Nodes(document) ==
    LET level[d \in 0 .. MaxNesting] ==
          IF d = 0 THEN {Root(document)}
          ELSE UNION {{PartNode(n, step) : step \in Steps(n.value)} : n \in level[d - 1]}
    IN  UNION {level[d] : d \in 0 .. MaxNesting}

\* Documents are finite: encoding/json refuses one that nests deeper than a
\* constant of its own.
ASSUME NestingAssumption ==
    /\ MaxNesting \in Nat
    /\ \A document \in Documents : \A n \in Nodes(document) :
         Len(n.path) = MaxNesting => Steps(n.value) = {}

OfKind(nodes, kind) == {n \in nodes : n.value.kind = kind}
Largest(S) == Max(S \cup {0})

Keys(nodes) == UNION {DOMAIN n.value.members : n \in OfKind(nodes, "object")}

\* Every field, as the object it is of and its key.
Fields(nodes) == UNION {{n.path} \X DOMAIN n.value.members : n \in OfKind(nodes, "object")}

\* The statistics of a document that no limit cuts short.
Statistics(document) ==
    LET nodes   == Nodes(document)
        objects == OfKind(nodes, "object")
        arrays  == OfKind(nodes, "array")
        strings == OfKind(nodes, "string")
    IN  [depth           |-> Largest({Len(n.path) + 1 : n \in nodes}),
         fieldCount      |-> Cardinality(Fields(nodes)),
         objectCount     |-> Cardinality(objects),
         arrayCount      |-> Cardinality(arrays),
         scalarCount     |-> Cardinality(nodes \ (objects \cup arrays)),
         nullCount       |-> Cardinality(OfKind(nodes, "null")),
         stringCount     |-> Cardinality(strings),
         seenKeys        |-> Keys(nodes),
         maxArrayLength  |-> Largest({Len(n.value.items) : n \in arrays}),
         maxObjectFields |-> Largest({Size(n.value) : n \in objects}),
         maxKeyLength    |-> Largest({KeyLength(k) : k \in Keys(nodes)}),
         maxStringLength |-> Largest({n.value.len : n \in strings})]

-----------------------------------------------------------------------------
\* Whether the walk gives up depends on the document alone, not on the order
\* in which the maps are ranged over: it names the depth limit only when the
\* document is deeper than that, the field limit only when it has more fields,
\* and comes through only when both hold.
LimitIffOver ==
    LET s == Statistics(doc)
    IN  /\ err = "depth" => s.depth > maxDepth
        /\ err = "fields" => s.fieldCount > maxFields
        /\ err = "nil" => s.depth <= maxDepth /\ s.fieldCount <= maxFields

\* A complete walk reports the same statistics in whatever order the maps
\* were ranged over, and one that gave up never reports more than the document
\* has.
StatsMatchDocument ==
    LET s == Statistics(doc)
    IN  /\ err = "nil" => stats = s
        /\ stats.seenKeys \subseteq s.seenKeys
        /\ \A field \in DOMAIN stats \ {"seenKeys"} : stats[field] <= s[field]

=============================================================================
