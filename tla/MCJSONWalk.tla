----------------------------- MODULE MCJSONWalk -----------------------------
(***************************************************************************)
(* Instances of JSONWalk: documents of bounded depth and width over two    *)
(* keys, checked against JSONWalkReference.                                *)
(***************************************************************************)
EXTENDS JSONWalkReference, TLC

MCKeyLength(key) == IF key = "a" THEN 1 ELSE 2

Null == [kind |-> "null"]
Leaves == {[kind |-> "string", len |-> 2], Null, [kind |-> "scalar"]}

Object(m) == [kind |-> "object", members |-> m]
Array(s) == [kind |-> "array", items |-> s]

\* The objects and arrays of at most two of the given values.
Objects(values) == {Object(m) : m \in UNION {[ks -> values] : ks \in SUBSET {"a", "bb"}}}
Arrays(values) == {Array(s) : s \in UNION {[1 .. n -> values] : n \in 0 .. 2}}

Flat == Objects({Null, [kind |-> "string", len |-> 2]}) \cup Arrays({Null})
Shallow == Leaves \cup Flat

\* Documents of depth up to 4: two flat branches, one of them possibly nested
\* once more.
MCDocuments ==
    Shallow
      \cup {Object("a" :> v @@ "bb" :> w) : v \in Flat, w \in Shallow}
      \cup {Array(<<v, Object("a" :> w)>>) : v \in Shallow, w \in Flat}

MCValues == MCDocuments \cup {Object("a" :> w) : w \in Flat}

MCMaxDepths == 1 .. 4
MCMaxFieldses == 1 .. 5

=============================================================================
