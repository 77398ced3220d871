--------------------------- MODULE XMLWalkProofs ----------------------------
(***************************************************************************)
(* Proofs about XMLWalk for all limits and inputs of any length.           *)
(*                                                                         *)
(* The three invariants of XMLWalk are inductive together:                 *)
(* AveragesMatchCounts ties the divisors to the field count, which         *)
(* FieldsBounded keeps within the limit until the loop stops.  On top of   *)
(* them Follows relates the counters to the reference definitions: one     *)
(* more token adds to each what the loop adds, or passes a limit.          *)
(***************************************************************************)
EXTENDS XMLWalkReference, FiniteSetTheorems, SequenceTheorems, WellFoundedInduction, TLAPS

Inv == TypeOK /\ FieldsBounded /\ AveragesMatchCounts

StatsType == [maxDepth: 0 .. maxJSONDepth, elementCount: Nat, attributeCount: Nat,
              textNodeCount: Nat, maxAttributes: 0 .. MaxAttributes,
              nameCount: Nat, valueCount: Nat]

\* The loop starts in a state of the invariant.
LEMMA InitInv == Init => Inv
  BY ParametersAssumption
  DEF Init, Inv, TypeOK, FieldsBounded, AveragesMatchCounts, FieldCount, NoStats, Outcomes

\* What WithElement makes of the statistics of a loop that runs: the count
\* grows to the limit, or one past it, and the divisors with it.
LEMMA ElementCounts ==
    ASSUME Inv, outcome = "running", ~TooDeep, NEW attrs \in 0 .. MaxAttributes,
           NEW t, t = WithElement(stats, attrs)
    PROVE  /\ t \in StatsType
           /\ IF attrs > Room
              THEN /\ t.elementCount + t.attributeCount = maxFields + 1
                   /\ t.nameCount = maxFields
                   /\ t.valueCount \in {t.attributeCount + t.textNodeCount,
                                        t.attributeCount + t.textNodeCount - 1}
              ELSE /\ t.elementCount + t.attributeCount <= maxFields
                   /\ t.nameCount = t.elementCount + t.attributeCount
                   /\ t.valueCount = t.attributeCount + t.textNodeCount
  <1>1. /\ stats.maxDepth \in 0 .. maxJSONDepth /\ stats.maxAttributes \in 0 .. MaxAttributes
        /\ stats.elementCount \in Nat /\ stats.attributeCount \in Nat
        /\ stats.textNodeCount \in Nat /\ stats.nameCount \in Nat /\ stats.valueCount \in Nat
        /\ maxFields \in Nat /\ maxJSONDepth \in Nat /\ depth \in Nat /\ MaxAttributes \in Nat
    BY ParametersAssumption DEF Inv, TypeOK
  <1>2. /\ stats.elementCount + stats.attributeCount <= maxFields
        /\ stats.nameCount = stats.elementCount + stats.attributeCount
        /\ stats.valueCount = stats.attributeCount + stats.textNodeCount
    BY <1>1 DEF Inv, FieldsBounded, AveragesMatchCounts, FieldCount
  <1>3. Room \in Int /\ Room >= -1 /\ Room = maxFields - stats.elementCount - 1 - stats.attributeCount
    BY <1>1, <1>2 DEF Room
  <1>4. /\ Larger(stats.maxDepth, depth + 1) \in 0 .. maxJSONDepth
        /\ Larger(stats.maxAttributes, attrs) \in 0 .. MaxAttributes
    BY <1>1 DEF Larger, TooDeep
  <1>5. CASE attrs > Room
    <2>1. /\ t.maxDepth = Larger(stats.maxDepth, depth + 1)
          /\ t.elementCount = stats.elementCount + 1
          /\ t.attributeCount = stats.attributeCount + (Room + 1)
          /\ t.textNodeCount = stats.textNodeCount
          /\ t.maxAttributes \in {stats.maxAttributes, Larger(stats.maxAttributes, attrs)}
          /\ t.nameCount = stats.nameCount + (Room + 1)
          /\ t.valueCount = stats.valueCount + Larger(Room, 0)
      BY <1>5 DEF WithElement
    <2>2. Larger(Room, 0) \in {Room, Room + 1} /\ Larger(Room, 0) \in Nat
      BY <1>3 DEF Larger
    <2>3. t \in StatsType
      BY <1>1, <1>3, <1>4, <2>1, <2>2 DEF StatsType, WithElement
    <2> QED BY <1>1, <1>2, <1>3, <1>5, <2>1, <2>2, <2>3
  <1>6. CASE ~(attrs > Room)
    <2>1. /\ t.maxDepth = Larger(stats.maxDepth, depth + 1)
          /\ t.elementCount = stats.elementCount + 1
          /\ t.attributeCount = stats.attributeCount + attrs
          /\ t.textNodeCount = stats.textNodeCount
          /\ t.maxAttributes \in {stats.maxAttributes, Larger(stats.maxAttributes, attrs)}
          /\ t.nameCount = stats.nameCount + (attrs + 1)
          /\ t.valueCount = stats.valueCount + attrs
      BY <1>6 DEF WithElement
    <2>2. t \in StatsType
      BY <1>1, <1>4, <2>1 DEF StatsType, WithElement
    <2> QED BY <1>1, <1>2, <1>3, <1>6, <2>1, <2>2
  <1> QED BY <1>5, <1>6

\* A start tag preserves the invariant.
LEMMA StartElementInv == Inv /\ StartElement => Inv'
  <1> SUFFICES ASSUME Inv, StartElement PROVE Inv'
    OBVIOUS
  <1>1. PICK attrs \in 0 .. MaxAttributes :
          /\ Token("start", attrs)
          /\ open' = open + 1
          /\ IF TooDeep
             THEN outcome' = "depth" /\ UNCHANGED <<depth, stats>>
             ELSE /\ depth' = depth + 1
                  /\ stats' = WithElement(stats, attrs)
                  /\ outcome' = IF attrs > Room THEN "fields" ELSE "running"
          /\ UNCHANGED <<maxJSONDepth, maxFields>>
    BY DEF StartElement
  <1>2. outcome = "running"
    BY <1>1 DEF Token
  <1>3. CASE TooDeep
    BY <1>1, <1>2, <1>3
    DEF Inv, TypeOK, FieldsBounded, AveragesMatchCounts, FieldCount, Outcomes
  <1>4. CASE ~TooDeep
    <2> DEFINE t == WithElement(stats, attrs)
    <2>1. stats' = t
      BY <1>1, <1>4
    <2>2. /\ t \in StatsType
          /\ IF attrs > Room
             THEN /\ t.elementCount + t.attributeCount = maxFields + 1
                  /\ t.nameCount = maxFields
                  /\ t.valueCount \in {t.attributeCount + t.textNodeCount,
                                       t.attributeCount + t.textNodeCount - 1}
             ELSE /\ t.elementCount + t.attributeCount <= maxFields
                  /\ t.nameCount = t.elementCount + t.attributeCount
                  /\ t.valueCount = t.attributeCount + t.textNodeCount
      BY <1>2, <1>4, ElementCounts
    <2>3. TypeOK'
      <3>1. depth = open /\ depth \in Nat /\ maxJSONDepth \in Nat /\ depth + 1 <= maxJSONDepth
        BY <1>2, <1>4, ParametersAssumption DEF Inv, TypeOK, TooDeep
      <3>2. depth + 1 \in 0 .. maxJSONDepth
        BY <3>1
      <3>3. depth' \in 0 .. maxJSONDepth' /\ open' \in Nat /\ depth' = open'
        BY <1>1, <1>4, <3>1, <3>2
      <3>4. stats' \in StatsType'
        BY <1>1, <2>1, <2>2 DEF StatsType
      <3>5. outcome' \in Outcomes
        BY <1>1, <1>4 DEF Outcomes
      <3> QED BY <1>1, <3>3, <3>4, <3>5 DEF Inv, TypeOK, StatsType
    <2>4. FieldsBounded'
      BY <1>1, <1>2, <1>4, <2>1, <2>2 DEF FieldsBounded, FieldCount, Inv, TypeOK, StatsType
    <2>5. AveragesMatchCounts'
      BY <1>1, <1>2, <1>4, <2>1, <2>2, ParametersAssumption
      DEF AveragesMatchCounts, FieldCount, Inv, TypeOK, StatsType
    <2> QED BY <2>3, <2>4, <2>5 DEF Inv
  <1> QED BY <1>3, <1>4

\* An end tag preserves the invariant: the loop has the element open too.
LEMMA EndElementInv == Inv /\ EndElement => Inv'
  BY ParametersAssumption
  DEF Inv, TypeOK, FieldsBounded, AveragesMatchCounts, FieldCount, EndElement, Token, Leave

\* Text preserves the invariant: it adds one to a count and to its divisor.
LEMMA CharDataInv == Inv /\ CharData => Inv'
  <1> SUFFICES ASSUME Inv, CharData PROVE Inv'
    OBVIOUS
  <1>1. PICK tag \in {"text", "blank"} :
          /\ Token(tag, 0)
          /\ stats' = IF tag = "blank" THEN stats ELSE WithText(stats)
          /\ UNCHANGED <<maxJSONDepth, maxFields, open, depth, outcome>>
    BY DEF CharData
  <1>2. TypeOK'
    <2>1. stats \in StatsType /\ stats.textNodeCount + 1 \in Nat /\ stats.valueCount + 1 \in Nat
      BY DEF Inv, TypeOK, StatsType
    <2>2. \A s \in StatsType, n \in Nat : /\ [s EXCEPT !.textNodeCount = n] \in StatsType
                                        /\ [s EXCEPT !.valueCount = n] \in StatsType
      BY DEF StatsType
    <2>3. WithText(stats) \in StatsType
      BY <2>1, <2>2, Zenon DEF WithText
    <2> QED BY <1>1, <2>1, <2>3 DEF Inv, TypeOK, StatsType
  <1>3. FieldsBounded' /\ AveragesMatchCounts'
    BY <1>1 DEF Inv, TypeOK, FieldsBounded, AveragesMatchCounts, FieldCount, Token, WithText
  <1> QED BY <1>2, <1>3 DEF Inv

\* The end of the input and a parse error leave the statistics alone.
LEMMA StopInv == Inv /\ (EndOfInput \/ ParseError) => Inv'
  BY DEF Inv, TypeOK, FieldsBounded, AveragesMatchCounts, FieldCount, EndOfInput,
         ParseError, Outcomes

\* The three invariants hold in every reachable state.
THEOREM Invariance == Spec => []Inv
  <1>1. Inv /\ UNCHANGED vars => Inv'
    BY DEF Inv, TypeOK, FieldsBounded, AveragesMatchCounts, FieldCount, vars
  <1>2. Inv /\ [Next]_vars => Inv'
    BY <1>1, StartElementInv, EndElementInv, CharDataInv, StopInv DEF Next
  <1> QED BY InitInv, <1>2, PTL DEF Spec

\* Every variable keeps its type, and the depth of the loop is the nesting of
\* the decoder: the guard depth > 0 of an end tag never matters.
THEOREM TypeCorrect == Spec => []TypeOK
  <1>1. Inv => TypeOK
    BY DEF Inv
  <1> QED BY Invariance, <1>1, PTL

\* The field count passes MaxFields by one at most, and only when the loop
\* warns of that limit: for inputs of any length and elements of any width.
THEOREM FieldsAreBounded == Spec => []FieldsBounded
  <1>1. Inv => FieldsBounded
    BY DEF Inv
  <1> QED BY Invariance, <1>1, PTL

\* The averages divide by the number of lengths added up.
THEOREM AveragesAreSound == Spec => []AveragesMatchCounts
  <1>1. Inv => AveragesMatchCounts
    BY DEF Inv
  <1> QED BY Invariance, <1>1, PTL

-----------------------------------------------------------------------------
\* Induction over the naturals, from the well-foundedness of their order.
Smaller == {ss \in Nat \X Nat : ss[1] < ss[2]}

\* The order of the naturals has no infinite descent.
LEMMA SmallerIsWellFounded == IsWellFoundedOn(Smaller, Nat)
  <1>1. Smaller = OpToRel(<, Nat)
    BY Zenon DEF OpToRel, Smaller
  <1>2. IsWellFoundedOn(OpToRel(<, Nat), Nat)
    BY NatLessThanWellFounded, Zenon
  <1> QED BY <1>1, <1>2, Zenon

\* Induction for a set of naturals.
LEMMA Induction ==
    ASSUME NEW S, 0 \in S, \A n \in Nat : n \in S => n + 1 \in S
    PROVE  \A n \in Nat : n \in S
  <1> SUFFICES ASSUME Nat \ S # {} PROVE FALSE
    OBVIOUS
  <1> DEFINE T == Nat \ S
  <1>1. PICK m \in T : \A k \in T : <<k, m>> \notin Smaller
    <2>1. T \subseteq Nat /\ T # {}
      OBVIOUS
    <2> QED BY <2>1, SmallerIsWellFounded, WFMin, Zenon
  <1>2. m \in Nat /\ m # 0
    BY <1>1
  <1>3. m - 1 \in Nat /\ <<m - 1, m>> \in Smaller
    BY <1>2 DEF Smaller
  <1>4. m - 1 \in S
    BY <1>1, <1>3
  <1>5. (m - 1) + 1 = m
    BY <1>2
  <1> QED BY <1>1, <1>3, <1>4, <1>5

\* What a step that stays in T gives.
Stays(next, T) == \A i \in Nat : \A v \in T : next[<<i, v>>] \in T

Iterates(g, n, T, base, next) ==
    /\ g \in [0 .. n -> T]
    /\ g[0] = base
    /\ \A i \in 1 .. n : g[i] = next[<<i, g[i - 1]>>]

\* A function defined from its value one before exists.
LEMMA IterationExists ==
    ASSUME NEW n \in Nat, NEW T, NEW base \in T, NEW next, Stays(next, T)
    PROVE  \E g : Iterates(g, n, T, base, next)
  <1> DEFINE S == {m \in Nat : \E g : Iterates(g, m, T, base, next)}
  <1>1. 0 \in S
    <2> DEFINE g == [i \in 0 .. 0 |-> base]
    <2>1. Iterates(g, 0, T, base, next)
      BY DEF Iterates
    <2> QED BY <2>1, Zenon
  <1>2. ASSUME NEW m \in Nat, m \in S PROVE m + 1 \in S
    <2>1. PICK g : Iterates(g, m, T, base, next)
      BY <1>2
    <2> DEFINE h == [i \in 0 .. m + 1 |-> IF i <= m THEN g[i] ELSE next[<<m + 1, g[m]>>]]
    <2>2. /\ g \in [0 .. m -> T] /\ g[0] = base
          /\ \A i \in 1 .. m : g[i] = next[<<i, g[i - 1]>>]
          /\ \A i \in 0 .. m : g[i] \in T
      BY <2>1 DEF Iterates
    <2>3. g[m] \in T /\ m + 1 \in Nat
      BY <2>2
    <2>4. next[<<m + 1, g[m]>>] \in T
      BY <2>3 DEF Stays
    <2>5. h \in [0 .. m + 1 -> T]
      <3>1. ASSUME NEW i \in 0 .. m + 1 PROVE h[i] \in T
        <4>1. i <= m => i \in 0 .. m
          OBVIOUS
        <4> QED BY <2>2, <2>4, <4>1
      <3> QED BY <3>1
    <2>6. h[0] = base
      <3>1. 0 \in 0 .. m + 1 /\ 0 <= m
        OBVIOUS
      <3> QED BY <2>2, <3>1
    <2>7. ASSUME NEW i \in 1 .. m + 1 PROVE h[i] = next[<<i, h[i - 1]>>]
      <3>1. i \in 0 .. m + 1 /\ i - 1 \in 0 .. m + 1 /\ i - 1 <= m
        OBVIOUS
      <3>2. h[i - 1] = g[i - 1]
        BY <3>1
      <3>3. CASE i <= m
        <4>1. h[i] = g[i] /\ i \in 1 .. m
          BY <3>1, <3>3
        <4> QED BY <2>2, <3>2, <4>1
      <3>4. CASE i = m + 1
        <4>1. h[i] = next[<<m + 1, g[m]>>] /\ i - 1 = m
          BY <3>1, <3>4
        <4> QED BY <3>2, <3>4, <4>1
      <3> QED BY <3>1, <3>3, <3>4
    <2>8. Iterates(h, m + 1, T, base, next)
      <3> HIDE DEF h
      <3> QED BY <2>5, <2>6, <2>7 DEF Iterates
    <2> QED BY <2>3, <2>8, Zenon
  <1>3. n \in S
    <2> HIDE DEF S
    <2> QED BY <1>1, <1>2, Induction
  <1> QED BY <1>3

-----------------------------------------------------------------------------
\* The tokens a decoder hands out: only a start tag has attributes.
XMLTokens == {t \in [tag: {"start", "end", "text", "blank"}, attrs: 0 .. MaxAttributes] :
                t.tag # "start" => t.attrs = 0}

\* A token is one more of its tag.
LEMMA TaggedAppend ==
    ASSUME NEW ts \in Seq(XMLTokens), NEW tok \in XMLTokens, NEW g
    PROVE  /\ IsFiniteSet(Tagged(ts, g)) /\ Cardinality(Tagged(ts, g)) \in Nat
           /\ Tagged(ts, g) \subseteq 1 .. Len(ts)
           /\ Tagged(Append(ts, tok), g) =
                IF tok.tag = g THEN Tagged(ts, g) \cup {Len(ts) + 1} ELSE Tagged(ts, g)
           /\ Cardinality(Tagged(Append(ts, tok), g)) =
                Cardinality(Tagged(ts, g)) + IF tok.tag = g THEN 1 ELSE 0
  <1> DEFINE n == Len(ts)
             u == Append(ts, tok)
  <1>1. /\ n \in Nat /\ DOMAIN ts = 1 .. n /\ DOMAIN u = 1 .. n + 1
        /\ \A i \in 1 .. n : u[i] = ts[i]
        /\ u[n + 1] = tok
    BY AppendProperties, LenProperties
  <1>2. Tagged(ts, g) \subseteq 1 .. n
    BY <1>1 DEF Tagged
  <1>3. IsFiniteSet(Tagged(ts, g)) /\ Cardinality(Tagged(ts, g)) \in Nat
    <2>1. IsFiniteSet(1 .. n)
      <3>1. 1 \in Int /\ n \in Int
        BY <1>1
      <3> QED BY <3>1, FS_Interval, Zenon
    <2> HIDE DEF n
    <2>2. IsFiniteSet(Tagged(ts, g))
      BY <1>2, <2>1, FS_Subset, Zenon
    <2> QED BY <2>2, FS_CardinalityType, Zenon
  <1>4. n + 1 \notin Tagged(ts, g)
    BY <1>1, <1>2
  <1>5. Tagged(u, g) = IF tok.tag = g THEN Tagged(ts, g) \cup {n + 1} ELSE Tagged(ts, g)
    <2>1. \A i : i \in 1 .. n + 1 <=> i \in 1 .. n \/ i = n + 1
      BY <1>1
    <2>2. \A i : i \in Tagged(u, g) <=> i \in 1 .. n + 1 /\ u[i].tag = g
      BY <1>1 DEF Tagged
    <2>3. \A i : i \in Tagged(ts, g) <=> i \in 1 .. n /\ ts[i].tag = g
      BY <1>1 DEF Tagged
    <2> HIDE DEF n, u
    <2> QED BY <1>1, <2>1, <2>2, <2>3
  <1>6. Cardinality(Tagged(u, g)) = Cardinality(Tagged(ts, g)) + IF tok.tag = g THEN 1 ELSE 0
    <2> HIDE DEF n, u
    <2>2. Cardinality(Tagged(ts, g) \cup {n + 1}) = Cardinality(Tagged(ts, g)) + 1
      BY <1>3, <1>4, FS_AddElement, Zenon
    <2> QED BY <1>3, <1>5, <2>2
  <1> QED BY <1>2, <1>3, <1>5, <1>6

\* The nesting after all tokens.
LastNesting(ts) == Cardinality(Tagged(ts, "start")) - Cardinality(Tagged(ts, "end"))

\* A token changes the nesting from there on.
LEMMA NestingAppend ==
    ASSUME NEW ts \in Seq(XMLTokens), NEW tok \in XMLTokens
    PROVE  LET u == Append(ts, tok) IN
           /\ \A i \in 1 .. Len(ts) : Nesting(u, i) = Nesting(ts, i)
           /\ Nesting(u, Len(ts) + 1) = LastNesting(u)
           /\ LastNesting(ts) \in Int
           /\ LastNesting(u) = LastNesting(ts) + CASE tok.tag = "start" -> 1
                                                   [] tok.tag = "end"   -> -1
                                                   [] OTHER             -> 0
  <1> DEFINE n == Len(ts)
             u == Append(ts, tok)
  <1>1. n \in Nat
    BY LenProperties
  <1>2. ASSUME NEW g, NEW i \in 1 .. n
        PROVE  {j \in Tagged(u, g) : j <= i} = {j \in Tagged(ts, g) : j <= i}
    <2>1. ~(n + 1 <= i)
      BY <1>1
    <2> QED BY <2>1, TaggedAppend
  <1>3. ASSUME NEW g PROVE {j \in Tagged(u, g) : j <= n + 1} = Tagged(u, g)
    <2>1. \A j \in 1 .. n : j <= n + 1
      BY <1>1
    <2>2. n + 1 <= n + 1
      BY <1>1
    <2> HIDE DEF n
    <2> QED BY <2>1, <2>2, TaggedAppend DEF n
  <1>4. \A i \in 1 .. n : Nesting(u, i) = Nesting(ts, i)
    <2> HIDE DEF u, n
    <2> QED BY <1>2 DEF Nesting
  <1>5. Nesting(u, n + 1) = LastNesting(u)
    <2> HIDE DEF u, n
    <2> QED BY <1>3 DEF Nesting, LastNesting
  <1>6. /\ Cardinality(Tagged(ts, "start")) \in Nat /\ Cardinality(Tagged(ts, "end")) \in Nat
        /\ Cardinality(Tagged(u, "start")) =
              Cardinality(Tagged(ts, "start")) + IF tok.tag = "start" THEN 1 ELSE 0
        /\ Cardinality(Tagged(u, "end")) =
              Cardinality(Tagged(ts, "end")) + IF tok.tag = "end" THEN 1 ELSE 0
    BY TaggedAppend
  <1>7. /\ LastNesting(ts) \in Int
        /\ LastNesting(u) = LastNesting(ts) + CASE tok.tag = "start" -> 1
                                                [] tok.tag = "end"   -> -1
                                                [] OTHER             -> 0
    <2> HIDE DEF u
    <2> QED BY <1>6 DEF LastNesting
  <1> QED BY <1>4, <1>5, <1>7

\* A token adds its attributes.
LEMMA AttributesAppend ==
    ASSUME NEW ts \in Seq(XMLTokens), NEW tok \in XMLTokens, TrueAttributes(ts) \in Nat,
           IsFiniteSet(Attributes(ts))
    PROVE  /\ IsFiniteSet(Attributes(Append(ts, tok)))
           /\ TrueAttributes(Append(ts, tok)) = TrueAttributes(ts) + tok.attrs
  <1> DEFINE n == Len(ts)
             u == Append(ts, tok)
             A == {n + 1} \X (1 .. tok.attrs)
  <1>1. /\ n \in Nat /\ DOMAIN ts = 1 .. n /\ DOMAIN u = 1 .. n + 1
        /\ \A i \in 1 .. n : u[i] = ts[i]
        /\ u[n + 1] = tok
    BY AppendProperties, LenProperties
  <1>2. tok.attrs \in Nat /\ tok.attrs <= MaxAttributes /\ MaxAttributes \in Nat
    BY ParametersAssumption DEF XMLTokens
  <1>3. Attributes(u) = Attributes(ts) \cup A
    <2>1. \A i : i \in 1 .. n + 1 <=> i \in 1 .. n \/ i = n + 1
      BY <1>1
    <2>2. \A k \in 1 .. MaxAttributes : k <= tok.attrs <=> k \in 1 .. tok.attrs
      BY <1>2
    <2>3. \A k \in 1 .. tok.attrs : k \in 1 .. MaxAttributes
      BY <1>2
    <2>4. \A i, k : <<i, k>> \in Attributes(u) <=>
            i \in 1 .. n + 1 /\ k \in 1 .. MaxAttributes /\ k <= u[i].attrs
      BY <1>1 DEF Attributes
    <2>5. \A i, k : <<i, k>> \in Attributes(ts) <=>
            i \in 1 .. n /\ k \in 1 .. MaxAttributes /\ k <= ts[i].attrs
      BY <1>1 DEF Attributes
    <2>6. \A i, k : <<i, k>> \in A <=> i = n + 1 /\ k \in 1 .. tok.attrs
      OBVIOUS
    <2>7. /\ \A p \in Attributes(u) : p = <<p[1], p[2]>>
          /\ \A p \in Attributes(ts) : p = <<p[1], p[2]>>
          /\ \A p \in A : p = <<p[1], p[2]>>
      BY DEF Attributes
    <2> HIDE DEF n, u, A
    <2>8. \A i, k : <<i, k>> \in Attributes(u) <=> <<i, k>> \in Attributes(ts) \cup A
      BY <1>1, <2>1, <2>2, <2>3, <2>4, <2>5, <2>6
    <2>9. ASSUME NEW p PROVE p \in Attributes(u) <=> p \in Attributes(ts) \cup A
      <3>1. p \in Attributes(u) \/ p \in Attributes(ts) \cup A => p = <<p[1], p[2]>>
        BY <2>7, Zenon
      <3> QED BY <2>8, <3>1, Zenon
    <2> QED BY <2>9, Zenon
  <1>4. Attributes(ts) \cap A = {}
    <2>1. \A p \in Attributes(ts) : p[1] \in 1 .. n
      BY <1>1 DEF Attributes
    <2>2. \A p \in A : p[1] \notin 1 .. n
      BY <1>1
    <2> HIDE DEF A
    <2> QED BY <2>1, <2>2
  <1>5. IsFiniteSet(A) /\ Cardinality(A) = tok.attrs
    <2>1. IsFiniteSet({n + 1}) /\ Cardinality({n + 1}) = 1
      BY FS_Singleton
    <2>2. IsFiniteSet(1 .. tok.attrs) /\ Cardinality(1 .. tok.attrs) = tok.attrs
      <3>1. 1 \in Int /\ tok.attrs \in Int
        BY <1>2
      <3>2. /\ IsFiniteSet(1 .. tok.attrs)
            /\ Cardinality(1 .. tok.attrs) = IF 1 > tok.attrs THEN 0 ELSE tok.attrs - 1 + 1
        BY <3>1, FS_Interval, Zenon
      <3> QED BY <1>2, <3>2
    <2>3. /\ IsFiniteSet(A)
          /\ Cardinality(A) = Cardinality({n + 1}) * Cardinality(1 .. tok.attrs)
      BY <2>1, <2>2, FS_Product, Zenon
    <2> HIDE DEF A, n
    <2> QED BY <1>2, <2>1, <2>2, <2>3
  <1>6. IsFiniteSet(Attributes(u)) /\ Cardinality(Attributes(u)) = Cardinality(Attributes(ts)) + tok.attrs
    <2> HIDE DEF A, u
    <2>1. Cardinality({}) = 0
      BY FS_EmptySet
    <2>2. /\ IsFiniteSet(Attributes(u))
          /\ Cardinality(Attributes(u)) =
               Cardinality(Attributes(ts)) + Cardinality(A) - Cardinality({})
      BY <1>3, <1>4, <1>5, FS_Union, Zenon
    <2>3. Cardinality(Attributes(ts)) \in Nat
      BY DEF TrueAttributes
    <2> QED BY <1>2, <1>5, <2>1, <2>2, <2>3
  <1> QED BY <1>6 DEF TrueAttributes

\* The greatest of a set of integers.
IsGreatest(m, S) == m \in S /\ \A y \in S : m >= y

\* The greatest of a set with one more.
LEMMA MaxWithOneMore ==
    ASSUME NEW S \in SUBSET Int, NEW m \in Int, IsGreatest(m, S), NEW x \in Int
    PROVE  Max(S) = m /\ IsGreatest(Larger(m, x), S \cup {x}) /\ Max(S \cup {x}) = Larger(m, x)
  <1>1. \A T \in SUBSET Int, k \in Int : IsGreatest(k, T) => Max(T) = k
    <2> TAKE T \in SUBSET Int, k \in Int
    <2> HAVE IsGreatest(k, T)
    <2>1. /\ Max(T) \in T /\ \A y \in T : Max(T) >= y
      BY DEF Max, IsGreatest
    <2>2. k \in T /\ \A y \in T : k >= y
      BY DEF IsGreatest
    <2>3. Max(T) \in Int /\ Max(T) >= k /\ k >= Max(T)
      BY <2>1, <2>2
    <2> QED BY <2>3
  <1>2. IsGreatest(Larger(m, x), S \cup {x}) /\ Larger(m, x) \in Int
    BY DEF IsGreatest, Larger
  <1>3. S \cup {x} \in SUBSET Int
    OBVIOUS
  <1> QED BY <1>1, <1>2, <1>3

\* The metrics of the charset analysis.
XMLMetricsSet == [tokenCount: Nat, tagCount: Nat, attributeCount: Nat, textNodeCount: Nat]

\* A token keeps their type.
LEMMA CountTokenType ==
    ASSUME NEW m \in XMLMetricsSet, NEW tok \in XMLTokens
    PROVE  CountToken(m, tok) \in XMLMetricsSet
  <1>1. /\ m.tokenCount + 1 \in Nat /\ m.tagCount + 1 \in Nat
        /\ m.attributeCount + tok.attrs \in Nat /\ m.textNodeCount + 1 \in Nat
    BY ParametersAssumption DEF XMLMetricsSet, XMLTokens
  <1> QED BY <1>1 DEF CountToken, XMLMetricsSet

\* XMLMetrics goes through the tokens once.
LEMMA MetricsSteps ==
    ASSUME NEW ts \in Seq(XMLTokens)
    PROVE  \E after :
             /\ after \in [0 .. Len(ts) -> XMLMetricsSet]
             /\ after[0] = NoXMLMetrics
             /\ \A i \in 1 .. Len(ts) : after[i] = CountToken(after[i - 1], ts[i])
             /\ XMLMetrics(ts) = after[Len(ts)]
  <1> DEFINE n == Len(ts)
             T == XMLMetricsSet
             Step(g, i) == IF i = 0 THEN NoXMLMetrics ELSE CountToken(g[i - 1], ts[i])
             after == CHOOSE g : g = [i \in 0 .. n |-> Step(g, i)]
             next == [p \in Nat \X T |-> IF p[1] \in 1 .. n THEN CountToken(p[2], ts[p[1]]) ELSE p[2]]
  <1>1. n \in Nat /\ \A i \in 1 .. n : ts[i] \in XMLTokens
    BY LenProperties, ElementOfSeq
  <1>2. NoXMLMetrics \in T /\ Stays(next, T)
    <2>1. ASSUME NEW i \in Nat, NEW v \in T PROVE next[<<i, v>>] \in T
      <3>1. i \in 1 .. n => CountToken(v, ts[i]) \in T
        BY <1>1, CountTokenType, Zenon
      <3> HIDE DEF T, n
      <3>2. next[<<i, v>>] = v \/ (i \in 1 .. n /\ next[<<i, v>>] = CountToken(v, ts[i]))
        OBVIOUS
      <3> HIDE DEF next
      <3> QED BY <3>1, <3>2, Zenon
    <2>2. NoXMLMetrics \in T
      BY DEF NoXMLMetrics, XMLMetricsSet
    <2> HIDE DEF n, T, next
    <2> QED BY <2>1, <2>2 DEF Stays
  <1> HIDE DEF n, T, next, after, Step
  <1>3. PICK g : Iterates(g, n, T, NoXMLMetrics, next)
    BY <1>1, <1>2, IterationExists
  <1>4. g = [i \in 0 .. n |-> Step(g, i)]
    <2>1. /\ g \in [0 .. n -> T] /\ g[0] = NoXMLMetrics
          /\ \A i \in 1 .. n : g[i] = next[<<i, g[i - 1]>>]
      BY <1>3 DEF Iterates
    <2>2. ASSUME NEW i \in 0 .. n PROVE g[i] = Step(g, i)
      <3>1. CASE i = 0
        BY <2>1, <3>1 DEF Step
      <3>2. CASE i # 0
        <4>1. i \in 1 .. n /\ i - 1 \in 0 .. n /\ i \in Nat
          BY <1>1, <3>2
        <4>2. g[i - 1] \in T
          BY <2>1, <4>1
        <4>3. g[i] = next[<<i, g[i - 1]>>]
          BY <2>1, <4>1
        <4>4. next[<<i, g[i - 1]>>] = Step(g, i)
          BY <3>2, <4>1, <4>2 DEF next, Step
        <4> QED BY <4>3, <4>4
      <3> QED BY <3>1, <3>2
    <2> QED BY <2>1, <2>2
  <1>5. after = [i \in 0 .. n |-> Step(after, i)]
    BY <1>4 DEF after
  <1>6. ASSUME NEW i \in 0 .. n PROVE after[i] = Step(after, i)
    BY <1>5
  <1>7. after[0] = NoXMLMetrics
    <2>1. after[0] = Step(after, 0)
      BY <1>1, <1>6
    <2> QED BY <2>1 DEF Step
  <1>8. \A i \in 1 .. n : after[i] = CountToken(after[i - 1], ts[i])
    <2> TAKE i \in 1 .. n
    <2>1. i \in 0 .. n /\ i # 0
      BY <1>1
    <2>2. after[i] = Step(after, i)
      BY <1>6, <2>1
    <2> QED BY <2>1, <2>2 DEF Step
  <1>9. \A i \in Nat : i <= n => after[i] \in T
    <2> DEFINE S == {i \in Nat : i <= n => after[i] \in T}
    <2>1. 0 \in S
      BY <1>2, <1>7
    <2>2. ASSUME NEW i \in Nat, i \in S PROVE i + 1 \in S
      <3>1. CASE i + 1 <= n
        <4>1. i + 1 \in 1 .. n /\ (i + 1) - 1 = i /\ i <= n
          BY <1>1, <3>1
        <4>2. after[i + 1] = CountToken(after[i], ts[i + 1]) /\ after[i] \in T
          BY <1>8, <2>2, <4>1
        <4>3. after[i + 1] \in T
          BY <1>1, <4>1, <4>2, CountTokenType DEF T
        <4> QED BY <4>3
      <3>2. CASE ~(i + 1 <= n)
        BY <3>2
      <3> QED BY <3>1, <3>2
    <2>3. \A i \in Nat : i \in S
      <3> HIDE DEF S
      <3> QED BY <2>1, <2>2, Induction
    <2> QED BY <2>3
  <1>10. after \in [0 .. n -> T]
    <2>1. \A i \in 0 .. n : after[i] \in T
      BY <1>1, <1>9
    <2> QED BY <1>5, <2>1
  <1>11. XMLMetrics(ts) = after[n]
    BY DEF XMLMetrics, after, n, Step
  <1> QED BY <1>7, <1>8, <1>10, <1>11 DEF n, T

\* One more token is counted last.
LEMMA MetricsAppend ==
    ASSUME NEW ts \in Seq(XMLTokens), NEW tok \in XMLTokens
    PROVE  /\ XMLMetrics(Append(ts, tok)) = CountToken(XMLMetrics(ts), tok)
           /\ XMLMetrics(ts) \in XMLMetricsSet
  <1> DEFINE n == Len(ts)
             u == Append(ts, tok)
  <1>1. /\ n \in Nat /\ u \in Seq(XMLTokens) /\ Len(u) = n + 1
        /\ \A i \in 1 .. n : u[i] = ts[i]
        /\ u[n + 1] = tok
    BY AppendProperties, LenProperties
  <1> HIDE DEF n, u
  <1>2. PICK f : /\ f \in [0 .. n -> XMLMetricsSet]
                 /\ f[0] = NoXMLMetrics
                 /\ \A i \in 1 .. n : f[i] = CountToken(f[i - 1], ts[i])
                 /\ XMLMetrics(ts) = f[n]
    BY MetricsSteps DEF n
  <1>3. PICK g : /\ g \in [0 .. n + 1 -> XMLMetricsSet]
                 /\ g[0] = NoXMLMetrics
                 /\ \A i \in 1 .. n + 1 : g[i] = CountToken(g[i - 1], u[i])
                 /\ XMLMetrics(u) = g[n + 1]
    BY <1>1, MetricsSteps
  <1>4. \A i \in Nat : i <= n => f[i] = g[i]
    <2> DEFINE S == {i \in Nat : i <= n => f[i] = g[i]}
    <2>1. 0 \in S
      BY <1>2, <1>3
    <2>2. ASSUME NEW i \in Nat, i \in S PROVE i + 1 \in S
      <3>1. CASE i + 1 <= n
        <4>1. i + 1 \in 1 .. n /\ i + 1 \in 1 .. n + 1 /\ (i + 1) - 1 = i /\ i <= n
          BY <1>1, <3>1
        <4>2. /\ f[i + 1] = CountToken(f[i], ts[i + 1])
              /\ g[i + 1] = CountToken(g[i], u[i + 1])
          BY <1>2, <1>3, <4>1
        <4>3. f[i] = g[i] /\ u[i + 1] = ts[i + 1]
          BY <1>1, <2>2, <4>1
        <4> QED BY <4>2, <4>3
      <3>2. CASE ~(i + 1 <= n)
        BY <3>2
      <3> QED BY <3>1, <3>2
    <2>3. \A i \in Nat : i \in S
      <3> HIDE DEF S
      <3> QED BY <2>1, <2>2, Induction
    <2> QED BY <2>3
  <1>5. n + 1 \in 1 .. n + 1 /\ (n + 1) - 1 = n /\ n <= n /\ n \in 0 .. n
    BY <1>1
  <1>6. g[n + 1] = CountToken(g[n], tok)
    BY <1>1, <1>3, <1>5
  <1> QED BY <1>1, <1>2, <1>3, <1>4, <1>5, <1>6 DEF u


-----------------------------------------------------------------------------
Nestings(ts) == {0} \cup {Nesting(ts, i) : i \in DOMAIN ts}
Widths(ts) == {0} \cup {ts[i].attrs : i \in DOMAIN ts}

\* What is known of the tokens at any time: the reference definitions have
\* values, and the charset analysis counts what they count.
Counted(ts) ==
    /\ ts \in Seq(XMLTokens)
    /\ TrueElements(ts) \in Nat /\ TrueTexts(ts) \in Nat /\ TrueAttributes(ts) \in Nat
    /\ IsFiniteSet(Attributes(ts))
    /\ TrueElements(ts) = 0 => TrueAttributes(ts) = 0
    /\ TrueDepth(ts) \in Nat /\ Nestings(ts) \subseteq Int
    /\ IsGreatest(TrueDepth(ts), Nestings(ts))
    /\ LastNesting(ts) \in Nestings(ts)
    /\ MostAttributes(ts) \in Nat /\ Widths(ts) \subseteq Int
    /\ IsGreatest(MostAttributes(ts), Widths(ts))
    /\ XMLMetrics(ts) = [tokenCount     |-> TrueElements(ts) + TrueTexts(ts),
                         tagCount       |-> TrueElements(ts),
                         attributeCount |-> TrueAttributes(ts),
                         textNodeCount  |-> TrueTexts(ts)]

\* What one more token makes of them.
CountsGrow(ts, u, tok) ==
    /\ TrueElements(u) = TrueElements(ts) + IF tok.tag = "start" THEN 1 ELSE 0
    /\ TrueTexts(u) = TrueTexts(ts) + IF tok.tag = "text" THEN 1 ELSE 0
    /\ TrueAttributes(u) = TrueAttributes(ts) + tok.attrs
    /\ LastNesting(u) = LastNesting(ts) + CASE tok.tag = "start" -> 1
                                            [] tok.tag = "end"   -> -1
                                            [] OTHER             -> 0
    /\ TrueDepth(u) = Larger(TrueDepth(ts), LastNesting(u))
    /\ MostAttributes(u) = Larger(MostAttributes(ts), tok.attrs)

\* Without tokens there is nothing to count.
LEMMA NothingCounted ==
    /\ Counted(<<>>)
    /\ TrueElements(<<>>) = 0 /\ TrueTexts(<<>>) = 0 /\ TrueAttributes(<<>>) = 0
    /\ TrueDepth(<<>>) = 0 /\ MostAttributes(<<>>) = 0 /\ LastNesting(<<>>) = 0
  <1> DEFINE e == <<>>
  <1>1. e \in Seq(XMLTokens) /\ Len(e) = 0 /\ DOMAIN e = {}
    BY EmptySeq
  <1>2. \A g : Tagged(e, g) = {}
    BY <1>1 DEF Tagged
  <1>3. Attributes(e) = {}
    BY <1>1 DEF Attributes
  <1>4. Cardinality({}) = 0 /\ IsFiniteSet({})
    BY FS_EmptySet
  <1>5. /\ TrueElements(e) = 0 /\ TrueTexts(e) = 0 /\ TrueAttributes(e) = 0
        /\ IsFiniteSet(Attributes(e))
    BY <1>2, <1>3, <1>4 DEF TrueElements, TrueTexts, TrueAttributes
  <1>6. LastNesting(e) = 0
    <2> HIDE DEF e
    <2>1. Cardinality(Tagged(e, "start")) = 0 /\ Cardinality(Tagged(e, "end")) = 0
      BY <1>2, <1>4, Zenon
    <2> QED BY <2>1 DEF LastNesting
  <1>7. Nestings(e) = {0} /\ Widths(e) = {0}
    BY <1>1 DEF Nestings, Widths
  <1>8. IsGreatest(0, {0}) /\ Max({0}) = 0
    <2>1. IsGreatest(0, {0}) /\ {0} \in SUBSET Int
      BY DEF IsGreatest
    <2> QED BY <2>1, MaxWithOneMore
  <1>9. TrueDepth(e) = 0 /\ MostAttributes(e) = 0
    BY <1>7, <1>8 DEF TrueDepth, MostAttributes, Nestings, Widths
  <1>10. XMLMetrics(e) = NoXMLMetrics
    BY <1>1, MetricsSteps
  <1> HIDE DEF e
  <1>11. Counted(e)
    <2>1. XMLMetrics(e) = [tokenCount     |-> TrueElements(e) + TrueTexts(e),
                           tagCount       |-> TrueElements(e),
                           attributeCount |-> TrueAttributes(e),
                           textNodeCount  |-> TrueTexts(e)]
      BY <1>5, <1>10 DEF NoXMLMetrics
    <2>2. /\ TrueElements(e) \in Nat /\ TrueTexts(e) \in Nat /\ TrueAttributes(e) \in Nat
          /\ TrueDepth(e) \in Nat /\ MostAttributes(e) \in Nat
      BY <1>5, <1>9
    <2>3. /\ Nestings(e) \subseteq Int /\ Widths(e) \subseteq Int
          /\ IsGreatest(TrueDepth(e), Nestings(e)) /\ IsGreatest(MostAttributes(e), Widths(e))
          /\ LastNesting(e) \in Nestings(e)
      BY <1>6, <1>7, <1>8, <1>9
    <2> QED BY <1>1, <1>5, <2>1, <2>2, <2>3, Zenon DEF Counted
  <1> QED BY <1>5, <1>6, <1>9, <1>11 DEF e

\* One more token is counted on all sides.
LEMMA CountedAppend ==
    ASSUME NEW ts, Counted(ts), NEW tok \in XMLTokens, NEW u, u = Append(ts, tok)
    PROVE  Counted(u) /\ CountsGrow(ts, u, tok)
  <1> DEFINE n == Len(ts)
  <1>1. /\ ts \in Seq(XMLTokens) /\ n \in Nat /\ DOMAIN ts = 1 .. n
        /\ u \in Seq(XMLTokens) /\ DOMAIN u = 1 .. n + 1
        /\ \A i \in 1 .. n : u[i] = ts[i]
        /\ u[n + 1] = tok
    BY AppendProperties, LenProperties DEF Counted
  <1>2. tok.attrs \in Nat
    BY ParametersAssumption DEF XMLTokens
  <1>3. /\ TrueElements(u) = TrueElements(ts) + IF tok.tag = "start" THEN 1 ELSE 0
        /\ TrueTexts(u) = TrueTexts(ts) + IF tok.tag = "text" THEN 1 ELSE 0
        /\ TrueElements(u) \in Nat /\ TrueTexts(u) \in Nat
    <2>1. \A g : Cardinality(Tagged(u, g)) = Cardinality(Tagged(ts, g)) + IF tok.tag = g THEN 1 ELSE 0
      BY <1>1, TaggedAppend
    <2> QED BY <2>1 DEF TrueElements, TrueTexts, Counted
  <1>4. /\ TrueAttributes(u) = TrueAttributes(ts) + tok.attrs
        /\ TrueAttributes(u) \in Nat
        /\ IsFiniteSet(Attributes(u))
    <2>1. TrueAttributes(ts) \in Nat /\ IsFiniteSet(Attributes(ts))
      BY DEF Counted
    <2> QED BY <1>1, <1>2, <2>1, AttributesAppend
  <1>5. /\ \A i \in 1 .. n : Nesting(u, i) = Nesting(ts, i)
        /\ Nesting(u, n + 1) = LastNesting(u)
        /\ LastNesting(ts) \in Int
        /\ LastNesting(u) = LastNesting(ts) + CASE tok.tag = "start" -> 1
                                                [] tok.tag = "end"   -> -1
                                                [] OTHER             -> 0
    BY <1>1, NestingAppend
  <1>6. LastNesting(u) \in Int
    BY <1>5
  <1>7. \A i : i \in 1 .. n + 1 <=> i \in 1 .. n \/ i = n + 1
    BY <1>1
  <1>8. Nestings(u) = Nestings(ts) \cup {LastNesting(u)} /\ Widths(u) = Widths(ts) \cup {tok.attrs}
    <2> HIDE DEF n
    <2>1. Nestings(u) = Nestings(ts) \cup {LastNesting(u)}
      BY <1>1, <1>5, <1>7 DEF Nestings
    <2>2. Widths(u) = Widths(ts) \cup {tok.attrs}
      BY <1>1, <1>7 DEF Widths
    <2> QED BY <2>1, <2>2
  <1>9. /\ TrueDepth(u) = Larger(TrueDepth(ts), LastNesting(u)) /\ TrueDepth(u) \in Nat
        /\ Nestings(u) \subseteq Int /\ IsGreatest(TrueDepth(u), Nestings(u))
        /\ LastNesting(u) \in Nestings(u)
    <2>1. /\ TrueDepth(ts) \in Nat /\ TrueDepth(ts) \in Int
          /\ Nestings(ts) \in SUBSET Int
          /\ IsGreatest(TrueDepth(ts), Nestings(ts))
      BY DEF Counted
    <2>2. /\ IsGreatest(Larger(TrueDepth(ts), LastNesting(u)), Nestings(u))
          /\ Max(Nestings(u)) = Larger(TrueDepth(ts), LastNesting(u))
      BY <1>6, <1>8, <2>1, MaxWithOneMore
    <2>3. TrueDepth(u) = Max(Nestings(u))
      BY DEF TrueDepth, Nestings
    <2>4. Larger(TrueDepth(ts), LastNesting(u)) \in Nat
      BY <1>6, <2>1 DEF Larger
    <2> QED BY <1>6, <1>8, <2>1, <2>2, <2>3, <2>4
  <1>10. /\ MostAttributes(u) = Larger(MostAttributes(ts), tok.attrs) /\ MostAttributes(u) \in Nat
         /\ Widths(u) \subseteq Int /\ IsGreatest(MostAttributes(u), Widths(u))
    <2>1. /\ MostAttributes(ts) \in Nat /\ MostAttributes(ts) \in Int
          /\ Widths(ts) \in SUBSET Int /\ tok.attrs \in Int
          /\ IsGreatest(MostAttributes(ts), Widths(ts))
      BY <1>2 DEF Counted
    <2>2. /\ IsGreatest(Larger(MostAttributes(ts), tok.attrs), Widths(u))
          /\ Max(Widths(u)) = Larger(MostAttributes(ts), tok.attrs)
      BY <1>8, <2>1, MaxWithOneMore
    <2>3. MostAttributes(u) = Max(Widths(u))
      BY DEF MostAttributes, Widths
    <2>4. Larger(MostAttributes(ts), tok.attrs) \in Nat
      BY <1>2, <2>1 DEF Larger
    <2> QED BY <1>8, <2>1, <2>2, <2>3, <2>4
  <1>11. XMLMetrics(u) = [tokenCount     |-> TrueElements(u) + TrueTexts(u),
                          tagCount       |-> TrueElements(u),
                          attributeCount |-> TrueAttributes(u),
                          textNodeCount  |-> TrueTexts(u)]
    <2>1. XMLMetrics(u) = CountToken(XMLMetrics(ts), tok)
      BY <1>1, MetricsAppend
    <2>2. /\ TrueElements(ts) \in Nat /\ TrueTexts(ts) \in Nat /\ TrueAttributes(ts) \in Nat
          /\ XMLMetrics(ts) = [tokenCount     |-> TrueElements(ts) + TrueTexts(ts),
                               tagCount       |-> TrueElements(ts),
                               attributeCount |-> TrueAttributes(ts),
                               textNodeCount  |-> TrueTexts(ts)]
      BY DEF Counted
    <2>3. tok.tag # "start" => tok.attrs = 0
      BY DEF XMLTokens
    <2> DEFINE m == XMLMetrics(ts)
    <2>m. /\ m = [tokenCount |-> m.tokenCount, tagCount |-> m.tagCount,
                  attributeCount |-> m.attributeCount, textNodeCount |-> m.textNodeCount]
          /\ m.tokenCount = TrueElements(ts) + TrueTexts(ts)
          /\ m.tagCount = TrueElements(ts)
          /\ m.attributeCount = TrueAttributes(ts)
          /\ m.textNodeCount = TrueTexts(ts)
      BY <2>2
    <2> HIDE DEF m
    <2>4. CASE tok.tag = "start"
      <3>1. CountToken(m, tok) =
              [tokenCount |-> m.tokenCount + 1, tagCount |-> m.tagCount + 1,
               attributeCount |-> m.attributeCount + tok.attrs,
               textNodeCount |-> m.textNodeCount]
        BY <2>4, <2>m DEF CountToken
      <3>2. /\ m.tokenCount + 1 = TrueElements(u) + TrueTexts(u)
            /\ m.tagCount + 1 = TrueElements(u)
            /\ m.attributeCount + tok.attrs = TrueAttributes(u)
            /\ m.textNodeCount = TrueTexts(u)
        BY <1>2, <1>3, <1>4, <2>2, <2>m, <2>4
      <3> QED BY <2>1, <3>1, <3>2 DEF m
    <2>5. CASE tok.tag = "text"
      <3>1. CountToken(m, tok) =
              [tokenCount |-> m.tokenCount + 1, tagCount |-> m.tagCount,
               attributeCount |-> m.attributeCount,
               textNodeCount |-> m.textNodeCount + 1]
        <4>1. tok.tag # "start"
          BY <2>5
        <4>2. CountToken(m, tok) = [m EXCEPT !.tokenCount = @ + 1, !.textNodeCount = @ + 1]
          BY <2>5, <4>1, Zenon DEF CountToken
        <4> DEFINE k == [m EXCEPT !.tokenCount = @ + 1]
        <4>3. CountToken(m, tok) = [k EXCEPT !.textNodeCount = @ + 1]
          BY <4>2
        <4>4. k = [tokenCount |-> m.tokenCount + 1, tagCount |-> m.tagCount,
                   attributeCount |-> m.attributeCount, textNodeCount |-> m.textNodeCount]
          BY <2>m
        <4> HIDE DEF k
        <4>5. [k EXCEPT !.textNodeCount = @ + 1] =
                [tokenCount |-> m.tokenCount + 1, tagCount |-> m.tagCount,
                 attributeCount |-> m.attributeCount, textNodeCount |-> m.textNodeCount + 1]
          BY <4>4
        <4> QED BY <4>3, <4>5
      <3>2. /\ m.tokenCount + 1 = TrueElements(u) + TrueTexts(u)
            /\ m.tagCount = TrueElements(u)
            /\ m.attributeCount = TrueAttributes(u)
            /\ m.textNodeCount + 1 = TrueTexts(u)
        <4>1. tok.attrs = 0
          BY <2>3, <2>5
        <4>2. TrueElements(u) = TrueElements(ts) /\ TrueTexts(u) = TrueTexts(ts) + 1
          BY <1>3, <2>2, <2>5
        <4>3. TrueAttributes(u) = TrueAttributes(ts)
          BY <1>4, <2>2, <4>1
        <4> QED BY <2>2, <2>m, <4>2, <4>3
      <3> QED BY <2>1, <3>1, <3>2 DEF m
    <2>6. CASE tok.tag \notin {"start", "text"}
      BY <1>3, <1>4, <2>1, <2>2, <2>3, <2>6 DEF CountToken
    <2> QED BY <2>4, <2>5, <2>6
  <1>12. TrueElements(u) = 0 => TrueAttributes(u) = 0
    <2>1. /\ TrueElements(ts) \in Nat /\ TrueAttributes(ts) \in Nat
          /\ TrueElements(ts) = 0 => TrueAttributes(ts) = 0
      BY DEF Counted
    <2>2. tok.tag # "start" => tok.attrs = 0
      BY DEF XMLTokens
    <2> QED BY <1>3, <1>4, <2>1, <2>2
  <1>13. Counted(u)
    BY <1>1, <1>3, <1>4, <1>9, <1>10, <1>11, <1>12 DEF Counted
  <1>14. CountsGrow(ts, u, tok)
    BY <1>3, <1>4, <1>5, <1>9, <1>10 DEF CountsGrow
  <1> QED BY <1>13, <1>14


-----------------------------------------------------------------------------
\* What the loop reports and why it stopped, against the tokens.
Exact ==
    /\ stats.maxDepth = TrueDepth(tokens)
    /\ stats.elementCount = TrueElements(tokens)
    /\ stats.attributeCount = TrueAttributes(tokens)
    /\ stats.textNodeCount = TrueTexts(tokens)
    /\ stats.maxAttributes = MostAttributes(tokens)

NeverMore ==
    /\ stats.elementCount <= TrueElements(tokens)
    /\ stats.attributeCount <= TrueAttributes(tokens)
    /\ stats.textNodeCount <= TrueTexts(tokens)

Follows ==
    /\ Counted(tokens)
    /\ open = LastNesting(tokens)
    /\ NeverMore
    /\ outcome \notin {"depth", "fields"} => Exact
    /\ outcome = "depth" => TrueDepth(tokens) > maxJSONDepth
    /\ outcome = "fields" => /\ TrueDepth(tokens) <= maxJSONDepth
                             /\ TrueElements(tokens) + TrueAttributes(tokens) > maxFields
    /\ outcome = "nil" => NothingSeen
    /\ outcome = "failed" => ~NothingSeen

\* Before the first token nothing is counted on either side.
LEMMA InitFollows == Init => Follows
  <1> SUFFICES ASSUME Init PROVE Follows
    OBVIOUS
  <1>1. tokens = <<>> /\ open = 0 /\ stats = NoStats /\ outcome = "running"
    BY DEF Init
  <1>2. Counted(tokens) /\ open = LastNesting(tokens)
    BY <1>1, NothingCounted
  <1>3. Exact
    BY <1>1, NothingCounted DEF Exact, NoStats
  <1>4. NeverMore
    BY <1>1, NothingCounted DEF NeverMore, NoStats
  <1> QED BY <1>1, <1>2, <1>3, <1>4 DEF Follows

\* What a token handed out means for the reference definitions.
LEMMA TokenCounts ==
    ASSUME Follows, NEW tag \in {"start", "end", "text", "blank"},
           NEW attrs \in 0 .. MaxAttributes, tag # "start" => attrs = 0, Token(tag, attrs)
    PROVE  /\ Counted(tokens')
           /\ CountsGrow(tokens, tokens', [tag |-> tag, attrs |-> attrs])
  <1> DEFINE tok == [tag |-> tag, attrs |-> attrs]
  <1>1. tok \in XMLTokens
    BY DEF XMLTokens
  <1>2. Counted(tokens) /\ tokens' = Append(tokens, tok)
    BY DEF Follows, Token
  <1> HIDE DEF tok
  <1>3. Counted(tokens') /\ CountsGrow(tokens, tokens', tok)
    BY <1>1, <1>2, CountedAppend
  <1> QED BY <1>3 DEF tok

\* The numbers of the reference definitions.
LEMMA CountedNumbers ==
    ASSUME NEW ts, Counted(ts)
    PROVE  /\ TrueElements(ts) \in Nat /\ TrueTexts(ts) \in Nat /\ TrueAttributes(ts) \in Nat
           /\ TrueDepth(ts) \in Nat /\ MostAttributes(ts) \in Nat
           /\ LastNesting(ts) \in Int /\ LastNesting(ts) <= TrueDepth(ts)
  BY DEF Counted, IsGreatest

\* A start tag: the nesting passes the limit, or the fields do, or all is counted.
LEMMA StartElementFollows == Inv /\ Follows /\ StartElement => Follows'
  <1> SUFFICES ASSUME Inv, Follows, StartElement PROVE Follows'
    OBVIOUS
  <1>1. PICK attrs \in 0 .. MaxAttributes :
          /\ Token("start", attrs)
          /\ open' = open + 1
          /\ IF TooDeep
             THEN outcome' = "depth" /\ UNCHANGED <<depth, stats>>
             ELSE /\ depth' = depth + 1
                  /\ stats' = WithElement(stats, attrs)
                  /\ outcome' = IF attrs > Room THEN "fields" ELSE "running"
          /\ UNCHANGED <<maxJSONDepth, maxFields>>
    BY DEF StartElement
  <1>2. outcome = "running" /\ Exact /\ depth = open /\ open = LastNesting(tokens)
    BY <1>1 DEF Token, Follows, Inv, TypeOK
  <1>3. /\ maxJSONDepth \in Nat /\ maxFields \in Nat /\ depth \in Nat
        /\ attrs \in Nat
    BY ParametersAssumption DEF Inv, TypeOK
  <1> DEFINE ts == tokens
             u == tokens'
  <1>4. /\ Counted(u)
        /\ CountsGrow(ts, u, [tag |-> "start", attrs |-> attrs])
    BY <1>1, TokenCounts
  <1>5. /\ TrueElements(u) = TrueElements(ts) + 1
        /\ TrueTexts(u) = TrueTexts(ts)
        /\ TrueAttributes(u) = TrueAttributes(ts) + attrs
        /\ LastNesting(u) = LastNesting(ts) + 1
        /\ TrueDepth(u) = Larger(TrueDepth(ts), LastNesting(u))
        /\ MostAttributes(u) = Larger(MostAttributes(ts), attrs)
    <2>1. TrueTexts(ts) \in Nat
      BY CountedNumbers DEF Follows
    <2> QED BY <1>4, <2>1 DEF CountsGrow
  <1>6. /\ TrueElements(ts) \in Nat /\ TrueTexts(ts) \in Nat /\ TrueAttributes(ts) \in Nat
        /\ TrueDepth(ts) \in Nat /\ MostAttributes(ts) \in Nat
        /\ LastNesting(ts) \in Int /\ LastNesting(ts) <= TrueDepth(ts)
    BY CountedNumbers DEF Follows
  <1>7. /\ stats.maxDepth = TrueDepth(ts) /\ stats.elementCount = TrueElements(ts)
        /\ stats.attributeCount = TrueAttributes(ts) /\ stats.textNodeCount = TrueTexts(ts)
        /\ stats.maxAttributes = MostAttributes(ts)
    BY <1>2 DEF Exact
  <1>8. TrueDepth(ts) <= maxJSONDepth
    BY <1>3, <1>7 DEF Inv, TypeOK
  <1> HIDE DEF ts, u
  <1>9. open' = LastNesting(u)
    BY <1>1, <1>2, <1>5 DEF ts
  <1>10. CASE TooDeep
    <2>1. outcome' = "depth" /\ stats' = stats
      BY <1>1, <1>10
    <2>2. TrueDepth(u) > maxJSONDepth
      BY <1>2, <1>3, <1>5, <1>6, <1>10 DEF TooDeep, Larger, ts
    <2>3. NeverMore'
      BY <1>3, <1>5, <1>6, <1>7, <2>1 DEF NeverMore, u
    <2> QED BY <1>1, <1>4, <1>9, <2>1, <2>2, <2>3 DEF Follows, u
  <1>11. CASE ~TooDeep
    <2>1. /\ stats' = WithElement(stats, attrs)
          /\ outcome' = IF attrs > Room THEN "fields" ELSE "running"
      BY <1>1, <1>11
    <2>2. Room = maxFields - (TrueElements(ts) + 1) - TrueAttributes(ts) /\ Room \in Int
      BY <1>3, <1>6, <1>7 DEF Room
    <2>3. LastNesting(u) = depth + 1 /\ depth + 1 <= maxJSONDepth
      BY <1>2, <1>3, <1>5, <1>11 DEF TooDeep, ts
    <2>4. /\ stats'.maxDepth = TrueDepth(u)
          /\ stats'.elementCount = TrueElements(u)
          /\ stats'.textNodeCount = TrueTexts(u)
      BY <1>5, <1>7, <2>1, <2>3 DEF WithElement
    <2>5. CASE attrs > Room
      <3>1. stats'.attributeCount = TrueAttributes(ts) + (Room + 1)
        BY <1>7, <2>1, <2>5 DEF WithElement
      <3>2. NeverMore'
        BY <1>3, <1>5, <1>6, <2>2, <2>4, <2>5, <3>1 DEF NeverMore, u
      <3>3. TrueDepth(u) <= maxJSONDepth
        BY <1>5, <1>8, <2>3 DEF Larger
      <3>4. TrueElements(u) + TrueAttributes(u) > maxFields
        BY <1>3, <1>5, <1>6, <2>2, <2>5
      <3> QED BY <1>1, <1>4, <1>9, <2>1, <2>5, <3>2, <3>3, <3>4 DEF Follows, u
    <2>6. CASE ~(attrs > Room)
      <3>1. Room >= 0
        BY <1>3, <2>2, <2>6
      <3>2. /\ stats'.attributeCount = TrueAttributes(u)
            /\ stats'.maxAttributes = MostAttributes(u)
        BY <1>5, <1>7, <2>1, <2>2, <2>6, <3>1 DEF WithElement
      <3>3. Exact'
        BY <2>4, <3>2 DEF Exact, u
      <3>4. NeverMore'
        BY <1>3, <1>5, <1>6, <2>4, <3>2 DEF NeverMore, u
      <3> QED BY <1>1, <1>4, <1>9, <2>1, <2>6, <3>3, <3>4 DEF Follows, u
    <2> QED BY <2>5, <2>6
  <1> QED BY <1>10, <1>11

\* An end tag and text: nothing but the counts of texts can change.
LEMMA OtherTokenFollows == Inv /\ Follows /\ (EndElement \/ CharData) => Follows'
  <1> SUFFICES ASSUME Inv, Follows, EndElement \/ CharData PROVE Follows'
    OBVIOUS
  <1>1. PICK tag \in {"end", "text", "blank"} :
          /\ Token(tag, 0)
          /\ open' = IF tag = "end" THEN open - 1 ELSE open
          /\ stats' = IF tag = "text" THEN WithText(stats) ELSE stats
          /\ UNCHANGED <<maxJSONDepth, maxFields, outcome>>
    <2>1. CASE EndElement
      <3>1. "end" \in {"end", "text", "blank"} /\ "end" # "text"
        OBVIOUS
      <3> QED BY <2>1, <3>1 DEF EndElement
    <2>2. CASE CharData
      <3>1. PICK tag \in {"text", "blank"} :
              /\ Token(tag, 0)
              /\ stats' = IF tag = "blank" THEN stats ELSE WithText(stats)
              /\ UNCHANGED <<maxJSONDepth, maxFields, open, depth, outcome>>
        BY <2>2 DEF CharData
      <3>2. tag \in {"end", "text", "blank"} /\ tag # "end" /\ (tag = "blank" <=> tag # "text")
        BY <3>1
      <3> QED BY <3>1, <3>2
    <2> QED BY <2>1, <2>2
  <1>2. outcome = "running" /\ outcome' = "running" /\ Exact /\ open = LastNesting(tokens)
    BY <1>1 DEF Token, Follows
  <1>3. tag \in {"start", "end", "text", "blank"} /\ tag # "start" /\ 0 \in 0 .. MaxAttributes
    BY ParametersAssumption
  <1> DEFINE ts == tokens
             u == tokens'
  <1>4. Counted(u) /\ CountsGrow(ts, u, [tag |-> tag, attrs |-> 0])
    BY <1>1, <1>3, TokenCounts
  <1>5. /\ TrueElements(ts) \in Nat /\ TrueTexts(ts) \in Nat /\ TrueAttributes(ts) \in Nat
        /\ TrueDepth(ts) \in Nat /\ MostAttributes(ts) \in Nat
        /\ LastNesting(ts) \in Int /\ LastNesting(ts) <= TrueDepth(ts)
    BY CountedNumbers DEF Follows
  <1>6. /\ TrueElements(u) = TrueElements(ts)
        /\ TrueTexts(u) = TrueTexts(ts) + IF tag = "text" THEN 1 ELSE 0
        /\ TrueAttributes(u) = TrueAttributes(ts)
        /\ LastNesting(u) = IF tag = "end" THEN LastNesting(ts) - 1 ELSE LastNesting(ts)
        /\ TrueDepth(u) = Larger(TrueDepth(ts), LastNesting(u))
        /\ MostAttributes(u) = Larger(MostAttributes(ts), 0)
    BY <1>3, <1>4, <1>5 DEF CountsGrow
  <1>7. TrueDepth(u) = TrueDepth(ts) /\ MostAttributes(u) = MostAttributes(ts)
    BY <1>5, <1>6 DEF Larger
  <1>8. /\ stats.maxDepth = TrueDepth(ts) /\ stats.elementCount = TrueElements(ts)
        /\ stats.attributeCount = TrueAttributes(ts) /\ stats.textNodeCount = TrueTexts(ts)
        /\ stats.maxAttributes = MostAttributes(ts)
    BY <1>2 DEF Exact
  <1> HIDE DEF ts, u
  <1>9. /\ stats'.maxDepth = stats.maxDepth /\ stats'.elementCount = stats.elementCount
        /\ stats'.attributeCount = stats.attributeCount
        /\ stats'.textNodeCount = stats.textNodeCount + IF tag = "text" THEN 1 ELSE 0
        /\ stats'.maxAttributes = stats.maxAttributes
    <2>1. stats \in StatsType
      BY DEF Inv, TypeOK, StatsType
    <2>2. CASE tag = "text"
      BY <1>1, <2>1, <2>2 DEF StatsType, WithText
    <2>3. CASE tag # "text"
      BY <1>1, <2>1, <2>3 DEF StatsType
    <2> QED BY <2>2, <2>3
  <1>10. Exact'
    BY <1>5, <1>6, <1>7, <1>8, <1>9 DEF Exact, u
  <1>11. NeverMore'
    <2>1. /\ stats'.elementCount = TrueElements(u) /\ stats'.attributeCount = TrueAttributes(u)
          /\ stats'.textNodeCount = TrueTexts(u)
      BY <1>10 DEF Exact, u
    <2>2. TrueElements(u) \in Nat /\ TrueTexts(u) \in Nat /\ TrueAttributes(u) \in Nat
      BY <1>4, CountedNumbers
    <2> QED BY <2>1, <2>2 DEF NeverMore, u
  <1>12. open' = LastNesting(u)
    BY <1>1, <1>2, <1>6 DEF ts
  <1> QED BY <1>2, <1>4, <1>10, <1>11, <1>12 DEF Follows, u

\* The end of the input and a parse error leave the counts alone.
LEMMA StopFollows == Follows /\ (EndOfInput \/ ParseError) => Follows'
  <1> SUFFICES ASSUME Follows, EndOfInput \/ ParseError PROVE Follows'
    OBVIOUS
  <1>1. /\ outcome = "running" /\ tokens' = tokens /\ open' = open /\ stats' = stats
        /\ outcome' \in {"ended", "nil", "failed"}
        /\ outcome' = "nil" => NothingSeen
        /\ outcome' = "failed" => ~NothingSeen
    BY DEF EndOfInput, ParseError
  <1> QED BY <1>1 DEF Follows, Exact, NeverMore, NothingSeen

\* The loop follows the tokens in every reachable state.
THEOREM TokensFollowed == Spec => []Follows
  <1>1. Follows /\ UNCHANGED vars => Follows'
    BY DEF Follows, Exact, NeverMore, NothingSeen, vars
  <1>2. Inv /\ Follows /\ [Next]_vars => Follows'
    BY <1>1, StartElementFollows, OtherTokenFollows, StopFollows DEF Next
  <1> QED BY InitFollows, <1>2, Invariance, PTL DEF Spec

\* The loop gives up exactly on an input that passes a limit, and names the
\* limit that was passed first.
THEOREM LimitsAreExact == Spec => []StopsAtTheLimit
  <1>1. Inv /\ Follows => StopsAtTheLimit
    <2> SUFFICES ASSUME Inv, Follows PROVE StopsAtTheLimit
      OBVIOUS
    <2>1. /\ TrueElements(tokens) \in Nat /\ TrueAttributes(tokens) \in Nat
          /\ TrueDepth(tokens) \in Nat
      BY CountedNumbers DEF Follows
    <2>2. maxJSONDepth \in Nat /\ maxFields \in Nat
      BY ParametersAssumption DEF Inv, TypeOK
    <2>3. CASE outcome \in {"depth", "fields"}
      BY <2>1, <2>2, <2>3 DEF Follows, StopsAtTheLimit
    <2>4. CASE outcome \notin {"depth", "fields"}
      <3>1. TrueDepth(tokens) <= maxJSONDepth
        BY <2>2, <2>4 DEF Follows, Exact, Inv, TypeOK
      <3>2. TrueElements(tokens) + TrueAttributes(tokens) <= maxFields
        BY <2>4 DEF Follows, Exact, Inv, FieldsBounded, FieldCount
      <3> QED BY <2>1, <2>2, <2>4, <3>1, <3>2 DEF StopsAtTheLimit
    <2> QED BY <2>3, <2>4
  <1> QED BY <1>1, Invariance, TokensFollowed, PTL

\* Unless a limit cut it short the loop counts what the tokens hold, and the
\* charset analysis counts the same: for inputs of any length.
THEOREM CountsAreTrue == Spec => []CountsMatchTokens
  <1>1. Inv /\ Follows => CountsMatchTokens
    <2> SUFFICES ASSUME Inv, Follows PROVE CountsMatchTokens
      OBVIOUS
    <2> DEFINE m == XMLMetrics(tokens)
               complexity == <<stats.elementCount, stats.attributeCount, stats.textNodeCount>>
               charset == <<m.tagCount, m.attributeCount, m.textNodeCount>>
    <2>1. /\ TrueElements(tokens) \in Nat /\ TrueTexts(tokens) \in Nat
          /\ TrueAttributes(tokens) \in Nat
          /\ TrueElements(tokens) = 0 => TrueAttributes(tokens) = 0
      BY DEF Follows, Counted
    <2>2. /\ m.tokenCount = TrueElements(tokens) + TrueTexts(tokens)
          /\ m.tagCount = TrueElements(tokens)
          /\ m.attributeCount = TrueAttributes(tokens)
          /\ m.textNodeCount = TrueTexts(tokens)
      BY DEF Follows, Counted
    <2> HIDE DEF m
    <2>3. outcome \notin {"depth", "fields"} =>
            /\ stats.maxDepth = TrueDepth(tokens)
            /\ complexity = <<TrueElements(tokens), TrueAttributes(tokens), TrueTexts(tokens)>>
            /\ stats.maxAttributes = MostAttributes(tokens)
            /\ charset = complexity
      BY <2>2 DEF Follows, Exact
    <2>4. outcome \in {"nil", "failed"} => (outcome = "failed" <=> HasXMLMetrics(tokens))
      <3> SUFFICES ASSUME outcome \in {"nil", "failed"}
                   PROVE  outcome = "failed" <=> HasXMLMetrics(tokens)
        OBVIOUS
      <3>1. HasXMLMetrics(tokens) <=> TrueElements(tokens) + TrueTexts(tokens) > 0
        BY <2>2 DEF HasXMLMetrics, m
      <3>2. NothingSeen <=> TrueElements(tokens) + TrueTexts(tokens) = 0
        BY <2>1 DEF Follows, Exact, NothingSeen
      <3>3. outcome = "failed" <=> ~NothingSeen
        BY DEF Follows
      <3> QED BY <2>1, <3>1, <3>2, <3>3
    <2>5. \A i \in 1 .. 3 : complexity[i] <= charset[i]
      BY <2>2 DEF Follows, NeverMore
    <2> QED BY <2>3, <2>4, <2>5 DEF CountsMatchTokens, m
  <1> QED BY <1>1, Invariance, TokensFollowed, PTL

=============================================================================
