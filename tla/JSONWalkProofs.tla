--------------------------- MODULE JSONWalkProofs ---------------------------
(***************************************************************************)
(* The limits of walkJSONComplexity hold for every set of documents and    *)
(* every value of MaxJSONDepth and MaxFields; and, in whatever order the   *)
(* maps are ranged over, the walk visits every value of the document once, *)
(* so that what it reports is what the document has.                       *)
(***************************************************************************)
EXTENDS JSONWalkReference, FiniteSetTheorems, SequenceTheorems, WellFoundedInduction, TLAPS

Maps == UNION {[keys -> Values] : keys \in SUBSET UNION {DOMAIN v.members : v \in Values}}

Frames == [kind: {"object"}, depth: Nat, left: Maps]
            \cup [kind: {"array"}, depth: Nat, left: Seq(Values)]

\* A frame sits at the depth its place on the stack says.
Stacked(calls) ==
    /\ calls \in Seq(Frames)
    /\ \A i \in 1 .. Len(calls) : calls[i].depth = i

\* Statistics with which the walk goes on.
Within(s) ==
    /\ DOMAIN s = DOMAIN NoStats
    /\ s.depth \in 0 .. maxDepth
    /\ s.fieldCount \in 0 .. maxFields
    /\ s.maxObjectFields \in Nat

\* Statistics with which it may end.
Ended(s) ==
    /\ DOMAIN s = DOMAIN NoStats
    /\ s.depth \in 0 .. maxDepth
    /\ s.fieldCount \in Nat
    /\ s.maxObjectFields \in Nat
    /\ s.fieldCount <= maxFields + s.maxObjectFields

Inv ==
    /\ doc \in Documents
    /\ maxDepth \in Nat \ {0} /\ maxFields \in Nat \ {0}
    /\ err \in Errors \cup {"running"}
    /\ Stacked(stack) /\ Len(stack) <= maxDepth
    /\ IF err = "fields" THEN Ended(stats) ELSE Within(stats)

-----------------------------------------------------------------------------
\* A new frame on the stack.
LEMMA PushFrame ==
    ASSUME NEW calls, Stacked(calls), NEW f \in Frames, f.depth = Len(calls) + 1
    PROVE  Stacked(Append(calls, f)) /\ Len(Append(calls, f)) = Len(calls) + 1
  <1> DEFINE more == Append(calls, f)
  <1>1. /\ more \in Seq(Frames) /\ Len(more) = Len(calls) + 1 /\ Len(calls) \in Nat
        /\ \A i \in 1 .. Len(calls) : more[i] = calls[i]
        /\ more[Len(calls) + 1] = f
    BY DEF Stacked
  <1> HIDE DEF more
  <1>2. ASSUME NEW i \in 1 .. Len(more) PROVE more[i].depth = i
    <2>1. CASE i \in 1 .. Len(calls)
      BY <1>1, <2>1 DEF Stacked
    <2>2. CASE i = Len(calls) + 1
      BY <1>1, <2>2
    <2> QED BY <1>1, <2>1, <2>2
  <1> QED BY <1>1, <1>2 DEF Stacked, more

\* The stack without its top.
LEMMA PopFrame ==
    ASSUME NEW calls, Stacked(calls), calls # <<>>
    PROVE  /\ Stacked(SubSeq(calls, 1, Len(calls) - 1))
           /\ Len(SubSeq(calls, 1, Len(calls) - 1)) = Len(calls) - 1
           /\ Len(calls) \in Nat \ {0}
           /\ calls[Len(calls)] \in Frames /\ calls[Len(calls)].depth = Len(calls)
  <1> DEFINE rest == SubSeq(calls, 1, Len(calls) - 1)
  <1>1. Len(calls) \in Nat \ {0} /\ calls[Len(calls)] \in Frames
    BY DEF Stacked
  <1>2. /\ rest \in Seq(Frames) /\ Len(rest) = Len(calls) - 1
        /\ \A i \in 1 .. Len(calls) - 1 : rest[i] = calls[i]
    <2>1. PICK last \in Nat : last = Len(calls) - 1
      BY <1>1
    <2>2. \A i \in 1 .. last : calls[i] \in Frames
      BY <1>1, <2>1 DEF Stacked
    <2> DEFINE cutoff == SubSeq(calls, 1, last)
    <2>3. /\ cutoff \in Seq(Frames) /\ Len(cutoff) = IF 1 <= last THEN last - 1 + 1 ELSE 0
          /\ \A i \in 1 .. last - 1 + 1 : cutoff[i] = calls[1 + i - 1]
      <3>1. 1 \in Int /\ last \in Int
        BY <2>1
      <3> QED BY <2>2, <3>1, SubSeqProperties
    <2>4. rest = cutoff
      BY <2>1
    <2> HIDE DEF cutoff, rest
    <2> QED BY <2>1, <2>3, <2>4
  <1> HIDE DEF rest
  <1>3. ASSUME NEW i \in 1 .. Len(rest) PROVE rest[i].depth = i
    BY <1>1, <1>2 DEF Stacked
  <1>4. calls[Len(calls)].depth = Len(calls)
    BY <1>1 DEF Stacked
  <1> QED BY <1>1, <1>2, <1>3, <1>4 DEF Stacked, rest

\* A call does not take the depth over the limit, and takes the field count
\* over its limit by one object at most.
LEMMA EnteredStats ==
    ASSUME Inv, NEW s, Within(s), NEW value \in Values, NEW depth \in 1 .. maxDepth
    PROVE  /\ Ended(Entered(s, value, depth))
           /\ value.kind # "object" \/ ~TooMany(Entered(s, value, depth).fieldCount) =>
                Within(Entered(s, value, depth))
  <1> DEFINE t == [s EXCEPT !.depth = Deepest(s, depth)]
             u == Entered(s, value, depth)
  <1>1. maxDepth \in Nat /\ maxFields \in Nat
    BY DEF Inv
  <1>2. Deepest(s, depth) \in 0 .. maxDepth
    BY <1>1 DEF Deepest, Larger, Within
  <1>3. /\ DOMAIN t = DOMAIN s /\ t.depth \in 0 .. maxDepth
        /\ t.fieldCount = s.fieldCount /\ t.maxObjectFields = s.maxObjectFields
    BY <1>2 DEF Within, NoStats
  <1> HIDE DEF t
  <1>4. value.kind \in ValueKinds
    BY ValuesAssumption
  <1>5. CASE value.kind = "object"
    <2>1. Size(value) \in Nat
      BY <1>5, ValuesAssumption, FS_CardinalityType DEF Size
    <2>2. u = [t EXCEPT !.objectCount = @ + 1, !.fieldCount = @ + Size(value),
                        !.maxObjectFields = Larger(@, Size(value))]
      BY <1>5 DEF Entered, t
    <2>3. /\ DOMAIN u = DOMAIN t /\ u.depth = t.depth
          /\ u.fieldCount = s.fieldCount + Size(value)
          /\ u.maxObjectFields = Larger(s.maxObjectFields, Size(value))
      BY <1>3, <2>2 DEF Within, NoStats
    <2> HIDE DEF u
    <2>4. /\ u.fieldCount \in Nat /\ u.maxObjectFields \in Nat
          /\ u.maxObjectFields >= Size(value)
      BY <2>1, <2>3 DEF Larger, Within
    <2>5. Ended(u)
      BY <1>1, <1>3, <2>1, <2>3, <2>4 DEF Ended, Within
    <2>6. ~TooMany(u.fieldCount) => Within(u)
      BY <1>1, <1>3, <2>3, <2>4 DEF Within, TooMany
    <2> QED BY <1>5, <2>5, <2>6 DEF u
  <1>6. CASE value.kind # "object"
    <2>1. /\ DOMAIN u = DOMAIN t /\ u.depth = t.depth
          /\ u.fieldCount = t.fieldCount /\ u.maxObjectFields = t.maxObjectFields
      <3>1. CASE value.kind = "array"
        BY <1>3, <3>1 DEF Entered, Within, NoStats, t
      <3>2. CASE value.kind = "string"
        BY <1>3, <3>2 DEF Entered, Within, NoStats, t
      <3>3. CASE value.kind = "null"
        BY <1>3, <3>3 DEF Entered, Within, NoStats, t
      <3>4. CASE value.kind = "scalar"
        BY <1>3, <3>4 DEF Entered, Within, NoStats, t
      <3> QED BY <1>4, <1>6, <3>1, <3>2, <3>3, <3>4 DEF ValueKinds
    <2> HIDE DEF u
    <2>2. Within(u)
      BY <1>3, <2>1 DEF Within
    <2>3. Ended(u)
      BY <1>1, <2>2 DEF Within, Ended
    <2> QED BY <2>2, <2>3 DEF u
  <1> QED BY <1>5, <1>6

\* A call from the frames below.
LEMMA EnterKeeps ==
    ASSUME Inv, err = "running", NEW value \in Values, NEW below, NEW s,
           Stacked(below), Len(below) <= maxDepth, Within(s),
           Enter(value, Len(below) + 1, below, s), UNCHANGED <<doc, maxDepth, maxFields>>
    PROVE  Inv'
  <1> DEFINE depth == Len(below) + 1
             t == Entered(s, value, depth)
  <1>1. maxDepth \in Nat \ {0} /\ maxFields \in Nat \ {0} /\ Len(below) \in Nat
    BY DEF Inv, Stacked

  <1>2. /\ doc' \in Documents /\ maxDepth' = maxDepth /\ maxFields' = maxFields
        /\ maxDepth' \in Nat \ {0} /\ maxFields' \in Nat \ {0}
    BY DEF Inv
  <1>3. CASE TooDeep(depth)
    <2>1. stats' = s /\ err' = "depth" /\ stack' = below
      BY <1>3 DEF Enter
    <2>2. Within(stats)'
      BY <1>2, <2>1 DEF Within
    <2> QED BY <1>2, <2>1, <2>2 DEF Inv, Errors, Stacked
  <1>4. CASE ~TooDeep(depth)
    <2>1. depth \in 1 .. maxDepth
      BY <1>1, <1>4 DEF TooDeep
    <2>2. Ended(t) /\ (value.kind # "object" \/ ~TooMany(t.fieldCount) => Within(t))
      BY <2>1, EnteredStats
    <2>3. stats' = t
      BY <1>4 DEF Enter
    <2> HIDE DEF t
    <2>4. Ended(stats)'
      BY <1>2, <2>2, <2>3 DEF Ended
    <2>5. CASE value.kind = "object" /\ TooMany(t.fieldCount)
      <3>1. err' = "fields" /\ stack' = below
        BY <1>4, <2>5 DEF Enter, t
      <3> QED BY <1>2, <2>4, <3>1 DEF Inv, Errors, Stacked
    <2>6. CASE ~(value.kind = "object" /\ TooMany(t.fieldCount))
      <3>1. /\ stack' = IF value.kind \in {"object", "array"}
                        THEN Append(below, Frame(value, depth)) ELSE below
            /\ err' = IF stack' = <<>> THEN "nil" ELSE "running"
        BY <1>4, <2>6 DEF Enter, t
      <3>2. Within(stats)'
        BY <1>2, <2>2, <2>3, <2>6 DEF Within
      <3>3. Stacked(stack') /\ Len(stack') <= maxDepth
        <4>1. CASE value.kind \in {"object", "array"}
          <5>1. Frame(value, depth) \in Frames /\ Frame(value, depth).depth = depth
            <6>1. depth \in Nat
              BY <1>1
            <6>2. CASE value.kind = "object"
              <7>1. value.members \in Maps
                BY <6>2, ValuesAssumption DEF Maps
              <7> QED BY <6>1, <6>2, <7>1 DEF Frame, Frames
            <6>3. CASE value.kind = "array"
              <7>1. value.items \in Seq(Values)
                BY <6>3, ValuesAssumption
              <7> QED BY <6>1, <6>3, <7>1 DEF Frame, Frames
            <6> QED BY <4>1, <6>2, <6>3
          <5> DEFINE f == Frame(value, depth)
          <5> HIDE DEF f
          <5>2. Stacked(Append(below, f)) /\ Len(Append(below, f)) = Len(below) + 1
            BY <5>1, PushFrame DEF f
          <5>3. stack' = Append(below, f)
            BY <3>1, <4>1 DEF f
          <5> QED BY <2>1, <5>2, <5>3
        <4>2. CASE value.kind \notin {"object", "array"}
          BY <3>1, <4>2
        <4> QED BY <4>1, <4>2
      <3>4. err' \in {"nil", "running"}
        BY <3>1
      <3> QED BY <1>2, <3>2, <3>3, <3>4 DEF Inv, Errors, Stacked
    <2> QED BY <2>5, <2>6
  <1> QED BY <1>3, <1>4

-----------------------------------------------------------------------------
\* The invariant of the walk.
THEOREM WalkInvariant == Spec => []Inv
  <1>1. Init => Inv
    <2> SUFFICES ASSUME Init PROVE Inv
      OBVIOUS
    <2>1. /\ doc \in Documents /\ maxDepth \in Nat \ {0} /\ maxFields \in Nat \ {0}
          /\ stack = <<>> /\ stats = NoStats /\ err = "running"
      BY LimitsAssumption DEF Init
    <2>2. Within(stats)
      BY <2>1 DEF Within, NoStats
    <2>3. Stacked(stack) /\ Len(stack) <= maxDepth
      BY <2>1 DEF Stacked
    <2> QED BY <2>1, <2>2, <2>3 DEF Inv
  <1>2. Inv /\ [Next]_vars => Inv'
    <2> SUFFICES ASSUME Inv, [Next]_vars PROVE Inv'
      OBVIOUS
    <2>1. CASE Start
      <3>1. doc \in Values /\ Within(stats) /\ err = "running" /\ stack = <<>>
        BY <2>1, ValuesAssumption DEF Inv, Start
      <3>2. Enter(doc, 1, stack, stats) /\ UNCHANGED <<doc, maxDepth, maxFields>>
        BY <2>1, <3>1 DEF Start
      <3>3. Len(stack) = 0 /\ Stacked(stack) /\ Len(stack) <= maxDepth
        BY <3>1 DEF Inv
      <3>4. Enter(doc, Len(stack) + 1, stack, stats)
        <4>1. Len(stack) + 1 = 1
          BY <3>3
        <4> QED BY <3>2, <4>1
      <3>5. PICK value, below, s : value = doc /\ below = stack /\ s = stats
        OBVIOUS
      <3>6. Enter(value, Len(below) + 1, below, s)
        BY <3>4, <3>5
      <3> QED BY <3>1, <3>2, <3>3, <3>5, <3>6, EnterKeeps
    <2>2. CASE NextMember
      <3>1. PICK key \in DOMAIN Top.left :
              Enter(Top.left[key], Top.depth + 1,
                    With([k \in DOMAIN Top.left \ {key} |-> Top.left[k]]),
                    [stats EXCEPT !.seenKeys = @ \cup {key},
                                  !.maxKeyLength = Larger(@, KeyLength(key))])
        BY <2>2 DEF NextMember
      <3>2. /\ err = "running" /\ stack # <<>> /\ Top.kind = "object" /\ Within(stats)
            /\ UNCHANGED <<doc, maxDepth, maxFields>>
        BY <2>2 DEF NextMember, Inv
      <3>3. /\ Stacked(Below) /\ Len(Below) = Len(stack) - 1 /\ Len(stack) \in Nat \ {0}
            /\ Top \in Frames /\ Top.depth = Len(stack)
        BY <3>2, PopFrame DEF Inv, Top, Below
      <3>4. PICK value, left, s :
              /\ value = Top.left[key]
              /\ left = [k \in DOMAIN Top.left \ {key} |-> Top.left[k]]
              /\ s = [stats EXCEPT !.seenKeys = @ \cup {key},
                                   !.maxKeyLength = Larger(@, KeyLength(key))]
        OBVIOUS
      <3>5. Top.left \in Maps
        BY <3>2, <3>3 DEF Frames
      <3>6. value \in Values /\ left \in Maps
        <4>1. PICK keys : /\ keys \in SUBSET UNION {DOMAIN v.members : v \in Values}
                          /\ Top.left \in [keys -> Values]
          BY <3>5 DEF Maps
        <4>2. /\ keys \ {key} \in SUBSET UNION {DOMAIN v.members : v \in Values}
              /\ left \in [keys \ {key} -> Values]
          BY <3>4, <4>1
        <4> QED BY <3>4, <4>1, <4>2 DEF Maps
      <3>7. Within(s)
        BY <3>2, <3>4 DEF Within, NoStats
      <3>8. PICK f : f = [Top EXCEPT !.left = left]
        OBVIOUS
      <3>9. f \in Frames /\ f.depth = Len(Below) + 1
        BY <3>2, <3>3, <3>6, <3>8 DEF Frames
      <3>10. PICK below : below = Append(Below, f)
        OBVIOUS
      <3>11. Stacked(below) /\ Len(below) = Len(stack)
        BY <3>3, <3>9, <3>10, PushFrame
      <3>12. Enter(value, Len(below) + 1, below, s)
        BY <3>1, <3>3, <3>4, <3>8, <3>10, <3>11 DEF With
      <3>13. Len(below) <= maxDepth
        BY <3>11 DEF Inv
      <3> QED BY <3>2, <3>6, <3>7, <3>11, <3>12, <3>13, EnterKeeps
    <2>3. CASE NextItem
      <3>1. /\ err = "running" /\ stack # <<>> /\ Top.kind = "array" /\ Top.left # <<>>
            /\ Within(stats) /\ UNCHANGED <<doc, maxDepth, maxFields>>
            /\ Enter(Head(Top.left), Top.depth + 1, With(Tail(Top.left)), stats)
        BY <2>3 DEF NextItem, Inv
      <3>2. /\ Stacked(Below) /\ Len(Below) = Len(stack) - 1 /\ Len(stack) \in Nat \ {0}
            /\ Top \in Frames /\ Top.depth = Len(stack)
        BY <3>1, PopFrame DEF Inv, Top, Below
      <3>3. PICK value, left, s : value = Head(Top.left) /\ left = Tail(Top.left) /\ s = stats
        OBVIOUS
      <3>4. Top.left \in Seq(Values)
        BY <3>1, <3>2 DEF Frames
      <3>5. value \in Values /\ left \in Seq(Values)
        BY <3>1, <3>3, <3>4
      <3>6. PICK f : f = [Top EXCEPT !.left = left]
        OBVIOUS
      <3>7. f \in Frames /\ f.depth = Len(Below) + 1
        BY <3>1, <3>2, <3>5, <3>6 DEF Frames
      <3>8. PICK below : below = Append(Below, f)
        OBVIOUS
      <3>9. Stacked(below) /\ Len(below) = Len(stack)
        BY <3>2, <3>7, <3>8, PushFrame
      <3>10. Enter(value, Len(below) + 1, below, s)
        BY <3>1, <3>2, <3>3, <3>6, <3>8, <3>9 DEF With
      <3>11. Len(below) <= maxDepth /\ Within(s)
        BY <3>1, <3>3, <3>9 DEF Inv
      <3> QED BY <3>1, <3>5, <3>9, <3>10, <3>11, EnterKeeps
    <2>4. CASE Return
      <3>1. /\ err = "running" /\ stack # <<>> /\ stack' = Below
            /\ err' \in {"nil", "running"} /\ UNCHANGED <<doc, maxDepth, maxFields, stats>>
        BY <2>4 DEF Return
      <3>2. Stacked(Below) /\ Len(Below) = Len(stack) - 1 /\ Len(stack) \in Nat \ {0}
        BY <3>1, PopFrame DEF Inv, Below
      <3>3. Stacked(stack') /\ Len(stack') <= maxDepth
        BY <3>1, <3>2 DEF Inv
      <3> QED BY <3>1, <3>3 DEF Inv, Errors, Stacked, Within
    <2>5. CASE UNCHANGED vars
      BY <2>5 DEF vars, Inv, Stacked, Within, Ended
    <2> QED BY <2>1, <2>2, <2>3, <2>4, <2>5 DEF Next
  <1> QED BY <1>1, <1>2, PTL DEF Spec

\* walkJSONComplexity: nothing deeper than MaxJSONDepth is walked or reported,
\* and every call knows its depth.
THEOREM DepthIsLimited == Spec => []TypeOK
  <1>1. Inv => TypeOK
    <2> SUFFICES ASSUME Inv PROVE TypeOK
      OBVIOUS
    <2>1. DOMAIN stats = DOMAIN NoStats /\ stats.depth \in 0 .. maxDepth
      BY DEF Inv, Within, Ended
    <2>2. \A i \in DOMAIN stack : stack[i].depth = i
      BY DEF Inv, Stacked
    <2> QED BY <2>1, <2>2 DEF Inv, TypeOK
  <1> QED BY <1>1, WalkInvariant, PTL

\* walkJSONComplexity stops at the object that takes the count over MaxFields:
\* the count passes the limit by at most the members of one object.
THEOREM FieldsAreBounded == Spec => []FieldsBounded
  <1>1. Inv => FieldsBounded
    BY DEF Inv, FieldsBounded, Within, Ended
  <1> QED BY <1>1, WalkInvariant, PTL

-----------------------------------------------------------------------------
\* Induction over the naturals, from the well-foundedness of their order.
Smaller == {ss \in Nat \X Nat : ss[1] < ss[2]}

\* The order of the naturals has no infinite descent.
LEMMA SmallerIsWellFounded == IsWellFoundedOn(Smaller, Nat)
  <1>1. Smaller = OpToRel(<, Nat)
    BY Zenon DEF OpToRel, Smaller
  <1>2. IsWellFoundedOn(OpToRel(<, Nat), Nat)
    BY NatLessThanWellFounded, Zenon
  <1> QED BY <1>1, <1>2, Zenon

\* Induction for a set of naturals.
LEMMA Induction ==
    ASSUME NEW S, 0 \in S, \A n \in Nat : n \in S => n + 1 \in S
    PROVE  \A n \in Nat : n \in S
  <1> SUFFICES ASSUME Nat \ S # {} PROVE FALSE
    OBVIOUS
  <1> DEFINE T == Nat \ S
  <1>1. PICK m \in T : \A k \in T : <<k, m>> \notin Smaller
    <2>1. T \subseteq Nat /\ T # {}
      OBVIOUS
    <2> QED BY <2>1, SmallerIsWellFounded, WFMin, Zenon
  <1>2. m \in Nat /\ m # 0
    BY <1>1
  <1>3. m - 1 \in Nat /\ <<m - 1, m>> \in Smaller
    BY <1>2 DEF Smaller
  <1>4. m - 1 \in S
    BY <1>1, <1>3
  <1>5. (m - 1) + 1 = m
    BY <1>2
  <1> QED BY <1>1, <1>3, <1>4, <1>5

\* What a step that stays in T gives.
Stays(next, T) == \A i \in Nat : \A v \in T : next[<<i, v>>] \in T

Iterates(g, n, T, base, next) ==
    /\ g \in [0 .. n -> T]
    /\ g[0] = base
    /\ \A i \in 1 .. n : g[i] = next[<<i, g[i - 1]>>]

\* A function defined from its value one before exists.
LEMMA IterationExists ==
    ASSUME NEW n \in Nat, NEW T, NEW base \in T, NEW next, Stays(next, T)
    PROVE  \E g : Iterates(g, n, T, base, next)
  <1> DEFINE S == {m \in Nat : \E g : Iterates(g, m, T, base, next)}
  <1>1. 0 \in S
    <2> DEFINE g == [i \in 0 .. 0 |-> base]
    <2>1. Iterates(g, 0, T, base, next)
      BY DEF Iterates
    <2> QED BY <2>1, Zenon
  <1>2. ASSUME NEW m \in Nat, m \in S PROVE m + 1 \in S
    <2>1. PICK g : Iterates(g, m, T, base, next)
      BY <1>2
    <2> DEFINE h == [i \in 0 .. m + 1 |-> IF i <= m THEN g[i] ELSE next[<<m + 1, g[m]>>]]
    <2>2. /\ g \in [0 .. m -> T] /\ g[0] = base
          /\ \A i \in 1 .. m : g[i] = next[<<i, g[i - 1]>>]
          /\ \A i \in 0 .. m : g[i] \in T
      BY <2>1 DEF Iterates
    <2>3. g[m] \in T /\ m + 1 \in Nat
      BY <2>2
    <2>4. next[<<m + 1, g[m]>>] \in T
      BY <2>3 DEF Stays
    <2>5. h \in [0 .. m + 1 -> T]
      <3>1. ASSUME NEW i \in 0 .. m + 1 PROVE h[i] \in T
        <4>1. i <= m => i \in 0 .. m
          OBVIOUS
        <4> QED BY <2>2, <2>4, <4>1
      <3> QED BY <3>1
    <2>6. h[0] = base
      <3>1. 0 \in 0 .. m + 1 /\ 0 <= m
        OBVIOUS
      <3> QED BY <2>2, <3>1
    <2>7. ASSUME NEW i \in 1 .. m + 1 PROVE h[i] = next[<<i, h[i - 1]>>]
      <3>1. i \in 0 .. m + 1 /\ i - 1 \in 0 .. m + 1 /\ i - 1 <= m
        OBVIOUS
      <3>2. h[i - 1] = g[i - 1]
        BY <3>1
      <3>3. CASE i <= m
        <4>1. h[i] = g[i] /\ i \in 1 .. m
          BY <3>1, <3>3
        <4> QED BY <2>2, <3>2, <4>1
      <3>4. CASE i = m + 1
        <4>1. h[i] = next[<<m + 1, g[m]>>] /\ i - 1 = m
          BY <3>1, <3>4
        <4> QED BY <3>2, <3>4, <4>1
      <3> QED BY <3>1, <3>3, <3>4
    <2>8. Iterates(h, m + 1, T, base, next)
      <3> HIDE DEF h
      <3> QED BY <2>5, <2>6, <2>7 DEF Iterates
    <2> QED BY <2>3, <2>8, Zenon
  <1>3. n \in S
    <2> HIDE DEF S
    <2> QED BY <1>1, <1>2, Induction
  <1> QED BY <1>3

-----------------------------------------------------------------------------
\* The steps in documents, the paths of such steps, and the values at paths.
AllSteps == Nat \cup UNION {DOMAIN v.members : v \in {w \in Values : w.kind = "object"}}
NodeSet == [path: Seq(AllSteps), value: Values]
FiniteNodes == {S \in SUBSET NodeSet : IsFiniteSet(S)}

\* The parts of the values of a level.
PartsOf(S) == UNION {{PartNode(n, step) : step \in Steps(n.value)} : n \in S}

\* The steps from a value are finitely many and lead to values.
LEMMA StepsType ==
    ASSUME NEW v \in Values
    PROVE  /\ IsFiniteSet(Steps(v)) /\ Steps(v) \subseteq AllSteps
           /\ \A step \in Steps(v) : Part(v, step) \in Values
           /\ v.kind \in ValueKinds
           /\ v.kind = "object" => /\ Steps(v) = DOMAIN v.members
                                  /\ \A step \in Steps(v) : Part(v, step) = v.members[step]
           /\ v.kind = "array" => /\ Steps(v) = 1 .. Len(v.items) /\ v.items \in Seq(Values)
                                 /\ \A step \in Steps(v) : Part(v, step) = v.items[step]
           /\ v.kind \notin {"object", "array"} => Steps(v) = {}
  <1>1. v.kind \in ValueKinds
    BY ValuesAssumption
  <1>2. CASE v.kind = "object"
    <2>1. /\ v.members \in [DOMAIN v.members -> Values] /\ IsFiniteSet(DOMAIN v.members)
          /\ Steps(v) = DOMAIN v.members
      BY <1>2, ValuesAssumption DEF Steps
    <2>2. \A step \in DOMAIN v.members : v.members[step] \in Values
      BY <2>1
    <2>3. DOMAIN v.members \subseteq AllSteps
      BY <1>2 DEF AllSteps
    <2> QED BY <1>1, <1>2, <2>1, <2>2, <2>3 DEF Part
  <1>3. CASE v.kind = "array"
    <2>1. v.items \in Seq(Values) /\ Steps(v) = DOMAIN v.items
      BY <1>3, ValuesAssumption DEF Steps
    <2>2. Len(v.items) \in Nat /\ Steps(v) = 1 .. Len(v.items)
      BY <2>1, LenProperties
    <2>3. IsFiniteSet(1 .. Len(v.items))
      <3>1. 1 \in Int /\ Len(v.items) \in Int
        BY <2>2
      <3> QED BY <3>1, FS_Interval, Zenon
    <2>4. \A step \in 1 .. Len(v.items) : v.items[step] \in Values /\ step \in Nat
      BY <2>1, <2>2
    <2>5. Steps(v) \subseteq AllSteps
      BY <2>2, <2>4 DEF AllSteps
    <2> QED BY <1>1, <1>3, <2>1, <2>2, <2>3, <2>4, <2>5 DEF Part
  <1>4. CASE v.kind \notin {"object", "array"}
    <2>1. Steps(v) = {}
      BY <1>4 DEF Steps
    <2>2. IsFiniteSet({})
      BY FS_EmptySet
    <2> QED BY <1>1, <1>4, <2>1, <2>2
  <1> QED BY <1>2, <1>3, <1>4

\* A part of a value in a document is one too.
LEMMA PartNodeType ==
    ASSUME NEW n \in NodeSet, NEW step \in Steps(n.value)
    PROVE  /\ PartNode(n, step) \in NodeSet
           /\ PartNode(n, step).path = Append(n.path, step)
           /\ PartNode(n, step).value = Part(n.value, step)
           /\ Len(PartNode(n, step).path) = Len(n.path) + 1
           /\ Len(n.path) \in Nat
  <1>1. n.value \in Values /\ n.path \in Seq(AllSteps)
    BY DEF NodeSet
  <1>2. step \in AllSteps /\ Part(n.value, step) \in Values
    BY <1>1, StepsType
  <1>3. Append(n.path, step) \in Seq(AllSteps) /\ Len(Append(n.path, step)) = Len(n.path) + 1
        /\ Len(n.path) \in Nat
    BY <1>1, <1>2, AppendProperties, LenProperties
  <1> QED BY <1>2, <1>3 DEF PartNode, NodeSet

\* The parts of finitely many values are finitely many.
LEMMA PartsAreFinite ==
    ASSUME NEW S \in FiniteNodes
    PROVE  PartsOf(S) \in FiniteNodes
  <1>1. S \subseteq NodeSet /\ IsFiniteSet(S)
    BY DEF FiniteNodes
  <1> DEFINE Parts(n) == {PartNode(n, step) : step \in Steps(n.value)}
             All == {Parts(n) : n \in S}
  <1>2. ASSUME NEW n \in S PROVE IsFiniteSet(Parts(n)) /\ Parts(n) \subseteq NodeSet
    <2>1. n \in NodeSet /\ n.value \in Values
      BY <1>1 DEF NodeSet
    <2>2. IsFiniteSet(Steps(n.value))
      BY <2>1, StepsType
    <2> DEFINE f == [step \in Steps(n.value) |-> PartNode(n, step)]
    <2>3. f \in Surjection(Steps(n.value), Parts(n))
      BY DEF Surjection
    <2>4. IsFiniteSet(Parts(n))
      <3> HIDE DEF f, Parts
      <3> QED BY <2>2, <2>3, FS_Surjection, Zenon
    <2>5. Parts(n) \subseteq NodeSet
      BY <2>1, PartNodeType
    <2> QED BY <2>4, <2>5
  <1>3. IsFiniteSet(All)
    <2> DEFINE f == [n \in S |-> Parts(n)]
    <2>1. f \in Surjection(S, All)
      <3> HIDE DEF Parts
      <3> QED BY DEF Surjection
    <2> HIDE DEF f, All
    <2> QED BY <1>1, <2>1, FS_Surjection, Zenon
  <1>4. \A T \in All : IsFiniteSet(T)
    BY <1>2
  <1>5. IsFiniteSet(UNION All)
    <2> HIDE DEF All
    <2> QED BY <1>3, <1>4, FS_UNION, Zenon
  <1>6. PartsOf(S) = UNION All
    BY DEF PartsOf
  <1>7. UNION All \subseteq NodeSet
    BY <1>2
  <1> QED BY <1>5, <1>6, <1>7 DEF FiniteNodes

\* The root of a document.
LEMMA RootType ==
    ASSUME NEW d \in Values
    PROVE  /\ Root(d) \in NodeSet /\ Len(Root(d).path) = 0 /\ Root(d).path = <<>>
           /\ Root(d).value = d /\ {Root(d)} \in FiniteNodes
  <1>1. <<>> \in Seq(AllSteps) /\ Len(<<>>) = 0
    BY EmptySeq
  <1>2. Root(d) \in NodeSet /\ Root(d).path = <<>> /\ Root(d).value = d
    BY <1>1 DEF Root, NodeSet
  <1>3. IsFiniteSet({Root(d)})
    BY FS_Singleton
  <1>4. Len(Root(d).path) = 0
    BY <1>1, <1>2
  <1> QED BY <1>2, <1>3, <1>4 DEF FiniteNodes

\* The levels of a document, from the root down.
LevelsOf(level, d) ==
    /\ level \in [0 .. MaxNesting -> FiniteNodes]
    /\ level[0] = {Root(d)}
    /\ \A i \in 1 .. MaxNesting : level[i] = PartsOf(level[i - 1])
    /\ Nodes(d) = UNION {level[i] : i \in 0 .. MaxNesting}

\* Nodes goes through them once.
LEMMA NodesByLevel ==
    ASSUME NEW d \in Values
    PROVE  \E level : LevelsOf(level, d)
  <1> DEFINE T == FiniteNodes
             n == MaxNesting
             Step(g, i) == IF i = 0 THEN {Root(d)} ELSE PartsOf(g[i - 1])
             level == CHOOSE g : g = [i \in 0 .. n |-> Step(g, i)]
             next == [p \in Nat \X T |-> PartsOf(p[2])]
             base == {Root(d)}
  <1>1. n \in Nat
    BY NestingAssumption
  <1>2. base \in T /\ Stays(next, T)
    <2>1. ASSUME NEW i \in Nat, NEW v \in T PROVE next[<<i, v>>] \in T
      <3>1. PartsOf(v) \in T
        BY PartsAreFinite
      <3>2. next[<<i, v>>] = PartsOf(v)
        <4> HIDE DEF T
        <4> QED OBVIOUS
      <3> HIDE DEF next, T
      <3> QED BY <3>1, <3>2, Zenon
    <2>2. base \in T
      BY RootType
    <2> HIDE DEF T, next, base
    <2> QED BY <2>1, <2>2 DEF Stays
  <1> HIDE DEF n, T, next, base, level, Step
  <1>3. PICK g : Iterates(g, n, T, base, next)
    BY <1>1, <1>2, IterationExists
  <1>4. g = [i \in 0 .. n |-> Step(g, i)]
    <2>1. /\ g \in [0 .. n -> T] /\ g[0] = base
          /\ \A i \in 1 .. n : g[i] = next[<<i, g[i - 1]>>]
      BY <1>3 DEF Iterates
    <2>2. ASSUME NEW i \in 0 .. n PROVE g[i] = Step(g, i)
      <3>1. CASE i = 0
        BY <2>1, <3>1 DEF Step, base
      <3>2. CASE i # 0
        <4>1. i \in 1 .. n /\ i - 1 \in 0 .. n /\ i \in Nat
          BY <1>1, <3>2
        <4>2. g[i - 1] \in T
          BY <2>1, <4>1
        <4>3. g[i] = next[<<i, g[i - 1]>>]
          BY <2>1, <4>1
        <4>4. next[<<i, g[i - 1]>>] = Step(g, i)
          BY <3>2, <4>1, <4>2 DEF next, Step
        <4> QED BY <4>3, <4>4
      <3> QED BY <3>1, <3>2
    <2> QED BY <2>1, <2>2
  <1>5. level = [i \in 0 .. n |-> Step(level, i)]
    BY <1>4 DEF level
  <1>6. ASSUME NEW i \in 0 .. n PROVE level[i] = Step(level, i)
    BY <1>5
  <1>7. level[0] = base
    <2>1. level[0] = Step(level, 0)
      BY <1>1, <1>6
    <2> QED BY <2>1 DEF Step, base
  <1>8. \A i \in 1 .. n : level[i] = PartsOf(level[i - 1])
    <2> TAKE i \in 1 .. n
    <2>1. i \in 0 .. n /\ i # 0
      BY <1>1
    <2>2. level[i] = Step(level, i)
      BY <1>6, <2>1
    <2> QED BY <2>1, <2>2 DEF Step
  <1>9. \A i \in Nat : i <= n => level[i] \in T
    <2> DEFINE S == {i \in Nat : i <= n => level[i] \in T}
    <2>1. 0 \in S
      BY <1>2, <1>7
    <2>2. ASSUME NEW i \in Nat, i \in S PROVE i + 1 \in S
      <3>1. CASE i + 1 <= n
        <4>1. i + 1 \in 1 .. n /\ (i + 1) - 1 = i /\ i <= n
          BY <1>1, <3>1
        <4>2. level[i + 1] = PartsOf(level[i]) /\ level[i] \in T
          BY <1>8, <2>2, <4>1
        <4>3. level[i + 1] \in T
          BY <4>2, PartsAreFinite DEF T
        <4> QED BY <4>3
      <3>2. CASE ~(i + 1 <= n)
        BY <3>2
      <3> QED BY <3>1, <3>2
    <2>3. \A i \in Nat : i \in S
      <3> HIDE DEF S
      <3> QED BY <2>1, <2>2, Induction
    <2> QED BY <2>3
  <1>10. level \in [0 .. n -> T]
    <2>1. \A i \in 0 .. n : level[i] \in T
      BY <1>1, <1>9
    <2> QED BY <1>5, <2>1
  <1>11. Nodes(d) = UNION {level[i] : i \in 0 .. n}
    BY Zenon DEF Nodes, level, n, Step, PartsOf
  <1>12. LevelsOf(level, d)
    BY <1>7, <1>8, <1>10, <1>11 DEF LevelsOf, n, T, base
  <1> QED BY <1>12, Zenon

\* The values in a document are a finite tree, and a path leads to one of them.
IsTree(N, d) ==
    /\ N \in FiniteNodes
    /\ Root(d) \in N
    /\ \A n \in N : \A step \in Steps(n.value) : PartNode(n, step) \in N
    /\ \A n \in N : n = Root(d) \/ \E m \in N : \E step \in Steps(m.value) : n = PartNode(m, step)
    /\ \A n, m \in N : n.path = m.path => n = m

\* A level is as deep as its number says.
LEMMA LevelDepth ==
    ASSUME NEW d \in Values, NEW level, LevelsOf(level, d)
    PROVE  \A i \in Nat : i <= MaxNesting => \A n \in level[i] : Len(n.path) = i
  <1> DEFINE S == {i \in Nat : i <= MaxNesting => \A n \in level[i] : Len(n.path) = i}
  <1>1. 0 \in S
    <2>1. level[0] = {Root(d)} /\ Len(Root(d).path) = 0
      BY RootType DEF LevelsOf
    <2> QED BY <2>1
  <1>2. ASSUME NEW i \in Nat, i \in S PROVE i + 1 \in S
    <2> SUFFICES ASSUME i + 1 <= MaxNesting, NEW n \in level[i + 1]
                 PROVE  Len(n.path) = i + 1
      BY <1>2
    <2>1. i + 1 \in 1 .. MaxNesting /\ (i + 1) - 1 = i /\ i <= MaxNesting /\ i \in 0 .. MaxNesting
      BY NestingAssumption
    <2>2. n \in PartsOf(level[i])
      BY <2>1 DEF LevelsOf
    <2>3. PICK m \in level[i] : \E step \in Steps(m.value) : n = PartNode(m, step)
      BY <2>2 DEF PartsOf
    <2>4. level[i] \in FiniteNodes
      BY <2>1 DEF LevelsOf
    <2>5. m \in NodeSet
      BY <2>4 DEF FiniteNodes
    <2>6. Len(m.path) = i
      BY <1>2, <2>1
    <2>7. Len(n.path) = Len(m.path) + 1
      BY <2>3, <2>5, PartNodeType
    <2> QED BY <2>6, <2>7
  <1>3. \A i \in Nat : i \in S
    <2> HIDE DEF S
    <2> QED BY <1>1, <1>2, Induction
  <1> QED BY <1>3

\* A path says what it was made of.
LEMMA SameAppend ==
    ASSUME NEW a \in Seq(AllSteps), NEW b \in Seq(AllSteps),
           NEW s \in AllSteps, NEW t \in AllSteps, Append(a, s) = Append(b, t)
    PROVE  a = b /\ s = t
  OBVIOUS

\* Different parts have different paths.
LEMMA PartsDiffer ==
    ASSUME NEW n \in NodeSet, NEW m \in NodeSet, NEW s \in Steps(n.value), NEW t \in Steps(m.value),
           PartNode(n, s).path = PartNode(m, t).path
    PROVE  n.path = m.path /\ s = t
  <1>1. /\ n.path \in Seq(AllSteps) /\ m.path \in Seq(AllSteps)
        /\ n.value \in Values /\ m.value \in Values
    BY DEF NodeSet
  <1>2. s \in AllSteps /\ t \in AllSteps
    BY <1>1, StepsType
  <1>3. Append(n.path, s) = Append(m.path, t)
    BY PartNodeType
  <1> QED BY <1>1, <1>2, <1>3, SameAppend

\* A path leads to one value of a level.
LEMMA LevelPaths ==
    ASSUME NEW d \in Values, NEW level, LevelsOf(level, d)
    PROVE  \A i \in Nat : i <= MaxNesting =>
             \A n, m \in level[i] : n.path = m.path => n = m
  <1> DEFINE S == {i \in Nat : i <= MaxNesting =>
                     \A n, m \in level[i] : n.path = m.path => n = m}
  <1>1. 0 \in S
    <2>1. level[0] = {Root(d)}
      BY DEF LevelsOf
    <2> QED BY <2>1
  <1>2. ASSUME NEW i \in Nat, i \in S PROVE i + 1 \in S
    <2> SUFFICES ASSUME i + 1 <= MaxNesting, NEW n \in level[i + 1], NEW m \in level[i + 1],
                        n.path = m.path
                 PROVE  n = m
      BY <1>2
    <2>1. i + 1 \in 1 .. MaxNesting /\ (i + 1) - 1 = i /\ i <= MaxNesting /\ i \in 0 .. MaxNesting
      BY NestingAssumption
    <2>2. n \in PartsOf(level[i]) /\ m \in PartsOf(level[i]) /\ level[i] \in FiniteNodes
      BY <2>1 DEF LevelsOf
    <2>3. PICK n0 \in level[i] : \E s \in Steps(n0.value) : n = PartNode(n0, s)
      BY <2>2 DEF PartsOf
    <2>4. PICK s \in Steps(n0.value) : n = PartNode(n0, s)
      BY <2>3
    <2>5. PICK m0 \in level[i] : \E t \in Steps(m0.value) : m = PartNode(m0, t)
      BY <2>2 DEF PartsOf
    <2>6. PICK t \in Steps(m0.value) : m = PartNode(m0, t)
      BY <2>5
    <2>7. n0 \in NodeSet /\ m0 \in NodeSet
      BY <2>2 DEF FiniteNodes
    <2>8. PartNode(n0, s).path = PartNode(m0, t).path
      BY <2>4, <2>6
    <2>9. n0.path = m0.path /\ s = t
      BY <2>7, <2>8, PartsDiffer
    <2>10. n0 = m0
      BY <1>2, <2>1, <2>9
    <2> QED BY <2>4, <2>6, <2>9, <2>10
  <1>3. \A i \in Nat : i \in S
    <2> HIDE DEF S
    <2> QED BY <1>1, <1>2, Induction
  <1> QED BY <1>3

\* The values in a document are such a tree.
LEMMA NodesAreATree ==
    ASSUME NEW d \in Documents
    PROVE  IsTree(Nodes(d), d) /\ d \in Values
  <1>1. d \in Values /\ MaxNesting \in Nat
    BY ValuesAssumption, NestingAssumption
  <1>2. PICK level : LevelsOf(level, d)
    BY <1>1, NodesByLevel
  <1> DEFINE N == Nodes(d)
  <1>3. /\ level \in [0 .. MaxNesting -> FiniteNodes]
        /\ level[0] = {Root(d)}
        /\ \A i \in 1 .. MaxNesting : level[i] = PartsOf(level[i - 1])
        /\ \A n : n \in N <=> \E i \in 0 .. MaxNesting : n \in level[i]
    BY <1>2 DEF LevelsOf
  <1>4. \A i \in 0 .. MaxNesting : /\ i \in Nat /\ i <= MaxNesting
                                   /\ level[i] \subseteq NodeSet /\ IsFiniteSet(level[i])
    BY <1>1, <1>3 DEF FiniteNodes
  <1>5. \A i \in 0 .. MaxNesting : \A n \in level[i] : Len(n.path) = i
    BY <1>1, <1>2, <1>4, LevelDepth
  <1>6. N \in FiniteNodes
    <2>1. N \subseteq NodeSet
      BY <1>3, <1>4
    <2> DEFINE All == {level[i] : i \in 0 .. MaxNesting}
               f == [i \in 0 .. MaxNesting |-> level[i]]
    <2>2. IsFiniteSet(0 .. MaxNesting)
      <3>1. 0 \in Int /\ MaxNesting \in Int
        BY <1>1
      <3> QED BY <3>1, FS_Interval, Zenon
    <2>3. f \in Surjection(0 .. MaxNesting, All)
      BY DEF Surjection
    <2>4. \A T \in All : IsFiniteSet(T)
      BY <1>4
    <2>5. N = UNION All
      BY <1>2 DEF LevelsOf
    <2> HIDE DEF f, All
    <2>6. IsFiniteSet(All)
      BY <2>2, <2>3, FS_Surjection, Zenon
    <2>7. IsFiniteSet(UNION All)
      BY <2>4, <2>6, FS_UNION, Zenon
    <2> QED BY <2>1, <2>5, <2>7 DEF FiniteNodes
  <1>7. Root(d) \in N
    <2>1. 0 \in 0 .. MaxNesting
      BY <1>1
    <2> QED BY <1>3, <2>1
  <1>8. ASSUME NEW n \in N, NEW step \in Steps(n.value) PROVE PartNode(n, step) \in N
    <2>1. PICK i \in 0 .. MaxNesting : n \in level[i]
      BY <1>3
    <2>2. i # MaxNesting
      <3>1. Len(n.path) = MaxNesting => Steps(n.value) = {}
        BY NestingAssumption
      <3> QED BY <1>5, <2>1, <3>1
    <2>3. i + 1 \in 1 .. MaxNesting /\ (i + 1) - 1 = i /\ i + 1 \in 0 .. MaxNesting
      BY <1>1, <2>2
    <2>4. level[i + 1] = PartsOf(level[i])
      BY <1>3, <2>3
    <2>5. PartNode(n, step) \in PartsOf(level[i])
      BY <2>1 DEF PartsOf
    <2> QED BY <1>3, <2>3, <2>4, <2>5
  <1>9. ASSUME NEW n \in N
        PROVE  n = Root(d) \/ \E m \in N : \E step \in Steps(m.value) : n = PartNode(m, step)
    <2>1. PICK i \in 0 .. MaxNesting : n \in level[i]
      BY <1>3
    <2>2. CASE i = 0
      BY <1>3, <2>1, <2>2
    <2>3. CASE i # 0
      <3>1. i \in 1 .. MaxNesting /\ i - 1 \in 0 .. MaxNesting
        BY <1>1, <2>3
      <3>2. n \in PartsOf(level[i - 1])
        BY <1>3, <2>1, <3>1
      <3>3. PICK m \in level[i - 1] : \E step \in Steps(m.value) : n = PartNode(m, step)
        BY <3>2 DEF PartsOf
      <3>4. m \in N
        BY <1>3, <3>1
      <3> QED BY <3>3, <3>4
    <2> QED BY <2>2, <2>3
  <1>10. ASSUME NEW n \in N, NEW m \in N, n.path = m.path PROVE n = m
    <2>1. PICK i \in 0 .. MaxNesting : n \in level[i]
      BY <1>3
    <2>2. PICK j \in 0 .. MaxNesting : m \in level[j]
      BY <1>3
    <2>3. i = j
      BY <1>5, <1>10, <2>1, <2>2
    <2>4. \A x, y \in level[i] : x.path = y.path => x = y
      BY <1>1, <1>2, <1>4, LevelPaths
    <2> QED BY <1>10, <2>1, <2>2, <2>3, <2>4
  <1> HIDE DEF N
  <1>11. IsTree(N, d)
    BY <1>6, <1>7, <1>8, <1>9, <1>10 DEF IsTree
  <1> QED BY <1>1, <1>11 DEF N

-----------------------------------------------------------------------------
\* How far a walk is through the tree N: it has visited V and is in the loops
\* of the values at[1], ..., at[k], each a part of the one before, with the
\* steps L[i] left in each.  A part of a visited value is not visited exactly
\* when its step is left.
Tracks(N, d, V, at, L, k) ==
    /\ V \subseteq N /\ Root(d) \in V
    /\ \A i \in 1 .. k : at[i] \in V /\ Len(at[i].path) = i - 1 /\ L[i] \subseteq Steps(at[i].value)
    /\ \A m \in N : \A s \in Steps(m.value) : PartNode(m, s) \in V => m \in V
    /\ \A m \in V : \A s \in Steps(m.value) :
         PartNode(m, s) \notin V <=> \E i \in 1 .. k : at[i] = m /\ s \in L[i]

\* A walk that has entered the root.
LEMMA TracksFromRoot ==
    ASSUME NEW N, NEW d \in Values, IsTree(N, d), NEW at, NEW L, NEW k \in {0, 1},
           k = 1 => at[1] = Root(d) /\ L[1] = Steps(d),
           k = 0 => Steps(d) = {}
    PROVE  Tracks(N, d, {Root(d)}, at, L, k)
  <1> DEFINE V == {Root(d)}
  <1>1. /\ Root(d) \in NodeSet /\ Len(Root(d).path) = 0 /\ Root(d).value = d
        /\ Root(d) \in N /\ N \subseteq NodeSet
    BY RootType DEF IsTree, FiniteNodes
  <1>2. ASSUME NEW m \in N, NEW s \in Steps(m.value) PROVE PartNode(m, s) # Root(d)
    <2>1. m \in NodeSet
      BY <1>1
    <2>2. Len(PartNode(m, s).path) = Len(m.path) + 1 /\ Len(m.path) \in Nat
      BY <2>1, PartNodeType
    <2> QED BY <1>1, <2>2
  <1>3. V \subseteq N /\ Root(d) \in V
    BY <1>1
  <1>4. \A i \in 1 .. k : at[i] \in V /\ Len(at[i].path) = i - 1
                           /\ L[i] \subseteq Steps(at[i].value)
    <2> TAKE i \in 1 .. k
    <2>1. k = 1 /\ i = 1
      OBVIOUS
    <2> QED BY <1>1, <2>1
  <1>5. \A m \in N : \A s \in Steps(m.value) : PartNode(m, s) \in V => m \in V
    BY <1>2
  <1>6. \A m \in V : \A s \in Steps(m.value) :
         PartNode(m, s) \notin V <=> \E i \in 1 .. k : at[i] = m /\ s \in L[i]
    <2> TAKE m \in V
    <2> TAKE s \in Steps(m.value)
    <2>1. m = Root(d) /\ m \in N /\ s \in Steps(d)
      BY <1>1
    <2>2. PartNode(m, s) \notin V
      BY <1>2, <2>1
    <2>3. k = 1
      BY <2>1
    <2>4. 1 \in 1 .. k /\ at[1] = m /\ s \in L[1]
      BY <2>1, <2>3
    <2> QED BY <2>2, <2>4
  <1> QED BY <1>3, <1>4, <1>5, <1>6 DEF Tracks

\* The innermost loop takes the step s.
Takes(N, d, V, at, L, k, s) ==
    /\ d \in Values /\ IsTree(N, d)
    /\ k \in Nat \ {0} /\ Tracks(N, d, V, at, L, k)
    /\ s \in L[k]

\* The part that the innermost loop comes to was not visited before.
LEMMA VisitsNewNode ==
    ASSUME NEW N, NEW d, NEW V, NEW at, NEW L, NEW k, NEW s, Takes(N, d, V, at, L, k, s)
    PROVE  /\ at[k] \in V /\ at[k] \in NodeSet /\ at[k] \in N /\ s \in Steps(at[k].value)
           /\ PartNode(at[k], s) \in N /\ PartNode(at[k], s) \in NodeSet
           /\ Len(PartNode(at[k], s).path) = k
           /\ PartNode(at[k], s) \notin V
           /\ \A m \in V : m.path # PartNode(at[k], s).path
  <1>1. /\ d \in Values /\ IsTree(N, d) /\ k \in Nat \ {0}
        /\ Tracks(N, d, V, at, L, k) /\ s \in L[k]
    BY DEF Takes
  <1>2. k \in 1 .. k
    BY <1>1
  <1>3. /\ at[k] \in V /\ Len(at[k].path) = k - 1 /\ s \in Steps(at[k].value) /\ V \subseteq N
    BY <1>1, <1>2 DEF Tracks
  <1>4. /\ N \subseteq NodeSet
        /\ \A n \in N : \A t \in Steps(n.value) : PartNode(n, t) \in N
        /\ \A n, m \in N : n.path = m.path => n = m
    BY <1>1 DEF IsTree, FiniteNodes
  <1>5. /\ at[k] \in N /\ at[k] \in NodeSet
        /\ PartNode(at[k], s) \in N /\ PartNode(at[k], s) \in NodeSet
    BY <1>3, <1>4
  <1>6. Len(PartNode(at[k], s).path) = k
    BY <1>1, <1>3, <1>5, PartNodeType
  <1>7. PartNode(at[k], s) \notin V
    BY <1>1, <1>2, <1>3 DEF Tracks
  <1>8. \A m \in V : m.path # PartNode(at[k], s).path
    BY <1>3, <1>4, <1>5, <1>7
  <1> QED BY <1>3, <1>5, <1>6, <1>7, <1>8

\* The loops after the call for the step s to c: its own loop begins if it has
\* one, with all steps left.
Called(at, L, k, s, c, at2, L2, k2) ==
    /\ c = PartNode(at[k], s)
    /\ k2 \in {k, k + 1}
    /\ \A i \in 1 .. k : at2[i] = at[i]
    /\ \A i \in 1 .. k : L2[i] = IF i = k THEN L[k] \ {s} ELSE L[i]
    /\ k2 = k + 1 => at2[k2] = c /\ L2[k2] = Steps(c.value)
    /\ k2 = k => Steps(c.value) = {}

\* It is visited.
LEMMA VisitTracks ==
    ASSUME NEW N, NEW d, NEW V, NEW at, NEW L, NEW k, NEW s, Takes(N, d, V, at, L, k, s),
           NEW c, NEW at2, NEW L2, NEW k2, Called(at, L, k, s, c, at2, L2, k2)
    PROVE  Tracks(N, d, V \cup {c}, at2, L2, k2)
  <1> DEFINE W == V \cup {c}
  <1>1. /\ d \in Values /\ IsTree(N, d) /\ k \in Nat \ {0}
        /\ Tracks(N, d, V, at, L, k) /\ s \in L[k]
    BY DEF Takes
  <1>2. /\ c = PartNode(at[k], s) /\ k2 \in {k, k + 1}
        /\ \A i \in 1 .. k : at2[i] = at[i]
        /\ \A i \in 1 .. k : L2[i] = IF i = k THEN L[k] \ {s} ELSE L[i]
        /\ k2 = k + 1 => at2[k2] = c /\ L2[k2] = Steps(c.value)
        /\ k2 = k => Steps(c.value) = {}
    BY DEF Called
  <1>3. /\ at[k] \in V /\ at[k] \in NodeSet /\ at[k] \in N /\ s \in Steps(at[k].value)
        /\ c \in N /\ c \in NodeSet /\ Len(c.path) = k /\ c \notin V
    BY <1>1, <1>2, VisitsNewNode
  <1>4. /\ V \subseteq N /\ Root(d) \in V
        /\ \A i \in 1 .. k : at[i] \in V /\ Len(at[i].path) = i - 1
                             /\ L[i] \subseteq Steps(at[i].value)
        /\ \A m \in N : \A t \in Steps(m.value) : PartNode(m, t) \in V => m \in V
        /\ \A m \in V : \A t \in Steps(m.value) :
             PartNode(m, t) \notin V <=> \E i \in 1 .. k : at[i] = m /\ t \in L[i]
    BY <1>1 DEF Tracks
  <1>5. N \subseteq NodeSet /\ \A n, m \in N : n.path = m.path => n = m
    BY <1>1 DEF IsTree, FiniteNodes
  <1>6. \A i : i \in 1 .. k2 <=> i \in 1 .. k \/ (i = k + 1 /\ k2 = k + 1)
    BY <1>1, <1>2
  <1>7. W \subseteq N /\ Root(d) \in W
    BY <1>3, <1>4
  <1>8. \A i \in 1 .. k2 : at2[i] \in W /\ Len(at2[i].path) = i - 1
                           /\ L2[i] \subseteq Steps(at2[i].value)
    <2> TAKE i \in 1 .. k2
    <2>1. CASE i \in 1 .. k
      <3>1. at2[i] = at[i] /\ L2[i] \subseteq L[i]
        BY <1>2, <2>1
      <3> QED BY <1>4, <2>1, <3>1
    <2>2. CASE i = k + 1 /\ k2 = k + 1
      BY <1>2, <1>3, <2>2
    <2> QED BY <1>6, <2>1, <2>2
  \* A part is the node visited only by this step.
  <1>9. ASSUME NEW m \in N, NEW t \in Steps(m.value), PartNode(m, t) = c
        PROVE  m = at[k] /\ t = s
    <2>1. m \in NodeSet /\ PartNode(m, t).path = PartNode(at[k], s).path
      BY <1>2, <1>5, <1>9
    <2>2. m.path = at[k].path /\ t = s
      BY <1>3, <2>1, PartsDiffer
    <2> QED BY <1>3, <1>5, <2>2
  <1>10. \A m \in N : \A t \in Steps(m.value) : PartNode(m, t) \in W => m \in W
    BY <1>3, <1>4, <1>9
  <1>11. ASSUME NEW m \in W, NEW t \in Steps(m.value)
         PROVE  PartNode(m, t) \notin W <=> \E i \in 1 .. k2 : at2[i] = m /\ t \in L2[i]
    <2>1. CASE m \in V
      <3>1. m # c /\ m \in N
        BY <1>3, <1>4, <2>1
      <3>2. (\E i \in 1 .. k2 : at2[i] = m /\ t \in L2[i])
              <=> \E i \in 1 .. k : at[i] = m /\ t \in L2[i]
        BY <1>2, <1>6, <3>1
      <3>3. (\E i \in 1 .. k : at[i] = m /\ t \in L2[i])
              <=> (\E i \in 1 .. k : at[i] = m /\ t \in L[i]) /\ ~(m = at[k] /\ t = s)
        <4>1. ASSUME NEW i \in 1 .. k, at[i] = m, t \in L2[i]
              PROVE  t \in L[i] /\ ~(m = at[k] /\ t = s)
          <5>1. CASE i = k
            BY <1>2, <4>1, <5>1
          <5>2. CASE i # k
            <6>1. Len(m.path) = i - 1 /\ Len(at[k].path) = k - 1
              BY <1>1, <1>4, <4>1
            <6>2. m # at[k]
              BY <1>1, <5>2, <6>1
            <6> QED BY <1>2, <4>1, <5>2, <6>2
          <5> QED BY <5>1, <5>2
        <4>2. ASSUME NEW i \in 1 .. k, at[i] = m, t \in L[i], ~(m = at[k] /\ t = s)
              PROVE  t \in L2[i]
          BY <1>2, <4>2
        <4> QED BY <4>1, <4>2
      <3>4. PartNode(m, t) = c <=> m = at[k] /\ t = s
        BY <1>2, <1>9, <3>1
      <3> QED BY <1>4, <2>1, <3>2, <3>3, <3>4
    <2>2. CASE m = c
      <3>1. k2 = k + 1 /\ at2[k2] = c /\ t \in L2[k2] /\ k2 \in 1 .. k2
        BY <1>1, <1>2, <2>2
      <3>2. PartNode(c, t) \notin V
        BY <1>3, <1>4, <2>2
      <3>3. PartNode(c, t) # c
        <4>1. Len(PartNode(c, t).path) = Len(c.path) + 1
          BY <1>3, <2>2, PartNodeType
        <4> QED BY <1>3, <4>1
      <3> QED BY <2>2, <3>1, <3>2, <3>3
    <2> QED BY <2>1, <2>2
  <1> HIDE DEF W
  <1>12. Tracks(N, d, W, at2, L2, k2)
    BY <1>7, <1>8, <1>10, <1>11 DEF Tracks
  <1> QED BY <1>12 DEF W

\* A loop without steps left may end.
LEMMA ReturnTracks ==
    ASSUME NEW N, NEW d, NEW V, NEW at, NEW L, NEW k \in Nat \ {0},
           Tracks(N, d, V, at, L, k), L[k] = {},
           NEW at2, NEW L2, \A i \in 1 .. k - 1 : at2[i] = at[i] /\ L2[i] = L[i]
    PROVE  Tracks(N, d, V, at2, L2, k - 1)
  <1>1. \A i : i \in 1 .. k <=> i \in 1 .. k - 1 \/ i = k
    OBVIOUS
  <1>2. \A m, t : (\E i \in 1 .. k - 1 : at2[i] = m /\ t \in L2[i])
                    <=> \E i \in 1 .. k : at[i] = m /\ t \in L[i]
    BY <1>1
  <1>3. /\ V \subseteq N /\ Root(d) \in V
        /\ \A i \in 1 .. k : at[i] \in V /\ Len(at[i].path) = i - 1
                             /\ L[i] \subseteq Steps(at[i].value)
        /\ \A m \in N : \A s \in Steps(m.value) : PartNode(m, s) \in V => m \in V
        /\ \A m \in V : \A s \in Steps(m.value) :
             PartNode(m, s) \notin V <=> \E i \in 1 .. k : at[i] = m /\ s \in L[i]
    BY DEF Tracks
  <1>4. \A i \in 1 .. k - 1 : at2[i] \in V /\ Len(at2[i].path) = i - 1
                              /\ L2[i] \subseteq Steps(at2[i].value)
    BY <1>1, <1>3, Zenon
  <1>5. \A m \in V : \A s \in Steps(m.value) :
          PartNode(m, s) \notin V <=> \E i \in 1 .. k - 1 : at2[i] = m /\ s \in L2[i]
    <2> TAKE m \in V
    <2> TAKE s \in Steps(m.value)
    <2>1. PartNode(m, s) \notin V <=> \E i \in 1 .. k : at[i] = m /\ s \in L[i]
      BY <1>3
    <2>2. (\E i \in 1 .. k - 1 : at2[i] = m /\ s \in L2[i])
            <=> \E i \in 1 .. k : at[i] = m /\ s \in L[i]
      BY <1>2
    <2> QED BY <2>1, <2>2
  <1> QED BY <1>3, <1>4, <1>5, Zenon DEF Tracks

\* When all loops have ended everything was visited.
LEMMA DoneTracks ==
    ASSUME NEW N, NEW d \in Values, IsTree(N, d), NEW V, NEW at, NEW L, Tracks(N, d, V, at, L, 0)
    PROVE  V = N
  <1>1. /\ V \subseteq N /\ Root(d) \in V
        /\ \A m \in V : \A s \in Steps(m.value) : PartNode(m, s) \in V
    BY DEF Tracks
  <1>2. /\ N \subseteq NodeSet
        /\ \A n \in N : n = Root(d) \/ \E m \in N : \E s \in Steps(m.value) : n = PartNode(m, s)
    BY DEF IsTree, FiniteNodes
  <1> DEFINE S == {i \in Nat : \A n \in N : Len(n.path) = i => n \in V}
  <1>3. ASSUME NEW n \in N, n # Root(d)
        PROVE  \E m \in N : /\ Len(m.path) + 1 = Len(n.path) /\ Len(m.path) \in Nat
                            /\ m \in V => n \in V
    <2>1. PICK m \in N : \E s \in Steps(m.value) : n = PartNode(m, s)
      BY <1>2, <1>3
    <2>2. PICK s \in Steps(m.value) : n = PartNode(m, s)
      BY <2>1
    <2>3. Len(n.path) = Len(m.path) + 1 /\ Len(m.path) \in Nat
      BY <1>2, <2>2, PartNodeType
    <2> QED BY <1>1, <2>2, <2>3
  <1>4. 0 \in S
    <2>1. ASSUME NEW n \in N, Len(n.path) = 0 PROVE n \in V
      <3>1. CASE n = Root(d)
        BY <1>1, <3>1
      <3>2. CASE n # Root(d)
        BY <1>3, <2>1, <3>2
      <3> QED BY <3>1, <3>2
    <2> QED BY <2>1
  <1>5. ASSUME NEW i \in Nat, i \in S PROVE i + 1 \in S
    <2>1. ASSUME NEW n \in N, Len(n.path) = i + 1 PROVE n \in V
      <3>1. CASE n = Root(d)
        BY <1>1, <3>1
      <3>2. CASE n # Root(d)
        <4>1. PICK m \in N : /\ Len(m.path) + 1 = Len(n.path) /\ Len(m.path) \in Nat
                             /\ m \in V => n \in V
          BY <1>3, <3>2
        <4>2. Len(m.path) = i
          BY <2>1, <4>1
        <4> QED BY <1>5, <4>1, <4>2
      <3> QED BY <3>1, <3>2
    <2> QED BY <2>1
  <1>6. \A i \in Nat : i \in S
    <2> HIDE DEF S
    <2> QED BY <1>4, <1>5, Induction
  <1>7. ASSUME NEW n \in N PROVE n \in V
    <2>1. Len(n.path) \in Nat
      BY <1>2, LenProperties DEF NodeSet
    <2> QED BY <1>6, <2>1
  <1> QED BY <1>1, <1>7

-----------------------------------------------------------------------------
\* The keys a walk has come to.
SeenKeys(V) == {key \in AllSteps : \E o \in OfKind(V, "object") :
                  key \in DOMAIN o.value.members /\ PartNode(o, key) \in V}

\* The visit of c, for the step s of v, adds s if it is a key.
AddsKey(V, c, v, s) ==
    /\ v.kind = "object" => SeenKeys(V \cup {c}) = SeenKeys(V) \cup {s}
    /\ v.kind # "object" => SeenKeys(V \cup {c}) = SeenKeys(V)

\* A visit adds the key it was reached by, if it was reached by one.
LEMMA KeysGrow ==
    ASSUME NEW N, NEW d, NEW V, NEW at, NEW L, NEW k, NEW s, Takes(N, d, V, at, L, k, s)
    PROVE  AddsKey(V, PartNode(at[k], s), at[k].value, s)
  <1>1. PICK c : c = PartNode(at[k], s)
    OBVIOUS
  <1>2. IsTree(N, d) /\ Tracks(N, d, V, at, L, k)
    BY DEF Takes
  <1>3. /\ at[k] \in V /\ at[k] \in NodeSet /\ at[k] \in N /\ s \in Steps(at[k].value)
        /\ c \in N /\ c \in NodeSet /\ Len(c.path) = k /\ c \notin V
    BY <1>1, VisitsNewNode
  <1>4. /\ V \subseteq N /\ N \subseteq NodeSet
        /\ \A m \in N : \A t \in Steps(m.value) : PartNode(m, t) \in V => m \in V
        /\ \A n, m \in N : n.path = m.path => n = m
    BY <1>2 DEF Tracks, IsTree, FiniteNodes
  <1>5. s \in AllSteps
    BY <1>3, StepsType DEF NodeSet
  <1>6. ASSUME NEW o \in OfKind(V \cup {c}, "object"), NEW key \in DOMAIN o.value.members,
               PartNode(o, key) \in V \cup {c}
        PROVE  \/ o \in OfKind(V, "object") /\ PartNode(o, key) \in V
               \/ o = at[k] /\ key = s
    <2>1. o \in N /\ o \in NodeSet /\ o.value.kind = "object" /\ o.value \in Values
      BY <1>3, <1>4 DEF OfKind, NodeSet
    <2>2. key \in Steps(o.value)
      BY <2>1, StepsType
    <2>3. CASE PartNode(o, key) \in V
      <3>1. o \in V
        BY <1>4, <2>1, <2>2, <2>3
      <3> QED BY <2>1, <2>3, <3>1 DEF OfKind
    <2>4. CASE PartNode(o, key) = c
      <3>1. o.path = at[k].path /\ key = s
        BY <1>3, <1>1, <2>1, <2>2, <2>4, PartsDiffer
      <3> QED BY <1>3, <1>4, <2>1, <3>1
    <2> QED BY <1>6, <2>3, <2>4
  <1>7. OfKind(V, "object") \subseteq OfKind(V \cup {c}, "object")
    BY DEF OfKind
  <1>8. ASSUME at[k].value.kind = "object"
        PROVE  SeenKeys(V \cup {c}) = SeenKeys(V) \cup {s}
    <2>1. s \in DOMAIN at[k].value.members /\ at[k] \in OfKind(V \cup {c}, "object")
      BY <1>3, <1>8, StepsType DEF OfKind, NodeSet
    <2>2. ASSUME NEW key PROVE key \in SeenKeys(V \cup {c}) <=> key \in SeenKeys(V) \cup {s}
      BY <1>3, <1>5, <1>6, <1>7, <1>1, <2>1 DEF SeenKeys
    <2> QED BY <2>2
  <1>9. ASSUME at[k].value.kind # "object"
        PROVE  SeenKeys(V \cup {c}) = SeenKeys(V)
    <2>1. at[k] \notin OfKind(V \cup {c}, "object")
      BY <1>9 DEF OfKind
    <2>2. ASSUME NEW key PROVE key \in SeenKeys(V \cup {c}) <=> key \in SeenKeys(V)
      BY <1>6, <1>7, <2>1 DEF SeenKeys
    <2> QED BY <2>2
  <1>10. AddsKey(V, c, at[k].value, s)
    BY <1>8, <1>9 DEF AddsKey
  <1> QED BY <1>1, <1>10, Zenon

\* They are keys of the document, and none at the root.
LEMMA KeysAreOfDocument ==
    ASSUME NEW N, NEW d \in Values, IsTree(N, d), NEW V \in SUBSET N
    PROVE  /\ SeenKeys(V) \subseteq Keys(N) /\ SeenKeys(N) = Keys(N) /\ Keys(N) \subseteq AllSteps
           /\ \A key \in Keys(N) : KeyLength(key) \in Nat
           /\ SeenKeys({Root(d)}) = {}
  <1>1. /\ N \subseteq NodeSet /\ Root(d) \in N
        /\ \A n \in N : \A t \in Steps(n.value) : PartNode(n, t) \in N
    BY DEF IsTree, FiniteNodes
  <1>2. ASSUME NEW o \in OfKind(N, "object")
        PROVE  /\ o \in N /\ o \in NodeSet /\ o.value \in Values /\ o.value.kind = "object"
               /\ DOMAIN o.value.members = Steps(o.value)
               /\ DOMAIN o.value.members \subseteq AllSteps
               /\ \A key \in DOMAIN o.value.members : /\ KeyLength(key) \in Nat
                                                      /\ PartNode(o, key) \in N
    <2>1. o \in N /\ o \in NodeSet /\ o.value \in Values /\ o.value.kind = "object"
      BY <1>1 DEF OfKind, NodeSet
    <2>2. DOMAIN o.value.members = Steps(o.value) /\ DOMAIN o.value.members \subseteq AllSteps
      BY <2>1, StepsType
    <2>3. \A key \in DOMAIN o.value.members : KeyLength(key) \in Nat
      BY <2>1, ValuesAssumption
    <2> QED BY <1>1, <2>1, <2>2, <2>3
  <1>3. OfKind(V, "object") \subseteq OfKind(N, "object")
    BY DEF OfKind
  <1>4. \A key : key \in Keys(N) <=> \E o \in OfKind(N, "object") : key \in DOMAIN o.value.members
    BY DEF Keys
  <1>5. SeenKeys(V) \subseteq Keys(N)
    BY <1>3, <1>4 DEF SeenKeys
  <1>6. Keys(N) \subseteq AllSteps /\ \A key \in Keys(N) : KeyLength(key) \in Nat
    BY <1>2, <1>4
  <1>7. SeenKeys(N) = Keys(N)
    BY <1>2, <1>4, <1>6 DEF SeenKeys
  <1>8. SeenKeys({Root(d)}) = {}
    <2> SUFFICES ASSUME NEW o \in OfKind({Root(d)}, "object"), NEW key \in DOMAIN o.value.members,
                        PartNode(o, key) \in {Root(d)}
                 PROVE  FALSE
      BY DEF SeenKeys
    <2>1. o = Root(d) /\ o \in OfKind(N, "object")
      BY <1>1 DEF OfKind
    <2>2. o \in NodeSet /\ key \in Steps(o.value)
      BY <1>2, <2>1
    <2>3. Len(PartNode(o, key).path) = Len(o.path) + 1 /\ Len(o.path) \in Nat
      BY <2>2, PartNodeType
    <2> QED BY <2>1, <2>3
  <1> QED BY <1>5, <1>6, <1>7, <1>8

-----------------------------------------------------------------------------
\* The greatest of a set of numbers.
IsGreatest(m, S) == m \in S /\ \A y \in S : m >= y

\* The greatest of a set with one more.
LEMMA MaxWithOneMore ==
    ASSUME NEW S \in SUBSET Int, NEW m \in Int, IsGreatest(m, S), NEW x \in Int
    PROVE  Max(S) = m /\ IsGreatest(Larger(m, x), S \cup {x}) /\ Max(S \cup {x}) = Larger(m, x)
  <1>1. \A T \in SUBSET Int, k \in Int : IsGreatest(k, T) => Max(T) = k
    <2> TAKE T \in SUBSET Int, k \in Int
    <2> HAVE IsGreatest(k, T)
    <2>1. /\ Max(T) \in T /\ \A y \in T : Max(T) >= y
      BY DEF Max, IsGreatest
    <2>2. k \in T /\ \A y \in T : k >= y
      BY DEF IsGreatest
    <2>3. Max(T) \in Int /\ Max(T) >= k /\ k >= Max(T)
      BY <2>1, <2>2
    <2> QED BY <2>3
  <1>2. IsGreatest(Larger(m, x), S \cup {x}) /\ Larger(m, x) \in Int
    BY DEF IsGreatest, Larger
  <1>3. S \cup {x} \in SUBSET Int
    OBVIOUS
  <1> QED BY <1>1, <1>2, <1>3

\* Finitely many numbers have a greatest one.
LEMMA LargestExists ==
    ASSUME NEW S \in SUBSET Nat, IsFiniteSet(S)
    PROVE  Largest(S) \in Nat /\ IsGreatest(Largest(S), S \cup {0})
  <1>1. PICK n \in Nat : \E f : f \in Surjection(1 .. n, S)
    <2>1. PICK n \in Nat : ExistsBijection(1 .. n, S)
      BY FS_NatBijection, Zenon
    <2> QED BY <2>1, Zenon DEF ExistsBijection, Bijection
  <1>2. PICK f : f \in Surjection(1 .. n, S)
    BY <1>1
  <1>3. f \in [1 .. n -> S] /\ \A y \in S : \E i \in 1 .. n : f[i] = y
    BY <1>2 DEF Surjection
  <1> DEFINE A(i) == {f[j] : j \in 1 .. i} \cup {0}
             T == {i \in Nat : i <= n => \E m \in Nat : IsGreatest(m, A(i))}
  <1>4. 0 \in T
    <2>1. A(0) = {0}
      OBVIOUS
    <2>2. IsGreatest(0, A(0))
      BY <2>1 DEF IsGreatest
    <2> QED BY <2>2
  <1>5. ASSUME NEW i \in Nat, i \in T PROVE i + 1 \in T
    <2> SUFFICES ASSUME i + 1 <= n PROVE \E m \in Nat : IsGreatest(m, A(i + 1))
      <3> HIDE DEF A
      <3> QED OBVIOUS
    <2>1. i <= n /\ i + 1 \in 1 .. n
      OBVIOUS
    <2>2. PICK m \in Nat : IsGreatest(m, A(i))
      <3> HIDE DEF A
      <3> QED BY <1>5, <2>1
    <2>3. f[i + 1] \in Nat
      BY <1>3, <2>1
    <2>4. A(i + 1) = A(i) \cup {f[i + 1]}
      <3>1. \A j : j \in 1 .. i + 1 <=> j \in 1 .. i \/ j = i + 1
        OBVIOUS
      <3> QED BY <3>1
    <2>5. \A j \in 1 .. i : f[j] \in Nat
      <3>1. \A j \in 1 .. i : j \in 1 .. n
        BY <2>1
      <3> QED BY <1>3, <3>1
    <2>6. A(i) \in SUBSET Int /\ m \in Int /\ f[i + 1] \in Int
      BY <2>3, <2>5
    <2> HIDE DEF A
    <2>7. IsGreatest(Larger(m, f[i + 1]), A(i + 1))
      BY <2>2, <2>4, <2>6, MaxWithOneMore
    <2>8. Larger(m, f[i + 1]) \in Nat
      BY <2>3 DEF Larger
    <2> QED BY <2>7, <2>8
  <1>6. \A i \in Nat : i \in T
    <2> HIDE DEF T
    <2> QED BY <1>4, <1>5, Induction
  <1>7. PICK m \in Nat : IsGreatest(m, A(n))
    BY <1>6
  <1>8. A(n) = S \cup {0}
    BY <1>3
  <1>9. S \cup {0} \in SUBSET Int /\ m \in Int /\ 0 \in Int
    OBVIOUS
  <1>10. Max(S \cup {0}) = m
    BY <1>7, <1>8, <1>9, MaxWithOneMore
  <1> QED BY <1>7, <1>8, <1>10 DEF Largest

-----------------------------------------------------------------------------
\* The jsonComplexityStats of a walk.
StatsSet == [depth: Nat, fieldCount: Nat, objectCount: Nat, arrayCount: Nat,
             scalarCount: Nat, nullCount: Nat, stringCount: Nat,
             seenKeys: SUBSET AllSteps, maxArrayLength: Nat, maxObjectFields: Nat,
             maxKeyLength: Nat, maxStringLength: Nat]

\* Those that are neither objects nor arrays.
Scalars(V) == V \ (OfKind(V, "object") \cup OfKind(V, "array"))

\* The numbers of which the statistics keep the greatest.
Depths(V) == {Len(n.path) + 1 : n \in V}
Lengths(V) == {Len(n.value.items) : n \in OfKind(V, "array")}
Sizes(V) == {Size(n.value) : n \in OfKind(V, "object")}
StringLengths(V) == {n.value.len : n \in OfKind(V, "string")}
KeyLengths(K) == {KeyLength(key) : key \in K}

\* The statistics s of the values V and the keys K.
Tally(V, K, s) ==
    /\ s \in StatsSet
    /\ IsGreatest(s.depth, Depths(V) \cup {0})
    /\ s.fieldCount = Cardinality(Fields(V))
    /\ s.objectCount = Cardinality(OfKind(V, "object"))
    /\ s.arrayCount = Cardinality(OfKind(V, "array"))
    /\ s.scalarCount = Cardinality(Scalars(V))
    /\ s.nullCount = Cardinality(OfKind(V, "null"))
    /\ s.stringCount = Cardinality(OfKind(V, "string"))
    /\ s.seenKeys = K
    /\ IsGreatest(s.maxArrayLength, Lengths(V) \cup {0})
    /\ IsGreatest(s.maxObjectFields, Sizes(V) \cup {0})
    /\ IsGreatest(s.maxKeyLength, KeyLengths(K) \cup {0})
    /\ IsGreatest(s.maxStringLength, StringLengths(V) \cup {0})

\* Nothing is counted of nothing.
LEMMA TallyNothing == Tally({}, {}, NoStats)
  <1>1. \A kind : OfKind({}, kind) = {}
    BY DEF OfKind
  <1>2. Fields({}) = {} /\ Scalars({}) = {} /\ Depths({}) = {} /\ Lengths({}) = {}
        /\ Sizes({}) = {} /\ StringLengths({}) = {} /\ KeyLengths({}) = {}
    BY <1>1 DEF Fields, Scalars, Depths, Lengths, Sizes, StringLengths, KeyLengths
  <1>3. Cardinality({}) = 0
    BY FS_EmptySet
  <1>4. IsGreatest(0, {} \cup {0})
    BY DEF IsGreatest
  <1>5. NoStats \in StatsSet
    BY DEF NoStats, StatsSet
  <1>6. /\ NoStats.depth = 0 /\ NoStats.fieldCount = 0 /\ NoStats.objectCount = 0
        /\ NoStats.arrayCount = 0 /\ NoStats.scalarCount = 0 /\ NoStats.nullCount = 0
        /\ NoStats.stringCount = 0 /\ NoStats.seenKeys = {} /\ NoStats.maxArrayLength = 0
        /\ NoStats.maxObjectFields = 0 /\ NoStats.maxKeyLength = 0 /\ NoStats.maxStringLength = 0
    BY DEF NoStats
  <1> HIDE DEF NoStats
  <1> QED BY <1>1, <1>2, <1>3, <1>4, <1>5, <1>6 DEF Tally

\* The statistics with one more key.
WithKey(s, key) == [s EXCEPT !.seenKeys = @ \cup {key},
                             !.maxKeyLength = Larger(@, KeyLength(key))]

\* A key is added before the call on its value.
LEMMA TallyKey ==
    ASSUME NEW V, NEW K, NEW s, Tally(V, K, s), NEW key \in AllSteps, KeyLength(key) \in Nat,
           \A k \in K : KeyLength(k) \in Nat
    PROVE  Tally(V, K \cup {key}, WithKey(s, key))
  <1>1. s \in StatsSet /\ s.seenKeys = K /\ IsGreatest(s.maxKeyLength, KeyLengths(K) \cup {0})
    BY DEF Tally
  <1>2. s.maxKeyLength \in Nat /\ s.maxKeyLength \in Int /\ KeyLength(key) \in Int
    BY <1>1 DEF StatsSet
  <1> DEFINE t == WithKey(s, key)
             l == Larger(s.maxKeyLength, KeyLength(key))
  <1>3. l \in Nat
    BY <1>2 DEF Larger
  <1>4. /\ t \in StatsSet /\ t.seenKeys = K \cup {key} /\ t.maxKeyLength = l
        /\ t.depth = s.depth /\ t.fieldCount = s.fieldCount /\ t.objectCount = s.objectCount
        /\ t.arrayCount = s.arrayCount /\ t.scalarCount = s.scalarCount
        /\ t.nullCount = s.nullCount /\ t.stringCount = s.stringCount
        /\ t.maxArrayLength = s.maxArrayLength /\ t.maxObjectFields = s.maxObjectFields
        /\ t.maxStringLength = s.maxStringLength
    <2> HIDE DEF l
    <2>1. t = [[s EXCEPT !.seenKeys = K \cup {key}] EXCEPT !.maxKeyLength = l]
      BY <1>1 DEF WithKey, l, StatsSet
    <2>2. \A r \in StatsSet : \A x \in SUBSET AllSteps :
            LET q == [r EXCEPT !.seenKeys = x] IN
            /\ q \in StatsSet /\ q.seenKeys = x
            /\ q.depth = r.depth /\ q.fieldCount = r.fieldCount /\ q.objectCount = r.objectCount
            /\ q.arrayCount = r.arrayCount /\ q.scalarCount = r.scalarCount
            /\ q.nullCount = r.nullCount /\ q.stringCount = r.stringCount
            /\ q.maxArrayLength = r.maxArrayLength /\ q.maxObjectFields = r.maxObjectFields
            /\ q.maxStringLength = r.maxStringLength
      BY DEF StatsSet
    <2>3. \A r \in StatsSet : \A x \in Nat :
            LET q == [r EXCEPT !.maxKeyLength = x] IN
            /\ q \in StatsSet /\ q.maxKeyLength = x /\ q.seenKeys = r.seenKeys
            /\ q.depth = r.depth /\ q.fieldCount = r.fieldCount /\ q.objectCount = r.objectCount
            /\ q.arrayCount = r.arrayCount /\ q.scalarCount = r.scalarCount
            /\ q.nullCount = r.nullCount /\ q.stringCount = r.stringCount
            /\ q.maxArrayLength = r.maxArrayLength /\ q.maxObjectFields = r.maxObjectFields
            /\ q.maxStringLength = r.maxStringLength
      BY DEF StatsSet
    <2>4. K \cup {key} \in SUBSET AllSteps
      BY <1>1 DEF StatsSet
    <2> DEFINE r1 == [s EXCEPT !.seenKeys = K \cup {key}]
    <2>5. /\ r1 \in StatsSet /\ r1.seenKeys = K \cup {key}
          /\ r1.depth = s.depth /\ r1.fieldCount = s.fieldCount /\ r1.objectCount = s.objectCount
          /\ r1.arrayCount = s.arrayCount /\ r1.scalarCount = s.scalarCount
          /\ r1.nullCount = s.nullCount /\ r1.stringCount = s.stringCount
          /\ r1.maxArrayLength = s.maxArrayLength /\ r1.maxObjectFields = s.maxObjectFields
          /\ r1.maxStringLength = s.maxStringLength
      BY <1>1, <2>2, <2>4, Zenon
    <2>6. t = [r1 EXCEPT !.maxKeyLength = l]
      BY <2>1
    <2> HIDE DEF r1, t
    <2> QED BY <1>3, <2>3, <2>5, <2>6
  <1>5. KeyLengths(K \cup {key}) \cup {0} = (KeyLengths(K) \cup {0}) \cup {KeyLength(key)}
    BY DEF KeyLengths
  <1>6. KeyLengths(K) \cup {0} \in SUBSET Int
    BY DEF KeyLengths
  <1>7. IsGreatest(l, KeyLengths(K \cup {key}) \cup {0})
    BY <1>1, <1>2, <1>5, <1>6, MaxWithOneMore
  <1> HIDE DEF t, l
  <1>8. Tally(V, K \cup {key}, t)
    BY <1>4, <1>7 DEF Tally
  <1> QED BY <1>8 DEF t

\* The sizes of a value are numbers.
LEMMA SizesType ==
    ASSUME NEW v \in Values
    PROVE  /\ v.kind = "object" => Size(v) \in Nat /\ IsFiniteSet(DOMAIN v.members)
           /\ v.kind = "array" => Len(v.items) \in Nat
           /\ v.kind = "string" => v.len \in Nat
  <1>1. v.kind = "object" => IsFiniteSet(DOMAIN v.members)
    BY ValuesAssumption
  <1>2. v.kind = "object" => Size(v) \in Nat
    BY <1>1, FS_CardinalityType DEF Size
  <1>3. v.kind = "array" => Len(v.items) \in Nat
    BY ValuesAssumption, LenProperties
  <1> QED BY <1>1, <1>2, <1>3, ValuesAssumption

\* What a value adds to the statistics.
Adds(s, v, depth, t) ==
    /\ t \in StatsSet
    /\ t.depth = Larger(s.depth, depth)
    /\ t.fieldCount = s.fieldCount + IF v.kind = "object" THEN Size(v) ELSE 0
    /\ t.objectCount = s.objectCount + IF v.kind = "object" THEN 1 ELSE 0
    /\ t.arrayCount = s.arrayCount + IF v.kind = "array" THEN 1 ELSE 0
    /\ t.scalarCount = s.scalarCount + IF v.kind \in {"object", "array"} THEN 0 ELSE 1
    /\ t.nullCount = s.nullCount + IF v.kind = "null" THEN 1 ELSE 0
    /\ t.stringCount = s.stringCount + IF v.kind = "string" THEN 1 ELSE 0
    /\ t.seenKeys = s.seenKeys
    /\ t.maxArrayLength = IF v.kind = "array" THEN Larger(s.maxArrayLength, Len(v.items))
                          ELSE s.maxArrayLength
    /\ t.maxObjectFields = IF v.kind = "object" THEN Larger(s.maxObjectFields, Size(v))
                           ELSE s.maxObjectFields
    /\ t.maxKeyLength = s.maxKeyLength
    /\ t.maxStringLength = IF v.kind = "string" THEN Larger(s.maxStringLength, v.len)
                           ELSE s.maxStringLength

\* What the part of a call before its loop makes of the statistics.
LEMMA EnteredAdds ==
    ASSUME NEW s \in StatsSet, NEW v \in Values, NEW depth \in Nat, NEW t, t = Entered(s, v, depth)
    PROVE  Adds(s, v, depth, t)
  <1>1. PICK r : r = [s EXCEPT !.depth = Deepest(s, depth)]
    OBVIOUS
  <1>2. \A x \in Nat, y \in Nat : Larger(x, y) \in Nat
    BY DEF Larger
  <1>3. /\ s.depth \in Nat /\ s.fieldCount \in Nat /\ s.objectCount \in Nat /\ s.arrayCount \in Nat
        /\ s.scalarCount \in Nat /\ s.nullCount \in Nat /\ s.stringCount \in Nat
        /\ s.maxArrayLength \in Nat /\ s.maxObjectFields \in Nat /\ s.maxKeyLength \in Nat
        /\ s.maxStringLength \in Nat /\ s.seenKeys \in SUBSET AllSteps
    BY DEF StatsSet
  <1>4. Deepest(s, depth) = Larger(s.depth, depth) /\ Larger(s.depth, depth) \in Nat
    BY <1>2, <1>3 DEF Deepest
  <1>5. /\ r \in StatsSet /\ r.depth = Larger(s.depth, depth)
        /\ r.fieldCount = s.fieldCount /\ r.objectCount = s.objectCount
        /\ r.arrayCount = s.arrayCount /\ r.scalarCount = s.scalarCount
        /\ r.nullCount = s.nullCount /\ r.stringCount = s.stringCount
        /\ r.seenKeys = s.seenKeys /\ r.maxArrayLength = s.maxArrayLength
        /\ r.maxObjectFields = s.maxObjectFields /\ r.maxKeyLength = s.maxKeyLength
        /\ r.maxStringLength = s.maxStringLength
    BY <1>1, <1>4 DEF StatsSet
  <1>6. /\ r.fieldCount \in Nat /\ r.objectCount \in Nat /\ r.arrayCount \in Nat
        /\ r.scalarCount \in Nat /\ r.nullCount \in Nat /\ r.stringCount \in Nat
        /\ r.maxArrayLength \in Nat /\ r.maxObjectFields \in Nat /\ r.maxStringLength \in Nat
    BY <1>3, <1>5, Zenon
  <1>7. v.kind \in {"object", "array", "string", "null", "scalar"}
    BY ValuesAssumption DEF ValueKinds
  <1>8. CASE v.kind = "object"
    <2>1. Size(v) \in Nat
      BY <1>8, SizesType
    <2>2. t = [r EXCEPT !.objectCount = @ + 1, !.fieldCount = @ + Size(v),
                        !.maxObjectFields = Larger(@, Size(v))]
      BY <1>1, <1>8 DEF Entered
    <2>3. PICK x \in Nat, y \in Nat, z \in Nat :
            /\ x = r.objectCount + 1 /\ y = r.fieldCount + Size(v)
            /\ z = Larger(r.maxObjectFields, Size(v))
      <3>1. Larger(r.maxObjectFields, Size(v)) \in Nat
        BY <1>2, <1>6, <2>1, Zenon
      <3>2. r.objectCount + 1 \in Nat /\ r.fieldCount + Size(v) \in Nat
        BY <1>6, <2>1
      <3> QED BY <3>1, <3>2, Zenon
    <2>4. t = [r EXCEPT !.objectCount = x, !.fieldCount = y, !.maxObjectFields = z]
      BY <1>5, <2>2, <2>3
    <2>5. /\ t \in StatsSet /\ t.depth = r.depth
          /\ t.fieldCount = y /\ t.objectCount = x
          /\ t.arrayCount = r.arrayCount /\ t.scalarCount = r.scalarCount
          /\ t.nullCount = r.nullCount /\ t.stringCount = r.stringCount
          /\ t.seenKeys = r.seenKeys /\ t.maxArrayLength = r.maxArrayLength
          /\ t.maxObjectFields = z
          /\ t.maxKeyLength = r.maxKeyLength /\ t.maxStringLength = r.maxStringLength
      <3>1. r \in StatsSet
        BY <1>5
      <3> QED BY <2>4, <3>1 DEF StatsSet
    <2> QED BY <1>3, <1>5, <1>8, <2>3, <2>5 DEF Adds
  <1>9. CASE v.kind = "array"
    <2>1. Len(v.items) \in Nat
      BY <1>9, SizesType
    <2>2. t = [r EXCEPT !.arrayCount = @ + 1, !.maxArrayLength = Larger(@, Len(v.items))]
      BY <1>1, <1>9 DEF Entered
    <2>3. PICK x \in Nat, y \in Nat :
            x = r.arrayCount + 1 /\ y = Larger(r.maxArrayLength, Len(v.items))
      <3>1. Larger(r.maxArrayLength, Len(v.items)) \in Nat
        BY <1>2, <1>6, <2>1, Zenon
      <3>2. r.arrayCount + 1 \in Nat
        BY <1>6
      <3> QED BY <3>1, <3>2, Zenon
    <2>4. t = [r EXCEPT !.arrayCount = x, !.maxArrayLength = y]
      BY <1>5, <2>2, <2>3
    <2>5. /\ t \in StatsSet /\ t.depth = r.depth
          /\ t.fieldCount = r.fieldCount /\ t.objectCount = r.objectCount
          /\ t.arrayCount = x /\ t.scalarCount = r.scalarCount
          /\ t.nullCount = r.nullCount /\ t.stringCount = r.stringCount
          /\ t.seenKeys = r.seenKeys /\ t.maxArrayLength = y
          /\ t.maxObjectFields = r.maxObjectFields
          /\ t.maxKeyLength = r.maxKeyLength /\ t.maxStringLength = r.maxStringLength
      <3>1. r \in StatsSet
        BY <1>5
      <3> QED BY <2>4, <3>1 DEF StatsSet
    <2>6. /\ t.arrayCount = s.arrayCount + 1
          /\ t.maxArrayLength = Larger(s.maxArrayLength, Len(v.items))
      BY <1>5, <2>3, <2>5
    <2>7. /\ t.depth = Larger(s.depth, depth) /\ t.seenKeys = s.seenKeys
          /\ t.fieldCount = s.fieldCount + 0 /\ t.objectCount = s.objectCount + 0
          /\ t.scalarCount = s.scalarCount + 0 /\ t.nullCount = s.nullCount + 0
          /\ t.stringCount = s.stringCount + 0 /\ t.maxObjectFields = s.maxObjectFields
          /\ t.maxKeyLength = s.maxKeyLength /\ t.maxStringLength = s.maxStringLength
      BY <1>3, <1>5, <2>5
    <2> QED BY <1>9, <2>5, <2>6, <2>7 DEF Adds
  <1>10. CASE v.kind = "string"
    <2>1. v.len \in Nat
      BY <1>10, SizesType
    <2>2. t = [r EXCEPT !.scalarCount = @ + 1, !.stringCount = @ + 1,
                        !.maxStringLength = Larger(@, v.len)]
      BY <1>1, <1>10 DEF Entered
    <2>3. PICK x \in Nat, y \in Nat, z \in Nat :
            x = r.scalarCount + 1 /\ y = r.stringCount + 1 /\ z = Larger(r.maxStringLength, v.len)
      <3>1. Larger(r.maxStringLength, v.len) \in Nat
        BY <1>2, <1>6, <2>1, Zenon
      <3>2. r.scalarCount + 1 \in Nat /\ r.stringCount + 1 \in Nat
        BY <1>6
      <3> QED BY <3>1, <3>2, Zenon
    <2>4. t = [r EXCEPT !.scalarCount = x, !.stringCount = y, !.maxStringLength = z]
      BY <1>5, <2>2, <2>3
    <2>5. /\ t \in StatsSet /\ t.depth = r.depth
          /\ t.fieldCount = r.fieldCount /\ t.objectCount = r.objectCount
          /\ t.arrayCount = r.arrayCount /\ t.scalarCount = x
          /\ t.nullCount = r.nullCount /\ t.stringCount = y
          /\ t.seenKeys = r.seenKeys /\ t.maxArrayLength = r.maxArrayLength
          /\ t.maxObjectFields = r.maxObjectFields
          /\ t.maxKeyLength = r.maxKeyLength /\ t.maxStringLength = z
      <3>1. r \in StatsSet
        BY <1>5
      <3> QED BY <2>4, <3>1 DEF StatsSet
    <2> QED BY <1>3, <1>5, <1>10, <2>3, <2>5 DEF Adds
  <1>11. CASE v.kind = "null"
    <2>1. t = [r EXCEPT !.scalarCount = @ + 1, !.nullCount = @ + 1]
      BY <1>1, <1>11 DEF Entered
    <2>2. PICK x \in Nat, y \in Nat : x = r.scalarCount + 1 /\ y = r.nullCount + 1
      BY <1>6
    <2>3. t = [r EXCEPT !.scalarCount = x, !.nullCount = y]
      BY <1>5, <2>1, <2>2
    <2>4. /\ t \in StatsSet /\ t.depth = r.depth
          /\ t.fieldCount = r.fieldCount /\ t.objectCount = r.objectCount
          /\ t.arrayCount = r.arrayCount /\ t.scalarCount = x
          /\ t.nullCount = y /\ t.stringCount = r.stringCount
          /\ t.seenKeys = r.seenKeys /\ t.maxArrayLength = r.maxArrayLength
          /\ t.maxObjectFields = r.maxObjectFields
          /\ t.maxKeyLength = r.maxKeyLength /\ t.maxStringLength = r.maxStringLength
      <3>1. r \in StatsSet
        BY <1>5
      <3> QED BY <2>3, <3>1 DEF StatsSet
    <2> QED BY <1>3, <1>5, <1>11, <2>2, <2>4 DEF Adds
  <1>12. CASE v.kind = "scalar"
    <2>1. t = [r EXCEPT !.scalarCount = @ + 1]
      BY <1>1, <1>12 DEF Entered
    <2>2. /\ t \in StatsSet /\ t.depth = r.depth
          /\ t.fieldCount = r.fieldCount /\ t.objectCount = r.objectCount
          /\ t.arrayCount = r.arrayCount /\ t.scalarCount = r.scalarCount + 1
          /\ t.nullCount = r.nullCount /\ t.stringCount = r.stringCount
          /\ t.seenKeys = r.seenKeys /\ t.maxArrayLength = r.maxArrayLength
          /\ t.maxObjectFields = r.maxObjectFields
          /\ t.maxKeyLength = r.maxKeyLength /\ t.maxStringLength = r.maxStringLength
      BY <1>3, <1>5, <2>1 DEF StatsSet
    <2> QED BY <1>3, <1>5, <1>12, <2>2 DEF Adds
  <1> QED BY <1>7, <1>8, <1>9, <1>10, <1>11, <1>12

-----------------------------------------------------------------------------
\* One more value is one more of its kind.
LEMMA OfKindGrows ==
    ASSUME NEW V, IsFiniteSet(V), NEW c, c \notin V, NEW kind
    PROVE  /\ OfKind(V \cup {c}, kind) =
                IF c.value.kind = kind THEN OfKind(V, kind) \cup {c} ELSE OfKind(V, kind)
           /\ Cardinality(OfKind(V \cup {c}, kind)) =
                Cardinality(OfKind(V, kind)) + IF c.value.kind = kind THEN 1 ELSE 0
           /\ Cardinality(OfKind(V, kind)) \in Nat
  <1> DEFINE S == OfKind(V, kind)
  <1>1. S \subseteq V /\ c \notin S
    BY DEF OfKind
  <1>2. IsFiniteSet(S)
    BY <1>1, FS_Subset
  <1>3. Cardinality(S) \in Nat
    BY <1>2, FS_CardinalityType
  <1>4. OfKind(V \cup {c}, kind) = IF c.value.kind = kind THEN S \cup {c} ELSE S
    BY DEF OfKind
  <1>5. Cardinality(S \cup {c}) = Cardinality(S) + 1
    BY <1>1, <1>2, FS_AddElement
  <1> HIDE DEF S
  <1> QED BY <1>3, <1>4, <1>5 DEF S

\* One more value is one more scalar, if it is one.
LEMMA ScalarsGrow ==
    ASSUME NEW V, IsFiniteSet(V), NEW c, c \notin V
    PROVE  /\ Cardinality(Scalars(V \cup {c})) =
                Cardinality(Scalars(V)) + IF c.value.kind \in {"object", "array"} THEN 0 ELSE 1
           /\ Cardinality(Scalars(V)) \in Nat
  <1> DEFINE S == Scalars(V)
  <1>1. S \subseteq V /\ c \notin S
    BY DEF Scalars
  <1>2. IsFiniteSet(S)
    BY <1>1, FS_Subset
  <1>3. Cardinality(S) \in Nat
    BY <1>2, FS_CardinalityType
  <1>4. Scalars(V \cup {c}) = IF c.value.kind \in {"object", "array"} THEN S ELSE S \cup {c}
    BY DEF Scalars, OfKind
  <1>5. Cardinality(S \cup {c}) = Cardinality(S) + 1
    BY <1>1, <1>2, FS_AddElement
  <1> HIDE DEF S
  <1> QED BY <1>3, <1>4, <1>5 DEF S

\* The fields of one object.
FieldsOf(n) == {n.path} \X DOMAIN n.value.members

\* As many as it has keys.
LEMMA FieldsOfObject ==
    ASSUME NEW n \in NodeSet, n.value.kind = "object"
    PROVE  /\ IsFiniteSet(FieldsOf(n)) /\ Cardinality(FieldsOf(n)) = Size(n.value)
           /\ Size(n.value) \in Nat
  <1> DEFINE P == {n.path}
             D == DOMAIN n.value.members
  <1>1. n.value \in Values
    BY DEF NodeSet
  <1>2. IsFiniteSet(D)
    BY <1>1, SizesType
  <1>3. Size(n.value) \in Nat /\ Size(n.value) = Cardinality(D)
    BY <1>1, SizesType DEF Size
  <1>4. IsFiniteSet(P) /\ Cardinality(P) = 1
    BY FS_Singleton
  <1> HIDE DEF P, D
  <1>5. IsFiniteSet(P \X D) /\ Cardinality(P \X D) = Cardinality(P) * Cardinality(D)
    BY <1>2, <1>4, FS_Product
  <1>6. FieldsOf(n) = P \X D
    BY DEF FieldsOf, P, D
  <1> QED BY <1>3, <1>4, <1>5, <1>6

\* The fields of finitely many values are finitely many.
LEMMA FieldsAreFinite ==
    ASSUME NEW V \in FiniteNodes
    PROVE  IsFiniteSet(Fields(V)) /\ Cardinality(Fields(V)) \in Nat
  <1> DEFINE O == OfKind(V, "object")
             All == {FieldsOf(n) : n \in O}
  <1>1. V \subseteq NodeSet /\ IsFiniteSet(V) /\ O \subseteq V
    BY DEF FiniteNodes, OfKind
  <1>2. IsFiniteSet(O)
    BY <1>1, FS_Subset
  <1>3. \A n \in O : IsFiniteSet(FieldsOf(n))
    BY <1>1, FieldsOfObject DEF OfKind
  <1>4. IsFiniteSet(All)
    <2> DEFINE f == [n \in O |-> FieldsOf(n)]
    <2>1. f \in Surjection(O, All)
      BY DEF Surjection
    <2> HIDE DEF f, All, O
    <2> QED BY <1>2, <2>1, FS_Surjection
  <1>5. \A S \in All : IsFiniteSet(S)
    BY <1>3
  <1>6. Fields(V) = UNION All
    BY DEF Fields, FieldsOf
  <1> HIDE DEF All
  <1>7. IsFiniteSet(UNION All)
    BY <1>4, <1>5, FS_UNION
  <1> QED BY <1>6, <1>7, FS_CardinalityType

\* One more object is as many more fields as it has keys.
LEMMA FieldsGrow ==
    ASSUME NEW V \in FiniteNodes, NEW c \in NodeSet, \A m \in V : m.path # c.path
    PROVE  Cardinality(Fields(V \cup {c})) =
             Cardinality(Fields(V)) + IF c.value.kind = "object" THEN Size(c.value) ELSE 0
  <1>1. IsFiniteSet(Fields(V)) /\ Cardinality(Fields(V)) \in Nat
    BY FieldsAreFinite
  <1>2. CASE c.value.kind = "object"
    <2>1. OfKind(V \cup {c}, "object") = OfKind(V, "object") \cup {c}
      BY <1>2 DEF OfKind
    <2>2. Fields(V \cup {c}) = Fields(V) \cup FieldsOf(c)
      BY <2>1 DEF Fields, FieldsOf
    <2>3. Fields(V) \cap FieldsOf(c) = {}
      <3> SUFFICES ASSUME NEW x, x \in Fields(V), x \in FieldsOf(c) PROVE FALSE
        OBVIOUS
      <3>1. PICK m \in OfKind(V, "object") : x \in {m.path} \X DOMAIN m.value.members
        BY DEF Fields
      <3>2. x[1] = m.path /\ x[1] = c.path
        BY <3>1 DEF FieldsOf
      <3> QED BY <3>2 DEF OfKind
    <2>4. /\ IsFiniteSet(FieldsOf(c)) /\ Cardinality(FieldsOf(c)) = Size(c.value)
          /\ Size(c.value) \in Nat
      BY <1>2, FieldsOfObject
    <2> DEFINE F == Fields(V)
               G == FieldsOf(c)
    <2>5. Cardinality(F \cup G) = Cardinality(F) + Cardinality(G) - Cardinality(F \cap G)
      <3> HIDE DEF F, G
      <3>1. IsFiniteSet(F) /\ IsFiniteSet(G)
        BY <1>1, <2>4 DEF F, G
      <3> QED BY <3>1, FS_Union
    <2>6. Cardinality(F \cap G) = 0
      BY <2>3, FS_EmptySet
    <2> HIDE DEF F, G
    <2>7. Cardinality(F \cup G) = Cardinality(F) + Cardinality(G)
      BY <1>1, <2>4, <2>5, <2>6 DEF F, G
    <2> QED BY <1>2, <2>2, <2>4, <2>7 DEF F, G
  <1>3. CASE c.value.kind # "object"
    <2>1. OfKind(V \cup {c}, "object") = OfKind(V, "object")
      BY <1>3 DEF OfKind
    <2>2. Fields(V \cup {c}) = Fields(V)
      BY <2>1 DEF Fields
    <2> QED BY <1>1, <1>3, <2>2
  <1> QED BY <1>2, <1>3

\* The greatest of the numbers of a set of values, with one value more.
LEMMA GreatestGrows ==
    ASSUME NEW S \in SUBSET Nat, NEW m \in Nat, IsGreatest(m, S \cup {0}), NEW x \in Nat, NEW T,
           T = S \cup {x}
    PROVE  IsGreatest(Larger(m, x), T \cup {0})
  <1>1. S \cup {0} \in SUBSET Int /\ m \in Int /\ x \in Int
    OBVIOUS
  <1>2. IsGreatest(Larger(m, x), (S \cup {0}) \cup {x})
    BY <1>1, MaxWithOneMore
  <1>3. T \cup {0} = (S \cup {0}) \cup {x}
    OBVIOUS
  <1> QED BY <1>2, <1>3, Zenon

\* The numbers of values in documents.
LEMMA NumbersType ==
    ASSUME NEW V \in FiniteNodes
    PROVE  /\ Depths(V) \in SUBSET Nat /\ Lengths(V) \in SUBSET Nat
           /\ Sizes(V) \in SUBSET Nat /\ StringLengths(V) \in SUBSET Nat
  <1>1. \A n \in V : n \in NodeSet /\ n.value \in Values /\ n.path \in Seq(AllSteps)
    BY DEF FiniteNodes, NodeSet
  <1>2. Depths(V) \in SUBSET Nat
    <2>1. \A n \in V : Len(n.path) \in Nat
      BY <1>1, LenProperties
    <2>2. \A n \in V : Len(n.path) + 1 \in Nat
      BY <2>1
    <2> QED BY <2>2 DEF Depths
  <1>3. Lengths(V) \in SUBSET Nat
    BY <1>1, SizesType DEF Lengths, OfKind
  <1>4. Sizes(V) \in SUBSET Nat
    BY <1>1, SizesType DEF Sizes, OfKind
  <1>5. StringLengths(V) \in SUBSET Nat
    BY <1>1, SizesType DEF StringLengths, OfKind
  <1> QED BY <1>2, <1>3, <1>4, <1>5

\* The statistics after a visit are those of the values with the visited one.
LEMMA TallyNode ==
    ASSUME NEW V \in FiniteNodes, NEW K, NEW s, Tally(V, K, s),
           NEW c \in NodeSet, \A m \in V : m.path # c.path
    PROVE  Tally(V \cup {c}, K, Entered(s, c.value, Len(c.path) + 1))
  <1> DEFINE v == c.value
             depth == Len(c.path) + 1
             W == V \cup {c}
  <1>1. v \in Values /\ depth \in Nat /\ s \in StatsSet
    BY LenProperties DEF NodeSet, Tally
  <1>2. PICK t : t = Entered(s, v, depth)
    OBVIOUS
  <1>3. Adds(s, v, depth, t)
    BY <1>1, <1>2, EnteredAdds
  <1>4. IsFiniteSet(V) /\ c \notin V
    BY DEF FiniteNodes
  <1>5. /\ s.depth \in Nat /\ s.maxArrayLength \in Nat /\ s.maxObjectFields \in Nat
        /\ s.maxStringLength \in Nat
    BY <1>1 DEF StatsSet
  <1>6. IsGreatest(t.depth, Depths(W) \cup {0})
    <2>1. Depths(W) = Depths(V) \cup {depth}
      BY DEF Depths
    <2>2. Depths(V) \in SUBSET Nat /\ IsGreatest(s.depth, Depths(V) \cup {0})
      BY NumbersType DEF Tally
    <2>3. t.depth = Larger(s.depth, depth)
      BY <1>3 DEF Adds
    <2> HIDE DEF depth, W
    <2> QED BY <1>1, <1>5, <2>1, <2>2, <2>3, GreatestGrows
  <1>7. t.fieldCount = Cardinality(Fields(W))
    <2>1. t.fieldCount = s.fieldCount + IF v.kind = "object" THEN Size(v) ELSE 0
      BY <1>3 DEF Adds
    <2>2. s.fieldCount = Cardinality(Fields(V))
      BY DEF Tally
    <2>3. Cardinality(Fields(W)) =
            Cardinality(Fields(V)) + IF v.kind = "object" THEN Size(v) ELSE 0
      BY FieldsGrow
    <2> QED BY <2>1, <2>2, <2>3, Zenon
  <1>8. \A kind : Cardinality(OfKind(W, kind)) =
                   Cardinality(OfKind(V, kind)) + IF v.kind = kind THEN 1 ELSE 0
    BY <1>4, OfKindGrows
  <1>9. t.objectCount = Cardinality(OfKind(W, "object"))
    <2>1. t.objectCount = s.objectCount + IF v.kind = "object" THEN 1 ELSE 0
      BY <1>3 DEF Adds
    <2>2. s.objectCount = Cardinality(OfKind(V, "object"))
      BY DEF Tally
    <2> QED BY <1>8, <2>1, <2>2, Zenon
  <1>10. t.arrayCount = Cardinality(OfKind(W, "array"))
    <2>1. t.arrayCount = s.arrayCount + IF v.kind = "array" THEN 1 ELSE 0
      BY <1>3 DEF Adds
    <2>2. s.arrayCount = Cardinality(OfKind(V, "array"))
      BY DEF Tally
    <2> QED BY <1>8, <2>1, <2>2, Zenon
  <1>11. t.scalarCount = Cardinality(Scalars(W))
    BY <1>3, <1>4, ScalarsGrow DEF Adds, Tally
  <1>12. t.nullCount = Cardinality(OfKind(W, "null"))
    <2>1. t.nullCount = s.nullCount + IF v.kind = "null" THEN 1 ELSE 0
      BY <1>3 DEF Adds
    <2>2. s.nullCount = Cardinality(OfKind(V, "null"))
      BY DEF Tally
    <2> QED BY <1>8, <2>1, <2>2, Zenon
  <1>13. t.stringCount = Cardinality(OfKind(W, "string"))
    <2>1. t.stringCount = s.stringCount + IF v.kind = "string" THEN 1 ELSE 0
      BY <1>3 DEF Adds
    <2>2. s.stringCount = Cardinality(OfKind(V, "string"))
      BY DEF Tally
    <2> QED BY <1>8, <2>1, <2>2, Zenon
  <1>14. IsGreatest(t.maxArrayLength, Lengths(W) \cup {0})
    <2>1. /\ IsGreatest(s.maxArrayLength, Lengths(V) \cup {0}) /\ Lengths(V) \in SUBSET Nat
      BY NumbersType DEF Tally
    <2>2. CASE v.kind = "array"
      <3>1. Lengths(W) = Lengths(V) \cup {Len(v.items)} /\ Len(v.items) \in Nat
        BY <1>1, <2>2, SizesType DEF Lengths, OfKind
      <3>2. t.maxArrayLength = Larger(s.maxArrayLength, Len(v.items))
        BY <1>3, <2>2 DEF Adds
      <3> HIDE DEF v, W
      <3>3. IsGreatest(Larger(s.maxArrayLength, Len(v.items)), Lengths(W) \cup {0})
        BY <1>5, <2>1, <3>1, GreatestGrows, Zenon
      <3> QED BY <3>2, <3>3, Zenon
    <2>3. CASE v.kind # "array"
      <3>1. Lengths(W) = Lengths(V)
        BY <2>3 DEF Lengths, OfKind
      <3> QED BY <1>3, <2>1, <2>3, <3>1 DEF Adds
    <2> QED BY <2>2, <2>3
  <1>15. IsGreatest(t.maxObjectFields, Sizes(W) \cup {0})
    <2>1. /\ IsGreatest(s.maxObjectFields, Sizes(V) \cup {0}) /\ Sizes(V) \in SUBSET Nat
      BY NumbersType DEF Tally
    <2>2. CASE v.kind = "object"
      <3>1. Sizes(W) = Sizes(V) \cup {Size(v)} /\ Size(v) \in Nat
        BY <1>1, <2>2, SizesType DEF Sizes, OfKind
      <3>2. t.maxObjectFields = Larger(s.maxObjectFields, Size(v))
        BY <1>3, <2>2 DEF Adds
      <3> HIDE DEF v, W
      <3>3. IsGreatest(Larger(s.maxObjectFields, Size(v)), Sizes(W) \cup {0})
        BY <1>5, <2>1, <3>1, GreatestGrows, Zenon
      <3> QED BY <3>2, <3>3, Zenon
    <2>3. CASE v.kind # "object"
      <3>1. Sizes(W) = Sizes(V)
        BY <2>3 DEF Sizes, OfKind
      <3> QED BY <1>3, <2>1, <2>3, <3>1 DEF Adds
    <2> QED BY <2>2, <2>3
  <1>16. IsGreatest(t.maxStringLength, StringLengths(W) \cup {0})
    <2>1. /\ IsGreatest(s.maxStringLength, StringLengths(V) \cup {0})
          /\ StringLengths(V) \in SUBSET Nat
      BY NumbersType DEF Tally
    <2>2. CASE v.kind = "string"
      <3>1. StringLengths(W) = StringLengths(V) \cup {v.len} /\ v.len \in Nat
        BY <1>1, <2>2, SizesType DEF StringLengths, OfKind
      <3>2. t.maxStringLength = Larger(s.maxStringLength, v.len)
        BY <1>3, <2>2 DEF Adds
      <3> HIDE DEF v, W
      <3>3. IsGreatest(Larger(s.maxStringLength, v.len), StringLengths(W) \cup {0})
        BY <1>5, <2>1, <3>1, GreatestGrows, Zenon
      <3> QED BY <3>2, <3>3, Zenon
    <2>3. CASE v.kind # "string"
      <3>1. StringLengths(W) = StringLengths(V)
        BY <2>3 DEF StringLengths, OfKind
      <3> QED BY <1>3, <2>1, <2>3, <3>1 DEF Adds
    <2> QED BY <2>2, <2>3
  <1>17. /\ t \in StatsSet /\ t.seenKeys = K
         /\ IsGreatest(t.maxKeyLength, KeyLengths(K) \cup {0})
    BY <1>3 DEF Adds, Tally
  <1> HIDE DEF W, v, depth
  <1>18. Tally(W, K, t)
    BY <1>6, <1>7, <1>9, <1>10, <1>11, <1>12, <1>13, <1>14, <1>15, <1>16, <1>17 DEF Tally
  <1> QED BY <1>2, <1>18 DEF W, v, depth

-----------------------------------------------------------------------------
\* Statistics that are nowhere more than others.
NoMoreThan(s, t) ==
    /\ s.seenKeys \subseteq t.seenKeys
    /\ \A field \in DOMAIN NoStats \ {"seenKeys"} : s[field] <= t[field]

\* The greatest number of a larger set.
LEMMA GreatestOfMore ==
    ASSUME NEW S, NEW T, S \subseteq T, NEW m \in Nat, NEW n \in Nat,
           IsGreatest(m, S \cup {0}), IsGreatest(n, T \cup {0})
    PROVE  m <= n
  BY DEF IsGreatest

\* A part of a finite set has no more elements.
LEMMA CountOfMore ==
    ASSUME NEW T, IsFiniteSet(T), NEW S, S \subseteq T
    PROVE  /\ Cardinality(S) <= Cardinality(T)
           /\ Cardinality(S) \in Nat /\ Cardinality(T) \in Nat
  <1>1. IsFiniteSet(S) /\ Cardinality(S) <= Cardinality(T)
    BY FS_Subset
  <1> QED BY <1>1, FS_CardinalityType

\* Fewer values and keys do not have more of anything.
LEMMA TallyGrows ==
    ASSUME NEW W \in FiniteNodes, NEW V \in SUBSET W, NEW J, NEW K \in SUBSET J,
           NEW s, NEW t, Tally(V, K, s), Tally(W, J, t)
    PROVE  NoMoreThan(s, t)
  <1>1. s \in StatsSet /\ t \in StatsSet
    BY DEF Tally
  <1>2. /\ s.depth \in Nat /\ s.maxArrayLength \in Nat /\ s.maxObjectFields \in Nat
        /\ s.maxKeyLength \in Nat /\ s.maxStringLength \in Nat
        /\ t.depth \in Nat /\ t.maxArrayLength \in Nat /\ t.maxObjectFields \in Nat
        /\ t.maxKeyLength \in Nat /\ t.maxStringLength \in Nat
    BY <1>1 DEF StatsSet
  <1>3. \A kind : OfKind(V, kind) \subseteq OfKind(W, kind)
    BY DEF OfKind
  <1>4. IsFiniteSet(W) /\ \A kind : OfKind(W, kind) \subseteq W
    BY DEF FiniteNodes, OfKind
  <1>5. \A kind : Cardinality(OfKind(V, kind)) <= Cardinality(OfKind(W, kind))
    <2> TAKE kind
    <2>1. IsFiniteSet(OfKind(W, kind))
      BY <1>4, FS_Subset
    <2> QED BY <1>3, <2>1, CountOfMore
  <1>6. Cardinality(Scalars(V)) <= Cardinality(Scalars(W))
    <2>1. Scalars(W) \subseteq W /\ Scalars(V) \subseteq Scalars(W)
      BY DEF Scalars, OfKind
    <2>2. IsFiniteSet(Scalars(W))
      BY <1>4, <2>1, FS_Subset
    <2> QED BY <2>1, <2>2, CountOfMore
  <1>7. Cardinality(Fields(V)) <= Cardinality(Fields(W))
    <2>1. Fields(V) \subseteq Fields(W)
      BY <1>3 DEF Fields
    <2> QED BY <2>1, FieldsAreFinite, CountOfMore
  <1>8. /\ Depths(V) \subseteq Depths(W) /\ Lengths(V) \subseteq Lengths(W)
        /\ Sizes(V) \subseteq Sizes(W) /\ StringLengths(V) \subseteq StringLengths(W)
        /\ KeyLengths(K) \subseteq KeyLengths(J)
    BY <1>3 DEF Depths, Lengths, Sizes, StringLengths, KeyLengths
  <1>9. s.depth <= t.depth
    BY <1>2, <1>8, GreatestOfMore DEF Tally
  <1>10. s.maxArrayLength <= t.maxArrayLength
    BY <1>2, <1>8, GreatestOfMore DEF Tally
  <1>11. s.maxObjectFields <= t.maxObjectFields
    BY <1>2, <1>8, GreatestOfMore DEF Tally
  <1>12. s.maxKeyLength <= t.maxKeyLength
    BY <1>2, <1>8, GreatestOfMore DEF Tally
  <1>13. s.maxStringLength <= t.maxStringLength
    BY <1>2, <1>8, GreatestOfMore DEF Tally
  <1>14. /\ s.fieldCount <= t.fieldCount /\ s.objectCount <= t.objectCount
         /\ s.arrayCount <= t.arrayCount /\ s.scalarCount <= t.scalarCount
         /\ s.nullCount <= t.nullCount /\ s.stringCount <= t.stringCount
         /\ s.seenKeys \subseteq t.seenKeys
    BY <1>5, <1>6, <1>7, Zenon DEF Tally
  <1>15. DOMAIN NoStats \ {"seenKeys"} =
           {"depth", "fieldCount", "objectCount", "arrayCount", "scalarCount", "nullCount",
            "stringCount", "maxArrayLength", "maxObjectFields", "maxKeyLength", "maxStringLength"}
    BY DEF NoStats
  <1>16. ASSUME NEW field \in DOMAIN NoStats \ {"seenKeys"} PROVE s[field] <= t[field]
    BY <1>9, <1>10, <1>11, <1>12, <1>13, <1>14, <1>15
  <1> QED BY <1>14, <1>16 DEF NoMoreThan

\* The statistics of values and keys are determined.
LEMMA TallyIsUnique ==
    ASSUME NEW V, NEW K, NEW s, NEW t, Tally(V, K, s), Tally(V, K, t)
    PROVE  s = t
  <1>1. s \in StatsSet /\ t \in StatsSet
    BY DEF Tally
  <1>2. \A m \in Nat, n \in Nat : \A S : IsGreatest(m, S) /\ IsGreatest(n, S) => m = n
    BY DEF IsGreatest
  <1>3. /\ s.depth \in Nat /\ s.maxArrayLength \in Nat /\ s.maxObjectFields \in Nat
        /\ s.maxKeyLength \in Nat /\ s.maxStringLength \in Nat
        /\ t.depth \in Nat /\ t.maxArrayLength \in Nat /\ t.maxObjectFields \in Nat
        /\ t.maxKeyLength \in Nat /\ t.maxStringLength \in Nat
    BY <1>1 DEF StatsSet
  <1>4. /\ s.depth = t.depth /\ s.maxArrayLength = t.maxArrayLength
        /\ s.maxObjectFields = t.maxObjectFields /\ s.maxKeyLength = t.maxKeyLength
        /\ s.maxStringLength = t.maxStringLength
    <2>1. s.depth = t.depth
      <3>1. IsGreatest(s.depth, Depths(V) \cup {0}) /\ IsGreatest(t.depth, Depths(V) \cup {0})
        BY DEF Tally
      <3> QED BY <1>2, <1>3, <3>1, Zenon
    <2>2. s.maxArrayLength = t.maxArrayLength
      <3>1. /\ IsGreatest(s.maxArrayLength, Lengths(V) \cup {0})
            /\ IsGreatest(t.maxArrayLength, Lengths(V) \cup {0})
        BY DEF Tally
      <3> QED BY <1>2, <1>3, <3>1, Zenon
    <2>3. s.maxObjectFields = t.maxObjectFields
      <3>1. /\ IsGreatest(s.maxObjectFields, Sizes(V) \cup {0})
            /\ IsGreatest(t.maxObjectFields, Sizes(V) \cup {0})
        BY DEF Tally
      <3> QED BY <1>2, <1>3, <3>1, Zenon
    <2>4. s.maxKeyLength = t.maxKeyLength
      <3>1. /\ IsGreatest(s.maxKeyLength, KeyLengths(K) \cup {0})
            /\ IsGreatest(t.maxKeyLength, KeyLengths(K) \cup {0})
        BY DEF Tally
      <3> QED BY <1>2, <1>3, <3>1, Zenon
    <2>5. s.maxStringLength = t.maxStringLength
      <3>1. /\ IsGreatest(s.maxStringLength, StringLengths(V) \cup {0})
            /\ IsGreatest(t.maxStringLength, StringLengths(V) \cup {0})
        BY DEF Tally
      <3> QED BY <1>2, <1>3, <3>1, Zenon
    <2> QED BY <2>1, <2>2, <2>3, <2>4, <2>5
  <1>5. /\ s.fieldCount = t.fieldCount /\ s.objectCount = t.objectCount
        /\ s.arrayCount = t.arrayCount /\ s.scalarCount = t.scalarCount
        /\ s.nullCount = t.nullCount /\ s.stringCount = t.stringCount
        /\ s.seenKeys = t.seenKeys
    BY Zenon DEF Tally
  <1> QED BY <1>1, <1>4, <1>5 DEF StatsSet

\* The keys of a document are finitely many.
LEMMA KeysAreFinite ==
    ASSUME NEW V \in FiniteNodes
    PROVE  IsFiniteSet(Keys(V))
  <1> DEFINE O == OfKind(V, "object")
             All == {DOMAIN n.value.members : n \in O}
  <1>1. V \subseteq NodeSet /\ IsFiniteSet(V) /\ O \subseteq V
    BY DEF FiniteNodes, OfKind
  <1>2. IsFiniteSet(O)
    BY <1>1, FS_Subset
  <1>3. \A n \in O : IsFiniteSet(DOMAIN n.value.members)
    BY <1>1, SizesType DEF OfKind, NodeSet
  <1>4. IsFiniteSet(All)
    <2> DEFINE f == [n \in O |-> DOMAIN n.value.members]
    <2>1. f \in Surjection(O, All)
      BY DEF Surjection
    <2> HIDE DEF f, All, O
    <2> QED BY <1>2, <2>1, FS_Surjection
  <1>5. \A S \in All : IsFiniteSet(S)
    BY <1>3
  <1>6. Keys(V) = UNION All
    BY DEF Keys
  <1> HIDE DEF All
  <1> QED BY <1>4, <1>5, <1>6, FS_UNION

\* Largest gives the greatest of finitely many numbers of a finite set.
LEMMA LargestOfImage ==
    ASSUME NEW S, IsFiniteSet(S), NEW f, NEW T \in SUBSET Nat, T = {f[x] : x \in S}
    PROVE  Largest(T) \in Nat /\ IsGreatest(Largest(T), T \cup {0})
  <1> DEFINE g == [x \in S |-> f[x]]
  <1>1. g \in Surjection(S, T)
    BY DEF Surjection
  <1> HIDE DEF g
  <1>2. IsFiniteSet(T)
    BY <1>1, FS_Surjection
  <1> QED BY <1>2, LargestExists

\* Statistics is the tally of the whole document.
LEMMA StatisticsTally ==
    ASSUME NEW d \in Documents
    PROVE  Tally(Nodes(d), Keys(Nodes(d)), Statistics(d))
  <1> DEFINE N == Nodes(d)
             K == Keys(N)
             s == Statistics(d)
  <1>1. IsTree(N, d) /\ N \in FiniteNodes /\ d \in Values
    BY NodesAreATree DEF IsTree
  <1>2. IsFiniteSet(N) /\ \A kind : OfKind(N, kind) \subseteq N
    BY <1>1 DEF FiniteNodes, OfKind
  <1>3. \A kind : IsFiniteSet(OfKind(N, kind)) /\ Cardinality(OfKind(N, kind)) \in Nat
    BY <1>2, FS_Subset, FS_CardinalityType
  <1>4. Cardinality(Scalars(N)) \in Nat
    <2>1. Scalars(N) \subseteq N
      BY DEF Scalars
    <2> QED BY <1>2, <2>1, CountOfMore
  <1>5. Cardinality(Fields(N)) \in Nat
    BY <1>1, FieldsAreFinite
  <1>6. K \in SUBSET AllSteps /\ \A key \in K : KeyLength(key) \in Nat
    BY <1>1, KeysAreOfDocument
  <1>7. /\ Depths(N) \in SUBSET Nat /\ Lengths(N) \in SUBSET Nat
        /\ Sizes(N) \in SUBSET Nat /\ StringLengths(N) \in SUBSET Nat
        /\ KeyLengths(K) \in SUBSET Nat
    BY <1>1, <1>6, NumbersType DEF KeyLengths
  <1> DEFINE Good(T) == Largest(T) \in Nat /\ IsGreatest(Largest(T), T \cup {0})
  <1>8. Good(Depths(N))
    <2> DEFINE f == [n \in N |-> Len(n.path) + 1]
    <2>1. Depths(N) = {f[n] : n \in N}
      BY DEF Depths
    <2>2. IsFiniteSet(N) /\ Depths(N) \in SUBSET Nat
      BY <1>2, <1>7
    <2>3. PICK T : T = Depths(N)
      OBVIOUS
    <2>4. Good(T)
      <3>1. T = {f[n] : n \in N} /\ T \in SUBSET Nat
        BY <2>1, <2>2, <2>3
      <3> HIDE DEF f, N
      <3> QED BY <2>2, <3>1, LargestOfImage
    <2> QED BY <2>3, <2>4, Zenon
  <1>9. Good(Lengths(N))
    <2> DEFINE O == OfKind(N, "array")
               f == [n \in O |-> Len(n.value.items)]
    <2>1. Lengths(N) = {f[n] : n \in O} /\ IsFiniteSet(O)
      BY <1>3 DEF Lengths
    <2>2. PICK T : T = Lengths(N)
      OBVIOUS
    <2>3. Good(T)
      <3>1. T = {f[n] : n \in O} /\ T \in SUBSET Nat /\ IsFiniteSet(O)
        BY <1>7, <2>1, <2>2
      <3> HIDE DEF f, N, O
      <3> QED BY <3>1, LargestOfImage
    <2> QED BY <2>2, <2>3, Zenon
  <1>10. Good(Sizes(N))
    <2> DEFINE O == OfKind(N, "object")
               f == [n \in O |-> Size(n.value)]
    <2>1. Sizes(N) = {f[n] : n \in O} /\ IsFiniteSet(O)
      BY <1>3 DEF Sizes
    <2>2. PICK T : T = Sizes(N)
      OBVIOUS
    <2>3. Good(T)
      <3>1. T = {f[n] : n \in O} /\ T \in SUBSET Nat /\ IsFiniteSet(O)
        BY <1>7, <2>1, <2>2
      <3> HIDE DEF f, N, O
      <3> QED BY <3>1, LargestOfImage
    <2> QED BY <2>2, <2>3, Zenon
  <1>11. Good(StringLengths(N))
    <2> DEFINE O == OfKind(N, "string")
               f == [n \in O |-> n.value.len]
    <2>1. StringLengths(N) = {f[n] : n \in O} /\ IsFiniteSet(O)
      BY <1>3 DEF StringLengths
    <2>2. PICK T : T = StringLengths(N)
      OBVIOUS
    <2>3. Good(T)
      <3>1. T = {f[n] : n \in O} /\ T \in SUBSET Nat /\ IsFiniteSet(O)
        BY <1>7, <2>1, <2>2
      <3> HIDE DEF f, N, O
      <3> QED BY <3>1, LargestOfImage
    <2> QED BY <2>2, <2>3, Zenon
  <1>12. Good(KeyLengths(K))
    <2> DEFINE f == [key \in K |-> KeyLength(key)]
    <2>1. KeyLengths(K) = {f[key] : key \in K}
      BY DEF KeyLengths
    <2>2. IsFiniteSet(K)
      BY <1>1, KeysAreFinite
    <2>3. PICK T : T = KeyLengths(K)
      OBVIOUS
    <2>4. Good(T)
      <3>1. T = {f[key] : key \in K} /\ T \in SUBSET Nat
        BY <1>7, <2>1, <2>3
      <3> HIDE DEF f, N, K
      <3> QED BY <2>2, <3>1, LargestOfImage
    <2> QED BY <2>3, <2>4, Zenon
  <1>13. s = [depth |-> Largest(Depths(N)),
              fieldCount |-> Cardinality(Fields(N)),
              objectCount |-> Cardinality(OfKind(N, "object")),
              arrayCount |-> Cardinality(OfKind(N, "array")),
              scalarCount |-> Cardinality(Scalars(N)),
              nullCount |-> Cardinality(OfKind(N, "null")),
              stringCount |-> Cardinality(OfKind(N, "string")),
              seenKeys |-> K,
              maxArrayLength |-> Largest(Lengths(N)),
              maxObjectFields |-> Largest(Sizes(N)),
              maxKeyLength |-> Largest(KeyLengths(K)),
              maxStringLength |-> Largest(StringLengths(N))]
    BY DEF Statistics, Depths, Lengths, Sizes, StringLengths, KeyLengths, Scalars
  <1> HIDE DEF N, K, s
  <1>14. /\ s.depth = Largest(Depths(N))
         /\ s.fieldCount = Cardinality(Fields(N))
         /\ s.objectCount = Cardinality(OfKind(N, "object"))
         /\ s.arrayCount = Cardinality(OfKind(N, "array"))
         /\ s.scalarCount = Cardinality(Scalars(N))
         /\ s.nullCount = Cardinality(OfKind(N, "null"))
         /\ s.stringCount = Cardinality(OfKind(N, "string"))
         /\ s.seenKeys = K
         /\ s.maxArrayLength = Largest(Lengths(N))
         /\ s.maxObjectFields = Largest(Sizes(N))
         /\ s.maxKeyLength = Largest(KeyLengths(K))
         /\ s.maxStringLength = Largest(StringLengths(N))
    BY <1>13
  <1>15. s \in StatsSet
    BY <1>3, <1>4, <1>5, <1>6, <1>8, <1>9, <1>10, <1>11, <1>12, <1>13 DEF StatsSet
  <1>16. Tally(N, K, s)
    BY <1>8, <1>9, <1>10, <1>11, <1>12, <1>14, <1>15, Zenon DEF Tally
  <1> QED BY <1>16 DEF N, K, s

-----------------------------------------------------------------------------
\* A frame of the loop over the parts of a value.
FrameOf(frame, value) ==
    /\ frame.kind = value.kind /\ value.kind \in {"object", "array"}
    /\ value.kind = "object" => /\ DOMAIN frame.left \subseteq DOMAIN value.members
                               /\ \A key \in DOMAIN frame.left :
                                    frame.left[key] = value.members[key]
    /\ value.kind = "array" =>
         /\ frame.left \in Seq(Values) /\ Len(frame.left) <= Len(value.items)
         /\ \A j \in 1 .. Len(frame.left) :
              frame.left[j] = value.items[Len(value.items) - Len(frame.left) + j]

\* The steps it has left.
StepsLeft(frame, value) ==
    IF value.kind = "object" THEN DOMAIN frame.left
    ELSE {j \in 1 .. Len(value.items) : j > Len(value.items) - Len(frame.left)}

\* At first all steps are left.
LEMMA FrameBegins ==
    ASSUME NEW v \in Values, v.kind \in {"object", "array"}, NEW depth, NEW f, f = Frame(v, depth)
    PROVE  FrameOf(f, v) /\ StepsLeft(f, v) = Steps(v)
  <1>1. CASE v.kind = "object"
    <2>1. f.kind = "object" /\ f.left = v.members
      BY <1>1 DEF Frame
    <2> QED BY <1>1, <2>1 DEF FrameOf, StepsLeft, Steps
  <1>2. CASE v.kind = "array"
    <2>1. f.kind = "array" /\ f.left = v.items
      BY <1>2 DEF Frame
    <2>2. Steps(v) = 1 .. Len(v.items) /\ v.items \in Seq(Values) /\ Len(v.items) \in Nat
      BY <1>2, StepsType, SizesType
    <2>3. FrameOf(f, v)
      BY <1>2, <2>1, <2>2 DEF FrameOf
    <2>4. StepsLeft(f, v) = Steps(v)
      BY <1>2, <2>1, <2>2 DEF StepsLeft
    <2> QED BY <2>3, <2>4
  <1> QED BY <1>1, <1>2

\* At last none.
LEMMA FrameEnds ==
    ASSUME NEW v \in Values, NEW f, FrameOf(f, v), DOMAIN f.left = {}
    PROVE  StepsLeft(f, v) = {}
  <1>1. CASE v.kind = "object"
    BY <1>1 DEF StepsLeft
  <1>2. CASE v.kind = "array"
    <2>1. f.left \in Seq(Values)
      BY <1>2 DEF FrameOf
    <2>2. Len(f.left) = 0
      <3>1. Len(f.left) \in Nat /\ DOMAIN f.left = 1 .. Len(f.left)
        BY <2>1, LenProperties
      <3>2. 1 .. Len(f.left) = {}
        BY <3>1
      <3> QED BY <3>1, <3>2
    <2>3. Len(v.items) \in Nat
      BY <1>2, SizesType
    <2> QED BY <1>2, <2>2, <2>3 DEF StepsLeft
  <1> QED BY <1>1, <1>2 DEF FrameOf

\* A step of a loop over a map.
LEMMA TakesMember ==
    ASSUME NEW v \in Values, NEW f, FrameOf(f, v), f.kind = "object", NEW key \in DOMAIN f.left,
           NEW g, g.kind = "object", DOMAIN g.left = DOMAIN f.left \ {key},
           \A i \in DOMAIN g.left : g.left[i] = f.left[i]
    PROVE  /\ FrameOf(g, v) /\ StepsLeft(g, v) = StepsLeft(f, v) \ {key}
           /\ v.kind = "object" /\ key \in StepsLeft(f, v) /\ key \in Steps(v)
           /\ Part(v, key) = f.left[key]
  BY DEF FrameOf, StepsLeft, Steps, Part

\* A step of a loop over an array.
LEMMA TakesItem ==
    ASSUME NEW v \in Values, NEW f, FrameOf(f, v), f.kind = "array", f.left # <<>>,
           NEW g, g.kind = "array", g.left = Tail(f.left)
    PROVE  \E j \in StepsLeft(f, v) :
             /\ FrameOf(g, v) /\ StepsLeft(g, v) = StepsLeft(f, v) \ {j}
             /\ v.kind = "array" /\ j \in Steps(v) /\ Part(v, j) = Head(f.left)
  <1> DEFINE n == Len(v.items)
             l == Len(f.left)
             j == n - l + 1
  <1>1. /\ v.kind = "array" /\ f.left \in Seq(Values) /\ l <= n
        /\ \A i \in 1 .. l : f.left[i] = v.items[n - l + i]
    BY DEF FrameOf
  <1>2. n \in Nat /\ Steps(v) = 1 .. n
    BY <1>1, StepsType, SizesType
  <1>3. /\ l \in Nat \ {0} /\ Head(f.left) = f.left[1]
        /\ Tail(f.left) \in Seq(Values) /\ Len(Tail(f.left)) = l - 1
        /\ \A i \in 1 .. l - 1 : Tail(f.left)[i] = f.left[i + 1]
    BY <1>1
  <1> HIDE DEF n, l
  <1>4. j \in 1 .. n /\ j > n - l
    BY <1>1, <1>2, <1>3
  <1>5. j \in StepsLeft(f, v)
    BY <1>1, <1>4 DEF StepsLeft, n, l
  <1>6. Part(v, j) = Head(f.left)
    <2>1. f.left[1] = v.items[n - l + 1]
      BY <1>1, <1>3
    <2> QED BY <1>1, <1>3, <2>1 DEF Part
  <1>7. FrameOf(g, v)
    <2>1. g.left \in Seq(Values) /\ Len(g.left) = l - 1
      BY <1>3
    <2>2. \A i \in 1 .. l - 1 : g.left[i] = v.items[n - (l - 1) + i]
      <3> TAKE i \in 1 .. l - 1
      <3>1. i + 1 \in 1 .. l /\ n - l + (i + 1) = n - (l - 1) + i
        BY <1>2, <1>3
      <3> QED BY <1>1, <1>3, <3>1
    <2>3. l - 1 <= n
      BY <1>1, <1>2, <1>3
    <2> QED BY <1>1, <2>1, <2>2, <2>3 DEF FrameOf, n
  <1>8. StepsLeft(g, v) = StepsLeft(f, v) \ {j}
    <2>1. Len(g.left) = l - 1
      BY <1>3
    <2>2. StepsLeft(g, v) = {i \in 1 .. n : i > n - (l - 1)}
      BY <1>1, <2>1 DEF StepsLeft, n
    <2>3. StepsLeft(f, v) = {i \in 1 .. n : i > n - l}
      BY <1>1 DEF StepsLeft, n, l
    <2> QED BY <1>2, <1>3, <2>2, <2>3
  <1> QED BY <1>1, <1>2, <1>4, <1>5, <1>6, <1>7, <1>8

-----------------------------------------------------------------------------
\* The walk has visited V and is in the loops of at[1], at[2], ..., and the
\* statistics are those of what it has visited.
Follows(V, at) ==
    /\ Tracks(Nodes(doc), doc, V, at,
              [i \in 1 .. Len(stack) |-> StepsLeft(stack[i], at[i].value)], Len(stack))
    /\ \A i \in 1 .. Len(stack) : FrameOf(stack[i], at[i].value)
    /\ Tally(V, SeenKeys(V), stats)

\* The invariant that relates the walk to the document.
WalkInv ==
    /\ err = "running" /\ stack = <<>> => stats = NoStats
    /\ err = "running" /\ stack # <<>> => \E V, at : Follows(V, at)
    /\ NoMoreThan(stats, Statistics(doc))
    /\ err = "depth" => Statistics(doc).depth > maxDepth
    /\ err = "fields" => stats.fieldCount > maxFields
    /\ err = "nil" => stats = Statistics(doc)

\* The statistics of a walk that has visited V are nowhere more than those of
\* the document, and the same when it has visited everything.
LEMMA TallyOfDocument ==
    ASSUME NEW d \in Documents, NEW V \in SUBSET Nodes(d), NEW K \in SUBSET Keys(Nodes(d)),
           NEW s, Tally(V, K, s)
    PROVE  /\ NoMoreThan(s, Statistics(d)) /\ Statistics(d) \in StatsSet
           /\ V = Nodes(d) /\ K = Keys(Nodes(d)) => s = Statistics(d)
           /\ \A n \in Nodes(d) : Statistics(d).depth >= Len(n.path) + 1
  <1> DEFINE N == Nodes(d)
             K0 == Keys(N)
             t == Statistics(d)
  <1>1. N \in FiniteNodes
    BY NodesAreATree DEF IsTree
  <1>2. Tally(N, K0, t)
    BY StatisticsTally
  <1> HIDE DEF N, t, K0
  <1>3. V \in SUBSET N /\ K \in SUBSET K0
    BY DEF N, K0
  <1>4. NoMoreThan(s, t)
    BY <1>1, <1>2, <1>3, TallyGrows
  <1>5. V = N /\ K = K0 => s = t
    BY <1>2, TallyIsUnique
  <1>6. \A n \in N : t.depth >= Len(n.path) + 1
    BY <1>2 DEF Tally, IsGreatest, Depths
  <1>7. t \in StatsSet
    BY <1>2 DEF Tally
  <1> QED BY <1>4, <1>5, <1>6, <1>7 DEF N, t, K0

\* What a call makes of the statistics.
LEMMA EnterCounts ==
    ASSUME NEW N, N = Nodes(doc), doc \in Documents, maxDepth \in Nat, maxFields \in Nat,
           NEW V \in SUBSET N, NEW c \in N, \A m \in V : m.path # c.path,
           NEW K \in SUBSET Keys(N), NEW s, Tally(V, K, s),
           NEW below, NEW depth, depth = Len(c.path) + 1,
           Enter(c.value, depth, below, s), UNCHANGED <<doc, maxDepth, maxFields>>
    PROVE  /\ NoMoreThan(stats', Statistics(doc))
           /\ err' = "depth" => Statistics(doc).depth > maxDepth
           /\ err' = "fields" => stats'.fieldCount > maxFields
           /\ err' \in {"depth", "fields"}
                \/ /\ Tally(V \cup {c}, K, stats')
                   /\ stack' = IF c.value.kind \in {"object", "array"}
                               THEN Append(below, Frame(c.value, depth)) ELSE below
                   /\ err' = IF stack' = <<>> THEN "nil" ELSE "running"
  <1>1. N \in FiniteNodes /\ N \subseteq NodeSet
    BY NodesAreATree DEF IsTree, FiniteNodes
  <1>2. V \in FiniteNodes /\ c \in NodeSet
    <2>1. IsFiniteSet(V)
      BY <1>1, FS_Subset DEF FiniteNodes
    <2> QED BY <1>1, <2>1 DEF FiniteNodes
  <1>3. depth \in Nat
    BY <1>2, LenProperties DEF NodeSet
  <1>4. CASE TooDeep(depth)
    <2>1. stats' = s /\ err' = "depth"
      BY <1>4 DEF Enter
    <2>2. /\ NoMoreThan(s, Statistics(doc)) /\ Statistics(doc) \in StatsSet
          /\ Statistics(doc).depth >= depth
      BY TallyOfDocument
    <2>3. Statistics(doc).depth \in Nat
      BY <2>2 DEF StatsSet
    <2> QED BY <1>3, <1>4, <2>1, <2>2, <2>3 DEF TooDeep
  <1>5. CASE ~TooDeep(depth)
    <2>1. PICK t : t = Entered(s, c.value, depth)
      OBVIOUS
    <2>2. Tally(V \cup {c}, K, t)
      BY <1>2, <2>1, TallyNode
    <2>3. NoMoreThan(t, Statistics(doc))
      BY <2>2, TallyOfDocument
    <2>4. stats' = t
      BY <1>5, <2>1 DEF Enter
    <2>5. CASE c.value.kind = "object" /\ TooMany(t.fieldCount)
      <3>1. err' = "fields"
        BY <1>5, <2>1, <2>5 DEF Enter
      <3> QED BY <2>3, <2>4, <2>5, <3>1 DEF TooMany
    <2>6. CASE ~(c.value.kind = "object" /\ TooMany(t.fieldCount))
      <3>1. /\ stack' = IF c.value.kind \in {"object", "array"}
                        THEN Append(below, Frame(c.value, depth)) ELSE below
            /\ err' = IF stack' = <<>> THEN "nil" ELSE "running"
        BY <1>5, <2>1, <2>6 DEF Enter
      <3> QED BY <2>2, <2>3, <2>4, <3>1
    <2> QED BY <2>5, <2>6
  <1> QED BY <1>4, <1>5

\* A call from the innermost loop, for the step it has taken.
LEMMA CallKeeps ==
    ASSUME Inv, err = "running", stack # <<>>,
           NEW V, NEW at, Follows(V, at), NEW k, k = Len(stack),
           NEW step \in StepsLeft(Top, at[k].value), NEW c, c = PartNode(at[k], step),
           NEW f \in Frames, f.depth = k, FrameOf(f, at[k].value),
           StepsLeft(f, at[k].value) = StepsLeft(Top, at[k].value) \ {step},
           NEW s, Tally(V, SeenKeys(V \cup {c}), s),
           Enter(c.value, k + 1, Append(Below, f), s), UNCHANGED <<doc, maxDepth, maxFields>>
    PROVE  WalkInv'
  <1> DEFINE N == Nodes(doc)
             L == [i \in 1 .. k |-> StepsLeft(stack[i], at[i].value)]
             W == V \cup {c}
             below == Append(Below, f)
  <1>1. /\ doc \in Documents /\ doc \in Values /\ maxDepth \in Nat /\ maxFields \in Nat
        /\ IsTree(N, doc) /\ Stacked(stack) /\ k \in Nat \ {0} /\ Top = stack[k]
    <2>1. k \in Nat \ {0}
      BY PopFrame DEF Inv
    <2> QED BY <2>1, NodesAreATree DEF Inv, Top
  <1>2. /\ Tracks(N, doc, V, at, L, k)
        /\ \A i \in 1 .. k : FrameOf(stack[i], at[i].value)
    BY DEF Follows
  <1>3. step \in L[k]
    BY <1>1
  <1>4. /\ at[k] \in V /\ at[k] \in NodeSet /\ at[k] \in N /\ step \in Steps(at[k].value)
        /\ c \in N /\ c \in NodeSet /\ Len(c.path) = k /\ c \notin V
        /\ \A m \in V : m.path # c.path
    <2> HIDE DEF L, N
    <2>1. Takes(N, doc, V, at, L, k, step)
      BY <1>1, <1>2, <1>3 DEF Takes
    <2> QED BY <2>1, VisitsNewNode
  <1>5. V \subseteq N /\ W \subseteq N
    BY <1>2, <1>4 DEF Tracks
  <1>6. SeenKeys(W) \in SUBSET Keys(N)
    BY <1>1, <1>5, KeysAreOfDocument
  <1>7. /\ NoMoreThan(stats', Statistics(doc))
        /\ err' = "depth" => Statistics(doc).depth > maxDepth
        /\ err' = "fields" => stats'.fieldCount > maxFields
        /\ err' \in {"depth", "fields"}
             \/ /\ Tally(W, SeenKeys(W), stats')
                /\ stack' = IF c.value.kind \in {"object", "array"}
                            THEN Append(below, Frame(c.value, k + 1)) ELSE below
                /\ err' = IF stack' = <<>> THEN "nil" ELSE "running"
    <2>1. Enter(c.value, k + 1, below, s)
      OBVIOUS
    <2> HIDE DEF below
    <2>2. V \in SUBSET N /\ k + 1 = Len(c.path) + 1 /\ Tally(V, SeenKeys(W), s)
      BY <1>4, <1>5
    <2> HIDE DEF W
    <2>3. PICK K : K = SeenKeys(W)
      OBVIOUS
    <2>4. PICK depth : depth = k + 1
      OBVIOUS
    <2>5. /\ NoMoreThan(stats', Statistics(doc))
          /\ err' = "depth" => Statistics(doc).depth > maxDepth
          /\ err' = "fields" => stats'.fieldCount > maxFields
          /\ err' \in {"depth", "fields"}
               \/ /\ Tally(V \cup {c}, K, stats')
                  /\ stack' = IF c.value.kind \in {"object", "array"}
                              THEN Append(below, Frame(c.value, depth)) ELSE below
                  /\ err' = IF stack' = <<>> THEN "nil" ELSE "running"
      BY <1>1, <1>4, <1>6, <2>1, <2>2, <2>3, <2>4, EnterCounts
    <2> QED BY <2>3, <2>4, <2>5 DEF W
  <1>8. doc' = doc /\ maxDepth' = maxDepth /\ maxFields' = maxFields
    OBVIOUS
  <1>9. CASE err' \in {"depth", "fields"}
    BY <1>7, <1>8, <1>9 DEF WalkInv
  <1>10. CASE err' \notin {"depth", "fields"}
    <2>1. /\ Tally(W, SeenKeys(W), stats')
          /\ stack' = IF c.value.kind \in {"object", "array"}
                      THEN Append(below, Frame(c.value, k + 1)) ELSE below
          /\ err' = IF stack' = <<>> THEN "nil" ELSE "running"
      BY <1>7, <1>10
    <2>2. /\ below \in Seq(Frames) /\ Len(below) = k /\ below[k] = f
          /\ \A i \in 1 .. k - 1 : below[i] = stack[i]
      <3>1. Stacked(Below) /\ Len(Below) = k - 1
        BY <1>1, PopFrame DEF Below
      <3>2. \A i \in 1 .. k - 1 : Below[i] = stack[i]
        BY <1>1 DEF Below, Stacked
      <3>3. Below \in Seq(Frames)
        BY <3>1 DEF Stacked
      <3> HIDE DEF W, L, N
      <3> QED BY <1>1, <3>1, <3>2, <3>3
    <2> HIDE DEF below
    <2>3. PICK at2 : at2 = [i \in 1 .. k + 1 |-> IF i <= k THEN at[i] ELSE c]
      OBVIOUS
    <2>4. /\ \A i \in 1 .. k : at2[i] = at[i]
          /\ at2[k + 1] = c
      BY <1>1, <2>3
    <2>5. PICK k2 : k2 = Len(stack')
      OBVIOUS
    <2>6. c.value \in Values
      BY <1>4 DEF NodeSet
    <2>7. /\ k2 \in {k, k + 1} /\ stack' # <<>>
          /\ \A i \in 1 .. k : stack'[i] = below[i]
          /\ k2 = k => Steps(c.value) = {}
          /\ k2 = k + 1 => /\ FrameOf(stack'[k2], c.value)
                           /\ StepsLeft(stack'[k2], c.value) = Steps(c.value)
      <3>1. CASE c.value.kind \in {"object", "array"}
        <4>1. PICK g : g = Frame(c.value, k + 1)
          OBVIOUS
        <4>2. FrameOf(g, c.value) /\ StepsLeft(g, c.value) = Steps(c.value)
          BY <2>6, <3>1, <4>1, FrameBegins
        <4>3. stack' = Append(below, g)
          BY <2>1, <3>1, <4>1
        <4>4. /\ Len(Append(below, g)) = k + 1 /\ Append(below, g)[k + 1] = g
              /\ \A i \in 1 .. k : Append(below, g)[i] = below[i]
          BY <1>1, <2>2
        <4>5. stack' # <<>>
          BY <1>1, <4>3, <4>4
        <4> QED BY <1>1, <2>5, <4>2, <4>3, <4>4, <4>5
      <3>2. CASE c.value.kind \notin {"object", "array"}
        <4>1. Steps(c.value) = {}
          BY <2>6, <3>2, StepsType
        <4>2. stack' = below
          BY <2>1, <3>2
        <4>3. below # <<>>
          BY <1>1, <2>2
        <4> QED BY <1>1, <2>2, <2>5, <4>1, <4>2, <4>3
      <3> QED BY <3>1, <3>2
    <2>8. PICK L2 : L2 = [i \in 1 .. k2 |-> StepsLeft(stack'[i], at2[i].value)]
      OBVIOUS
    <2>9. \A i \in 1 .. k : L2[i] = IF i = k THEN L[k] \ {step} ELSE L[i]
      <3> TAKE i \in 1 .. k
      <3>1. i \in 1 .. k2
        BY <1>1, <2>7
      <3>2. L2[i] = StepsLeft(below[i], at[i].value)
        BY <2>4, <2>7, <2>8, <3>1
      <3>3. CASE i = k
        BY <1>1, <2>2, <3>2, <3>3
      <3>4. CASE i # k
        <4>1. i \in 1 .. k - 1
          BY <1>1, <3>4
        <4> QED BY <2>2, <3>2, <3>4, <4>1
      <3> QED BY <3>3, <3>4
    <2>10. k2 = k + 1 => at2[k2] = c /\ L2[k2] = Steps(c.value)
      <3> SUFFICES ASSUME k2 = k + 1 PROVE at2[k2] = c /\ L2[k2] = Steps(c.value)
        OBVIOUS
      <3>1. k2 \in 1 .. k2 /\ at2[k2] = c
        BY <1>1, <2>4
      <3> QED BY <2>7, <2>8, <3>1
    <2>11. Tracks(N, doc, W, at2, L2, k2)
      <3> HIDE DEF N, L
      <3>1. k2 = k => Steps(c.value) = {}
        BY <2>7
      <3>2. k2 \in {k, k + 1}
        BY <2>7
      <3>3. Takes(N, doc, V, at, L, k, step)
        BY <1>1, <1>2, <1>3, Zenon DEF Takes
      <3>4. Called(at, L, k, step, c, at2, L2, k2)
        BY <2>4, <2>9, <2>10, <3>1, <3>2, Zenon DEF Called
      <3> QED BY <3>3, <3>4, VisitTracks, Zenon
    <2>12. \A i \in 1 .. k2 : FrameOf(stack'[i], at2[i].value)
      <3> TAKE i \in 1 .. k2
      <3>1. CASE i \in 1 .. k - 1
        <4>1. i \in 1 .. k
          BY <1>1, <3>1
        <4> QED BY <1>2, <2>2, <2>4, <2>7, <3>1, <4>1
      <3>2. CASE i = k
        <4>1. i \in 1 .. k
          BY <1>1, <3>2
        <4> QED BY <2>2, <2>4, <2>7, <3>2, <4>1
      <3>3. CASE i = k + 1 /\ k2 = k + 1
        BY <2>4, <2>7, <3>3
      <3>4. i \in 1 .. k - 1 \/ i = k \/ (i = k + 1 /\ k2 = k + 1)
        BY <1>1, <2>7
      <3> QED BY <3>1, <3>2, <3>3, <3>4
    <2>13. Follows(W, at2)'
      <3> HIDE DEF W, L
      <3>1. Tracks(N, doc, W, at2,
                   [i \in 1 .. Len(stack') |-> StepsLeft(stack'[i], at2[i].value)], Len(stack'))
        BY <2>5, <2>8, <2>11, Zenon
      <3>2. Nodes(doc') = N /\ doc' = doc
        BY <1>8
      <3> HIDE DEF N
      <3> QED BY <2>1, <2>5, <2>12, <3>1, <3>2, Zenon DEF Follows
    <2>14. err' = "running"
      BY <2>1, <2>7
    <2>15. \E V2, at3 : Follows(V2, at3)'
      <3> HIDE DEF W
      <3> QED BY <2>13
    <2> QED BY <1>7, <1>8, <2>7, <2>14, <2>15 DEF WalkInv
  <1> QED BY <1>9, <1>10

\* The call on the payload.
LEMMA StartKeeps ==
    ASSUME Inv, WalkInv, Start
    PROVE  WalkInv'
  <1> DEFINE N == Nodes(doc)
             W == {Root(doc)}
  <1>1. /\ doc \in Documents /\ doc \in Values /\ maxDepth \in Nat /\ maxFields \in Nat
        /\ IsTree(N, doc)
    BY NodesAreATree DEF Inv
  <1>2. /\ Root(doc) \in N /\ Root(doc) \in NodeSet
        /\ Len(Root(doc).path) = 0 /\ Root(doc).value = doc
    BY <1>1, RootType DEF IsTree
  <1>3. /\ Enter(doc, 1, <<>>, stats) /\ stats = NoStats
        /\ doc' = doc /\ maxDepth' = maxDepth /\ maxFields' = maxFields
    BY DEF Start, WalkInv
  <1>4. SeenKeys(W) = {}
    BY <1>1, KeysAreOfDocument
  <1>5. PICK c, s, below, depth, V, K :
          /\ c = Root(doc) /\ s = NoStats /\ below = <<>> /\ depth = 1 /\ V = {} /\ K = {}
    OBVIOUS
  <1>6. Enter(c.value, depth, below, s) /\ depth = Len(c.path) + 1
    BY <1>2, <1>3, <1>5
  <1>7. Tally(V, K, s)
    BY <1>5, TallyNothing
  <1>8. V \in SUBSET N /\ K \in SUBSET Keys(N) /\ c \in N /\ \A m \in V : m.path # c.path
    BY <1>2, <1>5
  <1>9. /\ NoMoreThan(stats', Statistics(doc))
        /\ err' = "depth" => Statistics(doc).depth > maxDepth
        /\ err' = "fields" => stats'.fieldCount > maxFields
        /\ err' \in {"depth", "fields"}
             \/ /\ Tally(V \cup {c}, K, stats')
                /\ stack' = IF c.value.kind \in {"object", "array"}
                            THEN Append(below, Frame(c.value, depth)) ELSE below
                /\ err' = IF stack' = <<>> THEN "nil" ELSE "running"
    BY <1>1, <1>3, <1>6, <1>7, <1>8, EnterCounts
  <1>10. CASE err' \in {"depth", "fields"}
    BY <1>3, <1>9, <1>10 DEF WalkInv
  <1>11. CASE err' \notin {"depth", "fields"}
    <2>1. /\ Tally(W, SeenKeys(W), stats')
          /\ stack' = IF doc.kind \in {"object", "array"}
                      THEN Append(<<>>, Frame(doc, 1)) ELSE <<>>
          /\ err' = IF stack' = <<>> THEN "nil" ELSE "running"
      <3>1. V \cup {c} = W /\ K = SeenKeys(W)
        BY <1>4, <1>5
      <3> HIDE DEF W
      <3> QED BY <1>2, <1>5, <1>9, <1>11, <3>1
    <2>2. CASE doc.kind \in {"object", "array"}
      <3>1. PICK g : g = Frame(doc, 1)
        OBVIOUS
      <3>2. FrameOf(g, doc) /\ StepsLeft(g, doc) = Steps(doc)
        BY <1>1, <2>2, <3>1, FrameBegins
      <3>3. stack' = <<g>> /\ Len(stack') = 1 /\ stack'[1] = g /\ stack' # <<>>
        BY <2>1, <2>2, <3>1
      <3>4. PICK at : at = [i \in 1 .. 1 |-> Root(doc)]
        OBVIOUS
      <3>5. PICK L : L = [i \in 1 .. Len(stack') |-> StepsLeft(stack'[i], at[i].value)]
        OBVIOUS
      <3>6. at[1] = Root(doc) /\ L[1] = Steps(doc)
        <4>1. 1 \in 1 .. Len(stack') /\ at[1] = Root(doc)
          BY <3>3, <3>4
        <4> QED BY <1>2, <3>2, <3>3, <3>5, <4>1
      <3>7. Tracks(N, doc, W, at, L, 1)
        <4> HIDE DEF N
        <4> QED BY <1>1, <3>6, TracksFromRoot
      <3>8. \A i \in 1 .. 1 : FrameOf(stack'[i], at[i].value)
        BY <1>2, <3>2, <3>3, <3>6
      <3>9. Follows(W, at)'
        <4>1. W' = W /\ Nodes(doc') = N /\ doc' = doc
          BY <1>3
        <4> HIDE DEF W, N
        <4> QED BY <2>1, <3>3, <3>5, <3>7, <3>8, <4>1, Zenon DEF Follows
      <3>10. \E V2, at2 : Follows(V2, at2)'
        <4>1. W' = W
          BY <1>3
        <4> HIDE DEF W
        <4> QED BY <3>9, <4>1, Zenon DEF Follows
      <3>11. err' = "running"
        BY <2>1, <3>3
      <3> QED BY <1>3, <1>9, <3>3, <3>10, <3>11 DEF WalkInv
    <2>3. CASE doc.kind \notin {"object", "array"}
      <3>1. stack' = <<>> /\ err' = "nil"
        BY <2>1, <2>3
      <3>2. Steps(doc) = {}
        BY <1>1, <2>3, StepsType
      <3>3. PICK at, L, k : at = <<>> /\ L = <<>> /\ k = 0
        OBVIOUS
      <3>4. Tracks(N, doc, W, at, L, k)
        <4> HIDE DEF N
        <4> QED BY <1>1, <3>2, <3>3, TracksFromRoot
      <3>5. W = N
        <4> HIDE DEF N, W
        <4> QED BY <1>1, <3>3, <3>4, DoneTracks
      <3>6. SeenKeys(N) = Keys(N)
        BY <1>1, KeysAreOfDocument
      <3>7. Tally(N, Keys(N), stats')
        <4> HIDE DEF N, W
        <4> QED BY <2>1, <3>5, <3>6
      <3>8. stats' = Statistics(doc)
        BY <1>1, <3>7, TallyOfDocument
      <3> QED BY <1>3, <1>9, <3>1, <3>8 DEF WalkInv
    <2> QED BY <2>2, <2>3
  <1> QED BY <1>10, <1>11

\* The facts about the innermost loop that its steps use.
LEMMA InnermostLoop ==
    ASSUME Inv, stack # <<>>, NEW V, NEW at, Follows(V, at)
    PROVE  /\ Len(stack) \in Nat \ {0} /\ Top = stack[Len(stack)]
           /\ Top \in Frames /\ Top.depth = Len(stack)
           /\ at[Len(stack)] \in NodeSet /\ at[Len(stack)].value \in Values
           /\ FrameOf(Top, at[Len(stack)].value)
           /\ doc \in Documents /\ doc \in Values /\ IsTree(Nodes(doc), doc)
           /\ V \subseteq Nodes(doc)
  <1>1. /\ Len(stack) \in Nat \ {0} /\ Top = stack[Len(stack)]
        /\ Top \in Frames /\ Top.depth = Len(stack)
    BY PopFrame DEF Inv, Top
  <1>2. doc \in Documents /\ doc \in Values /\ IsTree(Nodes(doc), doc)
    BY NodesAreATree DEF Inv
  <1>3. Len(stack) \in 1 .. Len(stack)
    BY <1>1
  <1>4. FrameOf(Top, at[Len(stack)].value)
    BY <1>1, <1>3 DEF Follows
  <1>5. at[Len(stack)] \in V /\ V \subseteq Nodes(doc)
    BY <1>3 DEF Follows, Tracks
  <1>6. at[Len(stack)] \in NodeSet
    BY <1>2, <1>5 DEF IsTree, FiniteNodes
  <1> QED BY <1>1, <1>2, <1>4, <1>5, <1>6 DEF NodeSet

\* An iteration of a loop over a map.
LEMMA NextMemberKeeps ==
    ASSUME Inv, WalkInv, NextMember
    PROVE  WalkInv'
  <1>1. /\ err = "running" /\ stack # <<>> /\ Top.kind = "object"
        /\ UNCHANGED <<doc, maxDepth, maxFields>>
    BY DEF NextMember
  <1>2. PICK key \in DOMAIN Top.left :
          Enter(Top.left[key], Top.depth + 1,
                With([i \in DOMAIN Top.left \ {key} |-> Top.left[i]]),
                [stats EXCEPT !.seenKeys = @ \cup {key},
                              !.maxKeyLength = Larger(@, KeyLength(key))])
    BY DEF NextMember
  <1>3. PICK V, at : Follows(V, at)
    BY <1>1 DEF WalkInv
  <1>4. PICK k : k = Len(stack)
    OBVIOUS
  <1> DEFINE v == at[k].value
             N == Nodes(doc)
  <1>5. /\ k \in Nat \ {0} /\ Top = stack[k] /\ Top \in Frames /\ Top.depth = k
        /\ at[k] \in NodeSet /\ v \in Values /\ FrameOf(Top, v)
        /\ doc \in Documents /\ doc \in Values /\ IsTree(N, doc) /\ V \subseteq N
    BY <1>1, <1>3, <1>4, InnermostLoop
  <1>6. PICK f : f = [Top EXCEPT !.left = [i \in DOMAIN Top.left \ {key} |-> Top.left[i]]]
    OBVIOUS
  <1>7. Top.left \in Maps
    BY <1>1, <1>5 DEF Frames
  <1>8. /\ f \in Frames /\ f.depth = k /\ f.kind = "object"
        /\ f.left = [i \in DOMAIN Top.left \ {key} |-> Top.left[i]]
    <2>1. PICK left : left = [i \in DOMAIN Top.left \ {key} |-> Top.left[i]]
      OBVIOUS
    <2>2. left \in Maps
      <3>1. PICK keys : /\ keys \in SUBSET UNION {DOMAIN w.members : w \in Values}
                        /\ Top.left \in [keys -> Values]
        BY <1>7 DEF Maps
      <3>2. /\ keys \ {key} \in SUBSET UNION {DOMAIN w.members : w \in Values}
            /\ left \in [keys \ {key} -> Values]
        BY <2>1, <3>1
      <3> QED BY <3>2 DEF Maps
    <2>3. f = [Top EXCEPT !.left = left]
      BY <1>6, <2>1
    <2>4. f \in Frames /\ f.depth = k /\ f.kind = "object" /\ f.left = left
      BY <1>1, <1>5, <2>2, <2>3 DEF Frames
    <2> QED BY <2>1, <2>4
  <1>9. /\ FrameOf(f, v) /\ StepsLeft(f, v) = StepsLeft(Top, v) \ {key}
        /\ v.kind = "object" /\ key \in StepsLeft(Top, v) /\ key \in Steps(v)
        /\ Part(v, key) = Top.left[key]
    <2>1. /\ DOMAIN f.left = DOMAIN Top.left \ {key}
          /\ \A i \in DOMAIN f.left : f.left[i] = Top.left[i]
      BY <1>8, Zenon
    <2> HIDE DEF v
    <2> QED BY <1>1, <1>5, <1>8, <2>1, TakesMember
  <1>10. PICK c : c = PartNode(at[k], key)
    OBVIOUS
  <1>11. c.value = Top.left[key]
    BY <1>5, <1>9, <1>10, PartNodeType
  <1>12. PICK s : s = WithKey(stats, key)
    OBVIOUS
  <1>13. Enter(c.value, k + 1, Append(Below, f), s)
    BY <1>2, <1>5, <1>6, <1>11, <1>12 DEF With, WithKey
  <1>14. SeenKeys(V \cup {c}) = SeenKeys(V) \cup {key}
    <2>1. PICK L : L = [i \in 1 .. k |-> StepsLeft(stack[i], at[i].value)]
      OBVIOUS
    <2>2. Tracks(N, doc, V, at, L, k)
      BY <1>3, <1>4, <2>1 DEF Follows
    <2>3. key \in L[k]
      BY <1>5, <1>9, <2>1
    <2>4. v.kind = "object"
      BY <1>9
    <2> HIDE DEF N
    <2>5. Takes(N, doc, V, at, L, k, key)
      BY <1>5, <2>2, <2>3, Zenon DEF Takes
    <2>6. AddsKey(V, PartNode(at[k], key), v, key)
      BY <2>5, KeysGrow, Zenon
    <2> QED BY <1>10, <2>4, <2>6 DEF AddsKey
  <1>15. Tally(V, SeenKeys(V \cup {c}), s)
    <2>1. key \in AllSteps /\ KeyLength(key) \in Nat
      BY <1>5, <1>9, StepsType, ValuesAssumption
    <2>2. \A x \in SeenKeys(V) : KeyLength(x) \in Nat
      BY <1>5, KeysAreOfDocument
    <2>3. Tally(V, SeenKeys(V), stats)
      BY <1>3 DEF Follows
    <2>4. Tally(V, SeenKeys(V) \cup {key}, WithKey(stats, key))
      BY <2>1, <2>2, <2>3, TallyKey
    <2> QED BY <1>12, <1>14, <2>4, Zenon
  <1> QED BY <1>1, <1>3, <1>4, <1>8, <1>9, <1>10, <1>13, <1>15, CallKeeps

\* An iteration of a loop over an array.
LEMMA NextItemKeeps ==
    ASSUME Inv, WalkInv, NextItem
    PROVE  WalkInv'
  <1>1. /\ err = "running" /\ stack # <<>> /\ Top.kind = "array" /\ Top.left # <<>>
        /\ UNCHANGED <<doc, maxDepth, maxFields>>
        /\ Enter(Head(Top.left), Top.depth + 1, With(Tail(Top.left)), stats)
    BY DEF NextItem
  <1>2. PICK V, at : Follows(V, at)
    BY <1>1 DEF WalkInv
  <1>3. PICK k : k = Len(stack)
    OBVIOUS
  <1> DEFINE v == at[k].value
             N == Nodes(doc)
  <1>4. /\ k \in Nat \ {0} /\ Top = stack[k] /\ Top \in Frames /\ Top.depth = k
        /\ at[k] \in NodeSet /\ v \in Values /\ FrameOf(Top, v)
        /\ doc \in Documents /\ doc \in Values /\ IsTree(N, doc) /\ V \subseteq N
    BY <1>1, <1>2, <1>3, InnermostLoop
  <1>5. PICK f : f = [Top EXCEPT !.left = Tail(Top.left)]
    OBVIOUS
  <1>6. f \in Frames /\ f.depth = k /\ f.kind = "array" /\ f.left = Tail(Top.left)
    <2>1. Top.left \in Seq(Values)
      BY <1>1, <1>4 DEF Frames
    <2>2. PICK left : left = Tail(Top.left)
      OBVIOUS
    <2>3. left \in Seq(Values)
      BY <1>1, <2>1, <2>2
    <2>4. f = [Top EXCEPT !.left = left]
      BY <1>5, <2>2
    <2>5. f \in Frames /\ f.depth = k /\ f.kind = "array" /\ f.left = left
      BY <1>1, <1>4, <2>3, <2>4 DEF Frames
    <2> QED BY <2>2, <2>5
  <1>7. PICK j \in StepsLeft(Top, v) :
          /\ FrameOf(f, v) /\ StepsLeft(f, v) = StepsLeft(Top, v) \ {j}
          /\ v.kind = "array" /\ j \in Steps(v) /\ Part(v, j) = Head(Top.left)
    <2> HIDE DEF v
    <2> QED BY <1>1, <1>4, <1>6, TakesItem
  <1>8. PICK c : c = PartNode(at[k], j)
    OBVIOUS
  <1>9. c.value = Head(Top.left)
    BY <1>4, <1>7, <1>8, PartNodeType
  <1>10. Enter(c.value, k + 1, Append(Below, f), stats)
    BY <1>1, <1>4, <1>5, <1>9 DEF With
  <1>11. SeenKeys(V \cup {c}) = SeenKeys(V)
    <2>1. PICK L : L = [i \in 1 .. k |-> StepsLeft(stack[i], at[i].value)]
      OBVIOUS
    <2>2. Tracks(N, doc, V, at, L, k)
      BY <1>2, <1>3, <2>1 DEF Follows
    <2>3. j \in L[k]
      BY <1>4, <1>7, <2>1
    <2>4. v.kind # "object"
      BY <1>7
    <2> HIDE DEF N
    <2>5. Takes(N, doc, V, at, L, k, j)
      BY <1>4, <2>2, <2>3, Zenon DEF Takes
    <2>6. AddsKey(V, PartNode(at[k], j), v, j)
      BY <2>5, KeysGrow, Zenon
    <2> QED BY <1>8, <2>4, <2>6 DEF AddsKey
  <1>12. PICK s : s = stats
    OBVIOUS
  <1>13. Tally(V, SeenKeys(V \cup {c}), s) /\ Enter(c.value, k + 1, Append(Below, f), s)
    BY <1>2, <1>10, <1>11, <1>12 DEF Follows
  <1> QED BY <1>1, <1>2, <1>3, <1>6, <1>7, <1>8, <1>13, CallKeeps

\* The end of a loop.
LEMMA ReturnKeeps ==
    ASSUME Inv, WalkInv, Return
    PROVE  WalkInv'
  <1>1. /\ err = "running" /\ stack # <<>> /\ DOMAIN Top.left = {}
        /\ stack' = Below /\ err' = IF stack' = <<>> THEN "nil" ELSE "running"
        /\ doc' = doc /\ maxDepth' = maxDepth /\ maxFields' = maxFields /\ stats' = stats
    BY DEF Return
  <1>2. PICK V, at : Follows(V, at)
    BY <1>1 DEF WalkInv
  <1>3. PICK k : k = Len(stack)
    OBVIOUS
  <1> DEFINE N == Nodes(doc)
  <1>4. /\ k \in Nat \ {0} /\ Top = stack[k] /\ at[k].value \in Values
        /\ FrameOf(Top, at[k].value)
        /\ doc \in Documents /\ doc \in Values /\ IsTree(N, doc) /\ V \subseteq N
    BY <1>1, <1>2, <1>3, InnermostLoop
  <1>5. PICK L, L2 : /\ L = [i \in 1 .. k |-> StepsLeft(stack[i], at[i].value)]
                     /\ L2 = [i \in 1 .. k - 1 |-> StepsLeft(stack'[i], at[i].value)]
    OBVIOUS
  <1>6. Tracks(N, doc, V, at, L, k) /\ L[k] = {}
    <2>1. StepsLeft(Top, at[k].value) = {}
      BY <1>1, <1>4, FrameEnds
    <2> QED BY <1>2, <1>3, <1>4, <1>5, <2>1 DEF Follows
  <1>7. Len(stack') = k - 1 /\ \A i \in 1 .. k - 1 : stack'[i] = stack[i]
    <2>1. Len(Below) = k - 1
      BY <1>1, <1>3, PopFrame DEF Below, Inv
    <2>2. \A i \in 1 .. k - 1 : Below[i] = stack[i]
      BY <1>3, <1>4 DEF Below, Inv, Stacked
    <2> QED BY <1>1, <2>1, <2>2
  <1>8. \A i \in 1 .. k - 1 : L2[i] = L[i] /\ i \in 1 .. k
    BY <1>4, <1>5, <1>7
  <1>9. Tracks(N, doc, V, at, L2, k - 1)
    <2> HIDE DEF N
    <2> QED BY <1>4, <1>6, <1>8, ReturnTracks
  <1>10. NoMoreThan(stats', Statistics(doc'))
    BY <1>1 DEF WalkInv
  <1>11. CASE stack' = <<>>
    <2>1. k - 1 = 0 /\ err' = "nil"
      BY <1>1, <1>4, <1>7, <1>11
    <2>2. V = N
      <3> HIDE DEF N
      <3> QED BY <1>4, <1>9, <2>1, DoneTracks
    <2>3. SeenKeys(N) = Keys(N)
      BY <1>4, KeysAreOfDocument
    <2>4. Tally(N, Keys(N), stats)
      BY <1>2, <2>2, <2>3 DEF Follows
    <2>5. stats = Statistics(doc)
      BY <1>4, <2>4, TallyOfDocument
    <2> QED BY <1>1, <1>10, <2>1, <2>5 DEF WalkInv
  <1>12. CASE stack' # <<>>
    <2>1. err' = "running"
      BY <1>1, <1>12
    <2>2. \A i \in 1 .. k - 1 : FrameOf(stack'[i], at[i].value)
      BY <1>2, <1>3, <1>7, <1>8 DEF Follows
    <2>3. Follows(V, at)'
      <3>1. /\ Nodes(doc') = N /\ Len(stack') = k - 1
            /\ L2 = [i \in 1 .. Len(stack') |-> StepsLeft(stack'[i], at[i].value)]
        BY <1>1, <1>5, <1>7
      <3>2. Tally(V, SeenKeys(V), stats')
        BY <1>1, <1>2 DEF Follows
      <3> HIDE DEF N
      <3> QED BY <1>1, <1>9, <2>2, <3>1, <3>2, Zenon DEF Follows
    <2>4. \E V2, at2 : Follows(V2, at2)'
      BY <2>3
    <2> QED BY <1>10, <1>12, <2>1, <2>4 DEF WalkInv
  <1> QED BY <1>11, <1>12

\* Whatever the order in which the maps are ranged over, the walk follows the
\* document.
THEOREM WalkFollowsDocument == Spec => [](Inv /\ WalkInv)
  <1>1. Init => WalkInv
    <2> SUFFICES ASSUME Init PROVE WalkInv
      OBVIOUS
    <2>1. doc \in Documents /\ stack = <<>> /\ stats = NoStats /\ err = "running"
      BY DEF Init
    <2>2. NoMoreThan(stats, Statistics(doc))
      <3>1. {} \in SUBSET Nodes(doc) /\ {} \in SUBSET Keys(Nodes(doc))
        OBVIOUS
      <3> QED BY <2>1, <3>1, TallyNothing, TallyOfDocument
    <2> QED BY <2>1, <2>2 DEF WalkInv
  <1>2. Inv /\ WalkInv /\ [Next]_vars => WalkInv'
    <2> SUFFICES ASSUME Inv, WalkInv, [Next]_vars PROVE WalkInv'
      OBVIOUS
    <2>1. CASE Start
      BY <2>1, StartKeeps
    <2>2. CASE NextMember
      BY <2>2, NextMemberKeeps
    <2>3. CASE NextItem
      BY <2>3, NextItemKeeps
    <2>4. CASE Return
      BY <2>4, ReturnKeeps
    <2>5. CASE UNCHANGED vars
      BY <2>5 DEF vars, WalkInv, Follows
    <2> QED BY <2>1, <2>2, <2>3, <2>4, <2>5 DEF Next
  <1> QED BY <1>1, <1>2, WalkInvariant, PTL DEF Spec

\* walkJSONComplexity: whether it comes through depends on the document alone,
\* and the error names a limit the document passes, in whatever order the maps
\* are ranged over.
THEOREM LimitsDependOnDocument == Spec => []LimitIffOver
  <1>1. Inv /\ WalkInv => LimitIffOver
    <2> SUFFICES ASSUME Inv, WalkInv PROVE LimitIffOver
      OBVIOUS
    <2>1. PICK s : s = Statistics(doc)
      OBVIOUS
    <2>2. doc \in Documents /\ maxFields \in Nat
      BY DEF Inv
    <2>3. Statistics(doc) \in StatsSet
      BY <2>2, StatisticsTally DEF Tally
    <2>4. s.fieldCount \in Nat
      BY <2>1, <2>3 DEF StatsSet
    <2>5. err = "depth" => s.depth > maxDepth
      BY <2>1 DEF WalkInv
    <2>6. err = "fields" => s.fieldCount > maxFields
      <3> SUFFICES ASSUME err = "fields" PROVE s.fieldCount > maxFields
        OBVIOUS
      <3>1. stats.fieldCount > maxFields /\ stats.fieldCount \in Nat
        BY DEF WalkInv, Inv, Ended
      <3>2. stats.fieldCount <= s.fieldCount
        BY <2>1 DEF WalkInv, NoMoreThan, NoStats
      <3> QED BY <2>2, <2>4, <3>1, <3>2
    <2>7. err = "nil" => s.depth <= maxDepth /\ s.fieldCount <= maxFields
      BY <2>1 DEF WalkInv, Inv, Within
    <2>8. LimitIffOver
      BY <2>1, <2>5, <2>6, <2>7 DEF LimitIffOver
    <2> QED BY <2>8
  <1> QED BY <1>1, WalkFollowsDocument, PTL

\* walkJSONComplexity: a complete walk reports the statistics of the document,
\* and one that gave up never more.
THEOREM StatsAreTrue == Spec => []StatsMatchDocument
  <1>1. Inv /\ WalkInv => StatsMatchDocument
    <2> SUFFICES ASSUME Inv, WalkInv PROVE StatsMatchDocument
      OBVIOUS
    <2>1. DOMAIN stats = DOMAIN NoStats
      BY DEF Inv, Within, Ended
    <2>2. err = "nil" => stats = Statistics(doc)
      BY DEF WalkInv
    <2>3. /\ stats.seenKeys \subseteq Statistics(doc).seenKeys
          /\ \A field \in DOMAIN stats \ {"seenKeys"} : stats[field] <= Statistics(doc)[field]
      BY <2>1 DEF WalkInv, NoMoreThan
    <2> QED BY <2>2, <2>3, Zenon DEF StatsMatchDocument
  <1> QED BY <1>1, WalkFollowsDocument, PTL

=============================================================================
