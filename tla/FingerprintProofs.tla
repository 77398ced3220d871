------------------------- MODULE FingerprintProofs --------------------------
(***************************************************************************)
(* What normalizeConfig makes of any configuration, what a middleware      *)
(* answers with once it is built, and whose address a fingerprint holds:   *)
(* for every set of configurations and requests, and whatever the library  *)
(* makes of a text.                                                        *)
(***************************************************************************)
EXTENDS Fingerprint, SequenceTheorems, WellFoundedInduction, TLAPS

-----------------------------------------------------------------------------
\* Induction over the naturals, from the well-foundedness of their order.
Smaller == {ss \in Nat \X Nat : ss[1] < ss[2]}

\* The order of the naturals has no infinite descent.
LEMMA SmallerIsWellFounded == IsWellFoundedOn(Smaller, Nat)
  <1>1. Smaller = OpToRel(<, Nat)
    BY Zenon DEF OpToRel, Smaller
  <1>2. IsWellFoundedOn(OpToRel(<, Nat), Nat)
    BY NatLessThanWellFounded, Zenon
  <1> QED BY <1>1, <1>2, Zenon

\* Induction for a set of naturals.
LEMMA Induction ==
    ASSUME NEW S, 0 \in S, \A n \in Nat : n \in S => n + 1 \in S
    PROVE  \A n \in Nat : n \in S
  <1> SUFFICES ASSUME Nat \ S # {} PROVE FALSE
    OBVIOUS
  <1> DEFINE T == Nat \ S
  <1>1. PICK m \in T : \A k \in T : <<k, m>> \notin Smaller
    <2>1. T \subseteq Nat /\ T # {}
      OBVIOUS
    <2> QED BY <2>1, SmallerIsWellFounded, WFMin, Zenon
  <1>2. m \in Nat /\ m # 0
    BY <1>1
  <1>3. m - 1 \in Nat /\ <<m - 1, m>> \in Smaller
    BY <1>2 DEF Smaller
  <1>4. m - 1 \in S
    BY <1>1, <1>3
  <1>5. (m - 1) + 1 = m
    BY <1>2
  <1> QED BY <1>1, <1>3, <1>4, <1>5

\* What a step that stays in T gives.
Stays(next, T) == \A i \in Nat : \A v \in T : next[<<i, v>>] \in T

Iterates(g, n, T, base, next) ==
    /\ g \in [0 .. n -> T]
    /\ g[0] = base
    /\ \A i \in 1 .. n : g[i] = next[<<i, g[i - 1]>>]

\* A function defined from its value one before exists.
LEMMA IterationExists ==
    ASSUME NEW n \in Nat, NEW T, NEW base \in T, NEW next, Stays(next, T)
    PROVE  \E g : Iterates(g, n, T, base, next)
  <1> DEFINE S == {m \in Nat : \E g : Iterates(g, m, T, base, next)}
  <1>1. 0 \in S
    <2> DEFINE g == [i \in 0 .. 0 |-> base]
    <2>1. Iterates(g, 0, T, base, next)
      BY DEF Iterates
    <2> QED BY <2>1, Zenon
  <1>2. ASSUME NEW m \in Nat, m \in S PROVE m + 1 \in S
    <2>1. PICK g : Iterates(g, m, T, base, next)
      BY <1>2
    <2> DEFINE h == [i \in 0 .. m + 1 |-> IF i <= m THEN g[i] ELSE next[<<m + 1, g[m]>>]]
    <2>2. /\ g \in [0 .. m -> T] /\ g[0] = base
          /\ \A i \in 1 .. m : g[i] = next[<<i, g[i - 1]>>]
          /\ \A i \in 0 .. m : g[i] \in T
      BY <2>1 DEF Iterates
    <2>3. g[m] \in T /\ m + 1 \in Nat
      BY <2>2
    <2>4. next[<<m + 1, g[m]>>] \in T
      BY <2>3 DEF Stays
    <2>5. h \in [0 .. m + 1 -> T]
      <3>1. ASSUME NEW i \in 0 .. m + 1 PROVE h[i] \in T
        <4>1. i <= m => i \in 0 .. m
          OBVIOUS
        <4> QED BY <2>2, <2>4, <4>1
      <3> QED BY <3>1
    <2>6. h[0] = base
      <3>1. 0 \in 0 .. m + 1 /\ 0 <= m
        OBVIOUS
      <3> QED BY <2>2, <3>1
    <2>7. ASSUME NEW i \in 1 .. m + 1 PROVE h[i] = next[<<i, h[i - 1]>>]
      <3>1. i \in 0 .. m + 1 /\ i - 1 \in 0 .. m + 1 /\ i - 1 <= m
        OBVIOUS
      <3>2. h[i - 1] = g[i - 1]
        BY <3>1
      <3>3. CASE i <= m
        <4>1. h[i] = g[i] /\ i \in 1 .. m
          BY <3>1, <3>3
        <4> QED BY <2>2, <3>2, <4>1
      <3>4. CASE i = m + 1
        <4>1. h[i] = next[<<m + 1, g[m]>>] /\ i - 1 = m
          BY <3>1, <3>4
        <4> QED BY <3>2, <3>4, <4>1
      <3> QED BY <3>1, <3>3, <3>4
    <2>8. Iterates(h, m + 1, T, base, next)
      <3> HIDE DEF h
      <3> QED BY <2>5, <2>6, <2>7 DEF Iterates
    <2> QED BY <2>3, <2>8, Zenon
  <1>3. n \in S
    <2> HIDE DEF S
    <2> QED BY <1>1, <1>2, Induction
  <1> QED BY <1>3

-----------------------------------------------------------------------------
\* The canonical text of a canonical text is itself.
LEMMA CanonicalTexts ==
    ASSUME NEW list \in Lists, NEW t \in Text
    PROVE  Canonical[list][t] \in Text /\ Canonical[list][Canonical[list][t]] = Canonical[list][t]
  <1>1. Canonical \in [Lists \cup TextFields -> [Text -> Text]] /\ list \in Lists \cup TextFields
    BY ConfigAssumption, Zenon
  <1>2. Canonical[list] \in [Text -> Text]
    BY <1>1, Zenon
  <1>3. Canonical[list][Canonical[list][t]] = Canonical[list][t]
    BY <1>1, CanonicalAssumption, Zenon
  <1> QED BY <1>2, <1>3, Zenon

\* The canonical texts of a list.
Texts(list, values) == [i \in 1 .. Len(values) |-> Canonical[list][values[i]]]

\* They are texts.
LEMMA TextsType ==
    ASSUME NEW list \in Lists, NEW values \in Seq(Text)
    PROVE  /\ Len(values) \in Nat
           /\ Texts(list, values) \in [1 .. Len(values) -> Text]
           /\ \A i \in 1 .. Len(values) : Texts(list, values)[i] = Canonical[list][values[i]]
  <1>1. Len(values) \in Nat /\ \A i \in 1 .. Len(values) : values[i] \in Text
    BY LenProperties, ElementOfSeq, Zenon
  <1>2. \A i \in 1 .. Len(values) : Canonical[list][values[i]] \in Text
    BY <1>1, CanonicalTexts, Zenon
  <1> QED BY <1>1, <1>2, Zenon DEF Texts

\* A list without repetitions keeps the first of each text.
KeepText(kept, text) == IF text = "" \/ Contains(kept, text) THEN kept ELSE Append(kept, text)

\* Distinct goes through the list once.
LEMMA DistinctSteps ==
    ASSUME NEW list \in Lists, NEW values \in Seq(Text)
    PROVE  \E kept :
             /\ kept[0] = <<>>
             /\ \A i \in 1 .. Len(values) :
                  kept[i] = KeepText(kept[i - 1], Texts(list, values)[i])
             /\ Distinct(list, values) = kept[Len(values)]
  <1> DEFINE n == Len(values)
             T == Seq(Text)
             Step(g, i) == IF i = 0 THEN <<>>
                           ELSE IF Canonical[list][values[i]] = ""
                                   \/ Contains(g[i - 1], Canonical[list][values[i]])
                                THEN g[i - 1]
                           ELSE Append(g[i - 1], Canonical[list][values[i]])
             kept == CHOOSE g : g = [i \in 0 .. n |-> Step(g, i)]
             next == [p \in Nat \X T |->
                        IF p[1] \in 1 .. n THEN KeepText(p[2], Canonical[list][values[p[1]]])
                        ELSE p[2]]
             base == <<>>
  <1>1. /\ n \in Nat
        /\ \A i \in 1 .. n : Canonical[list][values[i]] \in Text
                           /\ Texts(list, values)[i] = Canonical[list][values[i]]
    BY TextsType
  <1>2. base \in T /\ Stays(next, T)
    <2>1. ASSUME NEW i \in Nat, NEW v \in T PROVE next[<<i, v>>] \in T
      <3>1. i \in 1 .. n => Append(v, Canonical[list][values[i]]) \in T
        BY <1>1, AppendProperties
      <3>2. next[<<i, v>>] = v
            \/ (i \in 1 .. n /\ next[<<i, v>>] = Append(v, Canonical[list][values[i]]))
        BY DEF KeepText
      <3> QED BY <3>1, <3>2
    <2>2. base \in T
      BY EmptySeq
    <2> HIDE DEF n, T, next
    <2> QED BY <2>1, <2>2 DEF Stays
  <1> HIDE DEF n, T, next, base, kept, Step
  <1>3. PICK g : Iterates(g, n, T, base, next)
    BY <1>1, <1>2, IterationExists
  <1>4. g = [i \in 0 .. n |-> Step(g, i)]
    <2>1. /\ g \in [0 .. n -> T] /\ g[0] = base
          /\ \A i \in 1 .. n : g[i] = next[<<i, g[i - 1]>>]
      BY <1>3 DEF Iterates
    <2>2. ASSUME NEW i \in 0 .. n PROVE g[i] = Step(g, i)
      <3>1. CASE i = 0
        BY <2>1, <3>1 DEF base, Step
      <3>2. CASE i # 0
        <4>1. i \in 1 .. n /\ i - 1 \in 0 .. n /\ i \in Nat
          BY <1>1, <3>2
        <4>2. g[i - 1] \in T
          BY <2>1, <4>1
        <4>3. g[i] = next[<<i, g[i - 1]>>]
          BY <2>1, <4>1
        <4>4. next[<<i, g[i - 1]>>] = Step(g, i)
          BY <3>2, <4>1, <4>2 DEF next, Step, KeepText
        <4> QED BY <4>3, <4>4
      <3> QED BY <3>1, <3>2
    <2> QED BY <2>1, <2>2
  <1>5. kept = [i \in 0 .. n |-> Step(kept, i)]
    BY <1>4 DEF kept
  <1>6. ASSUME NEW i \in 0 .. n PROVE kept[i] = Step(kept, i)
    BY <1>5
  <1>7. kept[0] = <<>>
    <2>1. kept[0] = Step(kept, 0)
      BY <1>1, <1>6
    <2> QED BY <2>1 DEF Step
  <1>8. ASSUME NEW i \in 1 .. n PROVE kept[i] = KeepText(kept[i - 1], Texts(list, values)[i])
    <2>1. i \in 0 .. n /\ i # 0
      BY <1>1
    <2>2. kept[i] = Step(kept, i)
      BY <1>6, <2>1
    <2> QED BY <1>1, <2>1, <2>2 DEF Step, KeepText
  <1>9. Distinct(list, values) = kept[n]
    BY DEF Distinct, kept, n, Step
  <1> QED BY <1>7, <1>8, <1>9 DEF n

\* What is kept of the first i canonical texts c: each once, none blank, in the
\* order in which they come first.
Kept(c, i, k) ==
    /\ k \in Seq(Text)
    /\ \A a \in 1 .. Len(k) : k[a] # "" /\ \E j \in 1 .. i : k[a] = c[j]
    /\ \A a, b \in 1 .. Len(k) : k[a] = k[b] => a = b
    /\ \A j \in 1 .. i : c[j] # "" => \E a \in 1 .. Len(k) : k[a] = c[j]
    /\ \A a \in 1 .. Len(k), j \in 1 .. i : k[a] = c[j] =>
         \A b \in 1 .. Len(k) : b < a => \E m \in 1 .. i : m < j /\ k[b] = c[m]

\* One text more.
LEMMA KeptStep ==
    ASSUME NEW n \in Nat, NEW c \in [1 .. n -> Text], NEW i \in 1 .. n, NEW k, Kept(c, i - 1, k)
    PROVE  Kept(c, i, KeepText(k, c[i]))
  <1>1. /\ i \in Nat /\ i \in 1 .. i
        /\ \A j \in 1 .. i : j \in 1 .. i - 1 \/ j = i
        /\ \A j \in 1 .. i - 1 : j \in 1 .. i /\ j < i
    OBVIOUS
  <1>2. c[i] \in Text
    OBVIOUS
  <1>3. /\ k \in Seq(Text) /\ Len(k) \in Nat
        /\ \A a \in 1 .. Len(k) : k[a] # "" /\ \E j \in 1 .. i - 1 : k[a] = c[j]
        /\ \A a, b \in 1 .. Len(k) : k[a] = k[b] => a = b
        /\ \A j \in 1 .. i - 1 : c[j] # "" => \E a \in 1 .. Len(k) : k[a] = c[j]
        /\ \A a \in 1 .. Len(k), j \in 1 .. i - 1 : k[a] = c[j] =>
             \A b \in 1 .. Len(k) : b < a => \E m \in 1 .. i - 1 : m < j /\ k[b] = c[m]
    <2>1. k \in Seq(Text)
      BY DEF Kept
    <2> QED BY <2>1, LenProperties, Zenon DEF Kept
  <1>4. CASE c[i] = "" \/ \E a \in 1 .. Len(k) : k[a] = c[i]
    <2>1. \A a \in 1 .. Len(k) : k[a] # "" /\ \E j \in 1 .. i : k[a] = c[j]
      BY <1>1, <1>3, Zenon
    <2>2. \A j \in 1 .. i : c[j] # "" => \E a \in 1 .. Len(k) : k[a] = c[j]
      BY <1>1, <1>3, <1>4, Zenon
    <2>3. ASSUME NEW a \in 1 .. Len(k), NEW j \in 1 .. i, k[a] = c[j], NEW b \in 1 .. Len(k), b < a
          PROVE  \E m \in 1 .. i : m < j /\ k[b] = c[m]
      <3>1. CASE j \in 1 .. i - 1
        <4>1. PICK m \in 1 .. i - 1 : m < j /\ k[b] = c[m]
          BY <1>3, <2>3, <3>1, Zenon
        <4> QED BY <1>1, <4>1, Zenon
      <3>2. CASE j = i
        <4>1. PICK m \in 1 .. i - 1 : k[b] = c[m]
          BY <1>3, Zenon
        <4> QED BY <1>1, <3>2, <4>1, Zenon
      <3> QED BY <1>1, <3>1, <3>2
    <2>4. Kept(c, i, k)
      BY <1>3, <2>1, <2>2, <2>3, Zenon DEF Kept
    <2>5. KeepText(k, c[i]) = k
      BY <1>4, Zenon DEF KeepText, Contains
    <2> QED BY <2>4, <2>5, Zenon
  <1>5. CASE c[i] # "" /\ \A a \in 1 .. Len(k) : k[a] # c[i]
    <2> DEFINE u == Append(k, c[i])
    <2>1. /\ u \in Seq(Text) /\ Len(u) = Len(k) + 1 /\ u[Len(k) + 1] = c[i]
          /\ \A a \in 1 .. Len(k) : u[a] = k[a]
      <3> DEFINE x == c[i]
      <3>1. x \in Text /\ k \in Seq(Text)
        BY <1>2, <1>3
      <3> HIDE DEF x
      <3>2. LET w == Append(k, x)
            IN  /\ w \in Seq(Text) /\ Len(w) = Len(k) + 1 /\ w[Len(k) + 1] = x
                /\ \A a \in 1 .. Len(k) : w[a] = k[a]
        BY <3>1, AppendProperties
      <3> QED BY <3>2 DEF x
    <2> HIDE DEF u
    <2>2. /\ \A a \in 1 .. Len(u) : a \in 1 .. Len(k) \/ a = Len(u)
          /\ \A a \in 1 .. Len(k) : a \in 1 .. Len(u) /\ a < Len(u)
          /\ Len(u) \in 1 .. Len(u) /\ u[Len(u)] = c[i]
      <3> DEFINE m == Len(k)
                 r == Len(u)
      <3>1. m \in Nat /\ r = m + 1 /\ u[r] = c[i]
        BY <1>3, <2>1
      <3> HIDE DEF m, r
      <3>2. /\ \A a \in 1 .. r : a \in 1 .. m \/ a = r
            /\ \A a \in 1 .. m : a \in 1 .. r /\ a < r
            /\ r \in 1 .. r
        BY <3>1
      <3> QED BY <3>1, <3>2 DEF m, r
    <2>3. ASSUME NEW a \in 1 .. Len(u)
          PROVE  u[a] # "" /\ \E j \in 1 .. i : u[a] = c[j]
      <3>1. CASE a \in 1 .. Len(k)
        <4>1. u[a] = k[a] /\ \E j \in 1 .. i - 1 : k[a] = c[j]
          BY <1>3, <2>1, <3>1, Zenon
        <4> QED BY <1>1, <1>3, <3>1, <4>1, Zenon
      <3>2. CASE a = Len(u)
        BY <1>1, <1>5, <2>2, <3>2, Zenon
      <3> QED BY <2>2, <3>1, <3>2
    <2>4. ASSUME NEW a \in 1 .. Len(u), NEW b \in 1 .. Len(u), u[a] = u[b] PROVE a = b
      <3>1. \A d \in 1 .. Len(k) : u[d] # u[Len(u)]
        BY <1>5, <2>1, <2>2, Zenon
      <3>2. CASE a \in 1 .. Len(k) /\ b \in 1 .. Len(k)
        <4>1. k[a] = k[b]
          BY <2>1, <2>4, <3>2, Zenon
        <4>2. \A d, e \in 1 .. Len(k) : k[d] = k[e] => d = e
          BY <1>3
        <4> QED BY <3>2, <4>1, <4>2
      <3>3. CASE a = Len(u) /\ b \in 1 .. Len(k)
        <4>1. u[b] = u[Len(u)]
          BY <2>4, <3>3, Zenon
        <4> QED BY <3>1, <3>3, <4>1, Zenon
      <3>4. CASE a \in 1 .. Len(k) /\ b = Len(u)
        <4>1. u[a] = u[Len(u)]
          BY <2>4, <3>4, Zenon
        <4> QED BY <3>1, <3>4, <4>1, Zenon
      <3>5. CASE a = Len(u) /\ b = Len(u)
        BY <3>5, Zenon
      <3>6. (a \in 1 .. Len(k) \/ a = Len(u)) /\ (b \in 1 .. Len(k) \/ b = Len(u))
        BY <2>2, Zenon
      <3> QED BY <3>2, <3>3, <3>4, <3>5, <3>6, Zenon
    <2>5. ASSUME NEW j \in 1 .. i, c[j] # "" PROVE \E a \in 1 .. Len(u) : u[a] = c[j]
      <3>1. CASE j = i
        BY <2>2, <3>1, Zenon
      <3>2. CASE j \in 1 .. i - 1
        <4>1. PICK a \in 1 .. Len(k) : k[a] = c[j]
          BY <1>3, <2>5, <3>2, Zenon
        <4> QED BY <2>1, <2>2, <4>1, Zenon
      <3> QED BY <1>1, <3>1, <3>2
    <2>6. ASSUME NEW a \in 1 .. Len(u), NEW j \in 1 .. i, u[a] = c[j], NEW b \in 1 .. Len(u), b < a
          PROVE  \E m \in 1 .. i : m < j /\ u[b] = c[m]
      <3>1. b \in 1 .. Len(k) /\ u[b] = k[b]
        <4>1. b # Len(u)
          <5>1. Len(u) \in Nat
            BY <2>1, LenProperties
          <5> QED BY <2>6, <5>1
        <4> QED BY <2>1, <2>2, <4>1, Zenon
      <3>2. CASE j = i
        <4>1. PICK m \in 1 .. i - 1 : k[b] = c[m]
          BY <1>3, <3>1, Zenon
        <4> QED BY <1>1, <3>1, <3>2, <4>1, Zenon
      <3>3. CASE j \in 1 .. i - 1
        <4>1. a \in 1 .. Len(k)
          <5>1. c[j] # ""
            BY <2>3, <2>6, Zenon
          <5>2. PICK d \in 1 .. Len(k) : k[d] = c[j]
            BY <1>3, <3>3, <5>1, Zenon
          <5>3. u[d] = u[a] /\ d \in 1 .. Len(u)
            BY <2>1, <2>2, <2>6, <5>2, Zenon
          <5> QED BY <2>4, <5>2, <5>3, Zenon
        <4>2. k[a] = c[j]
          BY <2>1, <2>6, <4>1, Zenon
        <4>3. PICK m \in 1 .. i - 1 : m < j /\ k[b] = c[m]
          BY <1>3, <2>6, <3>1, <3>3, <4>1, <4>2, Zenon
        <4> QED BY <1>1, <3>1, <4>3, Zenon
      <3> QED BY <1>1, <3>2, <3>3
    <2>7. Kept(c, i, u)
      BY <2>1, <2>3, <2>4, <2>5, <2>6, Zenon DEF Kept
    <2>8. KeepText(k, c[i]) = u
      BY <1>5, Zenon DEF KeepText, Contains, u
    <2> QED BY <2>7, <2>8, Zenon
  <1> QED BY <1>4, <1>5, Zenon

\* What Distinct returns.
LEMMA DistinctKept ==
    ASSUME NEW list \in Lists, NEW values \in Seq(Text)
    PROVE  Kept(Texts(list, values), Len(values), Distinct(list, values))
  <1> DEFINE n == Len(values)
             c == Texts(list, values)
  <1>1. PICK kept :
          /\ kept[0] = <<>>
          /\ \A i \in 1 .. n : kept[i] = KeepText(kept[i - 1], c[i])
          /\ Distinct(list, values) = kept[n]
    BY DistinctSteps, Zenon
  <1>2. n \in Nat /\ c \in [1 .. n -> Text]
    BY TextsType, Zenon
  <1> HIDE DEF n, c
  <1> DEFINE S == {j \in Nat : j <= n => Kept(c, j, kept[j])}
  <1>3. 0 \in S
    <2>1. Kept(c, 0, <<>>)
      BY EmptySeq DEF Kept
    <2> QED BY <1>1, <2>1
  <1>4. ASSUME NEW j \in Nat, j \in S PROVE j + 1 \in S
    <2> SUFFICES ASSUME j + 1 <= n PROVE Kept(c, j + 1, kept[j + 1])
      OBVIOUS
    <2>1. j + 1 \in 1 .. n /\ (j + 1) - 1 = j /\ Kept(c, j, kept[j])
      BY <1>2, <1>4
    <2>2. kept[j + 1] = KeepText(kept[j], c[j + 1])
      BY <1>1, <2>1
    <2>3. Kept(c, (j + 1) - 1, kept[j])
      BY <2>1
    <2> QED BY <1>2, <2>1, <2>2, <2>3, KeptStep, Zenon
  <1>5. n \in S
    <2> HIDE DEF S
    <2> QED BY <1>2, <1>3, <1>4, Induction
  <1>6. Kept(c, n, kept[n])
    BY <1>2, <1>5
  <1> QED BY <1>1, <1>6 DEF n, c

\* A list without blanks and repetitions, of canonical texts.
NormalList(list, values) ==
    /\ values \in Seq(Text)
    /\ IsInjective(values)
    /\ \A i \in 1 .. Len(values) : values[i] # "" /\ Canonical[list][values[i]] = values[i]

\* Distinct returns such a list.
LEMMA DistinctNormal ==
    ASSUME NEW list \in Lists, NEW values \in Seq(Text)
    PROVE  NormalList(list, Distinct(list, values))
  <1> DEFINE c == Texts(list, values)
             n == Len(values)
             k == Distinct(list, values)
  <1>1. n \in Nat /\ c \in [1 .. n -> Text] /\ \A i \in 1 .. n : c[i] = Canonical[list][values[i]]
    BY TextsType, Zenon
  <1>2. Kept(c, n, k)
    BY DistinctKept, Zenon
  <1>3. ASSUME NEW i \in 1 .. n PROVE Canonical[list][c[i]] = c[i]
    <2>1. values[i] \in Text
      BY ElementOfSeq, Zenon
    <2>2. Canonical[list][Canonical[list][values[i]]] = Canonical[list][values[i]]
      BY <2>1, CanonicalTexts, Zenon
    <2>3. c[i] = Canonical[list][values[i]]
      BY <1>1, Zenon
    <2> HIDE DEF c
    <2> QED BY <2>2, <2>3, Zenon
  <1> HIDE DEF c, n, k
  <1>4. k \in Seq(Text) /\ DOMAIN k = 1 .. Len(k)
    <2>1. k \in Seq(Text)
      BY <1>2, Zenon DEF Kept
    <2> QED BY <2>1, LenProperties
  <1>5. IsInjective(k)
    BY <1>2, <1>4, Zenon DEF Kept, IsInjective
  <1>6. \A i \in 1 .. Len(k) : k[i] # "" /\ Canonical[list][k[i]] = k[i]
    <2> SUFFICES ASSUME NEW i \in 1 .. Len(k) PROVE k[i] # "" /\ Canonical[list][k[i]] = k[i]
      OBVIOUS
    <2>1. k[i] # "" /\ \E j \in 1 .. n : k[i] = c[j]
      BY <1>2, Zenon DEF Kept
    <2> QED BY <1>3, <2>1, Zenon
  <1>7. NormalList(list, k)
    BY <1>4, <1>5, <1>6, Zenon DEF NormalList
  <1> QED BY <1>7 DEF k

\* And it leaves one as it is.
LEMMA DistinctOfNormal ==
    ASSUME NEW list \in Lists, NEW values, NormalList(list, values)
    PROVE  Distinct(list, values) = values
  <1> DEFINE c == Texts(list, values)
             n == Len(values)
  <1>1. values \in Seq(Text) /\ n \in Nat /\ DOMAIN values = 1 .. n
    BY LenProperties DEF NormalList
  <1>2. /\ \A i \in 1 .. n : c[i] = values[i] /\ c[i] # "" /\ values[i] \in Text
        /\ \A i, j \in 1 .. n : c[i] = c[j] => i = j
    <2>1. \A i \in 1 .. n : c[i] = values[i] /\ c[i] # ""
      BY <1>1, TextsType, Zenon DEF NormalList
    <2>2. \A i \in 1 .. n : values[i] \in Text
      BY <1>1, ElementOfSeq, Zenon
    <2>3. \A i, j \in 1 .. n : values[i] = values[j] => i = j
      BY <1>1, Zenon DEF NormalList, IsInjective
    <2> QED BY <2>1, <2>2, <2>3, Zenon
  <1>3. PICK kept :
          /\ kept[0] = <<>>
          /\ \A i \in 1 .. n : kept[i] = KeepText(kept[i - 1], c[i])
          /\ Distinct(list, values) = kept[n]
    BY <1>1, DistinctSteps, Zenon
  <1> HIDE DEF c, n
  <1> DEFINE Prefix(j) == /\ kept[j] \in Seq(Text) /\ Len(kept[j]) = j
                          /\ \A a \in 1 .. j : kept[j][a] = c[a]
             S == {j \in Nat : j <= n => Prefix(j)}
  <1>4. 0 \in S
    <2>1. kept[0] \in Seq(Text) /\ Len(kept[0]) = 0
      BY <1>3, EmptySeq
    <2> QED BY <2>1
  <1>5. ASSUME NEW j \in Nat, j \in S PROVE j + 1 \in S
    <2> SUFFICES ASSUME j + 1 <= n PROVE Prefix(j + 1)
      OBVIOUS
    <2>1. j + 1 \in 1 .. n /\ (j + 1) - 1 = j /\ \A a \in 1 .. j : a \in 1 .. n /\ a # j + 1
      BY <1>1
    <2>2. Prefix(j)
      BY <1>1, <1>5
    <2> DEFINE k == kept[j]
               x == c[j + 1]
    <2>3. kept[j + 1] = KeepText(k, x)
      BY <1>3, <2>1
    <2>4. k \in Seq(Text) /\ Len(k) = j /\ x \in Text /\ x # ""
      BY <1>2, <2>1, <2>2
    <2>5. \A a \in 1 .. Len(k) : k[a] # x
      <3> SUFFICES ASSUME NEW a \in 1 .. j, k[a] = x PROVE FALSE
        BY <2>4
      <3>1. c[a] = c[j + 1]
        BY <2>2
      <3> QED BY <1>2, <2>1, <3>1
    <2>6. kept[j + 1] = Append(k, x)
      BY <2>3, <2>4, <2>5, Zenon DEF KeepText, Contains
    <2>7. /\ kept[j + 1] \in Seq(Text) /\ Len(kept[j + 1]) = j + 1 /\ kept[j + 1][j + 1] = x
          /\ \A a \in 1 .. j : kept[j + 1][a] = k[a]
      <3>1. x \in Text /\ k \in Seq(Text)
        BY <2>4
      <3> HIDE DEF k, x
      <3>2. LET w == Append(k, x)
            IN  /\ w \in Seq(Text) /\ Len(w) = Len(k) + 1 /\ w[Len(k) + 1] = x
                /\ \A a \in 1 .. Len(k) : w[a] = k[a]
        BY <3>1, AppendProperties
      <3> QED BY <2>4, <2>6, <3>2
    <2>8. \A a \in 1 .. j + 1 : kept[j + 1][a] = c[a]
      <3> SUFFICES ASSUME NEW a \in 1 .. j + 1 PROVE kept[j + 1][a] = c[a]
        OBVIOUS
      <3>1. a \in 1 .. j \/ a = j + 1
        OBVIOUS
      <3> QED BY <2>2, <2>7, <3>1
    <2> QED BY <2>7, <2>8
  <1>6. n \in S
    <2> HIDE DEF S
    <2> QED BY <1>1, <1>4, <1>5, Induction
  <1>7. Prefix(n)
    BY <1>1, <1>6
  <1>8. kept[n] = values
    <2>1. Len(values) = n /\ \A a \in 1 .. n : kept[n][a] = values[a]
      BY <1>2, <1>7 DEF n
    <2>2. kept[n] \in Seq(Text) /\ Len(kept[n]) = Len(values)
      BY <1>7, <2>1
    <2> HIDE DEF Prefix
    <2> QED BY <1>1, <2>1, <2>2, SeqEqual
  <1> QED BY <1>3, <1>8

\* The defaults are such lists.
LEMMA DefaultsNormal ==
    ASSUME NEW list \in Lists \ {"cidrs"}
    PROVE  NormalList(list, DefaultLists[list]) /\ DefaultLists[list] # <<>>
  <1> DEFINE d == DefaultLists[list]
  <1>1. d \in Seq(Text)
    BY ConfigAssumption, Zenon
  <1>2. /\ d # <<>> /\ IsInjective(d)
        /\ \A t \in Range(d) : t # "" /\ Canonical[list][t] = t
    BY CanonicalAssumption, Zenon
  <1> HIDE DEF d
  <1>3. DOMAIN d = 1 .. Len(d)
    BY <1>1, LenProperties
  <1>4. \A i \in 1 .. Len(d) : d[i] \in Range(d)
    BY <1>3, Zenon DEF Range
  <1>5. NormalList(list, d)
    BY <1>1, <1>2, <1>4, Zenon DEF NormalList
  <1> QED BY <1>2, <1>5 DEF d

\* A list that is normalised is such a list, and so is what it becomes when it
\* is normalised once more.
Settled(list, values) == NormalList(list, values) /\ (list # "cidrs" => values # <<>>)

LEMMA ListSettled ==
    ASSUME NEW list \in Lists, NEW values \in Seq(Text)
    PROVE  Settled(list, NormalizeList(list, values, DefaultLists))
  BY DistinctNormal, DefaultsNormal, Zenon DEF Settled, NormalizeList

\* A settled list stays as it is.
LEMMA ListStays ==
    ASSUME NEW list \in Lists, NEW values, Settled(list, values)
    PROVE  NormalizeList(list, values, DefaultLists) = values
  BY DistinctOfNormal, Zenon DEF Settled, NormalizeList

\* Multipart metadata adds a text that is canonical, and only once.
LEMMA MultipartSettled ==
    ASSUME NEW list \in {"bodyTypes", "complexityTypes"}, NEW values, Settled(list, values)
    PROVE  LET u == AppendUniqueValue(values, Multipart)
           IN  /\ Settled(list, u) /\ Contains(u, Multipart)
               /\ AppendUniqueValue(u, Multipart) = u
  <1> DEFINE u == AppendUniqueValue(values, Multipart)
             n == Len(values)
  <1>1. /\ values \in Seq(Text) /\ IsInjective(values) /\ values # <<>>
        /\ \A i \in 1 .. n : values[i] # "" /\ Canonical[list][values[i]] = values[i]
    BY Zenon DEF Settled, NormalList
  <1>2. Canonical[list][Multipart] = Multipart
    BY CanonicalAssumption, Zenon
  <1>3. Multipart \in Text
    BY ConfigAssumption, Zenon
  <1>4. Multipart # ""
    BY DEF Multipart
  <1>5. CASE Contains(values, Multipart)
    <2>1. u = values
      BY <1>5, Zenon DEF AppendUniqueValue
    <2> QED BY <1>5, <2>1, Zenon DEF AppendUniqueValue
  <1>6. CASE ~Contains(values, Multipart)
    <2> DEFINE w == Append(values, Multipart)
    <2>1. u = w
      BY <1>6, Zenon DEF AppendUniqueValue
    <2>2. /\ w \in Seq(Text) /\ Len(w) = n + 1 /\ w[n + 1] = Multipart
          /\ \A i \in 1 .. n : w[i] = values[i]
      <3> DEFINE x == Multipart
      <3>1. x \in Text /\ values \in Seq(Text)
        BY <1>1, <1>3
      <3> HIDE DEF x
      <3>2. LET v == Append(values, x)
            IN  /\ v \in Seq(Text) /\ Len(v) = Len(values) + 1 /\ v[Len(values) + 1] = x
                /\ \A i \in 1 .. Len(values) : v[i] = values[i]
        BY <3>1, AppendProperties
      <3> QED BY <3>2 DEF x
    <2> HIDE DEF w
    <2>3. n \in Nat /\ DOMAIN values = 1 .. n /\ DOMAIN w = 1 .. n + 1
      BY <1>1, <2>2, LenProperties
    <2> HIDE DEF n
    <2>4. \A i \in 1 .. n + 1 : i \in 1 .. n \/ i = n + 1
      BY <2>3
    <2>5. n + 1 \in 1 .. n + 1
      BY <2>3
    <2>6. \A i \in 1 .. n : values[i] # Multipart
      BY <1>6, Zenon DEF Contains, n
    <2>7. IsInjective(w)
      <3> SUFFICES ASSUME NEW i \in 1 .. n + 1, NEW j \in 1 .. n + 1, w[i] = w[j] PROVE i = j
        BY <2>3, Zenon DEF IsInjective
      <3>1. CASE i \in 1 .. n /\ j \in 1 .. n
        <4>1. values[i] = values[j]
          BY <2>2, <3>1, Zenon
        <4> QED BY <1>1, <2>3, <3>1, <4>1, Zenon DEF IsInjective
      <3>2. CASE i \in 1 .. n /\ j = n + 1
        <4>1. values[i] = Multipart
          BY <2>2, <3>2, Zenon
        <4> QED BY <2>6, <3>2, <4>1, Zenon
      <3>3. CASE i = n + 1 /\ j \in 1 .. n
        <4>1. values[j] = Multipart
          BY <2>2, <3>3, Zenon
        <4> QED BY <2>6, <3>3, <4>1, Zenon
      <3>4. CASE i = n + 1 /\ j = n + 1
        BY <3>4
      <3> QED BY <2>4, <3>1, <3>2, <3>3, <3>4, Zenon
    <2>8. \A i \in 1 .. n + 1 : w[i] # "" /\ Canonical[list][w[i]] = w[i]
      <3> SUFFICES ASSUME NEW i \in 1 .. n + 1 PROVE w[i] # "" /\ Canonical[list][w[i]] = w[i]
        OBVIOUS
      <3>1. w[i] = Multipart \/ (i \in 1 .. n /\ w[i] = values[i])
        BY <2>2, <2>4, Zenon
      <3> QED BY <1>1, <1>2, <1>4, <3>1, Zenon DEF n
    <2>9. w # <<>>
      BY <2>2, <2>3, EmptySeq
    <2>10. Settled(list, w)
      BY <2>2, <2>7, <2>8, <2>9, Zenon DEF Settled, NormalList, n
    <2>11. Contains(w, Multipart)
      BY <2>2, <2>5, Zenon DEF Contains, n
    <2>12. AppendUniqueValue(w, Multipart) = w
      BY <2>11, Zenon DEF AppendUniqueValue
    <2> QED BY <2>1, <2>10, <2>11, <2>12, Zenon
  <1> QED BY <1>5, <1>6

\* normalizeConfig: the lists that come out are settled, and normalising them
\* once more changes none.
LEMMA ListsSettled ==
    ASSUME NEW lists \in [Lists -> Seq(Text)], NEW multipart \in BOOLEAN
    PROVE  LET n == NormalizeLists(lists, DefaultLists, multipart)
           IN  /\ n \in [Lists -> Seq(Text)]
               /\ \A l \in Lists \ {"cidrs"} : n[l] # <<>>
               /\ multipart => \A l \in {"bodyTypes", "complexityTypes"} : Contains(n[l], Multipart)
               /\ NormalizeLists(n, DefaultLists, multipart) = n
  <1> DEFINE n == NormalizeLists(lists, DefaultLists, multipart)
             added(l) == multipart /\ l \in {"bodyTypes", "complexityTypes"}
  <1>1. ASSUME NEW l \in Lists
        PROVE  n[l] = IF added(l)
                      THEN AppendUniqueValue(NormalizeList(l, lists[l], DefaultLists), Multipart)
                      ELSE NormalizeList(l, lists[l], DefaultLists)
    BY Zenon DEF NormalizeLists
  <1> HIDE DEF n
  <1>2. ASSUME NEW l \in Lists
        PROVE  /\ Settled(l, n[l])
               /\ added(l) => Contains(n[l], Multipart)
                              /\ AppendUniqueValue(n[l], Multipart) = n[l]
    <2> DEFINE v == NormalizeList(l, lists[l], DefaultLists)
    <2>1. Settled(l, v)
      BY ListSettled, Zenon
    <2> HIDE DEF v
    <2>2. CASE added(l)
      <3>1. n[l] = AppendUniqueValue(v, Multipart)
        BY <1>1, <2>2, Zenon DEF v
      <3> QED BY <2>1, <2>2, <3>1, MultipartSettled, Zenon
    <2>3. CASE ~added(l)
      <3>1. n[l] = v
        BY <1>1, <2>3, Zenon DEF v
      <3> QED BY <2>1, <2>3, <3>1, Zenon
    <2> QED BY <2>2, <2>3, Zenon
  <1>3. n = [l \in Lists |-> n[l]]
    BY Zenon DEF n, NormalizeLists
  <1>4. n \in [Lists -> Seq(Text)]
    BY <1>2, <1>3, Zenon DEF Settled, NormalList
  <1>5. {"bodyTypes", "complexityTypes"} \subseteq Lists
    BY DEF Lists
  <1>6. NormalizeLists(n, DefaultLists, multipart) = [l \in Lists |-> n[l]]
    <2>1. ASSUME NEW l \in Lists
          PROVE  n[l] = IF added(l)
                        THEN AppendUniqueValue(NormalizeList(l, n[l], DefaultLists), Multipart)
                        ELSE NormalizeList(l, n[l], DefaultLists)
      <3>1. NormalizeList(l, n[l], DefaultLists) = n[l]
        BY <1>2, ListStays, Zenon
      <3> QED BY <1>2, <3>1, Zenon
    <2> QED BY <2>1, Zenon DEF NormalizeLists
  <1>7. /\ \A l \in Lists \ {"cidrs"} : n[l] # <<>>
        /\ multipart => \A l \in {"bodyTypes", "complexityTypes"} : Contains(n[l], Multipart)
    BY <1>2, <1>5, Zenon DEF Settled
  <1>8. NormalizeLists(n, DefaultLists, multipart) = n
    BY <1>3, <1>6, Zenon
  <1> QED BY <1>4, <1>7, <1>8 DEF n

-----------------------------------------------------------------------------
Settings == [maxRead: Int, maxDecode: Int, chunk: Int, sample: Int, depth: Int, fields: Int,
             charset: Int]

\* normalizeConfig: whatever numbers a caller gives, the limits that come out
\* are positive, the sample fits in the bytes read and in an int, and
\* normalising once more changes none of them.
THEOREM NumbersAreUsable ==
    ASSUME NEW n \in Settings
    PROVE  LET m == NormalizeNumbers(n)
           IN  /\ m \in Settings
               /\ \A name \in Numbers : m[name] > 0
               /\ m.sample <= m.maxRead /\ m.sample <= MaxInt
               /\ NormalizeNumbers(m) = m
  <1> DEFINE m == NormalizeNumbers(n)
             again == NormalizeNumbers(m)
  <1>1. /\ Default.maxRead \in Nat \ {0} /\ Default.sample \in Nat \ {0}
        /\ Default.chunk \in Nat \ {0} /\ Default.depth \in Nat \ {0}
        /\ Default.fields \in Nat \ {0} /\ Default.charset \in Nat \ {0}
        /\ MaxInt \in Nat \ {0}
    BY ConfigAssumption DEF DefaultRecord
  <1>2. \A k \in Int, d \in Nat \ {0} :
          Positive(k, d) \in Nat \ {0} /\ (k > 0 => Positive(k, d) = k)
    BY DEF Positive
  <1>3. \A k \in Nat \ {0} : ClampInt64ToInt(k) \in 1 .. MaxInt /\ ClampInt64ToInt(k) <= k
    BY <1>1 DEF ClampInt64ToInt
  <1>4. \A k \in Nat \ {0}, c \in Nat \ {0} :
          AtMost(k, c) \in 1 .. c /\ (k <= c => AtMost(k, c) = k)
    BY DEF AtMost
  <1>5. /\ n.maxRead \in Int /\ n.maxDecode \in Int /\ n.chunk \in Int /\ n.sample \in Int
        /\ n.depth \in Int /\ n.fields \in Int /\ n.charset \in Int
    BY DEF Settings
  <1>6. /\ m.maxRead = Positive(n.maxRead, Default.maxRead) /\ m.maxRead \in Nat \ {0}
        /\ m.maxDecode \in Nat \ {0} /\ m.chunk \in Nat \ {0} /\ m.depth \in Nat \ {0}
        /\ m.fields \in Nat \ {0} /\ m.charset \in Nat \ {0}
    BY <1>1, <1>2, <1>5 DEF NormalizeNumbers
  <1>7. m.sample \in 1 .. ClampInt64ToInt(m.maxRead)
    <2> DEFINE most == ClampInt64ToInt(m.maxRead)
               wanted == Positive(n.sample, Default.sample)
    <2>1. m.sample = AtMost(wanted, most)
      BY DEF NormalizeNumbers
    <2>2. m.maxRead \in Nat \ {0} /\ MaxInt \in Nat
      BY <1>1, <1>6
    <2>3. wanted \in Nat \ {0}
      BY <1>1, <1>2, <1>5
    <2> HIDE DEF m, wanted
    <2>4. most \in 1 .. MaxInt
      BY <1>3, <2>2
    <2> HIDE DEF most
    <2>5. AtMost(wanted, most) \in 1 .. most
      BY <1>4, <2>2, <2>3, <2>4
    <2> QED BY <2>1, <2>5 DEF most
  <1>8. m = [maxRead |-> m.maxRead, sample |-> m.sample, chunk |-> m.chunk,
             maxDecode |-> m.maxDecode, depth |-> m.depth, fields |-> m.fields,
             charset |-> m.charset]
    BY DEF NormalizeNumbers
  <1>9. again = [maxRead   |-> Positive(m.maxRead, Default.maxRead),
                 sample    |-> AtMost(Positive(m.sample, Default.sample),
                                ClampInt64ToInt(Positive(m.maxRead, Default.maxRead))),
                 chunk     |-> Positive(m.chunk, Default.chunk),
                 maxDecode |-> Positive(m.maxDecode, Positive(m.maxRead, Default.maxRead)),
                 depth     |-> Positive(m.depth, Default.depth),
                 fields    |-> Positive(m.fields, Default.fields),
                 charset   |-> Positive(m.charset, Default.charset)]
    BY DEF NormalizeNumbers
  <1> HIDE DEF m, again
  <1>10. m.sample \in Nat \ {0} /\ m.sample <= m.maxRead /\ m.sample <= MaxInt
    BY <1>1, <1>3, <1>6, <1>7
  <1>11. /\ Positive(m.maxRead, Default.maxRead) = m.maxRead
         /\ Positive(m.sample, Default.sample) = m.sample
         /\ Positive(m.chunk, Default.chunk) = m.chunk
         /\ Positive(m.maxDecode, m.maxRead) = m.maxDecode
         /\ Positive(m.depth, Default.depth) = m.depth
         /\ Positive(m.fields, Default.fields) = m.fields
         /\ Positive(m.charset, Default.charset) = m.charset
    BY <1>6, <1>10 DEF Positive
  <1>12. AtMost(m.sample, ClampInt64ToInt(m.maxRead)) = m.sample
    BY <1>3, <1>4, <1>6, <1>7, <1>10
  <1>13. again = m
    BY <1>8, <1>9, <1>11, <1>12
  <1>14. m \in Settings
    BY <1>6, <1>8, <1>10 DEF Settings
  <1>15. \A name \in Numbers : m[name] > 0
    BY <1>6, <1>10 DEF Numbers
  <1> QED BY <1>10, <1>13, <1>14, <1>15 DEF m, again

\* The two texts of a Config are settled as well.
LEMMA TextSettled ==
    ASSUME NEW f \in TextFields, NEW t \in Text
    PROVE  LET u == NormalizeText(f, t) IN u \in Text /\ NormalizeText(f, u) = u
  <1>1. Default[f] \in Text
    <2>1. Default.algorithm \in Text /\ Default.version \in Text
      BY ConfigAssumption DEF DefaultRecord
    <2> QED BY <2>1 DEF TextFields
  <1>2. Canonical[f] \in [Text -> Text]
    BY ConfigAssumption, Zenon
  <1>3. Canonical[f][Canonical[f][t]] = Canonical[f][t] /\ Canonical[f][Default[f]] = Default[f]
    BY CanonicalAssumption, Zenon
  <1>4. Canonical[f][t] \in Text
    BY <1>2, Zenon
  <1> QED BY <1>1, <1>3, <1>4, Zenon DEF NormalizeText

\* What a caller can pass to Middleware.
Accepted(c) ==
    /\ c.numbers \in Settings
    /\ c.lists \in [Lists -> Seq(Text)]
    /\ c.texts \in [TextFields -> Text]
    /\ c.flags.multipart \in BOOLEAN

\* normalizeConfig: any configuration becomes one that the other parts can use,
\* that a caller could have passed, and that normalizeConfig does not change.
THEOREM NormalizedIsUsable ==
    ASSUME NEW c, Accepted(c)
    PROVE  LET d == NormalizeConfig(c) IN Accepted(d) /\ Usable(d) /\ NormalizeConfig(d) = d
  <1> DEFINE d == NormalizeConfig(c)
             e == NormalizeConfig(d)
             texts(x) == [f \in TextFields |-> NormalizeText(f, x[f])]
             strategy(x) == IF x \in Strategies THEN x ELSE "head"
  <1>1. /\ d = [numbers |-> NormalizeNumbers(c.numbers), strategy |-> strategy(c.strategy),
                lists |-> NormalizeLists(c.lists, DefaultLists, c.flags.multipart),
                texts |-> texts(c.texts), flags |-> c.flags]
        /\ e = [numbers |-> NormalizeNumbers(d.numbers), strategy |-> strategy(d.strategy),
                lists |-> NormalizeLists(d.lists, DefaultLists, d.flags.multipart),
                texts |-> texts(d.texts), flags |-> d.flags]
    BY Zenon DEF NormalizeConfig, NormalizeWith
  <1> HIDE DEF e, d, texts, strategy
  <1>2. /\ d.numbers = NormalizeNumbers(c.numbers) /\ d.strategy = strategy(c.strategy)
        /\ d.lists = NormalizeLists(c.lists, DefaultLists, c.flags.multipart)
        /\ d.texts = texts(c.texts) /\ d.flags = c.flags
    BY <1>1, Zenon
  <1>3. /\ d.numbers \in Settings
        /\ \A name \in Numbers : d.numbers[name] > 0
        /\ d.numbers.sample <= d.numbers.maxRead /\ d.numbers.sample <= MaxInt
        /\ NormalizeNumbers(d.numbers) = d.numbers
    BY <1>2, NumbersAreUsable, Zenon DEF Accepted
  <1>4. /\ d.lists \in [Lists -> Seq(Text)]
        /\ \A l \in Lists \ {"cidrs"} : d.lists[l] # <<>>
        /\ d.flags.multipart =>
             \A l \in {"bodyTypes", "complexityTypes"} : Contains(d.lists[l], Multipart)
        /\ NormalizeLists(d.lists, DefaultLists, d.flags.multipart) = d.lists
    <2> DEFINE m == c.flags.multipart
               n == NormalizeLists(c.lists, DefaultLists, m)
    <2>1. /\ n \in [Lists -> Seq(Text)]
          /\ \A l \in Lists \ {"cidrs"} : n[l] # <<>>
          /\ m => \A l \in {"bodyTypes", "complexityTypes"} : Contains(n[l], Multipart)
          /\ NormalizeLists(n, DefaultLists, m) = n
      BY ListsSettled, Zenon DEF Accepted
    <2>2. d.lists = n /\ d.flags.multipart = m
      BY <1>2, Zenon
    <2> HIDE DEF n, m
    <2> QED BY <2>1, <2>2, Zenon
  <1>5. d.texts \in [TextFields -> Text] /\ texts(d.texts) = d.texts
    <2>1. ASSUME NEW f \in TextFields
          PROVE  d.texts[f] \in Text /\ NormalizeText(f, d.texts[f]) = d.texts[f]
      <3>1. c.texts[f] \in Text
        BY Zenon DEF Accepted
      <3>2. d.texts[f] = NormalizeText(f, c.texts[f])
        BY <1>2, Zenon DEF texts
      <3> QED BY <3>1, <3>2, TextSettled, Zenon
    <2>2. d.texts = [f \in TextFields |-> d.texts[f]]
      BY <1>2, Zenon DEF texts
    <2>3. texts(d.texts) = [f \in TextFields |-> d.texts[f]]
      BY <2>1, Zenon DEF texts
    <2>4. d.texts \in [TextFields -> Text]
      BY <2>1, <2>2, Zenon
    <2> QED BY <2>2, <2>3, <2>4, Zenon
  <1>6. d.strategy \in Strategies /\ strategy(d.strategy) = d.strategy
    BY <1>2 DEF strategy, Strategies
  <1>7. Accepted(d)
    BY <1>2, <1>3, <1>4, <1>5, Zenon DEF Accepted
  <1>8. Usable(d)
    BY <1>3, <1>4, <1>6, Zenon DEF Usable
  <1>9. e = d
    <2>1. e = [numbers |-> d.numbers, strategy |-> d.strategy, lists |-> d.lists,
               texts |-> d.texts, flags |-> d.flags]
      BY <1>1, <1>3, <1>4, <1>5, <1>6, Zenon
    <2>2. d = [numbers |-> d.numbers, strategy |-> d.strategy, lists |-> d.lists,
               texts |-> d.texts, flags |-> d.flags]
      BY <1>1, <1>2, Zenon
    <2> QED BY <2>1, <2>2, Zenon
  <1> QED BY <1>7, <1>8, <1>9 DEF d, e

-----------------------------------------------------------------------------
\* What the middleware answers to a request.
Answers == {[req |-> r, result |-> AnalyzeFingerprint(r, NormalizeConfig(given))] : r \in Requests}

\* The arrays whose contents only the caller's writing and normalizeConfig
\* change, and the default lists, which nothing changes.
GoodHeap(heap) ==
    /\ heap \in [Arrays -> Seq(Text)]
    /\ \A l \in Lists \ {"cidrs"} : heap[<<"package", l>>] = DefaultLists[l]

\* A Config whose lists are slices.
GoodConfig(c) ==
    /\ c.numbers \in Settings
    /\ c.lists \in [Lists -> Arrays]
    /\ c.texts \in [TextFields -> Text]
    /\ c.flags.multipart \in BOOLEAN

\* The caller has never had a slice of a default list of the package, nor of a
\* list the middleware keeps.
CallersArrays == {"caller", "DefaultConfig"} \X Lists

Own(maker) == [l \in Lists |-> <<maker, l>>]

Inv ==
    /\ GoodHeap(arrays)
    /\ GoodConfig(raw)
    /\ held \subseteq CallersArrays
    /\ \A l \in Lists : raw.lists[l] \in held
    /\ ~built => served = <<>>
    /\ built => used.lists = Own("Middleware")
    /\ built => cfg = NormalizeConfig(given) /\ Accepted(given)
    /\ served \in Seq(Answers)

-----------------------------------------------------------------------------
\* The default lists are what they were when the package was loaded.
LEMMA PackageDefaults ==
    ASSUME NEW heap, GoodHeap(heap)
    PROVE  PackageLists(heap) = DefaultLists
  <1>1. DefaultLists = [l \in Lists \ {"cidrs"} |-> DefaultLists[l]]
    BY ConfigAssumption, Zenon
  <1> QED BY <1>1, Zenon DEF PackageLists, GoodHeap

\* A Config can be passed to Middleware whatever its arrays hold.
LEMMA ValueAccepted ==
    ASSUME NEW heap, GoodHeap(heap), NEW c, GoodConfig(c)
    PROVE  Accepted(ValueOf(heap, c))
  <1> DEFINE lists == [l \in Lists |-> heap[c.lists[l]]]
  <1>1. lists \in [Lists -> Seq(Text)]
    BY Zenon DEF GoodHeap, GoodConfig
  <1>2. ValueOf(heap, c) = WithLists(c, lists)
    BY Zenon DEF ValueOf
  <1> DEFINE d == ValueOf(heap, c)
  <1> HIDE DEF lists, d
  <1>3. /\ d.numbers = c.numbers /\ d.lists = lists /\ d.texts = c.texts /\ d.flags = c.flags
    BY <1>2 DEF WithLists, d
  <1>4. Accepted(d)
    BY <1>1, <1>3, Zenon DEF Accepted, GoodConfig
  <1> QED BY <1>4 DEF d

\* normalizeConfig puts every list in an array of its maker and leaves the other
\* arrays as they are; what it returns reads as the normalised Config.
LEMMA NormalizedIsApart ==
    ASSUME NEW heap, GoodHeap(heap), NEW c, GoodConfig(c),
           NEW maker \in {"DefaultConfig", "Middleware"}
    PROVE  LET n == Normalized(heap, c, maker)
           IN  /\ GoodHeap(n.heap)
               /\ GoodConfig(n.config) /\ n.config.lists = Own(maker)
               /\ \A a \in Arrays : a[1] # maker => n.heap[a] = heap[a]
               /\ ValueOf(n.heap, n.config) = NormalizeConfig(ValueOf(heap, c))
  <1> DEFINE n == Normalized(heap, c, maker)
             value == NormalizeConfig(ValueOf(heap, c))
             after == [a \in Arrays |-> IF Own(maker)[a[2]] = a THEN value.lists[a[2]] ELSE heap[a]]
  <1>1. n = [config |-> WithLists(value, Own(maker)), heap |-> after]
    <2>1. value = NormalizeWith(ValueOf(heap, c), PackageLists(heap))
      BY PackageDefaults, Zenon DEF NormalizeConfig
    <2>2. [l \in Lists |-> ListArray(heap, c, l, maker)] = Own(maker)
      BY Zenon DEF ListArray, Own
    <2> HIDE DEF value
    <2> QED BY <2>1, <2>2, Zenon DEF Normalized
  <1>2. Accepted(value)
    BY ValueAccepted, NormalizedIsUsable, Zenon
  <1> HIDE DEF value
  <1> HIDE DEF n, after
  <1>3. n.config = WithLists(value, Own(maker)) /\ n.heap = after
    BY <1>1
  <1>4. /\ n.config.numbers = value.numbers /\ n.config.strategy = value.strategy
        /\ n.config.lists = Own(maker) /\ n.config.texts = value.texts
        /\ n.config.flags = value.flags
    <2> DEFINE d == n.config
               own == Own(maker)
    <2> HIDE DEF d, own
    <2>1. d = WithLists(value, own)
      BY <1>3 DEF d, own
    <2>2. /\ d.numbers = value.numbers /\ d.strategy = value.strategy /\ d.lists = own
          /\ d.texts = value.texts /\ d.flags = value.flags
      BY <2>1 DEF WithLists
    <2> QED BY <2>2 DEF d, own
  <1>5. \A a \in Arrays : a[2] \in Lists /\ a = <<a[1], a[2]>>
    BY DEF Arrays
  <1>6. \A l \in Lists : <<maker, l>> \in Arrays /\ <<"package", l>> \in Arrays
    BY DEF Arrays
  <1>7. \A a \in Arrays : Own(maker)[a[2]] = a <=> a[1] = maker
    <2>1. \A a \in Arrays : Own(maker)[a[2]] = <<maker, a[2]>>
      BY <1>5, Zenon DEF Own
    <2>2. \A a \in Arrays : <<maker, a[2]>> = a <=> a[1] = maker
      BY <1>5
    <2> QED BY <2>1, <2>2, Zenon
  <1>8. \A a \in Arrays : after[a] = IF a[1] = maker THEN value.lists[a[2]] ELSE heap[a]
    BY <1>7, Zenon DEF after
  <1>9. \A a \in Arrays : a[1] # maker => after[a] = heap[a]
    BY <1>8, Zenon
  <1>10. \A l \in Lists : after[<<maker, l>>] = value.lists[l]
    <2> SUFFICES ASSUME NEW l \in Lists PROVE after[<<maker, l>>] = value.lists[l]
      OBVIOUS
    <2> DEFINE a == <<maker, l>>
    <2>1. a \in Arrays /\ a[1] = maker /\ a[2] = l
      BY <1>6
    <2> HIDE DEF a
    <2>2. after[a] = value.lists[l]
      BY <1>8, <2>1, Zenon
    <2> QED BY <2>2 DEF a
  <1>11. GoodHeap(after)
    <2>1. after \in [Arrays -> Seq(Text)]
      <3>1. ASSUME NEW a \in Arrays PROVE after[a] \in Seq(Text)
        <4>1. value.lists[a[2]] \in Seq(Text) /\ heap[a] \in Seq(Text)
          BY <1>2, <1>5, Zenon DEF Accepted, GoodHeap
        <4> QED BY <1>8, <4>1, Zenon
      <3> QED BY <3>1, Zenon DEF after
    <2>2. ASSUME NEW l \in Lists \ {"cidrs"} PROVE after[<<"package", l>>] = DefaultLists[l]
      <3> DEFINE a == <<"package", l>>
      <3>1. a \in Arrays /\ a[1] # maker
        BY <1>6
      <3>2. heap[a] = DefaultLists[l]
        BY Zenon DEF GoodHeap
      <3> HIDE DEF a
      <3>3. after[a] = DefaultLists[l]
        BY <1>9, <3>1, <3>2, Zenon
      <3> QED BY <3>3 DEF a
    <2> QED BY <2>1, <2>2, Zenon DEF GoodHeap
  <1>12. GoodConfig(n.config)
    <2>1. Own(maker) \in [Lists -> Arrays]
      BY <1>6, Zenon DEF Own
    <2> QED BY <1>2, <1>4, <2>1, Zenon DEF GoodConfig, Accepted
  <1>13. ValueOf(n.heap, n.config) = value
    <2> DEFINE lists == [l \in Lists |-> after[n.config.lists[l]]]
    <2>1. ASSUME NEW l \in Lists PROVE after[n.config.lists[l]] = value.lists[l]
      <3>1. n.config.lists[l] = <<maker, l>>
        BY <1>4, Zenon DEF Own
      <3> QED BY <1>10, <3>1, Zenon
    <2>2. lists = [l \in Lists |-> value.lists[l]]
      BY <2>1, Zenon
    <2>3. value.lists = [l \in Lists |-> value.lists[l]]
      BY <1>2, Zenon DEF Accepted
    <2>4. ValueOf(n.heap, n.config) = WithLists(n.config, value.lists)
      BY <1>3, <2>2, <2>3, Zenon DEF ValueOf
    <2>5. WithLists(n.config, value.lists) =
            [numbers |-> value.numbers, strategy |-> value.strategy, lists |-> value.lists,
             texts |-> value.texts, flags |-> value.flags]
      BY <1>4, Zenon DEF WithLists
    <2>6. value = [numbers |-> value.numbers, strategy |-> value.strategy, lists |-> value.lists,
                   texts |-> value.texts, flags |-> value.flags]
      <3> DEFINE v == ValueOf(heap, c)
                 w == NormalizeWith(v, DefaultLists)
                 p == NormalizeNumbers(v.numbers)
                 q == IF v.strategy \in Strategies THEN v.strategy ELSE "head"
                 r == NormalizeLists(v.lists, DefaultLists, v.flags.multipart)
                 t == [f \in TextFields |-> NormalizeText(f, v.texts[f])]
                 u == v.flags
      <3>1. w = [numbers |-> p, strategy |-> q, lists |-> r, texts |-> t, flags |-> u]
        BY Zenon DEF NormalizeWith
      <3> HIDE DEF p, q, r, t, u, w
      <3>2. w = [numbers |-> w.numbers, strategy |-> w.strategy, lists |-> w.lists,
                 texts |-> w.texts, flags |-> w.flags]
        BY <3>1
      <3>3. value = w
        BY Zenon DEF value, w, NormalizeConfig
      <3> QED BY <3>2, <3>3, Zenon
    <2> QED BY <2>4, <2>5, <2>6, Zenon
  <1>14. GoodHeap(n.heap) /\ \A a \in Arrays : a[1] # maker => n.heap[a] = heap[a]
    BY <1>3, <1>9, <1>11, Zenon
  <1> QED BY <1>4, <1>12, <1>13, <1>14, Zenon DEF n, value

LEMMA LiteralIsGood == GoodConfig(Literal)
  <1> DEFINE d == Default
  <1>1. d \in DefaultRecord
    BY ConfigAssumption
  <1> HIDE DEF d
  <1>2. [maxRead |-> d.maxRead, maxDecode |-> d.maxRead, chunk |-> d.chunk, sample |-> d.sample,
         depth |-> d.depth, fields |-> d.fields, charset |-> d.charset] \in Settings
    BY <1>1 DEF DefaultRecord, Settings
  <1>3. Literal.numbers \in Settings
    BY <1>2 DEF Literal, d
  <1>4. Literal.lists \in [Lists -> Arrays]
    BY DEF Literal, Arrays
  <1>5. Literal.texts \in [TextFields -> Text]
    <2>1. d.algorithm \in Text /\ d.version \in Text
      BY <1>1 DEF DefaultRecord
    <2>2. \A f \in TextFields : Default[f] \in Text
      BY <2>1 DEF TextFields, d
    <2>3. Literal.texts = [f \in TextFields |-> Default[f]]
      BY DEF Literal
    <2> QED BY <2>2, <2>3, Zenon
  <1>6. Literal.flags.multipart \in BOOLEAN
    BY DEF Literal
  <1> QED BY <1>3, <1>4, <1>5, <1>6, Zenon DEF GoodConfig

\* Copying the default lists changes none of them.
LEMMA CopiesAreGood ==
    ASSUME NEW heap, GoodHeap(heap)
    PROVE  /\ GoodHeap(Copied(heap))
           /\ \A a \in Arrays : a[1] # "literal" => Copied(heap)[a] = heap[a]
  <1>1. \A l \in Lists : <<"package", l>> \in Arrays
    BY DEF Arrays
  <1>2. \A a \in Arrays : a[2] \in Lists
    BY DEF Arrays
  <1>3. Copied(heap) \in [Arrays -> Seq(Text)]
    BY <1>1, <1>2, Zenon DEF Copied, GoodHeap
  <1>4. \A a \in Arrays : a[1] # "literal" => Copied(heap)[a] = heap[a]
    BY Zenon DEF Copied
  <1>5. ASSUME NEW l \in Lists \ {"cidrs"} PROVE Copied(heap)[<<"package", l>>] = DefaultLists[l]
    <2> DEFINE a == <<"package", l>>
    <2>1. a \in Arrays /\ a[1] # "literal"
      BY <1>1
    <2>2. heap[a] = DefaultLists[l]
      BY Zenon DEF GoodHeap
    <2> HIDE DEF a
    <2>3. Copied(heap)[a] = DefaultLists[l]
      BY <1>4, <2>1, <2>2, Zenon
    <2> QED BY <2>3 DEF a
  <1> QED BY <1>3, <1>4, <1>5, Zenon DEF GoodHeap

LEMMA OwnInArrays ==
    /\ CallersArrays \subseteq Arrays
    /\ \A l \in Lists :
         /\ <<"caller", l>> \in CallersArrays /\ <<"DefaultConfig", l>> \in CallersArrays
         /\ <<"package", l>> \notin CallersArrays /\ <<"Middleware", l>> \notin CallersArrays
    /\ \A l \in Lists : <<"package", l>> \in Arrays /\ <<"Middleware", l>> \in Arrays
  BY DEF CallersArrays, Arrays

\* A caller starts from a configuration of its own.
LEMMA InitInv == Init => Inv
  <1> SUFFICES ASSUME Init PROVE Inv
    OBVIOUS
  <1>1. PICK c \in RawConfigs :
          /\ raw = WithLists(c, Own("caller"))
          /\ arrays = [a \in Arrays |->
                         IF a[1] = "caller" THEN c.lists[a[2]]
                         ELSE IF a[1] = "package" /\ a[2] # "cidrs" THEN DefaultLists[a[2]]
                         ELSE <<>>]
    BY Zenon DEF Init, Own
  <1>2. held = {<<"caller", l>> : l \in Lists} /\ ~built /\ served = <<>>
    BY Zenon DEF Init
  <1>3. Accepted(c)
    BY InputAssumption DEF Accepted, Settings
  <1>4. GoodHeap(arrays)
    <2>1. ASSUME NEW a \in Arrays PROVE arrays[a] \in Seq(Text)
      <3>1. a[2] \in Lists
        BY DEF Arrays
      <3>2. c.lists[a[2]] \in Seq(Text)
        BY <1>3, <3>1, Zenon DEF Accepted
      <3>3. a[2] # "cidrs" => DefaultLists[a[2]] \in Seq(Text)
        BY <3>1, ConfigAssumption, Zenon
      <3>4. <<>> \in Seq(Text)
        OBVIOUS
      <3> QED BY <1>1, <3>2, <3>3, <3>4, Zenon
    <2>2. arrays \in [Arrays -> Seq(Text)]
      BY <1>1, <2>1, Zenon
    <2>3. ASSUME NEW l \in Lists \ {"cidrs"} PROVE arrays[<<"package", l>>] = DefaultLists[l]
      <3> DEFINE a == <<"package", l>>
      <3>1. a \in Arrays /\ a[1] = "package" /\ a[1] # "caller" /\ a[2] = l /\ l # "cidrs"
        BY OwnInArrays
      <3> HIDE DEF a
      <3>2. arrays[a] = DefaultLists[l]
        BY <1>1, <3>1, Zenon
      <3> QED BY <3>2 DEF a
    <2> QED BY <2>2, <2>3, Zenon DEF GoodHeap
  <1>5. GoodConfig(raw)
    <2>1. Own("caller") \in [Lists -> Arrays]
      BY OwnInArrays, Zenon DEF Own
    <2> DEFINE own == Own("caller")
    <2> HIDE DEF own
    <2>2. /\ raw.numbers = c.numbers /\ raw.lists = own /\ raw.texts = c.texts
          /\ raw.flags = c.flags
      BY <1>1 DEF WithLists, own
    <2> QED BY <1>3, <2>1, <2>2, Zenon DEF GoodConfig, Accepted, own
  <1>6. held \subseteq CallersArrays /\ \A l \in Lists : raw.lists[l] \in held
    <2>1. raw.lists = Own("caller")
      BY <1>1 DEF WithLists
    <2> QED BY <1>2, <2>1, OwnInArrays, Zenon DEF Own
  <1>7. served \in Seq(Answers)
    BY <1>2
  <1> QED BY <1>2, <1>4, <1>5, <1>6, <1>7, Zenon DEF Inv

\* DefaultConfig gives its caller arrays of its own.
LEMMA DefaultStep == Inv /\ CallDefaultConfig => Inv'
  <1> SUFFICES ASSUME Inv, CallDefaultConfig PROVE Inv'
    OBVIOUS
  <1> DEFINE n == Normalized(Copied(arrays), Literal, "DefaultConfig")
             lists == [l \in Lists |-> IF arrays[raw.lists[l]] # <<>> THEN raw.lists[l]
                                       ELSE n.config.lists[l]]
  <1>1. /\ ~built /\ built' = built /\ given' = given /\ served' = served
        /\ arrays' = n.heap
        /\ raw' = [numbers |-> n.config.numbers, strategy |-> n.config.strategy,
                   lists |-> lists, texts |-> n.config.texts, flags |-> raw.flags]
        /\ held' = held \cup {n.config.lists[l] : l \in Lists}
    BY Zenon DEF CallDefaultConfig
  <1>2. /\ GoodHeap(n.heap) /\ GoodConfig(n.config)
        /\ n.config.lists = Own("DefaultConfig")
    <2>1. GoodHeap(Copied(arrays))
      BY CopiesAreGood, Zenon DEF Inv
    <2> QED BY <2>1, LiteralIsGood, NormalizedIsApart, Zenon
  <1> HIDE DEF n
  <1>3. \A l \in Lists : n.config.lists[l] \in CallersArrays
    BY <1>2, OwnInArrays, Zenon DEF Own
  <1>4. held' \subseteq CallersArrays
    BY <1>1, <1>3, Zenon DEF Inv
  <1>5. \A l \in Lists : lists[l] \in held'
    BY <1>1, Zenon DEF Inv
  <1>6. lists \in [Lists -> Arrays]
    BY <1>4, <1>5, OwnInArrays, Zenon
  <1> HIDE DEF lists
  <1>7. /\ raw'.numbers = n.config.numbers /\ raw'.lists = lists
        /\ raw'.texts = n.config.texts /\ raw'.flags = raw.flags
    BY <1>1
  <1>8. GoodConfig(raw')
    BY <1>2, <1>6, <1>7, Zenon DEF GoodConfig, Inv
  <1>9. served' \in Seq(Answers')
    <2>1. Answers' = Answers
      BY <1>1 DEF Answers
    <2> QED BY <1>1, <2>1, Zenon DEF Inv
  <1>10. GoodHeap(arrays') /\ ~built' /\ served' = <<>>
    BY <1>1, <1>2, Zenon DEF Inv
  <1>11. \A l \in Lists : raw'.lists[l] \in held'
    BY <1>5, <1>7, Zenon
  <1> QED BY <1>4, <1>8, <1>9, <1>10, <1>11, Zenon DEF Inv

\* Middleware keeps arrays of its own, with the normalised Config in them.
LEMMA MiddlewareStep == Inv /\ Middleware => Inv'
  <1> SUFFICES ASSUME Inv, Middleware PROVE Inv'
    OBVIOUS
  <1> DEFINE n == Normalized(arrays, raw, "Middleware")
  <1>1. /\ ~built /\ built' /\ arrays' = n.heap /\ used' = n.config
        /\ given' = ValueOf(arrays, raw) /\ UNCHANGED <<raw, held, served>>
    BY DEF Middleware
  <1>2. /\ GoodHeap(n.heap) /\ n.config.lists = Own("Middleware")
        /\ ValueOf(n.heap, n.config) = NormalizeConfig(ValueOf(arrays, raw))
    BY NormalizedIsApart, Zenon DEF Inv
  <1>3. Accepted(ValueOf(arrays, raw))
    BY ValueAccepted, Zenon DEF Inv
  <1> HIDE DEF n
  <1>4. cfg' = ValueOf(arrays', used')
    BY DEF cfg
  <1>5. cfg' = NormalizeConfig(given') /\ Accepted(given')
    BY <1>1, <1>2, <1>3, <1>4, Zenon
  <1>6. GoodHeap(arrays') /\ used'.lists = Own("Middleware")
    BY <1>1, <1>2, Zenon
  <1>7. served' \in Seq(Answers')
    BY <1>1 DEF Inv
  <1>8. /\ GoodConfig(raw') /\ held' \subseteq CallersArrays
        /\ \A l \in Lists : raw'.lists[l] \in held'
    BY <1>1, Zenon DEF Inv
  <1> QED BY <1>1, <1>5, <1>6, <1>7, <1>8, Zenon DEF Inv

\* Writing into its first place keeps an array one of texts.
LEMMA Written ==
    ASSUME NEW s \in Seq(Text), s # <<>>, NEW text \in Text
    PROVE  [s EXCEPT ![1] = text] \in Seq(Text)
  OBVIOUS

\* The caller writes into its own arrays: into none that the middleware keeps,
\* and into no default list.
LEMMA WriteStep == Inv /\ CallerWrites => Inv'
  <1> SUFFICES ASSUME Inv, CallerWrites PROVE Inv'
    OBVIOUS
  <1>1. PICK array \in held, text \in Overwrites :
          /\ arrays[array] # <<>>
          /\ arrays' = [arrays EXCEPT ![array] = [@ EXCEPT ![1] = text]]
    BY Zenon DEF CallerWrites
  <1>2. UNCHANGED <<raw, held, built, used, given, served>>
    BY DEF CallerWrites
  <1>3. array \in CallersArrays /\ array \in Arrays
    BY OwnInArrays, Zenon DEF Inv
  <1>4. arrays \in [Arrays -> Seq(Text)]
    BY Zenon DEF Inv, GoodHeap
  <1>5. [arrays[array] EXCEPT ![1] = text] \in Seq(Text)
    <2>1. arrays[array] \in Seq(Text) /\ text \in Text
      BY <1>3, <1>4, InputAssumption, Zenon
    <2> QED BY <1>1, <2>1, Written, Zenon
  <1>6. /\ arrays' \in [Arrays -> Seq(Text)]
        /\ \A a \in Arrays : a # array => arrays'[a] = arrays[a]
    BY <1>1, <1>3, <1>4, <1>5, Zenon
  <1>7. \A l \in Lists : arrays'[<<"package", l>>] = arrays[<<"package", l>>]
                         /\ arrays'[<<"Middleware", l>>] = arrays[<<"Middleware", l>>]
    BY <1>3, <1>6, OwnInArrays, Zenon
  <1>8. GoodHeap(arrays')
    BY <1>6, <1>7, Zenon DEF Inv, GoodHeap
  <1>9. built => cfg' = cfg
    <2> SUFFICES ASSUME built PROVE cfg' = cfg
      OBVIOUS
    <2>1. used.lists = Own("Middleware")
      BY Zenon DEF Inv
    <2>2. [l \in Lists |-> arrays'[used.lists[l]]] = [l \in Lists |-> arrays[used.lists[l]]]
      <3>1. \A l \in Lists : used.lists[l] = <<"Middleware", l>>
        BY <2>1, Zenon DEF Own
      <3>2. ASSUME NEW l \in Lists PROVE arrays'[used.lists[l]] = arrays[used.lists[l]]
        <4>1. used.lists[l] = <<"Middleware", l>>
          BY <3>1
        <4>2. arrays'[<<"Middleware", l>>] = arrays[<<"Middleware", l>>]
          BY <1>7
        <4> QED BY <4>1, <4>2
      <3> QED BY <3>2, Zenon
    <2>3. cfg' = WithLists(used, [l \in Lists |-> arrays'[used.lists[l]]])
      BY <1>2 DEF cfg, ValueOf, WithLists
    <2> QED BY <2>2, <2>3, Zenon DEF cfg, ValueOf
  <1>10. Answers' = Answers
    BY <1>2 DEF Answers
  <1> QED BY <1>2, <1>8, <1>9, <1>10, Zenon DEF Inv

LEMMA ServeStep == Inv /\ Serve => Inv'
  <1> SUFFICES ASSUME Inv, Serve PROVE Inv'
    OBVIOUS
  <1>1. PICK req \in Requests :
          served' = Append(served, [req |-> req, result |-> AnalyzeFingerprint(req, cfg)])
    BY Zenon DEF Serve
  <1>2. built /\ UNCHANGED <<arrays, raw, held, built, used, given>>
    BY DEF Serve
  <1>3. [req |-> req, result |-> AnalyzeFingerprint(req, cfg)] \in Answers
    BY <1>2, Zenon DEF Answers, Inv
  <1>4. Answers' = Answers /\ cfg' = cfg
    BY <1>2 DEF Answers, cfg, ValueOf, WithLists
  <1>5. served' \in Seq(Answers)
    BY <1>1, <1>3 DEF Inv
  <1> QED BY <1>2, <1>4, <1>5, Zenon DEF Inv

\* Once it is built, the middleware keeps the settings it was given, whatever
\* its caller writes, and has answered by them only.
THEOREM AnsweredAsBuilt == Spec => []Inv
  <1>1. Inv /\ [Next]_vars => Inv'
    <2> SUFFICES ASSUME Inv, [Next]_vars PROVE Inv'
      OBVIOUS
    <2>1. CASE CallDefaultConfig
      BY <2>1, DefaultStep
    <2>2. CASE Middleware
      BY <2>2, MiddlewareStep
    <2>3. CASE CallerWrites
      BY <2>3, WriteStep
    <2>4. CASE Serve
      BY <2>4, ServeStep
    <2>5. CASE UNCHANGED vars
      <3>1. UNCHANGED <<arrays, raw, held, built, used, given, served>>
        BY <2>5 DEF vars
      <3>2. Answers' = Answers /\ cfg' = cfg
        BY <3>1 DEF Answers, cfg, ValueOf, WithLists
      <3> QED BY <3>1, <3>2, Zenon DEF Inv
    <2> QED BY <2>1, <2>2, <2>3, <2>4, <2>5 DEF Next
  <1> QED BY <1>1, InitInv, PTL DEF Spec

\* The middleware runs with settings the other parts can use, and normalising
\* them again changes nothing.
THEOREM ConfigUsable == Spec => []ConfigIsUsable
  <1>1. Inv => ConfigIsUsable
    BY NormalizedIsUsable, Zenon DEF Inv, ConfigIsUsable
  <1> QED BY <1>1, AnsweredAsBuilt, PTL

\* normalizeConfig copies its lists and the defaults: a caller that writes into
\* the ones it passed, or into those DefaultConfig gave it, changes no
\* fingerprint and no default.
THEOREM SettledOnceBuilt == Spec => []SettledWhenBuilt
  <1>1. Inv => SettledWhenBuilt
    <2> SUFFICES ASSUME Inv, NEW i \in DOMAIN served
                 PROVE  served[i].result = AnalyzeFingerprint(served[i].req, NormalizeConfig(given))
      BY DEF SettledWhenBuilt
    <2>1. served[i] \in Answers
      BY DEF Inv
    <2> QED BY <2>1 DEF Answers
  <1> QED BY <1>1, AnsweredAsBuilt, PTL

-----------------------------------------------------------------------------
\* The fields of the weak hash come from the configured headers and from TLS.
LEMMA WeakOfAlike ==
    ASSUME NEW r, NEW s, NEW c, r.tls = s.tls,
           \A h \in Range(c.lists.headers) : HeaderValue(r, h) = HeaderValue(s, h)
    PROVE  WeakFields(r, c) = WeakFields(s, c)
  <1>1. HeaderFields(r, c) = HeaderFields(s, c)
    <2> DEFINE named(q) == {h \in Range(c.lists.headers) : HeaderValue(q, h) # <<>>}
    <2>1. named(r) = named(s)
      OBVIOUS
    <2>2. \A h \in named(r) : HeaderValue(r, h) = HeaderValue(s, h)
      OBVIOUS
    <2> QED BY <2>1, <2>2 DEF HeaderFields
  <1>2. TLSFields(r, c) = TLSFields(s, c)
    BY DEF TLSFields
  <1> QED BY <1>1, <1>2 DEF WeakFields

\* The address is a field of its own unless a header has its name.
LEMMA AddressIsApart ==
    ASSUME NEW r, NEW c, "client.ip" \notin Range(c.lists.headers)
    PROVE  "client.ip" \notin DOMAIN WeakFields(r, c)
  <1>1. "client.ip" \notin DOMAIN HeaderFields(r, c)
    BY DEF HeaderFields
  <1>2. "client.ip" \notin DOMAIN TLSFields(r, c)
    BY DEF TLSFields
  <1> QED BY <1>1, <1>2 DEF WeakFields, Assigned

LEMMA ClientDomain ==
    ASSUME NEW r, NEW c
    PROVE  /\ DOMAIN ClientFields(r, c) \subseteq {"client.ip"}
           /\ ClientFields(r, c) = [n \in DOMAIN ClientFields(r, c) |-> ClientFields(r, c)[n]]
  BY DEF ClientFields

\* What is assigned to names not used before can be told from the result.
LEMMA AssignedApart ==
    ASSUME NEW w, NEW f, NEW g,
           f = [n \in DOMAIN f |-> f[n]], g = [n \in DOMAIN g |-> g[n]],
           DOMAIN w \cap DOMAIN f = {}, DOMAIN w \cap DOMAIN g = {},
           Assigned(w, f) = Assigned(w, g)
    PROVE  f = g
  <1>1. /\ DOMAIN Assigned(w, f) = DOMAIN w \cup DOMAIN f
        /\ DOMAIN Assigned(w, g) = DOMAIN w \cup DOMAIN g
    BY DEF Assigned
  <1>2. DOMAIN f = DOMAIN g
    BY <1>1
  <1>3. ASSUME NEW n \in DOMAIN f PROVE f[n] = g[n]
    <2>1. Assigned(w, f)[n] = f[n]
      BY DEF Assigned
    <2>2. Assigned(w, g)[n] = g[n]
      BY <1>2 DEF Assigned
    <2> QED BY <2>1, <2>2
  <1> QED BY <1>2, <1>3

\* analyzeFingerprint: requests alike in the configured headers and in TLS have
\* the same weak hash wherever they come from, and the same strong hash exactly
\* when they come from the same address or no address is included.
THEOREM AddressInStrongHashOnly == Spec => []AddressOnlyInStrongHash
  <1>1. Inv => AddressOnlyInStrongHash
    <2> SUFFICES ASSUME Inv, NEW i \in DOMAIN served, NEW j \in DOMAIN served,
                        Alike(served[i].req, served[j].req),
                        "client.ip" \notin Range(cfg.lists.headers)
                 PROVE  /\ served[i].result.weak = served[j].result.weak
                        /\ served[i].result.strong = served[j].result.strong <=>
                             ClientFields(served[i].req, cfg) = ClientFields(served[j].req, cfg)
      BY DEF AddressOnlyInStrongHash
    <2> DEFINE r == served[i].req
               s == served[j].req
               w == WeakFields(r, cfg)
               f == ClientFields(r, cfg)
               g == ClientFields(s, cfg)
    <2>1. /\ served[i].result = AnalyzeFingerprint(r, cfg)
          /\ served[j].result = AnalyzeFingerprint(s, cfg)
      <3>1. served # <<>> /\ built /\ cfg = NormalizeConfig(given)
        BY DEF Inv
      <3>2. served[i] \in Answers /\ served[j] \in Answers
        BY DEF Inv
      <3> QED BY <3>1, <3>2 DEF Answers
    <2>2. /\ served[i].result.weak = HashFields(w, cfg)
          /\ served[j].result.weak = HashFields(WeakFields(s, cfg), cfg)
          /\ served[i].result.strong = HashFields(Assigned(w, f), cfg)
          /\ served[j].result.strong = HashFields(Assigned(WeakFields(s, cfg), g), cfg)
      BY <2>1 DEF AnalyzeFingerprint, Fields
    <2>3. WeakFields(s, cfg) = w
      BY WeakOfAlike DEF Alike
    <2>4. /\ "client.ip" \notin DOMAIN w
          /\ DOMAIN f \subseteq {"client.ip"} /\ f = [n \in DOMAIN f |-> f[n]]
          /\ DOMAIN g \subseteq {"client.ip"} /\ g = [n \in DOMAIN g |-> g[n]]
      BY AddressIsApart, ClientDomain
    <2> HIDE DEF r, s, w, f, g
    <2>5. Assigned(w, f) = Assigned(w, g) <=> f = g
      BY <2>4, AssignedApart
    <2>6. HashFields(Assigned(w, f), cfg) = HashFields(Assigned(w, g), cfg)
            <=> Assigned(w, f) = Assigned(w, g)
      BY DEF HashFields
    <2>7. /\ served[i].result.weak = served[j].result.weak
          /\ served[i].result.strong = served[j].result.strong <=> f = g
      BY <2>2, <2>3, <2>5, <2>6
    <2> QED BY <2>7 DEF f, g, r, s
  <1> QED BY <1>1, AnsweredAsBuilt, PTL

-----------------------------------------------------------------------------
\* What was answered, and by which configuration.
LEMMA Answered ==
    ASSUME Inv, NEW i \in DOMAIN served
    PROVE  /\ cfg = NormalizeConfig(given) /\ Accepted(given)
           /\ served[i].req \in Requests
           /\ served[i].result = AnalyzeFingerprint(served[i].req, cfg)
  <1>1. served \in Seq(Answers)
    BY DEF Inv
  <1>2. i \in 1 .. Len(served)
    BY <1>1, LenProperties
  <1>3. served[i] \in Answers
    BY <1>1, <1>2, ElementOfSeq, Zenon
  <1>4. built
    <2>1. served # <<>>
      BY <1>1, <1>2
    <2> QED BY <2>1, Zenon DEF Inv
  <1>5. PICK r \in Requests :
          served[i] = [req |-> r, result |-> AnalyzeFingerprint(r, NormalizeConfig(given))]
    BY <1>3, Zenon DEF Answers
  <1>6. served[i].req = r /\ served[i].result = AnalyzeFingerprint(r, NormalizeConfig(given))
    <2> DEFINE a == AnalyzeFingerprint(r, NormalizeConfig(given))
    <2>1. served[i] = [req |-> r, result |-> a]
      BY <1>5
    <2> HIDE DEF a
    <2>2. served[i].req = r /\ served[i].result = a
      BY <2>1
    <2> QED BY <2>2 DEF a
  <1>7. cfg = NormalizeConfig(given) /\ Accepted(given)
    BY <1>4, Zenon DEF Inv
  <1> QED BY <1>6, <1>7, Zenon

\* The address of the client is a field of the strong hash, whatever the others.
LEMMA AddressIsNamed ==
    ASSUME NEW r, NEW c, c.flags.ip, ClientIP(r, c) # NoAddress
    PROVE  Names(AnalyzeFingerprint(r, c), ClientIP(r, c))
  <1> DEFINE a == ClientIP(r, c)
             f == ClientFields(r, c)
             w == WeakFields(r, c)
             all == Assigned(w, f)
  <1>1. f = [n \in {"client.ip"} |-> <<a>>]
    BY Zenon DEF ClientFields
  <1> HIDE DEF a
  <1>2. DOMAIN f = {"client.ip"} /\ f["client.ip"] = <<a>>
    BY <1>1, Zenon
  <1> HIDE DEF f, w
  <1>3. "client.ip" \in DOMAIN all /\ all["client.ip"] = <<a>>
    <2>1. "client.ip" \in DOMAIN w \cup DOMAIN f /\ "client.ip" \in DOMAIN f
      BY <1>2
    <2> QED BY <1>2, <2>1, Zenon DEF Assigned
  <1> HIDE DEF all
  <1>4. AnalyzeFingerprint(r, c).strong.fields = all
    BY Zenon DEF AnalyzeFingerprint, HashFields, Fields, all, w, f
  <1> QED BY <1>3, <1>4, Zenon DEF Names, a

\* Without an address no field is added.
LEMMA AddressIncluded ==
    ASSUME NEW r, NEW c, AnalyzeFingerprint(r, c).flags.ip
    PROVE  c.flags.ip /\ ClientIP(r, c) # NoAddress
  <1>1. ClientFields(r, c) # <<>>
    BY Zenon DEF AnalyzeFingerprint
  <1> QED BY <1>1, Zenon DEF ClientFields

\* The lists of a proxy in a normalised configuration.
LEMMA ProxyLists ==
    ASSUME NEW g, Accepted(g)
    PROVE  /\ NormalizeConfig(g).flags = g.flags
           /\ g.lists.cidrs \in Seq(Text) /\ g.lists.proxies \in Seq(Text)
           /\ NormalizeConfig(g).lists.cidrs = Distinct("cidrs", g.lists.cidrs)
           /\ Distinct("proxies", g.lists.proxies) # <<>> =>
                NormalizeConfig(g).lists.proxies = Distinct("proxies", g.lists.proxies)
  <1> DEFINE n == NormalizeLists(g.lists, DefaultLists, g.flags.multipart)
  <1>1. /\ "cidrs" \in Lists /\ "cidrs" \notin {"bodyTypes", "complexityTypes"}
        /\ "proxies" \in Lists /\ "proxies" \notin {"bodyTypes", "complexityTypes"}
    BY DEF Lists
  <1>2. n["cidrs"] = NormalizeList("cidrs", g.lists["cidrs"], DefaultLists)
        /\ n["proxies"] = NormalizeList("proxies", g.lists["proxies"], DefaultLists)
    BY <1>1, Zenon DEF NormalizeLists
  <1>3. g.lists["cidrs"] \in Seq(Text) /\ g.lists["proxies"] \in Seq(Text)
    BY <1>1, Zenon DEF Accepted
  <1> HIDE DEF n
  <1>4. NormalizeConfig(g).lists = n /\ NormalizeConfig(g).flags = g.flags
    BY Zenon DEF NormalizeConfig, NormalizeWith, n
  <1>5. n["cidrs"] = Distinct("cidrs", g.lists["cidrs"])
    BY <1>2, Zenon DEF NormalizeList
  <1>6. Distinct("proxies", g.lists["proxies"]) # <<>> =>
          n["proxies"] = Distinct("proxies", g.lists["proxies"])
    BY <1>2, Zenon DEF NormalizeList
  <1> QED BY <1>3, <1>4, <1>5, <1>6, Zenon

\* The texts Distinct keeps are the canonical texts that are not blank.
LEMMA DistinctTexts ==
    ASSUME NEW list \in Lists, NEW values \in Seq(Text)
    PROVE  LET d == Distinct(list, values)
           IN  /\ d \in Seq(Text) /\ DOMAIN d = 1 .. Len(d) /\ DOMAIN values = 1 .. Len(values)
               /\ \A a \in DOMAIN d :
                    d[a] # "" /\ \E j \in DOMAIN values : d[a] = Canonical[list][values[j]]
               /\ \A j \in DOMAIN values : Canonical[list][values[j]] # "" =>
                    \E a \in DOMAIN d : d[a] = Canonical[list][values[j]]
               /\ \A a \in DOMAIN d, j \in DOMAIN values : d[a] = Canonical[list][values[j]] =>
                    \A b \in DOMAIN d : b < a =>
                      \E m \in DOMAIN values : m < j /\ d[b] = Canonical[list][values[m]]
  <1> DEFINE d == Distinct(list, values)
             c == Texts(list, values)
             n == Len(values)
  <1>1. Kept(c, n, d)
    BY DistinctKept, Zenon
  <1>2. \A j \in 1 .. n : c[j] = Canonical[list][values[j]]
    BY TextsType, Zenon
  <1>3. DOMAIN values = 1 .. n
    BY LenProperties
  <1> HIDE DEF c, n, d
  <1>4. d \in Seq(Text)
    BY <1>1, Zenon DEF Kept
  <1>5. DOMAIN d = 1 .. Len(d)
    BY <1>4, LenProperties
  <1>6. ASSUME NEW a \in DOMAIN d
        PROVE  d[a] # "" /\ \E j \in DOMAIN values : d[a] = Canonical[list][values[j]]
    <2>1. d[a] # "" /\ \E j \in 1 .. n : d[a] = c[j]
      BY <1>1, <1>5, Zenon DEF Kept
    <2>2. PICK j \in 1 .. n : d[a] = c[j]
      BY <2>1
    <2> QED BY <1>2, <1>3, <2>1, <2>2, Zenon
  <1>7. ASSUME NEW j \in DOMAIN values, Canonical[list][values[j]] # ""
        PROVE  \E a \in DOMAIN d : d[a] = Canonical[list][values[j]]
    <2>1. c[j] # "" /\ c[j] = Canonical[list][values[j]]
      BY <1>2, <1>3, <1>7, Zenon
    <2>2. \E a \in 1 .. Len(d) : d[a] = c[j]
      BY <1>1, <1>3, <2>1, Zenon DEF Kept
    <2> QED BY <1>5, <2>1, <2>2, Zenon
  <1>8. ASSUME NEW a \in DOMAIN d, NEW j \in DOMAIN values, d[a] = Canonical[list][values[j]],
               NEW b \in DOMAIN d, b < a
        PROVE  \E m \in DOMAIN values : m < j /\ d[b] = Canonical[list][values[m]]
    <2>1. d[a] = c[j] /\ a \in 1 .. Len(d) /\ b \in 1 .. Len(d) /\ j \in 1 .. n
      BY <1>2, <1>3, <1>5, <1>8, Zenon
    <2>2. \A p \in 1 .. Len(d), q \in 1 .. n : d[p] = c[q] =>
            \A o \in 1 .. Len(d) : o < p => \E m \in 1 .. n : m < q /\ d[o] = c[m]
      BY <1>1, Zenon DEF Kept
    <2>3. PICK m \in 1 .. n : m < j /\ d[b] = c[m]
      BY <1>8, <2>1, <2>2, Zenon
    <2> QED BY <1>2, <1>3, <2>3, Zenon
  <1> QED BY <1>3, <1>4, <1>5, <1>6, <1>7, <1>8, Zenon DEF d, n

\* A peer whose proxy headers are trusted is one of those the caller listed.
LEMMA TrustedIsListed ==
    ASSUME NEW r, NEW g, Accepted(g), ShouldTrustProxyHeaders(r, NormalizeConfig(g))
    PROVE  LET networks == {Network[Canonical["cidrs"][v]] : v \in
                              {v \in Range(g.lists.cidrs) : Canonical["cidrs"][v] # ""}}
           IN  /\ g.flags.trust
               /\ networks # {} => \E n \in networks : Address[r.remote] \in n
  <1> DEFINE values == g.lists.cidrs
             d == Distinct("cidrs", values)
             networks == {Network[Canonical["cidrs"][v]] : v \in
                            {v \in Range(values) : Canonical["cidrs"][v] # ""}}
  <1>1. /\ g.flags.trust
        /\ d = <<>> \/ \E cidr \in Range(d) : Address[r.remote] \in Network[cidr]
    BY ProxyLists, Zenon DEF ShouldTrustProxyHeaders
  <1>2. values \in Seq(Text) /\ "cidrs" \in Lists
    BY ProxyLists DEF Lists
  <1>3. /\ d \in Seq(Text) /\ DOMAIN d = 1 .. Len(d)
        /\ \A a \in DOMAIN d :
             d[a] # "" /\ \E j \in DOMAIN values : d[a] = Canonical["cidrs"][values[j]]
        /\ \A j \in DOMAIN values : Canonical["cidrs"][values[j]] # "" =>
             \E a \in DOMAIN d : d[a] = Canonical["cidrs"][values[j]]
    BY <1>2, DistinctTexts, Zenon
  <1> HIDE DEF d, values
  <1>4. ASSUME networks # {} PROVE \E n \in networks : Address[r.remote] \in n
    <2>1. PICK v \in Range(values) : Canonical["cidrs"][v] # ""
      BY <1>4, Zenon
    <2>2. PICK j \in DOMAIN values : v = values[j]
      BY <2>1, Zenon DEF Range
    <2>3. DOMAIN d # {}
      BY <1>3, <2>1, <2>2, Zenon
    <2>4. d # <<>>
      BY <2>3
    <2>5. PICK cidr \in Range(d) : Address[r.remote] \in Network[cidr]
      BY <1>1, <2>4, Zenon
    <2>6. PICK a \in DOMAIN d : cidr = d[a]
      BY <2>5, Zenon DEF Range
    <2>7. PICK m \in DOMAIN values : d[a] = Canonical["cidrs"][values[m]]
      BY <1>3, Zenon
    <2>8. values[m] \in Range(values) /\ Canonical["cidrs"][values[m]] # ""
      BY <1>3, <2>7, Zenon DEF Range
    <2>9. Network[cidr] \in networks
      BY <2>6, <2>7, <2>8, Zenon
    <2> QED BY <2>5, <2>9, Zenon
  <1> QED BY <1>1, <1>4, Zenon DEF values

\* shouldTrustProxyHeaders: the address in a fingerprint is the peer's own
\* unless the peer is one whose headers the caller wants to believe.
THEOREM ListedPeersOnly == Spec => []OnlyListedPeersAreBelieved
  <1>1. Inv => OnlyListedPeersAreBelieved
    <2> DEFINE networks == {Network[Canonical["cidrs"][v]] : v \in
                              {v \in Range(given.lists.cidrs) : Canonical["cidrs"][v] # ""}}
               Believed(req) == /\ given.flags.trust
                                /\ networks # {} => \E n \in networks : Address[req.remote] \in n
    <2>1. ASSUME Inv, NEW i \in DOMAIN served,
                 served[i].result.flags.ip, ~Believed(served[i].req)
          PROVE  Names(served[i].result, Address[served[i].req.remote])
      <3> DEFINE r == served[i].req
      <3>1. cfg = NormalizeConfig(given) /\ Accepted(given)
            /\ served[i].result = AnalyzeFingerprint(r, cfg)
        BY <2>1, Answered, Zenon
      <3>2. ~ShouldTrustProxyHeaders(r, cfg)
        BY <2>1, <3>1, TrustedIsListed, Zenon
      <3>3. ClientIP(r, cfg) = Address[r.remote]
        BY <3>2, Zenon DEF ClientIP
      <3>4. cfg.flags.ip /\ ClientIP(r, cfg) # NoAddress
        BY <2>1, <3>1, AddressIncluded, Zenon
      <3>5. Names(AnalyzeFingerprint(r, cfg), ClientIP(r, cfg))
        BY <3>4, AddressIsNamed, Zenon
      <3> QED BY <3>1, <3>3, <3>5, Zenon
    <2> QED BY <2>1, Zenon DEF OnlyListedPeersAreBelieved
  <1> QED BY <1>1, AnsweredAsBuilt, PTL

\* The first of a set of places.
LEMMA FirstPlace ==
    ASSUME NEW places, places \subseteq Nat, places # {}
    PROVE  First(places) \in places /\ \A m \in places : First(places) <= m
  <1>1. PICK n \in places : \A m \in places : <<m, n>> \notin Smaller
    BY SmallerIsWellFounded, WFMin, Zenon
  <1>2. \A m \in places : n <= m
    <2> SUFFICES ASSUME NEW m \in places PROVE n <= m
      OBVIOUS
    <2>1. <<m, n>> \in Nat \X Nat /\ ~(m < n)
      BY <1>1 DEF Smaller
    <2> QED BY <2>1
  <1> QED BY <1>1, <1>2, Zenon DEF First

\* A place that none before it belongs to the set is the first: a smaller one
\* would lead to a smaller one of another set than its first.
LEMMA SameFirst ==
    ASSUME NEW n \in Nat, NEW m \in Nat,
           NEW names \in SUBSET (1 .. n), names # {},
           NEW usable \in SUBSET (1 .. m), NEW a \in usable,
           \A b \in usable : b < a => \E k \in names : k < First(names)
    PROVE  First(usable) = a
  <1>1. names \subseteq Nat /\ usable \subseteq Nat
    OBVIOUS
  <1>2. First(names) \in names /\ \A k \in names : First(names) <= k
    BY <1>1, FirstPlace, Zenon
  <1>3. First(usable) \in usable /\ \A k \in usable : First(usable) <= k
    BY <1>1, FirstPlace, Zenon
  <1>4. \A k, f \in Nat : k < f => ~(f <= k)
    OBVIOUS
  <1>5. \A u, b \in Nat : u <= b /\ ~(u < b) => u = b
    OBVIOUS
  <1>6. ~(First(usable) < a)
    BY <1>1, <1>2, <1>3, <1>4, Zenon
  <1> QED BY <1>1, <1>3, <1>5, <1>6, Zenon

\* The places of a sequence are numbers.
LEMMA PlacesAreNumbers ==
    ASSUME NEW s, NEW n, s = 1 .. n
    PROVE  \A t : t \subseteq s => t \subseteq Nat
  OBVIOUS

\* A sequence with a place is not empty.
LEMMA PlacesOfNone ==
    ASSUME NEW d, DOMAIN d # {}
    PROVE  d # <<>>
  OBVIOUS

\* The places of the usable headers in a list a caller gives.
UsableGiven(r, g) ==
    {n \in DOMAIN g.lists.proxies :
       Claim(r, Canonical["proxies"][g.lists.proxies[n]]) # NoAddress}

\* The header that decides in the normalised list is the first usable one of
\* the list the caller gave.
LEMMA FirstUsable ==
    ASSUME NEW r, NEW g, Accepted(g), "" \notin DOMAIN r.headers,
           ShouldTrustProxyHeaders(r, NormalizeConfig(g)), UsableGiven(r, g) # {}
    PROVE  /\ ClientIP(r, NormalizeConfig(g)) =
                Claim(r, Canonical["proxies"][g.lists.proxies[First(UsableGiven(r, g))]])
           /\ ClientIP(r, NormalizeConfig(g)) # NoAddress
  <1> DEFINE values == g.lists.proxies
             d == Distinct("proxies", values)
             canon(j) == Canonical["proxies"][values[j]]
             usable == {n \in DOMAIN d : Claim(r, d[n]) # NoAddress}
             names == UsableGiven(r, g)
             f == First(names)
             u == First(usable)
  <1>1. values \in Seq(Text) /\ "proxies" \in Lists
    BY ProxyLists DEF Lists
  <1>2. /\ d \in Seq(Text) /\ DOMAIN d = 1 .. Len(d) /\ DOMAIN values = 1 .. Len(values)
        /\ \A j \in DOMAIN values : canon(j) # "" => \E a \in DOMAIN d : d[a] = canon(j)
        /\ \A a \in DOMAIN d, j \in DOMAIN values : d[a] = canon(j) =>
             \A b \in DOMAIN d : b < a => \E m \in DOMAIN values : m < j /\ d[b] = canon(m)
    BY <1>1, DistinctTexts, ZenonT(60)
  <1>3. names = {n \in DOMAIN values : Claim(r, canon(n)) # NoAddress} /\ names # {}
    BY Zenon DEF UsableGiven
  <1>4. d # <<>> => NormalizeConfig(g).lists.proxies = d
    BY ProxyLists, ZenonT(60)
  <1> HIDE DEF values, d, canon, names
  <1>5. f \in names
    <2>1. names \subseteq Nat
      BY <1>2, <1>3, PlacesAreNumbers, Zenon
    <2> QED BY <1>3, <2>1, FirstPlace, Zenon
  <1>6. f \in DOMAIN values /\ Claim(r, canon(f)) # NoAddress
    BY <1>3, <1>5, Zenon
  <1>7. canon(f) # ""
    <2>1. Claim(r, "") = NoAddress
      <3>1. Lines(r, "") = <<>>
        BY Zenon DEF Lines
      <3> QED BY <3>1, Zenon DEF Claim
    <2> QED BY <1>6, <2>1, Zenon
  <1>8. PICK a \in DOMAIN d : d[a] = canon(f)
    BY <1>2, <1>6, <1>7, Zenon
  <1>9. a \in usable
    BY <1>6, <1>8, Zenon
  <1>10. \A b \in usable : b < a => \E k \in names : k < f
    <2> SUFFICES ASSUME NEW b \in usable, b < a PROVE \E k \in names : k < f
      BY Zenon
    <2>1. b \in DOMAIN d /\ Claim(r, d[b]) # NoAddress
      BY Zenon
    <2>2. PICK k \in DOMAIN values : k < f /\ d[b] = canon(k)
      BY <1>2, <1>6, <1>8, <2>1, Zenon
    <2> QED BY <1>3, <2>1, <2>2, Zenon
  <1>11. names \in SUBSET (1 .. Len(values)) /\ usable \in SUBSET (1 .. Len(d))
    BY <1>2, <1>3, Zenon
  <1>12. Len(values) \in Nat /\ Len(d) \in Nat
    BY <1>1, <1>2, LenProperties, Zenon
  <1> HIDE DEF usable
  <1> DEFINE n == Len(values)
             m == Len(d)
  <1> HIDE DEF n, m
  <1>13. u = a
    <2>1. n \in Nat /\ m \in Nat /\ names \in SUBSET (1 .. n) /\ usable \in SUBSET (1 .. m)
      BY <1>11, <1>12, Zenon DEF n, m
    <2>2. \A b \in usable : b < a => \E k \in names : k < First(names)
      BY <1>10, Zenon
    <2>3. names # {} /\ a \in usable
      BY <1>3, <1>9, Zenon
    <2> HIDE DEF f, u
    <2>4. First(usable) = a
      BY <2>1, <2>2, <2>3, SameFirst, ZenonT(60)
    <2> QED BY <2>4, Zenon DEF u
  <1> HIDE DEF f, u
  <1>14. NormalizeConfig(g).lists.proxies = d
    <2>1. d # <<>>
      <3>1. DOMAIN d # {}
        BY <1>8, Zenon
      <3> QED BY <3>1, PlacesOfNone, Zenon
    <2> QED BY <1>4, <2>1, Zenon
  <1>15. Usables(r, NormalizeConfig(g)) = usable
    BY <1>14, Zenon DEF Usables, usable
  <1>16. ClientIP(r, NormalizeConfig(g)) = Claim(r, d[u])
    <2>1. usable # {}
      BY <1>9, Zenon
    <2> QED BY <1>14, <1>15, <2>1, Zenon DEF ClientIP, u
  <1>17. ClientIP(r, NormalizeConfig(g)) = Claim(r, canon(f))
    BY <1>8, <1>13, <1>16, Zenon
  <1> QED BY <1>6, <1>17, Zenon DEF canon, values, f, names

\* clientIP: the first header of the caller's list that names an address
\* decides, whatever normalising the list dropped and merged.
THEOREM UsableHeaderDecides == Spec => []FirstUsableHeaderDecides
  <1>1. Inv => FirstUsableHeaderDecides
    <2> DEFINE names(req) ==
                 {n \in DOMAIN given.lists.proxies :
                    Claim(req, Canonical["proxies"][given.lists.proxies[n]]) # NoAddress}
    <2>1. ASSUME Inv, NEW i \in DOMAIN served,
                 ShouldTrustProxyHeaders(served[i].req, cfg), given.flags.ip,
                 names(served[i].req) # {}
          PROVE  Names(served[i].result,
                       Claim(served[i].req, Canonical["proxies"]
                               [given.lists.proxies[First(names(served[i].req))]]))
      <3> DEFINE r == served[i].req
      <3>1. /\ cfg = NormalizeConfig(given) /\ Accepted(given) /\ r \in Requests
            /\ served[i].result = AnalyzeFingerprint(r, cfg)
        BY <2>1, Answered, Zenon
      <3>2. "" \notin DOMAIN r.headers
        BY <3>1, InputAssumption, Zenon
      <3>3. cfg.flags.ip
        BY <2>1, <3>1, ProxyLists, Zenon
      <3>4. /\ ClientIP(r, cfg) =
                 Claim(r, Canonical["proxies"][given.lists.proxies[First(names(r))]])
            /\ ClientIP(r, cfg) # NoAddress
        BY <2>1, <3>1, <3>2, FirstUsable, Zenon DEF UsableGiven
      <3>5. Names(AnalyzeFingerprint(r, cfg), ClientIP(r, cfg))
        BY <3>3, <3>4, AddressIsNamed, Zenon
      <3> QED BY <3>1, <3>4, <3>5, Zenon
    <2> QED BY <2>1, Zenon DEF FirstUsableHeaderDecides
  <1> QED BY <1>1, AnsweredAsBuilt, PTL

=============================================================================
