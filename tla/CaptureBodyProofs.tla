------------------------- MODULE CaptureBodyProofs --------------------------
(***************************************************************************)
(* Proofs about CaptureBody for all sizes, limits, strategies and chains   *)
(* of codings.  Of ParseContentEncodings the proofs use that it keeps      *)
(* tokens of the header, shown by induction over its length, and that todo *)
(* and the codings of an honest body start from the same sequence and are  *)
(* shortened together.                                                     *)
(***************************************************************************)
EXTENDS CaptureBody, SequenceTheorems, WellFoundedInduction, TLAPS

SampleType == [analyzed: BOOLEAN, truncated: BOOLEAN, failed: BOOLEAN,
               decoded: BOOLEAN, window: Seq(Nat), sampled: BOOLEAN]

Parsed == ParseContentEncodings(req.header)

\* The chains for which the flag of an inner layer does not matter.
Simple == OneLayer \/ ~req.members

\* A limit with which readWithLimit gives nothing, whatever there is.
GaveNothing(d) == ~LimitsFit /\ d.size = 0

\* What was read is the whole body, or the sample says that it was cut short.
Complete(d) == d.whole \/ sample.truncated \/ sample.failed \/ GaveNothing(d)

TypeInv ==
    /\ req.honest \in BOOLEAN /\ req.members \in BOOLEAN /\ req.length \in Nat
    /\ cfg.maxRead \in Nat \ {0} /\ cfg.maxDecode \in Nat \ {0}
    /\ cfg.sampleBytes \in Nat \ {0} /\ cfg.strategy \in Strategies
    /\ phase \in {"start", "decode", "finish", "done"}
    /\ wire.size \in Nat /\ data.size \in Nat
    /\ cut \in BOOLEAN
    /\ sample \in SampleType

StartInv ==
    phase = "start" => sample = NoSample /\ warnings = <<>> /\ cut = FALSE

CapturedInv ==
    phase \in {"decode", "finish"} =>
      /\ sample.analyzed
      /\ wire.codings = IF req.honest THEN Parsed ELSE <<>>
      /\ Complete(wire)

\* While layers are left, the codings of an honest body are those still to undo.
DecodeInv ==
    phase = "decode" =>
      /\ cfg.compressed
      /\ todo # <<>> /\ HasActiveContentEncoding
      /\ ~sample.decoded
      /\ warnings = <<>>
      /\ req.honest => data.codings = todo
      /\ OneLayer => todo = Parsed /\ data = wire
      /\ req.honest /\ Simple => Complete(data) \/ cut

FinishInv ==
    phase = "finish" =>
      IF sample.decoded
      THEN /\ HasActiveContentEncoding
           /\ warnings = IF cut THEN <<"body_decompressed_truncated">> ELSE <<>>
           /\ req.honest => data.codings = <<>>
           /\ req.honest /\ Simple => Complete(data) \/ cut
      ELSE data = wire /\ warnings \in {<<>>, <<"body_decompression_failed">>}

\* CompleteOrFlagged of any limits: what is neither whole nor flagged is empty.
EmptyOrFlagged ==
    phase = "done" /\ sample.analyzed /\ IsDecodedForStructuredAnalysis /\ req.honest /\ Simple =>
      \/ data.size = 0 \/ data.whole
      \/ \E code \in {"body_truncated", "body_read_error", "body_decompressed_truncated"} :
           Warned(code)

DoneInv ==
    /\ EveryAbsenceExplained
    /\ OneLayerCompleteOrFlagged
    /\ EmptyOrFlagged
    /\ DecodesAllOrNothing
    /\ SampleWithinWindow

Inv == TypeInv /\ StartInv /\ CapturedInv /\ DecodeInv /\ FinishInv /\ DoneInv

-----------------------------------------------------------------------------
\* Induction over the naturals, from the well-foundedness of their order.
Smaller == {ss \in Nat \X Nat : ss[1] < ss[2]}

\* The order of the naturals has no infinite descent.
LEMMA SmallerIsWellFounded == IsWellFoundedOn(Smaller, Nat)
  <1>1. Smaller = OpToRel(<, Nat)
    BY Zenon DEF OpToRel, Smaller
  <1>2. IsWellFoundedOn(OpToRel(<, Nat), Nat)
    BY NatLessThanWellFounded, Zenon
  <1> QED BY <1>1, <1>2, Zenon

\* Induction for a set of naturals.
LEMMA Induction ==
    ASSUME NEW S, 0 \in S, \A n \in Nat : n \in S => n + 1 \in S
    PROVE  \A n \in Nat : n \in S
  <1> SUFFICES ASSUME Nat \ S # {} PROVE FALSE
    OBVIOUS
  <1> DEFINE T == Nat \ S
  <1>1. PICK m \in T : \A k \in T : <<k, m>> \notin Smaller
    <2>1. T \subseteq Nat /\ T # {}
      OBVIOUS
    <2> QED BY <2>1, SmallerIsWellFounded, WFMin, Zenon
  <1>2. m \in Nat /\ m # 0
    BY <1>1
  <1>3. m - 1 \in Nat /\ <<m - 1, m>> \in Smaller
    BY <1>2 DEF Smaller
  <1>4. m - 1 \in S
    BY <1>1, <1>3
  <1>5. (m - 1) + 1 = m
    BY <1>2
  <1> QED BY <1>1, <1>3, <1>4, <1>5

\* What a step that stays in T gives.
Stays(next, T) == \A i \in Nat : \A v \in T : next[<<i, v>>] \in T

Iterates(g, n, T, base, next) ==
    /\ g \in [0 .. n -> T]
    /\ g[0] = base
    /\ \A i \in 1 .. n : g[i] = next[<<i, g[i - 1]>>]

\* A function defined from its value one before exists.
LEMMA IterationExists ==
    ASSUME NEW n \in Nat, NEW T, NEW base \in T, NEW next, Stays(next, T)
    PROVE  \E g : Iterates(g, n, T, base, next)
  <1> DEFINE S == {m \in Nat : \E g : Iterates(g, m, T, base, next)}
  <1>1. 0 \in S
    <2> DEFINE g == [i \in 0 .. 0 |-> base]
    <2>1. Iterates(g, 0, T, base, next)
      BY DEF Iterates
    <2> QED BY <2>1, Zenon
  <1>2. ASSUME NEW m \in Nat, m \in S PROVE m + 1 \in S
    <2>1. PICK g : Iterates(g, m, T, base, next)
      BY <1>2
    <2> DEFINE h == [i \in 0 .. m + 1 |-> IF i <= m THEN g[i] ELSE next[<<m + 1, g[m]>>]]
    <2>2. /\ g \in [0 .. m -> T] /\ g[0] = base
          /\ \A i \in 1 .. m : g[i] = next[<<i, g[i - 1]>>]
          /\ \A i \in 0 .. m : g[i] \in T
      BY <2>1 DEF Iterates
    <2>3. g[m] \in T /\ m + 1 \in Nat
      BY <2>2
    <2>4. next[<<m + 1, g[m]>>] \in T
      BY <2>3 DEF Stays
    <2>5. h \in [0 .. m + 1 -> T]
      <3>1. ASSUME NEW i \in 0 .. m + 1 PROVE h[i] \in T
        <4>1. i <= m => i \in 0 .. m
          OBVIOUS
        <4> QED BY <2>2, <2>4, <4>1
      <3> QED BY <3>1
    <2>6. h[0] = base
      <3>1. 0 \in 0 .. m + 1 /\ 0 <= m
        OBVIOUS
      <3> QED BY <2>2, <3>1
    <2>7. ASSUME NEW i \in 1 .. m + 1 PROVE h[i] = next[<<i, h[i - 1]>>]
      <3>1. i \in 0 .. m + 1 /\ i - 1 \in 0 .. m + 1 /\ i - 1 <= m
        OBVIOUS
      <3>2. h[i - 1] = g[i - 1]
        BY <3>1
      <3>3. CASE i <= m
        <4>1. h[i] = g[i] /\ i \in 1 .. m
          BY <3>1, <3>3
        <4> QED BY <2>2, <3>2, <4>1
      <3>4. CASE i = m + 1
        <4>1. h[i] = next[<<m + 1, g[m]>>] /\ i - 1 = m
          BY <3>1, <3>4
        <4> QED BY <3>2, <3>4, <4>1
      <3> QED BY <3>1, <3>3, <3>4
    <2>8. Iterates(h, m + 1, T, base, next)
      <3> HIDE DEF h
      <3> QED BY <2>5, <2>6, <2>7 DEF Iterates
    <2> QED BY <2>3, <2>8, Zenon
  <1>3. n \in S
    <2> HIDE DEF S
    <2> QED BY <1>1, <1>2, Induction
  <1> QED BY <1>3

\* parseContentEncodings keeps tokens of the header.
LEMMA ParseType ==
    ASSUME NEW header \in Seq(Tokens)
    PROVE  ParseContentEncodings(header) \in Seq(Tokens)
  <1> DEFINE n == Len(header)
             T == Seq(Tokens)
             Step(g, i) == IF i = 0 THEN <<>>
                           ELSE IF header[i] \in {"", "identity"} THEN g[i - 1]
                           ELSE Append(g[i - 1], header[i])
             kept == CHOOSE g : g = [i \in 0 .. n |-> Step(g, i)]
             next == [p \in Nat \X T |-> IF p[1] \in 1 .. n /\ header[p[1]] \notin {"", "identity"}
                                       THEN Append(p[2], header[p[1]]) ELSE p[2]]
             base == <<>>
  <1>1. n \in Nat /\ \A i \in 1 .. n : header[i] \in Tokens
    BY LenProperties, ElementOfSeq
  <1>2. base \in T /\ Stays(next, T)
    <2>1. ASSUME NEW i \in Nat, NEW v \in T PROVE next[<<i, v>>] \in T
      <3>1. i \in 1 .. n => Append(v, header[i]) \in T
        BY <1>1, AppendProperties
      <3>2. next[<<i, v>>] = v \/ (i \in 1 .. n /\ next[<<i, v>>] = Append(v, header[i]))
        OBVIOUS
      <3> QED BY <3>1, <3>2
    <2>2. base \in T
      BY EmptySeq
    <2> HIDE DEF n, T, next
    <2> QED BY <2>1, <2>2 DEF Stays
  <1> HIDE DEF n, T, next, base, kept, Step
  <1>3. PICK g : Iterates(g, n, T, base, next)
    BY <1>1, <1>2, IterationExists
  <1>4. g = [i \in 0 .. n |-> Step(g, i)]
    <2>1. /\ g \in [0 .. n -> T] /\ g[0] = base
          /\ \A i \in 1 .. n : g[i] = next[<<i, g[i - 1]>>]
      BY <1>3 DEF Iterates
    <2>2. ASSUME NEW i \in 0 .. n PROVE g[i] = Step(g, i)
      <3>1. CASE i = 0
        BY <2>1, <3>1 DEF base, Step
      <3>2. CASE i # 0
        <4>1. i \in 1 .. n /\ i - 1 \in 0 .. n /\ i \in Nat
          BY <1>1, <3>2
        <4>2. g[i - 1] \in T
          BY <2>1, <4>1
        <4>3. g[i] = next[<<i, g[i - 1]>>]
          BY <2>1, <4>1
        <4>4. next[<<i, g[i - 1]>>] = Step(g, i)
          BY <3>2, <4>1, <4>2 DEF next, Step
        <4> QED BY <4>3, <4>4
      <3> QED BY <3>1, <3>2
    <2> QED BY <2>1, <2>2
  <1>5. kept = [i \in 0 .. n |-> Step(kept, i)]
    BY <1>4 DEF kept
  <1>6. /\ kept[0] = <<>>
        /\ \A i \in 1 .. n : kept[i] = IF header[i] \in {"", "identity"} THEN kept[i - 1]
                                      ELSE Append(kept[i - 1], header[i])
    <2>1. ASSUME NEW i \in 0 .. n PROVE kept[i] = Step(kept, i)
      BY <1>5
    <2>2. kept[0] = Step(kept, 0)
      BY <1>1, <2>1
    <2>3. ASSUME NEW i \in 1 .. n
          PROVE  kept[i] = IF header[i] \in {"", "identity"} THEN kept[i - 1]
                           ELSE Append(kept[i - 1], header[i])
      <3>1. i \in 0 .. n /\ i # 0
        BY <1>1
      <3>2. kept[i] = Step(kept, i)
        BY <2>1, <3>1
      <3> QED BY <3>1, <3>2 DEF Step
    <2> QED BY <2>2, <2>3 DEF Step
  <1> DEFINE S == {j \in Nat : j <= n => kept[j] \in T}
  <1>7. 0 \in S
    BY <1>2, <1>6 DEF base
  <1>8. ASSUME NEW j \in Nat, j \in S PROVE j + 1 \in S
    <2> SUFFICES ASSUME j + 1 <= n PROVE kept[j + 1] \in T
      BY DEF S
    <2>1. kept[j] \in T /\ j + 1 \in 1 .. n /\ (j + 1) - 1 = j
      BY <1>1, <1>8
    <2>2. header[j + 1] \in Tokens
      BY <1>1, <2>1
    <2>3. kept[j + 1] = kept[j] \/ kept[j + 1] = Append(kept[j], header[j + 1])
      BY <1>6, <2>1
    <2>4. kept[j] \in Seq(Tokens)
      BY <2>1 DEF T
    <2>5. Append(kept[j], header[j + 1]) \in Seq(Tokens)
      BY <2>2, <2>4, AppendProperties
    <2> QED BY <2>3, <2>4, <2>5 DEF T
  <1>9. n \in S
    <2> HIDE DEF S
    <2> QED BY <1>1, <1>7, <1>8, Induction
  <1>10. ParseContentEncodings(header) = kept[n]
    BY DEF ParseContentEncodings, kept, n, Step
  <1> QED BY <1>1, <1>9, <1>10 DEF T
-----------------------------------------------------------------------------
\* The offsets of a piece of the body.
LEMMA OffsetsProperties ==
    ASSUME NEW a \in Nat, NEW b \in Nat, a <= b
    PROVE  /\ Offsets(a, b) \in Seq(Nat)
           /\ Len(Offsets(a, b)) = b - a
           /\ \A i \in 1 .. b - a : Offsets(a, b)[i] = a + i
  BY DEF Offsets

\* The first bytes of the body.
LEMMA HeadPiece ==
    ASSUME NEW a \in Nat
    PROVE  /\ Offsets(0, a) \in Seq(Nat)
           /\ Len(Offsets(0, a)) = a
           /\ \A i \in 1 .. a : Offsets(0, a)[i] = i
  <1>1. 0 \in Nat /\ 0 <= a
    OBVIOUS
  <1> DEFINE h == Offsets(0, a)
  <1>2. Len(h) = a - 0 /\ h \in Seq(Nat) /\ \A i \in 1 .. a - 0 : h[i] = 0 + i
    BY <1>1, OffsetsProperties, Zenon
  <1> HIDE DEF h
  <1>3. Len(h) = a /\ h \in Seq(Nat) /\ \A i \in 1 .. a : h[i] = i
    BY <1>2
  <1> QED BY <1>3 DEF h

\* The two halves of a sample: together they are the sample, and the first is
\* not empty.
LEMMA Halves ==
    ASSUME NEW n \in Nat \ {0}
    PROVE  /\ (n + 1) \div 2 \in Nat \ {0} /\ n \div 2 \in Nat
           /\ (n + 1) \div 2 + n \div 2 = n
           /\ n > 1 => n \div 2 > 0
  OBVIOUS

\* A run of distinct bytes of a body in their order.
Run(s, size) ==
    /\ \A i \in 1 .. Len(s) : s[i] \in 1 .. size
    /\ \A i \in 2 .. Len(s) : s[i - 1] < s[i]

\* One piece is a run.
LEMMA OnePiece ==
    ASSUME NEW size \in Nat, NEW a \in Nat, NEW b \in Nat, a <= b, b <= size
    PROVE  Run(Offsets(a, b), size) /\ Len(Offsets(a, b)) = b - a
  <1> DEFINE s == Offsets(a, b)
  <1>1. Len(s) = b - a /\ \A i \in 1 .. b - a : s[i] = a + i
    BY OffsetsProperties
  <1> HIDE DEF s
  <1>2. Run(s, size)
    <2>1. ASSUME NEW i \in 1 .. Len(s) PROVE s[i] \in 1 .. size
      BY <1>1
    <2>2. ASSUME NEW i \in 2 .. Len(s) PROVE s[i - 1] < s[i]
      <3>1. i - 1 \in 1 .. b - a /\ i \in 1 .. b - a
        BY <1>1
      <3>2. s[i - 1] = a + (i - 1) /\ s[i] = a + i
        BY <1>1, <3>1
      <3> QED BY <3>2
    <2> QED BY <2>1, <2>2 DEF Run
  <1> QED BY <1>1, <1>2 DEF s

\* A piece of the start and one of the end that do not overlap are a run, and
\* hold the first and the last byte unless they are empty.
LEMMA TwoPieces ==
    ASSUME NEW size \in Nat, NEW a \in Nat, NEW b \in Nat, a <= b, b <= size
    PROVE  LET s == Offsets(0, a) \o Offsets(b, size)
           IN  /\ Run(s, size) /\ s \in Seq(Nat) /\ Len(s) = a + (size - b)
               /\ a > 0 => s[1] = 1
               /\ b < size => s[Len(s)] = size
  <1> DEFINE s == Offsets(0, a) \o Offsets(b, size)
             h == Offsets(0, a)
             t == Offsets(b, size)
  <1>1. h \in Seq(Nat) /\ Len(h) = a /\ \A i \in 1 .. a : h[i] = i
    BY HeadPiece
  <1>2. t \in Seq(Nat) /\ Len(t) = size - b /\ \A i \in 1 .. size - b : t[i] = b + i
    BY OffsetsProperties
  <1>4. s = h \o t
    OBVIOUS
  <1> HIDE DEF h, t, s
  <1>3. /\ h \o t \in Seq(Nat) /\ Len(h \o t) = Len(h) + Len(t)
        /\ \A i \in 1 .. Len(h) + Len(t) :
             (h \o t)[i] = IF i <= Len(h) THEN h[i] ELSE t[i - Len(h)]
    BY <1>1, <1>2, ConcatProperties, Zenon
  <1>5. /\ s \in Seq(Nat) /\ Len(s) = a + (size - b)
        /\ \A i \in 1 .. Len(s) : s[i] = IF i <= a THEN h[i] ELSE t[i - a]
    BY <1>1, <1>2, <1>3, <1>4
  <1>6. ASSUME NEW i \in 1 .. Len(s) PROVE s[i] = IF i <= a THEN i ELSE b + (i - a)
    <2>1. CASE i <= a
      BY <1>1, <1>5, <2>1
    <2>2. CASE i > a
      <3>1. i - a \in 1 .. size - b
        BY <1>5, <2>2
      <3> QED BY <1>2, <1>5, <2>2, <3>1
    <2> QED BY <2>1, <2>2
  <1>7. Run(s, size)
    <2>1. ASSUME NEW i \in 1 .. Len(s) PROVE s[i] \in 1 .. size
      <3>1. s[i] = (IF i <= a THEN i ELSE b + (i - a)) /\ i \in 1 .. a + (size - b)
        BY <1>5, <1>6
      <3> QED BY <3>1
    <2>2. ASSUME NEW i \in 2 .. Len(s) PROVE s[i - 1] < s[i]
      <3>1. i - 1 \in 1 .. Len(s) /\ i \in 1 .. Len(s) /\ i \in Nat
        BY <1>5
      <3>2. s[i] = (IF i <= a THEN i ELSE b + (i - a))
        BY <1>6, <3>1
      <3>3. s[i - 1] = (IF i - 1 <= a THEN i - 1 ELSE b + ((i - 1) - a))
        BY <1>6, <3>1, Zenon
      <3> QED BY <3>1, <3>2, <3>3
    <2> QED BY <2>1, <2>2 DEF Run
  <1>8. a > 0 => s[1] = 1
    BY <1>5, <1>6
  <1>9. b < size => s[Len(s)] = size
    <2> SUFFICES ASSUME b < size PROVE s[Len(s)] = size
      OBVIOUS
    <2>1. Len(s) \in 1 .. Len(s) /\ Len(s) > a
      BY <1>5
    <2> QED BY <1>5, <1>6, <2>1
  <1> QED BY <1>5, <1>7, <1>8, <1>9 DEF s

\* buildSample takes a run of as many bytes as it may, and both ends when asked.
LEMMA BuildSampleProperties ==
    ASSUME NEW size \in Nat, NEW n \in Nat \ {0}, NEW strategy \in Strategies
    PROVE  LET w == BuildSample(size, n, strategy)
           IN  /\ Run(w, size) /\ w \in Seq(Nat)
               /\ Len(w) = AtMost(size, n)
               /\ n < size /\ strategy = "head_tail" /\ n > 1 =>
                    w[1] = 1 /\ w[Len(w)] = size
  <1> SUFFICES ASSUME NEW w, w = BuildSample(size, n, strategy)
               PROVE  /\ Run(w, size) /\ w \in Seq(Nat)
                      /\ Len(w) = AtMost(size, n)
                      /\ n < size /\ strategy = "head_tail" /\ n > 1 =>
                           w[1] = 1 /\ w[Len(w)] = size
    BY Zenon
  <1>1. CASE n >= size
    <2>1. w = Offsets(0, size)
      BY <1>1 DEF BuildSample
    <2>2. Run(w, size) /\ Len(w) = size /\ w \in Seq(Nat)
      BY <2>1, OnePiece, OffsetsProperties
    <2> QED BY <1>1, <2>2 DEF AtMost
  <1>2. CASE n < size
    <2>1. AtMost(size, n) = n
      BY <1>2 DEF AtMost
    <2>2. CASE strategy = "tail"
      <3>1. w = Offsets(size - n, size) /\ size - n \in Nat
        BY <1>2, <2>2 DEF BuildSample
      <3>2. Run(w, size) /\ Len(w) = n /\ w \in Seq(Nat)
        BY <1>2, <3>1, OnePiece, OffsetsProperties
      <3> QED BY <2>1, <2>2, <3>2
    <2>3. CASE strategy = "head"
      <3>1. w = Offsets(0, n)
        BY <1>2, <2>3 DEF BuildSample
      <3>2. Len(w) = n /\ w \in Seq(Nat) /\ \A i \in 1 .. n : w[i] = i
        BY <3>1, HeadPiece
      <3>3. Run(w, size)
        BY <1>2, <3>2 DEF Run
      <3> QED BY <2>1, <2>3, <3>2, <3>3
    <2>4. CASE strategy = "head_tail"
      <3> DEFINE a == (n + 1) \div 2
                 c == n \div 2
                 b == size - c
      <3>1. w = Offsets(0, a) \o Offsets(b, size)
        BY <1>2, <2>4 DEF BuildSample
      <3>2. a \in Nat \ {0} /\ c \in Nat /\ a + c = n /\ (n > 1 => c > 0)
        BY Halves
      <3> HIDE DEF a, c
      <3>3. b \in Nat /\ a <= b /\ b <= size /\ a + (size - b) = n /\ (n > 1 => b < size)
        BY <1>2, <3>2
      <3> HIDE DEF b
      <3>4. /\ Run(w, size) /\ w \in Seq(Nat) /\ Len(w) = n
            /\ w[1] = 1 /\ (b < size => w[Len(w)] = size)
        <4>1. /\ Run(w, size) /\ w \in Seq(Nat) /\ Len(w) = a + (size - b)
              /\ (a > 0 => w[1] = 1) /\ (b < size => w[Len(w)] = size)
          <5>1. a \in Nat
            BY <3>2
          <5> DEFINE s == Offsets(0, a) \o Offsets(b, size)
          <5>2. /\ Run(s, size) /\ s \in Seq(Nat) /\ Len(s) = a + (size - b)
                /\ a > 0 => s[1] = 1
                /\ b < size => s[Len(s)] = size
            BY <3>3, <5>1, TwoPieces
          <5> HIDE DEF s
          <5>3. w = s
            BY <3>1 DEF s
          <5> QED BY <5>2, <5>3, Zenon
        <4> QED BY <3>2, <3>3, <4>1
      <3> QED BY <2>1, <3>3, <3>4
    <2> QED BY <2>2, <2>3, <2>4 DEF Strategies
  <1> QED BY <1>1, <1>2

-----------------------------------------------------------------------------
\* The budget of the read loop is one more than the limit, or it wraps.
LEMMA BudgetFacts ==
    ASSUME NEW limit \in Nat
    PROVE  /\ limit = MaxInt => NeverReads(limit)
           /\ limit # MaxInt => ~NeverReads(limit) /\ Loop!Budget(limit) = limit + 1
  BY ParametersAssumption DEF NeverReads, Loop!Budget

\* A read returns the whole body, or more than the limit, or it fails; only
\* with the largest limit it returns nothing.
LEMMA ReadFacts ==
    ASSUME NEW size \in Nat, NEW limit \in Nat, NEW r \in LimitedReads(size, limit)
    PROVE  /\ r.n \in Nat /\ r.failed \in BOOLEAN
           /\ Observed(r.n, limit) \in Nat
           /\ Truncated(r.n, limit) \in BOOLEAN
           /\ \/ Observed(r.n, limit) = size \/ Truncated(r.n, limit) \/ r.failed
              \/ limit = MaxInt /\ Observed(r.n, limit) = 0
  <1> DEFINE most == AtMost(size, limit + 1)
  <1>1. CASE limit = MaxInt
    <2>1. r = [n |-> 0, failed |-> FALSE]
      BY <1>1, BudgetFacts DEF LimitedReads
    <2> QED BY <1>1, <2>1 DEF AtMost, Observed, Truncated
  <1>2. CASE limit # MaxInt /\ r = [n |-> most, failed |-> FALSE]
    BY <1>2 DEF AtMost, Observed, Truncated
  <1>3. CASE limit # MaxInt /\ r \in [n : 0 .. most, failed : {TRUE}]
    <2>1. most \in Nat
      BY DEF AtMost
    <2> HIDE DEF most
    <2>2. r.n \in 0 .. most /\ r.failed = TRUE
      BY <1>3, <2>1
    <2>3. r.n \in Nat
      BY <2>1, <2>2
    <2>4. Observed(r.n, limit) \in Nat /\ Truncated(r.n, limit) \in BOOLEAN
      BY <2>3 DEF AtMost, Observed, Truncated
    <2> QED BY <2>2, <2>3, <2>4, Zenon
  <1>4. limit # MaxInt => r = [n |-> most, failed |-> FALSE] \/ r \in [n : 0 .. most, failed : {TRUE}]
    <2> SUFFICES ASSUME limit # MaxInt
                 PROVE  r = [n |-> most, failed |-> FALSE] \/ r \in [n : 0 .. most, failed : {TRUE}]
      OBVIOUS
    <2>1. ~NeverReads(limit) /\ Loop!Budget(limit) = limit + 1
      BY BudgetFacts
    <2> QED BY <2>1, Zenon DEF LimitedReads
  <1> HIDE DEF most
  <1> QED BY <1>1, <1>2, <1>3, <1>4

\* The outcomes of a layer that is read, and of one that is only opened.
Clean(sizes, all, limit) ==
    {[n |-> AtMost(s, limit + 1), whole |-> all /\ s <= limit, failed |-> FALSE] : s \in sizes}

LEMMA LayerCases ==
    ASSUME NEW d, NEW coding, NEW limit \in Nat,
           NEW o \in LayerOutcomes(d, coding, limit), ~o.failed
    PROVE  LET matches == d.codings # <<>> /\ Last(d.codings) = coding
           IN  \/ /\ limit = MaxInt
                  /\ o \in {[n |-> 0, whole |-> w, failed |-> FALSE] : w \in {FALSE, matches /\ d.whole}}
               \/ /\ limit # MaxInt /\ d.size # 0
                  /\ \/ matches /\ d.whole /\ o \in Clean(Sizes, TRUE, limit)
                     \/ ~matches /\ o \in Clean(Sizes, FALSE, limit)
                     \/ matches /\ ~d.whole /\ req.members /\ o \in Clean(Sizes, FALSE, limit)
                     \/ matches /\ ~d.whole /\ o \in Clean({limit + 1}, FALSE, limit)
  <1>1. o \notin {[n |-> 0, whole |-> FALSE, failed |-> TRUE]}
    OBVIOUS
  <1>2. CASE limit = MaxInt
    <2>1. NeverReads(limit)
      BY <1>2, BudgetFacts
    <2> QED BY <1>1, <1>2, <2>1, Zenon DEF LayerOutcomes
  <1>3. CASE limit # MaxInt
    <2>1. ~NeverReads(limit) /\ Loop!Budget(limit) = limit + 1
      BY <1>3, BudgetFacts
    <2> QED BY <1>1, <1>3, <2>1, Zenon DEF LayerOutcomes, Clean
  <1> QED BY <1>2, <1>3

\* A layer that decodes gives all of its data, or more than the limit; only
\* gzip data of several members that was cut short gives neither.  With the
\* largest limit it gives nothing, and otherwise nothing decodes to something.
LEMMA LayerFacts ==
    ASSUME NEW d, NEW coding, NEW limit \in Nat,
           NEW o \in LayerOutcomes(d, coding, limit), ~o.failed
    PROVE  /\ o.n \in Nat
           /\ limit = MaxInt => o.n = 0
           /\ limit # MaxInt => d.size # 0
           /\ limit # MaxInt /\ d.codings # <<>> /\ Last(d.codings) = coding =>
                o.whole \/ Truncated(o.n, limit) \/ (~d.whole /\ req.members)
  <1> DEFINE matches == d.codings # <<>> /\ Last(d.codings) = coding
  <1>1. CASE limit = MaxInt
    <2>1. PICK w \in {FALSE, matches /\ d.whole} : o = [n |-> 0, whole |-> w, failed |-> FALSE]
      BY <1>1, LayerCases
    <2> QED BY <1>1, <2>1
  <1>2. limit # MaxInt =>
          /\ d.size # 0
          /\ \/ matches /\ d.whole /\ o \in Clean(Sizes, TRUE, limit)
             \/ ~matches /\ o \in Clean(Sizes, FALSE, limit)
             \/ matches /\ ~d.whole /\ req.members /\ o \in Clean(Sizes, FALSE, limit)
             \/ matches /\ ~d.whole /\ o \in Clean({limit + 1}, FALSE, limit)
    BY LayerCases, Zenon
  <1>3. ASSUME NEW sizes \in SUBSET Nat, NEW all, o \in Clean(sizes, all, limit)
        PROVE  /\ o.n \in Nat
               /\ \E s \in sizes : /\ o.n = AtMost(s, limit + 1)
                                   /\ o.whole = (all /\ s <= limit)
    BY <1>3 DEF AtMost, Clean
  <1>4. Sizes \in SUBSET Nat /\ {limit + 1} \in SUBSET Nat
    BY ParametersAssumption
  <1>5. limit # MaxInt => o.n \in Nat
    BY <1>2, <1>3, <1>4
  <1>6. ASSUME o \in Clean(Sizes, TRUE, limit) PROVE o.whole \/ Truncated(o.n, limit)
    <2>1. PICK s \in Sizes : o.n = AtMost(s, limit + 1) /\ o.whole = (TRUE /\ s <= limit)
      BY <1>3, <1>4, <1>6
    <2>2. s \in Nat
      BY <1>4
    <2>3. CASE s <= limit
      <3>1. (TRUE /\ s <= limit) = TRUE
        BY <2>3
      <3> QED BY <2>1, <3>1, Zenon
    <2>4. CASE ~(s <= limit)
      BY <2>1, <2>2, <2>4 DEF AtMost, Truncated
    <2> QED BY <2>3, <2>4
  <1>7. ASSUME o \in Clean({limit + 1}, FALSE, limit) PROVE Truncated(o.n, limit)
    <2>1. o.n = AtMost(limit + 1, limit + 1)
      BY <1>3, <1>4, <1>7
    <2> QED BY <2>1 DEF AtMost, Truncated
  <1> QED BY <1>1, <1>2, <1>5, <1>6, <1>7, Zenon

\* A sequence holds an element.
Holds(s, c) == \E i \in DOMAIN s : s[i] = c

LEMMA HoldsConcat ==
    ASSUME NEW S, NEW s \in Seq(S), NEW t \in Seq(S), NEW c
    PROVE  Holds(s \o t, c) <=> Holds(s, c) \/ Holds(t, c)
  <1> DEFINE u == s \o t
  <1>1. /\ u \in Seq(S) /\ Len(u) = Len(s) + Len(t)
        /\ \A i \in 1 .. Len(s) + Len(t) : u[i] = IF i <= Len(s) THEN s[i] ELSE t[i - Len(s)]
    BY ConcatProperties, Zenon
  <1> HIDE DEF u
  <1>2. /\ Len(s) \in Nat /\ Len(t) \in Nat
        /\ DOMAIN s = 1 .. Len(s) /\ DOMAIN t = 1 .. Len(t) /\ DOMAIN u = 1 .. Len(u)
    BY <1>1, LenProperties
  <1>3. ASSUME Holds(s, c) PROVE Holds(u, c)
    <2>1. PICK i \in 1 .. Len(s) : s[i] = c
      BY <1>2, <1>3 DEF Holds
    <2>2. i \in 1 .. Len(u) /\ u[i] = s[i]
      BY <1>1, <1>2
    <2> QED BY <1>2, <2>1, <2>2 DEF Holds
  <1>4. ASSUME Holds(t, c) PROVE Holds(u, c)
    <2>1. PICK i \in 1 .. Len(t) : t[i] = c
      BY <1>2, <1>4 DEF Holds
    <2>2. i + Len(s) \in 1 .. Len(u) /\ ~(i + Len(s) <= Len(s)) /\ (i + Len(s)) - Len(s) = i
      BY <1>1, <1>2
    <2>3. u[i + Len(s)] = t[i]
      BY <1>1, <2>2
    <2> QED BY <1>2, <2>1, <2>2, <2>3 DEF Holds
  <1>5. ASSUME Holds(u, c) PROVE Holds(s, c) \/ Holds(t, c)
    <2>1. PICK i \in 1 .. Len(u) : u[i] = c
      BY <1>2, <1>5 DEF Holds
    <2>2. CASE i <= Len(s)
      BY <1>1, <1>2, <2>1, <2>2 DEF Holds
    <2>3. CASE i > Len(s)
      <3>1. i - Len(s) \in 1 .. Len(t) /\ t[i - Len(s)] = c
        BY <1>1, <1>2, <2>1, <2>3
      <3> QED BY <1>2, <3>1 DEF Holds
    <2> QED BY <1>1, <1>2, <2>1, <2>2, <2>3
  <1> QED BY <1>3, <1>4, <1>5 DEF u

\* What a warning that depends on a condition adds.
LEMMA HoldsOne ==
    ASSUME NEW S, NEW cond \in BOOLEAN, NEW code \in S, NEW c
    PROVE  LET w == IF cond THEN <<code>> ELSE <<>>
           IN  w \in Seq(S) /\ (Holds(w, c) <=> cond /\ c = code)
  <1>1. CASE cond
    <2>1. <<code>> \in Seq(S) /\ DOMAIN <<code>> = {1} /\ <<code>>[1] = code
      OBVIOUS
    <2> QED BY <1>1, <2>1 DEF Holds
  <1>2. CASE ~cond
    <2>1. <<>> \in Seq(S) /\ DOMAIN <<>> = {}
      OBVIOUS
    <2> QED BY <1>2, <2>1 DEF Holds
  <1> QED BY <1>1, <1>2

-----------------------------------------------------------------------------
\* Outside the phase "done" there is nothing to show of the finished capture.
LEMMA NotDone ==
    ASSUME phase # "done"
    PROVE  DoneInv
  BY DEF DoneInv, EveryAbsenceExplained,
         OneLayerCompleteOrFlagged, EmptyOrFlagged, CompleteOrFlagged,
         DecodesAllOrNothing, SampleWithinWindow

\* The capture starts in a state of the invariant.
LEMMA InitInv == Init => Inv
  <1> SUFFICES ASSUME Init PROVE Inv
    OBVIOUS
  <1>1. /\ req.honest \in BOOLEAN /\ req.members \in BOOLEAN /\ req.length \in Sizes
        /\ cfg.maxRead \in MaxReads /\ cfg.maxDecode \in MaxDecodes
        /\ cfg.sampleBytes \in SampleSizes /\ cfg.strategy \in Strategies
        /\ phase = "start" /\ wire = NoData /\ data = NoData /\ cut = FALSE
        /\ sample = NoSample /\ warnings = <<>>
    BY DEF Init
  <1>2. wire.size = 0 /\ data.size = 0
    BY <1>1 DEF NoData
  <1>3. sample \in SampleType
    <2>1. <<>> \in Seq(Nat)
      OBVIOUS
    <2> QED BY <1>1, <2>1 DEF NoSample, SampleType
  <1>4. TypeInv
    <2>1. /\ req.length \in Nat /\ cfg.maxRead \in Nat \ {0} /\ cfg.maxDecode \in Nat \ {0}
          /\ cfg.sampleBytes \in Nat \ {0}
      BY <1>1, ParametersAssumption
    <2>2. wire.size \in Nat /\ data.size \in Nat
      BY <1>2
    <2>3. cut \in BOOLEAN /\ phase \in {"start", "decode", "finish", "done"}
      BY <1>1
    <2> QED BY <1>1, <1>3, <2>1, <2>2, <2>3 DEF TypeInv
  <1> QED BY <1>1, <1>4, NotDone DEF Inv, StartInv, CapturedInv, DecodeInv, FinishInv

\* A body that is left alone has one warning.
LEMMA SkipInv == Inv /\ SkipBody => Inv'
  <1> SUFFICES ASSUME Inv, SkipBody PROVE Inv'
    OBVIOUS
  <1>1. /\ phase = "start" /\ phase' = "done"
        /\ UNCHANGED <<req, cfg, wire, data, todo, cut, sample>>
        /\ sample = NoSample /\ warnings = <<>>
    BY DEF SkipBody, Inv, StartInv
  <1>2. PICK code \in SkipCodes : warnings' = Append(warnings, code)
    BY DEF SkipBody, Warn, SkipCodes
  <1>3. Len(warnings') = 1 /\ warnings'[1] \in SkipCodes
    <2>1. warnings' = <<code>>
      BY <1>1, <1>2
    <2> QED BY <2>1
  <1>4. ~sample.analyzed
    BY <1>1 DEF NoSample
  <1>5. TypeInv'
    BY <1>1 DEF Inv, TypeInv
  <1>6. DoneInv'
    BY <1>1, <1>3, <1>4 DEF DoneInv, EveryAbsenceExplained,
                            OneLayerCompleteOrFlagged, EmptyOrFlagged,
                            CompleteOrFlagged, DecodesAllOrNothing, SampleWithinWindow
  <1> QED BY <1>1, <1>5, <1>6 DEF Inv, StartInv, CapturedInv, DecodeInv, FinishInv

\* What a read leaves: the whole body, or a sample that says it is cut short.
LEMMA ReadInv == Inv /\ ReadLimitedBody => Inv'
  <1> SUFFICES ASSUME Inv, ReadLimitedBody PROVE Inv'
    OBVIOUS
  <1>1. /\ phase = "start" /\ sample = NoSample /\ warnings = <<>> /\ cut = FALSE
        /\ todo' = (IF cfg.compressed THEN Parsed ELSE <<>>)
        /\ phase' = (IF todo' = <<>> THEN "finish" ELSE "decode")
        /\ UNCHANGED <<req, cfg, cut, warnings>>
    BY DEF ReadLimitedBody, Inv, StartInv, Parsed
  <1>2. PICK r \in LimitedReads(req.length, cfg.maxRead) :
          /\ wire' = [codings |-> IF req.honest THEN Parsed ELSE <<>>,
                      size    |-> Observed(r.n, cfg.maxRead),
                      whole   |-> Observed(r.n, cfg.maxRead) = req.length]
          /\ data' = wire'
          /\ sample' = [sample EXCEPT !.analyzed = TRUE,
                                      !.truncated = Truncated(r.n, cfg.maxRead),
                                      !.failed = r.failed]
    BY DEF ReadLimitedBody, Parsed
  <1>3. req.length \in Nat /\ cfg.maxRead \in Nat /\ req.honest \in BOOLEAN
    BY DEF Inv, TypeInv
  <1>4. /\ r.n \in Nat /\ r.failed \in BOOLEAN /\ Observed(r.n, cfg.maxRead) \in Nat
        /\ Truncated(r.n, cfg.maxRead) \in BOOLEAN
        /\ \/ Observed(r.n, cfg.maxRead) = req.length \/ Truncated(r.n, cfg.maxRead) \/ r.failed
           \/ cfg.maxRead = MaxInt /\ Observed(r.n, cfg.maxRead) = 0
    BY <1>3, ReadFacts
  <1>5. sample' = [analyzed |-> TRUE, truncated |-> Truncated(r.n, cfg.maxRead),
                   failed |-> r.failed, decoded |-> FALSE, window |-> <<>>, sampled |-> FALSE]
    BY <1>1, <1>2 DEF NoSample
  <1>6. sample' \in SampleType
    <2>1. <<>> \in Seq(Nat)
      OBVIOUS
    <2> QED BY <1>4, <1>5, <2>1 DEF SampleType
  <1>7. wire'.size \in Nat /\ data'.size \in Nat
    BY <1>2, <1>4
  <1>8. phase' \in {"decode", "finish"} /\ (phase' = "decode" => todo' # <<>> /\ todo' = Parsed)
    BY <1>1
  <1>9. TypeInv'
    BY <1>1, <1>6, <1>7, <1>8 DEF Inv, TypeInv
  <1>10. Complete(wire)' /\ Complete(data)'
    <2>1. sample'.truncated = Truncated(r.n, cfg.maxRead) /\ sample'.failed = r.failed
      BY <1>5
    <2>2. wire'.whole = (Observed(r.n, cfg.maxRead) = req.length)
          /\ wire'.size = Observed(r.n, cfg.maxRead)
      BY <1>2
    <2>3. cfg.maxRead = MaxInt => ~LimitsFit'
      BY <1>1, <1>3, ParametersAssumption DEF LimitsFit
    <2> QED BY <1>2, <1>4, <2>1, <2>2, <2>3, Zenon DEF Complete, GaveNothing
  <1>11. /\ sample'.analyzed = TRUE /\ sample'.decoded = FALSE
         /\ wire'.codings = IF req.honest THEN Parsed ELSE <<>>
    <2>1. sample'.analyzed = TRUE
      BY <1>5
    <2>2. sample'.decoded = FALSE
      BY <1>5
    <2>3. wire'.codings = IF req.honest THEN Parsed ELSE <<>>
      BY <1>2
    <2> QED BY <2>1, <2>2, <2>3
  <1>12. CapturedInv'
    BY <1>1, <1>10, <1>11 DEF CapturedInv, Parsed
  <1>13. DecodeInv'
    <2> SUFFICES ASSUME phase' = "decode" PROVE DecodeInv'
      BY DEF DecodeInv
    <2>1. todo' # <<>> /\ todo' = Parsed /\ Parsed' = Parsed /\ data' = wire'
      BY <1>1, <1>2, <1>8 DEF Parsed
    <2>2. HasActiveContentEncoding' /\ cfg'.compressed
      BY <1>1, <2>1 DEF HasActiveContentEncoding, Parsed
    <2> QED BY <1>1, <1>10, <1>11, <2>1, <2>2 DEF DecodeInv
  <1>14. FinishInv'
    BY <1>1, <1>2, <1>11 DEF FinishInv
  <1>15. DoneInv'
    BY <1>8 DEF DoneInv, EveryAbsenceExplained,
                OneLayerCompleteOrFlagged, EmptyOrFlagged, CompleteOrFlagged,
                DecodesAllOrNothing, SampleWithinWindow
  <1> QED BY <1>8, <1>9, <1>12, <1>13, <1>14, <1>15 DEF Inv, StartInv

\* A layer that fails leaves the bytes of the wire.
LEMMA FailInv == Inv /\ DecodingFails => Inv'
  <1> SUFFICES ASSUME Inv, DecodingFails PROVE Inv'
    OBVIOUS
  <1>1. /\ phase = "decode" /\ phase' = "finish" /\ data' = wire
        /\ UNCHANGED <<req, cfg, wire, cut, sample>>
        /\ warnings' = Append(warnings, "body_decompression_failed")
    BY DEF DecodingFails, Warn
  <1>2. warnings = <<>> /\ ~sample.decoded
    BY <1>1 DEF Inv, DecodeInv
  <1>3. warnings' = <<"body_decompression_failed">>
    BY <1>1, <1>2
  <1>4. TypeInv' /\ StartInv' /\ DecodeInv'
    BY <1>1 DEF Inv, TypeInv, StartInv, DecodeInv
  <1>5. CapturedInv'
    BY <1>1 DEF Inv, CapturedInv, Parsed, Complete, GaveNothing, LimitsFit
  <1>6. FinishInv'
    BY <1>1, <1>2, <1>3 DEF FinishInv
  <1>7. DoneInv'
    BY <1>1 DEF DoneInv, EveryAbsenceExplained,
                OneLayerCompleteOrFlagged, EmptyOrFlagged, CompleteOrFlagged,
                DecodesAllOrNothing, SampleWithinWindow
  <1> QED BY <1>4, <1>5, <1>6, <1>7 DEF Inv

\* A single layer has nothing inside.
LEMMA NoneInside ==
    ASSUME OneLayer, Parsed # <<>>
    PROVE  Front(Parsed) = <<>>
  <1>1. PICK t \in Tokens : Parsed = <<t>>
    BY DEF OneLayer, Parsed
  <1>2. Len(<<t>>) - 1 = 0
    OBVIOUS
  <1>3. SubSeq(<<t>>, 1, 0) = <<>>
    BY SubSeqEmpty
  <1> QED BY <1>1, <1>2, <1>3 DEF Front

\* A layer that is undone takes one coding off the data and off the list, and
\* its result is complete, or cut, or as incomplete as what was read.
LEMMA LayerInv == Inv /\ DecodeLayer => Inv'
  <1> SUFFICES ASSUME Inv, DecodeLayer PROVE Inv'
    OBVIOUS
  <1>1. PICK o \in LayerOutcomes(data, Last(todo), cfg.maxDecode) :
          /\ ~o.failed
          /\ data' = [codings |-> IF data.codings = <<>> THEN <<>> ELSE Front(data.codings),
                      size    |-> Observed(o.n, cfg.maxDecode),
                      whole   |-> o.whole]
          /\ cut' = Truncated(o.n, cfg.maxDecode)
    BY DEF DecodeLayer
  <1>2. /\ phase = "decode" /\ todo' = Front(todo)
        /\ IF todo' = <<>>
           THEN /\ sample' = [sample EXCEPT !.decoded = TRUE]
                /\ IF cut' THEN warnings' = Append(warnings, "body_decompressed_truncated")
                   ELSE UNCHANGED warnings
                /\ phase' = "finish"
           ELSE UNCHANGED <<sample, warnings, phase>>
        /\ UNCHANGED <<req, cfg, wire>>
    BY DEF DecodeLayer, Warn
  <1>3. /\ todo # <<>> /\ HasActiveContentEncoding /\ ~sample.decoded /\ warnings = <<>>
        /\ cfg.compressed
        /\ req.honest => data.codings = todo
        /\ OneLayer => todo = Parsed /\ data = wire
        /\ sample \in SampleType /\ cfg.maxDecode \in Nat
        /\ sample.analyzed /\ Complete(wire)
    BY <1>2 DEF Inv, TypeInv, DecodeInv, CapturedInv
  <1>4. /\ o.n \in Nat
        /\ cfg.maxDecode = MaxInt => o.n = 0
        /\ cfg.maxDecode # MaxInt => data.size # 0
        /\ cfg.maxDecode # MaxInt /\ data.codings # <<>> /\ Last(data.codings) = Last(todo) =>
             o.whole \/ Truncated(o.n, cfg.maxDecode) \/ (~data.whole /\ req.members)
    BY <1>1, <1>3, LayerFacts
  <1>5. Observed(o.n, cfg.maxDecode) \in Nat /\ Truncated(o.n, cfg.maxDecode) \in BOOLEAN
    BY <1>3, <1>4 DEF Observed, AtMost, Truncated
  <1>6. data'.size \in Nat /\ data'.whole = o.whole /\ cut' \in BOOLEAN
        /\ (req.honest => data'.codings = todo')
    BY <1>1, <1>2, <1>3, <1>5
  <1>7. /\ sample' \in SampleType
        /\ sample'.truncated = sample.truncated /\ sample'.failed = sample.failed
        /\ sample'.analyzed = sample.analyzed
        /\ sample'.decoded = IF todo' = <<>> THEN TRUE ELSE sample.decoded
    BY <1>2, <1>3 DEF SampleType
  <1>8. TypeInv' /\ StartInv'
    BY <1>2, <1>6, <1>7 DEF Inv, TypeInv, StartInv
  <1>9. CapturedInv'
    BY <1>2, <1>3, <1>7 DEF Inv, CapturedInv, Parsed, Complete, GaveNothing, LimitsFit
  <1>10. req.honest /\ Simple => Complete(data)' \/ cut'
    <2> SUFFICES ASSUME req.honest, Simple PROVE Complete(data)' \/ cut'
      OBVIOUS
    <2>1. \/ cfg.maxDecode = MaxInt
          \/ o.whole \/ Truncated(o.n, cfg.maxDecode)
          \/ ~data.whole /\ req.members /\ data.size # 0
      BY <1>3, <1>4
    <2>5. CASE cfg.maxDecode = MaxInt
      <3>1. data'.size = 0
        BY <1>1, <1>3, <1>4, <2>5 DEF Observed, AtMost
      <3>2. ~LimitsFit'
        BY <1>2, <1>3, <2>5 DEF LimitsFit
      <3> QED BY <3>1, <3>2 DEF Complete, GaveNothing
    <2>2. CASE o.whole
      BY <1>6, <2>2 DEF Complete
    <2>3. CASE Truncated(o.n, cfg.maxDecode)
      BY <1>1, <2>3
    <2>4. CASE ~data.whole /\ req.members /\ data.size # 0
      <3>1. sample.truncated \/ sample.failed
        BY <1>3, <2>4 DEF Simple, Complete, GaveNothing
      <3> QED BY <1>7, <3>1 DEF Complete
    <2> QED BY <2>1, <2>2, <2>3, <2>4, <2>5
  <1>11. OneLayer => todo' = <<>>
    BY <1>2, <1>3, NoneInside
  <1>12. Simple' <=> Simple
    BY <1>2 DEF Simple, OneLayer
  <1>13. HasActiveContentEncoding' /\ (OneLayer' <=> OneLayer)
    BY <1>2, <1>3 DEF HasActiveContentEncoding, OneLayer
  <1>14. CASE todo' = <<>>
    <2>1. /\ phase' = "finish" /\ sample'.decoded
          /\ warnings' = IF cut' THEN <<"body_decompressed_truncated">> ELSE <<>>
      BY <1>2, <1>3, <1>7, <1>14
    <2>2. FinishInv'
      BY <1>2, <1>6, <1>10, <1>12, <1>13, <1>14, <2>1 DEF FinishInv
    <2>3. DecodeInv' /\ DoneInv'
      BY <2>1 DEF DecodeInv, DoneInv, EveryAbsenceExplained,
                  OneLayerCompleteOrFlagged, EmptyOrFlagged,
                  CompleteOrFlagged, DecodesAllOrNothing, SampleWithinWindow
    <2> QED BY <1>8, <1>9, <2>2, <2>3 DEF Inv
  <1>15. CASE todo' # <<>>
    <2>1. phase' = "decode" /\ ~sample'.decoded /\ warnings' = <<>>
      BY <1>2, <1>3, <1>7, <1>15
    <2>2. DecodeInv'
      BY <1>2, <1>3, <1>6, <1>10, <1>11, <1>12, <1>13, <1>15, <2>1 DEF DecodeInv
    <2>3. FinishInv' /\ DoneInv'
      BY <2>1 DEF FinishInv, DoneInv, EveryAbsenceExplained,
                  OneLayerCompleteOrFlagged, EmptyOrFlagged,
                  CompleteOrFlagged, DecodesAllOrNothing, SampleWithinWindow
    <2> QED BY <1>8, <1>9, <2>2, <2>3 DEF Inv
  <1> QED BY <1>14, <1>15

\* The codes of the warnings when captureBody is about to return.
LEMMA WarningsBefore ==
    ASSUME Inv, phase = "finish", NEW c
    PROVE  /\ warnings \in Seq(WarningCodes)
           /\ Holds(warnings, c) =>
                c = IF sample.decoded THEN "body_decompressed_truncated"
                    ELSE "body_decompression_failed"
           /\ sample.decoded /\ cut => Holds(warnings, "body_decompressed_truncated")
  <1>1. /\ sample.decoded => warnings = IF cut THEN <<"body_decompressed_truncated">> ELSE <<>>
        /\ ~sample.decoded => warnings \in {<<>>, <<"body_decompression_failed">>}
    BY DEF Inv, FinishInv
  <1>2. /\ "body_decompressed_truncated" \in WarningCodes
        /\ "body_decompression_failed" \in WarningCodes
    BY DEF WarningCodes
  <1>3. ASSUME NEW code \in WarningCodes
        PROVE  /\ <<code>> \in Seq(WarningCodes) /\ <<>> \in Seq(WarningCodes)
               /\ Holds(<<code>>, c) <=> c = code
               /\ ~Holds(<<>>, c)
               /\ Holds(<<code>>, code)
    <2>1. DOMAIN <<code>> = {1} /\ <<code>>[1] = code /\ DOMAIN <<>> = {}
      OBVIOUS
    <2>2. <<code>> \in Seq(WarningCodes) /\ <<>> \in Seq(WarningCodes)
      OBVIOUS
    <2> QED BY <2>1, <2>2 DEF Holds
  <1> QED BY <1>1, <1>2, <1>3

\* The sample is taken of the data that captureBody hands on.
LEMMA SampledIsData ==
    ASSUME Inv, phase = "finish"
    PROVE  SampledSize = data.size
  BY DEF Inv, FinishInv, SampledSize

\* captureBody returns with everything said and the sample taken.
LEMMA FinishStep == Inv /\ Finish => Inv'
  <1> SUFFICES ASSUME Inv, Finish PROVE Inv'
    OBVIOUS
  <1> DEFINE window == BuildSample(data.size, cfg.sampleBytes, cfg.strategy)
             left == HasActiveContentEncoding /\ ~sample.decoded
             w1 == IF left THEN <<"body_encoded_not_decoded">> ELSE <<>>
             w2 == IF sample.truncated THEN <<"body_truncated">> ELSE <<>>
             w3 == IF sample.failed THEN <<"body_read_error">> ELSE <<>>
  <1>1. /\ phase = "finish" /\ phase' = "done"
        /\ sample' = [sample EXCEPT !.window = window,
                                    !.sampled = cfg.sampleBytes < data.size]
        /\ warnings' = warnings \o w1 \o w2 \o w3
        /\ UNCHANGED <<req, cfg, wire, data, todo, cut>>
    BY SampledIsData DEF Finish
  <1>2. /\ data.size \in Nat /\ cfg.sampleBytes \in Nat \ {0} /\ cfg.strategy \in Strategies
        /\ sample \in SampleType /\ cut \in BOOLEAN /\ req.honest \in BOOLEAN
    BY DEF Inv, TypeInv
  <1>3. /\ Run(window, data.size) /\ window \in Seq(Nat)
        /\ Len(window) = AtMost(data.size, cfg.sampleBytes)
        /\ cfg.sampleBytes < data.size /\ cfg.strategy = "head_tail" /\ cfg.sampleBytes > 1 =>
             window[1] = 1 /\ window[Len(window)] = data.size
    BY <1>2, BuildSampleProperties
  <1> HIDE DEF window
  <1> DEFINE cutting == cfg.sampleBytes < data.size
  <1>13. cutting \in BOOLEAN
    OBVIOUS
  <1> HIDE DEF cutting
  <1>14. sample' = [sample EXCEPT !.window = window, !.sampled = cutting]
    BY <1>1 DEF cutting
  <1>4. /\ sample' \in SampleType
        /\ sample'.truncated = sample.truncated /\ sample'.failed = sample.failed
        /\ sample'.analyzed = sample.analyzed /\ sample'.decoded = sample.decoded
        /\ sample'.window = window
        /\ sample'.sampled = cutting
    BY <1>2, <1>3, <1>13, <1>14 DEF SampleType
  <1>5. ASSUME NEW c
        PROVE  Holds(warnings', c) <=>
                 \/ Holds(warnings, c)
                 \/ left /\ c = "body_encoded_not_decoded"
                 \/ sample.truncated /\ c = "body_truncated"
                 \/ sample.failed /\ c = "body_read_error"
    <2>1. /\ warnings \in Seq(WarningCodes)
          /\ left \in BOOLEAN /\ sample.truncated \in BOOLEAN /\ sample.failed \in BOOLEAN
          /\ "body_encoded_not_decoded" \in WarningCodes /\ "body_truncated" \in WarningCodes
          /\ "body_read_error" \in WarningCodes
      BY <1>1, <1>2, WarningsBefore DEF WarningCodes, SampleType
    <2>2. w1 \in Seq(WarningCodes) /\ (Holds(w1, c) <=> left /\ c = "body_encoded_not_decoded")
      BY <2>1, HoldsOne, Zenon
    <2>3. w2 \in Seq(WarningCodes) /\ (Holds(w2, c) <=> sample.truncated /\ c = "body_truncated")
      BY <2>1, HoldsOne, Zenon
    <2>4. w3 \in Seq(WarningCodes) /\ (Holds(w3, c) <=> sample.failed /\ c = "body_read_error")
      BY <2>1, HoldsOne, Zenon
    <2> HIDE DEF w1, w2, w3
    <2>5. warnings \o w1 \in Seq(WarningCodes) /\ (warnings \o w1) \o w2 \in Seq(WarningCodes)
      BY <2>1, <2>2, <2>3, ConcatProperties
    <2>6. Holds(warnings \o w1, c) <=> Holds(warnings, c) \/ Holds(w1, c)
      BY <2>1, <2>2, HoldsConcat
    <2>7. Holds((warnings \o w1) \o w2, c) <=> Holds(warnings \o w1, c) \/ Holds(w2, c)
      BY <2>3, <2>5, HoldsConcat
    <2>8. Holds(((warnings \o w1) \o w2) \o w3, c)
            <=> Holds((warnings \o w1) \o w2, c) \/ Holds(w3, c)
      BY <2>4, <2>5, HoldsConcat
    <2> QED BY <1>1, <2>2, <2>3, <2>4, <2>6, <2>7, <2>8
  <1> HIDE DEF w1, w2, w3
  <1>6. \A c : Warned(c)' <=> Holds(warnings', c)
    BY DEF Warned, Holds
  <1>7. /\ sample.analyzed /\ Complete(wire)
        /\ wire.codings = IF req.honest THEN Parsed ELSE <<>>
    BY <1>1 DEF Inv, CapturedInv
  <1>8. EveryAbsenceExplained'
    <2>1. \A code \in SkipCodes : ~Warned(code)'
      BY <1>1, <1>5, <1>6, WarningsBefore DEF SkipCodes
    <2>2. Warned("body_encoded_not_decoded")' <=> left
      BY <1>1, <1>5, <1>6, WarningsBefore
    <2>3. IsDecodedForStructuredAnalysis' <=> ~left
      BY <1>1, <1>4 DEF IsDecodedForStructuredAnalysis, HasActiveContentEncoding
    <2> QED BY <1>4, <1>7, <2>1, <2>2, <2>3 DEF EveryAbsenceExplained
  <1>9. OneLayerCompleteOrFlagged' /\ EmptyOrFlagged'
    <2> DEFINE flagged == \E code \in {"body_truncated", "body_read_error",
                                       "body_decompressed_truncated"} : Warned(code)'
    <2>1. /\ sample.truncated => Warned("body_truncated")'
          /\ sample.failed => Warned("body_read_error")'
          /\ sample.decoded /\ cut => Warned("body_decompressed_truncated")'
      BY <1>1, <1>5, <1>6, WarningsBefore
    <2>2. ASSUME Simple, req.honest, ~left
          PROVE  data.codings = <<>> /\ (data.whole \/ flagged \/ GaveNothing(data))
      <3>1. data.codings = <<>> /\ (Complete(data) \/ (sample.decoded /\ cut))
        <4>1. CASE sample.decoded
          BY <1>1, <2>2, <4>1 DEF Inv, FinishInv
        <4>2. CASE ~sample.decoded
          <5>1. data = wire /\ Parsed = <<>>
            BY <1>1, <2>2, <4>2 DEF Inv, FinishInv, HasActiveContentEncoding, Parsed
          <5> QED BY <1>7, <2>2, <5>1
        <4> QED BY <4>1, <4>2
      <3> QED BY <2>1, <3>1 DEF Complete
    <2>3. /\ Simple' <=> Simple
          /\ OneLayer' \/ ~req'.members <=> Simple
          /\ LimitsFit' <=> LimitsFit
      BY <1>1 DEF Simple, OneLayer, LimitsFit
    <2>4. IsDecodedForStructuredAnalysis' => ~left
      BY <1>1, <1>4 DEF IsDecodedForStructuredAnalysis, HasActiveContentEncoding
    <2>5. data' = data /\ req' = req
      BY <1>1
    <2> HIDE DEF left
    <2>6. OneLayerCompleteOrFlagged'
      BY <2>2, <2>3, <2>4, <2>5, Zenon
      DEF OneLayerCompleteOrFlagged, CompleteOrFlagged, GaveNothing
    <2>7. EmptyOrFlagged'
      BY <2>2, <2>3, <2>4, <2>5, Zenon DEF EmptyOrFlagged, GaveNothing
    <2> QED BY <2>6, <2>7
  <1>10. DecodesAllOrNothing'
    <2>1. CASE sample.decoded
      <3>1. ~Warned("body_decompression_failed")'
        BY <1>1, <1>5, <1>6, <2>1, WarningsBefore
      <3>2. req.honest => data.codings = <<>>
        BY <1>1, <2>1 DEF Inv, FinishInv
      <3> QED BY <1>1, <1>4, <2>1, <3>1, <3>2 DEF DecodesAllOrNothing
    <2>2. CASE ~sample.decoded
      <3>1. data = wire
        BY <1>1, <2>2 DEF Inv, FinishInv
      <3> QED BY <1>1, <1>4, <2>2, <3>1 DEF DecodesAllOrNothing
    <2> QED BY <2>1, <2>2
  <1>11. SampleWithinWindow'
    <2>1. DOMAIN window = 1 .. Len(window)
      BY <1>3, LenProperties
    <2>2. sample'.sampled <=> Len(window) < data.size
      <3>1. CASE cutting
        <4>1. Len(window) < data.size
          BY <1>2, <1>3, <3>1 DEF AtMost, cutting
        <4> QED BY <1>4, <3>1, <4>1
      <3>2. CASE ~cutting
        <4>1. ~(Len(window) < data.size)
          BY <1>2, <1>3, <3>2 DEF AtMost, cutting
        <4> QED BY <1>4, <3>2, <4>1
      <3> QED BY <3>1, <3>2
    <2>3. cfg.sampleBytes < data.size /\ cfg.strategy = "head_tail" /\ cfg.sampleBytes > 1 =>
            {1, data.size} \subseteq {window[i] : i \in DOMAIN window}
      <3> SUFFICES ASSUME cfg.sampleBytes < data.size, cfg.strategy = "head_tail",
                          cfg.sampleBytes > 1
                   PROVE  {1, data.size} \subseteq {window[i] : i \in DOMAIN window}
        OBVIOUS
      <3>1. Len(window) = cfg.sampleBytes
        BY <1>2, <1>3 DEF AtMost
      <3>2. 1 \in DOMAIN window /\ Len(window) \in DOMAIN window
        BY <1>2, <2>1, <3>1
      <3> QED BY <1>3, <3>2
    <2>4. sample'.sampled => cfg.sampleBytes < data.size
      BY <1>4 DEF cutting
    <2>5. /\ \A i \in DOMAIN window : window[i] \in 1 .. data.size
          /\ \A i \in 2 .. Len(window) : window[i - 1] < window[i]
      BY <1>3, <2>1 DEF Run
    <2> SUFFICES
          /\ \A i \in DOMAIN window : window[i] \in 1 .. data.size
          /\ \A i \in 2 .. Len(window) : window[i - 1] < window[i]
          /\ Len(window) = AtMost(data.size, cfg.sampleBytes)
          /\ sample'.sampled <=> Len(window) < data.size
          /\ sample'.sampled /\ cfg.strategy = "head_tail" /\ cfg.sampleBytes > 1 =>
               {1, data.size} \subseteq {window[i] : i \in DOMAIN window}
      <3>1. sample'.window = window /\ data' = data /\ cfg' = cfg
        BY <1>1, <1>4
      <3>2. AtMost(data.size, cfg.sampleBytes)' = AtMost(data.size, cfg.sampleBytes)
        BY <3>1 DEF AtMost
      <3> QED BY <3>1, <3>2 DEF SampleWithinWindow
    <2> QED BY <1>3, <2>2, <2>3, <2>4, <2>5
  <1>12. TypeInv'
    BY <1>1, <1>4 DEF Inv, TypeInv
  <1> QED BY <1>1, <1>8, <1>9, <1>10, <1>11, <1>12
      DEF Inv, DoneInv, StartInv, CapturedInv, DecodeInv, FinishInv

-----------------------------------------------------------------------------
\* Every step of the capture keeps the invariant.
LEMMA NextInv == Inv /\ [Next]_vars => Inv'
  <1> SUFFICES ASSUME Inv, [Next]_vars PROVE Inv'
    OBVIOUS
  <1>1. CASE UNCHANGED vars
    <2>1. UNCHANGED <<req, cfg, phase, wire, data, todo, cut, sample, warnings>>
      BY <1>1 DEF vars
    <2> QED BY <2>1
        DEF Inv, TypeInv, StartInv, CapturedInv, DecodeInv, FinishInv, DoneInv, Parsed, Simple,
            Complete, GaveNothing, LimitsFit, EmptyOrFlagged, OneLayer,
            HasActiveContentEncoding, IsDecodedForStructuredAnalysis,
            EveryAbsenceExplained, OneLayerCompleteOrFlagged, CompleteOrFlagged,
            DecodesAllOrNothing, SampleWithinWindow, Warned
  <1> QED BY <1>1, SkipInv, ReadInv, FailInv, LayerInv, FinishStep DEF Next

\* The invariant of the capture.
THEOREM CaptureInvariant == Spec => []Inv
  <1> QED BY InitInv, NextInv, PTL DEF Spec

\* captureBody: a body that is not analysed has exactly one reason among the
\* warnings, and an encoded one is reported exactly when it was not decoded.
THEOREM AbsenceIsExplained == Spec => []EveryAbsenceExplained
  <1>1. Inv => EveryAbsenceExplained
    BY DEF Inv, DoneInv
  <1> QED BY <1>1, CaptureInvariant, PTL

\* captureBody and decodeObservedBody: what the structured analyzers get is
\* whole or flagged, for any chain of codings but one with gzip data of several
\* members inside another coding, and any limits but the largest integer, with
\* which readWithLimit reads nothing and says nothing.
THEOREM CompleteOrFlaggedBody == Spec => []OneLayerCompleteOrFlagged
  <1>1. Inv => OneLayerCompleteOrFlagged
    BY DEF Inv, DoneInv
  <1> QED BY <1>1, CaptureInvariant, PTL

\* decodeObservedBody: the analyzers never get the data of a layer in between.
THEOREM DecodingIsAllOrNothing == Spec => []DecodesAllOrNothing
  <1>1. Inv => DecodesAllOrNothing
    BY DEF Inv, DoneInv
  <1> QED BY <1>1, CaptureInvariant, PTL

\* buildSample: for all sizes and all values of SampleBytes the sample is a run
\* of distinct bytes, as many as it may hold.
THEOREM SampleIsARun == Spec => []SampleWithinWindow
  <1>1. Inv => SampleWithinWindow
    BY DEF Inv, DoneInv
  <1> QED BY <1>1, CaptureInvariant, PTL

-----------------------------------------------------------------------------
\* A piece of data.
Piece == [codings: Seq(Tokens), size: Nat, whole: BOOLEAN]

\* The most the data may hold.
MostData == IF cfg.compressed /\ cfg.maxDecode > cfg.maxRead THEN cfg.maxDecode ELSE cfg.maxRead

BoundsInv ==
    /\ req.header \in Seq(Tokens) /\ cfg.compressed \in BOOLEAN
    /\ wire \in Piece /\ wire.size <= cfg.maxRead
    /\ data \in Piece /\ data.size <= MostData
    /\ todo \in Seq(Tokens)
    /\ phase = "decode" => cfg.compressed
    /\ sample.truncated => wire.size = cfg.maxRead
    /\ ~sample.analyzed => sample = NoSample
    /\ sample.analyzed => wire.codings = IF req.honest THEN Parsed ELSE <<>>
    /\ warnings \in Seq(WarningCodes) /\ IsInjective(warnings)

\* What is kept of a read of n bytes.
LEMMA KeptBounds ==
    ASSUME NEW limit \in Nat, NEW n \in Nat
    PROVE  /\ Observed(n, limit) \in Nat /\ Observed(n, limit) <= limit
           /\ Truncated(n, limit) => Observed(n, limit) = limit
  BY DEF Observed, Truncated, AtMost

\* The flag of an outcome of a layer that decodes.
LEMMA LayerWhole ==
    ASSUME NEW d, d.whole \in BOOLEAN, NEW coding, NEW limit \in Nat,
           NEW o \in LayerOutcomes(d, coding, limit), ~o.failed
    PROVE  o.whole \in BOOLEAN
  <1>1. ASSUME NEW sizes, NEW all, o \in Clean(sizes, all, limit) PROVE o.whole \in BOOLEAN
    <2>1. PICK s \in sizes : o.whole = (all /\ s <= limit)
      BY <1>1 DEF Clean
    <2> QED BY <2>1, Zenon
  <1>2. ASSUME NEW matches,
               o \in {[n |-> 0, whole |-> w, failed |-> FALSE] : w \in {FALSE, matches /\ d.whole}}
        PROVE  o.whole \in BOOLEAN
    <2>1. PICK w \in {FALSE, matches /\ d.whole} : o = [n |-> 0, whole |-> w, failed |-> FALSE]
      BY <1>2
    <2> QED BY <2>1
  <1> QED BY <1>1, <1>2, LayerCases, Zenon

\* A new code at the end of a sequence of distinct codes, under a condition.
LEMMA AddDistinct ==
    ASSUME NEW S, NEW s \in Seq(S), NEW code \in S, NEW cond \in BOOLEAN,
           IsInjective(s), cond => ~Holds(s, code)
    PROVE  LET w == IF cond THEN <<code>> ELSE <<>>
           IN  s \o w \in Seq(S) /\ IsInjective(s \o w)
  <1> DEFINE w == IF cond THEN <<code>> ELSE <<>>
             u == s \o w
  <1>1. w \in Seq(S)
    BY HoldsOne, Zenon
  <1>2. /\ u \in Seq(S) /\ Len(u) = Len(s) + Len(w)
        /\ \A i \in 1 .. Len(s) + Len(w) : u[i] = IF i <= Len(s) THEN s[i] ELSE w[i - Len(s)]
    BY <1>1, ConcatProperties, Zenon
  <1>3. /\ Len(s) \in Nat /\ DOMAIN s = 1 .. Len(s) /\ DOMAIN u = 1 .. Len(u)
    BY <1>2, LenProperties
  <1>4. Len(w) = (IF cond THEN 1 ELSE 0) /\ (cond => w[1] = code)
    OBVIOUS
  <1> HIDE DEF w, u
  <1>5. ASSUME NEW i \in DOMAIN u
        PROVE  \/ i \in DOMAIN s /\ u[i] = s[i]
               \/ cond /\ i = Len(s) + 1 /\ u[i] = code
    <2>1. i \in 1 .. Len(s) + Len(w)
      BY <1>2, <1>3
    <2>2. CASE i <= Len(s)
      BY <1>2, <1>3, <2>1, <2>2
    <2>3. CASE ~(i <= Len(s))
      <3>1. cond /\ i = Len(s) + 1
        BY <1>3, <1>4, <2>1, <2>3
      <3>2. u[i] = w[i - Len(s)] /\ i - Len(s) = 1
        BY <1>2, <1>3, <2>1, <2>3, <3>1
      <3> QED BY <1>4, <3>1, <3>2
    <2> QED BY <2>2, <2>3
  <1>6. ASSUME NEW i \in DOMAIN u, NEW j \in DOMAIN u, u[i] = u[j] PROVE i = j
    <2>1. i \in DOMAIN s /\ j \in DOMAIN s /\ u[i] = s[i] /\ u[j] = s[j] => i = j
      BY <1>6 DEF IsInjective
    <2>2. cond => \A k \in DOMAIN s : s[k] # code
      BY DEF Holds
    <2> QED BY <1>5, <1>6, <2>1, <2>2
  <1>7. IsInjective(u)
    BY <1>6 DEF IsInjective
  <1> QED BY <1>2, <1>7 DEF u, w

\* No sequence of at most one element repeats one.
LEMMA ShortDistinct ==
    ASSUME NEW code
    PROVE  IsInjective(<<>>) /\ IsInjective(<<code>>)
  <1>1. DOMAIN <<>> = {} /\ DOMAIN <<code>> = {1}
    OBVIOUS
  <1> QED BY <1>1 DEF IsInjective

\* The capture starts within its bounds.
LEMMA InitBounds == Init => BoundsInv
  <1> SUFFICES ASSUME Init PROVE BoundsInv
    OBVIOUS
  <1>1. /\ req.header \in Headers /\ cfg.compressed \in BOOLEAN
        /\ cfg.maxRead \in MaxReads /\ cfg.maxDecode \in MaxDecodes
        /\ phase = "start" /\ wire = NoData /\ data = NoData /\ todo = <<>>
        /\ sample = NoSample /\ warnings = <<>>
    BY DEF Init
  <1>2. req.header \in Seq(Tokens) /\ cfg.maxRead \in Nat /\ cfg.maxDecode \in Nat
    BY <1>1, ParametersAssumption
  <1>3. <<>> \in Seq(Tokens) /\ <<>> \in Seq(WarningCodes)
    OBVIOUS
  <1>4. NoData \in Piece /\ NoData.size = 0 /\ ~NoSample.truncated /\ ~NoSample.analyzed
    BY <1>3 DEF NoData, Piece, NoSample
  <1>5. data.size <= MostData
    BY <1>1, <1>2, <1>4 DEF MostData
  <1>6. warnings \in Seq(WarningCodes) /\ IsInjective(warnings)
    BY <1>1, <1>3, ShortDistinct
  <1>7. wire \in Piece /\ data \in Piece /\ wire.size = 0 /\ ~sample.truncated /\ ~sample.analyzed
    BY <1>1, <1>4
  <1> QED BY <1>1, <1>2, <1>3, <1>5, <1>6, <1>7 DEF BoundsInv

\* A skip adds the first warning.
LEMMA SkipBounds == Inv /\ BoundsInv /\ SkipBody => BoundsInv'
  <1> SUFFICES ASSUME Inv, BoundsInv, SkipBody PROVE BoundsInv'
    OBVIOUS
  <1>1. /\ phase = "start" /\ phase' = "done" /\ warnings = <<>>
        /\ UNCHANGED <<req, cfg, wire, data, todo, cut, sample>>
    BY DEF SkipBody, Inv, StartInv
  <1>2. PICK code \in WarningCodes : warnings' = Append(warnings, code)
    BY DEF SkipBody, Warn, WarningCodes
  <1>3. warnings' = <<code>> /\ <<code>> \in Seq(WarningCodes)
    BY <1>1, <1>2
  <1> QED BY <1>1, <1>3, ShortDistinct DEF BoundsInv, MostData, Parsed

\* A read keeps at most MaxReadBytes, and that many when there were more.
LEMMA ReadBounds == Inv /\ BoundsInv /\ ReadLimitedBody => BoundsInv'
  <1> SUFFICES ASSUME Inv, BoundsInv, ReadLimitedBody PROVE BoundsInv'
    OBVIOUS
  <1>1. /\ phase = "start" /\ sample = NoSample
        /\ todo' = (IF cfg.compressed THEN Parsed ELSE <<>>)
        /\ phase' = (IF todo' = <<>> THEN "finish" ELSE "decode")
        /\ UNCHANGED <<req, cfg, cut, warnings>>
    BY DEF ReadLimitedBody, Inv, StartInv, Parsed
  <1>2. PICK r \in LimitedReads(req.length, cfg.maxRead) :
          /\ wire' = [codings |-> IF req.honest THEN Parsed ELSE <<>>,
                      size    |-> Observed(r.n, cfg.maxRead),
                      whole   |-> Observed(r.n, cfg.maxRead) = req.length]
          /\ data' = wire'
          /\ sample' = [sample EXCEPT !.analyzed = TRUE,
                                      !.truncated = Truncated(r.n, cfg.maxRead),
                                      !.failed = r.failed]
    BY DEF ReadLimitedBody, Parsed
  <1>3. req.length \in Nat /\ cfg.maxRead \in Nat /\ cfg.maxDecode \in Nat
    BY DEF Inv, TypeInv
  <1>4. r.n \in Nat
    BY <1>3, ReadFacts
  <1>5. /\ Observed(r.n, cfg.maxRead) \in Nat /\ Observed(r.n, cfg.maxRead) <= cfg.maxRead
        /\ Truncated(r.n, cfg.maxRead) => Observed(r.n, cfg.maxRead) = cfg.maxRead
    BY <1>3, <1>4, KeptBounds
  <1>6. Parsed \in Seq(Tokens) /\ <<>> \in Seq(Tokens)
    BY ParseType DEF BoundsInv, Parsed
  <1>7. sample'.truncated = Truncated(r.n, cfg.maxRead)
    BY <1>1, <1>2 DEF NoSample
  <1>8. wire' \in Piece /\ wire'.size = Observed(r.n, cfg.maxRead)
        /\ wire'.codings = (IF req.honest THEN Parsed ELSE <<>>)
    BY <1>2, <1>5, <1>6 DEF Piece
  <1>9. data'.size <= MostData'
    BY <1>1, <1>2, <1>3, <1>5, <1>8 DEF MostData
  <1>10. phase' = "decode" => cfg.compressed
    BY <1>1
  <1>11. sample'.truncated => wire'.size = cfg.maxRead
    BY <1>5, <1>7, <1>8
  <1>12. wire'.codings = (IF req.honest THEN Parsed ELSE <<>>)' /\ sample'.analyzed
    BY <1>1, <1>2, <1>8 DEF Parsed, NoSample
  <1> QED BY <1>1, <1>2, <1>5, <1>6, <1>8, <1>9, <1>10, <1>11, <1>12 DEF BoundsInv

\* Giving up takes the bytes of the wire and adds the first warning.
LEMMA FailBounds == Inv /\ BoundsInv /\ DecodingFails => BoundsInv'
  <1> SUFFICES ASSUME Inv, BoundsInv, DecodingFails PROVE BoundsInv'
    OBVIOUS
  <1>1. /\ phase = "decode" /\ warnings = <<>>
        /\ warnings' = Append(warnings, "body_decompression_failed")
        /\ data' = wire /\ todo' = <<>> /\ phase' = "finish"
        /\ UNCHANGED <<req, cfg, wire, cut, sample>>
    BY DEF DecodingFails, Warn, Inv, DecodeInv
  <1>2. warnings' = <<"body_decompression_failed">> /\ warnings' \in Seq(WarningCodes)
    BY <1>1 DEF WarningCodes
  <1>3. data'.size <= MostData'
    <2>1. /\ wire.size \in Nat /\ wire.size <= cfg.maxRead
          /\ cfg.maxRead \in Nat /\ cfg.maxDecode \in Nat
      BY DEF BoundsInv, Inv, TypeInv, Piece
    <2> QED BY <1>1, <2>1 DEF MostData
  <1>4. <<>> \in Seq(Tokens)
    OBVIOUS
  <1> QED BY <1>1, <1>2, <1>3, <1>4, ShortDistinct DEF BoundsInv, Parsed

\* All but the last token.
LEMMA FrontType ==
    ASSUME NEW s \in Seq(Tokens), s # <<>>
    PROVE  Front(s) \in Seq(Tokens)
  <1>1. Len(s) \in Nat /\ Len(s) # 0
    BY EmptySeq, LenProperties
  <1>2. 1 \in 1 .. Len(s) + 1 /\ Len(s) - 1 \in 0 .. Len(s)
    BY <1>1
  <1>3. SubSeq(s, 1, Len(s) - 1) \in Seq(Tokens)
    BY <1>2, SubSeqProperties
  <1> QED BY <1>3 DEF Front

\* A layer gives at most MaxDecompressedBytes.
LEMMA LayerBounds == Inv /\ BoundsInv /\ DecodeLayer => BoundsInv'
  <1> SUFFICES ASSUME Inv, BoundsInv, DecodeLayer PROVE BoundsInv'
    OBVIOUS
  <1>1. PICK o \in LayerOutcomes(data, Last(todo), cfg.maxDecode) :
          /\ ~o.failed
          /\ data' = [codings |-> IF data.codings = <<>> THEN <<>> ELSE Front(data.codings),
                      size    |-> Observed(o.n, cfg.maxDecode),
                      whole   |-> o.whole]
    BY DEF DecodeLayer
  <1>2. /\ phase = "decode" /\ todo' = Front(todo)
        /\ IF todo' = <<>>
           THEN /\ sample' = [sample EXCEPT !.decoded = TRUE]
                /\ IF cut' THEN warnings' = Append(warnings, "body_decompressed_truncated")
                   ELSE UNCHANGED warnings
           ELSE UNCHANGED <<sample, warnings, phase>>
        /\ UNCHANGED <<req, cfg, wire>>
    BY DEF DecodeLayer, Warn
  <1>3. /\ cfg.maxRead \in Nat /\ cfg.maxDecode \in Nat /\ cfg.compressed
        /\ todo # <<>> /\ todo \in Seq(Tokens) /\ warnings = <<>>
        /\ data.codings \in Seq(Tokens) /\ data.whole \in BOOLEAN
        /\ sample \in SampleType /\ sample.analyzed
    BY <1>2 DEF Inv, TypeInv, CapturedInv, DecodeInv, BoundsInv, Piece
  <1>4. /\ o.n \in Nat /\ o.whole \in BOOLEAN
        /\ Observed(o.n, cfg.maxDecode) \in Nat /\ Observed(o.n, cfg.maxDecode) <= cfg.maxDecode
    <2>1. o.n \in Nat
      BY <1>1, <1>3, LayerFacts
    <2>2. o.whole \in BOOLEAN
      BY <1>1, <1>3, LayerWhole
    <2> QED BY <1>3, <2>1, <2>2, KeptBounds
  <1>5. todo' \in Seq(Tokens)
    BY <1>2, <1>3, FrontType
  <1>6. data.codings # <<>> => Front(data.codings) \in Seq(Tokens)
    BY <1>3, FrontType
  <1>7. data' \in Piece /\ data'.size = Observed(o.n, cfg.maxDecode)
    <2>1. <<>> \in Seq(Tokens)
      OBVIOUS
    <2> QED BY <1>1, <1>4, <1>6, <2>1 DEF Piece
  <1>8. data'.size <= MostData'
    BY <1>2, <1>3, <1>4, <1>7 DEF MostData
  <1>9. sample'.truncated = sample.truncated /\ sample'.analyzed
    BY <1>2, <1>3 DEF SampleType
  <1>10. warnings' \in Seq(WarningCodes) /\ IsInjective(warnings')
    <2>1. warnings' \in {<<>>, <<"body_decompressed_truncated">>}
      BY <1>2, <1>3
    <2>2. <<>> \in Seq(WarningCodes) /\ <<"body_decompressed_truncated">> \in Seq(WarningCodes)
      BY DEF WarningCodes
    <2> QED BY <2>1, <2>2, ShortDistinct
  <1> QED BY <1>2, <1>3, <1>5, <1>7, <1>8, <1>9, <1>10 DEF BoundsInv, Parsed

\* The last warnings are all of different codes.
LEMMA FinishBounds == Inv /\ BoundsInv /\ Finish => BoundsInv'
  <1> SUFFICES ASSUME Inv, BoundsInv, Finish PROVE BoundsInv'
    OBVIOUS
  <1> DEFINE left == HasActiveContentEncoding /\ ~sample.decoded
             w1 == IF left THEN <<"body_encoded_not_decoded">> ELSE <<>>
             w2 == IF sample.truncated THEN <<"body_truncated">> ELSE <<>>
             w3 == IF sample.failed THEN <<"body_read_error">> ELSE <<>>
             u1 == warnings \o w1
             u2 == u1 \o w2
  <1>1. /\ phase = "finish" /\ phase' = "done"
        /\ sample' = [sample EXCEPT !.window = BuildSample(data.size, cfg.sampleBytes, cfg.strategy),
                                    !.sampled = cfg.sampleBytes < data.size]
        /\ warnings' = warnings \o w1 \o w2 \o w3
        /\ UNCHANGED <<req, cfg, wire, data, todo, cut>>
    BY SampledIsData DEF Finish
  <1>2. /\ sample \in SampleType /\ sample.truncated \in BOOLEAN /\ sample.failed \in BOOLEAN
        /\ left \in BOOLEAN /\ sample.analyzed
        /\ warnings \in Seq(WarningCodes) /\ IsInjective(warnings)
    BY <1>1 DEF Inv, TypeInv, CapturedInv, SampleType, BoundsInv
  <1>3. /\ "body_encoded_not_decoded" \in WarningCodes /\ "body_truncated" \in WarningCodes
        /\ "body_read_error" \in WarningCodes
    BY DEF WarningCodes
  <1>4. ASSUME NEW c PROVE /\ w1 \in Seq(WarningCodes)
                           /\ w2 \in Seq(WarningCodes)
                           /\ Holds(w1, c) => c = "body_encoded_not_decoded"
                           /\ Holds(w2, c) => c = "body_truncated"
    BY <1>2, <1>3, HoldsOne, Zenon
  <1>5. sample'.truncated = sample.truncated /\ sample'.analyzed
    BY <1>1, <1>2 DEF SampleType
  <1>6. ASSUME NEW c, Holds(warnings, c)
        PROVE  c \in {"body_decompressed_truncated", "body_decompression_failed"}
    BY <1>1, <1>6, WarningsBefore
  <1> HIDE DEF left
  <1>7. u1 \in Seq(WarningCodes) /\ IsInjective(u1)
    <2>1. ~Holds(warnings, "body_encoded_not_decoded")
      BY <1>6
    <2> QED BY <1>2, <1>3, <2>1, AddDistinct, Zenon
  <1>8. ASSUME NEW c, Holds(u1, c)
        PROVE  c \in {"body_decompressed_truncated", "body_decompression_failed",
                      "body_encoded_not_decoded"}
    <2> HIDE DEF w1
    <2>1. Holds(warnings \o w1, c) <=> Holds(warnings, c) \/ Holds(w1, c)
      BY <1>2, <1>4, HoldsConcat
    <2> QED BY <1>4, <1>6, <1>8, <2>1
  <1> HIDE DEF u1
  <1>9. u2 \in Seq(WarningCodes) /\ IsInjective(u2)
    <2>1. ~Holds(u1, "body_truncated")
      BY <1>8
    <2> QED BY <1>2, <1>3, <1>7, <2>1, AddDistinct, Zenon
  <1>10. ~Holds(u2, "body_read_error")
    <2> HIDE DEF w2
    <2>1. Holds(u1 \o w2, "body_read_error") <=> Holds(u1, "body_read_error") \/ Holds(w2, "body_read_error")
      BY <1>4, <1>7, HoldsConcat
    <2> QED BY <1>4, <1>8, <2>1
  <1> HIDE DEF u2
  <1>11. u2 \o w3 \in Seq(WarningCodes) /\ IsInjective(u2 \o w3)
    BY <1>2, <1>3, <1>9, <1>10, AddDistinct, Zenon
  <1>12. warnings' = u2 \o w3
    BY <1>1 DEF u2, u1
  <1> HIDE DEF w1, w2, w3
  <1> QED BY <1>1, <1>5, <1>11, <1>12 DEF BoundsInv, MostData, Parsed

\* The bounds of the capture, for every step.
LEMMA NextBounds == Inv /\ BoundsInv /\ [Next]_vars => BoundsInv'
  <1> SUFFICES ASSUME Inv, BoundsInv, [Next]_vars PROVE BoundsInv'
    OBVIOUS
  <1>1. CASE UNCHANGED vars
    BY <1>1 DEF vars, BoundsInv, MostData, Parsed
  <1> QED BY <1>1, SkipBounds, ReadBounds, FailBounds, LayerBounds, FinishBounds DEF Next

\* captureBody: for all sizes, limits and headers, what was read is within
\* MaxReadBytes, what was decoded within MaxDecompressedBytes, every coding kept
\* is a token of the header, and no warning is given twice.
THEOREM CaptureWithinLimits == Spec => []TypeOK
  <1>1. Inv /\ BoundsInv => TypeOK
    <2> SUFFICES ASSUME Inv, BoundsInv PROVE TypeOK
      OBVIOUS
    <2>1. wire \in [codings: Seq(Tokens), size: 0 .. cfg.maxRead, whole: BOOLEAN]
      <3>1. wire \in Piece /\ wire.size <= cfg.maxRead /\ cfg.maxRead \in Nat
        BY DEF BoundsInv, Inv, TypeInv
      <3>2. wire = [codings |-> wire.codings, size |-> wire.size, whole |-> wire.whole]
        BY <3>1 DEF Piece
      <3>3. wire.codings \in Seq(Tokens) /\ wire.size \in 0 .. cfg.maxRead /\ wire.whole \in BOOLEAN
        BY <3>1 DEF Piece
      <3> QED BY <3>2, <3>3
    <2> QED BY <2>1 DEF Inv, TypeInv, SampleType, BoundsInv, Piece, MostData, TypeOK
  <1> QED BY <1>1, InitInv, NextInv, InitBounds, NextBounds, PTL DEF Spec

=============================================================================
