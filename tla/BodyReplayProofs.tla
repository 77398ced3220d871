-------------------------- MODULE BodyReplayProofs --------------------------
(***************************************************************************)
(* Proofs about BodyReplay for any number of nested middlewares, any       *)
(* limits, chunk sizes and body lengths.                                   *)
(*                                                                         *)
(* The argument: at every moment the unread parts of the live replays,     *)
(* innermost first, and the rest of the wire follow each other without a   *)
(* gap or an overlap, starting right after what the active level has got.  *)
(* Stack says so of one level and the next live one below it, so that no   *)
(* recursion over the levels is needed.                                    *)
(***************************************************************************)
EXTENDS BodyReplay, SequenceTheorems, TLAPS

\* A piece of a stream is a sequence of offsets with one entry per byte.
LEMMA BytesType ==
    ASSUME NEW a \in Nat, NEW b \in Nat, a <= b
    PROVE  /\ Bytes(a, b) \in Seq(Nat)
           /\ Len(Bytes(a, b)) = b - a
           /\ \A i \in 1 .. b - a : Bytes(a, b)[i] = a + i
  BY DEF Bytes

\* The first bytes of a stream are bytes of the stream.
LEMMA BytesOfStream ==
    ASSUME NEW k \in Nat, NEW len \in Nat, k <= len
    PROVE  Bytes(0, k) \in Seq(1 .. len) /\ Len(Bytes(0, k)) = k
  BY DEF Bytes

\* Two adjacent pieces of a stream make one piece.
LEMMA BytesConcat ==
    ASSUME NEW a \in Nat, NEW b \in Nat, NEW c \in Nat, a <= b, b <= c
    PROVE  Bytes(a, b) \o Bytes(b, c) = Bytes(a, c)
  <1> DEFINE s == Bytes(a, b)
             t == Bytes(b, c)
             u == Bytes(a, c)
  <1>1. s \in Seq(Nat) /\ Len(s) = b - a /\ \A i \in 1 .. b - a : s[i] = a + i
    BY BytesType, Zenon
  <1>2. t \in Seq(Nat) /\ Len(t) = c - b /\ \A i \in 1 .. c - b : t[i] = b + i
    BY BytesType, Zenon
  <1>3. a <= c
    OBVIOUS
  <1>4. u \in Seq(Nat) /\ Len(u) = c - a /\ \A i \in 1 .. c - a : u[i] = a + i
    BY <1>3, BytesType, Zenon
  <1> HIDE DEF s, t, u
  <1>5. /\ s \o t \in Seq(Nat)
        /\ Len(s \o t) = Len(s) + Len(t)
        /\ \A i \in 1 .. Len(s) + Len(t) :
             (s \o t)[i] = IF i <= Len(s) THEN s[i] ELSE t[i - Len(s)]
    BY <1>1, <1>2, ConcatProperties, Zenon
  <1> DEFINE joined == s \o t
  <1> HIDE DEF joined
  <1>6. Len(joined) = c - a
    BY <1>1, <1>2, <1>5 DEF joined
  <1>7. ASSUME NEW i \in 1 .. c - a PROVE joined[i] = a + i
    <2>1. joined[i] = IF i <= b - a THEN s[i] ELSE t[i - (b - a)]
      BY <1>1, <1>2, <1>5 DEF joined
    <2>2. CASE i <= b - a
      BY <1>1, <2>1, <2>2
    <2>3. CASE i > b - a
      <3>1. i - (b - a) \in 1 .. c - b
        BY <2>3
      <3> QED BY <1>2, <2>1, <2>3, <3>1
    <2> QED BY <2>2, <2>3
  <1>8. joined = u
    BY <1>4, <1>5, <1>6, <1>7, SeqEqual DEF joined
  <1> QED BY <1>8 DEF joined, s, t, u

\* A piece of a piece that starts the stream is a piece of the stream.
LEMMA BytesSubSeq ==
    ASSUME NEW m \in Nat, NEW i \in Nat, NEW n \in Nat, i + n <= m
    PROVE  SubSeq(Bytes(0, m), i + 1, i + n) = Bytes(i, i + n)
  <1> DEFINE s == Bytes(0, m)
             t == SubSeq(s, i + 1, i + n)
             u == Bytes(i, i + n)
  <1>1. s \in Seq(Nat) /\ Len(s) = m /\ \A k \in 1 .. m : s[k] = k
    BY DEF Bytes
  <1>2. u \in Seq(Nat) /\ Len(u) = n /\ \A k \in 1 .. n : u[k] = i + k
    BY DEF Bytes
  <1> HIDE DEF s, u
  <1>3. i + 1 \in 1 .. Len(s) + 1 /\ i + n \in i .. Len(s)
    BY <1>1
  <1>4. /\ t \in Seq(Nat)
        /\ Len(t) = IF i + 1 <= i + n THEN i + n - (i + 1) + 1 ELSE 0
        /\ \A k \in 1 .. i + n - (i + 1) + 1 : t[k] = s[i + 1 + k - 1]
    BY <1>1, <1>3, SubSeqProperties
  <1> HIDE DEF t
  <1>5. Len(t) = n /\ \A k \in 1 .. n : t[k] = s[i + k]
    BY <1>4
  <1>6. \A k \in 1 .. n : t[k] = u[k]
    BY <1>1, <1>2, <1>5
  <1>7. t = u
    BY <1>2, <1>4, <1>5, <1>6, SeqEqual
  <1> QED BY <1>7 DEF s, t, u

-----------------------------------------------------------------------------
\* The live levels of a stack of replays with prefixes pf read up to ix, below
\* level a.
LiveIn(a, pf, ix) == {j \in Level : j < a /\ ix[j] < Len(pf[j])}

\* The stack below level a, which has got m bytes, p having left the wire.
Prefixes(a, pf, ix) ==
    \A j \in Level : /\ pf[j] = Bytes(0, Len(pf[j]))
                     /\ ix[j] <= Len(pf[j])
                     /\ j >= a => pf[j] = <<>> /\ ix[j] = 0

TopJoins(m, a, pf, ix) ==
    \A j \in LiveIn(a, pf, ix) :
      (\A i \in LiveIn(a, pf, ix) : i <= j) => ix[j] = m

LevelsJoin(a, pf, ix) ==
    \A i, j \in LiveIn(a, pf, ix) :
      /\ i < j
      /\ \A k \in LiveIn(a, pf, ix) : k <= i \/ j <= k
      => ix[i] = Len(pf[j])

WireJoins(m, p, a, pf, ix) ==
    /\ \A j \in LiveIn(a, pf, ix) :
         (\A i \in LiveIn(a, pf, ix) : j <= i) => p = Len(pf[j])
    /\ LiveIn(a, pf, ix) = {} => p = m

Stack(m, p, a, pf, ix) ==
    /\ Prefixes(a, pf, ix)
    /\ TopJoins(m, a, pf, ix)
    /\ LevelsJoin(a, pf, ix)
    /\ WireJoins(m, p, a, pf, ix)

\* The wire, the handler and the level that runs: io.EOF comes at the end of
\* the wire, and a loop that is not entered has read nothing.
EndInv ==
    /\ wire = "ended" => pos = length
    /\ handler # "reading" => active = N + 1
    /\ active <= N => wire # "closed"
    /\ active <= N /\ ~Enters(active) => buffer = <<>>
    /\ "EOF" \notin AfterFail /\ handler = "ended" => Len(buffer) = length

StackInv == Stack(Len(buffer), pos, active, prefix, idx)

-----------------------------------------------------------------------------
\* The replay the active level reads from is unique.
LEMMA TopIsUnique ==
    ASSUME TypeOK, NEW j \in Level, IsTop(j)
    PROVE  (CHOOSE i \in Level : IsTop(i)) = j
  <1> DEFINE c == CHOOSE i \in Level : IsTop(i)
  <1>1. c \in Level /\ IsTop(c)
    OBVIOUS
  <1>2. c <= j /\ j <= c
    BY <1>1 DEF IsTop
  <1>3. c \in Int /\ j \in Int
    BY <1>1, ParametersAssumption DEF Level
  <1> HIDE DEF c
  <1> QED BY <1>2, <1>3 DEF c

\* Reading n bytes from the top of a stack leaves a stack.
LEMMA TopRead ==
    ASSUME NEW m \in Nat, NEW p \in Nat, NEW a \in Int,
           NEW pf \in [Level -> Seq(Nat)], NEW ix \in [Level -> Nat],
           Stack(m, p, a, pf, ix),
           NEW t \in LiveIn(a, pf, ix), \A i \in LiveIn(a, pf, ix) : i <= t,
           NEW n \in Nat, ix[t] + n <= Len(pf[t])
    PROVE  Stack(m + n, p, a, pf, [ix EXCEPT ![t] = ix[t] + n])
  <1> DEFINE iy == [ix EXCEPT ![t] = ix[t] + n]
             L  == LiveIn(a, pf, ix)
             M  == LiveIn(a, pf, iy)
  <1>1. /\ t \in Level /\ t < a /\ Level \subseteq Int
        /\ \A j \in Level : Len(pf[j]) \in Nat /\ ix[j] \in Nat
        /\ iy[t] = ix[t] + n
        /\ \A j \in Level : j # t => iy[j] = ix[j]
        /\ iy \in [Level -> Nat]
    <2>1. t \in Level /\ t < a
      BY DEF LiveIn
    <2>2. Level \subseteq Int
      BY ParametersAssumption DEF Level
    <2>3. \A j \in Level : Len(pf[j]) \in Nat /\ ix[j] \in Nat
      OBVIOUS
    <2>4. iy[t] = ix[t] + n /\ \A j \in Level : j # t => iy[j] = ix[j]
      BY <2>1
    <2>5. iy \in [Level -> Nat]
      BY <2>1
    <2> QED BY <2>1, <2>2, <2>3, <2>4, <2>5, Zenon
  <1>2. ix[t] = m
    BY DEF Stack, TopJoins
  <1>3. \A j \in Level : j # t => (j \in M <=> j \in L)
    BY <1>1 DEF LiveIn
  <1>4. t \in M \/ M = L \ {t}
    BY <1>3 DEF LiveIn
  <1>5. M \subseteq L /\ L \subseteq Level
    BY <1>1, <1>3 DEF LiveIn
  <1> HIDE DEF iy, L, M
  <1>6. Prefixes(a, pf, iy)
    BY <1>1 DEF Stack, Prefixes
  <1>7. TopJoins(m + n, a, pf, iy)
    <2> SUFFICES ASSUME NEW j \in M, \A i \in M : i <= j PROVE iy[j] = m + n
      BY DEF TopJoins, M
    <2>1. CASE j = t
      BY <1>1, <1>2, <2>1
    <2>2. CASE j # t
      <3>1. j \in L /\ j < t /\ t \notin M
        BY <1>1, <1>5, <2>2 DEF L
      <3>2. ix[t] + n = Len(pf[t])
        BY <1>1, <3>1 DEF M, LiveIn
      <3>3. \A k \in L : k <= j \/ t <= k
        BY <1>1, <1>3, <1>5
      <3>4. ix[j] = Len(pf[t])
        BY <3>1, <3>3 DEF Stack, LevelsJoin, L
      <3> QED BY <1>1, <1>2, <1>5, <2>2, <3>2, <3>4
    <2> QED BY <2>1, <2>2
  <1>8. LevelsJoin(a, pf, iy)
    <2> SUFFICES ASSUME NEW i \in M, NEW j \in M, i < j,
                        \A k \in M : k <= i \/ j <= k
                 PROVE  iy[i] = Len(pf[j])
      BY DEF LevelsJoin, M
    <2>1. i \in L /\ j \in L /\ j <= t /\ i # t
      BY <1>1, <1>5 DEF L
    <2>2. \A k \in L : k <= i \/ j <= k
      BY <1>1, <1>3, <1>5, <2>1
    <2>3. ix[i] = Len(pf[j])
      BY <2>1, <2>2 DEF Stack, LevelsJoin, L
    <2> QED BY <1>1, <1>5, <2>1, <2>3
  <1>9. WireJoins(m + n, p, a, pf, iy)
    <2>1. ASSUME NEW j \in M, \A i \in M : j <= i PROVE p = Len(pf[j])
      <3>1. \A i \in L : j <= i
        BY <1>1, <1>3, <1>5, <2>1 DEF L
      <3> QED BY <1>5, <3>1 DEF Stack, WireJoins, L
    <2>2. ASSUME M = {} PROVE p = m + n
      <3>1. L = {t} /\ ix[t] + n = Len(pf[t])
        BY <1>1, <1>4, <2>2 DEF L, M, LiveIn
      <3>2. p = Len(pf[t])
        BY <1>1, <3>1 DEF Stack, WireJoins, L
      <3> QED BY <1>1, <1>2, <3>1, <3>2
    <2> QED BY <2>1, <2>2 DEF WireJoins, M
  <1> QED BY <1>6, <1>7, <1>8, <1>9 DEF Stack, iy

\* With no live replay a read takes its bytes off the wire.
LEMMA BottomRead ==
    ASSUME NEW m \in Nat, NEW p \in Nat, NEW a, NEW pf, NEW ix,
           Stack(m, p, a, pf, ix), LiveIn(a, pf, ix) = {}, NEW n \in Nat
    PROVE  p = m /\ Stack(m + n, p + n, a, pf, ix)
  BY DEF Stack, TopJoins, LevelsJoin, WireJoins

\* A level that put its m bytes back in front of the body leaves a stack of
\* which nothing has been read.
LEMMA PutBack ==
    ASSUME NEW m \in Nat, NEW p \in Nat, NEW a \in Level,
           NEW pf \in [Level -> Seq(Nat)], NEW ix \in [Level -> Nat],
           Stack(m, p, a, pf, ix)
    PROVE  Stack(0, p, a + 1, [pf EXCEPT ![a] = Bytes(0, m)], ix)
  <1> DEFINE pg == [pf EXCEPT ![a] = Bytes(0, m)]
             L  == LiveIn(a, pf, ix)
             M  == LiveIn(a + 1, pg, ix)
  <1>1. /\ Level \subseteq Int /\ a \in Int
        /\ pg[a] = Bytes(0, m) /\ \A j \in Level : j # a => pg[j] = pf[j]
        /\ pf[a] = <<>> /\ ix[a] = 0
    BY ParametersAssumption DEF Level, Stack, Prefixes
  <1>2. Bytes(0, m) \in Seq(Nat) /\ Len(Bytes(0, m)) = m
    BY BytesType
  <1>3. L \subseteq Level /\ \A j \in L : j < a /\ j # a
    BY <1>1 DEF LiveIn
  <1>4. \A j \in Level : j # a => (j \in M <=> j \in L)
    BY <1>1 DEF LiveIn
  <1>5. a \in M <=> m > 0
    BY <1>1, <1>2 DEF LiveIn
  <1>6. M \subseteq Level
    BY DEF LiveIn
  <1> HIDE DEF pg, L, M
  <1>7. Prefixes(a + 1, pg, ix)
    <2> SUFFICES ASSUME NEW j \in Level
                 PROVE  /\ pg[j] = Bytes(0, Len(pg[j]))
                        /\ ix[j] <= Len(pg[j])
                        /\ j >= a + 1 => pg[j] = <<>> /\ ix[j] = 0
      BY DEF Prefixes
    <2>1. CASE j = a
      BY <1>1, <1>2, <2>1
    <2>2. CASE j # a
      BY <1>1, <2>2 DEF Stack, Prefixes
    <2> QED BY <2>1, <2>2
  <1>8. TopJoins(0, a + 1, pg, ix)
    <2> SUFFICES ASSUME NEW j \in M, \A i \in M : i <= j PROVE ix[j] = 0
      BY DEF TopJoins, M
    <2>1. CASE j = a
      BY <1>1, <2>1
    <2>2. CASE j # a
      <3>1. j \in L /\ ~(m > 0)
        BY <1>1, <1>3, <1>4, <1>5, <1>6, <2>2
      <3>2. \A i \in L : i <= j
        BY <1>3, <1>4
      <3>3. ix[j] = m
        BY <3>1, <3>2 DEF Stack, TopJoins, L
      <3> QED BY <3>1, <3>3
    <2> QED BY <2>1, <2>2
  <1>9. LevelsJoin(a + 1, pg, ix)
    <2> SUFFICES ASSUME NEW i \in M, NEW j \in M, i < j,
                        \A k \in M : k <= i \/ j <= k
                 PROVE  ix[i] = Len(pg[j])
      BY DEF LevelsJoin, M
    <2>1. i # a /\ i \in L
      <3>1. j <= a
        BY <1>1, <1>3, <1>4, <1>6
      <3> QED BY <1>1, <1>4, <1>6, <3>1
    <2>2. CASE j = a
      <3>1. \A k \in L : k <= i
        BY <1>1, <1>3, <1>4, <2>2
      <3>2. ix[i] = m
        BY <2>1, <3>1 DEF Stack, TopJoins, L
      <3> QED BY <1>1, <1>2, <2>2, <3>2
    <2>3. CASE j # a
      <3>1. j \in L /\ \A k \in L : k <= i \/ j <= k
        BY <1>3, <1>4, <1>6, <2>3
      <3>2. ix[i] = Len(pf[j])
        BY <2>1, <3>1 DEF Stack, LevelsJoin, L
      <3> QED BY <1>1, <1>3, <2>3, <3>1, <3>2
    <2> QED BY <2>2, <2>3
  <1>10. WireJoins(0, p, a + 1, pg, ix)
    <2>1. ASSUME NEW j \in M, \A i \in M : j <= i PROVE p = Len(pg[j])
      <3>1. CASE j = a
        <4>1. L = {}
          BY <1>1, <1>3, <1>4, <2>1, <3>1
        <4> QED BY <1>1, <1>2, <3>1, <4>1 DEF Stack, WireJoins, L
      <3>2. CASE j # a
        <4>1. j \in L /\ \A i \in L : j <= i
          BY <1>3, <1>4, <1>6, <2>1, <3>2
        <4>2. p = Len(pf[j])
          BY <4>1 DEF Stack, WireJoins, L
        <4> QED BY <1>1, <1>3, <3>2, <4>1, <4>2
      <3> QED BY <3>1, <3>2
    <2>2. ASSUME M = {} PROVE p = 0
      <3>1. L = {} /\ m = 0
        BY <1>3, <1>4, <1>5, <2>2
      <3> QED BY <3>1 DEF Stack, WireJoins, L
    <2> QED BY <2>1, <2>2 DEF WireJoins, M
  <1> QED BY <1>7, <1>8, <1>9, <1>10 DEF Stack, pg

-----------------------------------------------------------------------------
Inv == TypeOK /\ InOrder /\ StackInv /\ EndInv

\* A request starts in a state of the invariant.
LEMMA InitInv == Init => Inv
  <1> SUFFICES ASSUME Init PROVE Inv
    OBVIOUS
  <1> USE ParametersAssumption, MaxIntAssumption
  <1>1. TypeOK
    <2>1. remaining \in Int
      BY DEF Init, Level, Budget
    <2> QED BY <2>1 DEF Init, TypeOK, Level
  <1>2. InOrder
    BY DEF Init, InOrder, Bytes
  <1>3. EndInv
    BY DEF Init, EndInv
  <1>4. StackInv
    <2>1. Prefixes(active, prefix, idx)
      BY DEF Init, Prefixes, Bytes
    <2>2. LiveIn(active, prefix, idx) = {}
      BY DEF Init, LiveIn
    <2>3. Len(buffer) = 0 /\ pos = 0
      BY DEF Init
    <2> QED BY <2>1, <2>2, <2>3
            DEF StackInv, Stack, TopJoins, LevelsJoin, WireJoins
  <1> QED BY <1>1, <1>2, <1>3, <1>4 DEF Inv

\* Every read gives the active level the bytes that follow those it has got.
LEMMA ReadBodyStack ==
    ASSUME Inv, NEW size \in Nat, NEW n \in 0 .. size, NEW e \in ReadErr,
           ReadBody(size, n, e)
    PROVE  /\ Len(buffer) + n <= length
           /\ Len(buffer) + n \in Nat
           /\ buffer \o Got(n) = Bytes(0, Len(buffer) + n)
           /\ Stack(Len(buffer) + n, pos', active, prefix, idx')
           /\ pos' \in 0 .. length
           /\ idx' \in [Level -> Nat]
           /\ wire' \in {"open", "failed", "ended", "closed"}
           /\ wire' = "ended" => pos' = length
           /\ wire' = "closed" => wire = "closed"
           /\ e = "EOF" => \/ wire' = "ended" /\ LiveIn(active, prefix, idx') = {}
                           \/ wire = "failed" /\ afterFail = "EOF"
  <1> DEFINE m == Len(buffer)
  <1>1. /\ length \in Nat /\ pos \in Nat /\ pos <= length /\ m \in Nat
        /\ active \in Int /\ idx \in [Level -> Nat]
        /\ prefix \in [Level -> Seq(Nat)] /\ prefix \in [Level -> Seq(1 .. length)]
        /\ wire \in {"open", "failed", "ended", "closed"}
    BY ParametersAssumption DEF Inv, TypeOK
  <1>2. Stack(m, pos, active, prefix, idx) /\ buffer = Bytes(0, m) /\ n \in Nat
    BY DEF Inv, StackInv, InOrder
  <1>3. Live = LiveIn(active, prefix, idx)
    BY DEF Live, LiveIn
  <1>4. ASSUME NEW j \in Level,
               IsTop(j),
               n = AtMost(size, Len(prefix[j]) - idx[j]),
               e = "nil",
               idx' = [idx EXCEPT ![j] = @ + n],
               UNCHANGED <<pos, wire>>
        PROVE  /\ m + n <= length
               /\ buffer \o Got(n) = Bytes(0, m + n)
               /\ Stack(m + n, pos', active, prefix, idx')
               /\ idx' \in [Level -> Nat]
    <2>1. j \in LiveIn(active, prefix, idx) /\ \A i \in LiveIn(active, prefix, idx) : i <= j
      BY <1>3, <1>4 DEF IsTop
    <2>2. idx[j] = m /\ prefix[j] = Bytes(0, Len(prefix[j]))
      BY <1>2, <2>1 DEF Stack, TopJoins, Prefixes
    <2>3. Len(prefix[j]) \in Nat /\ m < Len(prefix[j]) /\ m + n <= Len(prefix[j])
      BY <1>1, <1>2, <1>4, <2>1, <2>2 DEF LiveIn, AtMost
    <2>4. Len(prefix[j]) <= length
      <3>1. prefix[j][Len(prefix[j])] \in 1 .. length
        BY <1>1, <2>3, ElementOfSeq
      <3>2. \A k \in Nat : k > 0 => Bytes(0, k)[k] = k
        BY DEF Bytes
      <3> QED BY <1>1, <2>2, <2>3, <3>1, <3>2
    <2>5. Got(n) = Bytes(m, m + n)
      <3>1. Got(n) = SubSeq(prefix[j], m + 1, m + n)
        BY <1>3, <1>4, <2>1, <2>2, TopIsUnique DEF Got, Inv
      <3> DEFINE q == Len(prefix[j])
      <3>2. q \in Nat /\ m + n <= q /\ prefix[j] = Bytes(0, q)
        BY <2>2, <2>3
      <3> HIDE DEF q, m
      <3>3. SubSeq(Bytes(0, q), m + 1, m + n) = Bytes(m, m + n)
        BY <1>1, <1>2, <3>2, BytesSubSeq
      <3> QED BY <3>1, <3>2, <3>3
    <2>6. Bytes(0, m) \o Bytes(m, m + n) = Bytes(0, m + n)
      <3>1. 0 \in Nat /\ m + n \in Nat /\ 0 <= m /\ m <= m + n
        BY <1>1, <1>2
      <3> QED BY <1>1, <3>1, BytesConcat, Zenon
    <2>7. Stack(m + n, pos, active, prefix, [idx EXCEPT ![j] = idx[j] + n])
      <3>1. idx[j] + n <= Len(prefix[j])
        BY <2>2, <2>3
      <3> QED BY <1>1, <1>2, <2>1, <3>1, TopRead
    <2>8. m + n <= length
      BY <1>1, <1>2, <2>3, <2>4
    <2>9. idx' \in [Level -> Nat]
      BY <1>1, <1>2, <1>4
    <2> QED BY <1>2, <1>4, <2>5, <2>6, <2>7, <2>8, <2>9
  <1>5. ASSUME Live = {}, WireRead(size, n, e), UNCHANGED idx
        PROVE  /\ m + n <= length
               /\ buffer \o Got(n) = Bytes(0, m + n)
               /\ Stack(m + n, pos', active, prefix, idx')
    <2>1. pos' = pos + n /\ pos + n <= length
      BY <1>1, <1>2, <1>5 DEF WireRead
    <2>2. pos = m /\ Stack(m + n, pos + n, active, prefix, idx)
      BY <1>1, <1>2, <1>3, <1>5, BottomRead
    <2>3. Got(n) = Bytes(m, m + n)
      BY <1>5, <2>2 DEF Got
    <2>4. Bytes(0, m) \o Bytes(m, m + n) = Bytes(0, m + n)
      <3>1. 0 \in Nat /\ m + n \in Nat /\ 0 <= m /\ m <= m + n
        BY <1>1, <1>2
      <3> QED BY <1>1, <3>1, BytesConcat, Zenon
    <2> QED BY <1>2, <1>5, <2>1, <2>2, <2>3, <2>4
  <1>6. /\ pos' \in 0 .. length
        /\ wire' \in {"open", "failed", "ended", "closed"}
        /\ wire' = "ended" => pos' = length
        /\ wire' = "closed" => wire = "closed"
    <2>1. CASE UNCHANGED <<pos, wire>>
      BY <1>1, <2>1 DEF Inv, EndInv
    <2>2. CASE WireRead(size, n, e)
      BY <1>1, <1>2, <2>2 DEF WireRead, Inv, EndInv, ReadErr
    <2> QED BY <2>1, <2>2 DEF ReadBody
  <1>7. ASSUME e = "EOF"
        PROVE  \/ wire' = "ended" /\ LiveIn(active, prefix, idx') = {}
               \/ wire = "failed" /\ afterFail = "EOF"
    <2>1. Live = {} /\ WireRead(size, n, e) /\ idx' = idx
      BY <1>7 DEF ReadBody
    <2> QED BY <1>3, <1>7, <2>1 DEF WireRead
  <1>8. /\ m + n <= length
        /\ buffer \o Got(n) = Bytes(0, m + n)
        /\ Stack(m + n, pos', active, prefix, idx')
        /\ idx' \in [Level -> Nat]
    BY <1>1, <1>4, <1>5 DEF ReadBody
  <1> QED BY <1>1, <1>2, <1>6, <1>7, <1>8

-----------------------------------------------------------------------------
\* The chunk size of the active level is a positive number.
LEMMA ActiveChunk ==
    ASSUME Inv, active \in Level
    PROVE  chunk[active] \in Nat \ {0}
  <1>1. chunk \in [Level -> Chunks] /\ Chunks \subseteq Nat \ {0}
    BY ParametersAssumption DEF Inv, TypeOK
  <1> QED BY <1>1, Zenon

\* One iteration of a middleware's loop preserves the invariant.
LEMMA CaptureReadInv == Inv /\ CaptureRead => Inv'
  <1> SUFFICES ASSUME Inv, CaptureRead PROVE Inv'
    OBVIOUS
  <1> USE ParametersAssumption, MaxIntAssumption
  <1> DEFINE size == ReadSize(chunk[active], remaining)
             m    == Len(buffer)
  <1>1. PICK n \in 0 .. size, e \in ReadErr :
          /\ ReadBody(size, n, e)
          /\ \/ /\ AfterRead(remaining - n, n, e) = "reading"
                /\ buffer' = buffer \o Got(n)
                /\ remaining' = remaining - n
                /\ UNCHANGED <<active, prefix, result, handler>>
             \/ Install(buffer \o Got(n), AfterRead(remaining - n, n, e))
    BY Zenon DEF CaptureRead
  <1>2. /\ UNCHANGED params /\ active <= N /\ active \in Level /\ active \in Int
        /\ length \in Nat /\ remaining \in Int
    BY DEF CaptureRead, Inv, TypeOK, Level
  <1>3. size \in Nat /\ n \in Nat /\ m \in Nat
    BY <1>1, <1>2, ActiveChunk DEF ReadSize, AtMost, Inv, TypeOK
  <1> HIDE DEF size
  <1>4. /\ m + n <= length
        /\ m + n \in Nat
        /\ buffer \o Got(n) = Bytes(0, m + n)
        /\ Stack(m + n, pos', active, prefix, idx')
        /\ pos' \in 0 .. length
        /\ idx' \in [Level -> Nat]
        /\ wire' \in {"open", "failed", "ended", "closed"}
        /\ wire' = "ended" => pos' = length
        /\ wire' = "closed" => wire = "closed"
    BY <1>1, <1>3, ReadBodyStack
  <1> DEFINE b == Bytes(0, m + n)
  <1>5. b \in Seq(1 .. length) /\ b \in Seq(Nat) /\ Len(b) = m + n
    BY <1>2, <1>4, BytesOfStream, BytesType
  <1> HIDE DEF b
  <1>6. handler = "reading" /\ wire # "closed" /\ N + 1 \in Int /\ handler' = handler
    BY <1>1, <1>2 DEF Inv, EndInv, Level, Install
  <1>7. EndInv'
    <2>1. Enters(active) /\ ((active' = active /\ limit' = limit) \/ buffer' = <<>>)
      BY <1>1, <1>2 DEF CaptureRead, Install, params
    <2> QED BY <1>2, <1>4, <1>6, <2>1 DEF EndInv, params, Enters
  <1>8. CASE /\ AfterRead(remaining - n, n, e) = "reading"
             /\ buffer' = buffer \o Got(n)
             /\ remaining' = remaining - n
             /\ UNCHANGED <<active, prefix, result, handler>>
    <2>1. buffer' = b
      BY <1>4, <1>8 DEF b
    <2>2. TypeOK'
      BY <1>2, <1>3, <1>4, <1>5, <1>8, <2>1 DEF Inv, TypeOK, params
    <2>3. InOrder' /\ Len(buffer') = m + n
      BY <1>5, <2>1 DEF InOrder, b
    <2>4. StackInv'
      BY <1>4, <1>8, <2>3 DEF StackInv
    <2> QED BY <1>7, <2>2, <2>3, <2>4 DEF Inv
  <1>9. CASE Install(buffer \o Got(n), AfterRead(remaining - n, n, e))
    <2>1. /\ prefix' = [prefix EXCEPT ![active] = b]
          /\ active' = active + 1 /\ buffer' = <<>>
          /\ result' = [result EXCEPT ![active] = AfterRead(remaining - n, n, e)]
          /\ handler' = handler
      BY <1>4, <1>9 DEF Install, Replayed, b
    <2>2. TypeOK'
      <3>1. remaining' \in Int
        BY <1>2, <1>9 DEF Install, Budget, Inv, TypeOK, Level
      <3>2. AfterRead(remaining - n, n, e) \in Result
        BY DEF AfterRead, Result
      <3>3. active' \in 1 .. N + 1
        BY <1>2, <2>1 DEF Level
      <3>4. prefix' \in [Level -> Seq(1 .. length)]
        BY <1>2, <1>5, <2>1 DEF Inv, TypeOK
      <3>5. result' \in [Level -> Result \cup {"none", "skipped"}]
        BY <1>2, <2>1, <3>2 DEF Inv, TypeOK
      <3>6. buffer' \in Seq(1 .. length)
        BY <2>1
      <3> QED BY <1>2, <1>4, <2>1, <3>1, <3>3, <3>4, <3>5, <3>6
              DEF Inv, TypeOK, params
    <2>3. InOrder' /\ Len(buffer') = 0
      BY <2>1 DEF InOrder, Bytes
    <2>4. Stack(0, pos', active + 1, [prefix EXCEPT ![active] = b], idx')
      <3>1. prefix \in [Level -> Seq(Nat)] /\ pos' \in Nat
        BY <1>2, <1>4 DEF Inv, TypeOK
      <3> QED BY <1>2, <1>4, <3>1, PutBack DEF b
    <2>5. StackInv'
      BY <2>1, <2>3, <2>4 DEF StackInv
    <2> QED BY <1>7, <2>2, <2>3, <2>5 DEF Inv
  <1> QED BY <1>1, <1>8, <1>9

\* A middleware that does not read preserves the invariant.
LEMMA NoReadInv == Inv /\ (CaptureNothing \/ Skip) => Inv'
  <1> SUFFICES ASSUME Inv, CaptureNothing \/ Skip PROVE Inv'
    OBVIOUS
  <1> USE ParametersAssumption, MaxIntAssumption
  <1>1. /\ UNCHANGED <<params, pos, wire, idx, handler>>
        /\ active \in Level /\ active \in Int /\ active' = active + 1
        /\ buffer = <<>> /\ buffer' = <<>>
        /\ prefix \in [Level -> Seq(Nat)] /\ idx \in [Level -> Nat] /\ pos \in Nat
        /\ Stack(0, pos, active, prefix, idx)
    <2>1. /\ UNCHANGED <<params, pos, wire, idx, handler>> /\ active <= N
          /\ active' = active + 1 /\ buffer' = <<>>
      BY DEF CaptureNothing, Skip, Install
    <2>2. buffer = <<>>
      BY DEF CaptureNothing, Skip, Inv, EndInv
    <2>3. /\ active \in Level /\ active \in Int
          /\ prefix \in [Level -> Seq(Nat)] /\ idx \in [Level -> Nat] /\ pos \in Nat
      BY <2>1 DEF Inv, TypeOK, Level
    <2>4. Stack(0, pos, active, prefix, idx)
      BY <2>2 DEF Inv, StackInv
    <2> QED BY <2>1, <2>2, <2>3, <2>4
  <1>2. prefix[active] = <<>> /\ Bytes(0, 0) = <<>>
    BY <1>1 DEF Stack, Prefixes, Bytes
  <1>3. prefix' = prefix /\ prefix = [prefix EXCEPT ![active] = Bytes(0, 0)]
    BY <1>1, <1>2 DEF CaptureNothing, Skip, Install, Replayed
  <1>4. Stack(0, pos, active + 1, prefix, idx)
    <2>1. Stack(0, pos, active + 1, [prefix EXCEPT ![active] = Bytes(0, 0)], idx)
      BY <1>1, PutBack
    <2> QED BY <1>3, <2>1
  <1>5. TypeOK'
    <2>1. remaining' \in Int
      <3>1. \A k \in Level : Budget(limit[k]) \in Int
        <4>1. \A k \in Level : limit[k] \in Int
          BY DEF Inv, TypeOK
        <4>2. \A l \in Int : Budget(l) \in Int
          BY DEF Budget
        <4> QED BY <4>1, <4>2
      <3>2. remaining' = IF active < N THEN Budget(limit[active + 1]) ELSE 0
        BY DEF CaptureNothing, Skip, Install
      <3> QED BY <1>1, <3>1, <3>2 DEF Level
    <2>3. active' \in 1 .. N + 1
      BY <1>1 DEF Level
    <2>2. result' \in [Level -> Result \cup {"none", "skipped"}]
      BY <1>1 DEF CaptureNothing, Skip, Install, Inv, TypeOK, Result
    <2> QED BY <1>1, <1>3, <2>1, <2>2, <2>3 DEF Inv, TypeOK, params
  <1>6. InOrder' /\ StackInv'
    BY <1>1, <1>3, <1>4 DEF InOrder, StackInv, Bytes
  <1>7. EndInv'
    BY <1>1 DEF Inv, EndInv, params, Level
  <1> QED BY <1>5, <1>6, <1>7 DEF Inv

\* A read of the handler preserves the invariant.
LEMMA HandlerReadInv == Inv /\ HandlerRead => Inv'
  <1> SUFFICES ASSUME Inv, HandlerRead PROVE Inv'
    OBVIOUS
  <1> USE ParametersAssumption
  <1> DEFINE m == Len(buffer)
  <1>0. PICK size \in HandlerSizes : \E n \in 0 .. size, e \in ReadErr :
          /\ ReadBody(size, n, e)
          /\ buffer' = buffer \o Got(n)
          /\ handler' = Standing(e)
    BY DEF HandlerRead
  <1>1. PICK n \in 0 .. size, e \in ReadErr :
          /\ ReadBody(size, n, e)
          /\ buffer' = buffer \o Got(n)
          /\ handler' = Standing(e)
    BY <1>0
  <1>2. /\ UNCHANGED <<params, active, remaining, prefix, result>>
        /\ active = N + 1 /\ handler # "ended"
        /\ length \in Nat /\ size \in Nat /\ n \in Nat /\ m \in Nat
    BY DEF HandlerRead, Inv, TypeOK
  <1>3. /\ m + n <= length
        /\ m + n \in Nat
        /\ buffer \o Got(n) = Bytes(0, m + n)
        /\ Stack(m + n, pos', active, prefix, idx')
        /\ pos' \in 0 .. length
        /\ idx' \in [Level -> Nat]
        /\ wire' \in {"open", "failed", "ended", "closed"}
        /\ wire' = "ended" => pos' = length
        /\ e = "EOF" => \/ wire' = "ended" /\ LiveIn(active, prefix, idx') = {}
                        \/ wire = "failed" /\ afterFail = "EOF"
    BY <1>1, <1>2, ReadBodyStack
  <1> DEFINE b == Bytes(0, m + n)
  <1>4. b \in Seq(1 .. length) /\ Len(b) = m + n
    BY <1>2, <1>3, BytesOfStream
  <1> HIDE DEF b
  <1>5. buffer' = b
    BY <1>1, <1>3 DEF b
  <1>6. TypeOK'
    <2>1. handler' \in {"reading", "failed", "ended", "closed"}
      BY <1>1 DEF Inv, TypeOK, Standing
    <2> QED BY <1>2, <1>3, <1>4, <1>5, <2>1 DEF Inv, TypeOK, params
  <1>7. InOrder' /\ Len(buffer') = m + n
    BY <1>4, <1>5 DEF InOrder, b
  <1>8. StackInv'
    BY <1>2, <1>3, <1>7 DEF StackInv
  <1>9. EndInv'
    <2>1. ASSUME "EOF" \notin AfterFail, handler' = "ended"
          PROVE  m + n = length
      <3>1. e = "EOF" /\ afterFail # "EOF"
        BY <1>1, <1>2, <2>1 DEF Inv, TypeOK, Standing
      <3>2. pos' = length /\ LiveIn(active, prefix, idx') = {}
        BY <1>3, <3>1
      <3>3. pos' = m + n
        BY <1>3, <3>2 DEF Stack, WireJoins
      <3> QED BY <3>2, <3>3
    <2>2. active' = N + 1 /\ ~(N + 1 <= N)
      BY <1>2
    <2> QED BY <1>2, <1>3, <1>7, <2>1, <2>2 DEF EndInv, params
  <1> QED BY <1>6, <1>7, <1>8, <1>9 DEF Inv

\* Closing the body preserves the invariant.
LEMMA HandlerCloseInv == Inv /\ HandlerClose => Inv'
  <1> SUFFICES ASSUME Inv, HandlerClose PROVE Inv'
    OBVIOUS
  <1>1. ~(N + 1 <= N)
    BY ParametersAssumption
  <1>2. TypeOK' /\ InOrder' /\ StackInv'
    BY DEF Inv, HandlerClose, TypeOK, InOrder, StackInv, params
  <1>3. EndInv'
    BY <1>1 DEF Inv, HandlerClose, EndInv, params
  <1> QED BY <1>2, <1>3 DEF Inv

\* The invariant holds throughout a request.
THEOREM Invariance == SafeSpec => []Inv
  <1>1. Inv /\ UNCHANGED vars => Inv'
    BY DEF Inv, TypeOK, InOrder, StackInv, EndInv, vars, params, Enters
  <1>2. Inv /\ [Next]_vars => Inv'
    BY <1>1, CaptureReadInv, NoReadInv, HandlerReadInv, HandlerCloseInv DEF Next
  <1> QED BY InitInv, <1>2, PTL DEF SafeSpec

-----------------------------------------------------------------------------
\* The variables of BodyReplay keep their types.
THEOREM TypeCorrect == SafeSpec => []TypeOK
  <1>1. Inv => TypeOK
    BY DEF Inv
  <1> QED BY Invariance, <1>1, PTL

\* However many middlewares are nested, whoever reads the body gets its first
\* bytes in order and once each.
THEOREM BodyIsRestored == SafeSpec => []InOrder
  <1>1. Inv => InOrder
    BY DEF Inv
  <1> QED BY Invariance, <1>1, PTL

\* Unless the wire turns an error into io.EOF, a handler that meets io.EOF
\* first has the whole body.
THEOREM CleanEnd == "EOF" \notin AfterFail => (SafeSpec => []CleanEndIsWhole)
  <1> SUFFICES ASSUME "EOF" \notin AfterFail PROVE SafeSpec => []CleanEndIsWhole
    OBVIOUS
  <1>1. Inv => CleanEndIsWhole
    BY DEF Inv, EndInv, CleanEndIsWhole
  <1> QED BY Invariance, <1>1, PTL

-----------------------------------------------------------------------------
\* The budget of the loop that runs, which bounds what it takes off the wire.
BudgetInv ==
    active <= N /\ Enters(active) =>
      remaining = limit[active] + 1 - Len(buffer) /\ remaining > 0

AheadInv == BudgetInv /\ BoundedReadAhead

\* A loop that is entered has a budget of one byte more than its limit.
LEMMA EntryBudget ==
    ASSUME TypeOK, NEW k \in Level, Enters(k)
    PROVE  Budget(limit[k]) = limit[k] + 1 /\ Budget(limit[k]) > 0
  <1>1. limit[k] \in Int
    BY ParametersAssumption DEF TypeOK
  <1> QED BY <1>1, MaxIntAssumption DEF Enters, Budget

\* Whatever the level that runs next, its budget is fresh.
LEMMA FreshBudget ==
    ASSUME TypeOK, active \in Level, active' = active + 1, limit' = limit,
           buffer' = <<>>,
           remaining' = IF active < N THEN Budget(limit[active + 1]) ELSE 0
    PROVE  BudgetInv'
  <1>1. CASE active < N
    <2>1. active + 1 \in Level
      BY <1>1, ParametersAssumption DEF Level
    <2>2. Enters(active + 1) =>
            Budget(limit[active + 1]) = limit[active + 1] + 1 /\ Budget(limit[active + 1]) > 0
      BY <2>1, EntryBudget
    <2>3. limit[active + 1] \in Int
      BY <2>1, ParametersAssumption DEF TypeOK
    <2>4. Enters(active)' <=> Enters(active + 1)
      BY DEF Enters
    <2> QED BY <1>1, <2>2, <2>3, <2>4 DEF BudgetInv, Enters
  <1>2. CASE ~(active < N)
    BY <1>2, ParametersAssumption DEF BudgetInv, Level
  <1> QED BY <1>1, <1>2

\* One iteration of a loop keeps to the budget.
LEMMA CaptureReadAhead ==
    ASSUME Inv, AheadInv, CaptureRead
    PROVE  AheadInv'
  <1> USE ParametersAssumption
  <1> DEFINE size == ReadSize(chunk[active], remaining)
             m    == Len(buffer)
  <1>1. PICK n \in 0 .. size, e \in ReadErr :
          /\ ReadBody(size, n, e)
          /\ \/ /\ AfterRead(remaining - n, n, e) = "reading"
                /\ buffer' = buffer \o Got(n)
                /\ remaining' = remaining - n
                /\ UNCHANGED <<active, prefix, result, handler>>
             \/ Install(buffer \o Got(n), AfterRead(remaining - n, n, e))
    BY Zenon DEF CaptureRead
  <1>2. /\ UNCHANGED params /\ limit' = limit
        /\ active <= N /\ active \in Level /\ Enters(active)
        /\ limit[active] \in Int /\ m \in Nat
        /\ remaining = limit[active] + 1 - m /\ remaining > 0
    <2>1. UNCHANGED params /\ limit' = limit /\ active <= N /\ Enters(active)
      BY DEF CaptureRead, params
    <2>2. active \in Level
      BY <2>1 DEF Inv, TypeOK, Level
    <2>3. limit[active] \in Int /\ m \in Nat
      <3>1. limit \in [Level -> Limits] /\ buffer \in Seq(1 .. length)
        BY DEF Inv, TypeOK
      <3>2. limit[active] \in Limits
        BY <2>2, <3>1
      <3>3. limit[active] \in Int
        BY <3>2, ParametersAssumption
      <3>4. m \in Nat
        BY <3>1, LenProperties
      <3> QED BY <3>3, <3>4
    <2>4. remaining = limit[active] + 1 - m /\ remaining > 0
      BY <2>1 DEF AheadInv, BudgetInv
    <2> QED BY <2>1, <2>2, <2>3, <2>4
  <1>3. size \in Nat /\ n \in Nat /\ n <= remaining
    <2>1. chunk[active] \in Nat \ {0} /\ remaining \in Int /\ remaining > 0
      BY <1>2, ActiveChunk DEF Inv, TypeOK
    <2> QED BY <1>1, <2>1 DEF ReadSize, AtMost
  <1>4. m + n \in Nat /\ buffer \o Got(n) = Bytes(0, m + n)
    BY <1>1, <1>3, ReadBodyStack
  <1>5. BudgetInv'
    <2>1. CASE Install(buffer \o Got(n), AfterRead(remaining - n, n, e))
      BY <1>2, <2>1, FreshBudget DEF Install, Inv
    <2>2. CASE /\ AfterRead(remaining - n, n, e) = "reading"
               /\ buffer' = buffer \o Got(n)
               /\ remaining' = remaining - n
               /\ UNCHANGED <<active, prefix, result, handler>>
      <3>1. remaining - n > 0
        BY <1>2, <1>3, <2>2 DEF AfterRead
      <3>2. Len(buffer') = m + n
        BY <1>4, <2>2, BytesType
      <3>3. remaining - n = limit[active] + 1 - (m + n)
        BY <1>2, <1>3
      <3> QED BY <1>2, <2>2, <3>1, <3>2, <3>3 DEF BudgetInv
    <2> QED BY <1>1, <2>1, <2>2
  <1>6. BoundedReadAhead'
    <2>1. CASE pos' = pos
      BY <1>2, <2>1 DEF AheadInv, BoundedReadAhead
    <2>2. CASE Live = {} /\ WireRead(size, n, e) /\ pos' = pos + n
      <3>1. pos = m
        BY <2>2 DEF Live, LiveIn, Inv, StackInv, Stack, WireJoins
      <3>2. m + n <= limit[active] + 1
        BY <1>2, <1>3
      <3> QED BY <1>2, <2>2, <3>1, <3>2 DEF BoundedReadAhead
    <2> QED BY <1>1, <2>1, <2>2 DEF ReadBody, WireRead
  <1> QED BY <1>5, <1>6 DEF AheadInv

\* Every loop keeps to its budget.
THEOREM BudgetIsKept == SafeSpec => []AheadInv
  <1> USE ParametersAssumption
  <1>1. Init => AheadInv
    <2> SUFFICES ASSUME Init PROVE AheadInv
      OBVIOUS
    <2>1. TypeOK
      BY InitInv DEF Inv
    <2>2. BudgetInv
      <3>1. CASE N > 0
        <4>1. 1 \in Level
          BY <3>1 DEF Level
        <4>2. Enters(1) => Budget(limit[1]) = limit[1] + 1 /\ Budget(limit[1]) > 0
          BY <2>1, <4>1, EntryBudget
        <4>3. limit[1] \in Int
          BY <2>1, <4>1 DEF TypeOK
        <4> QED BY <3>1, <4>2, <4>3 DEF Init, BudgetInv
      <3>2. CASE ~(N > 0)
        BY <3>2 DEF Init, BudgetInv
      <3> QED BY <3>1, <3>2
    <2>3. BoundedReadAhead
      BY DEF Init, BoundedReadAhead
    <2> QED BY <2>2, <2>3 DEF AheadInv
  <1>2. Inv /\ AheadInv /\ [Next]_vars => AheadInv'
    <2> SUFFICES ASSUME Inv, AheadInv, [Next]_vars PROVE AheadInv'
      OBVIOUS
    <2>1. CASE CaptureRead
      BY <2>1, CaptureReadAhead
    <2>2. CASE CaptureNothing \/ Skip
      <3>1. /\ active \in Level /\ active' = active + 1 /\ limit' = limit /\ pos' = pos
            /\ buffer' = <<>>
            /\ remaining' = IF active < N THEN Budget(limit[active + 1]) ELSE 0
            /\ active # N + 1
        BY <2>2 DEF CaptureNothing, Skip, Install, params, Inv, TypeOK, Level
      <3>2. BudgetInv'
        BY <3>1, FreshBudget DEF Inv
      <3>3. BoundedReadAhead'
        BY <3>1 DEF AheadInv, BoundedReadAhead
      <3> QED BY <3>2, <3>3 DEF AheadInv
    <2>3. CASE HandlerRead
      <3>1. active = N + 1 /\ active' = active /\ limit' = limit
        BY <2>3 DEF HandlerRead, params
      <3>2. BudgetInv'
        BY <3>1 DEF BudgetInv
      <3>3. BoundedReadAhead'
        <4>1. PICK size \in HandlerSizes : \E n \in 0 .. size, e \in ReadErr :
                /\ ReadBody(size, n, e)
                /\ buffer' = buffer \o Got(n)
          BY <2>3 DEF HandlerRead
        <4>2. PICK n \in 0 .. size, e \in ReadErr :
                /\ ReadBody(size, n, e)
                /\ buffer' = buffer \o Got(n)
          BY <4>1
        <4>3. size \in Nat /\ n \in Nat /\ Len(buffer) \in Nat /\ pos \in Nat
          BY <4>2 DEF Inv, TypeOK
        <4>4. Len(buffer') = Len(buffer) + n
          <5>1. Len(buffer) + n \in Nat /\ buffer' = Bytes(0, Len(buffer) + n)
            BY <4>2, <4>3, ReadBodyStack
          <5> QED BY <5>1, BytesType
        <4>5. CASE pos' = pos
          BY <3>1, <4>3, <4>4, <4>5 DEF AheadInv, BoundedReadAhead
        <4>6. CASE Live = {} /\ pos' = pos + n
          <5>1. pos = Len(buffer)
            BY <4>6 DEF Live, LiveIn, Inv, StackInv, Stack, WireJoins
          <5> QED BY <3>1, <4>3, <4>4, <4>6, <5>1 DEF BoundedReadAhead
        <4> QED BY <4>2, <4>5, <4>6 DEF ReadBody, WireRead
      <3> QED BY <3>2, <3>3 DEF AheadInv
    <2>4. CASE HandlerClose
      BY <2>4 DEF HandlerClose, AheadInv, BudgetInv, BoundedReadAhead, Enters, params
    <2>5. CASE UNCHANGED vars
      BY <2>5 DEF vars, AheadInv, BudgetInv, BoundedReadAhead, Enters, params
    <2> QED BY <2>1, <2>2, <2>3, <2>4, <2>5 DEF Next
  <1> QED BY <1>1, <1>2, Invariance, PTL DEF SafeSpec

\* However many middlewares are nested, they take at most one byte more than
\* the largest limit off the wire before the handler asks for more.
THEOREM ReadAheadIsBounded == SafeSpec => []BoundedReadAhead
  <1>1. AheadInv => BoundedReadAhead
    BY DEF AheadInv
  <1> QED BY <1>1, BudgetIsKept, PTL

-----------------------------------------------------------------------------
\* What a clean capture leaves behind: as much as its limit allows, or all there
\* is, and then the wire has said so and says so again to any later capture.
CleanCapture(j) ==
    \/ Len(prefix[j]) = limit[j] + 1
    \/ Len(prefix[j]) = length /\ pos = length /\ (active <= N => wire = "ended")

\* No level has read what has not left the wire, and the clean captures.
CaptureInv ==
    /\ Len(buffer) <= pos
    /\ \A j \in Level : Len(prefix[j]) <= pos
    /\ \A j \in Level : j < active /\ Enters(j) /\ result[j] = "nil" => CleanCapture(j)

AgreeInv == CaptureInv /\ InnerCaptureAgrees

\* A read takes bytes of a live replay and meets no error, or goes to the wire.
LEMMA ReadAgree ==
    ASSUME Inv, CaptureInv, NEW size \in Nat \ {0}, NEW n \in 0 .. size, NEW e \in ReadErr,
           ReadBody(size, n, e)
    PROVE  /\ Len(buffer) + n <= pos' /\ pos <= pos' /\ pos' <= length
           /\ \/ e = "nil" /\ n > 0 /\ pos' = pos /\ wire' = wire
              \/ pos = Len(buffer) /\ pos' = pos + n /\ WireRead(size, n, e)
  <1>1. /\ Len(buffer) \in Nat /\ pos \in 0 .. length /\ length \in Nat /\ n \in Nat
    BY ParametersAssumption DEF Inv, TypeOK
  <1>2. CASE Live = {} /\ WireRead(size, n, e)
    <2>1. pos = Len(buffer)
      BY <1>2 DEF Live, LiveIn, Inv, StackInv, Stack, WireJoins
    <2>2. pos' = pos + n /\ pos' <= length
      BY <1>1, <1>2 DEF WireRead
    <2> QED BY <1>1, <1>2, <2>1, <2>2
  <1>3. CASE /\ ~(Live = {} /\ WireRead(size, n, e))
    <2>1. PICK j \in Level :
            /\ IsTop(j) /\ n = AtMost(size, Len(prefix[j]) - idx[j])
            /\ e = "nil" /\ pos' = pos /\ wire' = wire
      BY <1>3 DEF ReadBody
    <2>2. idx[j] = Len(buffer)
      BY <2>1 DEF IsTop, Live, LiveIn, Inv, StackInv, Stack, TopJoins
    <2>3. /\ idx[j] < Len(prefix[j]) /\ Len(prefix[j]) \in Nat /\ idx[j] \in Nat
          /\ Len(prefix[j]) <= pos
      BY <2>1 DEF IsTop, Live, Inv, TypeOK, CaptureInv
    <2>4. n > 0 /\ Len(buffer) + n <= Len(prefix[j])
      BY <1>1, <2>1, <2>2, <2>3 DEF AtMost
    <2> QED BY <1>1, <2>1, <2>3, <2>4
  <1> QED BY <1>2, <1>3

\* The last iteration of a loop leaves a clean capture when it returns nil, and
\* agrees with the clean captures of the levels outside it.
LEMMA InstallAgrees ==
    ASSUME "EOF" \notin AfterFail, Inv, AheadInv, AgreeInv, active \in Level, Enters(active),
           NEW size \in Nat \ {0}, NEW n \in 0 .. size, n <= remaining, NEW e \in ReadErr,
           ReadBody(size, n, e),
           Install(buffer \o Got(n), AfterRead(remaining - n, n, e)), UNCHANGED params,
           AfterRead(remaining - n, n, e) # "reading"
    PROVE  AgreeInv'
  <1> DEFINE m == Len(buffer)
             r == AfterRead(remaining - n, n, e)
             a == active
  <1>1. /\ m \in Nat /\ pos \in 0 .. length /\ length \in Nat /\ n \in Nat /\ a \in 1 .. N
        /\ limit[a] \in Int /\ remaining = limit[a] + 1 - m /\ remaining > 0
        /\ wire # "closed" /\ afterFail # "EOF" /\ Len(prefix[a]) = 0
    <2>1. /\ m \in Nat /\ pos \in 0 .. length /\ length \in Nat /\ n \in Nat /\ a \in 1 .. N
          /\ afterFail \in AfterFail /\ limit \in [Level -> Limits]
      BY ParametersAssumption DEF Inv, TypeOK, Level
    <2>2. limit[a] \in Int
      BY <2>1, ParametersAssumption
    <2>3. remaining = limit[a] + 1 - m /\ remaining > 0 /\ wire # "closed"
      BY <2>1, ParametersAssumption DEF AheadInv, BudgetInv, Inv, EndInv
    <2>4. prefix[a] = <<>>
      BY <2>1 DEF Inv, StackInv, Stack, Prefixes
    <2> QED BY <2>1, <2>2, <2>3, <2>4
  <1>2. /\ m + n <= pos' /\ pos <= pos' /\ pos' <= length
        /\ \/ e = "nil" /\ n > 0 /\ pos' = pos /\ wire' = wire
           \/ pos = m /\ pos' = pos + n /\ WireRead(size, n, e)
    BY ReadAgree DEF AgreeInv
  <1>3. /\ m + n \in Nat /\ buffer \o Got(n) = Bytes(0, m + n) /\ Len(Bytes(0, m + n)) = m + n
        /\ pos' \in Int
    <2>1. size \in Nat
      OBVIOUS
    <2>2. m + n \in Nat /\ buffer \o Got(n) = Bytes(0, m + n) /\ pos' \in 0 .. length
      BY <2>1, ReadBodyStack
    <2>3. \A q \in Nat : Len(Bytes(0, q)) = q
      BY BytesType
    <2> QED BY <1>1, <2>2, <2>3
  <1>4. /\ prefix' = [prefix EXCEPT ![a] = Bytes(0, m + n)]
        /\ result' = [result EXCEPT ![a] = r] /\ active' = a + 1 /\ buffer' = <<>>
        /\ limit' = limit /\ length' = length
    BY <1>3 DEF Install, Replayed, params
  <1>5. /\ Len(prefix'[a]) = m + n /\ result'[a] = r
        /\ \A j \in Level : j # a => prefix'[j] = prefix[j] /\ result'[j] = result[j]
        /\ \A j \in Level : j < a + 1 <=> j < a \/ j = a
        /\ \A j \in Level : Enters(j)' <=> Enters(j)
        /\ \A j \in Level : Len(prefix[j]) \in Nat /\ limit[j] \in Int
    <2>1. Len(prefix'[a]) = m + n /\ result'[a] = r
      BY <1>1, <1>3, <1>4 DEF Inv, TypeOK, Level
    <2>2. \A j \in Level : j # a => prefix'[j] = prefix[j] /\ result'[j] = result[j]
      BY <1>4 DEF Inv, TypeOK
    <2>3. \A j \in Level : j < a + 1 <=> j < a \/ j = a
      BY <1>1, ParametersAssumption DEF Level
    <2>4. \A j \in Level : Enters(j)' <=> Enters(j)
      BY <1>4 DEF Enters, Budget
    <2>5. \A j \in Level : Len(prefix[j]) \in Nat /\ limit[j] \in Int
      <3>1. prefix \in [Level -> Seq(1 .. length)] /\ limit \in [Level -> Limits]
        BY DEF Inv, TypeOK
      <3>2. \A j \in Level : Len(prefix[j]) \in Nat
        BY <3>1, LenProperties
      <3>3. \A j \in Level : limit[j] \in Int
        BY <3>1, ParametersAssumption
      <3> QED BY <3>2, <3>3
    <2> QED BY <2>1, <2>2, <2>3, <2>4, <2>5
  <1> HIDE DEF m, r, a
  \* io.EOF is met at the end of the wire, which stays there.
  <1>6. /\ e = "EOF" => wire' = "ended" /\ m + n = length /\ pos' = length
        /\ wire = "ended" => pos = length /\ pos' = length /\ wire' = "ended"
    BY <1>1, <1>2 DEF WireRead, Inv, EndInv
  <1>7. r = "nil" => m + n = limit[a] + 1 \/ e = "EOF"
    BY <1>1 DEF r, AfterRead
  <1>8. CaptureInv'
    <2>1. Len(buffer') <= pos'
      BY <1>1, <1>2, <1>4
    <2>2. ASSUME NEW j \in Level PROVE Len(prefix'[j]) <= pos'
      <3>1. Len(prefix[j]) <= pos
        BY DEF AgreeInv, CaptureInv
      <3>2. CASE j = a
        BY <1>2, <1>5, <3>2
      <3>3. CASE j # a
        <4>1. prefix'[j] = prefix[j] /\ Len(prefix[j]) \in Nat
          BY <1>5, <3>3
        <4> QED BY <1>1, <1>2, <1>3, <3>1, <4>1
      <3> QED BY <3>2, <3>3
    <2>3. ASSUME NEW j \in Level, j < a + 1, Enters(j), result'[j] = "nil"
          PROVE  \/ Len(prefix'[j]) = limit[j] + 1
                 \/ Len(prefix'[j]) = length /\ pos' = length /\ wire' = "ended"
      <3>1. CASE j = a
        BY <1>5, <1>6, <1>7, <2>3, <3>1
      <3>2. CASE j # a
        <4>1. /\ j < a /\ result[j] = "nil" /\ prefix'[j] = prefix[j]
          BY <1>5, <2>3, <3>2
        <4>2. \/ Len(prefix[j]) = limit[j] + 1
              \/ Len(prefix[j]) = length /\ pos = length /\ wire = "ended"
          BY <1>1, <2>3, <4>1 DEF AgreeInv, CaptureInv, CleanCapture, a
        <4> QED BY <1>6, <4>1, <4>2
      <3> QED BY <3>1, <3>2
    <2> QED BY <1>4, <1>5, <2>1, <2>2, <2>3 DEF CaptureInv, CleanCapture
  <1>9. ASSUME NEW j \in Level, NEW k \in Level, j < k, k < a + 1, limit[k] <= limit[j],
               Enters(j), Enters(k), result'[j] = "nil", result'[k] # "skipped"
        PROVE  result'[k] = "nil" /\ Len(prefix'[k]) = AtMost(length, limit[k] + 1)
    <2>1. j < a /\ j # a /\ j \in Int /\ k \in Int
      BY <1>1, <1>9, ParametersAssumption DEF Level
    <2>2. result[j] = "nil"
      BY <1>5, <1>9, <2>1
    <2>3. CASE k = a
      <3>1. \/ Len(prefix[j]) = limit[j] + 1
            \/ pos = length /\ wire = "ended"
        BY <1>1, <1>9, <2>1, <2>2 DEF AgreeInv, CaptureInv, CleanCapture, a
      <3>2. pos = m => wire = "ended"
        <4>1. Len(prefix[j]) <= pos
          BY DEF AgreeInv, CaptureInv
        <4>2. pos = m => ~(Len(prefix[j]) = limit[j] + 1)
          <5>1. limit[a] <= limit[j] /\ limit[j] \in Int /\ Len(prefix[j]) \in Nat
            BY <1>5, <1>9, <2>3
          <5>2. m < limit[a] + 1
            BY <1>1
          <5> QED BY <1>1, <4>1, <5>1, <5>2
        <4> QED BY <3>1, <4>2
      <3>3. (e = "nil" /\ n > 0) \/ e = "EOF"
        BY <1>2, <3>2 DEF WireRead
      <3>4. r = "nil"
        BY <3>3 DEF AfterRead, r
      <3>5. m + n = AtMost(length, limit[a] + 1)
        <4>1. m + n <= length /\ m + n <= limit[a] + 1
          BY <1>1, <1>2, <1>3
        <4>2. m + n = length \/ m + n = limit[a] + 1
          BY <1>6, <1>7, <3>4
        <4> QED BY <1>1, <1>3, <4>1, <4>2 DEF AtMost
      <3> QED BY <1>5, <2>3, <3>4, <3>5
    <2>4. CASE k # a
      <3>1. k < a /\ result'[k] = result[k] /\ prefix'[k] = prefix[k]
        BY <1>5, <1>9, <2>4
      <3> QED BY <1>9, <2>2, <3>1 DEF AgreeInv, InnerCaptureAgrees, a
    <2> QED BY <2>3, <2>4
  <1>10. InnerCaptureAgrees'
    BY <1>4, <1>5, <1>9 DEF InnerCaptureAgrees, AtMost
  <1> QED BY <1>8, <1>10 DEF AgreeInv

\* A read that installs nothing: the loop goes on, or the handler reads.
LEMMA ReadOnAgrees ==
    ASSUME "EOF" \notin AfterFail, Inv, AgreeInv,
           NEW size \in Nat \ {0}, NEW n \in 0 .. size, NEW e \in ReadErr, ReadBody(size, n, e),
           buffer' = buffer \o Got(n), UNCHANGED <<params, active, prefix, result>>
    PROVE  AgreeInv'
  <1>1. /\ Len(buffer) + n <= pos' /\ pos <= pos' /\ pos' <= length
        /\ \/ pos' = pos /\ wire' = wire
           \/ WireRead(size, n, e)
    BY ReadAgree DEF AgreeInv
  <1>2. /\ Len(buffer) \in Nat /\ n \in Nat /\ pos \in 0 .. length /\ length \in Nat /\ pos' \in Int
        /\ limit' = limit /\ length' = length
        /\ \A j \in Level : Len(prefix[j]) \in Nat
    <2>1. /\ Len(buffer) \in Nat /\ n \in Nat /\ pos \in 0 .. length /\ length \in Nat
          /\ limit' = limit /\ length' = length
          /\ prefix \in [Level -> Seq(1 .. length)]
      BY ParametersAssumption DEF Inv, TypeOK, params
    <2>2. size \in Nat
      OBVIOUS
    <2>3. pos' \in 0 .. length
      BY <2>2, ReadBodyStack
    <2>4. \A j \in Level : Len(prefix[j]) \in Nat
      BY <2>1, LenProperties
    <2> QED BY <2>1, <2>3, <2>4
  <1>3. Len(buffer') = Len(buffer) + n
    <2>1. size \in Nat
      OBVIOUS
    <2>2. Len(buffer) + n \in Nat /\ buffer' = Bytes(0, Len(buffer) + n)
      BY <1>2, <2>1, ReadBodyStack
    <2> QED BY <2>2, BytesType
  <1>4. pos = length /\ wire = "ended" => pos' = length /\ wire' = "ended"
    BY <1>1, <1>2 DEF WireRead
  <1>5. pos = length => pos' = length
    BY <1>1, <1>2
  <1>6. CaptureInv'
    BY <1>1, <1>2, <1>3, <1>4, <1>5 DEF AgreeInv, CaptureInv, CleanCapture, Enters
  <1>7. InnerCaptureAgrees'
    BY <1>2 DEF AgreeInv, InnerCaptureAgrees, Enters, AtMost
  <1> QED BY <1>6, <1>7 DEF AgreeInv

\* Unless the wire turns an error into io.EOF: a middleware inside another one
\* with at least its limit, which read cleanly, reads cleanly too, and as much
\* as it would have read alone.
THEOREM InnerCaptures == "EOF" \notin AfterFail => (SafeSpec => []InnerCaptureAgrees)
  <1> SUFFICES ASSUME "EOF" \notin AfterFail PROVE SafeSpec => []InnerCaptureAgrees
    OBVIOUS
  <1>1. Init => AgreeInv
    <2> SUFFICES ASSUME Init PROVE AgreeInv
      OBVIOUS
    <2>1. \A j \in Level : j \in Int /\ j >= 1
      BY ParametersAssumption DEF Level
    <2> QED BY <2>1 DEF Init, AgreeInv, CaptureInv, InnerCaptureAgrees
  <1>2. Inv /\ AheadInv /\ AgreeInv /\ [Next]_vars => AgreeInv'
    <2> SUFFICES ASSUME Inv, AheadInv, AgreeInv, [Next]_vars PROVE AgreeInv'
      OBVIOUS
    <2>1. CASE CaptureRead
      <3> DEFINE size == ReadSize(chunk[active], remaining)
      <3>1. PICK n \in 0 .. size, e \in ReadErr :
              /\ ReadBody(size, n, e)
              /\ IF AfterRead(remaining - n, n, e) = "reading"
                 THEN /\ buffer' = buffer \o Got(n)
                      /\ UNCHANGED <<active, prefix, result, handler>>
                 ELSE Install(buffer \o Got(n), AfterRead(remaining - n, n, e))
        BY <2>1, Zenon DEF CaptureRead
      <3>2. active \in Level /\ Enters(active) /\ UNCHANGED params
        BY <2>1 DEF CaptureRead, Inv, TypeOK, Level
      <3>3. remaining > 0 /\ remaining \in Int /\ chunk[active] \in Nat \ {0}
        BY <3>2, ActiveChunk, ParametersAssumption DEF AheadInv, BudgetInv, Inv, TypeOK, Level
      <3>4. size \in Nat \ {0} /\ n <= remaining
        BY <3>3 DEF ReadSize, AtMost
      <3> HIDE DEF size
      <3>5. CASE AfterRead(remaining - n, n, e) = "reading"
        BY <3>1, <3>2, <3>4, <3>5, ReadOnAgrees
      <3>6. CASE AfterRead(remaining - n, n, e) # "reading"
        BY <3>1, <3>2, <3>4, <3>6, InstallAgrees
      <3> QED BY <3>5, <3>6
    <2>2. CASE CaptureNothing \/ Skip
      <3>1. PICK r : /\ result' = [result EXCEPT ![active] = r]
                     /\ r = "skipped" \/ ~Enters(active)
        BY <2>2 DEF CaptureNothing, Skip, Install
      <3>2. /\ active \in Level /\ active' = active + 1 /\ buffer' = <<>>
            /\ limit' = limit /\ length' = length /\ pos' = pos /\ wire' = wire
        BY <2>2 DEF CaptureNothing, Skip, Install, params, Inv, TypeOK, Level
      <3>3. prefix' = prefix
        <4>1. prefix[active] = <<>> /\ prefix \in [Level -> Seq(1 .. length)]
          BY <3>2, ParametersAssumption DEF Inv, TypeOK, StackInv, Stack, Prefixes, Level
        <4> QED BY <2>2, <3>2, <4>1 DEF CaptureNothing, Skip, Install, Replayed
      <3>4. /\ \A j \in Level : j < active' /\ Enters(j) /\ result'[j] # "skipped" =>
                  j < active /\ result'[j] = result[j]
            /\ \A j \in Level : Enters(j)' <=> Enters(j)
            /\ pos \in Nat
        BY <3>1, <3>2, ParametersAssumption DEF Inv, TypeOK, Level, Enters
      <3>5. CaptureInv'
        <4>1. \A j \in Level : Enters(j) /\ j < active' /\ result'[j] = "nil" => CleanCapture(j)
          BY <3>4 DEF AgreeInv, CaptureInv
        <4>2. active' <= N => active <= N
          BY <3>2, ParametersAssumption DEF Level
        <4>3. \A j \in Level : CleanCapture(j) => CleanCapture(j)'
          BY <3>2, <3>3, <4>2 DEF CleanCapture
        <4>4. Len(buffer') <= pos'
          BY <3>2, <3>4
        <4>5. \A j \in Level : Len(prefix'[j]) <= pos'
          BY <3>2, <3>3 DEF AgreeInv, CaptureInv
        <4>6. \A j \in Level :
                j < active' /\ Enters(j)' /\ result'[j] = "nil" => CleanCapture(j)'
          BY <3>4, <4>1, <4>3
        <4> QED BY <4>4, <4>5, <4>6 DEF CaptureInv
      <3>6. InnerCaptureAgrees'
        <4>1. ASSUME NEW j \in Level, NEW k \in Level, j < k, k < active',
                     limit[k] <= limit[j], Enters(j), Enters(k),
                     result'[j] = "nil", result'[k] # "skipped"
              PROVE  result'[k] = "nil" /\ Len(prefix[k]) = AtMost(length, limit[k] + 1)
          <5>1. k < active /\ result'[k] = result[k]
            BY <3>4, <4>1
          <5>2. j < active'
            BY <3>2, <4>1, ParametersAssumption DEF Level
          <5>3. result'[j] # "skipped"
            BY <4>1
          <5>4. result'[j] = result[j]
            BY <3>4, <4>1, <5>2, <5>3
          <5> QED BY <4>1, <5>1, <5>4 DEF AgreeInv, InnerCaptureAgrees
        <4> QED BY <3>2, <3>3, <3>4, <4>1 DEF InnerCaptureAgrees, AtMost
      <3> QED BY <3>5, <3>6 DEF AgreeInv
    <2>3. CASE HandlerRead
      <3>1. PICK size \in HandlerSizes : \E n \in 0 .. size, e \in ReadErr :
              ReadBody(size, n, e) /\ buffer' = buffer \o Got(n)
        BY <2>3 DEF HandlerRead
      <3>2. size \in Nat \ {0} /\ UNCHANGED <<params, active, prefix, result>>
        BY <2>3, ParametersAssumption DEF HandlerRead
      <3> QED BY <3>1, <3>2, ReadOnAgrees
    <2>4. CASE HandlerClose
      <3>1. ~(active <= N)
        BY <2>4, ParametersAssumption DEF HandlerClose
      <3> QED BY <2>4, <3>1 DEF HandlerClose, AgreeInv, CaptureInv, CleanCapture,
                              InnerCaptureAgrees, Enters, params
    <2>5. CASE UNCHANGED vars
      BY <2>5 DEF vars, AgreeInv, CaptureInv, CleanCapture, InnerCaptureAgrees, Enters, params
    <2> QED BY <2>1, <2>2, <2>3, <2>4, <2>5 DEF Next
  <1>3. AgreeInv => InnerCaptureAgrees
    BY DEF AgreeInv
  <1> QED BY <1>1, <1>2, <1>3, Invariance, BudgetIsKept, PTL DEF SafeSpec

-----------------------------------------------------------------------------
\* The handler's view of a step of a middleware is a stutter.
LEMMA RefineMiddleware ==
    ASSUME Inv, CaptureRead \/ CaptureNothing \/ Skip
    PROVE  UNCHANGED Direct!vars
  <1>1. /\ length' = length /\ handler' = handler /\ active # N + 1
        /\ active' = active \/ buffer' = <<>>
    <2>1. ~(N + 1 <= N)
      BY ParametersAssumption
    <2> QED BY <2>1
            DEF CaptureRead, CaptureNothing, Skip, Install, Inv, EndInv, params
  <1> QED BY <1>1 DEF Direct!vars

\* A read of the handler is a read of the bare body.
LEMMA RefineRead ==
    ASSUME "EOF" \notin AfterFail, Inv, Inv', HandlerRead
    PROVE  Direct!Next
  <1> USE ParametersAssumption
  <1> DEFINE m == Len(buffer)
  <1>1. PICK size \in HandlerSizes : \E n \in 0 .. size, e \in ReadErr :
          /\ ReadBody(size, n, e)
          /\ buffer' = buffer \o Got(n)
          /\ handler' = Standing(e)
    BY DEF HandlerRead
  <1>2. PICK n \in 0 .. size, e \in ReadErr :
          /\ ReadBody(size, n, e)
          /\ buffer' = buffer \o Got(n)
          /\ handler' = Standing(e)
    BY <1>1
  <1>3. /\ active = N + 1 /\ active' = active /\ length' = length
        /\ handler # "ended"
    BY DEF HandlerRead, params
  <1>4. size \in Nat /\ n \in Nat /\ m \in Nat /\ length \in Nat
    BY <1>2 DEF Inv, TypeOK
  <1>5. m + n \in Nat /\ m + n <= length /\ buffer' = Bytes(0, m + n)
    BY <1>2, <1>4, ReadBodyStack
  <1>6. handler' = "ended" => m + n = length
    BY <1>3, <1>5, BytesType DEF Inv, EndInv
  <1>7. buffer' = [i \in 1 .. m + n |-> i]
    BY <1>5 DEF Bytes
  <1>8. Direct!Read(n, handler')
    <2>1. handler # "reading" => handler' = handler
      BY <1>2 DEF Standing
    <2>2. m = Len(IF active = N + 1 THEN buffer ELSE <<>>)
      BY <1>3
    <2>3. (IF active = N + 1 THEN buffer ELSE <<>>)' = [i \in 1 .. m + n |-> i]
      BY <1>3, <1>7
    <2> HIDE DEF m
    <2> QED BY <1>3, <1>5, <1>6, <2>1, <2>2, <2>3 DEF Direct!Read
  <1>9. handler' \in Direct!Stand
    BY DEF Inv, TypeOK, Direct!Stand
  <1>10. n \in 0 .. length
    BY <1>4, <1>5
  <1> QED BY <1>8, <1>9, <1>10 DEF Direct!Next

\* Unless the wire turns an error into io.EOF, the nested middlewares with
\* their replays implement the bare body.
THEOREM Transparent == "EOF" \notin AfterFail => (SafeSpec => Direct!SafeSpec)
  <1> SUFFICES ASSUME "EOF" \notin AfterFail PROVE SafeSpec => Direct!SafeSpec
    OBVIOUS
  <1>1. Init => Direct!Init
    BY ParametersAssumption DEF Init, Direct!Init
  <1>2. Inv /\ Inv' /\ [Next]_vars => [Direct!Next]_(Direct!vars)
    <2> SUFFICES ASSUME Inv, Inv', [Next]_vars
                 PROVE  [Direct!Next]_(Direct!vars)
      OBVIOUS
    <2>1. CASE CaptureRead \/ CaptureNothing \/ Skip
      BY <2>1, RefineMiddleware
    <2>2. CASE HandlerRead
      BY <2>2, RefineRead
    <2>3. CASE HandlerClose
      BY <2>3 DEF HandlerClose, Direct!Next, Direct!Close, Direct!vars, params
    <2>4. CASE UNCHANGED vars
      BY <2>4 DEF vars, params, Direct!vars
    <2> QED BY <2>1, <2>2, <2>3, <2>4 DEF Next
  <1> QED BY <1>1, <1>2, Invariance, PTL DEF SafeSpec, Direct!SafeSpec

=============================================================================
