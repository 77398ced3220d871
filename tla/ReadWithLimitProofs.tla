------------------------ MODULE ReadWithLimitProofs -------------------------
(***************************************************************************)
(* Proofs about ReadWithLimit for every set of limits, chunk sizes and     *)
(* stream lengths.  What needs a budget that does not overflow says so in  *)
(* its hypotheses (NoOverflow); MCReadOverflow.cfg shows why.              *)
(***************************************************************************)
EXTENDS ReadWithLimit, SequenceTheorems, TLAPS

\* A piece of a stream is a sequence of offsets with one entry per byte.
LEMMA BytesType ==
    ASSUME NEW a \in Nat, NEW b \in Nat, a <= b
    PROVE  /\ Bytes(a, b) \in Seq(Nat)
           /\ Len(Bytes(a, b)) = b - a
           /\ \A i \in 1 .. b - a : Bytes(a, b)[i] = a + i
  BY DEF Bytes

\* The first bytes of a stream are bytes of the stream.
LEMMA BytesOfStream ==
    ASSUME NEW k \in Nat, NEW len \in Nat, k <= len
    PROVE  Bytes(0, k) \in Seq(1 .. len) /\ Len(Bytes(0, k)) = k
  BY DEF Bytes

\* Two adjacent pieces of a stream make one piece.
LEMMA BytesConcat ==
    ASSUME NEW a \in Nat, NEW b \in Nat, NEW c \in Nat, a <= b, b <= c
    PROVE  Bytes(a, b) \o Bytes(b, c) = Bytes(a, c)
  <1> DEFINE s == Bytes(a, b)
             t == Bytes(b, c)
             u == Bytes(a, c)
  <1>1. s \in Seq(Nat) /\ Len(s) = b - a /\ \A i \in 1 .. b - a : s[i] = a + i
    BY BytesType, Zenon
  <1>2. t \in Seq(Nat) /\ Len(t) = c - b /\ \A i \in 1 .. c - b : t[i] = b + i
    BY BytesType, Zenon
  <1>3. a <= c
    OBVIOUS
  <1>4. u \in Seq(Nat) /\ Len(u) = c - a /\ \A i \in 1 .. c - a : u[i] = a + i
    BY <1>3, BytesType, Zenon
  <1> HIDE DEF s, t, u
  <1>5. /\ s \o t \in Seq(Nat)
        /\ Len(s \o t) = Len(s) + Len(t)
        /\ \A i \in 1 .. Len(s) + Len(t) :
             (s \o t)[i] = IF i <= Len(s) THEN s[i] ELSE t[i - Len(s)]
    BY <1>1, <1>2, ConcatProperties, Zenon
  <1> DEFINE joined == s \o t
  <1> HIDE DEF joined
  <1>6. Len(joined) = c - a
    BY <1>1, <1>2, <1>5 DEF joined
  <1>7. ASSUME NEW i \in 1 .. c - a PROVE joined[i] = a + i
    <2>1. joined[i] = IF i <= b - a THEN s[i] ELSE t[i - (b - a)]
      BY <1>1, <1>2, <1>5 DEF joined
    <2>2. CASE i <= b - a
      BY <1>1, <2>1, <2>2
    <2>3. CASE i > b - a
      <3>1. i - (b - a) \in 1 .. c - b
        BY <2>3
      <3> QED BY <1>2, <2>1, <2>3, <3>1
    <2> QED BY <2>2, <2>3
  <1>8. joined = u
    BY <1>4, <1>5, <1>6, <1>7, SeqEqual DEF joined
  <1> QED BY <1>8 DEF joined, s, t, u

-----------------------------------------------------------------------------
\* No limit is the largest integer, so maxBytes + 1 is representable.
NoOverflow == \A l \in Limits : l < MaxInt

\* The loop's own account of its budget: it runs only under a positive limit
\* whose successor did not wrap, and what it has read and what it may still
\* read always add up to limit + 1.
BudgetInv ==
    /\ result = "reading" => limit > 0 /\ limit < MaxInt /\ remaining > 0
    /\ limit > 0 /\ limit < MaxInt => remaining = limit + 1 - pos /\ remaining >= 0
    /\ limit = MaxInt => pos = 0

\* Why the loop stopped.
StopInv ==
    /\ limit > 0 /\ limit < MaxInt /\ result = "nil" => remaining = 0 \/ pos = length
    /\ result = "noprogress" => remaining > 0

Inv == TypeOK /\ NothingLost /\ BudgetInv /\ StopInv

\* The call starts in a state of the invariant.
LEMMA InitInv == Init => Inv
  <1> SUFFICES ASSUME Init PROVE Inv
    OBVIOUS
  <1> USE MaxIntAssumption, ParametersAssumption
  <1>1. TypeOK
    BY DEF Init, TypeOK, Budget, Enters, Result
  <1>2. NothingLost
    BY DEF Init, NothingLost, Bytes
  <1>3. BudgetInv /\ StopInv
    BY DEF Init, BudgetInv, StopInv, Budget, Enters
  <1> QED BY <1>1, <1>2, <1>3 DEF Inv

\* One iteration of the loop preserves the invariant.
LEMMA ReadChunkInv == Inv /\ ReadChunk => Inv'
  <1> SUFFICES ASSUME Inv, ReadChunk PROVE Inv'
    OBVIOUS
  <1> USE MaxIntAssumption, ParametersAssumption
  <1>1. PICK n \in 0 .. ReadSize(ChunkSize, remaining), e \in ReadErr :
          /\ SourceRead(n, e)
          /\ buffer' = buffer \o Received(n)
          /\ remaining' = remaining - n
          /\ result' = AfterRead(remaining - n, n, e)
    BY DEF ReadChunk
  <1>2. /\ limit' = limit /\ chunk' = chunk /\ length' = length
        /\ limit > 0 /\ limit < MaxInt /\ limit \in Int
        /\ remaining = limit + 1 - pos /\ remaining > 0
        /\ pos \in Nat /\ length \in Nat
    BY DEF ReadChunk, Inv, TypeOK, BudgetInv
  <1>3. n \in Nat /\ n <= remaining
    BY <1>2 DEF ReadSize, AtMost, ChunkSize, Inv, TypeOK
  <1>4. pos' = pos + n /\ pos' <= length /\ (e = "EOF" => pos' = length)
    BY <1>1, <1>2, <1>3 DEF SourceRead
  <1>5. NothingLost'
    <2>1. buffer = Bytes(0, pos) /\ Received(n) = Bytes(pos, pos + n)
      BY DEF Inv, NothingLost, Received
    <2>2. Bytes(0, pos) \o Bytes(pos, pos + n) = Bytes(0, pos + n)
      <3>1. 0 \in Nat /\ pos \in Nat /\ pos + n \in Nat /\ 0 <= pos /\ pos <= pos + n
        BY <1>2, <1>3
      <3> QED BY <3>1, BytesConcat, Zenon
    <2> QED BY <1>1, <1>4, <2>1, <2>2 DEF NothingLost
  <1>6. TypeOK'
    <2>1. result' \in Result
      BY <1>1 DEF AfterRead, Result
    <2>2. buffer' \in Seq(1 .. length)
      <3>1. pos + n \in Nat /\ pos + n <= length /\ buffer' = Bytes(0, pos + n)
        BY <1>2, <1>3, <1>4, <1>5 DEF NothingLost
      <3> QED BY <1>2, <3>1, BytesOfStream
    <2> QED BY <1>1, <1>2, <1>3, <1>4, <2>1, <2>2 DEF Inv, TypeOK
  <1>7. BudgetInv'
    BY <1>1, <1>2, <1>3, <1>4 DEF BudgetInv, AfterRead
  <1>8. StopInv'
    BY <1>1, <1>2, <1>3, <1>4 DEF StopInv, AfterRead, ReadErr
  <1> QED BY <1>5, <1>6, <1>7, <1>8 DEF Inv

\* The invariant holds throughout a call.
THEOREM Invariance == SafeSpec => []Inv
  <1>1. Inv /\ UNCHANGED vars => Inv'
    BY DEF Inv, TypeOK, NothingLost, BudgetInv, StopInv, vars
  <1>2. Inv /\ [Next]_vars => Inv'
    BY <1>1, ReadChunkInv DEF Next
  <1> QED BY InitInv, <1>2, PTL DEF SafeSpec

-----------------------------------------------------------------------------
\* The variables of readWithLimit keep their types.
THEOREM TypeCorrect == SafeSpec => []TypeOK
  <1>1. Inv => TypeOK
    BY DEF Inv
  <1> QED BY Invariance, <1>1, PTL

\* readWithLimit keeps every byte it takes out of the reader, in order and
\* once, for every limit, overflow or not.
THEOREM KeepsEveryByte == SafeSpec => []NothingLost
  <1>1. Inv => NothingLost
    BY DEF Inv
  <1> QED BY Invariance, <1>1, PTL

\* readWithLimit takes at most one byte more than its limit.
THEOREM ReadsAtMostOneExtra == SafeSpec => []BoundedRead
  <1>1. Inv => BoundedRead
    BY MaxIntAssumption, ParametersAssumption
       DEF Inv, TypeOK, BudgetInv, BoundedRead
  <1> QED BY Invariance, <1>1, PTL

\* When no limit makes the budget overflow, a return with neither an error
\* nor the truncation mark means that the whole stream was read.
THEOREM CleanReturn == NoOverflow => (SafeSpec => []CleanReturnIsWhole)
  <1> SUFFICES ASSUME NoOverflow PROVE SafeSpec => []CleanReturnIsWhole
    OBVIOUS
  <1>1. Inv => CleanReturnIsWhole
    <2> SUFFICES ASSUME Inv, limit > 0, result = "nil"
                 PROVE  Truncated \/ buffer = Bytes(0, length)
      BY DEF CleanReturnIsWhole
    <2>1. limit \in Int /\ limit < MaxInt /\ pos \in Nat
      BY ParametersAssumption DEF Inv, TypeOK, NoOverflow
    <2>2. remaining = limit + 1 - pos /\ (remaining = 0 \/ pos = length)
      BY <2>1 DEF Inv, BudgetInv, StopInv
    <2>3. buffer = Bytes(0, pos) /\ Len(buffer) = pos
      BY <2>1, BytesType DEF Inv, NothingLost
    <2> QED BY <2>1, <2>2, <2>3 DEF Truncated
  <1> QED BY Invariance, <1>1, PTL

-----------------------------------------------------------------------------
\* A call starts as the promise does.
LEMMA RefineInit == NoOverflow /\ Init => Promise!Init
  BY ParametersAssumption, MaxIntAssumption
     DEF NoOverflow, Init, Promise!Init, Enters, Budget

\* Every iteration is a step of the promise: nothing while the loop runs, the
\* return when it ends.
LEMMA RefineStep == Inv /\ Inv' /\ [Next]_vars => [Promise!Next]_(Promise!vars)
  <1> SUFFICES ASSUME Inv, Inv', [Next]_vars
               PROVE  [Promise!Next]_(Promise!vars)
    OBVIOUS
  <1> DEFINE data == IF result = "reading" THEN <<>> ELSE buffer
  <1>1. CASE UNCHANGED vars
    BY <1>1 DEF vars, Promise!vars
  <1>2. CASE ReadChunk
    <2>1. PICK n \in 0 .. ReadSize(ChunkSize, remaining), e \in ReadErr :
            /\ SourceRead(n, e)
            /\ remaining' = remaining - n
            /\ result' = AfterRead(remaining - n, n, e)
      BY <1>2 DEF ReadChunk
    <2>2. result = "reading" /\ limit' = limit /\ length' = length
      BY <1>2 DEF ReadChunk
    <2>3. /\ limit \in Int /\ limit > 0 /\ limit < MaxInt
          /\ remaining = limit + 1 - pos /\ remaining > 0
          /\ pos \in Nat /\ length \in Nat
      BY <2>2, ParametersAssumption DEF Inv, TypeOK, BudgetInv
    <2>4. n \in Nat /\ n <= remaining
      BY <2>3, ParametersAssumption
         DEF ReadSize, AtMost, ChunkSize, Inv, TypeOK
    <2> DEFINE k == pos + n
    <2>5. k \in Nat /\ k <= length /\ k <= limit + 1 /\ (e = "EOF" => k = length)
      BY <2>1, <2>3, <2>4 DEF SourceRead
    <2>6. buffer' = Bytes(0, k) /\ result' \in Result
      BY <2>1 DEF SourceRead, Inv, TypeOK, NothingLost
    <2>7. CASE result' = "reading"
      BY <2>2, <2>7 DEF Promise!vars
    <2>8. CASE result' # "reading"
      <3>1. k \in 0 .. Promise!Allowance
        BY <2>3, <2>5 DEF Promise!Allowance
      <3>2. ASSUME result' = "nil" PROVE k = Promise!Allowance
        <4>1. k = length \/ k = limit + 1
          BY <2>1, <2>3, <2>4, <2>5, <3>2 DEF AfterRead, ReadErr
        <4> QED BY <2>3, <2>5, <4>1 DEF Promise!Allowance
      <3>3. ASSUME result' = "noprogress" PROVE k <= limit
        <4>1. n = 0
          BY <2>1, <3>3 DEF AfterRead
        <4> QED BY <2>3, <4>1
      <3>4. data' = [i \in 1 .. k |-> i]
        BY <2>5, <2>6, <2>8 DEF Bytes
      <3>5. Promise!Return(k, result')
        BY <2>2, <3>2, <3>3, <3>4 DEF Promise!Return
      <3>6. result' \in {"nil", "fail", "noprogress"}
        BY <2>6, <2>8 DEF Result
      <3> QED BY <3>1, <3>5, <3>6 DEF Promise!Next
    <2> QED BY <2>7, <2>8
  <1> QED BY <1>1, <1>2 DEF Next

\* readWithLimit implements the promise of a bounded read, for every chunk
\* size and every way the reader may answer, as long as no limit overflows.
THEOREM Implements == NoOverflow => (SafeSpec => Promise!SafeSpec)
  <1> SUFFICES ASSUME NoOverflow PROVE SafeSpec => Promise!SafeSpec
    OBVIOUS
  <1>1. Init => Promise!Init
    BY RefineInit
  <1> QED BY <1>1, RefineStep, Invariance, PTL DEF SafeSpec, Promise!SafeSpec

=============================================================================
