--------------------------- MODULE ReadWithLimit ----------------------------
(***************************************************************************)
(* readWithLimit (internal/core/sampling.go): read an io.Reader chunk by   *)
(* chunk until the end, an error, a read that makes no progress, or one    *)
(* byte past the limit.  The same loop reads the request body              *)
(* (readLimitedBody) and the output of a decompressor                      *)
(* (decodeContentEncodingLayer).                                           *)
(*                                                                         *)
(* The reader is the environment: a read returns any number of bytes up to *)
(* the size asked for, alone or together with io.EOF or another error.     *)
(***************************************************************************)
EXTENDS ReadLoop

CONSTANTS
  Limits,         \* the values of maxBytes considered
  Chunks,         \* the values of chunkSize considered
  Lengths,        \* the stream lengths considered
  DefaultChunk    \* defaultReadChunkSize, for chunkSize <= 0

ASSUME ParametersAssumption ==
    /\ Limits \subseteq Int
    /\ \A l \in Limits : l <= MaxInt
    /\ Chunks \subseteq Int
    /\ Lengths \subseteq Nat
    /\ DefaultChunk \in Nat \ {0}

VARIABLES
  limit, chunk, length,   \* the call's arguments, fixed
  pos,                    \* bytes taken out of the reader
  remaining,              \* the loop's budget
  buffer,                 \* the bytes kept
  result                  \* "reading", then the error returned

vars == <<limit, chunk, length, pos, remaining, buffer, result>>

ChunkSize == IF chunk <= 0 THEN DefaultChunk ELSE chunk

\* The loop condition.  limit <= 0 returns before the loop.
Enters(maxBytes) == maxBytes > 0 /\ Budget(maxBytes) > 0

Init ==
    /\ limit \in Limits
    /\ chunk \in Chunks
    /\ length \in Lengths
    /\ pos = 0
    /\ remaining = Budget(limit)
    /\ buffer = <<>>
    /\ result = IF Enters(limit) THEN "reading" ELSE "nil"

\* io.Reader.Read takes n bytes and reports e.
SourceRead(n, e) ==
    /\ pos + n <= length
    /\ e = "EOF" => pos + n = length
    /\ pos' = pos + n

\* The bytes buffer.Write gets: chunk[:n].
Buggy_WritesWholeChunk(n) == Bytes(pos, pos + ReadSize(ChunkSize, remaining))

Received(n) == Bytes(pos, pos + n)

\* One iteration of the loop.
ReadChunk ==
    /\ result = "reading"
    /\ \E n \in 0 .. ReadSize(ChunkSize, remaining), e \in ReadErr :
         /\ SourceRead(n, e)
         /\ buffer' = buffer \o Received(n)
         /\ remaining' = remaining - n
         /\ result' = AfterRead(remaining - n, n, e)
    /\ UNCHANGED <<limit, chunk, length>>

Next == ReadChunk

SafeSpec == Init /\ [][Next]_vars

\* The goroutine is scheduled and every Read returns: the loop has no other
\* way to wait.
Spec == SafeSpec /\ WF_vars(ReadChunk)

-----------------------------------------------------------------------------
\* The truncated result: int64(buffer.Len()) > maxBytes.
Buggy_TruncatedAtLimit == Len(buffer) >= limit

Truncated == Len(buffer) > limit

\* The values every variable takes.
TypeOK ==
    /\ limit \in Limits
    /\ chunk \in Chunks
    /\ length \in Lengths
    /\ pos \in 0 .. length
    /\ remaining \in Int
    /\ buffer \in Seq(1 .. length)
    /\ result \in Result

\* Every byte taken out of the reader is in the buffer, in order and once:
\* the replayed body is built from this buffer, so a byte missing here is a
\* byte the handler never sees.
NothingLost == buffer = Bytes(0, pos)

\* The loop never takes more than one byte past the limit, however large the
\* chunk is.
BoundedRead == limit > 0 => pos <= limit + 1

\* A return without error or truncation means the whole stream was read:
\* what Meta.Truncated tells the handler (README, body_truncated).
CleanReturnIsWhole ==
    limit > 0 /\ result = "nil" => Truncated \/ buffer = Bytes(0, length)

\* The loop keeps the promise of a bounded read.  Until it returns the caller
\* has nothing.
Promise == INSTANCE LimitedRead
             WITH data <- IF result = "reading" THEN <<>> ELSE buffer

ImplementsLimitedRead == Promise!Spec

=============================================================================
