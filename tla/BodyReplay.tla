----------------------------- MODULE BodyReplay -----------------------------
(***************************************************************************)
(* The request body of one request on its way through N nested middlewares *)
(* (Middleware or Wrap applied N times) to the handler.  Each middleware   *)
(* reads a bounded part of the body it was given and puts in its place a   *)
(* replayReadCloser: the bytes it consumed, then the rest of the body it   *)
(* was given (internal/core/sampling.go, captureBody).                     *)
(*                                                                         *)
(* Level k in 1 .. N is the k-th middleware from the outside and level     *)
(* N + 1 the handler.  The body level k reads is the stack of the replays  *)
(* of levels k-1, ..., 1 on top of the body net/http made, the wire.       *)
(***************************************************************************)
EXTENDS ReadLoop

CONSTANTS
  N,             \* the number of nested middlewares
  Limits,        \* the values of MaxReadBytes considered
  Chunks,        \* the values of StreamReadChunkSize considered
  Lengths,       \* the body lengths considered
  HandlerSizes,  \* the buffer sizes the handler reads with
  AfterFail      \* what the wire may do after an error: see WireRead

ASSUME ParametersAssumption ==
    /\ N \in Nat
    /\ Limits \subseteq Int
    /\ \A l \in Limits : l <= MaxInt
    /\ Chunks \subseteq Nat \ {0}
    /\ Lengths \subseteq Nat
    /\ HandlerSizes \subseteq Nat \ {0}
    /\ AfterFail \subseteq {"fail", "resume", "EOF"}

VARIABLES
  length, limit, chunk, afterFail,   \* fixed for a behaviour
  pos,         \* bytes taken off the wire
  wire,        \* "open", "failed", "ended" or "closed"
  active,      \* the level that runs
  buffer,      \* the bytes that level has read
  remaining,   \* the budget of its read loop
  prefix,      \* prefix[k]: the bytes level k's replay holds
  idx,         \* idx[k]: how many of them have been read again
  result,      \* result[k]: the error of level k's readLimitedBody
  handler      \* "reading", or what first stopped it: "ended", "failed", "closed"

params == <<length, limit, chunk, afterFail>>
vars == <<params, pos, wire, active, buffer, remaining, prefix, idx, result, handler>>

Level == 1 .. N

\* The loop of level k runs: readLimitedBody and readWithLimit return at once
\* for a limit <= 0, and the loop condition fails for a budget that wrapped.
Enters(k) == limit[k] > 0 /\ Budget(limit[k]) > 0

Init ==
    /\ length \in Lengths
    /\ limit \in [Level -> Limits]
    /\ chunk \in [Level -> Chunks]
    /\ afterFail \in AfterFail
    /\ pos = 0
    /\ wire = "open"
    /\ active = 1
    /\ buffer = <<>>
    /\ remaining = IF N > 0 THEN Budget(limit[1]) ELSE 0
    /\ prefix = [k \in Level |-> <<>>]
    /\ idx = [k \in Level |-> 0]
    /\ result = [k \in Level |-> "none"]
    /\ handler = "reading"

-----------------------------------------------------------------------------
\* The io.ReadCloser of net/http.  A read returns up to size bytes, alone or
\* with io.EOF or an error.  After io.EOF it keeps returning io.EOF, after
\* Close an error; after an error it returns the error again, or goes on (a
\* deadline that was extended), or returns io.EOF (a body shorter than its
\* Content-Length returns io.ErrUnexpectedEOF once, then io.EOF).
WireRead(size, n, e) ==
    \/ /\ wire \in IF afterFail = "resume" THEN {"open", "failed"} ELSE {"open"}
       /\ n <= size
       /\ pos + n <= length
       /\ e = "EOF" => pos + n = length
       /\ pos' = pos + n
       /\ wire' = CASE e = "EOF"  -> "ended"
                    [] e = "fail" -> "failed"
                    [] OTHER      -> "open"
    \/ /\ n = 0
       /\ \/ wire = "ended" /\ e = "EOF"
          \/ wire = "closed" /\ e = "fail"
          \/ wire = "failed" /\ afterFail = "fail" /\ e = "fail"
          \/ wire = "failed" /\ afterFail = "EOF" /\ e = "EOF"
       /\ UNCHANGED <<pos, wire>>

\* The levels below the active one whose replay still holds unread bytes.
Live == {j \in Level : j < active /\ idx[j] < Len(prefix[j])}

\* The replay the active level reads from: the innermost one that is live.
Buggy_IsTop(j) == j \in Live /\ \A i \in Live : j <= i

IsTop(j) == j \in Live /\ \A i \in Live : i <= j

Buggy_WholeChunk(n) ==
    Bytes(pos, pos + IF active \in Level THEN chunk[active] ELSE n)

\* The n bytes a read returns: from that replay, or else from the wire.
Got(n) == IF Live = {} THEN Bytes(pos, pos + n)
          ELSE LET j == CHOOSE j \in Level : IsTop(j)
               IN  SubSeq(prefix[j], idx[j] + 1, idx[j] + n)

\* r.Body.Read with a slice of the given size: io.MultiReader over the bytes
\* consumed and the body below.  A bytes.Reader fills the slice as far as it
\* can and its io.EOF is hidden; the body below is asked once every replay
\* above it is used up.
ReadBody(size, n, e) ==
    \/ \E j \in Level :
         /\ IsTop(j)
         /\ n = AtMost(size, Len(prefix[j]) - idx[j])
         /\ e = "nil"
         /\ idx' = [idx EXCEPT ![j] = @ + n]
         /\ UNCHANGED <<pos, wire>>
    \/ /\ Live = {}
       /\ WireRead(size, n, e)
       /\ UNCHANGED idx

-----------------------------------------------------------------------------
\* The bytes a middleware puts back in front of the rest of the body.
Buggy_ReplaysObserved(k, consumed) ==
    SubSeq(consumed, 1, AtMost(Len(consumed), limit[k]))

Replayed(k, consumed) == consumed

\* Level active is done with the body: it installs its replay and calls the
\* next level.
Install(consumed, r) ==
    /\ prefix' = [prefix EXCEPT ![active] = Replayed(active, consumed)]
    /\ result' = [result EXCEPT ![active] = r]
    /\ active' = active + 1
    /\ buffer' = <<>>
    /\ remaining' = IF active < N THEN Budget(limit[active + 1]) ELSE 0
    /\ UNCHANGED handler

\* One iteration of the read loop of a middleware, and what follows it when
\* it is the last.
CaptureRead ==
    /\ active <= N
    /\ Enters(active)
    /\ \E n \in 0 .. ReadSize(chunk[active], remaining), e \in ReadErr :
         LET left == remaining - n
             r    == AfterRead(left, n, e)
         IN  /\ ReadBody(ReadSize(chunk[active], remaining), n, e)
             /\ IF r = "reading"
                THEN /\ buffer' = buffer \o Got(n)
                     /\ remaining' = left
                     /\ UNCHANGED <<active, prefix, result, handler>>
                ELSE Install(buffer \o Got(n), r)
    /\ UNCHANGED params

\* captureBody replaces the body without reading it: MaxReadBytes does not
\* let the loop run.
CaptureNothing ==
    /\ active <= N
    /\ ~Enters(active)
    /\ Install(<<>>, "nil")
    /\ UNCHANGED <<params, pos, wire, idx>>

\* A middleware that leaves the body alone: no analyzer needs it, there is
\* none, or its method or content type is not analysed.
Skip ==
    /\ active <= N
    /\ buffer = <<>>
    /\ active' = active + 1
    /\ remaining' = IF active < N THEN Budget(limit[active + 1]) ELSE 0
    /\ result' = [result EXCEPT ![active] = "skipped"]
    /\ UNCHANGED <<params, pos, wire, buffer, prefix, idx, handler>>

\* The first read that does not succeed decides how the handler's reading is
\* remembered.
Standing(e) ==
    IF handler # "reading" \/ e = "nil" THEN handler
    ELSE IF e = "EOF" THEN "ended"
    ELSE "failed"

\* The handler reads.  A handler that got an error, or closed the body, may
\* try again.
HandlerRead ==
    /\ active = N + 1
    /\ handler # "ended"
    /\ \E size \in HandlerSizes : \E n \in 0 .. size, e \in ReadErr :
         /\ ReadBody(size, n, e)
         /\ buffer' = buffer \o Got(n)
         /\ handler' = Standing(e)
    /\ UNCHANGED <<params, active, remaining, prefix, result>>

\* replayReadCloser.Close, through every level down to the wire.
HandlerClose ==
    /\ active = N + 1
    /\ wire' = "closed"
    /\ handler' = IF handler = "reading" THEN "closed" ELSE handler
    /\ UNCHANGED <<params, pos, active, buffer, remaining, prefix, idx, result>>

Next == CaptureRead \/ CaptureNothing \/ Skip \/ HandlerRead \/ HandlerClose

\* The goroutine of the request is scheduled, no read of the wire blocks for
\* ever, and this handler reads until something stops it.
Fairness ==
    /\ WF_vars(CaptureRead \/ CaptureNothing)
    /\ WF_vars(HandlerRead)

SafeSpec == Init /\ [][Next]_vars

Spec == SafeSpec /\ Fairness

-----------------------------------------------------------------------------
\* The values every variable takes.
TypeOK ==
    /\ length \in Lengths
    /\ limit \in [Level -> Limits]
    /\ chunk \in [Level -> Chunks]
    /\ afterFail \in AfterFail
    /\ pos \in 0 .. length
    /\ wire \in {"open", "failed", "ended", "closed"}
    /\ active \in 1 .. N + 1
    /\ buffer \in Seq(1 .. length)
    /\ remaining \in Int
    /\ prefix \in [Level -> Seq(1 .. length)]
    /\ idx \in [Level -> Nat]
    /\ result \in [Level -> Result \cup {"none", "skipped"}]
    /\ handler \in {"reading", "failed", "ended", "closed"}

\* Whoever runs, a middleware or the handler, has got the first bytes of the
\* request, in order and once each, whatever the levels outside it read
\* before: README, "restores the request body for downstream handlers".
InOrder == buffer = Bytes(0, Len(buffer))

\* A handler that meets io.EOF before any error has got the whole body: a body
\* cut short on the wire never passes for a complete one.
CleanEndIsWhole == handler = "ended" => Len(buffer) = length

\* Nested middlewares do not add up their reads: until the handler reads on
\* its own account the wire has given at most one byte more than the largest
\* limit, however many levels there are.
BoundedReadAhead ==
    pos > 0 => \/ \E k \in Level : pos <= limit[k] + 1
               \/ active = N + 1 /\ pos <= Len(buffer)

\* A middleware inside another one with at least its limit never depends on
\* the wire again: if the outer one read cleanly, so does the inner one, and
\* it observes as much as its own limit allows.
InnerCaptureAgrees ==
    \A j, k \in Level :
      /\ j < k /\ k < active
      /\ limit[k] <= limit[j]
      /\ Enters(j) /\ Enters(k)
      /\ result[j] = "nil" /\ result[k] # "skipped"
      => result[k] = "nil" /\ Len(prefix[k]) = AtMost(length, limit[k] + 1)

\* The middlewares with their replays are indistinguishable, to the handler,
\* from the bare body.
Direct == INSTANCE HandlerBody
            WITH received <- IF active = N + 1 THEN buffer ELSE <<>>

ImplementsHandlerBody == Direct!Spec

=============================================================================
