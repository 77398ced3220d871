------------------------------ MODULE ReadLoop ------------------------------
(***************************************************************************)
(* The pieces of the bounded read loop readWithLimit                       *)
(* (internal/core/sampling.go) that the specifications share: the integer  *)
(* arithmetic of its budget, the size of one read and the decision it      *)
(* takes after every read.                                                 *)
(*                                                                         *)
(* A byte of a body is identified with its offset, so a buffer is a        *)
(* sequence of offsets and a lost, repeated or reordered byte shows.       *)
(***************************************************************************)
EXTENDS Integers, Sequences

CONSTANT MaxInt      \* the largest int64 (2^63 - 1 in Go)

ASSUME MaxIntAssumption == MaxInt \in Nat \ {0}

\* What the err result of io.Reader.Read tells the loop.
ReadErr == {"nil", "EOF", "fail"}

\* "reading" while the loop runs, then the error that readWithLimit returns.
Result == {"reading", "nil", "fail", "noprogress"}

\* The bytes at offsets from+1 .. to of a stream.
Bytes(from, to) == [i \in 1 .. (to - from) |-> from + i]

AtMost(n, cap) == IF n > cap THEN cap ELSE n

Buggy_BudgetWithoutProbe(maxBytes) == maxBytes

\* remaining := maxBytes + 1, in two's complement.
Budget(maxBytes) == IF maxBytes = MaxInt THEN -(MaxInt + 1) ELSE maxBytes + 1

Buggy_IgnoresBudget(chunkSize, remaining) == chunkSize

\* The length of the slice handed to Read.
ReadSize(chunkSize, remaining) == AtMost(chunkSize, remaining)

Buggy_ErrorIsEnd(left, n, readErr) ==
    CASE readErr # "nil"       -> "nil"
      [] n = 0                 -> "noprogress"
      [] OTHER                 -> IF left > 0 THEN "reading" ELSE "nil"

\* After a read of n bytes that leaves a budget of left.
AfterRead(left, n, readErr) ==
    IF readErr = "EOF" THEN "nil"
    ELSE IF readErr = "fail" THEN "fail"
    ELSE IF n = 0 THEN "noprogress"
    ELSE IF left > 0 THEN "reading"
    ELSE "nil"

=============================================================================
