---------------------------- MODULE LimitedRead -----------------------------
(***************************************************************************)
(* What a bounded read of a body promises, with no chunks and no loop: in  *)
(* one step the caller gets the first bytes of the stream, at most one     *)
(* more than the limit, and a clean return means that nothing short of the *)
(* end of the stream or the limit stopped it.                              *)
(***************************************************************************)
EXTENDS Integers, Sequences

VARIABLES
  limit,    \* maxBytes
  length,   \* the number of bytes the stream holds
  data,     \* the bytes returned
  result    \* "reading", then the error returned

vars == <<limit, length, data, result>>

\* The most a read may take: the limit and the one byte that reveals there is
\* more.
Allowance ==
    IF limit <= 0 THEN 0
    ELSE IF length > limit + 1 THEN limit + 1 ELSE length

\* The call returns its first k bytes and the error r.
Return(k, r) ==
    /\ result = "reading"
    /\ r = "nil" => k = Allowance
    /\ r = "noprogress" => k <= limit
    /\ data' = [i \in 1 .. k |-> i]
    /\ result' = r
    /\ UNCHANGED <<limit, length>>

\* limit <= 0 returns before reading anything.
Init ==
    /\ limit \in Int
    /\ length \in Nat
    /\ data = <<>>
    /\ result = IF limit <= 0 THEN "nil" ELSE "reading"

Next == \E k \in 0 .. Allowance, r \in {"nil", "fail", "noprogress"} : Return(k, r)

SafeSpec == Init /\ [][Next]_vars

Spec == SafeSpec /\ WF_vars(Next)

=============================================================================
