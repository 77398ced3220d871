---------------------------- MODULE HandlerBody -----------------------------
(***************************************************************************)
(* What an http.Handler may rely on when it reads r.Body with no           *)
(* middleware around it: the bytes of the request in order and once each,  *)
(* io.EOF only after the last of them, an error in any other case, and no  *)
(* promise about reads after Close.                                        *)
(***************************************************************************)
EXTENDS Integers, Sequences

VARIABLES
  length,     \* the number of bytes the client declared
  received,   \* the bytes the handler has got
  handler     \* "reading", or what first stopped it: "ended", "failed", "closed"

vars == <<length, received, handler>>

Stand == {"reading", "ended", "failed", "closed"}

Init ==
    /\ length \in Nat
    /\ received = <<>>
    /\ handler = "reading"

\* A read returns the next bytes.  The first one that does not succeed decides
\* how the reading is remembered; after it a handler may still try again.
Read(n, h) ==
    /\ handler # "ended"
    /\ Len(received) + n <= length
    /\ handler # "reading" => h = handler
    /\ h = "ended" => Len(received) + n = length
    /\ received' = [i \in 1 .. Len(received) + n |-> i]
    /\ handler' = h
    /\ UNCHANGED length

Close ==
    /\ handler = "reading"
    /\ handler' = "closed"
    /\ UNCHANGED <<length, received>>

Next ==
    \/ \E n \in 0 .. length, h \in Stand : Read(n, h)
    \/ Close

SafeSpec == Init /\ [][Next]_vars

\* A handler that goes on reading comes to the end, an error or its Close.
Spec == SafeSpec /\ <>(handler # "reading")

=============================================================================
