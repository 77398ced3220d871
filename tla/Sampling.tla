------------------------------ MODULE Sampling ------------------------------
(***************************************************************************)
(* buildSample (internal/core/sampling.go): which bytes of an observed     *)
(* body the analyzers get, as the sequence of their offsets.               *)
(***************************************************************************)
EXTENDS Integers, Sequences

Strategies == {"head", "tail", "head_tail"}

AtMost(n, cap) == IF n > cap THEN cap ELSE n

\* The offsets after from, up to to.
Offsets(from, to) == [i \in 1 .. (to - from) |-> from + i]

Buggy_RoundsTailUp(size, sampleBytes, strategy) ==
    IF sampleBytes >= size THEN Offsets(0, size)
    ELSE CASE strategy = "tail"      -> Offsets(size - sampleBytes, size)
           [] strategy = "head_tail" ->
                Offsets(0, (sampleBytes + 1) \div 2)
                  \o Offsets(size - (sampleBytes + 1) \div 2, size)
           [] strategy = "head"      -> Offsets(0, sampleBytes)

\* A sample of both ends gives the odd byte to the head.
BuildSample(size, sampleBytes, strategy) ==
    IF sampleBytes >= size THEN Offsets(0, size)
    ELSE CASE strategy = "tail"      -> Offsets(size - sampleBytes, size)
           [] strategy = "head_tail" ->
                Offsets(0, (sampleBytes + 1) \div 2)
                  \o Offsets(size - sampleBytes \div 2, size)
           [] strategy = "head"      -> Offsets(0, sampleBytes)

=============================================================================
