-------------------------- MODULE MCReadWithLimit ---------------------------
(* Instances of ReadWithLimit: int64 is narrowed to four bits.             *)
EXTENDS ReadWithLimit

MCMaxInt == 7
MCLimits == {0, 1, 2, 3, 4, 6}
MCOverflowLimits == {MCMaxInt}
MCChunks == {0, 1, 2, 3, 5}
MCLengths == 0 .. 6
MCDefaultChunk == 4

=============================================================================
