---------------------------- MODULE MCBodyReplay ----------------------------
(* Instances of BodyReplay: two nested middlewares, int64 in four bits.    *)
EXTENDS BodyReplay

MCMaxInt == 7
MCLimits == {1, 2, 4, MCMaxInt}
MCChunks == {1, 3}
MCLengths == 0 .. 4
MCHandlerSizes == {1, 3}
MCAfterFail == {"fail", "resume"}
MCShortBody == {"EOF"}

=============================================================================
