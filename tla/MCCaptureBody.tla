--------------------------- MODULE MCCaptureBody ----------------------------
(* Instances of CaptureBody.                                               *)
EXTENDS CaptureBody

MCSizes == 0 .. 5
\* The largest integer is among the limits.
MCMaxInt == 7
MCMaxReads == {2, 4, 7}
MCMaxDecodes == {1, 3, 7}
MCSmallReads == {2, 4}
MCSmallDecodes == {1, 3}
MCSampleSizes == {1, 2, 3}
MCHeaders == {<<>>, <<"">>, <<"identity">>, <<"gzip">>, <<"deflate">>, <<"br">>,
              <<"gzip", "", "deflate">>, <<"deflate", "gzip">>, <<"br", "gzip">>, <<"gzip", "gzip">>}
MCTwoGzip == {<<"gzip", "gzip">>}

=============================================================================
