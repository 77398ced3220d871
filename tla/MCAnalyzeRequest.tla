-------------------------- MODULE MCAnalyzeRequest --------------------------
(* Instances of AnalyzeRequest.                                            *)
EXTENDS AnalyzeRequest

MCSizes == {0, 3, 5}
\* The largest integer is among the limits.
MCMaxInt == 7
MCMaxReads == {3, 7}
MCMaxDecodes == {4}
\* Two bytes of a sample, so that MaxAnalyzeBytes = 1 cuts it.
MCSampleSizes == {2}
MCHeaders == {<<>>, <<"gzip">>, <<"gzip", "gzip">>}
MCKinds == {"json", "form", "xml", "multipart", "text", "other", "none"}
MCEnabledSets == {{"fingerprint"}, {"charset"}, Modules}

Option(supported, form, multipart, knownHash, formatMetrics, maxAnalyze) ==
    [supported |-> supported, form |-> form, multipart |-> multipart,
     knownHash |-> knownHash, formatMetrics |-> formatMetrics, maxAnalyze |-> maxAnalyze]

MCOptions ==
    {Option(s, TRUE, m, m, ~m, 1) : s, m \in BOOLEAN}
      \cup {Option(TRUE, FALSE, TRUE, TRUE, TRUE, 5)}

=============================================================================
