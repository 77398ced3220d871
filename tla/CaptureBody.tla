---------------------------- MODULE CaptureBody -----------------------------
(***************************************************************************)
(* captureBody (internal/core/sampling.go) for one request: the reasons to *)
(* leave the body alone, the bounded read, the decoding of its content     *)
(* codings layer by layer, the sample, and the warnings.                   *)
(*                                                                         *)
(* A piece of data is a record: the codings it still carries (the last is  *)
(* the outermost), its size, and whether it was cut short.  The sizes are  *)
(* what the limits compare; the bytes themselves do not matter here.       *)
(* Reads are the one-step reads of LimitedRead, which ReadWithLimit is     *)
(* shown to implement for every limit but the largest integer, with which  *)
(* the loop is not entered; gzip, zlib and flate are the environment.      *)
(***************************************************************************)
EXTENDS Sampling, SequencesExt

CONSTANTS
  MaxInt,         \* the largest int64 (2^63 - 1 in Go)
  Sizes,          \* the sizes data can have
  MaxReads,       \* the values of MaxReadBytes considered
  MaxDecodes,     \* the values of MaxDecompressedBytes considered
  SampleSizes,    \* the values of SampleBytes considered
  Headers         \* the Content-Encoding headers considered, split at commas

\* The integer arithmetic of the read loop.
Loop == INSTANCE ReadLoop

Tokens == {"gzip", "deflate", "br", "identity", ""}

ASSUME ParametersAssumption ==
    /\ MaxInt \in Nat \ {0}
    /\ Sizes \subseteq Nat
    /\ MaxReads \cup MaxDecodes \cup SampleSizes \subseteq Nat \ {0}
    /\ \A limit \in MaxReads \cup MaxDecodes : limit <= MaxInt
    /\ Headers \subseteq Seq(Tokens)

\* The codings of a header: empty and identity entries do not count.
ParseContentEncodings(header) ==
    LET kept[i \in 0 .. Len(header)] ==
          IF i = 0 THEN <<>>
          ELSE IF header[i] \in {"", "identity"} THEN kept[i - 1]
          ELSE Append(kept[i - 1], header[i])
    IN  kept[Len(header)]

VARIABLES
  req,        \* the request: body, method, type, header and what the body is,
              \* gzip data of several members included
  cfg,        \* the normalised BodyConfig
  phase,      \* "start", "decode", "finish", "done"
  wire,       \* wireObserved
  data,       \* current, the data decoded so far, then sample.observed
  todo,       \* the codings decodeObservedBody still has to undo
  cut,        \* the truncated result of the last layer decoded
  sample,     \* the bodySample fields set at the end
  warnings    \* the warning codes, in order

vars == <<req, cfg, phase, wire, data, todo, cut, sample, warnings>>

NoData == [codings |-> <<>>, size |-> 0, whole |-> FALSE]
NoSample == [analyzed |-> FALSE, truncated |-> FALSE, failed |-> FALSE,
             decoded |-> FALSE, window |-> <<>>, sampled |-> FALSE]

WarningCodes ==
    {"body_skipped_empty", "body_skipped_method", "body_skipped_content_type",
     "body_decompression_failed", "body_content_encoding_unsupported",
     "body_decompressed_truncated", "body_encoded_not_decoded",
     "body_truncated", "body_read_error"}

\* The codings a body really carries are those its header names, or it is
\* mislabelled and carries none.
Init ==
    /\ req \in [body: {"none", "present"}, method: BOOLEAN, type: BOOLEAN,
                header: Headers, honest: BOOLEAN, members: BOOLEAN, length: Sizes]
    /\ req.members => req.honest /\ Contains(req.header, "gzip")
    /\ cfg \in [maxRead: MaxReads, maxDecode: MaxDecodes, compressed: BOOLEAN,
                sampleBytes: SampleSizes, strategy: Strategies]
    /\ cfg.sampleBytes <= cfg.maxRead
    /\ phase = "start"
    /\ wire = NoData /\ data = NoData /\ todo = <<>> /\ cut = FALSE
    /\ sample = NoSample
    /\ warnings = <<>>

Warn(code) == warnings' = Append(warnings, code)

-----------------------------------------------------------------------------
\* captureBody leaves the body alone, and says why.
SkipBody ==
    /\ phase = "start"
    /\ \/ req.body = "none" /\ Warn("body_skipped_empty")
       \/ req.body # "none" /\ ~req.method /\ Warn("body_skipped_method")
       \/ req.body # "none" /\ req.method /\ ~req.type /\ Warn("body_skipped_content_type")
    /\ phase' = "done"
    /\ UNCHANGED <<req, cfg, wire, data, todo, cut, sample>>

\* The largest limit leaves the loop a negative budget: it never reads.
NeverReads(limit) == Loop!Budget(limit) <= 0

\* The outcomes of readWithLimit on a source that holds size bytes and may fail
\* before its end: how many bytes it returns and whether it failed.
LimitedReads(size, limit) ==
    IF NeverReads(limit)
    THEN {[n |-> 0, failed |-> FALSE]}
    ELSE {[n |-> AtMost(size, Loop!Budget(limit)), failed |-> FALSE]}
           \cup [n : 0 .. AtMost(size, Loop!Budget(limit)), failed : {TRUE}]

\* The bytes kept for the analysis: consumed[:maxReadBytes] when there are more.
Buggy_KeepsProbe(n, limit) == n

Observed(n, limit) == AtMost(n, limit)

Buggy_TruncatedPastProbe(n, limit) == n > limit + 1

\* The truncated result of a read of n bytes.
Truncated(n, limit) == n > limit

\* readLimitedBody, and the fields captureBody sets from it.
ReadLimitedBody ==
    /\ phase = "start"
    /\ req.body # "none" /\ req.method /\ req.type
    /\ \E r \in LimitedReads(req.length, cfg.maxRead) :
         LET observed ==
               [codings |-> IF req.honest THEN ParseContentEncodings(req.header) ELSE <<>>,
                size    |-> Observed(r.n, cfg.maxRead),
                whole   |-> Observed(r.n, cfg.maxRead) = req.length]
         IN  /\ wire' = observed
             /\ data' = observed
             /\ sample' = [sample EXCEPT !.analyzed = TRUE,
                                         !.truncated = Truncated(r.n, cfg.maxRead),
                                         !.failed = r.failed]
    /\ todo' = IF cfg.compressed THEN ParseContentEncodings(req.header) ELSE <<>>
    /\ phase' = IF todo' = <<>> THEN "finish" ELSE "decode"
    /\ UNCHANGED <<req, cfg, cut, warnings>>

-----------------------------------------------------------------------------
\* What undoing one coding of a piece of data may give: how many bytes come
\* out, up to one past the limit, whether they are all there are, or a failure.
\* Data that is whole decodes to its end.  Data that was cut short fails at the
\* cut, unless the limit comes first or, for gzip, the cut falls between two
\* members.  Mislabelled data fails; flate may also read it.  No
\* coding has an empty form.  With a limit that never reads only the header of
\* gzip data is looked at, and what opens gives no bytes and no error.
LayerOutcomes(d, coding, limit) ==
    LET matches == d.codings # <<>> /\ Last(d.codings) = coding
        failure == {[n |-> 0, whole |-> FALSE, failed |-> TRUE]}
        clean(sizes, all) ==
          {[n |-> AtMost(s, Loop!Budget(limit)), whole |-> all /\ s <= limit,
            failed |-> FALSE] : s \in sizes}
        opened == {[n |-> 0, whole |-> w, failed |-> FALSE] : w \in {FALSE, matches /\ d.whole}}
    IN  IF coding \notin {"gzip", "deflate"} THEN failure
        ELSE IF NeverReads(limit) /\ coding = "deflate" THEN opened
        ELSE IF d.size = 0 THEN failure
        ELSE IF NeverReads(limit) THEN failure \cup IF matches THEN opened ELSE {}
        ELSE IF matches /\ d.whole THEN failure \cup clean(Sizes, TRUE)
        ELSE IF coding = "deflate" /\ ~matches THEN failure \cup clean(Sizes, FALSE)
        ELSE IF coding = "gzip" /\ matches /\ req.members
             THEN failure \cup clean(Sizes, FALSE)
        ELSE IF matches THEN failure \cup clean({limit + 1}, FALSE)
        ELSE failure

Buggy_KeepsLastLayer ==
    /\ phase = "decode"
    /\ \E o \in LayerOutcomes(data, Last(todo), cfg.maxDecode) : o.failed
    /\ Warn("body_decompression_failed")
    /\ todo' = <<>>
    /\ phase' = "finish"
    /\ UNCHANGED <<req, cfg, wire, data, cut, sample>>

\* decodeObservedBody gives up: it reports every error as one of a coding that
\* was applied, so captureBody always says body_decompression_failed.
DecodingFails ==
    /\ phase = "decode"
    /\ \E o \in LayerOutcomes(data, Last(todo), cfg.maxDecode) : o.failed
    /\ Warn("body_decompression_failed")
    /\ data' = wire
    /\ todo' = <<>>
    /\ phase' = "finish"
    /\ UNCHANGED <<req, cfg, wire, cut, sample>>

\* decodeContentEncodingLayer for the outermost coding that is left.  After the
\* last one captureBody takes the result for the observed body.
DecodeLayer ==
    /\ phase = "decode"
    /\ \E o \in LayerOutcomes(data, Last(todo), cfg.maxDecode) :
         /\ ~o.failed
         /\ data' = [codings |-> IF data.codings = <<>> THEN <<>> ELSE Front(data.codings),
                     size    |-> Observed(o.n, cfg.maxDecode),
                     whole   |-> o.whole]
         /\ cut' = Truncated(o.n, cfg.maxDecode)
    /\ todo' = Front(todo)
    /\ IF todo' = <<>>
       THEN /\ sample' = [sample EXCEPT !.decoded = TRUE]
            /\ IF cut' THEN Warn("body_decompressed_truncated") ELSE UNCHANGED warnings
            /\ phase' = "finish"
       ELSE UNCHANGED <<sample, warnings, phase>>
    /\ UNCHANGED <<req, cfg, wire>>

-----------------------------------------------------------------------------
HasActiveContentEncoding == ParseContentEncodings(req.header) # <<>>

Buggy_NeedsDecoding == sample.decoded

IsDecodedForStructuredAnalysis == ~HasActiveContentEncoding \/ sample.decoded

Buggy_SampledOfWire == wire.size

\* The bytes the sample is taken of: first those of the wire, and again, in
\* their place, those of the decoded body.
SampledSize == IF sample.decoded THEN data.size ELSE wire.size

\* The rest of captureBody: the sample, and the warnings about what was read.
Finish ==
    /\ phase = "finish"
    /\ LET window == BuildSample(SampledSize, cfg.sampleBytes, cfg.strategy)
           If(cond, code) == IF cond THEN <<code>> ELSE <<>>
       IN  /\ sample' = [sample EXCEPT !.window = window,
                                       !.sampled = cfg.sampleBytes < SampledSize]
           /\ warnings' = warnings
                \o If(HasActiveContentEncoding /\ ~sample.decoded, "body_encoded_not_decoded")
                \o If(sample.truncated, "body_truncated")
                \o If(sample.failed, "body_read_error")
    /\ phase' = "done"
    /\ UNCHANGED <<req, cfg, wire, data, todo, cut>>

Next == SkipBody \/ ReadLimitedBody \/ DecodingFails \/ DecodeLayer \/ Finish

Spec == Init /\ [][Next]_vars

-----------------------------------------------------------------------------
Warned(code) == \E i \in DOMAIN warnings : warnings[i] = code

SkipCodes == {"body_skipped_empty", "body_skipped_method", "body_skipped_content_type"}

\* The values every variable takes.
TypeOK ==
    /\ phase \in {"start", "decode", "finish", "done"}
    /\ wire \in [codings: Seq(Tokens), size: 0 .. cfg.maxRead, whole: BOOLEAN]
    /\ data \in [codings: Seq(Tokens), size: Nat, whole: BOOLEAN]
    /\ data.size <= IF cfg.compressed /\ cfg.maxDecode > cfg.maxRead
                    THEN cfg.maxDecode ELSE cfg.maxRead
    /\ todo \in Seq(Tokens)
    /\ cut \in BOOLEAN
    /\ sample \in [analyzed: BOOLEAN, truncated: BOOLEAN, failed: BOOLEAN,
                   decoded: BOOLEAN, window: Seq(Nat), sampled: BOOLEAN]
    /\ warnings \in Seq(WarningCodes)
    /\ IsInjective(warnings)

\* The profile never leaves a missing analysis unexplained: a body that was
\* left alone has exactly one warning, the reason, and one that was captured
\* has none of those, and says body_encoded_not_decoded exactly when the
\* structured analyzers will not look at it (README, "Explicit skip and
\* downgrade warnings").
EveryAbsenceExplained ==
    phase = "done" =>
      IF sample.analyzed
      THEN /\ \A code \in SkipCodes : ~Warned(code)
           /\ Warned("body_encoded_not_decoded") <=> ~IsDecodedForStructuredAnalysis
      ELSE Len(warnings) = 1 /\ warnings[1] \in SkipCodes

\* The structured analyzers work on a body with no coding left that is either
\* the whole body the client sent or marked by a warning as cut short.
CompleteOrFlagged ==
    phase = "done" /\ sample.analyzed /\ IsDecodedForStructuredAnalysis /\ req.honest =>
      /\ data.codings = <<>>
      /\ \/ data.whole
         \/ \E code \in {"body_truncated", "body_read_error", "body_decompressed_truncated"} :
              Warned(code)

\* The header names one coding at most.
OneLayer == ParseContentEncodings(req.header) \in {<<>>} \cup {<<t>> : t \in Tokens}

\* The read loop is entered with every limit in use.
LimitsFit == cfg.maxRead < MaxInt /\ (cfg.compressed => cfg.maxDecode < MaxInt)

\* With a single coding that holds whatever the members of gzip data, and with
\* several as long as gzip data has one member: only then does the flag of an
\* inner layer not matter.  The limits are any but the largest integer, with
\* which readWithLimit returns nothing and flags nothing.
OneLayerCompleteOrFlagged ==
    LimitsFit /\ (OneLayer \/ ~req.members) => CompleteOrFlagged

\* Decoding is all or nothing: when a layer fails, however many were undone
\* before it, the analyzers get the bytes of the wire, and never those of a
\* layer in between.
DecodesAllOrNothing ==
    phase = "done" /\ sample.analyzed =>
      IF sample.decoded
      THEN ~Warned("body_decompression_failed") /\ (req.honest => data.codings = <<>>)
      ELSE data = wire

\* The sample is a run of distinct bytes of the observed body in their order,
\* as many as SampleBytes allows; it is marked as a sample exactly when
\* something was left out, and one taken at both ends holds both ends.
SampleWithinWindow ==
    phase = "done" /\ sample.analyzed =>
      /\ \A i \in DOMAIN sample.window : sample.window[i] \in 1 .. data.size
      /\ \A i \in 2 .. Len(sample.window) : sample.window[i - 1] < sample.window[i]
      /\ Len(sample.window) = AtMost(data.size, cfg.sampleBytes)
      /\ sample.sampled <=> Len(sample.window) < data.size
      /\ sample.sampled /\ cfg.strategy = "head_tail" /\ cfg.sampleBytes > 1 =>
           {1, data.size} \subseteq {sample.window[i] : i \in DOMAIN sample.window}

=============================================================================
