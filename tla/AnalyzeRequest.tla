--------------------------- MODULE AnalyzeRequest ---------------------------
(***************************************************************************)
(* analyzeRequest and Middleware (internal/core/middleware.go): one        *)
(* request through the fingerprint, the one capture of its body that all   *)
(* body analyzers share, the three body analyzers in their order, and the  *)
(* call of the next handler with the profile in the context.               *)
(*                                                                         *)
(* The capture is CaptureBody, step by step.  What an analyzer computes    *)
(* from the bytes is a nondeterministic choice; whether it runs, on which  *)
(* bytes, whether it leaves a result and what it warns of is modelled.     *)
(***************************************************************************)
EXTENDS Integers, Sequences, SequencesExt

CONSTANTS
  MaxInt, Sizes, MaxReads, MaxDecodes, SampleSizes, Headers,   \* CaptureBody
  Kinds,             \* the classes of content types considered
  EnabledSets,       \* the sets of modules a configuration may enable
  Options            \* the other settings considered: see opts

Modules == {"fingerprint", "entropy", "complexity", "charset"}
AllKinds == {"json", "form", "xml", "multipart", "text", "other", "none"}

ASSUME PipelineAssumption ==
    /\ EnabledSets \subseteq SUBSET Modules
    /\ Kinds \subseteq AllKinds
    /\ Options \subseteq [supported: BOOLEAN, form: BOOLEAN, multipart: BOOLEAN,
                          knownHash: BOOLEAN, formatMetrics: BOOLEAN,
                          maxAnalyze: Nat \ {0}]

VARIABLES
  req, cfg, phase, wire, data, todo, cut, sample, warnings,   \* CaptureBody
  kind,        \* the class of the content type
  parses,      \* whether url.ParseQuery accepts the bytes, when they are a form
  enabled,     \* the modules enabled
  opts,        \* whether complexity lists the content type, EnableFormAnalysis,
               \* EnableMultipartMeta, whether the hash algorithm is known,
               \* EnableFormatSpecificMetrics and Charset.MaxAnalyzeBytes
  step,        \* what analyzeRequest does next
  meta,        \* the fields of MetaInfo the capture sets
  fingerprint, entropy, complexity, charset   \* the results

capture == <<req, cfg, phase, wire, data, todo, cut, sample>>
config == <<kind, parses, enabled, opts>>
results == <<fingerprint, entropy, complexity, charset>>
vars == <<capture, warnings, config, step, meta, results>>

Body == INSTANCE CaptureBody

ASSUME CaptureAssumption == Body!ParametersAssumption

NoMeta == [observed |-> 0, sampled |-> FALSE, sampleBytes |-> 0, truncated |-> FALSE]
NoEntropy == [present |-> FALSE, sampled |-> 0, total |-> 0]

\* normalizeConfig puts multipart/form-data on both lists of content types
\* when multipart metadata is enabled; a missing type matches no list.
Init ==
    /\ Body!Init
    /\ kind \in Kinds
    /\ parses \in BOOLEAN /\ (kind # "form" => parses)
    /\ enabled \in EnabledSets
    /\ opts \in Options
    /\ kind = "none" => ~req.type /\ ~opts.supported
    /\ kind = "multipart" /\ opts.multipart => req.type /\ opts.supported
    /\ step = "fingerprint"
    /\ meta = NoMeta
    /\ fingerprint = "nil"
    /\ entropy = NoEntropy
    /\ complexity = "nil"
    /\ charset = "nil"

\* What an analyzer says: nothing or one warning.
Say(code) == warnings' = IF code = "none" THEN warnings ELSE Append(warnings, code)

-----------------------------------------------------------------------------
Buggy_NeedsBody == enabled \cap {"entropy", "complexity"} # {}

\* cfg.EnableEntropy || cfg.EnableComplexity || cfg.EnableCharset
NeedsBody == enabled \cap {"entropy", "complexity", "charset"} # {}

\* The fingerprint, and the early return when no analyzer needs the body.
AnalyzeFingerprint ==
    /\ step = "fingerprint"
    /\ fingerprint' = IF "fingerprint" \in enabled THEN "set" ELSE "nil"
    /\ Say(IF "fingerprint" \in enabled /\ ~opts.knownHash
           THEN "fingerprint_hash_algorithm_fallback" ELSE "none")
    /\ step' = IF NeedsBody THEN "capture" ELSE "serve"
    /\ UNCHANGED <<capture, config, meta, entropy, complexity, charset>>

\* captureBody, one step at a time.
CaptureStep ==
    /\ step = "capture"
    /\ Body!Next
    /\ UNCHANGED <<config, step, meta, results>>

Buggy_MetaOfDecoded ==
    [observed |-> data.size, sampled |-> sample.sampled,
     sampleBytes |-> Len(sample.window), truncated |-> sample.truncated]

Buggy_SampledOfWire ==
    [observed |-> wire.size, sampled |-> cfg.sampleBytes < wire.size,
     sampleBytes |-> Len(sample.window), truncated |-> sample.truncated]

\* The fields of MetaInfo filled from the bodySample.
MetaOfCapture ==
    [observed |-> wire.size, sampled |-> sample.sampled,
     sampleBytes |-> Len(sample.window), truncated |-> sample.truncated]

\* captureBody has returned.
RecordCapture ==
    /\ step = "capture"
    /\ phase = "done"
    /\ meta' = MetaOfCapture
    /\ step' = "entropy"
    /\ UNCHANGED <<capture, warnings, config, results>>

\* analyzeEntropy works on whatever was captured, encoded or not.
AnalyzeEntropy ==
    /\ step = "entropy"
    /\ entropy' = IF "entropy" \in enabled /\ sample.analyzed
                  THEN [present |-> TRUE, sampled |-> Len(sample.window), total |-> data.size]
                  ELSE NoEntropy
    /\ step' = "complexity"
    /\ UNCHANGED <<capture, warnings, config, meta, fingerprint, complexity, charset>>

-----------------------------------------------------------------------------
Outcome(result, code) == [result |-> result, code |-> code]

JSONOutcomes ==
    {Outcome("full", "none"), Outcome("partial", "complexity_limit_exceeded"),
     Outcome("nil", "complexity_parse_failed")}

Buggy_GivesUpCutForms ==
    {IF parses /\ ~sample.truncated THEN Outcome("full", "none") ELSE Outcome("nil", "none")}

\* A form that does not parse leaves nothing behind.
FormOutcomes == {IF parses THEN Outcome("full", "none") ELSE Outcome("nil", "none")}

XMLOutcomes == JSONOutcomes \cup {Outcome("partial", "complexity_parse_failed")}

MultipartOutcomes ==
    {Outcome("full", "none"), Outcome("partial", "complexity_parse_failed"),
     Outcome("nil", "complexity_parse_failed")}

Buggy_AnalyzesEncoded == sample.analyzed /\ data.size > 0 /\ opts.supported

\* analyzeComplexity parses only data with no coding left, of a listed type.
HasStructure ==
    /\ sample.analyzed /\ data.size > 0
    /\ Body!IsDecodedForStructuredAnalysis
    /\ opts.supported

\* Whether the switch of analyzeComplexity has a case for the content type.
Dispatched ==
    \/ kind \in {"json", "xml"}
    \/ kind = "form" /\ opts.form
    \/ kind = "multipart" /\ opts.multipart

ComplexityOutcomes ==
    IF ~HasStructure \/ ~Dispatched THEN {Outcome("nil", "none")}
    ELSE CASE kind = "json"      -> JSONOutcomes
           [] kind = "form"      -> FormOutcomes
           [] kind = "xml"       -> XMLOutcomes
           [] kind = "multipart" -> MultipartOutcomes

AnalyzeComplexity ==
    /\ step = "complexity"
    /\ \E o \in IF "complexity" \in enabled THEN ComplexityOutcomes
                ELSE {Outcome("nil", "none")} :
         complexity' = o.result /\ Say(o.code)
    /\ step' = "charset"
    /\ UNCHANGED <<capture, config, meta, fingerprint, entropy, charset>>

-----------------------------------------------------------------------------
\* How many bytes of the sample the charset analysis may look at: a cut at
\* MaxAnalyzeBytes moves back over a rune it would split, up to three bytes.
AnalyzedLengths ==
    LET n == Len(sample.window)
    IN  IF n <= opts.maxAnalyze THEN {n}
        ELSE {m \in opts.maxAnalyze - 3 .. opts.maxAnalyze : m >= 0}

IsText == kind \in {"text", "json", "form", "xml"}

\* analyzeFormatTextMetrics on those bytes.
FormatOutcomes ==
    IF ~opts.formatMetrics \/ kind = "text" THEN {"none"}
    ELSE {"none", "charset_format_metrics_failed"}
           \cup IF kind = "form" THEN {} ELSE {"charset_format_metrics_partial"}

\* analyzeCharset: the result covers the sample or a prefix of it; when the
\* cut leaves nothing there is no result.
AnalyzeCharset ==
    /\ step = "charset"
    /\ IF /\ "charset" \in enabled
          /\ sample.analyzed /\ sample.window # <<>> /\ IsText
          /\ Body!IsDecodedForStructuredAnalysis
       THEN \E n \in AnalyzedLengths :
              IF n = 0 THEN charset' = "nil" /\ Say("none")
              ELSE /\ charset' = IF n = Len(sample.window) THEN "sample" ELSE "prefix"
                   /\ \E code \in FormatOutcomes : Say(code)
       ELSE charset' = "nil" /\ Say("none")
    /\ step' = "serve"
    /\ UNCHANGED <<capture, config, meta, fingerprint, entropy, complexity>>

Buggy_RejectsReadErrors ==
    /\ step = "serve" /\ ~sample.failed
    /\ step' = "served"
    /\ UNCHANGED <<capture, warnings, config, meta, results>>

\* next.ServeHTTP with the profile in the request's context.
Serve ==
    /\ step = "serve"
    /\ step' = "served"
    /\ UNCHANGED <<capture, warnings, config, meta, results>>

Next ==
    \/ AnalyzeFingerprint \/ CaptureStep \/ RecordCapture
    \/ AnalyzeEntropy \/ AnalyzeComplexity \/ AnalyzeCharset \/ Serve

\* The goroutine of the request is scheduled and every read of the body
\* returns.
Spec == Init /\ [][Next]_vars /\ WF_vars(Next)

-----------------------------------------------------------------------------
Warned(code) == Contains(warnings, code)
Skipped == \E code \in Body!SkipCodes : Warned(code)

\* The place of a warning in the pipeline.
Stage(code) ==
    CASE code = "fingerprint_hash_algorithm_fallback" -> 1
      [] code \in Body!WarningCodes -> 2
      [] code \in {"complexity_parse_failed", "complexity_limit_exceeded"} -> 3
      [] code \in {"charset_format_metrics_failed", "charset_format_metrics_partial"} -> 4

\* The values every variable takes; the warnings appear in the order of the
\* modules that raise them and no code appears twice.
TypeOK ==
    /\ step \in {"fingerprint", "capture", "entropy", "complexity", "charset",
                 "serve", "served"}
    /\ meta \in [observed: 0 .. cfg.maxRead, sampled: BOOLEAN,
                 sampleBytes: 0 .. cfg.sampleBytes, truncated: BOOLEAN]
    /\ fingerprint \in {"nil", "set"}
    /\ entropy \in [present: BOOLEAN, sampled: Nat, total: Nat]
    /\ complexity \in {"nil", "partial", "full"}
    /\ charset \in {"nil", "prefix", "sample"}
    /\ \A i \in 2 .. Len(warnings) : Stage(warnings[i - 1]) <= Stage(warnings[i])
    /\ IsInjective(warnings)

\* The capture ran and found no byte, or a layer decoded to none.
CapturedNothing == sample.analyzed /\ data.size = 0

\* An enabled analyzer leaves no result only for a reason the handler can see:
\* a warning, a capture without a byte or a content type outside its scope.  Two
\* gaps have a reason the handler cannot see: a form that url.ParseQuery does
\* not accept (complexity.go:189), and a sample that MaxAnalyzeBytes cuts below
\* the length of its first rune.
EntropyAbsenceExplained == "entropy" \in enabled /\ ~entropy.present => Skipped

ComplexityAbsenceExplained ==
    "complexity" \in enabled /\ complexity = "nil" =>
      \/ Skipped
      \/ Warned("body_encoded_not_decoded") \/ Warned("complexity_parse_failed")
      \/ CapturedNothing
      \/ ~opts.supported \/ ~Dispatched
      \/ kind = "form" /\ ~parses

CharsetAbsenceExplained ==
    "charset" \in enabled /\ charset = "nil" =>
      \/ Skipped
      \/ Warned("body_encoded_not_decoded")
      \/ CapturedNothing
      \/ ~IsText
      \/ opts.maxAnalyze < 4 /\ Len(sample.window) > opts.maxAnalyze

EveryNilExplained ==
    step = "served" =>
      EntropyAbsenceExplained /\ ComplexityAbsenceExplained /\ CharsetAbsenceExplained

\* A structured or charset result is never computed from bytes that still
\* carry a coding, and a structured result with no warning at all is complete
\* and describes the whole body the client sent: an observer who looks at
\* nothing but the warnings is not misled, but by gzip data of several members
\* inside another coding.  (The largest limits give an empty body without a
\* warning, but no structured result either.)
ResultsAreOfDecodedData ==
    step = "served" /\ req.honest /\ (complexity # "nil" \/ charset # "nil") =>
      /\ data.codings = <<>>
      /\ complexity # "nil" /\ warnings = <<>> =>
           /\ complexity = "full"
           /\ Body!OneLayer \/ ~req.members => data.whole

\* The numbers of the profile agree with one another: Meta and the entropy
\* result were filled from the same capture, and they count the same bytes
\* unless a content coding was undone in between.
EntropyAgreesWithMeta ==
    step = "served" /\ entropy.present =>
      /\ entropy.sampled = meta.sampleBytes
      /\ meta.sampled <=> meta.sampleBytes < entropy.total
      /\ sample.decoded \/ entropy.total = meta.observed
      /\ meta.truncated => meta.observed = cfg.maxRead

\* Whatever fails on the way, the next handler is called: README, "does not
\* block traffic on analyzer failures".
AlwaysServed == <>(step = "served")

=============================================================================
