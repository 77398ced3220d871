------------------------ MODULE AnalyzeRequestProofs ------------------------
(***************************************************************************)
(* Proofs about the pipeline of one request, for all sizes, limits, chains *)
(* of codings, content types and settings.  The proofs about CaptureBody   *)
(* are used as they are: they hold of the steps of the capture when its    *)
(* warnings are those that follow the warning of the fingerprint.          *)
(***************************************************************************)
EXTENDS AnalyzeRequest, SequenceTheorems, TLAPS

Fallback == "fingerprint_hash_algorithm_fallback"
ComplexityCodes == {"complexity_parse_failed", "complexity_limit_exceeded"}
CharsetCodes == {"charset_format_metrics_failed", "charset_format_metrics_partial"}
Codes == {Fallback} \cup Body!WarningCodes \cup ComplexityCodes \cup CharsetCodes

\* How many warnings were there when captureBody was called, and its own.
before == IF step # "fingerprint" /\ "fingerprint" \in enabled /\ ~opts.knownHash THEN 1 ELSE 0
own == SubSeq(warnings, before + 1, Len(warnings))

Capture == INSTANCE CaptureBodyProofs WITH warnings <- own

-----------------------------------------------------------------------------
\* Dropping a prefix and adding an end can be done in any order.
LEMMA DropConcat ==
    ASSUME NEW S, NEW s \in Seq(S), NEW t \in Seq(S), NEW n \in Nat, n <= Len(s)
    PROVE  SubSeq(s \o t, n + 1, Len(s \o t)) = SubSeq(s, n + 1, Len(s)) \o t
  <1> DEFINE u == s \o t
             a == SubSeq(u, n + 1, Len(u))
             b == SubSeq(s, n + 1, Len(s))
             c == b \o t
  <1>1. /\ u \in Seq(S) /\ Len(u) = Len(s) + Len(t)
        /\ \A i \in 1 .. Len(s) + Len(t) : u[i] = IF i <= Len(s) THEN s[i] ELSE t[i - Len(s)]
    BY ConcatProperties, Zenon
  <1>2. Len(s) \in Nat /\ Len(t) \in Nat /\ Len(u) \in Nat
    BY <1>1, LenProperties
  <1>3. /\ \A i \in n + 1 .. Len(u) : u[i] \in S
        /\ \A i \in n + 1 .. Len(s) : s[i] \in S
    <2>1. \A i \in n + 1 .. Len(u) : i \in 1 .. Len(u)
      BY <1>2
    <2>2. \A i \in n + 1 .. Len(s) : i \in 1 .. Len(s)
      BY <1>2
    <2> QED BY <1>1, <2>1, <2>2, ElementOfSeq
  <1> HIDE DEF u
  <1>4. /\ a \in Seq(S) /\ Len(a) = (IF n + 1 <= Len(u) THEN Len(u) - (n + 1) + 1 ELSE 0)
        /\ \A i \in 1 .. Len(u) - (n + 1) + 1 : a[i] = u[(n + 1) + i - 1]
    BY <1>2, <1>3, SubSeqProperties
  <1>5. /\ b \in Seq(S) /\ Len(b) = (IF n + 1 <= Len(s) THEN Len(s) - (n + 1) + 1 ELSE 0)
        /\ \A i \in 1 .. Len(s) - (n + 1) + 1 : b[i] = s[(n + 1) + i - 1]
    BY <1>2, <1>3, SubSeqProperties
  <1> HIDE DEF a, b
  <1>6. /\ c \in Seq(S) /\ Len(c) = Len(b) + Len(t)
        /\ \A i \in 1 .. Len(b) + Len(t) : c[i] = IF i <= Len(b) THEN b[i] ELSE t[i - Len(b)]
    BY <1>5, ConcatProperties, Zenon
  <1> HIDE DEF c
  <1>7. Len(b) = Len(s) - n /\ Len(a) = Len(u) - n /\ Len(c) = Len(a)
    BY <1>1, <1>2, <1>4, <1>5, <1>6
  <1>8. ASSUME NEW i \in 1 .. Len(a) PROVE a[i] = c[i]
    <2>1. /\ i \in 1 .. Len(u) - (n + 1) + 1 /\ (n + 1) + i - 1 = n + i
          /\ n + i \in 1 .. Len(s) + Len(t) /\ i \in 1 .. Len(b) + Len(t)
      BY <1>1, <1>2, <1>7
    <2>2. a[i] = u[n + i]
      BY <1>4, <2>1
    <2>3. CASE n + i <= Len(s)
      <3>1. i <= Len(b) /\ i \in 1 .. Len(s) - (n + 1) + 1
        BY <1>2, <1>7, <2>1, <2>3
      <3>2. u[n + i] = s[n + i] /\ c[i] = b[i] /\ b[i] = s[n + i]
        BY <1>1, <1>5, <1>6, <2>1, <2>3, <3>1
      <3> QED BY <2>2, <3>2
    <2>4. CASE ~(n + i <= Len(s))
      <3>1. ~(i <= Len(b)) /\ (n + i) - Len(s) = i - Len(b)
        BY <1>2, <1>7, <2>1, <2>4
      <3>2. u[n + i] = t[(n + i) - Len(s)] /\ c[i] = t[i - Len(b)]
        BY <1>1, <1>6, <2>1, <2>4, <3>1
      <3> QED BY <2>2, <3>1, <3>2
    <2> QED BY <2>3, <2>4
  <1>9. a = c
    BY <1>4, <1>6, <1>7, <1>8, SeqEqual
  <1> QED BY <1>9 DEF a, b, c, u

\* What the next warnings mean for those of the capture.
Follows ==
    /\ \A code \in Codes : warnings' = Append(warnings, code) => own' = Append(own, code)
    /\ \A t \in Seq(Codes) : warnings' = warnings \o t => own' = own \o t
    /\ warnings' = warnings => own' = own

\* While the capture runs its warnings follow those of the request.
LEMMA OwnFollows ==
    ASSUME warnings \in Seq(Codes), before <= Len(warnings),
           UNCHANGED <<step, enabled, opts>>
    PROVE  Follows /\ before' = before
  <1>1. before' = before /\ before \in Nat
    BY DEF before
  <1>2. own \in Seq(Codes)
    <2>1. Len(warnings) \in Nat
      BY LenProperties
    <2>2. \A i \in before + 1 .. Len(warnings) : warnings[i] \in Codes
      <3>1. \A i \in before + 1 .. Len(warnings) : i \in 1 .. Len(warnings)
        BY <1>1, <2>1
      <3> QED BY <3>1, ElementOfSeq
    <2> HIDE DEF before
    <2> QED BY <1>1, <2>1, <2>2, SubSeqProperties DEF own
  <1>3. ASSUME NEW t \in Seq(Codes), warnings' = warnings \o t PROVE own' = own \o t
    <2>1. own' = SubSeq(warnings \o t, before + 1, Len(warnings \o t))
      BY <1>1, <1>3, Zenon DEF own
    <2> HIDE DEF before
    <2>2. SubSeq(warnings \o t, before + 1, Len(warnings \o t)) = own \o t
      BY <1>1, DropConcat, Zenon DEF own
    <2> QED BY <2>1, <2>2
  <1>4. ASSUME NEW code \in Codes, warnings' = Append(warnings, code) PROVE own' = Append(own, code)
    <2> DEFINE one == <<code>>
    <2>1. one \in Seq(Codes)
      OBVIOUS
    <2>2. Append(warnings, code) = warnings \o one /\ Append(own, code) = own \o one
      BY <1>2, AppendIsConcat, Zenon
    <2> HIDE DEF one
    <2> QED BY <1>3, <1>4, <2>1, <2>2
  <1>5. warnings' = warnings => own' = own
    BY <1>1, Zenon DEF own
  <1> QED BY <1>1, <1>3, <1>4, <1>5, Zenon DEF Follows

-----------------------------------------------------------------------------
\* A warning adds a sequence of one code, or none.
LEMMA AppendGrows ==
    ASSUME warnings \in Seq(Codes), NEW code \in Codes, warnings' = Append(warnings, code)
    PROVE  \E t \in Seq(Codes) : warnings' = warnings \o t
  <1>1. <<code>> \in Seq(Codes)
    OBVIOUS
  <1>2. Append(warnings, code) = warnings \o <<code>>
    BY AppendIsConcat, Zenon
  <1> QED BY <1>1, <1>2, Zenon

\* Without a warning nothing is added.
LEMMA NothingGrows ==
    ASSUME warnings \in Seq(Codes), warnings' = warnings
    PROVE  \E t \in Seq(Codes) : warnings' = warnings \o t
  <1>1. <<>> \in Seq(Codes)
    OBVIOUS
  <1>2. warnings = warnings \o <<>>
    BY ConcatEmptySeq, Zenon
  <1> QED BY <1>1, <1>2, Zenon

\* Adding three pieces one after the other or at once.
OneByOne(u, a, b, c) == u \o a \o b \o c
AtOnce(a, b, c) == a \o (b \o c)

LEMMA ConcatFour ==
    ASSUME NEW u \in Seq(Codes), NEW a \in Seq(Codes), NEW b \in Seq(Codes), NEW c \in Seq(Codes)
    PROVE  OneByOne(u, a, b, c) = u \o AtOnce(a, b, c) /\ AtOnce(a, b, c) \in Seq(Codes)
  <1> DEFINE v == u \o a
             w == b \o c
  <1>1. v \in Seq(Codes) /\ w \in Seq(Codes) /\ a \o w \in Seq(Codes)
    BY ConcatProperties
  <1>2. v \o w = u \o (a \o w)
    <2> HIDE DEF w
    <2> QED BY <1>1, ConcatAssociative, SMTT(30)
  <1>3. (v \o b) \o c = v \o (b \o c)
    <2>1. v \in Seq(Codes)
      BY <1>1
    <2> HIDE DEF v, w
    <2> QED BY <2>1, ConcatAssociative, SMTT(30)
  <1> QED BY <1>1, <1>2, <1>3, Zenon DEF OneByOne, AtOnce

\* What a warning under a condition adds.
LEMMA OneOrNone ==
    ASSUME NEW cond, NEW code \in Codes
    PROVE  (IF cond THEN <<code>> ELSE <<>>) \in Seq(Codes)
  <1>1. <<code>> \in Seq(Codes) /\ <<>> \in Seq(Codes)
    OBVIOUS
  <1> QED BY <1>1, Zenon

-----------------------------------------------------------------------------
\* The codes of the capture are codes of the request.
LEMMA CaptureCodes ==
    /\ "body_skipped_empty" \in Codes /\ "body_skipped_method" \in Codes
    /\ "body_skipped_content_type" \in Codes
    /\ "body_decompression_failed" \in Codes /\ "body_decompressed_truncated" \in Codes
    /\ "body_encoded_not_decoded" \in Codes /\ "body_truncated" \in Codes
    /\ "body_read_error" \in Codes
  BY DEF Codes, Body!WarningCodes

\* The two instances of the capture have the same operators.
LEMMA SameReads ==
    /\ \A n, m : Body!LimitedReads(n, m) = Capture!LimitedReads(n, m)
    /\ \A n, m : Body!Observed(n, m) = Capture!Observed(n, m)
    /\ \A n, m : Body!Truncated(n, m) = Capture!Truncated(n, m)
    /\ \A s : Body!ParseContentEncodings(s) = Capture!ParseContentEncodings(s)
    /\ Body!HasActiveContentEncoding = Capture!HasActiveContentEncoding
  <1>1. ASSUME NEW n, NEW m PROVE Body!LimitedReads(n, m) = Capture!LimitedReads(n, m)
    BY Zenon DEF Body!LimitedReads, Capture!LimitedReads, Body!AtMost, Capture!AtMost,
                 Body!NeverReads, Capture!NeverReads, Body!Loop!Budget, Capture!Loop!Budget
  <1>2. ASSUME NEW n, NEW m PROVE Body!Observed(n, m) = Capture!Observed(n, m)
    BY Zenon DEF Body!Observed, Capture!Observed, Body!AtMost, Capture!AtMost
  <1>3. ASSUME NEW n, NEW m PROVE Body!Truncated(n, m) = Capture!Truncated(n, m)
    BY Zenon DEF Body!Truncated, Capture!Truncated
  <1>4. ASSUME NEW s PROVE Body!ParseContentEncodings(s) = Capture!ParseContentEncodings(s)
    BY Zenon DEF Body!ParseContentEncodings, Capture!ParseContentEncodings
  <1>5. Body!HasActiveContentEncoding = Capture!HasActiveContentEncoding
    BY <1>4, Zenon DEF Body!HasActiveContentEncoding, Capture!HasActiveContentEncoding
  <1> QED BY <1>1, <1>2, <1>3, <1>4, <1>5

LEMMA SameLayers ==
    /\ \A s : Body!Last(s) = Capture!Last(s)
    /\ \A s : Body!Front(s) = Capture!Front(s)
    /\ \A d, n, m : Body!LayerOutcomes(d, n, m) = Capture!LayerOutcomes(d, n, m)
  <1>1. ASSUME NEW d, NEW n, NEW m PROVE Body!LayerOutcomes(d, n, m) = Capture!LayerOutcomes(d, n, m)
    BY Zenon DEF Body!LayerOutcomes, Capture!LayerOutcomes, Body!AtMost, Capture!AtMost,
                 Body!Last, Capture!Last, Body!NeverReads, Capture!NeverReads,
                 Body!Loop!Budget, Capture!Loop!Budget
  <1>2. ASSUME NEW s PROVE Body!Last(s) = Capture!Last(s) /\ Body!Front(s) = Capture!Front(s)
    BY Zenon DEF Body!Last, Capture!Last, Body!Front, Capture!Front
  <1> QED BY <1>1, <1>2

LEMMA SameSample ==
    \A n, m, s : Body!BuildSample(n, m, s) = Capture!BuildSample(n, m, s)
  BY Zenon DEF Body!BuildSample, Capture!BuildSample, Body!Offsets, Capture!Offsets

\* A body left alone, seen from the capture.
LEMMA SkipMaps ==
    ASSUME Body!SkipBody, warnings \in Seq(Codes), Follows
    PROVE  Capture!SkipBody /\ \E t \in Seq(Codes) : warnings' = warnings \o t
  <1>1. \A code \in Codes : warnings' = Append(warnings, code) => own' = Append(own, code)
    BY DEF Follows
  <1>2. Capture!SkipBody
    BY <1>1, CaptureCodes, Zenon DEF Body!SkipBody, Capture!SkipBody, Body!Warn, Capture!Warn
  <1>3. PICK code \in Codes : warnings' = Append(warnings, code)
    BY CaptureCodes, Zenon DEF Body!SkipBody, Body!Warn
  <1> QED BY <1>2, <1>3, AppendGrows, Zenon

\* The read, seen from the capture.
LEMMA ReadMaps ==
    ASSUME Body!ReadLimitedBody, warnings \in Seq(Codes), Follows
    PROVE  Capture!ReadLimitedBody /\ \E t \in Seq(Codes) : warnings' = warnings \o t
  <1>1. warnings' = warnings /\ own' = own
    BY Zenon DEF Body!ReadLimitedBody, Follows
  <1>2. Capture!ReadLimitedBody
    BY <1>1, SameReads, Zenon DEF Body!ReadLimitedBody, Capture!ReadLimitedBody
  <1> QED BY <1>1, <1>2, NothingGrows, Zenon

\* A decoding that fails, seen from the capture.
LEMMA FailMaps ==
    ASSUME Body!DecodingFails, warnings \in Seq(Codes), Follows
    PROVE  Capture!DecodingFails /\ \E t \in Seq(Codes) : warnings' = warnings \o t
  <1>1. warnings' = Append(warnings, "body_decompression_failed")
    BY Zenon DEF Body!DecodingFails, Body!Warn
  <1>2. own' = Append(own, "body_decompression_failed")
    BY <1>1, CaptureCodes DEF Follows
  <1>3. Capture!DecodingFails
    BY <1>2, SameLayers, Zenon DEF Body!DecodingFails, Capture!DecodingFails, Capture!Warn
  <1> QED BY <1>1, <1>3, AppendGrows, CaptureCodes

\* A layer, seen from the capture.
LEMMA LayerMaps ==
    ASSUME Body!DecodeLayer, warnings \in Seq(Codes), Follows
    PROVE  Capture!DecodeLayer /\ \E t \in Seq(Codes) : warnings' = warnings \o t
  <1>1. \E o \in Capture!LayerOutcomes(data, Capture!Last(todo), cfg.maxDecode) :
          /\ ~o.failed
          /\ data' = [codings |-> IF data.codings = <<>> THEN <<>> ELSE Capture!Front(data.codings),
                      size    |-> Capture!Observed(o.n, cfg.maxDecode),
                      whole   |-> o.whole]
          /\ cut' = Capture!Truncated(o.n, cfg.maxDecode)
    BY SameReads, SameLayers, Zenon DEF Body!DecodeLayer
  <1>2. /\ phase = "decode" /\ todo' = Capture!Front(todo)
        /\ UNCHANGED <<req, cfg, wire>>
    BY SameReads, SameLayers, Zenon DEF Body!DecodeLayer
  <1>3. IF todo' = <<>>
        THEN /\ sample' = [sample EXCEPT !.decoded = TRUE]
             /\ IF cut' THEN warnings' = Append(warnings, "body_decompressed_truncated")
                ELSE UNCHANGED warnings
             /\ phase' = "finish"
        ELSE UNCHANGED <<sample, warnings, phase>>
    BY Zenon DEF Body!DecodeLayer, Body!Warn
  <1>4. /\ warnings' = warnings => own' = own
        /\ warnings' = Append(warnings, "body_decompressed_truncated") =>
             own' = Append(own, "body_decompressed_truncated")
    BY CaptureCodes DEF Follows
  <1>5. IF todo' = <<>>
        THEN /\ sample' = [sample EXCEPT !.decoded = TRUE]
             /\ IF cut' THEN Capture!Warn("body_decompressed_truncated") ELSE UNCHANGED own
             /\ phase' = "finish"
        ELSE UNCHANGED <<sample, own, phase>>
    BY <1>3, <1>4, Zenon DEF Capture!Warn
  <1>6. Capture!DecodeLayer
    BY <1>1, <1>2, <1>5, Zenon DEF Capture!DecodeLayer
  <1>7. warnings' = warnings \/ warnings' = Append(warnings, "body_decompressed_truncated")
    BY <1>3, Zenon
  <1> QED BY <1>6, <1>7, AppendGrows, NothingGrows, CaptureCodes

\* The end of the capture, seen from the capture.
LEMMA FinishMaps ==
    ASSUME Body!Finish, warnings \in Seq(Codes), own \in Seq(Codes), Follows
    PROVE  Capture!Finish /\ \E t \in Seq(Codes) : warnings' = warnings \o t
  <1> DEFINE If(c, code) == IF c THEN <<code>> ELSE <<>>
             w1 == If(Body!HasActiveContentEncoding /\ ~sample.decoded, "body_encoded_not_decoded")
             w2 == If(sample.truncated, "body_truncated")
             w3 == If(sample.failed, "body_read_error")
             t == AtOnce(w1, w2, w3)
  <1>1. /\ phase = "finish"
        /\ sample' = [sample EXCEPT
                        !.window = Capture!BuildSample(Capture!SampledSize, cfg.sampleBytes,
                                                       cfg.strategy),
                        !.sampled = cfg.sampleBytes < Capture!SampledSize]
        /\ phase' = "done"
        /\ UNCHANGED <<req, cfg, wire, data, todo, cut>>
    BY SameSample, Zenon DEF Body!Finish, Body!SampledSize, Capture!SampledSize
  <1>2. warnings' = OneByOne(warnings, w1, w2, w3)
    BY Zenon DEF Body!Finish, OneByOne
  <1>3. w1 \in Seq(Codes) /\ w2 \in Seq(Codes) /\ w3 \in Seq(Codes)
    BY CaptureCodes, OneOrNone, Zenon
  <1> HIDE DEF w1, w2, w3
  <1>4. t \in Seq(Codes)
    BY <1>3, ConcatFour
  <1>5. ASSUME NEW u \in Seq(Codes) PROVE OneByOne(u, w1, w2, w3) = u \o t
    BY <1>3, ConcatFour
  <1> HIDE DEF t
  <1>6. warnings' = warnings \o t
    BY <1>2, <1>5, Zenon
  <1>7. own' = own \o t
    BY <1>4, <1>6 DEF Follows
  <1>8. own' = OneByOne(own, w1, w2, w3)
    BY <1>5, <1>7, Zenon
  <1>9. Body!HasActiveContentEncoding = Capture!HasActiveContentEncoding
    BY SameReads
  <1>10. Capture!Finish
    <2>1. own' = own
            \o (IF Capture!HasActiveContentEncoding /\ ~sample.decoded
                THEN <<"body_encoded_not_decoded">> ELSE <<>>)
            \o (IF sample.truncated THEN <<"body_truncated">> ELSE <<>>)
            \o (IF sample.failed THEN <<"body_read_error">> ELSE <<>>)
      BY <1>8, <1>9, Zenon DEF OneByOne, w1, w2, w3
    <2> QED BY <1>1, <2>1, Zenon DEF Capture!Finish
  <1> QED BY <1>4, <1>6, <1>10, Zenon

-----------------------------------------------------------------------------
\* The assumptions of the proofs about the capture.
LEMMA CaptureParameters == Capture!ParametersAssumption
  BY CaptureAssumption, Zenon
  DEF Body!ParametersAssumption, Capture!ParametersAssumption, Body!Tokens, Capture!Tokens

\* The invariants of the capture, for its own warnings.
LEMMA CaptureKeeps ==
    ASSUME Capture!Inv, Capture!BoundsInv, [Capture!Next]_(Capture!vars)
    PROVE  Capture!Inv' /\ Capture!BoundsInv'
  BY CaptureParameters, Capture!NextInv, Capture!NextBounds, Zenon
  DEF Capture!ParametersAssumption

\* The invariants of the capture hold when it has not started.
LEMMA CaptureStarts ==
    ASSUME Body!Init, own = <<>>
    PROVE  Capture!Inv /\ Capture!BoundsInv
  <1>1. Capture!Init
    BY Zenon DEF Body!Init, Capture!Init, Body!NoData, Capture!NoData, Body!NoSample,
                 Capture!NoSample, Body!Strategies, Capture!Strategies,
                 Body!Contains, Capture!Contains
  <1> QED BY <1>1, CaptureParameters, Capture!InitInv, Capture!InitBounds, Zenon
          DEF Capture!ParametersAssumption

\* While the fingerprint and the capture run.
CaptureInv ==
    step \in {"fingerprint", "capture"} =>
      /\ Capture!Inv /\ Capture!BoundsInv
      /\ warnings \in Seq(Codes)
      /\ before <= Len(warnings)
      /\ before = 1 => warnings[1] = Fallback
      /\ step = "fingerprint" => warnings = <<>>
      /\ step = "capture" => NeedsBody

\* A step of the capture keeps what is known of it.
LEMMA CaptureStepKeeps ==
    ASSUME CaptureInv, CaptureStep
    PROVE  CaptureInv'
  <1>1. /\ step = "capture" /\ step' = "capture" /\ Body!Next
        /\ UNCHANGED <<kind, parses, enabled, opts>>
    BY DEF CaptureStep, config
  <1>2. /\ Capture!Inv /\ Capture!BoundsInv /\ warnings \in Seq(Codes)
        /\ before <= Len(warnings) /\ (before = 1 => warnings[1] = Fallback)
        /\ NeedsBody
    BY <1>1 DEF CaptureInv
  <1>3. Follows /\ before' = before
    BY <1>1, <1>2, OwnFollows
  <1>4. own \in Seq(Codes)
    <2>1. own \in Seq(Capture!WarningCodes)
      BY <1>2 DEF Capture!BoundsInv
    <2>2. Capture!WarningCodes \subseteq Codes
      BY DEF Codes, Capture!WarningCodes, Body!WarningCodes
    <2> QED BY <2>1, <2>2, SeqMonotonic
  <1>5. Capture!Next /\ \E t \in Seq(Codes) : warnings' = warnings \o t
    <2>1. \/ Body!SkipBody \/ Body!ReadLimitedBody \/ Body!DecodingFails
          \/ Body!DecodeLayer \/ Body!Finish
      BY <1>1, Zenon DEF Body!Next
    <2> QED BY <1>2, <1>3, <1>4, <2>1, SkipMaps, ReadMaps, FailMaps, LayerMaps, FinishMaps, Zenon
            DEF Capture!Next
  <1>6. Capture!Inv' /\ Capture!BoundsInv'
    BY <1>2, <1>5, CaptureKeeps, Zenon
  <1>7. /\ warnings' \in Seq(Codes) /\ Len(warnings) <= Len(warnings')
        /\ before = 1 => warnings'[1] = warnings[1]
    <2>1. PICK t \in Seq(Codes) : warnings' = warnings \o t
      BY <1>5
    <2>2. /\ warnings' \in Seq(Codes) /\ Len(warnings') = Len(warnings) + Len(t)
          /\ \A i \in 1 .. Len(warnings) + Len(t) :
               warnings'[i] = IF i <= Len(warnings) THEN warnings[i] ELSE t[i - Len(warnings)]
      <3> DEFINE w == warnings \o t
      <3>1. /\ w \in Seq(Codes) /\ Len(w) = Len(warnings) + Len(t)
            /\ \A i \in 1 .. Len(warnings) + Len(t) :
                 w[i] = IF i <= Len(warnings) THEN warnings[i] ELSE t[i - Len(warnings)]
        BY <1>2, ConcatProperties, Zenon
      <3> HIDE DEF w
      <3>2. warnings' = w
        BY <2>1 DEF w
      <3> QED BY <3>1, <3>2
    <2>3. Len(warnings) \in Nat /\ Len(t) \in Nat
      BY <1>2, LenProperties
    <2>4. before = 1 => 1 \in 1 .. Len(warnings) + Len(t) /\ 1 <= Len(warnings)
      BY <1>2, <2>3
    <2> HIDE DEF before
    <2> QED BY <2>2, <2>3, <2>4
  <1>8. before' <= Len(warnings') /\ (before' = 1 => warnings'[1] = Fallback)
    <2>1. Len(warnings) \in Nat /\ Len(warnings') \in Nat /\ before \in Nat
      BY <1>2, <1>7, LenProperties DEF before
    <2> HIDE DEF before
    <2> QED BY <1>2, <1>3, <1>7, <2>1
  <1>9. NeedsBody'
    BY <1>1, <1>2 DEF NeedsBody
  <1> QED BY <1>1, <1>6, <1>7, <1>8, <1>9, Zenon DEF CaptureInv

-----------------------------------------------------------------------------
\* The warnings of the request so far are that of the fingerprint, if there is
\* one, and those of the capture.
LEMMA WarningsSoFar ==
    ASSUME CaptureInv, step \in {"fingerprint", "capture"}
    PROVE  /\ warnings \in Seq(Codes) /\ own \in Seq(Body!WarningCodes) /\ before \in {0, 1}
           /\ \A i \in DOMAIN own : i + before \in DOMAIN warnings /\ warnings[i + before] = own[i]
           /\ \A i \in DOMAIN warnings :
                \/ i = 1 /\ before = 1 /\ warnings[i] = Fallback
                \/ i - before \in DOMAIN own /\ warnings[i] = own[i - before]
  <1>1. /\ warnings \in Seq(Codes) /\ before <= Len(warnings) /\ before \in {0, 1}
        /\ before = 1 => warnings[1] = Fallback
    BY DEF CaptureInv, before
  <1>2. own \in Seq(Body!WarningCodes)
    <2>1. own \in Seq(Capture!WarningCodes)
      BY DEF CaptureInv, Capture!BoundsInv
    <2>2. Capture!WarningCodes = Body!WarningCodes
      BY Zenon DEF Capture!WarningCodes, Body!WarningCodes
    <2> QED BY <2>1, <2>2, Zenon
  <1> HIDE DEF before
  <1>3. Len(warnings) \in Nat /\ DOMAIN warnings = 1 .. Len(warnings)
    BY <1>1, LenProperties
  <1>4. \A i \in before + 1 .. Len(warnings) : warnings[i] \in Codes
    <2>1. \A i \in before + 1 .. Len(warnings) : i \in 1 .. Len(warnings)
      BY <1>1, <1>3
    <2> QED BY <1>1, <2>1, ElementOfSeq
  <1>5. /\ Len(own) = (IF before + 1 <= Len(warnings) THEN Len(warnings) - (before + 1) + 1 ELSE 0)
        /\ \A i \in 1 .. Len(warnings) - (before + 1) + 1 : own[i] = warnings[(before + 1) + i - 1]
    <2>1. before + 1 \in Int /\ Len(warnings) \in Int
      BY <1>1, <1>3
    <2> QED BY <1>4, <2>1, SubSeqProperties DEF own
  <1>6. DOMAIN own = 1 .. Len(own) /\ Len(own) = Len(warnings) - before
    <2>1. DOMAIN own = 1 .. Len(own)
      BY <1>2, LenProperties
    <2>2. Len(own) = IF before + 1 <= Len(warnings) THEN Len(warnings) - (before + 1) + 1 ELSE 0
      BY <1>5
    <2>3. before <= Len(warnings) /\ before \in {0, 1} /\ Len(warnings) \in Nat
      BY <1>1, <1>3
    <2> HIDE DEF own
    <2>4. Len(own) = Len(warnings) - before
      BY <2>2, <2>3
    <2> QED BY <2>1, <2>4
  <1>7. ASSUME NEW i \in DOMAIN own
        PROVE  i + before \in DOMAIN warnings /\ warnings[i + before] = own[i]
    <2>1. i \in 1 .. Len(warnings) - (before + 1) + 1 /\ (before + 1) + i - 1 = i + before
          /\ i + before \in 1 .. Len(warnings)
      BY <1>1, <1>3, <1>6
    <2> QED BY <1>3, <1>5, <2>1
  <1>8. ASSUME NEW i \in DOMAIN warnings
        PROVE  \/ i = 1 /\ before = 1 /\ warnings[i] = Fallback
               \/ i - before \in DOMAIN own /\ warnings[i] = own[i - before]
    <2>1. CASE i - before \in 1 .. Len(own)
      <3>1. (i - before) + before = i
        BY <1>1, <1>3
      <3> QED BY <1>6, <1>7, <2>1, <3>1
    <2>2. CASE i - before \notin 1 .. Len(own)
      <3>1. i = 1 /\ before = 1
        BY <1>1, <1>3, <1>6, <2>2
      <3> QED BY <1>1, <3>1
    <2> QED BY <2>1, <2>2
  <1> QED BY <1>1, <1>2, <1>7, <1>8

\* The place of each code.
LEMMA Stages ==
    /\ Stage(Fallback) = 1
    /\ \A c \in Body!WarningCodes : Stage(c) = 2
    /\ \A c \in ComplexityCodes : Stage(c) = 3
    /\ \A c \in CharsetCodes : Stage(c) = 4
  <1>1. Fallback \notin Body!WarningCodes /\ Fallback \notin ComplexityCodes \cup CharsetCodes
    BY DEF Fallback, Body!WarningCodes, ComplexityCodes, CharsetCodes
  <1>2. /\ \A c \in Body!WarningCodes : c # Fallback /\ c \notin ComplexityCodes /\ c \notin CharsetCodes
        /\ \A c \in ComplexityCodes : c # Fallback /\ c \notin Body!WarningCodes /\ c \notin CharsetCodes
        /\ \A c \in CharsetCodes : c # Fallback /\ c \notin Body!WarningCodes /\ c \notin ComplexityCodes
    BY DEF Fallback, Body!WarningCodes, ComplexityCodes, CharsetCodes
  <1>3. \A c : Stage(c) = CASE c = Fallback -> 1
                            [] c \in Body!WarningCodes -> 2
                            [] c \in ComplexityCodes -> 3
                            [] c \in CharsetCodes -> 4
    BY DEF Stage, Fallback, ComplexityCodes, CharsetCodes
  <1> QED BY <1>1, <1>2, <1>3

\* Warnings in the order of the modules, none past level and none twice.
Ordered(w, level) ==
    /\ \A i \in DOMAIN w : Stage(w[i]) \in 1 .. level
    /\ \A i \in 2 .. Len(w) : Stage(w[i - 1]) <= Stage(w[i])
    /\ IsInjective(w)

\* Up to the end of the capture the warnings are in order.
LEMMA CaptureOrdered ==
    ASSUME CaptureInv, step \in {"fingerprint", "capture"}
    PROVE  Ordered(warnings, 2)
  <1>1. /\ warnings \in Seq(Codes) /\ own \in Seq(Body!WarningCodes) /\ before \in {0, 1}
        /\ \A i \in DOMAIN warnings :
             \/ i = 1 /\ before = 1 /\ warnings[i] = Fallback
             \/ i - before \in DOMAIN own /\ warnings[i] = own[i - before]
    BY WarningsSoFar
  <1>2. \A i, j \in DOMAIN own : own[i] = own[j] => i = j
    BY DEF CaptureInv, Capture!BoundsInv, Capture!IsInjective
  <1> HIDE DEF before, own
  <1>3. \A i \in DOMAIN own : own[i] \in Body!WarningCodes
    BY <1>1, LenProperties, ElementOfSeq
  <1>4. /\ DOMAIN warnings = 1 .. Len(warnings) /\ Len(warnings) \in Nat
        /\ DOMAIN own = 1 .. Len(own) /\ Len(own) \in Nat
    BY <1>1, LenProperties
  <1>5. \A i \in DOMAIN warnings :
          \/ i = 1 /\ before = 1 /\ warnings[i] = Fallback /\ Stage(warnings[i]) = 1
          \/ warnings[i] \in Body!WarningCodes /\ Stage(warnings[i]) = 2
    BY <1>1, <1>3, Stages
  <1>6. \A i \in 2 .. Len(warnings) : Stage(warnings[i - 1]) <= Stage(warnings[i])
    <2> SUFFICES ASSUME NEW i \in 2 .. Len(warnings)
                 PROVE  Stage(warnings[i - 1]) <= Stage(warnings[i])
      OBVIOUS
    <2>1. i \in DOMAIN warnings /\ i - 1 \in DOMAIN warnings /\ i # 1
      BY <1>4
    <2>2. Stage(warnings[i]) = 2 /\ Stage(warnings[i - 1]) \in {1, 2}
      BY <1>5, <2>1
    <2> QED BY <2>2
  <1>7. Fallback \notin Body!WarningCodes
    BY DEF Fallback, Body!WarningCodes
  <1>8. ASSUME NEW i \in DOMAIN warnings, NEW j \in DOMAIN warnings, warnings[i] = warnings[j]
        PROVE  i = j
    <2>1. i - before \in DOMAIN own /\ j - before \in DOMAIN own
          /\ own[i - before] = own[j - before] => i - before = j - before
      BY <1>2
    <2>2. i - before = j - before => i = j
      BY <1>1, <1>4
    <2> QED BY <1>1, <1>3, <1>7, <1>8, <2>1, <2>2
  <1>9. IsInjective(warnings)
    BY <1>8, Zenon DEF IsInjective
  <1> QED BY <1>5, <1>6, <1>9 DEF Ordered

\* A warning of a later module stays in order.
LEMMA SayOrdered ==
    ASSUME NEW w \in Seq(Codes), NEW code \in Codes, NEW level \in 1 .. 3,
           Ordered(w, level), Stage(code) \in level + 1 .. 4
    PROVE  Append(w, code) \in Seq(Codes) /\ Ordered(Append(w, code), Stage(code))
  <1> DEFINE u == Append(w, code)
             m == Stage(code)
  <1>1. /\ u \in Seq(Codes) /\ Len(u) = Len(w) + 1 /\ u[Len(w) + 1] = code
        /\ \A i \in 1 .. Len(w) : u[i] = w[i]
    BY AppendProperties
  <1> HIDE DEF u
  <1>2. /\ Len(w) \in Nat /\ DOMAIN w = 1 .. Len(w) /\ DOMAIN u = 1 .. Len(w) + 1
    BY <1>1, LenProperties
  <1>3. \A i \in DOMAIN w : Stage(w[i]) \in 1 .. level
    BY DEF Ordered
  <1> HIDE DEF m
  <1>4. m \in level + 1 .. 4 /\ Stage(u[Len(w) + 1]) = m
    BY <1>1 DEF m
  <1>5. ASSUME NEW i \in DOMAIN u
        PROVE  \/ i \in DOMAIN w /\ u[i] = w[i] /\ Stage(u[i]) \in 1 .. level
               \/ i = Len(w) + 1 /\ u[i] = code /\ Stage(u[i]) = m
    BY <1>1, <1>2, <1>3, <1>4
  <1>6. \A i \in DOMAIN u : Stage(u[i]) \in 1 .. m
    <2> SUFFICES ASSUME NEW i \in DOMAIN u PROVE Stage(u[i]) \in 1 .. m
      OBVIOUS
    <2>1. Stage(u[i]) \in 1 .. level \/ Stage(u[i]) = m
      BY <1>5
    <2> QED BY <1>4, <2>1
  <1>7. \A i \in 2 .. Len(u) : Stage(u[i - 1]) <= Stage(u[i])
    <2> SUFFICES ASSUME NEW i \in 2 .. Len(u) PROVE Stage(u[i - 1]) <= Stage(u[i])
      OBVIOUS
    <2>1. i \in DOMAIN u /\ i - 1 \in DOMAIN u /\ i - 1 \in DOMAIN w
      BY <1>1, <1>2
    <2>2. u[i - 1] = w[i - 1] /\ Stage(u[i - 1]) \in 1 .. level
      BY <1>1, <1>2, <1>3, <2>1
    <2>3. CASE i \in DOMAIN w
      <3>1. u[i] = w[i] /\ i \in 2 .. Len(w)
        BY <1>1, <1>2, <2>3
      <3> QED BY <2>2, <3>1 DEF Ordered
    <2>4. CASE i \notin DOMAIN w
      <3>1. Stage(u[i]) = m
        BY <1>5, <2>1, <2>4
      <3> QED BY <1>4, <2>2, <3>1
    <2> QED BY <2>3, <2>4
  <1>8. IsInjective(u)
    <2>1. \A i \in DOMAIN w : w[i] # code
      BY <1>3, <1>4 DEF m
    <2>2. \A i, j \in DOMAIN w : w[i] = w[j] => i = j
      BY Zenon DEF Ordered, IsInjective
    <2>3. \A i, j \in DOMAIN u : u[i] = u[j] => i = j
      BY <1>5, <2>1, <2>2
    <2> QED BY <2>3, Zenon DEF IsInjective
  <1> QED BY <1>1, <1>6, <1>7, <1>8, Zenon DEF Ordered, u, m

\* Warnings in order are in order for a later module.
LEMMA OrderedLater ==
    ASSUME NEW w, NEW level \in 1 .. 4, NEW m \in level .. 4, Ordered(w, level)
    PROVE  Ordered(w, m)
  <1>1. \A i \in DOMAIN w : Stage(w[i]) \in 1 .. m
    BY DEF Ordered
  <1> QED BY <1>1, Zenon DEF Ordered

\* What a warning, or none, leaves of those before it.
LEMMA SayKeeps ==
    ASSUME warnings \in Seq(Codes), NEW code \in Codes \cup {"none"}, Say(code)
    PROVE  /\ warnings' \in Seq(Codes)
           /\ \A c : Warned(c) => Warned(c)'
           /\ warnings # <<>> => warnings' # <<>>
           /\ code # "none" => Warned(code)' /\ warnings' # <<>>
  <1>1. "none" \notin Codes
    BY DEF Codes, Fallback, Body!WarningCodes, ComplexityCodes, CharsetCodes
  <1>2. CASE code = "none"
    BY <1>2 DEF Say, Warned, Contains
  <1>3. CASE code # "none"
    <2>1. code \in Codes /\ warnings' = Append(warnings, code)
      BY <1>3 DEF Say
    <2>2. /\ warnings' \in Seq(Codes) /\ Len(warnings') = Len(warnings) + 1
          /\ warnings'[Len(warnings) + 1] = code
          /\ \A i \in 1 .. Len(warnings) : warnings'[i] = warnings[i]
      BY <2>1, AppendProperties
    <2>3. Len(warnings) \in Nat
      BY LenProperties
    <2>4. warnings' # <<>>
      BY <2>2, <2>3, EmptySeq
    <2>5. Warned(code)'
      <3>1. Len(warnings) + 1 \in 1 .. Len(warnings')
        BY <2>2, <2>3
      <3> QED BY <2>2, <3>1, Zenon DEF Warned, Contains
    <2>6. ASSUME NEW c, Warned(c) PROVE Warned(c)'
      <3>1. PICK i \in 1 .. Len(warnings) : warnings[i] = c
        BY <2>6, Zenon DEF Warned, Contains
      <3>2. i \in 1 .. Len(warnings') /\ warnings'[i] = c
        BY <2>2, <2>3, <3>1
      <3> QED BY <3>2, Zenon DEF Warned, Contains
    <2> QED BY <2>2, <2>4, <2>5, <2>6
  <1> QED BY <1>2, <1>3

-----------------------------------------------------------------------------
\* What the analyzers rely on when captureBody has returned: what it says of a
\* body it left alone, and of one it read.
LeftAlone == ~sample.analyzed => Skipped /\ sample.window = <<>>

SayWhenEncoded ==
    sample.analyzed /\ ~Body!IsDecodedForStructuredAnalysis => Warned("body_encoded_not_decoded")

WholeOrWarned ==
    sample.analyzed /\ Body!IsDecodedForStructuredAnalysis /\ req.honest =>
      /\ data.codings = <<>>
      /\ Body!OneLayer \/ ~req.members =>
           data.size = 0 \/ data.whole \/ warnings # <<>>

Sampled ==
    sample.analyzed =>
      /\ Len(sample.window) = IF data.size > cfg.sampleBytes THEN cfg.sampleBytes ELSE data.size
      /\ sample.sampled <=> Len(sample.window) < data.size
      /\ sample.decoded \/ data.size = wire.size

CaptureTypes ==
    /\ sample.window \in Seq(Nat) /\ sample.sampled \in BOOLEAN /\ sample.truncated \in BOOLEAN
    /\ data.size \in Nat /\ wire.size \in Nat /\ wire.size <= cfg.maxRead
    /\ sample.truncated => wire.size = cfg.maxRead

CaptureFacts == LeftAlone /\ SayWhenEncoded /\ WholeOrWarned /\ Sampled /\ CaptureTypes

\* The predicates of the capture are those of the pipeline.
LEMMA SamePredicates ==
    /\ Capture!IsDecodedForStructuredAnalysis <=> Body!IsDecodedForStructuredAnalysis
    /\ Capture!OneLayer <=> Body!OneLayer
    /\ Capture!SkipCodes = Body!SkipCodes
    /\ \A n, m : Capture!AtMost(n, m) = IF n > m THEN m ELSE n
  <1>1. Capture!IsDecodedForStructuredAnalysis <=> Body!IsDecodedForStructuredAnalysis
    BY SameReads, Zenon
    DEF Capture!IsDecodedForStructuredAnalysis, Body!IsDecodedForStructuredAnalysis
  <1>2. Capture!OneLayer <=> Body!OneLayer
    <2>1. Body!ParseContentEncodings(req.header) = Capture!ParseContentEncodings(req.header)
      BY SameReads, Zenon
    <2> QED BY <2>1, Zenon DEF Capture!OneLayer, Body!OneLayer, Capture!Tokens, Body!Tokens
  <1>3. Capture!SkipCodes = Body!SkipCodes
    BY Zenon DEF Capture!SkipCodes, Body!SkipCodes
  <1>4. \A n, m : Capture!AtMost(n, m) = IF n > m THEN m ELSE n
    BY Zenon DEF Capture!AtMost
  <1> QED BY <1>1, <1>2, <1>3, <1>4

\* What the capture leaves when it is done.
LEMMA CaptureDone ==
    ASSUME CaptureInv, step = "capture", phase = "done"
    PROVE  CaptureFacts
  <1>1. /\ Capture!EveryAbsenceExplained /\ Capture!EmptyOrFlagged
        /\ Capture!DecodesAllOrNothing /\ Capture!SampleWithinWindow
        /\ Capture!TypeInv /\ Capture!BoundsInv
    BY Zenon DEF CaptureInv, Capture!Inv, Capture!DoneInv
  <1>2. /\ warnings \in Seq(Codes) /\ own \in Seq(Body!WarningCodes)
        /\ \A i \in DOMAIN own : i + before \in DOMAIN warnings /\ warnings[i + before] = own[i]
    BY WarningsSoFar
  <1>3. /\ \A c : Capture!Warned(c) => Warned(c)
        /\ \A c : Capture!Warned(c) => warnings # <<>>
        /\ \A i \in DOMAIN own : Warned(own[i])
    <2>1. ASSUME NEW i \in DOMAIN own
          PROVE  Warned(own[i]) /\ warnings # <<>>
      <3>1. i + before \in 1 .. Len(warnings) /\ warnings[i + before] = own[i]
        BY <1>2, LenProperties
      <3>2. Warned(own[i])
        BY <3>1, Zenon DEF Warned, Contains
      <3>3. warnings # <<>>
        BY <3>1
      <3> QED BY <3>2, <3>3
    <2> HIDE DEF own
    <2> QED BY <2>1, Zenon DEF Capture!Warned
  <1>4. LeftAlone
    <2> SUFFICES ASSUME ~sample.analyzed PROVE Skipped /\ sample.window = <<>>
      BY DEF LeftAlone
    <2>1. Len(own) = 1 /\ own[1] \in Body!SkipCodes
      BY <1>1, SamePredicates, Zenon DEF Capture!EveryAbsenceExplained
    <2>2. 1 \in DOMAIN own
      BY <1>2, <2>1, LenProperties
    <2>3. sample = Capture!NoSample
      BY <1>1 DEF Capture!BoundsInv
    <2>4. sample.window = <<>>
      BY <2>3 DEF Capture!NoSample
    <2> HIDE DEF own
    <2> QED BY <1>3, <2>1, <2>2, <2>4, Zenon DEF Skipped
  <1>5. SayWhenEncoded
    BY <1>1, <1>3, SamePredicates, Zenon DEF SayWhenEncoded, Capture!EveryAbsenceExplained
  <1>6. WholeOrWarned
    <2> SUFFICES ASSUME sample.analyzed, Body!IsDecodedForStructuredAnalysis, req.honest
                 PROVE  /\ data.codings = <<>>
                        /\ Body!OneLayer \/ ~req.members =>
                             data.size = 0 \/ data.whole \/ warnings # <<>>
      BY DEF WholeOrWarned
    <2>1. Capture!IsDecodedForStructuredAnalysis
      BY SamePredicates
    <2>2. ASSUME sample.decoded PROVE data.codings = <<>>
      BY <1>1, <2>2, Zenon DEF Capture!DecodesAllOrNothing
    <2>3. ASSUME ~sample.decoded PROVE data.codings = <<>>
      <3>1. data = wire /\ Capture!ParseContentEncodings(req.header) = <<>>
        BY <1>1, <2>1, <2>3, Zenon
        DEF Capture!DecodesAllOrNothing, Capture!IsDecodedForStructuredAnalysis,
            Capture!HasActiveContentEncoding
      <3>2. wire.codings = Capture!Parsed
        BY <1>1, Zenon DEF Capture!BoundsInv
      <3> QED BY <3>1, <3>2, Zenon DEF Capture!Parsed
    <2>4. ASSUME Body!OneLayer \/ ~req.members
          PROVE  data.size = 0 \/ data.whole \/ warnings # <<>>
      <3>1. Capture!Simple
        BY <2>4, SamePredicates, Zenon DEF Capture!Simple
      <3>2. data.size = 0 \/ data.whole \/ \E code : Capture!Warned(code)
        BY <1>1, <2>1, <3>1, Zenon DEF Capture!EmptyOrFlagged
      <3> QED BY <1>3, <3>2, Zenon
    <2> QED BY <2>2, <2>3, <2>4
  <1>7. Sampled
    <2> SUFFICES ASSUME sample.analyzed
                 PROVE  /\ Len(sample.window) =
                             IF data.size > cfg.sampleBytes THEN cfg.sampleBytes ELSE data.size
                        /\ sample.sampled <=> Len(sample.window) < data.size
                        /\ sample.decoded \/ data.size = wire.size
      BY DEF Sampled
    <2>1. /\ Len(sample.window) = Capture!AtMost(data.size, cfg.sampleBytes)
          /\ sample.sampled <=> Len(sample.window) < data.size
      BY <1>1, Zenon DEF Capture!SampleWithinWindow
    <2>2. sample.decoded \/ data = wire
      BY <1>1, Zenon DEF Capture!DecodesAllOrNothing
    <2> QED BY <2>1, <2>2, SamePredicates, Zenon
  <1>8. CaptureTypes
    BY <1>1 DEF CaptureTypes, Capture!TypeInv, Capture!BoundsInv, Capture!SampleType, Capture!Piece
  <1> QED BY <1>4, <1>5, <1>6, <1>7, <1>8 DEF CaptureFacts

\* The facts about the capture stay, whatever is warned of later.
LEMMA FactsStay ==
    ASSUME CaptureFacts, UNCHANGED capture,
           \A c : Warned(c) => Warned(c)', warnings # <<>> => warnings' # <<>>
    PROVE  CaptureFacts'
  <1>1. UNCHANGED <<req, cfg, phase, wire, data, todo, cut, sample>>
    BY DEF capture
  <1>2. /\ Body!IsDecodedForStructuredAnalysis' <=> Body!IsDecodedForStructuredAnalysis
        /\ Body!OneLayer' <=> Body!OneLayer
    BY <1>1, Zenon DEF Body!IsDecodedForStructuredAnalysis, Body!HasActiveContentEncoding,
                       Body!OneLayer
  <1>3. LeftAlone'
    BY <1>1, Zenon DEF CaptureFacts, LeftAlone, Skipped
  <1>4. SayWhenEncoded'
    BY <1>1, <1>2, Zenon DEF CaptureFacts, SayWhenEncoded
  <1>5. WholeOrWarned'
    BY <1>1, <1>2, Zenon DEF CaptureFacts, WholeOrWarned
  <1>6. Sampled' /\ CaptureTypes'
    BY <1>1 DEF CaptureFacts, Sampled, CaptureTypes
  <1> QED BY <1>3, <1>4, <1>5, <1>6 DEF CaptureFacts

-----------------------------------------------------------------------------
Late == {"entropy", "complexity", "charset", "serve", "served"}

TypeInv ==
    /\ step \in {"fingerprint", "capture"} \cup Late
    /\ opts.maxAnalyze \in Nat \ {0} /\ cfg.maxRead \in Nat \ {0} /\ cfg.sampleBytes \in Nat \ {0}
    /\ fingerprint \in {"nil", "set"}
    /\ complexity \in {"nil", "partial", "full"}
    /\ charset \in {"nil", "prefix", "sample"}

\* The last module that may have warned.
Level == CASE step \in {"entropy", "complexity"} -> 2
           [] step = "charset" -> 3
           [] OTHER -> 4

WarningsInv == step \in Late => warnings \in Seq(Codes) /\ Ordered(warnings, Level)

NoResult == entropy = NoEntropy /\ complexity = "nil" /\ charset = "nil"

StartInv == step \in {"fingerprint", "capture"} => meta = NoMeta /\ NoResult

\* The early return, when no analyzer needs the body.
UnreadInv ==
    step \in Late /\ ~NeedsBody => step \in {"serve", "served"} /\ meta = NoMeta /\ NoResult

FactsInv == step \in Late /\ NeedsBody => CaptureFacts /\ meta = MetaOfCapture

EntropyInv ==
    /\ step = "entropy" => entropy = NoEntropy
    /\ step \in {"complexity", "charset", "serve", "served"} /\ NeedsBody =>
         entropy = IF "entropy" \in enabled /\ sample.analyzed
                   THEN [present |-> TRUE, sampled |-> Len(sample.window), total |-> data.size]
                   ELSE NoEntropy

ComplexityInv ==
    step \in {"charset", "serve", "served"} /\ NeedsBody =>
      /\ ComplexityAbsenceExplained
      /\ complexity # "nil" => HasStructure
      /\ complexity = "partial" => warnings # <<>>

CharsetInv ==
    step \in {"serve", "served"} /\ NeedsBody =>
      /\ CharsetAbsenceExplained
      /\ charset # "nil" => sample.analyzed /\ Body!IsDecodedForStructuredAnalysis

IInv == /\ TypeInv /\ CaptureInv /\ WarningsInv /\ StartInv /\ UnreadInv /\ FactsInv
        /\ EntropyInv /\ ComplexityInv /\ CharsetInv

-----------------------------------------------------------------------------
\* No warning and one warning are in order.
LEMMA OrderedOne == Ordered(<<>>, 4) /\ Ordered(<<Fallback>>, 4)
  <1>1. DOMAIN <<>> = {} /\ Len(<<>>) = 0 /\ DOMAIN <<Fallback>> = {1} /\ Len(<<Fallback>>) = 1
        /\ <<Fallback>>[1] = Fallback
    OBVIOUS
  <1>2. IsInjective(<<>>) /\ IsInjective(<<Fallback>>)
    BY <1>1 DEF IsInjective
  <1> QED BY <1>1, <1>2, Stages DEF Ordered

\* A request arrives in a state of the invariant.
LEMMA InitInv == Init => IInv
  <1> SUFFICES ASSUME Init PROVE IInv
    OBVIOUS
  <1>1. /\ Body!Init /\ opts \in Options /\ step = "fingerprint" /\ meta = NoMeta
        /\ fingerprint = "nil" /\ entropy = NoEntropy /\ complexity = "nil" /\ charset = "nil"
    BY DEF Init
  <1>2. warnings = <<>> /\ cfg.maxRead \in MaxReads /\ cfg.sampleBytes \in SampleSizes
    BY <1>1 DEF Body!Init
  <1>3. before = 0 /\ own = <<>>
    <2>1. before = 0
      BY <1>1 DEF before
    <2>2. SubSeq(<<>>, 1, 0) = <<>>
      BY SubSeqEmpty
    <2>3. 0 + 1 = 1 /\ Len(<<>>) = 0
      OBVIOUS
    <2> QED BY <1>2, <2>1, <2>2, <2>3 DEF own
  <1>4. Capture!Inv /\ Capture!BoundsInv
    BY <1>1, <1>3, CaptureStarts, Zenon
  <1>5. CaptureInv
    <2>1. <<>> \in Seq(Codes) /\ 0 <= Len(<<>>)
      OBVIOUS
    <2>2. warnings \in Seq(Codes) /\ before <= Len(warnings) /\ before # 1
      BY <1>2, <1>3, <2>1
    <2> HIDE DEF before, own
    <2> QED BY <1>1, <1>2, <1>4, <2>2 DEF CaptureInv
  <1>6. TypeInv
    <2>1. opts.maxAnalyze \in Nat \ {0}
      BY <1>1, PipelineAssumption
    <2>2. cfg.maxRead \in Nat \ {0} /\ cfg.sampleBytes \in Nat \ {0}
      BY <1>2, CaptureAssumption DEF Body!ParametersAssumption
    <2> QED BY <1>1, <2>1, <2>2 DEF TypeInv
  <1> QED BY <1>1, <1>5, <1>6
          DEF IInv, WarningsInv, StartInv, NoResult, UnreadInv, FactsInv, EntropyInv,
              ComplexityInv, CharsetInv, Late

\* The fingerprint, with or without its warning, and what comes next.
LEMMA FingerprintStep == IInv /\ AnalyzeFingerprint => IInv'
  <1> SUFFICES ASSUME IInv, AnalyzeFingerprint PROVE IInv'
    OBVIOUS
  <1> DEFINE says == "fingerprint" \in enabled /\ ~opts.knownHash
  <1>1. /\ step = "fingerprint" /\ step' = (IF NeedsBody THEN "capture" ELSE "serve")
        /\ fingerprint' \in {"nil", "set"}
        /\ UNCHANGED <<req, cfg, phase, wire, data, todo, cut, sample>>
        /\ UNCHANGED <<kind, parses, enabled, opts, meta, entropy, complexity, charset>>
    BY DEF AnalyzeFingerprint, capture, config
  <1>2. /\ warnings = <<>> /\ meta = NoMeta /\ NoResult /\ TypeInv
        /\ Capture!Inv /\ Capture!BoundsInv
    BY <1>1, Zenon DEF IInv, CaptureInv, StartInv
  <1>3. warnings' = IF says THEN <<Fallback>> ELSE <<>>
    <2>1. Say(IF says THEN Fallback ELSE "none")
      BY DEF AnalyzeFingerprint, Fallback
    <2>2. Append(<<>>, Fallback) = <<Fallback>>
      OBVIOUS
    <2>3. Fallback # "none"
      BY DEF Fallback
    <2> QED BY <1>2, <2>1, <2>2, <2>3, Zenon DEF Say
  <1>4. NeedsBody' <=> NeedsBody
    BY <1>1 DEF NeedsBody
  <1>5. TypeInv'
    BY <1>1, <1>2 DEF TypeInv, Late
  <1>6. Len(warnings') = (IF says THEN 1 ELSE 0) /\ warnings' \in Seq(Codes)
        /\ (says => warnings'[1] = Fallback)
    <2>1. <<>> \in Seq(Codes) /\ <<Fallback>> \in Seq(Codes)
      BY DEF Codes
    <2> QED BY <1>3, <2>1
  <1>7. CASE NeedsBody
    <2>1. step' = "capture" /\ before' = (IF says THEN 1 ELSE 0) /\ before = 0
      BY <1>1, <1>7 DEF before
    <2> HIDE DEF says
    <2>2. own = <<>> /\ own' = <<>>
      <3>1. \A s : \A m, n \in Int : n < m => SubSeq(s, m, n) = <<>>
        BY SubSeqEmpty
      <3>2. own = SubSeq(<<>>, 1, 0)
        BY <1>2, <2>1 DEF own
      <3>3. own' = SubSeq(warnings', before' + 1, Len(warnings'))
        BY DEF own
      <3>4. before' + 1 \in Int /\ Len(warnings') \in Int /\ Len(warnings') < before' + 1
        BY <1>6, <2>1
      <3>5. own = <<>>
        BY <3>1, <3>2
      <3>6. own' = <<>>
        BY <3>1, <3>3, <3>4, Zenon
      <3> QED BY <3>5, <3>6
    <2>3. UNCHANGED Capture!vars
      BY <1>1, <2>2, Zenon DEF Capture!vars
    <2>4. Capture!Inv' /\ Capture!BoundsInv'
      BY <1>2, <2>3, CaptureKeeps, Zenon
    <2>5. before' <= Len(warnings') /\ (before' = 1 => warnings'[1] = Fallback)
      BY <1>6, <2>1
    <2>6. CaptureInv'
      BY <1>4, <1>6, <1>7, <2>1, <2>4, <2>5, Zenon DEF CaptureInv
    <2>7. StartInv'
      BY <1>1, <1>2 DEF StartInv, NoResult
    <2> QED BY <1>5, <2>1, <2>6, <2>7
            DEF IInv, WarningsInv, UnreadInv, FactsInv, EntropyInv, ComplexityInv, CharsetInv, Late
  <1>8. CASE ~NeedsBody
    <2>1. step' = "serve"
      BY <1>1, <1>8
    <2>2. Ordered(warnings', 4) /\ Level' = 4
      BY <1>3, <2>1, OrderedOne DEF Level
    <2>3. WarningsInv'
      BY <1>6, <2>2, Zenon DEF WarningsInv
    <2>4. UnreadInv'
      BY <1>1, <1>2, <2>1 DEF UnreadInv, NoResult
    <2> QED BY <1>4, <1>5, <1>8, <2>1, <2>3, <2>4
            DEF IInv, CaptureInv, StartInv, FactsInv, EntropyInv, ComplexityInv, CharsetInv
  <1> QED BY <1>7, <1>8

\* No step of the capture changes what the pipeline keeps.
LEMMA CaptureStepInv == IInv /\ CaptureStep => IInv'
  <1> SUFFICES ASSUME IInv, CaptureStep PROVE IInv'
    OBVIOUS
  <1>1. /\ step = "capture" /\ step' = "capture" /\ Body!Next
        /\ UNCHANGED <<kind, parses, enabled, opts, meta, fingerprint, entropy, complexity, charset>>
    BY DEF CaptureStep, config, results
  <1>2. CaptureInv'
    BY CaptureStepKeeps DEF IInv
  <1>3. UNCHANGED cfg
    BY <1>1, Zenon DEF Body!Next, Body!SkipBody, Body!ReadLimitedBody, Body!DecodingFails,
                       Body!DecodeLayer, Body!Finish
  <1>4. TypeInv' /\ StartInv'
    BY <1>1, <1>3 DEF IInv, TypeInv, StartInv, NoResult, Late
  <1> QED BY <1>1, <1>2, <1>4
          DEF IInv, WarningsInv, UnreadInv, FactsInv, EntropyInv, ComplexityInv, CharsetInv, Late

\* The fields of MetaInfo are those of the capture that has returned.
LEMMA RecordStep == IInv /\ RecordCapture => IInv'
  <1> SUFFICES ASSUME IInv, RecordCapture PROVE IInv'
    OBVIOUS
  <1>1. /\ step = "capture" /\ step' = "entropy" /\ phase = "done" /\ meta' = MetaOfCapture
        /\ UNCHANGED capture /\ UNCHANGED <<warnings, kind, parses, enabled, opts>>
        /\ UNCHANGED <<fingerprint, entropy, complexity, charset>>
    BY DEF RecordCapture, config, results
  <1>2. UNCHANGED <<req, cfg, phase, wire, data, todo, cut, sample>>
    BY <1>1 DEF capture
  <1>3. CaptureFacts
    BY <1>1, CaptureDone DEF IInv
  <1>4. CaptureFacts'
    <2>1. \A c : Warned(c) => Warned(c)'
      BY <1>1, Zenon DEF Warned, Contains
    <2> QED BY <1>1, <1>3, <2>1, FactsStay
  <1>5. FactsInv'
    BY <1>1, <1>2, <1>4 DEF FactsInv, MetaOfCapture
  <1>6. WarningsInv'
    <2>1. Ordered(warnings, 2) /\ warnings \in Seq(Codes)
      BY <1>1, CaptureOrdered DEF IInv, CaptureInv
    <2>2. Level' = 2
      BY <1>1 DEF Level
    <2> QED BY <1>1, <2>1, <2>2, Zenon DEF WarningsInv
  <1>7. TypeInv'
    BY <1>1, <1>2 DEF IInv, TypeInv, Late
  <1>8. UnreadInv' /\ EntropyInv'
    BY <1>1 DEF IInv, CaptureInv, StartInv, NoResult, UnreadInv, EntropyInv, NeedsBody
  <1> QED BY <1>1, <1>5, <1>6, <1>7, <1>8
          DEF IInv, CaptureInv, StartInv, ComplexityInv, CharsetInv

\* After the capture only the step, the warnings and the results change.
LEMMA LateStep ==
    ASSUME IInv, step \in {"entropy", "complexity", "charset"}, step' \in Late,
           UNCHANGED capture, UNCHANGED <<kind, parses, enabled, opts, meta>>,
           NEW code \in Codes \cup {"none"}, Say(code)
    PROVE  /\ NeedsBody /\ NeedsBody' /\ CaptureFacts /\ warnings \in Seq(Codes)
           /\ CaptureInv' /\ StartInv' /\ UnreadInv' /\ FactsInv'
           /\ \A c : Warned(c) => Warned(c)'
           /\ warnings' \in Seq(Codes)
           /\ warnings # <<>> => warnings' # <<>>
           /\ code # "none" => Warned(code)' /\ warnings' # <<>>
  <1>1. NeedsBody
    BY DEF IInv, UnreadInv, Late
  <1>2. NeedsBody'
    BY <1>1 DEF NeedsBody
  <1>3. CaptureFacts /\ meta = MetaOfCapture /\ warnings \in Seq(Codes)
    BY <1>1 DEF IInv, FactsInv, WarningsInv, Late
  <1>4. /\ warnings' \in Seq(Codes)
        /\ \A c : Warned(c) => Warned(c)'
        /\ warnings # <<>> => warnings' # <<>>
        /\ code # "none" => Warned(code)' /\ warnings' # <<>>
    BY <1>3, SayKeeps
  <1>5. CaptureFacts'
    BY <1>3, <1>4, FactsStay
  <1>6. meta' = MetaOfCapture'
    BY <1>3 DEF MetaOfCapture, capture
  <1>7. FactsInv'
    BY <1>5, <1>6 DEF FactsInv
  <1>8. CaptureInv' /\ StartInv' /\ UnreadInv'
    BY <1>2 DEF CaptureInv, StartInv, UnreadInv, Late
  <1> QED BY <1>1, <1>2, <1>3, <1>4, <1>7, <1>8

\* The entropy is that of what was captured.
LEMMA EntropyStep == IInv /\ AnalyzeEntropy => IInv'
  <1> SUFFICES ASSUME IInv, AnalyzeEntropy PROVE IInv'
    OBVIOUS
  <1>1. /\ step = "entropy" /\ step' = "complexity" /\ UNCHANGED capture
        /\ entropy' = (IF "entropy" \in enabled /\ sample.analyzed
                       THEN [present |-> TRUE, sampled |-> Len(sample.window), total |-> data.size]
                       ELSE NoEntropy)
        /\ UNCHANGED <<warnings, kind, parses, enabled, opts, meta, fingerprint, complexity, charset>>
    BY DEF AnalyzeEntropy, config
  <1>2. UNCHANGED <<req, cfg, phase, wire, data, todo, cut, sample>>
    BY <1>1 DEF capture
  <1>3. Say("none")
    BY <1>1 DEF Say
  <1>4. CaptureInv' /\ StartInv' /\ UnreadInv' /\ FactsInv' /\ warnings \in Seq(Codes)
    BY <1>1, <1>3, LateStep DEF Late
  <1>5. WarningsInv'
    <2>1. Level = 2 /\ Level' = 2
      BY <1>1 DEF Level
    <2> QED BY <1>1, <1>4, <2>1 DEF IInv, WarningsInv, Late
  <1>6. TypeInv' /\ EntropyInv'
    BY <1>1, <1>2 DEF IInv, TypeInv, EntropyInv, Late
  <1> QED BY <1>1, <1>4, <1>5, <1>6 DEF IInv, ComplexityInv, CharsetInv

\* A step that may warn of a later module.
LEMMA SayLevel ==
    ASSUME WarningsInv, step \in Late, NEW code \in Codes \cup {"none"}, Say(code),
           NEW n \in 1 .. 3, Level = n, Level' = n + 1,
           code # "none" => Stage(code) = n + 1
    PROVE  WarningsInv'
  <1>1. warnings \in Seq(Codes) /\ Ordered(warnings, n)
    BY Zenon DEF WarningsInv
  <1>2. CASE code = "none"
    <2>1. Ordered(warnings, n + 1)
      <3>1. n \in 1 .. 4 /\ n + 1 \in n .. 4
        OBVIOUS
      <3> QED BY <1>1, <3>1, OrderedLater, Zenon
    <2>2. warnings' = warnings
      BY <1>2 DEF Say
    <2> QED BY <1>1, <2>1, <2>2, Zenon DEF WarningsInv
  <1>3. CASE code # "none"
    <2>1. warnings' = Append(warnings, code) /\ code \in Codes /\ Stage(code) = n + 1
      BY <1>3 DEF Say
    <2>2. Stage(code) \in n + 1 .. 4
      BY <2>1
    <2>3. Append(warnings, code) \in Seq(Codes) /\ Ordered(Append(warnings, code), Stage(code))
      BY <1>1, <2>1, <2>2, SayOrdered
    <2> QED BY <2>1, <2>3, Zenon DEF WarningsInv
  <1> QED BY <1>2, <1>3

\* What an analyzer of structured data may leave, and what it says then.
LEMMA OutcomeFacts ==
    ASSUME NEW o \in IF "complexity" \in enabled THEN ComplexityOutcomes ELSE {Outcome("nil", "none")}
    PROVE  /\ o.result \in {"nil", "partial", "full"} /\ o.code \in ComplexityCodes \cup {"none"}
           /\ o.result # "nil" => HasStructure
           /\ o.result = "partial" => o.code # "none"
           /\ "complexity" \in enabled /\ o.result = "nil" =>
                ~HasStructure \/ ~Dispatched \/ (kind = "form" /\ ~parses)
                  \/ o.code = "complexity_parse_failed"
  <1>1. CASE "complexity" \in enabled /\ HasStructure /\ Dispatched
    <2>1. /\ kind \in {"json", "form", "xml", "multipart"}
          /\ o \in CASE kind = "json"      -> JSONOutcomes
                     [] kind = "form"      -> FormOutcomes
                     [] kind = "xml"       -> XMLOutcomes
                     [] kind = "multipart" -> MultipartOutcomes
      BY <1>1 DEF ComplexityOutcomes, Dispatched
    <2>2. CASE kind = "form"
      <3>1. o = IF parses THEN Outcome("full", "none") ELSE Outcome("nil", "none")
        BY <2>1, <2>2 DEF FormOutcomes
      <3> QED BY <1>1, <2>2, <3>1 DEF Outcome, ComplexityCodes
    <2>3. CASE kind # "form"
      <3>1. o \in JSONOutcomes \cup XMLOutcomes \cup MultipartOutcomes
        BY <2>1, <2>3
      <3>2. o \in {Outcome("full", "none"), Outcome("partial", "complexity_limit_exceeded"),
                   Outcome("nil", "complexity_parse_failed"),
                   Outcome("partial", "complexity_parse_failed")}
        BY <3>1 DEF JSONOutcomes, XMLOutcomes, MultipartOutcomes
      <3> QED BY <1>1, <3>2 DEF Outcome, ComplexityCodes
    <2> QED BY <2>2, <2>3
  <1>2. CASE ~("complexity" \in enabled /\ HasStructure /\ Dispatched)
    <2>1. o = Outcome("nil", "none")
      BY <1>2 DEF ComplexityOutcomes
    <2> QED BY <1>2, <2>1 DEF Outcome
  <1> QED BY <1>1, <1>2

\* The complexity is that of decoded data, or its absence has a reason.
LEMMA ComplexityStep == IInv /\ AnalyzeComplexity => IInv'
  <1> SUFFICES ASSUME IInv, AnalyzeComplexity PROVE IInv'
    OBVIOUS
  <1>1. /\ step = "complexity" /\ step' = "charset" /\ UNCHANGED capture
        /\ UNCHANGED <<kind, parses, enabled, opts, meta, fingerprint, entropy, charset>>
    BY DEF AnalyzeComplexity, config
  <1>2. PICK o \in IF "complexity" \in enabled THEN ComplexityOutcomes ELSE {Outcome("nil", "none")} :
          complexity' = o.result /\ Say(o.code)
    BY Zenon DEF AnalyzeComplexity
  <1>3. UNCHANGED <<req, cfg, phase, wire, data, todo, cut, sample>>
    BY <1>1 DEF capture
  <1>4. /\ o.result \in {"nil", "partial", "full"} /\ o.code \in ComplexityCodes \cup {"none"}
        /\ o.result # "nil" => HasStructure
        /\ o.result = "partial" => o.code # "none"
        /\ "complexity" \in enabled /\ o.result = "nil" =>
             ~HasStructure \/ ~Dispatched \/ (kind = "form" /\ ~parses)
                  \/ o.code = "complexity_parse_failed"
    BY <1>2, OutcomeFacts
  <1>5. o.code \in Codes \cup {"none"}
    BY <1>4 DEF Codes
  <1>6. /\ NeedsBody /\ NeedsBody' /\ CaptureFacts
        /\ CaptureInv' /\ StartInv' /\ UnreadInv' /\ FactsInv'
        /\ \A c : Warned(c) => Warned(c)'
        /\ o.code # "none" => Warned(o.code)' /\ warnings' # <<>>
    BY <1>1, <1>2, <1>5, LateStep DEF Late
  <1>7. WarningsInv'
    <2>1. Level = 2 /\ Level' = 3 /\ 2 \in 1 .. 3 /\ 2 + 1 = 3
      BY <1>1 DEF Level
    <2>2. o.code # "none" => Stage(o.code) = 3
      BY <1>4, Stages
    <2>3. WarningsInv /\ step \in Late
      BY <1>1 DEF IInv, Late
    <2> QED BY <1>2, <1>5, <2>1, <2>2, <2>3, SayLevel
  <1>8. TypeInv'
    BY <1>1, <1>2, <1>3, <1>4 DEF IInv, TypeInv, Late
  <1>9. EntropyInv'
    BY <1>1, <1>3, <1>6 DEF IInv, EntropyInv
  <1>10. ComplexityInv'
    <2>1. (HasStructure' <=> HasStructure) /\ (Dispatched' <=> Dispatched)
          /\ (CapturedNothing' <=> CapturedNothing)
      BY <1>1, <1>3, Zenon DEF HasStructure, Dispatched, CapturedNothing,
         Body!IsDecodedForStructuredAnalysis, Body!HasActiveContentEncoding
    <2>2. ComplexityAbsenceExplained'
      <3> SUFFICES ASSUME "complexity" \in enabled, o.result = "nil"
                   PROVE  \/ Skipped'
                          \/ Warned("body_encoded_not_decoded")' \/ Warned("complexity_parse_failed")'
                          \/ CapturedNothing \/ ~opts.supported \/ ~Dispatched
                          \/ kind = "form" /\ ~parses
        BY <1>1, <1>2, <2>1, Zenon DEF ComplexityAbsenceExplained
      <3>1. CASE o.code = "complexity_parse_failed"
        BY <1>6, <3>1
      <3>2. CASE ~HasStructure
        <4>1. CASE ~sample.analyzed
          <5>1. Skipped
            BY <1>6, <4>1 DEF CaptureFacts, LeftAlone
          <5> QED BY <1>6, <5>1, Zenon DEF Skipped
        <4>2. CASE sample.analyzed /\ ~Body!IsDecodedForStructuredAnalysis
          <5>1. Warned("body_encoded_not_decoded")
            BY <1>6, <4>2 DEF CaptureFacts, SayWhenEncoded
          <5> QED BY <1>6, <5>1
        <4>3. CASE sample.analyzed /\ ~(data.size > 0)
          BY <1>6, <4>3 DEF CaptureFacts, CaptureTypes, CapturedNothing
        <4> QED BY <3>2, <4>1, <4>2, <4>3 DEF HasStructure
      <3> QED BY <1>4, <3>1, <3>2
    <2>3. complexity' # "nil" => HasStructure'
      BY <1>2, <1>4, <2>1
    <2>4. complexity' = "partial" => warnings' # <<>>
      BY <1>2, <1>4, <1>6
    <2> QED BY <2>2, <2>3, <2>4 DEF ComplexityInv
  <1>11. CharsetInv'
    BY <1>1 DEF CharsetInv
  <1> QED BY <1>6, <1>7, <1>8, <1>9, <1>10, <1>11 DEF IInv

\* A cut at MaxAnalyzeBytes leaves nothing of a sample only when it may fall
\* inside the first rune.
LEMMA NothingAnalyzed ==
    ASSUME CaptureTypes, opts.maxAnalyze \in Nat, 0 \in AnalyzedLengths, sample.window # <<>>
    PROVE  opts.maxAnalyze < 4 /\ Len(sample.window) > opts.maxAnalyze
  <1>1. Len(sample.window) \in Nat /\ Len(sample.window) # 0
    BY LenProperties, EmptySeq DEF CaptureTypes
  <1>2. 0 \in opts.maxAnalyze - 3 .. opts.maxAnalyze /\ ~(Len(sample.window) <= opts.maxAnalyze)
    BY <1>1 DEF AnalyzedLengths
  <1> QED BY <1>1, <1>2

\* A captured body of which the sample holds nothing is empty.
LEMMA EmptySample ==
    ASSUME CaptureTypes, Sampled, sample.analyzed, sample.window = <<>>,
           cfg.sampleBytes \in Nat \ {0}
    PROVE  CapturedNothing
  <1>1. Len(sample.window) = 0
    OBVIOUS
  <1>2. data.size \in Nat
    BY DEF CaptureTypes
  <1>3. 0 = IF data.size > cfg.sampleBytes THEN cfg.sampleBytes ELSE data.size
    BY <1>1 DEF Sampled
  <1> QED BY <1>2, <1>3 DEF CapturedNothing

\* The cut at MaxAnalyzeBytes may have left nothing of the sample.
CutToNothing == opts.maxAnalyze < 4 /\ Len(sample.window) > opts.maxAnalyze

\* What the charset analysis may leave, and what it says then.
LEMMA CharsetOutcome ==
    ASSUME AnalyzeCharset, CaptureFacts,
           opts.maxAnalyze \in Nat \ {0}, cfg.sampleBytes \in Nat \ {0}
    PROVE  \E code \in CharsetCodes \cup {"none"} :
             /\ Say(code)
             /\ charset' \in {"nil", "prefix", "sample"}
             /\ charset' # "nil" => sample.analyzed /\ Body!IsDecodedForStructuredAnalysis
             /\ "charset" \in enabled /\ charset' = "nil" =>
                  \/ Skipped \/ Warned("body_encoded_not_decoded")
                  \/ CapturedNothing \/ ~IsText \/ CutToNothing
  <1> DEFINE runs == /\ "charset" \in enabled
                     /\ sample.analyzed /\ sample.window # <<>> /\ IsText
                     /\ Body!IsDecodedForStructuredAnalysis
             Explained == \/ Skipped \/ Warned("body_encoded_not_decoded")
                          \/ CapturedNothing \/ ~IsText \/ CutToNothing
             Good(code) ==
               /\ Say(code)
               /\ charset' \in {"nil", "prefix", "sample"}
               /\ charset' # "nil" => sample.analyzed /\ Body!IsDecodedForStructuredAnalysis
               /\ "charset" \in enabled /\ charset' = "nil" => Explained
  <1>1. IF runs
        THEN \E n \in AnalyzedLengths :
               IF n = 0 THEN charset' = "nil" /\ Say("none")
               ELSE /\ charset' = IF n = Len(sample.window) THEN "sample" ELSE "prefix"
                    /\ \E code \in FormatOutcomes : Say(code)
        ELSE charset' = "nil" /\ Say("none")
    BY Zenon DEF AnalyzeCharset
  <1>2. CASE runs
    <2>1. PICK n \in AnalyzedLengths :
            IF n = 0 THEN charset' = "nil" /\ Say("none")
            ELSE /\ charset' = IF n = Len(sample.window) THEN "sample" ELSE "prefix"
                 /\ \E code \in FormatOutcomes : Say(code)
      BY <1>1, <1>2, Zenon
    <2>2. CASE n = 0
      <3>1. CutToNothing
        BY <1>2, <2>2, NothingAnalyzed DEF CaptureFacts, CutToNothing
      <3>2. Good("none")
        BY <2>1, <2>2, <3>1, Zenon
      <3> QED BY <3>2
    <2>3. CASE n # 0
      <3>1. PICK code \in FormatOutcomes : Say(code)
        BY <2>1, <2>3, Zenon
      <3>2. code \in CharsetCodes \cup {"none"}
        BY DEF FormatOutcomes, CharsetCodes
      <3>3. charset' \in {"prefix", "sample"}
        BY <2>1, <2>3
      <3>4. Good(code)
        BY <1>2, <3>1, <3>3
      <3> QED BY <3>2, <3>4, Zenon
    <2> QED BY <2>2, <2>3
  <1>3. CASE ~runs
    <2>1. charset' = "nil" /\ Say("none")
      BY <1>1, <1>3, Zenon
    <2>2. ASSUME "charset" \in enabled PROVE Explained
      <3>1. CASE ~sample.analyzed
        BY <3>1 DEF CaptureFacts, LeftAlone
      <3>2. CASE sample.analyzed /\ ~Body!IsDecodedForStructuredAnalysis
        BY <3>2 DEF CaptureFacts, SayWhenEncoded
      <3>3. CASE sample.analyzed /\ sample.window = <<>>
        BY <3>3, EmptySample DEF CaptureFacts
      <3> QED BY <1>3, <2>2, <3>1, <3>2, <3>3
    <2>3. Good("none")
      BY <2>1, <2>2, Zenon
    <2> QED BY <2>3
  <1> QED BY <1>2, <1>3, Zenon

\* The charset is that of decoded data, or its absence has a reason.
LEMMA CharsetStep == IInv /\ AnalyzeCharset => IInv'
  <1> SUFFICES ASSUME IInv, AnalyzeCharset PROVE IInv'
    OBVIOUS
  <1>1. /\ step = "charset" /\ step' = "serve" /\ UNCHANGED capture
        /\ UNCHANGED <<kind, parses, enabled, opts, meta, fingerprint, entropy, complexity>>
    BY DEF AnalyzeCharset, config
  <1>2. UNCHANGED <<req, cfg, phase, wire, data, todo, cut, sample>>
    BY <1>1 DEF capture
  <1>3. CaptureFacts /\ opts.maxAnalyze \in Nat \ {0} /\ cfg.sampleBytes \in Nat \ {0}
    BY <1>1 DEF IInv, TypeInv, UnreadInv, FactsInv, Late
  <1>4. PICK code \in CharsetCodes \cup {"none"} :
          /\ Say(code)
          /\ charset' \in {"nil", "prefix", "sample"}
          /\ charset' # "nil" => sample.analyzed /\ Body!IsDecodedForStructuredAnalysis
          /\ "charset" \in enabled /\ charset' = "nil" =>
               \/ Skipped \/ Warned("body_encoded_not_decoded")
               \/ CapturedNothing \/ ~IsText \/ CutToNothing
    BY <1>3, CharsetOutcome, Zenon
  <1>5. code \in Codes \cup {"none"}
    BY DEF Codes
  <1>6. /\ NeedsBody /\ NeedsBody'
        /\ CaptureInv' /\ StartInv' /\ UnreadInv' /\ FactsInv'
        /\ \A c : Warned(c) => Warned(c)'
        /\ warnings # <<>> => warnings' # <<>>
    BY <1>1, <1>4, <1>5, LateStep DEF Late
  <1>7. WarningsInv'
    <2>1. Level = 3 /\ Level' = 4 /\ 3 \in 1 .. 3 /\ 3 + 1 = 4
      BY <1>1 DEF Level
    <2>2. code # "none" => Stage(code) = 4
      BY Stages
    <2>3. WarningsInv /\ step \in Late
      BY <1>1 DEF IInv, Late
    <2> QED BY <1>4, <1>5, <2>1, <2>2, <2>3, SayLevel
  <1>8. TypeInv'
    BY <1>1, <1>2, <1>4 DEF IInv, TypeInv, Late
  <1>9. EntropyInv'
    BY <1>1, <1>2, <1>6 DEF IInv, EntropyInv
  <1>10. /\ Skipped => Skipped'
         /\ CapturedNothing' <=> CapturedNothing
         /\ Body!IsDecodedForStructuredAnalysis' <=> Body!IsDecodedForStructuredAnalysis
         /\ HasStructure' <=> HasStructure
         /\ Dispatched' <=> Dispatched
         /\ IsText' <=> IsText
    BY <1>1, <1>2, <1>6, Zenon DEF Skipped, CapturedNothing, HasStructure, Dispatched, IsText,
       Body!IsDecodedForStructuredAnalysis, Body!HasActiveContentEncoding
  <1>11. ComplexityInv'
    <2>1. /\ ComplexityAbsenceExplained
          /\ complexity # "nil" => HasStructure
          /\ complexity = "partial" => warnings # <<>>
      BY <1>1, <1>6 DEF IInv, ComplexityInv
    <2>2. ComplexityAbsenceExplained'
      BY <1>1, <1>6, <1>10, <2>1, Zenon DEF ComplexityAbsenceExplained
    <2> QED BY <1>1, <1>6, <1>10, <2>1, <2>2, Zenon DEF ComplexityInv
  <1>12. CharsetInv'
    <2>1. CharsetAbsenceExplained'
      BY <1>1, <1>2, <1>4, <1>6, <1>10, Zenon DEF CharsetAbsenceExplained, CutToNothing
    <2>2. charset' # "nil" => sample'.analyzed /\ Body!IsDecodedForStructuredAnalysis'
      BY <1>2, <1>4, <1>10, Zenon
    <2> QED BY <2>1, <2>2 DEF CharsetInv
  <1> QED BY <1>6, <1>7, <1>8, <1>9, <1>11, <1>12 DEF IInv

\* The handler is called with what there is.
LEMMA ServeStep == IInv /\ Serve => IInv'
  <1> SUFFICES ASSUME IInv, Serve PROVE IInv'
    OBVIOUS
  <1>1. /\ step = "serve" /\ step' = "served" /\ UNCHANGED <<capture, warnings, meta>>
        /\ UNCHANGED <<kind, parses, enabled, opts, fingerprint, entropy, complexity, charset>>
    BY DEF Serve, config, results
  <1>2. UNCHANGED <<req, cfg, phase, wire, data, todo, cut, sample>>
    BY <1>1 DEF capture
  <1>3. NeedsBody' <=> NeedsBody
    BY <1>1 DEF NeedsBody
  <1>4. \A c : Warned(c)' <=> Warned(c)
    BY <1>1, Zenon DEF Warned, Contains
  <1>5. FactsInv'
    <2> SUFFICES ASSUME NeedsBody PROVE CaptureFacts' /\ meta' = MetaOfCapture'
      BY <1>3 DEF FactsInv
    <2>1. CaptureFacts /\ meta = MetaOfCapture
      BY <1>1 DEF IInv, FactsInv, Late
    <2>2. CaptureFacts'
      BY <1>1, <1>4, <2>1, FactsStay
    <2> QED BY <1>1, <1>2, <2>1, <2>2 DEF MetaOfCapture
  <1>6. WarningsInv'
    <2>1. Level = 4 /\ Level' = 4
      BY <1>1 DEF Level
    <2> QED BY <1>1, <2>1 DEF IInv, WarningsInv, Late
  <1>7. TypeInv' /\ UnreadInv' /\ EntropyInv'
    BY <1>1, <1>2, <1>3 DEF IInv, TypeInv, UnreadInv, EntropyInv, NoResult, Late
  <1>8. ComplexityInv' /\ CharsetInv'
    <2>1. /\ Skipped' <=> Skipped
          /\ CapturedNothing' <=> CapturedNothing
          /\ Body!IsDecodedForStructuredAnalysis' <=> Body!IsDecodedForStructuredAnalysis
          /\ HasStructure' <=> HasStructure
          /\ Dispatched' <=> Dispatched
          /\ IsText' <=> IsText
      BY <1>1, <1>2, <1>4, Zenon DEF Skipped, CapturedNothing, HasStructure, Dispatched, IsText,
         Body!IsDecodedForStructuredAnalysis, Body!HasActiveContentEncoding
    <2>2. /\ ComplexityAbsenceExplained' <=> ComplexityAbsenceExplained
          /\ CharsetAbsenceExplained' <=> CharsetAbsenceExplained
      BY <1>1, <1>2, <1>4, <2>1, Zenon DEF ComplexityAbsenceExplained, CharsetAbsenceExplained
    <2>3. ASSUME NeedsBody'
          PROVE  /\ ComplexityAbsenceExplained' /\ CharsetAbsenceExplained'
                 /\ complexity' # "nil" => HasStructure'
                 /\ complexity' = "partial" => warnings' # <<>>
                 /\ charset' # "nil" => sample'.analyzed /\ Body!IsDecodedForStructuredAnalysis'
      <3>1. /\ ComplexityAbsenceExplained /\ CharsetAbsenceExplained
            /\ complexity # "nil" => HasStructure
            /\ complexity = "partial" => warnings # <<>>
            /\ charset # "nil" => sample.analyzed /\ Body!IsDecodedForStructuredAnalysis
        BY <1>1, <1>3, <2>3 DEF IInv, ComplexityInv, CharsetInv
      <3> QED BY <1>1, <1>2, <2>1, <2>2, <3>1, Zenon
    <2> QED BY <2>3, Zenon DEF ComplexityInv, CharsetInv
  <1> QED BY <1>1, <1>5, <1>6, <1>7, <1>8 DEF IInv, CaptureInv, StartInv

\* A step that changes nothing keeps the invariant.
LEMMA StutterStep == IInv /\ UNCHANGED vars => IInv'
  <1> SUFFICES ASSUME IInv, UNCHANGED vars PROVE IInv'
    OBVIOUS
  <1>1. /\ UNCHANGED <<capture, warnings, step, meta>>
        /\ UNCHANGED <<kind, parses, enabled, opts, fingerprint, entropy, complexity, charset>>
    BY DEF vars, config, results
  <1>2. UNCHANGED <<req, cfg, phase, wire, data, todo, cut, sample>>
    BY <1>1 DEF capture
  <1>3. NeedsBody' <=> NeedsBody
    BY <1>1 DEF NeedsBody
  <1>4. \A c : Warned(c)' <=> Warned(c)
    BY <1>1, Zenon DEF Warned, Contains
  <1>5. before' = before
    BY <1>1 DEF before
  <1>6. own' = own
    BY <1>1, <1>5, Zenon DEF own
  <1>7. CaptureInv'
    <2> SUFFICES ASSUME step \in {"fingerprint", "capture"} PROVE CaptureInv'
      BY <1>1 DEF CaptureInv
    <2>1. /\ Capture!Inv /\ Capture!BoundsInv
          /\ warnings \in Seq(Codes)
          /\ before <= Len(warnings)
          /\ before = 1 => warnings[1] = Fallback
          /\ step = "fingerprint" => warnings = <<>>
          /\ step = "capture" => NeedsBody
      BY DEF IInv, CaptureInv
    <2> HIDE DEF before, own
    <2>2. UNCHANGED Capture!vars
      BY <1>2, <1>6, Zenon DEF Capture!vars
    <2>3. Capture!Inv' /\ Capture!BoundsInv'
      BY <2>1, <2>2, CaptureKeeps, Zenon
    <2> QED BY <1>1, <1>3, <1>5, <2>1, <2>3, Zenon DEF CaptureInv
  <1>8. FactsInv'
    <2> SUFFICES ASSUME step \in Late, NeedsBody PROVE CaptureFacts' /\ meta' = MetaOfCapture'
      BY <1>1, <1>3 DEF FactsInv
    <2>1. CaptureFacts /\ meta = MetaOfCapture
      BY DEF IInv, FactsInv
    <2>2. CaptureFacts'
      BY <1>1, <1>4, <2>1, FactsStay
    <2> QED BY <1>1, <1>2, <2>1, <2>2 DEF MetaOfCapture
  <1>9. WarningsInv'
    BY <1>1 DEF IInv, WarningsInv, Level
  <1>10. TypeInv' /\ StartInv' /\ UnreadInv' /\ EntropyInv'
    BY <1>1, <1>2, <1>3 DEF IInv, TypeInv, StartInv, UnreadInv, EntropyInv, NoResult
  <1>11. ComplexityInv' /\ CharsetInv'
    <2>1. /\ Skipped' <=> Skipped
          /\ CapturedNothing' <=> CapturedNothing
          /\ Body!IsDecodedForStructuredAnalysis' <=> Body!IsDecodedForStructuredAnalysis
          /\ HasStructure' <=> HasStructure
          /\ Dispatched' <=> Dispatched
          /\ IsText' <=> IsText
      BY <1>1, <1>2, <1>4, Zenon DEF Skipped, CapturedNothing, HasStructure, Dispatched, IsText,
         Body!IsDecodedForStructuredAnalysis, Body!HasActiveContentEncoding
    <2>2. /\ ComplexityAbsenceExplained' <=> ComplexityAbsenceExplained
          /\ CharsetAbsenceExplained' <=> CharsetAbsenceExplained
      BY <1>1, <1>2, <1>4, <2>1, Zenon DEF ComplexityAbsenceExplained, CharsetAbsenceExplained
    <2>3. ComplexityInv'
      BY <1>1, <1>3, <2>1, <2>2, Zenon DEF IInv, ComplexityInv
    <2>4. CharsetInv'
      BY <1>1, <1>2, <1>3, <2>1, <2>2, Zenon DEF IInv, CharsetInv
    <2> QED BY <2>3, <2>4
  <1> QED BY <1>7, <1>8, <1>9, <1>10, <1>11 DEF IInv

-----------------------------------------------------------------------------
\* The invariant of the pipeline holds of every request: the capture keeps its
\* own, and every later step keeps what the capture left.
THEOREM PipelineInvariant == Spec => []IInv
  <1>1. Init => IInv
    BY InitInv
  <1>2. IInv /\ [Next]_vars => IInv'
    <2> SUFFICES ASSUME IInv, [Next]_vars PROVE IInv'
      OBVIOUS
    <2>1. CASE AnalyzeFingerprint
      BY <2>1, FingerprintStep
    <2>2. CASE CaptureStep
      BY <2>2, CaptureStepInv
    <2>3. CASE RecordCapture
      BY <2>3, RecordStep
    <2>4. CASE AnalyzeEntropy
      BY <2>4, EntropyStep
    <2>5. CASE AnalyzeComplexity
      BY <2>5, ComplexityStep
    <2>6. CASE AnalyzeCharset
      BY <2>6, CharsetStep
    <2>7. CASE Serve
      BY <2>7, ServeStep
    <2>8. CASE UNCHANGED vars
      BY <2>8, StutterStep
    <2> QED BY <2>1, <2>2, <2>3, <2>4, <2>5, <2>6, <2>7, <2>8 DEF Next
  <1> QED BY <1>1, <1>2, PTL DEF Spec

\* The warnings are in the order of the modules, none twice.
LEMMA WarningsInOrder ==
    ASSUME IInv
    PROVE  /\ \A i \in 2 .. Len(warnings) : Stage(warnings[i - 1]) <= Stage(warnings[i])
           /\ IsInjective(warnings)
  <1>1. CASE step \in Late
    BY <1>1, Zenon DEF IInv, WarningsInv, Ordered
  <1>2. CASE step \in {"fingerprint", "capture"}
    BY <1>2, CaptureOrdered, Zenon DEF IInv, Ordered
  <1> QED BY <1>1, <1>2 DEF IInv, TypeInv

\* The fields of MetaInfo and the entropy are numbers within the limits.
LEMMA NumbersWithinLimits ==
    ASSUME IInv
    PROVE  /\ meta \in [observed: 0 .. cfg.maxRead, sampled: BOOLEAN,
                        sampleBytes: 0 .. cfg.sampleBytes, truncated: BOOLEAN]
           /\ entropy \in [present: BOOLEAN, sampled: Nat, total: Nat]
  <1>1. cfg.maxRead \in Nat \ {0} /\ cfg.sampleBytes \in Nat \ {0}
    BY DEF IInv, TypeInv
  <1>2. CASE meta = NoMeta /\ NoResult
    BY <1>1, <1>2 DEF NoMeta, NoResult, NoEntropy
  <1>3. CASE step \in Late /\ NeedsBody
    <2>1. CaptureFacts /\ meta = MetaOfCapture
      BY <1>3 DEF IInv, FactsInv
    <2>2. Len(sample.window) \in 0 .. cfg.sampleBytes
      <3>1. CASE sample.analyzed
        <4>1. /\ data.size \in Nat
              /\ Len(sample.window) =
                   IF data.size > cfg.sampleBytes THEN cfg.sampleBytes ELSE data.size
          BY <2>1, <3>1 DEF CaptureFacts, Sampled, CaptureTypes
        <4> QED BY <1>1, <4>1
      <3>2. CASE ~sample.analyzed
        <4>1. Len(sample.window) = 0
          BY <2>1, <3>2 DEF CaptureFacts, LeftAlone
        <4> QED BY <1>1, <4>1
      <3> QED BY <3>1, <3>2
    <2>3. wire.size \in 0 .. cfg.maxRead /\ data.size \in Nat
      BY <1>1, <2>1 DEF CaptureFacts, CaptureTypes
    <2>4. sample.sampled \in BOOLEAN /\ sample.truncated \in BOOLEAN
      BY <2>1, Zenon DEF CaptureFacts, CaptureTypes
    <2>5. meta \in [observed: 0 .. cfg.maxRead, sampled: BOOLEAN,
                    sampleBytes: 0 .. cfg.sampleBytes, truncated: BOOLEAN]
      BY <2>1, <2>2, <2>3, <2>4, Zenon DEF MetaOfCapture
    <2>6. entropy = NoEntropy
          \/ entropy = [present |-> TRUE, sampled |-> Len(sample.window), total |-> data.size]
      BY <1>3 DEF IInv, EntropyInv, Late
    <2>7. entropy \in [present: BOOLEAN, sampled: Nat, total: Nat]
      <3>1. Len(sample.window) \in Nat /\ data.size \in Nat /\ 0 \in Nat
        BY <1>1, <2>2, <2>3
      <3>2. NoEntropy \in [present: BOOLEAN, sampled: Nat, total: Nat]
        BY <3>1 DEF NoEntropy
      <3>3. \A n, m \in Nat : [present |-> TRUE, sampled |-> n, total |-> m]
                              \in [present: BOOLEAN, sampled: Nat, total: Nat]
        OBVIOUS
      <3> QED BY <2>6, <3>1, <3>2, <3>3, Zenon
    <2> QED BY <2>5, <2>7
  <1> QED BY <1>2, <1>3 DEF IInv, TypeInv, StartInv, UnreadInv

\* Every variable of the pipeline has its type; the numbers are within the
\* limits, and the warnings come in the order of the modules, none twice.
THEOREM PipelineTypes == Spec => []TypeOK
  <1>1. IInv => TypeOK
    BY WarningsInOrder, NumbersWithinLimits, Zenon DEF IInv, TypeInv, TypeOK, Late
  <1> QED BY <1>1, PipelineInvariant, PTL

\* The handler can tell why an enabled analyzer left no result: every gap in
\* the profile has a warning, or nothing was captured, or the content type is
\* out of scope, but for the two gaps the property names: a form that does not
\* parse, and a sample that MaxAnalyzeBytes below four cuts to nothing.
THEOREM GapsExplained == Spec => []EveryNilExplained
  <1>1. IInv => EveryNilExplained
    <2> SUFFICES ASSUME IInv, step = "served"
                 PROVE  EntropyAbsenceExplained /\ ComplexityAbsenceExplained
                        /\ CharsetAbsenceExplained
      BY DEF EveryNilExplained
    <2>1. CASE NeedsBody
      <3>1. ComplexityAbsenceExplained /\ CharsetAbsenceExplained
        BY <2>1 DEF IInv, ComplexityInv, CharsetInv
      <3>2. EntropyAbsenceExplained
        <4> SUFFICES ASSUME "entropy" \in enabled, ~entropy.present PROVE Skipped
          BY DEF EntropyAbsenceExplained
        <4>1. ~sample.analyzed
          BY <2>1 DEF IInv, EntropyInv
        <4> QED BY <2>1, <4>1 DEF IInv, FactsInv, CaptureFacts, LeftAlone, Late
      <3> QED BY <3>1, <3>2
    <2>2. CASE ~NeedsBody
      BY <2>2 DEF NeedsBody, EntropyAbsenceExplained, ComplexityAbsenceExplained,
                  CharsetAbsenceExplained
    <2> QED BY <2>1, <2>2
  <1> QED BY <1>1, PipelineInvariant, PTL

\* No structured or charset result comes from bytes that are still encoded,
\* and one without a warning is of the whole body.
THEOREM DecodedResults == Spec => []ResultsAreOfDecodedData
  <1>1. IInv => ResultsAreOfDecodedData
    <2> SUFFICES ASSUME IInv, step = "served", req.honest, complexity # "nil" \/ charset # "nil"
                 PROVE  /\ data.codings = <<>>
                        /\ complexity # "nil" /\ warnings = <<>> =>
                             /\ complexity = "full"
                             /\ Body!OneLayer \/ ~req.members => data.whole
      BY DEF ResultsAreOfDecodedData
    <2>1. NeedsBody
      BY DEF IInv, UnreadInv, NoResult, Late
    <2>2. sample.analyzed /\ Body!IsDecodedForStructuredAnalysis
      BY <2>1 DEF IInv, ComplexityInv, CharsetInv, HasStructure
    <2>3. WholeOrWarned
      BY <2>1 DEF IInv, FactsInv, CaptureFacts, Late
    <2>4. complexity = "partial" => warnings # <<>>
      BY <2>1 DEF IInv, ComplexityInv
    <2>5. complexity \in {"nil", "partial", "full"}
      BY DEF IInv, TypeInv
    <2>6. complexity # "nil" => data.size # 0
      BY <2>1 DEF IInv, ComplexityInv, HasStructure
    <2> QED BY <2>2, <2>3, <2>4, <2>5, <2>6 DEF WholeOrWarned
  <1> QED BY <1>1, PipelineInvariant, PTL

\* Meta and the entropy result count the same bytes.
THEOREM EntropyAndMeta == Spec => []EntropyAgreesWithMeta
  <1>1. IInv => EntropyAgreesWithMeta
    <2> SUFFICES ASSUME IInv, step = "served", entropy.present
                 PROVE  /\ entropy.sampled = meta.sampleBytes
                        /\ meta.sampled <=> meta.sampleBytes < entropy.total
                        /\ sample.decoded \/ entropy.total = meta.observed
                        /\ meta.truncated => meta.observed = cfg.maxRead
      BY DEF EntropyAgreesWithMeta
    <2>1. NeedsBody
      BY DEF IInv, UnreadInv, NoResult, NoEntropy, Late
    <2>2. sample.analyzed
          /\ entropy = [present |-> TRUE, sampled |-> Len(sample.window), total |-> data.size]
      BY <2>1 DEF IInv, EntropyInv, NoEntropy
    <2>3. CaptureFacts /\ meta = MetaOfCapture
      BY <2>1 DEF IInv, FactsInv, Late
    <2>4. /\ sample.sampled <=> Len(sample.window) < data.size
          /\ sample.decoded \/ data.size = wire.size
          /\ sample.truncated => wire.size = cfg.maxRead
      BY <2>2, <2>3 DEF CaptureFacts, Sampled, CaptureTypes
    <2>5. /\ meta.observed = wire.size /\ meta.sampleBytes = Len(sample.window)
          /\ meta.sampled = sample.sampled /\ meta.truncated = sample.truncated
      BY <2>3, Zenon DEF MetaOfCapture
    <2>6. entropy.sampled = Len(sample.window) /\ entropy.total = data.size
      BY <2>2
    <2> QED BY <2>2, <2>4, <2>5, <2>6, Zenon
  <1> QED BY <1>1, PipelineInvariant, PTL

=============================================================================
