------------------------------ MODULE Charset -------------------------------
(***************************************************************************)
(* analyzeCharset (internal/core/charset.go) on a text that was sampled by *)
(* buildSample: the second cut at MaxAnalyzeBytes, the scan rune by rune,  *)
(* the metrics of the format (JSONTextMetrics) and the suspicious flags.   *)
(* Whether there is a sample to analyse at all is AnalyzeRequest's.        *)
(*                                                                         *)
(* A text is a sequence of characters, each with the length its first byte *)
(* announces, the number of bytes that are there, and a class that stands  *)
(* for the characters with the same traits.  A character whose two numbers *)
(* differ is ill-formed; one that announces 0 is a lone continuation byte, *)
(* which never follows a character that lacks one.                         *)
(***************************************************************************)
EXTENDS Sampling, JSONTextMetrics

CONSTANT Inputs   \* the texts and settings considered: see input

\* What a character may be: see Traits.
Classes == {"a", "7", "blank", "plus", "escape", "alpha", "cyrillic a", "han", "wide blank",
            "zero width", "replacement", "emoji"}

Character == [announced: 0 .. 4, length: 1 .. 4, class: Classes \cup {"stray"}]

ASSUME CharsetAssumption ==
    \A in \in Inputs :
      /\ in.text \in Seq(Character)
      /\ \A i \in 1 .. Len(in.text) :
           IF in.text[i].announced = 0 THEN in.text[i].length = 1
           ELSE in.text[i].length <= in.text[i].announced /\ in.text[i].class \in Classes
      /\ \A i \in 2 .. Len(in.text) :
           in.text[i].announced = 0 => in.text[i - 1].announced <= in.text[i - 1].length
      /\ in.sampleBytes \in Nat \ {0} /\ in.strategy \in Strategies
      /\ in.maxAnalyze \in Nat \ {0}
      /\ in.seam \in Classes \cup {"stray"}
      /\ {in.json, in.scripts, in.confusable, in.suspicious} \subseteq BOOLEAN

VARIABLES
  input,      \* text, sampleBytes, strategy and maxAnalyze; whether there are
              \* JSON metrics to compute (the content type and
              \* EnableFormatSpecificMetrics); EnableUnicodeScripts,
              \* EnableConfusableDetection, EnableSuspiciousPattern; and seam,
              \* what the bytes at the seam of a head_tail sample decode to if
              \* they look like a rune: a class, or "stray" if they are not one
  sample,     \* the bytes of the bodySample
  phase,      \* "cut", "scan", "format", "flags", "done"
  analyzed,   \* analyzedData
  data,       \* what the scan has left of it
  counts,     \* the counters, the scripts' included, and totalChars
  flags,      \* SuspiciousFlags
  warning     \* the warning of the format metrics

given == <<input, sample>>
charsetVars == <<given, phase, analyzed, data, counts, flags, warning>>
vars == <<charsetVars, metricsVars>>

Scripts == {"latin", "greek", "cyrillic", "han"}

\* The switch on a rune, isZeroWidthRune, isInvisibleRune, isEmojiRune,
\* confusableSkeleton and majorScript, for one character of each class.
Traits(class) ==
    CASE class = "a"           -> {"asciiAlpha", "latin"}
      [] class = "7"           -> {"digits"}
      [] class = "blank"       -> {"whitespace"}
      [] class = "plus"        -> {"symbols"}
      [] class = "escape"      -> {"control", "invisible"}
      [] class = "alpha"       -> {"nonASCII", "greek"}
      [] class = "cyrillic a"  -> {"nonASCII", "cyrillic", "confusable"}
      [] class = "han"         -> {"nonASCII", "han"}
      [] class = "wide blank"  -> {"nonASCII", "whitespace"}
      [] class = "zero width"  -> {"nonASCII", "invisible", "zeroWidth"}
      [] class = "replacement" -> {"nonASCII", "symbols"}
      [] class = "emoji"       -> {"nonASCII", "symbols", "emoji"}

\* utf8.RuneError of size 1.
Stray == {"control"}

Counters == {"asciiAlpha", "digits", "whitespace", "symbols", "control", "nonASCII",
             "emoji", "invisible", "confusable", "zeroWidth", "totalChars"} \cup Scripts

-----------------------------------------------------------------------------
\* The bytes of a text: of which character each is, the length the byte
\* announces (0 for a continuation byte), and the class.
BytesOf(t) ==
    FlattenSeq([i \in DOMAIN t |->
      [k \in 1 .. t[i].length |->
        [of |-> i, announced |-> IF k = 1 THEN t[i].announced ELSE 0, class |-> t[i].class]]])

\* The sample buildSample takes of the text.
Sampled(in) ==
    LET bytes  == BytesOf(in.text)
        window == BuildSample(Len(bytes), in.sampleBytes, in.strategy)
    IN  [i \in DOMAIN window |-> bytes[window[i]]]

Init ==
    /\ input \in Inputs
    /\ sample = Sampled(input)
    /\ phase = "cut"
    /\ analyzed = <<>> /\ data = <<>>
    /\ counts = [c \in Counters |-> 0]
    /\ flags = {}
    /\ warning = "none"
    /\ MetricsInit

\* Bytes of one character, or of two that meet at the seam and look like one.
Fit(bytes) == input.seam # "stray" \/ \A i \in DOMAIN bytes : bytes[i].of = bytes[1].of

\* utf8.FullRune for a first byte and continuation bytes: bytes that cannot
\* begin a rune count as full.
FullRune(bytes) == Len(bytes) >= bytes[1].announced \/ ~Fit(bytes)

\* The place of the last byte that is no continuation byte, or the first place.
LastStart(bytes) ==
    Max({1} \cup {i \in DOMAIN bytes : bytes[i].announced # 0})

Buggy_TrimIncompleteUTF8Suffix(bytes) == bytes

\* trimIncompleteUTF8Suffix.
TrimIncompleteUTF8Suffix(bytes) ==
    LET start == LastStart(bytes)
    IN  IF FullRune(SubSeq(bytes, start, Len(bytes))) THEN bytes ELSE SubSeq(bytes, 1, start - 1)

\* The sample cut at MaxAnalyzeBytes.
Cut ==
    /\ phase = "cut"
    /\ analyzed' = IF Len(sample) <= input.maxAnalyze THEN sample
                   ELSE TrimIncompleteUTF8Suffix(SubSeq(sample, 1, input.maxAnalyze))
    /\ data' = analyzed'
    /\ phase' = "scan"
    /\ UNCHANGED <<given, counts, flags, warning, metricsVars>>

-----------------------------------------------------------------------------
\* A rune begins at the i-th byte and is all there.
RuneAt(bytes, i) ==
    LET n == bytes[i].announced
        rune == SubSeq(bytes, i, i + n - 1)
    IN  /\ n > 0
        /\ i + n - 1 <= Len(bytes)
        /\ \A k \in 2 .. n : rune[k].announced = 0
        /\ Fit(rune)

ClassOf(rune) ==
    IF \A i \in DOMAIN rune : rune[i].of = rune[1].of THEN rune[1].class ELSE input.seam

Buggy_DecodeRune(bytes) ==
    IF RuneAt(bytes, 1)
    THEN LET class == ClassOf(SubSeq(bytes, 1, bytes[1].announced))
         IN  [traits |-> IF class = "replacement" THEN Stray ELSE Traits(class),
              size   |-> bytes[1].announced]
    ELSE [traits |-> Stray, size |-> 1]

\* utf8.DecodeRune: a rune and its size.
DecodeRune(bytes) ==
    IF RuneAt(bytes, 1)
    THEN [traits |-> Traits(ClassOf(SubSeq(bytes, 1, bytes[1].announced))),
          size   |-> bytes[1].announced]
    ELSE [traits |-> Stray, size |-> 1]

\* The counters a rune adds to: confusables and scripts only when asked for.
Adds(traits) ==
    {"totalChars"} \cup (traits \ ((IF input.confusable THEN {} ELSE {"confusable"})
                           \cup (IF input.confusable \/ input.scripts THEN {} ELSE Scripts)))

\* One iteration of the scan.
ScanRune ==
    /\ phase = "scan"
    /\ data # <<>>
    /\ LET rune == DecodeRune(data)
       IN  /\ counts' = [c \in Counters |-> counts[c] + IF c \in Adds(rune.traits) THEN 1 ELSE 0]
           /\ data' = SubSeq(data, rune.size + 1, Len(data))
    /\ UNCHANGED <<given, phase, analyzed, flags, warning, metricsVars>>

\* The scan is over.  When the cut has left nothing there is no result.
ScanEnds ==
    /\ phase = "scan"
    /\ data = <<>>
    /\ phase' = IF counts["totalChars"] = 0 THEN "done" ELSE IF input.json THEN "format" ELSE "flags"
    /\ UNCHANGED <<given, analyzed, data, counts, flags, warning, metricsVars>>

\* A step of analyzeJSONTextMetrics.
FormatStep ==
    /\ phase = "format"
    /\ MetricsNext
    /\ UNCHANGED charsetVars

\* The format metrics have returned.
RecordMetrics ==
    /\ phase = "format"
    /\ outcome # "running"
    /\ warning' = CASE outcome = "clean" -> "none"
                    [] outcome = "nil"   -> "charset_format_metrics_failed"
                    [] OTHER             -> "charset_format_metrics_partial"
    /\ phase' = "flags"
    /\ UNCHANGED <<given, analyzed, data, counts, flags, metricsVars>>

-----------------------------------------------------------------------------
\* utf8.Valid: every byte begins a rune or continues one.
Valid(bytes) ==
    \A i \in DOMAIN bytes :
      \/ RuneAt(bytes, i)
      \/ bytes[i].announced = 0
           /\ \E j \in 1 .. i - 1 : RuneAt(bytes, j) /\ j + bytes[j].announced > i

ScriptsFound == {s \in Scripts : counts[s] > 0}

Buggy_ShouldFlagConfusable == counts["confusable"] > 0

ShouldFlagConfusable ==
    /\ counts["confusable"] > 0
    /\ ScriptsFound = {} \/ "latin" \in ScriptsFound \/ Cardinality(ScriptsFound) > 1

\* The suspicious flags.
RaiseFlags ==
    /\ phase = "flags"
    /\ LET If(cond, flag) == IF input.suspicious /\ cond THEN {flag} ELSE {}
       IN  flags' = If(~Valid(analyzed), "invalid_utf8")
                      \cup If(counts["control"] > 0, "control_chars")
                      \cup If(counts["zeroWidth"] > 0, "zero_width_chars")
                      \cup If(input.scripts /\ Cardinality(ScriptsFound) > 1, "mixed_unicode_scripts")
                      \cup If(input.confusable /\ ShouldFlagConfusable, "confusable_homoglyphs")
    /\ phase' = "done"
    /\ UNCHANGED <<given, analyzed, data, counts, warning, metricsVars>>

Next == Cut \/ ScanRune \/ ScanEnds \/ FormatStep \/ RecordMetrics \/ RaiseFlags

Spec == Init /\ [][Next]_vars

-----------------------------------------------------------------------------
\* The characters of the text of which these are all the bytes.
Whole(bytes) ==
    {i \in DOMAIN input.text :
       /\ input.text[i].announced = input.text[i].length
       /\ Cardinality({p \in DOMAIN bytes : bytes[p].of = i}) = input.text[i].length}

\* The second cut takes whole characters: of a character that is whole in the
\* sample all bytes are analysed or none, and it drops three bytes at most, so
\* that only a MaxAnalyzeBytes below four can leave nothing to analyse, and
\* then there are neither metrics nor flags.
CutAtRuneBoundary ==
    phase # "cut" =>
      /\ Len(analyzed) <= input.maxAnalyze
      /\ analyzed = <<>> => phase \notin {"format", "flags"} /\ flags = {}
      /\ analyzed = SubSeq(sample, 1, Len(analyzed))
      /\ Len(analyzed) < Len(sample) => Len(analyzed) >= input.maxAnalyze - 3
      /\ \A p \in DOMAIN analyzed :
           analyzed[p].of \in Whole(sample) => analyzed[p].of \in Whole(analyzed)

\* The sample joins two distant pieces.
HasSeam == input.strategy = "head_tail" /\ Len(sample) < Len(BytesOf(input.text))

\* The scan counts every whole character once for each of its traits and every
\* other byte as a control character.  Only at the seam of a sample of both
\* ends may it see one character that the text does not have.
CountsMatchText ==
    LET whole == Whole(analyzed)
        loose == Cardinality({p \in DOMAIN analyzed : analyzed[p].of \notin whole})
        With(c) == Cardinality({i \in whole : c \in Traits(input.text[i].class)})
        asked == Counters \ ({"totalChars", "control"}
                   \cup (IF input.confusable THEN {} ELSE {"confusable"})
                   \cup (IF input.confusable \/ input.scripts THEN {} ELSE Scripts))
    IN  phase \notin {"cut", "scan"} =>
          IF HasSeam
          THEN /\ \A c \in asked : counts[c] \in With(c) .. With(c) + 1
               /\ counts["totalChars"] \in Cardinality(whole) .. Cardinality(whole) + loose
          ELSE /\ \A c \in asked : counts[c] = With(c)
               /\ counts["control"] = With("control") + loose
               /\ counts["totalChars"] = Cardinality(whole) + loose

\* Test, analyzers_test.go: no invalid_utf8 for boundary-trimmed UTF-8.  Text
\* that is well-formed is never called invalid.
ValidTextIsNotInvalid ==
    (\A i \in DOMAIN input.text : input.text[i].announced = input.text[i].length)
      => "invalid_utf8" \notin flags

\* The characters are all there.
Unbroken(bytes) == {bytes[p].of : p \in DOMAIN bytes} \subseteq Whole(bytes)

\* README, "invalid UTF-8, zero-width characters, and mixed scripts": the flags
\* follow from the text.  As long as buildSample has not split a character,
\* well-formed text is not called invalid, and what is invalid always has a
\* byte that counts as a control character; look-alike characters are reported
\* exactly when there is another script beside theirs to be mistaken for, and
\* then, when scripts are counted too, so are mixed scripts.
FlagsMatchText ==
    /\ Unbroken(sample) => "invalid_utf8" \notin flags
    /\ "invalid_utf8" \in flags => "control_chars" \in flags /\ ~Unbroken(analyzed)
    /\ phase = "done" /\ input.suspicious /\ input.confusable =>
         ("confusable_homoglyphs" \in flags <=>
            counts["confusable"] > 0 /\ Cardinality(ScriptsFound) > 1)
    /\ "confusable_homoglyphs" \in flags /\ input.scripts => "mixed_unicode_scripts" \in flags

=============================================================================
