------------------------------- MODULE Config -------------------------------
(***************************************************************************)
(* normalizeConfig (internal/policy/config.go) as an operator on records.  *)
(* Middleware applies it to whatever configuration it is given, the one    *)
(* DefaultConfig returns (itself normalised) included.                     *)
(*                                                                         *)
(* Texts are model values.  What trimming and changing the case (or, for a *)
(* trusted proxy, parsing) makes of a text is the function Canonical; the  *)
(* empty text stands for what is blank or, in a CIDR list, does not parse. *)
(***************************************************************************)
EXTENDS Integers, Sequences, SequencesExt

CONSTANTS
  MaxInt,          \* the largest int of the build; limits in bytes are int64
  Default,         \* the default numbers, strategy and texts: see DefaultRecord
  DefaultLists,    \* the default of each list but the trusted proxies'
  Text,            \* the texts considered
  Canonical        \* Canonical[list][text]

Strategies == {"head", "tail", "head_tail"}

\* The lists of a Config, and the texts it holds.
Lists == {"methods", "bodyTypes", "headers", "proxies", "cidrs", "complexityTypes"}
TextFields == {"algorithm", "version"}

Multipart == "multipart/form-data"

DefaultRecord == [maxRead: Nat \ {0}, sample: Nat \ {0}, chunk: Nat \ {0}, depth: Nat \ {0},
                  fields: Nat \ {0}, charset: Nat \ {0}, algorithm: Text, version: Text]

ASSUME ConfigAssumption ==
    /\ MaxInt \in Nat \ {0}
    /\ Default \in DefaultRecord
    /\ DefaultLists \in [Lists \ {"cidrs"} -> Seq(Text)]
    /\ {"", Multipart} \subseteq Text
    /\ Canonical \in [Lists \cup TextFields -> [Text -> Text]]

\* Trimming, changing the case and parsing change nothing the second time; the
\* defaults of the package are canonical, and none of their lists is empty.
ASSUME CanonicalAssumption ==
    /\ \A l \in Lists \cup TextFields, t \in Text :
         Canonical[l][Canonical[l][t]] = Canonical[l][t]
    /\ \A l \in Lists \ {"cidrs"} :
         /\ DefaultLists[l] # <<>> /\ IsInjective(DefaultLists[l])
         /\ \A t \in Range(DefaultLists[l]) : t # "" /\ Canonical[l][t] = t
    /\ \A f \in TextFields : Canonical[f][Default[f]] = Default[f]
    /\ \A l \in {"bodyTypes", "complexityTypes"} : Canonical[l][Multipart] = Multipart

Numbers == {"maxRead", "maxDecode", "chunk", "sample", "depth", "fields", "charset"}

-----------------------------------------------------------------------------
\* A limit that is not positive is replaced.
Positive(n, default) == IF n <= 0 THEN default ELSE n

ClampInt64ToInt(n) == IF n <= 0 THEN 0 ELSE IF n > MaxInt THEN MaxInt ELSE n

AtMost(n, cap) == IF n > cap THEN cap ELSE n

Buggy_NormalizeNumbers(n) ==
    [maxRead   |-> Positive(n.maxRead, Default.maxRead),
     sample    |-> Positive(AtMost(n.sample, ClampInt64ToInt(n.maxRead)), Default.sample),
     chunk     |-> Positive(n.chunk, Default.chunk),
     maxDecode |-> Positive(n.maxDecode, Positive(n.maxRead, Default.maxRead)),
     depth     |-> Positive(n.depth, Default.depth),
     fields    |-> Positive(n.fields, Default.fields),
     charset   |-> Positive(n.charset, Default.charset)]

\* SampleBytes is compared with the limit after both have their defaults.
NormalizeNumbers(n) ==
    LET maxRead == Positive(n.maxRead, Default.maxRead)
    IN  [maxRead   |-> maxRead,
         sample    |-> AtMost(Positive(n.sample, Default.sample), ClampInt64ToInt(maxRead)),
         chunk     |-> Positive(n.chunk, Default.chunk),
         maxDecode |-> Positive(n.maxDecode, maxRead),
         depth     |-> Positive(n.depth, Default.depth),
         fields    |-> Positive(n.fields, Default.fields),
         charset   |-> Positive(n.charset, Default.charset)]

\* normalizeMethods, normalizeValues and normalizeCIDRs: the canonical texts in
\* their order, without blanks and repetitions.
Distinct(list, values) ==
    LET text(i) == Canonical[list][values[i]]
        kept[i \in 0 .. Len(values)] ==
          IF i = 0 THEN <<>>
          ELSE IF text(i) = "" \/ Contains(kept[i - 1], text(i)) THEN kept[i - 1]
          ELSE Append(kept[i - 1], text(i))
    IN  kept[Len(values)]

\* A list with nothing in it is replaced by the default, except the trusted
\* proxies.
NormalizeList(list, values, defaults) ==
    IF Distinct(list, values) = <<>> /\ list # "cidrs" THEN defaults[list]
    ELSE Distinct(list, values)

AppendUniqueValue(values, value) ==
    IF Contains(values, value) THEN values ELSE Append(values, value)

\* Multipart metadata puts its content type on both lists of content types.
NormalizeLists(lists, defaults, multipart) ==
    [l \in Lists |->
       IF multipart /\ l \in {"bodyTypes", "complexityTypes"}
       THEN AppendUniqueValue(NormalizeList(l, lists[l], defaults), Multipart)
       ELSE NormalizeList(l, lists[l], defaults)]

NormalizeText(field, text) ==
    IF Canonical[field][text] = "" THEN Default[field] ELSE Canonical[field][text]

\* normalizeConfig, with what the default lists of the package hold.  The flags
\* stay as they are.
NormalizeWith(c, defaults) ==
    [numbers  |-> NormalizeNumbers(c.numbers),
     strategy |-> IF c.strategy \in Strategies THEN c.strategy ELSE "head",
     lists    |-> NormalizeLists(c.lists, defaults, c.flags.multipart),
     texts    |-> [f \in TextFields |-> NormalizeText(f, c.texts[f])],
     flags    |-> c.flags]

NormalizeConfig(c) == NormalizeWith(c, DefaultLists)

-----------------------------------------------------------------------------
\* What the other parts take for granted of a configuration: positive limits, a
\* sample that fits in the bytes read, a strategy buildSample knows, lists with
\* something in them, and a multipart type that is listed when its metadata is
\* asked for.  (The read loop asks for more: it cannot use the largest limit an
\* int64 holds, which normalizeConfig lets pass; see MCReadOverflow.)
Usable(c) ==
    /\ \A n \in Numbers : c.numbers[n] > 0
    /\ c.numbers.sample <= c.numbers.maxRead
    /\ c.numbers.sample <= MaxInt
    /\ c.strategy \in Strategies
    /\ \A l \in Lists \ {"cidrs"} : c.lists[l] # <<>>
    /\ c.flags.multipart => \A l \in {"bodyTypes", "complexityTypes"} :
                              Contains(c.lists[l], Multipart)

=============================================================================
