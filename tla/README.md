# A verification project for web-profiler

`web-profiler` is a `net/http` middleware: it looks at a bounded part of every
request, fills a `Profile` with what it found, puts the profile in the request
context and calls the next handler, which must still be able to read the whole
request body. This directory holds TLA+ models of that code, TLC runs that
check them, and proofs that TLAPS checks. Paths are those of the repository;
`PROJECT.json` maps every definition to its lines.

## 1. The system and its parts

| Part | Code | State it keeps | Operations | What makes it right |
| --- | --- | --- | --- | --- |
| Bounded read loop | `internal/core/sampling.go` `readWithLimit`, `readLimitedBody` | budget, buffer | one read per iteration; four ways to stop | no byte lost, at most one past the limit, a clean return is whole |
| Body replay | `captureBody`, `replayReadCloser` | per middleware: the bytes it read and how many of them were read again | capture, read, close | the handler cannot tell the body from the bare one |
| Body capture | `captureBody`, `decodeObservedBody`, `buildSample` | `bodySample`, warnings | skip, read, decode layer by layer, sample, warn | a missing or shortened analysis is always explained; decoding is all or nothing |
| Pipeline | `internal/core/middleware.go` | `Profile` | fingerprint, capture, three analyzers, next handler | every missing result explained, numbers consistent, the handler always called |
| JSON complexity | `internal/core/complexity.go` `walkJSONComplexity` | `jsonComplexityStats`, the call stack | recursive walk with two limits | independent of Go's map order; stops exactly at the limits |
| XML complexity | `analyzeXMLComplexity` | counters | one token per iteration, two limits | counts are those of the tokens; averages divide by the right numbers |
| Form, multipart complexity | `analyzeFormComplexity`, `analyzeMultipartComplexity` | counters | one pass | outcome and warning |
| Entropy | `internal/core/entropy.go` | none | one pass over the sample | counts the bytes Meta counts |
| Charset | `internal/core/charset.go` | counters; a stack of JSON frames for the format metrics | scan of the runes, format metrics | cut at rune boundaries; partial metrics are flagged |
| Fingerprint | `internal/core/fingerprint.go` | two maps of fields | select, hash, client address | the weak hash ignores the address; proxy headers only from trusted peers |
| Configuration | `internal/policy/config.go` | none | `normalizeConfig` | every limit positive, lists never empty, idempotent, no slice shared with the caller |
| Types, context, public API, example | `internal/model`, `context.go`, `webprofiler.go`, `example/` | none | forwarding | - |

Interaction: a request is served by one goroutine. It runs the parts in the
order of the table's pipeline row; they share the `bodySample` (read only after
the capture) and the list of warnings (append only). The one thing that outlives
the middleware is `r.Body`: the handler, or another middleware further in, reads
from it later. The normalised `Config` is shared by all requests and never
written, so requests do not interact.

What is hard: several readers one after the other on one stream, each through
the replay of the one before; a stream that fails, recovers, or fails once and
then pretends to end; limits that apply one after the other (read, decompress,
sample, charset); a chain of decompressors that fails in the middle; Go's random
map order; and many error paths that promise a warning.

## 2. Modules

| Module | What it is |
| --- | --- |
| `ReadLoop` | what the two specifications of the read loop share: the budget in fixed-width arithmetic, the size of a read, the decision after it |
| `LimitedRead` | abstract: a bounded read as one step |
| `ReadWithLimit` | the read loop; implements `LimitedRead` |
| `HandlerBody` | abstract: what a handler may rely on when it reads a bare body |
| `BodyReplay` | `N` nested middlewares on one wire and the handler; implements `HandlerBody` |
| `CaptureBody` | `captureBody` on sizes: skips, read, layers, sample, warnings |
| `AnalyzeRequest` | the pipeline; composes `CaptureBody` step by step with the analyzers |
| `JSONWalk` | the recursive JSON walk with its call stack |
| `XMLWalk` | the XML token loop |
| `Sampling` | `buildSample`, used by `CaptureBody` and `Charset` |
| `JSONTextMetrics` | `analyzeJSONTextMetrics`: the token loop with its own stack, against the decoder's nesting |
| `XMLTextMetrics` | `analyzeXMLTextMetrics` as operators on token sequences, checked beside `XMLWalk` |
| `JSONWalkReference` | the statistics of a JSON document, defined from the set of values in it; extended by the instance and by the proofs |
| `XMLWalkReference` | what an XML analysis has to count, defined from the tokens; extended by the instance and by the proofs |
| `Charset` | `analyzeCharset`: the second cut, the scan, the format metrics, the flags; composes `Sampling` and `JSONTextMetrics` |
| `Config` | `normalizeConfig` as operators on records |
| `Fingerprint` | `Middleware` and `analyzeFingerprint`: the configuration from the caller to the hashes; composes `Config` |
| `ReadWithLimitProofs`, `BodyReplayProofs`, `CaptureBodyProofs`, `AnalyzeRequestProofs`, `JSONWalkProofs`, `XMLWalkProofs`, `CharsetProofs`, `FingerprintProofs` | the theorems |
| `MC*` | instances for TLC |

`Buggy_*` operators are variants of the operator that follows them with a
plausible mistake; no specification uses them. Replacing the operator by its
variant breaks the property named in `PROJECT.json`, which shows that the
property depends on the code.

### How the models correspond to the code

- **Bytes are offsets.** In `ReadWithLimit` and `BodyReplay` a byte is the number
  of its place in the request, so that a lost, repeated or swapped byte shows in
  the buffer. `CaptureBody` needs only sizes: a piece of data is the codings it
  still carries, its size and whether it is complete.
- **Reads.** `SourceRead` and `WireRead` allow everything `io.Reader` allows: a
  short read, an empty read, bytes together with `io.EOF` or another error.
  `WireRead` also says what the body of `net/http` does after an error; the
  constant `AfterFail` chooses whether it repeats the error, goes on (a read
  deadline that was extended), or returns `io.EOF` (a body shorter than its
  Content-Length).
- **`ReadWithLimit`.** `ReadChunk` is one iteration of the loop with its exit
  test; `Enters` is the early return and the loop condition; `Budget` is
  `maxBytes + 1` on integers with the largest value `MaxInt`, wrapping around.
- **`BodyReplay`.** Level `k` is the k-th middleware, level `N + 1` the handler.
  Each level installs `prefix[k]`, its `consumed` bytes, on top of the body it was
  given; `idx[k]` is the position of the `bytes.Reader` over them. `ReadBody` is
  `io.MultiReader` of all the levels: the innermost replay that has bytes left,
  or else the wire. `CaptureRead` is an iteration of the loop and, when it is the
  last one, the replacement of `r.Body`; `Skip` is every way to leave the body
  alone; `HandlerRead` and `HandlerClose` are the handler, who may close, go on
  reading after it, or retry after an error. Every level has a limit and a chunk
  size of its own.
- **`CaptureBody`.** `SkipBody`, `ReadLimitedBody`, `DecodeLayer`,
  `DecodingFails` and `Finish` are the parts of `captureBody` in order.
  `LayerOutcomes` says what gzip, zlib and flate may do with whole, shortened,
  mislabelled and empty data. gzip reads data that holds several members one
  after the other, so data cut between two members decodes cleanly: `req.members`
  says whether the body is of that kind. `NeverReads` takes its budget from
  `ReadLoop`: with the largest limit `MaxInt` a read or a layer gives nothing, as
  in finding 1. `SampledSize` is the data of the second call of `buildSample`,
  which replaces the sample of the wire bytes once they are decoded. The case
  `body_content_encoding_unsupported` (`sampling.go:85`) is not in the model
  because it cannot be reached: `decodeObservedBody` returns every error with
  `applied` true (`sampling.go:205`).
- **`AnalyzeRequest`.** One action per module of `analyzeRequest`; the capture
  runs as `CaptureBody`'s own steps on shared variables. What an analyzer computes
  is a set of outcomes (a full, a partial or no result, and a warning), taken from
  the analyzer's returns. Whether `url.ParseQuery` accepts a form is part of the
  request (`parses`), so that only a form it rejects may leave no trace.
- **`JSONWalk`.** A frame is a call of `walkJSONComplexity` in its loop;
  `NextMember` takes any key that is left, which is Go's map order.
- **`XMLWalk`.** One action per kind of token. The attribute loop is done in one
  step: `Room` is how many attributes may still be counted. `CountsMatchTokens`
  runs `XMLMetrics` on the same tokens: the same document must have the same tags
  and attributes in both analyses when neither stopped early.
- **`Charset`.** A character is the number of bytes its first byte announces, the
  number that are there, and a class that stands for all characters with the same
  traits. `BytesOf` lays a text out in bytes, `Sampled` cuts the sample that
  `buildSample` would, `Cut` is the cut at `MaxAnalyzeBytes` with
  `trimIncompleteUTF8Suffix`, `ScanRune` one iteration of the scan with
  `utf8.DecodeRune`. A `head_tail` sample joins bytes of two characters at its
  seam; whether they decode to something is the setting `seam` of an input.
  Which tokens a JSON decoder hands out does not depend on the modelled text.
- **`JSONTextMetrics`.** The decoder is the environment: `nesting` is what it has
  open, and it may end or fail between any two tokens, inside a container too.
  `frames`, `complete` and `metrics` are the loop's own.
- **`Fingerprint`.** The lists of a `Config` are slices, and `arrays` is the
  memory they point into: the package's default lists, the caller's, the copies
  `DefaultConfig` writes down, and the arrays `normalizeConfig` makes. `raw` and
  `used` are the `Config` of the caller and that of the middleware, each with the
  array of every list; `cfg` is what `used` reads as now. `Normalized` is
  `normalizeConfig`, and `ListArray` says in which array each list of its result
  lies. `CallDefaultConfig` is a caller who starts from `DefaultConfig()`;
  `CallerWrites` writes into any array the caller has a slice of (`held`), before
  or after `Middleware`; `Serve` is `analyzeFingerprint` on one request with
  `cfg`. What joining, trimming, folding, splitting and parsing make of a text are
  functions among the constants, and a hash is what it was computed from.

## 3. Runs

| Run | Question | Bounds and why they are enough |
| --- | --- | --- |
| `read_loop` | `MCReadWithLimit.cfg`: the loop keeps every byte in order, takes at most one past the limit, calls a read clean only when it is whole, and implements `LimitedRead` | limits 0..6, chunks 0..5, lengths 0..6: chunks below, at and above the limit, streams below, at, one past and far past it |
| `read_overflow` | violation, see findings | limit = `MaxInt` (four-bit integers) |
| `body_replay` | `MCBodyReplay.cfg`: two nested middlewares restore the body and implement `HandlerBody` | two levels give every relation of the limits (inner smaller, equal, larger); bodies up to 4 bytes, limits 1, 2, 4 and the one that overflows; a chunk size of 1 or 3 for each middleware and handler buffers of 1 and 3, so that a read ends inside, at and beyond a replay |
| `short_body` | violation, see findings | one middleware |
| `capture` | `MCCaptureBody.cfg`: sample, warnings and decoding agree | ten headers with up to two codings, two gzip layers included; sizes 0..5 around read limits 2, 4 and decode limits 1, 3, and the largest limit (7) for both; all three strategies with odd and even samples |
| `gzip_members` | violation, see findings | two gzip layers, read limits 2, 4, decode limits 1, 3 |
| `pipeline` | `MCAnalyzeRequest.cfg`: missing results are explained, structure is only computed from decoded data, Meta and entropy agree, the handler is called | all seven classes of content types, forms that parse and forms that do not, three sets of enabled modules, five groups of settings that put each on both sides of its test; bodies of 0, 3 and 5 bytes, a read limit of 3 and the largest, a decode limit of 4: a body is empty, at and past the one, below and past the other; a sample of 2; headers with no, one and two layers of gzip, where a body of several members may be decoded only in part |
| `json_walk` | `MCJSONWalk.cfg`: limits and statistics against the reference | documents of depth up to 4 (`MaxNesting` = 3 containers around a value) over two keys, depth limits 1..4, field limits 1..5 |
| `xml_walk` | `MCXMLWalk.cfg`: limits and counts against the tokens, for the complexity and the charset analysis | all inputs of up to `MaxTokens` = 6 tokens with up to 2 attributes, depth limits 1..3, field limits 1, 2, 4 |
| `charset` | `MCCharset.cfg`: cut, counts and flags against the text, JSON metrics against the tokens | all texts of up to three characters of every length, well-formed or not, samples of 2, 5, 9 bytes at either end, of 4, 5 bytes at both, second cuts at 2 to 9 bytes, so that every cut falls before, in and after a character; every pair of classes under all settings; token streams of up to 7 tokens, enough for an object that holds another |
| `split_rune` | violation, see findings | well-formed texts of up to two characters |
| `fingerprint` | `MCFingerprint.cfg`: the configuration is usable and settled, the address is in the right hash and from whom the configuration says | one group of settings varied after the other, in a `Config` of the caller's own or, where he left a list empty, with `DefaultConfig`'s; one write into any list he holds, before or after `Middleware`; two requests, from four peers, with two kinds of proxy headers, of one or two lines, parsable or not, with and without TLS |

Every run turns the deadlock check off: each model is one call, one request or a
bounded number of them, which ends.

The reference definitions (`Statistics` in `JSONWalkReference`, those of
`XMLWalkReference`) look at the document or the tokens as a whole
and know nothing of the walk, its order or its limits.
`MaxNesting` bounds the documents: `encoding/json` refuses one that nests deeper
than a constant of its own, whatever `MaxJSONDepth` says.

### Properties worth knowing

- `ImplementsHandlerBody`: below any middlewares the handler sees the first bytes
  of the request in order and `io.EOF` only after the last one, and if it keeps
  reading it comes to that end or to an error. That is the README's "restores the
  request body". It does not say that the handler meets every error of the wire:
  one that a capture met stays with the capture, so on a wire that goes on after
  it the handler never sees it, and on one that then answers `io.EOF` it takes a
  cut body for a whole one (finding 2).
- `BoundedReadAhead`, `InnerCaptureAgrees`: the reads of nested middlewares do
  not add up, and an inner one with a smaller limit never touches the wire again.
- `CompleteOrFlagged`: what the structured analyzers look at is the whole decoded
  body, or a warning says that it was cut.
- `EveryNilExplained`, `ResultsAreOfDecodedData`: whoever reads the profile and
  knows the request and the settings knows why a result is missing, but for a
  form that `url.ParseQuery` rejects and for a `MaxAnalyzeBytes` below four; and
  is not misled by a result that is there. A full result (not a partial one) is
  of the whole body, unless gzip data of several members was wrapped in another
  coding (finding 3).
- `OneLayerCompleteOrFlagged` is `CompleteOrFlagged` where it holds: with one
  coding, or with gzip data of single members (finding 3 is the rest), and with
  limits that the read loop can use (`LimitsFit`; finding 1 is the rest).
- `FlagsMatchText`, `CountsMatchText`: what the charset analysis reports follows
  from the characters of the text, except that a sample that splits one sees its
  bytes as control characters (finding 4), and that at the seam of a `head_tail`
  sample it may see one character the text does not have.
- `CleanMeansOneValue`: JSON metrics without a warning mean at most one complete
  value, and none cut short: a body of white space alone is clean as well.
- `SettledWhenBuilt`: the middleware answers from the `Config` as it was when
  `Middleware` was called. The caller shares no array with it, neither one it
  passed nor one that `DefaultConfig` gave it, and cannot reach the package's
  defaults. One list left in its old array breaks it (`Buggy_FiltersInPlace`).
- `AddressOnlyInStrongHash`, `OnlyListedPeersAreBelieved`,
  `FirstUsableHeaderDecides`: whose address is in which hash.
- `ConfigIsUsable`: what the other parts take for granted of the settings. It
  does not exclude `MaxReadBytes` = `math.MaxInt64`, which `normalizeConfig`
  accepts and the read loop cannot use (finding 1).
- `LimitIffOver`, `StatsMatchDocument`: whether the JSON walk gives up depends
  on the document alone; a complete walk reports the same in every map order.
  What a walk that gave up has counted, and which of the two limits it names when
  a document passes both, does depend on the order: it is only bounded by the
  document's own statistics.

### Fairness

`ReadWithLimit` and `BodyReplay` assume that a read returns and that the
goroutine of the request is scheduled (weak fairness of the iterations), and
`BodyReplay` that this handler reads until something stops it: a handler may
also stop reading, but nothing can be promised about the end of a body nobody
reads. `Skip` and `HandlerClose` are choices and have no fairness.
`AnalyzeRequest` assumes weak fairness of its next step. None of the actions
waits for another actor.

### Findings

1. `read_overflow`: with `MaxReadBytes` = `math.MaxInt64` the budget
   (`sampling.go:164`) wraps around, nothing is read, and the profile shows an
   empty, untruncated body and no warning. The same loop limits decompression.
   `CaptureBody` has that limit too, and `OneLayerCompleteOrFlagged` excludes it.
   The body itself is still replayed correctly (`body_replay` includes that limit).
2. `short_body`: when the client sends less than its Content-Length, `net/http`
   returns `io.ErrUnexpectedEOF` once and `io.EOF` afterwards. The capture
   receives the error and keeps it to itself (`sampling.go:70`), so the handler
   reads a cut body to a clean end. With `N` = 0, no middleware, the same model
   satisfies the property: the middleware is the cause. Theorem `CleanEnd` shows
   that such a wire is the only cause.
3. `gzip_members`: a layer cut at `MaxDecompressedBytes` is forgotten when the
   next layer decodes without error (`sampling.go:203`).
4. `split_rune`: `buildSample` cuts at `SampleBytes` wherever that falls
   (`sampling.go:138`), and only the later cut at `MaxAnalyzeBytes` is moved to a
   character boundary, so valid text longer than its sample may be flagged
   `invalid_utf8`.

Smaller observations without a run: a form that does not parse leaves no result
and no warning (`complexity.go:189`), unlike the other formats and against
`docs/README_zh.md:23`, which promises a warning on parse anomalies
(`ComplexityAbsenceExplained` names the exception); the charset analysis looks at
`MaxAnalyzeBytes`, 16 KiB by default, of a sample of 32 KiB, and
`Meta.SampleBytes` reports the sample; a `TrustedProxyCIDRs` list of entries none
of which parses is an empty list, which trusts every peer;
`entropy.TotalObservedBytes` counts decoded bytes, `Meta.ObservedBytes` those of
the wire (`EntropyAgreesWithMeta` compares the two only when nothing was decoded,
and the sample's numbers always); a `MaxAnalyzeBytes` below four may leave no
charset result and no warning; the `weakHash == ""` case of the fingerprint
cannot happen.

## 4. Theorems

`tlapm` checks the following for every value of the constants under their
assumptions (limits are integers up to `MaxInt`, lengths are naturals, chunk
sizes are positive where the code has made them so).

- **`ReadWithLimitProofs`**: `TypeCorrect`, `KeepsEveryByte` (`NothingLost`),
  `ReadsAtMostOneExtra` (`BoundedRead`), `CleanReturn` (`CleanReturnIsWhole`) and
  `Implements`: the safety part of the refinement of `LimitedRead`. The last two
  assume `NoOverflow`, that no limit is the largest integer: finding 1 is why.
  The invariant adds the loop's account of its budget, `remaining = limit + 1 -
  pos`, and why it stopped; without them `BoundedRead` is not inductive.
- **`BodyReplayProofs`**: `TypeCorrect`, `BodyIsRestored` (`InOrder`),
  `CleanEnd` (`CleanEndIsWhole`), `ReadAheadIsBounded` (`BoundedReadAhead`),
  `InnerCaptures` (`InnerCaptureAgrees`) and `Transparent`: the safety part of the
  refinement of `HandlerBody`, for any number of middlewares. `CleanEnd`,
  `InnerCaptures` and `Transparent` assume a wire that does not follow an error
  with `io.EOF`: finding 2 is why. `InOrder` says nothing of the
  bytes still waiting in replays, so the invariant `Stack` does: the unread parts
  of the live replays, innermost first, and the rest of the wire follow each other
  without gap or overlap, starting where the active level is. It is stated of a
  level and the next live one below it, which avoids recursion over the levels;
  the lemma `ReadBodyStack` shows that a read keeps it and returns the next bytes.
  `InnerCaptures` adds what a clean capture leaves behind (`CaptureInv`): one byte
  more than its limit, or everything and a wire that will say so again.
- **`CaptureBodyProofs`**: `CaptureWithinLimits` (`TypeOK`), `AbsenceIsExplained`,
  `CompleteOrFlaggedBody`, `DecodingIsAllOrNothing` and `SampleIsARun`: the
  safety properties of the `capture` run, for any sizes, limits and chains of
  codings. The properties speak of the state after the return, so the invariant
  says what is known before it: after the capture the wire is whole or flagged;
  while layers are left, an honest body carries exactly the codings still to undo
  and is whole unless `cut` says otherwise; and when the layers are over there is
  at most one warning, which says which way they ended. `SampleIsARun` rests on a
  lemma about `buildSample`: two pieces that do not overlap are a run of bytes.
  `CompleteOrFlaggedBody` is about the limits the read loop can use (`LimitsFit`);
  at the largest one the code does return an empty body with no flag, and the
  other theorems hold there too.
  `CaptureWithinLimits` needs what the layers make of a size, step by step.
- **`AnalyzeRequestProofs`**: `PipelineTypes` (`TypeOK`), `GapsExplained`
  (`EveryNilExplained`), `DecodedResults` (`ResultsAreOfDecodedData`) and
  `EntropyAndMeta` (`EntropyAgreesWithMeta`), for any content types, modules,
  limits and bodies. The capture's lemmas are used through its instance; its
  invariant is stated of the warnings it added itself, since the fingerprint may
  have warned before it. `GapsExplained` has the two exceptions its property
  names: a form that `url.ParseQuery` rejects, and a sample longer than a
  `MaxAnalyzeBytes` below four. The invariant of the pipeline says of each module that is
  through what its result or its warning follows from.
- **`JSONWalkProofs`**: `DepthIsLimited` (`TypeOK`) and `FieldsAreBounded`, for
  any set of documents closed under taking parts (`ValuesAssumption`). The frame
  of a call sits at the depth its place on the stack says, which bounds the
  stack; the lemma `EnterKeeps` is one call, whoever makes it. And
  `LimitsDependOnDocument` (`LimitIffOver`) and `StatsAreTrue`
  (`StatsMatchDocument`), for any nesting (`NestingAssumption`). The values of a
  document are a finite tree in which a path names one value (`NodesAreATree`).
  `WalkInv` says which of them were visited (`Follows`): the parts of a visited
  value that were not are exactly the steps left in its frame (`Tracks`), and the
  statistics are the tally of the visited values and of the keys counted
  (`Tally`). Once no frame is left nothing is left out (`DoneTracks`), and a
  tally of a part nowhere exceeds that of the whole (`TallyGrows`).
- **`XMLWalkProofs`**: `TypeCorrect`, `FieldsAreBounded`, `AveragesAreSound`, whose
  three properties are inductive together, `LimitsAreExact` (`StopsAtTheLimit`) and
  `CountsAreTrue` (`CountsMatchTokens`), for inputs of any length. For the last two
  the invariant `Follows` says that the decoder's nesting is that of the tokens
  and that the counters are those of `XMLWalkReference`; the lemma `CountedAppend`
  is what one more token adds to each of the reference's sets, and to the charset
  analysis, which is a loop over the same tokens.
- **`CharsetProofs`**: `CountsAreExact` (`CountsMatchTokens`) and `CleanIsOneValue`
  (`CleanMeansOneValue`), for JSON inputs of any length and nesting. The heart is
  `FramesAreFollowed`: the loop's frames are the decoder's open containers, and
  the innermost one expects a key exactly when the decoder does. The tokens
  handed out are tied to it by counting: the containers opened less those closed
  are as many as are open. And, of the scan, `CutTakesWholeRunes`
  (`CutAtRuneBoundary`), `ScanCountsText` (`CountsMatchText`) and `FlagsFollowText`
  (`FlagsMatchText`), for texts of any length over any classes of characters
  (`CharsetAssumption` gives what a class must know). The text is laid out in
  bytes, the sample is drawn from them with at most one seam, and between the
  seams the bytes of a whole character lie next to each other (`BytesLaidOut`,
  `SampleIsDrawn`, `WholeAt`); `trimIncompleteUTF8Suffix` leaves no part of one
  at the end (`TrimLeavesNoPart`). So at every place where it stops the scan
  meets a whole character, a byte that belongs to none, or, once, the bytes on
  both sides of the seam. `CharsetInv` keeps the tally: the counters are those of
  the characters passed, plus at most one for the seam.
- **`FingerprintProofs`**: `SettledOnceBuilt` (`SettledWhenBuilt`),
  `AddressInStrongHashOnly` (`AddressOnlyInStrongHash`), `ConfigUsable`
  (`ConfigIsUsable`), `ListedPeersOnly` (`OnlyListedPeersAreBelieved`) and
  `UsableHeaderDecides` (`FirstUsableHeaderDecides`), for any configurations,
  requests and library, with `NumbersAreUsable` and `NormalizedIsUsable` of
  `normalizeConfig` alone: the limits that come out are positive and consistent,
  the lists hold each canonical text once and are not empty, and applying it again
  changes nothing. Two assumptions are about the library and the caller: that the
  canonical text of a canonical text is itself, and that what a caller can put
  into a list is a text. The invariant is about the arrays: those the caller holds
  are its own or copies `DefaultConfig` made, never the package's and never the
  middleware's; the package's hold the defaults as they were; each list of the
  middleware lies in an array made for it; and so what the middleware reads there,
  `cfg`, is still the normal form of the `Config` it was given. The lemma
  `NormalizedIsApart` is what `normalizeConfig` does to the arrays; the step that
  matters is `WriteStep`, any write by the caller at any time.

Inductions over a length (in lists, byte layouts, token sequences) are done over
the set of naturals for which a claim holds, from the well-foundedness of their
order: the library's induction theorems take an operator as a parameter, which
the provers cannot treat.

Only model-checked: liveness. `ImplementsLimitedRead`, `ImplementsHandlerBody`
and `AlwaysServed` have a part under fairness, which the prover cannot treat;
the safety part of the two refinements is proved.

## 5. Not modelled, and why

- The floating-point statistics (entropy, ratios, scores) and the Unicode tables:
  arithmetic over data without control.
- Durations, header statistics, wording of warnings.
- The parsers of the standard library: they are the environment.
- The loops over the values of a form and over the parts of a multipart body:
  they have no limit of their own and no order to get wrong, so only their
  outcomes (full, partial or no result, and the warning) are in `AnalyzeRequest`.
  The form metrics of the charset analysis likewise.
- How a text is trimmed, folded or parsed, and the hash functions: parameters.
- The result types, the functions that forward to others, and the example server.

## 6. Plan

Done: the read loop, the replay, the capture, the pipeline, the two walks with
limits, the charset analysis with the JSON and XML metrics, the configuration
and the fingerprint; proofs of every component.

Left: the part loop of multipart bodies, when a property is found that could fail.
