---------------------------- MODULE Fingerprint -----------------------------
(***************************************************************************)
(* A middleware from its configuration to the fingerprints of its          *)
(* requests: Middleware normalises the Config it is given and keeps the    *)
(* result for every request; analyzeFingerprint                            *)
(* (internal/core/fingerprint.go) works on the headers, the TLS state and  *)
(* the address of the client, which a trusted proxy may name in a header.  *)
(*                                                                         *)
(* The lists of a Config are slices, so the arrays they lie in are part of *)
(* the state: the default lists of the package, those of the caller, the   *)
(* copies DefaultConfig hands out and the ones the middleware keeps.  The  *)
(* caller may write into an array it has a slice of at any time.  An array *)
(* is named by who makes it and the list it is made for.                   *)
(*                                                                         *)
(* The library that takes texts apart is given by functions on texts:      *)
(* Normal is normalizeFieldValue, Elements splits at commas, semicolons    *)
(* and equals signs, Address is parseNormalizedIP.  A hash is ideal: it is *)
(* what it was computed from.                                              *)
(***************************************************************************)
EXTENDS Config

CONSTANTS
  RawConfigs,    \* the configurations a caller may start from
  Requests,      \* the requests considered
  Overwrites,    \* what the caller may write into a list it has
  MaxWrites,     \* how often the caller writes
  MaxRequests,   \* how many requests are served
  Join,          \* Join[lines]: the lines of a header joined with commas
  Normal,        \* Normal[text]
  Elements,      \* Elements[text]: records of the element's text and its pairs
  Address,       \* Address[text], or NoAddress
  Network,       \* Network[cidr]: the addresses a trusted proxy entry stands for
  Algorithms     \* the hash algorithms isSupportedHashAlgorithm knows

NoAddress == ""
NoTLS == [version |-> "", sni |-> "", alpn |-> ""]

ASSUME LibraryAssumption ==
    /\ Normal \in [Text -> Text]
    /\ Address \in [Text -> Text]
    /\ MaxRequests \in Nat /\ MaxWrites \in Nat
    /\ \A req \in Requests : \A h \in DOMAIN req.headers :
         req.headers[h] # <<>> => Join[req.headers[h]] \in Text

\* What a caller can pass and net/http can deliver: no header without a name.
ASSUME InputAssumption ==
    /\ \A c \in RawConfigs :
         /\ c.numbers \in [maxRead: Int, maxDecode: Int, chunk: Int, sample: Int, depth: Int,
                           fields: Int, charset: Int]
         /\ c.lists \in [Lists -> Seq(Text)]
         /\ c.texts \in [TextFields -> Text]
         /\ c.flags.multipart \in BOOLEAN
    /\ \A req \in Requests : "" \notin DOMAIN req.headers
    /\ Overwrites \subseteq Text

Arrays == {"package", "caller", "literal", "DefaultConfig", "Middleware"} \X Lists

VARIABLES
  arrays,   \* arrays[array]: the texts in it
  raw,      \* the Config the caller holds, its lists given by their arrays
  held,     \* the arrays the caller has had a slice of
  writes,   \* how often the caller has written into one
  built,    \* whether Middleware was called
  used,     \* the Config the middleware keeps, its lists given by their arrays
  given,    \* what raw was at that call, its lists given by their texts
  served    \* the requests served, each with its FingerprintResult and warning

vars == <<arrays, raw, held, writes, built, used, given, served>>

-----------------------------------------------------------------------------
\* A field value is a tuple of texts, and empty when the field is left out.
Value(text) == IF Normal[text] = "" THEN <<>> ELSE <<Normal[text]>>

\* The lines of a header the request has; Host is not among its headers.
Lines(req, header) == IF header \in DOMAIN req.headers THEN req.headers[header] ELSE <<>>

\* normalizeFieldValue of the lines joined with commas.
HeaderValue(req, header) ==
    IF header = "host" THEN Value(req.host)
    ELSE IF Lines(req, header) = <<>> THEN <<>>
    ELSE Value(Join[Lines(req, header)])

HeaderFields(req, c) ==
    [h \in {h \in Range(c.lists.headers) : HeaderValue(req, h) # <<>>} |-> HeaderValue(req, h)]

\* The TLS version is always a field; the other two only when they are set.
TLSFields(req, c) ==
    LET value == [n \in {"tls.version", "tls.sni", "tls.alpn"} |->
                    CASE n = "tls.version" -> <<req.tls.version>>
                      [] n = "tls.sni"     -> Value(req.tls.sni)
                      [] n = "tls.alpn"    -> Value(req.tls.alpn)]
    IN  IF c.flags.tls /\ req.tls # NoTLS
        THEN [n \in {n \in DOMAIN value : value[n] # <<>>} |-> value[n]]
        ELSE <<>>

-----------------------------------------------------------------------------
\* forwardedForValue: the first "for" of the header.  An obfuscated one ends
\* the search as well, and does not parse.
ForwardedFor(text) ==
    LET pairs == FlattenSeq([i \in DOMAIN Elements[text] |-> Elements[text][i].pairs])
        fors  == SelectSeq(pairs, LAMBDA p : p.key = "for")
    IN  IF fors = <<>> THEN "" ELSE fors[1].value

\* The part of a proxy header's text that names the client.
ClaimText(header, text) ==
    CASE header = "forwarded"       -> ForwardedFor(text)
      [] header = "x-forwarded-for" -> Elements[text][1].text
      [] OTHER                      -> text

\* The address a proxy header names: only its first line is looked at.
Claim(req, header) ==
    LET lines == Lines(req, header)
    IN  IF lines = <<>> THEN NoAddress ELSE Address[ClaimText(header, lines[1])]

Buggy_ShouldTrustProxyHeaders(req, c) == c.flags.trust

\* shouldTrustProxyHeaders: a list with no entry left trusts every peer.
ShouldTrustProxyHeaders(req, c) ==
    /\ c.flags.trust
    /\ \/ c.lists.cidrs = <<>>
       \/ \E cidr \in Range(c.lists.cidrs) : Address[req.remote] \in Network[cidr]

\* The proxy headers that name an address, by their places in the list.
Usables(req, c) == {n \in DOMAIN c.lists.proxies : Claim(req, c.lists.proxies[n]) # NoAddress}

First(places) == CHOOSE n \in places : \A m \in places : n <= m

Buggy_ClientIP(req, c) ==
    IF ShouldTrustProxyHeaders(req, c) /\ c.lists.proxies # <<>>
    THEN Claim(req, c.lists.proxies[1]) ELSE Address[req.remote]

\* clientIP: a trusted header that does not parse is passed over.
ClientIP(req, c) ==
    IF ShouldTrustProxyHeaders(req, c) /\ Usables(req, c) # {}
    THEN Claim(req, c.lists.proxies[First(Usables(req, c))])
    ELSE Address[req.remote]

ClientFields(req, c) ==
    IF c.flags.ip /\ ClientIP(req, c) # NoAddress
    THEN [n \in {"client.ip"} |-> <<ClientIP(req, c)>>]
    ELSE <<>>

\* A later assignment to the map replaces an earlier one.
Assigned(earlier, later) ==
    [n \in DOMAIN earlier \cup DOMAIN later |->
       IF n \in DOMAIN later THEN later[n] ELSE earlier[n]]

Buggy_WeakFields(req, c) ==
    Assigned(Assigned(HeaderFields(req, c), TLSFields(req, c)), ClientFields(req, c))

WeakFields(req, c) == Assigned(HeaderFields(req, c), TLSFields(req, c))

Fields(req, c) == Assigned(WeakFields(req, c), ClientFields(req, c))

HashAlgorithm(c) == IF c.texts.algorithm \in Algorithms THEN c.texts.algorithm ELSE "sha256"

HashFields(fields, c) ==
    [fields |-> fields, version |-> c.texts.version, algorithm |-> HashAlgorithm(c)]

\* analyzeFingerprint.
AnalyzeFingerprint(req, c) ==
    [flags  |-> [headers |-> HeaderFields(req, c) # <<>>,
                 tls     |-> TLSFields(req, c) # <<>>,
                 ip      |-> ClientFields(req, c) # <<>>],
     strong |-> HashFields(Fields(req, c), c),
     weak   |-> HashFields(WeakFields(req, c), c),
     warned |-> c.texts.algorithm \notin Algorithms]

-----------------------------------------------------------------------------
\* A Config with other lists.
WithLists(c, lists) ==
    [numbers |-> c.numbers, strategy |-> c.strategy, lists |-> lists, texts |-> c.texts,
     flags |-> c.flags]

\* A Config as it reads now: the texts of its lists in place of their arrays.
ValueOf(heap, c) == WithLists(c, [l \in Lists |-> heap[c.lists[l]]])

\* What the middleware works with.
cfg == ValueOf(arrays, used)

\* The default lists as the package has them now.
PackageLists(heap) == [l \in Lists \ {"cidrs"} |-> heap[<<"package", l>>]]

\* A list filtered within the caller's array, as values[:0] would do.
Buggy_FiltersInPlace(heap, c, list, maker) ==
    IF heap[c.lists[list]] = <<>> THEN <<maker, list>> ELSE c.lists[list]

\* The array of a normalised list: append([]string(nil), default...) makes one
\* for the default, and normalizeMethods, normalizeValues and normalizeCIDRs
\* make one for the texts they keep.
ListArray(heap, c, list, maker) == <<maker, list>>

\* normalizeConfig(c) on behalf of maker: what it returns, and what the arrays
\* hold afterwards.
Normalized(heap, c, maker) ==
    LET value == NormalizeWith(ValueOf(heap, c), PackageLists(heap))
        lists == [l \in Lists |-> ListArray(heap, c, l, maker)]
    IN  [config |-> WithLists(value, lists),
         heap   |-> [a \in Arrays |-> IF lists[a[2]] = a THEN value.lists[a[2]] ELSE heap[a]]]

\* The Config DefaultConfig writes down, with copies of the package's lists.
Literal ==
    [numbers  |-> [maxRead |-> Default.maxRead, maxDecode |-> Default.maxRead,
                   chunk |-> Default.chunk, sample |-> Default.sample, depth |-> Default.depth,
                   fields |-> Default.fields, charset |-> Default.charset],
     strategy |-> "head",
     lists    |-> [l \in Lists |-> <<"literal", l>>],
     texts    |-> [f \in TextFields |-> Default[f]],
     flags    |-> [ip |-> FALSE, tls |-> TRUE, trust |-> FALSE, multipart |-> FALSE]]

Copied(heap) ==
    [a \in Arrays |-> IF a[1] = "literal" /\ a[2] # "cidrs" THEN heap[<<"package", a[2]>>]
                      ELSE heap[a]]

-----------------------------------------------------------------------------
\* The caller has written a Config of its own.
Init ==
    \E c \in RawConfigs :
      /\ raw = WithLists(c, [l \in Lists |-> <<"caller", l>>])
      /\ arrays = [a \in Arrays |->
                     IF a[1] = "caller" THEN c.lists[a[2]]
                     ELSE IF a[1] = "package" /\ a[2] # "cidrs" THEN DefaultLists[a[2]]
                     ELSE <<>>]
      /\ held = {<<"caller", l>> : l \in Lists}
      /\ writes = 0
      /\ built = FALSE
      /\ used = raw
      /\ given = c
      /\ served = <<>>

\* The caller starts from DefaultConfig() and sets the flags and those lists it
\* has something for.
CallDefaultConfig ==
    LET default == Normalized(Copied(arrays), Literal, "DefaultConfig")
        own(l)  == arrays[raw.lists[l]] # <<>>
    IN  /\ ~built
        /\ held = {<<"caller", l>> : l \in Lists}
        /\ arrays' = default.heap
        /\ raw' = [numbers  |-> default.config.numbers,
                   strategy |-> default.config.strategy,
                   lists    |-> [l \in Lists |-> IF own(l) THEN raw.lists[l]
                                                 ELSE default.config.lists[l]],
                   texts    |-> default.config.texts,
                   flags    |-> raw.flags]
        /\ held' = held \cup {default.config.lists[l] : l \in Lists}
        /\ UNCHANGED <<writes, built, used, given, served>>

\* Middleware(raw).
Middleware ==
    LET normalized == Normalized(arrays, raw, "Middleware")
    IN  /\ ~built
        /\ built' = TRUE
        /\ arrays' = normalized.heap
        /\ used' = normalized.config
        /\ given' = ValueOf(arrays, raw)
        /\ UNCHANGED <<raw, held, writes, served>>

\* The caller writes into the first place of a list it has.
CallerWrites ==
    \E array \in held, text \in Overwrites :
      /\ writes < MaxWrites
      /\ writes' = writes + 1
      /\ arrays[array] # <<>>
      /\ arrays' = [arrays EXCEPT ![array] = [@ EXCEPT ![1] = text]]
      /\ UNCHANGED <<raw, held, built, used, given, served>>

\* A request comes in.
Serve ==
    \E req \in Requests :
      /\ built
      /\ Len(served) < MaxRequests
      /\ served' = Append(served, [req |-> req, result |-> AnalyzeFingerprint(req, cfg)])
      /\ UNCHANGED <<arrays, raw, held, writes, built, used, given>>

Next == CallDefaultConfig \/ Middleware \/ CallerWrites \/ Serve

Spec == Init /\ [][Next]_vars

-----------------------------------------------------------------------------
\* Whatever the caller configures, the middleware runs with settings the other
\* parts can use, and normalising them again changes nothing: DefaultConfig is
\* normalised already when Middleware normalises it once more.
ConfigIsUsable == built => Usable(cfg) /\ NormalizeConfig(cfg) = cfg

\* What the middleware does is settled when Middleware is called, by the Config
\* it is given and the package's own defaults: a caller that writes into a list
\* it passed, or into one that DefaultConfig gave it, before or after the call,
\* changes no fingerprint and no default.
SettledWhenBuilt ==
    \A i \in DOMAIN served :
      served[i].result = AnalyzeFingerprint(served[i].req, NormalizeConfig(given))

\* Two requests that agree in the configured headers and in TLS.
Alike(r, s) ==
    /\ \A h \in Range(cfg.lists.headers) : HeaderValue(r, h) = HeaderValue(s, h)
    /\ r.tls = s.tls

\* README, fingerprint.WeakHash: it excludes the client's address.  Of requests
\* that agree in all else the weak hashes are equal wherever they come from and
\* whatever a proxy says, and the strong hashes are equal exactly when the
\* addresses are the same or not included.  (A header that is itself called
\* client.ip would be replaced by the address.)
AddressOnlyInStrongHash ==
    \A i, j \in DOMAIN served :
      Alike(served[i].req, served[j].req) /\ "client.ip" \notin Range(cfg.lists.headers) =>
        /\ served[i].result.weak = served[j].result.weak
        /\ served[i].result.strong = served[j].result.strong <=>
             ClientFields(served[i].req, cfg) = ClientFields(served[j].req, cfg)

\* The address in a fingerprint.
Names(result, address) ==
    "client.ip" \in DOMAIN result.strong.fields /\ result.strong.fields["client.ip"] = <<address>>

\* README, "trusted-proxy CIDR checks": the address in a fingerprint is the
\* peer's own unless the caller trusts proxies and, when some entry of the list
\* it gave stands for a network, the peer is in one of those networks.
OnlyListedPeersAreBelieved ==
    LET networks == {Network[Canonical["cidrs"][v]] : v \in
                       {v \in Range(given.lists.cidrs) : Canonical["cidrs"][v] # ""}}
        Believed(req) == /\ given.flags.trust
                         /\ networks # {} => \E n \in networks : Address[req.remote] \in n
    IN  \A i \in DOMAIN served :
          served[i].result.flags.ip /\ ~Believed(served[i].req) =>
            Names(served[i].result, Address[served[i].req.remote])

\* Of the headers the caller lists, in its order, the first that names an
\* address decides: one that does not parse hides neither the headers after it
\* nor the peer's address.
FirstUsableHeaderDecides ==
    \A i \in DOMAIN served :
      LET req   == served[i].req
          names == {n \in DOMAIN given.lists.proxies :
                      Claim(req, Canonical["proxies"][given.lists.proxies[n]]) # NoAddress}
      IN  ShouldTrustProxyHeaders(req, cfg) /\ given.flags.ip /\ names # {} =>
            Names(served[i].result, Claim(req, Canonical["proxies"][given.lists.proxies[First(names)]]))

=============================================================================
