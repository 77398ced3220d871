--------------------------- MODULE MCFingerprint ----------------------------
(* Instances of Fingerprint.                                               *)
EXTENDS Fingerprint, TLC

Addresses == {"peer", "proxy", "client", "other"}
Pair(k, v) == [key |-> k, value |-> v]
Element(t, pairs) == [text |-> t, pairs |-> pairs]

\* Header texts that have more than one element or a pair.
MCComposed ==
    ("other,client" :> <<Element("other", <<>>), Element("client", <<>>)>>)
    @@ ("client,proxy" :> <<Element("client", <<>>), Element("proxy", <<>>)>>)
    @@ ("junk,client" :> <<Element("junk", <<>>), Element("client", <<>>)>>)
    @@ ("by=proxy;for=client" :>
          <<Element("by=proxy;for=client", <<Pair("by", "proxy"), Pair("for", "client")>>)>>)
    @@ ("for=_x,for=client" :>
          <<Element("for=_x", <<Pair("for", "_x")>>), Element("for=client", <<Pair("for", "client")>>)>>)

Plain == {"", " ", "junk", "_x", "agent", "AGENT", "host", "HOST", "user-agent", "User-Agent",
          "forwarded", "x-forwarded-for", "X-Forwarded-For", "10/8", "zoned", "peer:80", "bad",
          "POST", "post", "json", "md5", "sha1", "SHA1", "sha256", "v1", "tls1.3", Multipart}

MCText == Plain \cup Addresses \cup DOMAIN MCComposed

MCElements == [t \in MCText |-> IF t \in DOMAIN MCComposed THEN MCComposed[t]
                                ELSE <<Element(t, <<>>)>>]

MCAddress == [t \in MCText |-> CASE t \in Addresses -> t
                                 [] t = "peer:80"   -> "peer"
                                 [] OTHER           -> NoAddress]

Lower == (" " :> "" @@ "AGENT" :> "agent" @@ "HOST" :> "host" @@ "User-Agent" :> "user-agent"
          @@ "X-Forwarded-For" :> "x-forwarded-for" @@ "SHA1" :> "sha1" @@ "POST" :> "post")
          @@ [t \in MCText |-> t]
Upper == (" " :> "" @@ "post" :> "POST") @@ [t \in MCText |-> t]

MCNormal == Lower
MCNetwork == [c \in MCText |-> CASE c = "10/8"        -> {"proxy", "other"}
                                 [] c \in Addresses   -> {c}
                                 [] OTHER             -> {}]
MCCanonical ==
    [l \in Lists \cup TextFields |->
       CASE l = "methods" -> Upper
         [] l = "version" -> (" " :> "") @@ [t \in MCText |-> t]
         [] l = "cidrs"   -> [t \in MCText |-> IF MCNetwork[t] = {} /\ t # "zoned" THEN "" ELSE t]
         [] OTHER         -> Lower]

MCDefault == [maxRead |-> 6, sample |-> 4, chunk |-> 3, depth |-> 2, fields |-> 5, charset |-> 2,
              algorithm |-> "sha256", version |-> "v1"]
MCDefaultLists == [methods |-> <<"POST">>, bodyTypes |-> <<"json">>, headers |-> <<"host", "user-agent">>,
                   proxies |-> <<"forwarded", "x-forwarded-for">>, complexityTypes |-> <<"json">>]
MCAlgorithms == {"sha1", "sha256", "sha512", "fnv1a64"}
MCOverwrites == {"x-forwarded-for"}

-----------------------------------------------------------------------------
Zeroes == [n \in Numbers |-> 0]
NoLists == [l \in Lists |-> <<>>]
Flags == [ip |-> TRUE, tls |-> TRUE, trust |-> TRUE, multipart |-> FALSE]
Raw == [numbers |-> Zeroes, strategy |-> "", lists |-> NoLists, flags |-> Flags,
        texts |-> [algorithm |-> " ", version |-> ""]]

\* One setting after the other varied, around a configuration of zeroes.
MCRawConfigs ==
    {[Raw EXCEPT !.numbers = [@ EXCEPT !.maxRead = r, !.sample = s, !.maxDecode = d, !.chunk = d],
                 !.strategy = "tail"]
       : r \in {-1, 2, 12}, s \in {0, 1, 9}, d \in {0, 1}}
    \cup {[Raw EXCEPT !.lists.proxies = p, !.lists.cidrs = c]
            : p \in {<<>>, <<" ", "X-Forwarded-For", "forwarded", "x-forwarded-for">>},
              c \in {<<>>, <<"bad">>, <<"bad", "10/8">>, <<"proxy", "proxy">>, <<"zoned">>}}
    \cup {[Raw EXCEPT !.lists.headers = h, !.flags = f]
            : h \in {<<" ">>, <<"User-Agent", "user-agent", "x-forwarded-for">>},
              f \in [ip: BOOLEAN, tls: BOOLEAN, trust: BOOLEAN, multipart: {TRUE}]}
    \cup {[Raw EXCEPT !.texts.algorithm = a, !.lists.bodyTypes = <<t>>, !.flags.multipart = m]
            : a \in {"md5", "SHA1"}, t \in {" ", Multipart}, m \in BOOLEAN}

\* Requests told apart by the agent, TLS, the peer and what a proxy says.
Request(agent, tls, remote, forwarded, xff) ==
    [host |-> "HOST", tls |-> tls, remote |-> remote,
     headers |-> ("user-agent" :> agent) @@ ("forwarded" :> forwarded) @@ ("x-forwarded-for" :> xff)]
TLS13 == [version |-> "tls1.3", sni |-> "HOST", alpn |-> ""]

MCRequests ==
    {Request(<<"AGENT">>, NoTLS, r, f, x)
       : r \in {"peer:80", "proxy", "bad"}, f \in {<<"by=proxy;for=client">>, <<"for=_x,for=client">>},
         x \in {<<"junk,client">>, <<"other", "client">>}}
    \cup {Request(<<" ">>, TLS13, "peer", <<>>, <<>>),
          Request(<<"agent">>, NoTLS, "proxy", <<>>, <<"client,proxy">>),
          Request(<<"agent">>, NoTLS, "proxy", <<"for=_x,for=client">>, <<"other,client">>)}

\* The lines of a header as one text: one header of one request has two lines.
MCJoin == [lines \in UNION {Range(req.headers) : req \in MCRequests} \ {<<>>} |->
             IF lines = <<"other", "client">> THEN "other,client" ELSE lines[1]]

=============================================================================
