-------------------------- MODULE XMLWalkReference --------------------------
(***************************************************************************)
(* The statistics of a sequence of XML tokens defined from the tokens      *)
(* themselves, with no loop and no limits, and what XMLWalk has to do with *)
(* them.                                                                   *)
(***************************************************************************)
EXTENDS XMLWalk, XMLTextMetrics, FiniteSetsExt

Tagged(ts, tag) == {i \in DOMAIN ts : ts[i].tag = tag}

\* The nesting after the i-th token.
Nesting(ts, i) ==
    Cardinality({j \in Tagged(ts, "start") : j <= i}) - Cardinality({j \in Tagged(ts, "end") : j <= i})

TrueDepth(ts) == Max({0} \cup {Nesting(ts, i) : i \in DOMAIN ts})

\* Every attribute, as the token it is of and its place there.
Attributes(ts) == {p \in (DOMAIN ts) \X (1 .. MaxAttributes) : p[2] <= ts[p[1]].attrs}

TrueElements(ts)   == Cardinality(Tagged(ts, "start"))
TrueTexts(ts)      == Cardinality(Tagged(ts, "text"))
TrueAttributes(ts) == Cardinality(Attributes(ts))
MostAttributes(ts) == Max({0} \cup {ts[i].attrs : i \in DOMAIN ts})

-----------------------------------------------------------------------------
\* The loop gives up exactly on an input that passes a limit, and names the
\* limit that was passed first: neither a token too early nor too late.
StopsAtTheLimit ==
    /\ outcome = "depth" <=> TrueDepth(tokens) > maxJSONDepth
    /\ outcome = "fields" <=> /\ TrueDepth(tokens) <= maxJSONDepth
                              /\ TrueElements(tokens) + TrueAttributes(tokens) > maxFields

\* Unless a limit cut it short, the result counts every tag, attribute and
\* text of the input read, even when the input breaks off; and no result at
\* all means that nothing was there to count.  The charset analysis, which
\* reads the same document in a loop of its own, agrees: where no limit stops
\* the first both count the same and have a result or none, and past a limit
\* the charset analysis never counts less.
CountsMatchTokens ==
    LET m == XMLMetrics(tokens)
        complexity == <<stats.elementCount, stats.attributeCount, stats.textNodeCount>>
        charset    == <<m.tagCount, m.attributeCount, m.textNodeCount>>
    IN  /\ outcome \notin {"depth", "fields"} =>
             /\ stats.maxDepth = TrueDepth(tokens)
             /\ complexity = <<TrueElements(tokens), TrueAttributes(tokens), TrueTexts(tokens)>>
             /\ stats.maxAttributes = MostAttributes(tokens)
             /\ charset = complexity
        /\ outcome \in {"nil", "failed"} => (outcome = "failed" <=> HasXMLMetrics(tokens))
        /\ \A i \in 1 .. 3 : complexity[i] <= charset[i]

=============================================================================
