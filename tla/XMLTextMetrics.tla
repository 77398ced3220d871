--------------------------- MODULE XMLTextMetrics ---------------------------
(***************************************************************************)
(* analyzeXMLTextMetrics (internal/core/charset.go): what the charset      *)
(* analysis counts of the tokens of an XML decoder.  It keeps no depth and *)
(* knows no limit.  A token is a record of its tag ("start", "end", "text" *)
(* or "blank" for text of white space only) and its number of attributes.  *)
(***************************************************************************)
EXTENDS Integers, Sequences

NoXMLMetrics == [tokenCount |-> 0, tagCount |-> 0, attributeCount |-> 0, textNodeCount |-> 0]

Buggy_CountToken(m, token) ==
    CASE token.tag = "start" -> [m EXCEPT !.tokenCount = @ + 1, !.tagCount = @ + 1,
                                          !.attributeCount = @ + token.attrs]
      [] token.tag \in {"text", "blank"} -> [m EXCEPT !.tokenCount = @ + 1, !.textNodeCount = @ + 1]
      [] OTHER -> m

\* The metrics after one more token.
CountToken(m, token) ==
    CASE token.tag = "start" -> [m EXCEPT !.tokenCount = @ + 1, !.tagCount = @ + 1,
                                          !.attributeCount = @ + token.attrs]
      [] token.tag = "text"  -> [m EXCEPT !.tokenCount = @ + 1, !.textNodeCount = @ + 1]
      [] OTHER               -> m

\* The metrics of an input that ends after these tokens.
XMLMetrics(tokens) ==
    LET after[i \in 0 .. Len(tokens)] ==
          IF i = 0 THEN NoXMLMetrics ELSE CountToken(after[i - 1], tokens[i])
    IN  after[Len(tokens)]

\* Whether there are metrics when the decoder fails after these tokens.
HasXMLMetrics(tokens) == XMLMetrics(tokens).tokenCount > 0

=============================================================================
