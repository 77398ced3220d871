----------------------------- MODULE MCCharset ------------------------------
(* Instances of Charset.                                                   *)
EXTENDS Charset

Char(class, length) == [announced |-> length, length |-> length, class |-> class]

WellFormed == {Char("a", 1), Char("cyrillic a", 2), Char("zero width", 3),
               Char("replacement", 3), Char("han", 3), Char("emoji", 4)}

\* A lone continuation byte, and a character that lacks its last byte.
IllFormed == {[announced |-> 0, length |-> 1, class |-> "stray"],
              [announced |-> 3, length |-> 2, class |-> "han"]}

Single == {Char("7", 1), Char("blank", 1), Char("plus", 1), Char("escape", 1),
           Char("alpha", 2), Char("wide blank", 3)}

Input(text, sampleBytes, strategy, maxAnalyze, seam, json, scripts, confusable) ==
    [text |-> text, sampleBytes |-> sampleBytes, strategy |-> strategy,
     maxAnalyze |-> maxAnalyze, seam |-> seam, json |-> json, scripts |-> scripts,
     confusable |-> confusable, suspicious |-> TRUE]

\* A character that lacks a byte is not followed by one.
TextsOver(chars, n) ==
    {t \in UNION {[1 .. k -> chars] : k \in 1 .. n} :
       \A i \in 2 .. Len(t) : t[i].announced = 0 => t[i - 1].announced <= t[i - 1].length}

\* Every text of three characters under every cut; the settings one after the
\* other; and the token streams of JSON, for which the text does not matter.
MCInputs ==
    {Input(t, s, w, m, "stray", FALSE, TRUE, TRUE)
       : t \in TextsOver(WellFormed \cup IllFormed, 3), s \in {2, 5, 9},
         w \in {"head", "tail"}, m \in {2, 4, 9}}
    \cup {Input(t, s, "head_tail", m, c, FALSE, TRUE, TRUE)
            : t \in TextsOver(WellFormed \cup IllFormed, 3), s \in {4, 5}, m \in {3, 5},
              c \in {"stray", "han", "cyrillic a"}}
    \cup {[Input(t, 9, "head", 9, "stray", FALSE, s, c) EXCEPT !.suspicious = x]
            : t \in [1 .. 2 -> WellFormed \cup Single], s, c, x \in BOOLEAN}
    \cup {Input(<<Char("a", 1)>>, 9, "head", 9, "stray", TRUE, TRUE, TRUE),
          Input(<<Char("han", 3)>>, 9, "head", 1, "stray", TRUE, TRUE, TRUE)}

\* Well-formed texts and the cut of a sample.
MCWellFormed ==
    {Input(t, s, "head", 9, "stray", FALSE, TRUE, TRUE)
       : t \in TextsOver(WellFormed, 2), s \in {2, 5}}

=============================================================================
