--------------------------- MODULE CharsetProofs ----------------------------
(***************************************************************************)
(* Proofs about Charset for inputs of any length and nesting.  First the   *)
(* JSON metrics, which follow from FramesFollowDecoder: as long as the     *)
(* loop's own stack is the decoder's, it takes exactly the keys for keys.  *)
(* Then the cut, the scan and the flags for texts of any length, any       *)
(* sampling and any limit: the bytes of a text and of a sample (BytesOf,   *)
(* Sampled), what a rune is among them, and the invariant CharsetInv.      *)
(***************************************************************************)
EXTENDS Charset, SequenceTheorems, FiniteSetTheorems, WellFoundedInduction, TLAPS

Frame == [kind: {"object", "array"}, expectKey: BOOLEAN]
Places == {"keyDue", "valueDue", "valueOpen", "inArray"}

\* The frame the loop keeps for a container.
Matches(f, p) == f.kind = (IF p = "inArray" THEN "array" ELSE "object") /\ (f.expectKey <=> p = "keyDue")

Follow(fs, ps) ==
    /\ Len(fs) = Len(ps)
    /\ \A i \in 1 .. Len(fs) : Matches(fs[i], ps[i])

\* A container whose value is open is one with another inside it.
NestingOK(ps) == ps \in Seq(Places) /\ (ps # <<>> => Last(ps) # "valueOpen")

MetricsTypeOK ==
    /\ tokens \in Seq(Kinds)
    /\ NestingOK(nesting)
    /\ frames \in Seq(Frame)
    /\ complete \in BOOLEAN
    /\ outcome \in Outcomes

Metrics == [Fields -> Nat]

One(token, kinds) == IF token \in kinds THEN 1 ELSE 0

\* The fields a token counts in, and the metrics with one token more.
CountedIn(token) ==
    (IF token = "key" THEN {"keyCount"} ELSE {})
      \cup (IF token \in Scalars THEN {"valueCount"} ELSE {})
      \cup (IF token = "string" THEN {"stringCount"} ELSE {})
      \cup (IF token = "number" THEN {"numberCount"} ELSE {})

Tallied(token) == OneMore(CountedIn(token))

\* The loop has not met a token after the top-level value.
Following == outcome # "trailing"

\* The frames, and while the loop follows, what it takes for complete.
FramesInv ==
    /\ MetricsTypeOK
    /\ Following => Follow(frames, nesting)
    /\ Following => (complete <=> tokens # <<>> /\ nesting = <<>>)

\* What CountsMatchTokens leaves out, and the fields it is about.
Extra(kinds) == IF outcome = "trailing" /\ Last(tokens) \in kinds THEN 1 ELSE 0

KindsOf(field) ==
    CASE field = "tokenCount"  -> Kinds
      [] field = "keyCount"    -> {"key"}
      [] field = "valueCount"  -> Scalars
      [] field = "stringCount" -> {"string"}
      [] field = "numberCount" -> {"number"}

CountsInv ==
    /\ metrics \in Metrics
    /\ \A f \in Fields : metrics[f] = Handed(KindsOf(f)) - Extra(KindsOf(f))

\* The tokens tell what is open, and how many values have begun.
ValuesInv ==
    /\ Handed(Opening) = Handed(Closing) + Len(nesting)
    /\ tokens = <<>> => nesting = <<>>
    /\ IsFiniteSet(Values)
    /\ Values \subseteq 1 .. Len(tokens)
    /\ Cardinality(Values) = IF tokens = <<>> THEN 0 ELSE IF Following THEN 1 ELSE 2

\* How the loop returned.
ReturnInv ==
    /\ outcome = "clean" => nesting = <<>>
    /\ outcome = "unexpected" => nesting # <<>>
    /\ outcome = "nil" => tokens = <<>>
    /\ outcome = "trailing" => tokens # <<>>

Inv == FramesInv /\ CountsInv /\ ValuesInv /\ ReturnInv

-----------------------------------------------------------------------------
\* The sequence without its last element.
LEMMA FrontProperties ==
    ASSUME NEW S, NEW s \in Seq(S), s # <<>>
    PROVE  /\ Front(s) \in Seq(S)
           /\ Len(Front(s)) = Len(s) - 1
           /\ \A i \in 1 .. Len(s) - 1 : Front(s)[i] = s[i]
           /\ Last(s) \in S /\ Last(s) = s[Len(s)]
           /\ Len(s) \in Nat \ {0}
  <1>1. Len(s) \in Nat \ {0} /\ DOMAIN s = 1 .. Len(s)
    BY EmptySeq, LenProperties
  <1>2. s[Len(s)] \in S
    BY <1>1, ElementOfSeq
  <1>3. Front(s) = SubSeq(s, 1, Len(s) - 1)
    BY DEF Front
  <1> QED BY <1>1, <1>2, <1>3, SubSeqProperties DEF Last

\* A sequence with its last element replaced.
LEMMA WithLastProperties ==
    ASSUME NEW S, NEW s \in Seq(S), s # <<>>, NEW e \in S
    PROVE  /\ WithLast(s, e) \in Seq(S)
           /\ Len(WithLast(s, e)) = Len(s)
           /\ WithLast(s, e) # <<>>
           /\ Last(WithLast(s, e)) = e
           /\ \A i \in 1 .. Len(s) - 1 : WithLast(s, e)[i] = s[i]
           /\ WithLast(s, e)[Len(s)] = e
  <1> DEFINE f == Front(s)
  <1>1. /\ f \in Seq(S) /\ Len(f) = Len(s) - 1 /\ Len(s) \in Nat \ {0}
        /\ \A i \in 1 .. Len(s) - 1 : f[i] = s[i]
    BY FrontProperties
  <1>2. WithLast(s, e) = Append(f, e)
    BY DEF WithLast
  <1> HIDE DEF f
  <1>3. /\ Append(f, e) \in Seq(S) /\ Len(Append(f, e)) = Len(f) + 1
        /\ Append(f, e)[Len(f) + 1] = e
        /\ \A i \in 1 .. Len(f) : Append(f, e)[i] = f[i]
    BY <1>1, AppendProperties
  <1> QED BY <1>1, <1>2, <1>3 DEF Last

\* A container more inside.
LEMMA FollowAppend ==
    ASSUME NEW fs \in Seq(Frame), NEW ps \in Seq(Places), Follow(fs, ps),
           NEW f \in Frame, NEW p \in Places, Matches(f, p)
    PROVE  /\ Follow(Append(fs, f), Append(ps, p))
           /\ Append(fs, f) \in Seq(Frame) /\ Append(ps, p) \in Seq(Places)
           /\ Append(ps, p) # <<>> /\ Last(Append(ps, p)) = p
           /\ Append(fs, f) # <<>>
  <1> DEFINE gs == Append(fs, f)
             qs == Append(ps, p)
  <1>1. Len(fs) \in Nat /\ Len(ps) = Len(fs) /\ \A i \in 1 .. Len(fs) : Matches(fs[i], ps[i])
    BY LenProperties DEF Follow
  <1>2. /\ gs \in Seq(Frame) /\ gs # <<>> /\ Len(gs) = Len(fs) + 1
        /\ \A i \in 1 .. Len(fs) : gs[i] = fs[i]
        /\ gs[Len(fs) + 1] = f
    BY AppendProperties
  <1>3. /\ qs \in Seq(Places) /\ qs # <<>> /\ Len(qs) = Len(ps) + 1
        /\ \A i \in 1 .. Len(ps) : qs[i] = ps[i]
        /\ qs[Len(ps) + 1] = p
    BY AppendProperties
  <1> HIDE DEF gs, qs
  <1>4. ASSUME NEW i \in 1 .. Len(gs) PROVE Matches(gs[i], qs[i])
    <2>1. i \in 1 .. Len(fs) \/ i = Len(fs) + 1
      BY <1>1, <1>2
    <2> QED BY <1>1, <1>2, <1>3, <2>1
  <1>5. Follow(gs, qs) /\ Last(qs) = p
    BY <1>1, <1>2, <1>3, <1>4 DEF Follow, Last
  <1> QED BY <1>2, <1>3, <1>5 DEF gs, qs

\* The innermost container taken away.
LEMMA FollowFront ==
    ASSUME NEW fs \in Seq(Frame), NEW ps \in Seq(Places), Follow(fs, ps), ps # <<>>
    PROVE  /\ fs # <<>>
           /\ Matches(Last(fs), Last(ps)) /\ Last(fs) \in Frame
           /\ Follow(Front(fs), Front(ps))
           /\ Front(fs) \in Seq(Frame) /\ Front(ps) \in Seq(Places)
  <1>1. Len(ps) \in Nat \ {0} /\ Len(fs) = Len(ps) /\ fs # <<>>
    BY EmptySeq DEF Follow
  <1> DEFINE gs == Front(fs)
             qs == Front(ps)
  <1>2. /\ gs \in Seq(Frame) /\ Len(gs) = Len(fs) - 1
        /\ \A i \in 1 .. Len(fs) - 1 : gs[i] = fs[i]
        /\ Last(fs) \in Frame /\ Last(fs) = fs[Len(fs)]
    BY <1>1, FrontProperties, Zenon
  <1>3. /\ qs \in Seq(Places) /\ Len(qs) = Len(ps) - 1
        /\ \A i \in 1 .. Len(ps) - 1 : qs[i] = ps[i]
        /\ Last(ps) = ps[Len(ps)]
    BY <1>1, FrontProperties, Zenon
  <1> HIDE DEF gs, qs
  <1>4. Follow(gs, qs)
    BY <1>1, <1>2, <1>3 DEF Follow
  <1>5. Matches(Last(fs), Last(ps))
    BY <1>1, <1>2, <1>3 DEF Follow
  <1> QED BY <1>1, <1>2, <1>3, <1>4, <1>5 DEF gs, qs

\* The innermost container at another place.
LEMMA FollowWithLast ==
    ASSUME NEW fs \in Seq(Frame), NEW ps \in Seq(Places), Follow(fs, ps), ps # <<>>,
           NEW f \in Frame, NEW p \in Places, Matches(f, p)
    PROVE  /\ Follow(WithLast(fs, f), WithLast(ps, p))
           /\ WithLast(fs, f) \in Seq(Frame) /\ WithLast(ps, p) \in Seq(Places)
           /\ WithLast(ps, p) # <<>> /\ Last(WithLast(ps, p)) = p
           /\ WithLast(fs, f) # <<>>
  <1>1. /\ Follow(Front(fs), Front(ps))
        /\ Front(fs) \in Seq(Frame) /\ Front(ps) \in Seq(Places)
    BY FollowFront
  <1> QED BY <1>1, FollowAppend DEF WithLast

\* The loop has no frame exactly when the decoder has no container open.
LEMMA FollowEmpty ==
    ASSUME NEW fs \in Seq(Frame), NEW ps \in Seq(Places), Follow(fs, ps)
    PROVE  fs = <<>> <=> ps = <<>>
  BY EmptySeq, LenProperties DEF Follow

\* A value that ends puts the object around it, if there is one, back to
\* expecting a key, in the frames as in the decoder.
LEMMA EndedFollows ==
    ASSUME NEW fs \in Seq(Frame), NEW ps \in Seq(Places), Follow(fs, ps)
    PROVE  /\ Follow(MarkJSONValueConsumed(fs), Ended(ps))
           /\ MarkJSONValueConsumed(fs) \in Seq(Frame)
           /\ NestingOK(Ended(ps)) /\ Len(Ended(ps)) = Len(ps)
  <1>1. CASE ps = <<>>
    <2>1. fs = <<>>
      BY <1>1, FollowEmpty
    <2> QED BY <1>1, <2>1 DEF MarkJSONValueConsumed, Ended, NestingOK
  <1>2. CASE ps # <<>>
    <2>1. /\ fs # <<>> /\ Matches(Last(fs), Last(ps)) /\ Last(fs) \in Frame
          /\ Last(ps) \in Places
      BY <1>2, FollowFront, FrontProperties
    <2>2. CASE Last(ps) \in {"valueDue", "valueOpen"}
      <3> DEFINE f == [Last(fs) EXCEPT !.expectKey = TRUE]
      <3>1. Last(fs).kind = "object" /\ ~Last(fs).expectKey
        BY <2>1, <2>2 DEF Matches
      <3>2. f \in Frame /\ Matches(f, "keyDue") /\ "keyDue" \in Places
        BY <2>1, <3>1 DEF Frame, Matches, Places
      <3> HIDE DEF f
      <3>3. /\ Follow(WithLast(fs, f), WithLast(ps, "keyDue"))
            /\ WithLast(fs, f) \in Seq(Frame) /\ WithLast(ps, "keyDue") \in Seq(Places)
            /\ Last(WithLast(ps, "keyDue")) = "keyDue"
            /\ Len(WithLast(ps, "keyDue")) = Len(ps)
        BY <1>2, <3>2, FollowWithLast, WithLastProperties
      <3>4. MarkJSONValueConsumed(fs) = WithLast(fs, f)
        BY <2>1, <3>1 DEF MarkJSONValueConsumed, f
      <3>5. Ended(ps) = WithLast(ps, "keyDue")
        BY <1>2, <2>2 DEF Ended
      <3> QED BY <3>3, <3>4, <3>5 DEF NestingOK
    <2>3. CASE Last(ps) \in {"keyDue", "inArray"}
      <3>1. ~(Last(fs).kind = "object" /\ ~Last(fs).expectKey)
        BY <2>1, <2>3 DEF Matches
      <3>2. MarkJSONValueConsumed(fs) = fs
        BY <3>1 DEF MarkJSONValueConsumed
      <3>3. Ended(ps) = ps
        BY <2>3 DEF Ended
      <3> QED BY <2>3, <3>2, <3>3 DEF NestingOK
    <2> QED BY <2>1, <2>2, <2>3 DEF Places
  <1> QED BY <1>1, <1>2

\* A value that begins changes no frame.
LEMMA BegunFollows ==
    ASSUME FramesInv, Follow(frames, nesting)
    PROVE  Follow(frames, Begun) /\ Begun \in Seq(Places)
  <1>1. nesting \in Seq(Places) /\ frames \in Seq(Frame)
    BY DEF FramesInv, MetricsTypeOK, NestingOK
  <1>2. CASE Inside({"valueDue"})
    <2>1. /\ nesting # <<>> /\ Last(nesting) = "valueDue"
          /\ Len(nesting) \in Nat \ {0} /\ Last(nesting) = nesting[Len(nesting)]
      BY <1>1, <1>2, FrontProperties DEF Inside
    <2>5. "valueOpen" \in Places
      BY DEF Places
    <2> DEFINE qs == WithLast(nesting, "valueOpen")
    <2>6. /\ WithLast(nesting, "valueOpen") \in Seq(Places)
          /\ Len(WithLast(nesting, "valueOpen")) = Len(nesting)
          /\ \A i \in 1 .. Len(nesting) - 1 : WithLast(nesting, "valueOpen")[i] = nesting[i]
          /\ WithLast(nesting, "valueOpen")[Len(nesting)] = "valueOpen"
      BY <1>1, <2>1, <2>5, WithLastProperties, SMTT(30)
    <2>2. /\ qs \in Seq(Places) /\ Len(qs) = Len(nesting)
          /\ \A i \in 1 .. Len(nesting) - 1 : qs[i] = nesting[i]
          /\ qs[Len(nesting)] = "valueOpen"
      BY <2>6
    <2>3. Begun = qs
      BY <1>2 DEF Begun
    <2> HIDE DEF qs
    <2>4. ASSUME NEW i \in 1 .. Len(frames) PROVE Matches(frames[i], qs[i])
      <3>1. i \in 1 .. Len(nesting) - 1 \/ i = Len(nesting)
        BY <2>1 DEF Follow
      <3> QED BY <2>1, <2>2, <3>1 DEF Follow, Matches
    <2> QED BY <2>2, <2>3, <2>4 DEF Follow
  <1>3. CASE ~Inside({"valueDue"})
    BY <1>1, <1>3 DEF Begun
  <1> QED BY <1>2, <1>3

-----------------------------------------------------------------------------
\* What a step of the loop comes to that meets a token.
TokenStep(token) ==
    /\ token \in Kinds
    /\ Token(token)
    /\ NestingOK(nesting')
    /\ Len(nesting') = Len(nesting) + One(token, Opening) - One(token, Closing)
    /\ nesting = <<>> => token \notin Closing
    /\ IF complete THEN outcome' = "trailing" /\ UNCHANGED <<frames, complete, metrics>>
       ELSE /\ frames' \in Seq(Frame) /\ Follow(frames', nesting')
            /\ complete' = (frames' = <<>>)
            /\ metrics' = Tallied(token)
            /\ outcome' = "running"

\* The arguments of Counted that make a step a TokenStep.
LEMMA CountedIsTokenStep ==
    ASSUME FramesInv, NEW token \in Kinds, Token(token),
           NestingOK(nesting'),
           Len(nesting') = Len(nesting) + One(token, Opening) - One(token, Closing),
           nesting = <<>> => token \notin Closing,
           NEW fs, NEW ms, Counted(fs, ms),
           ~complete => fs \in Seq(Frame) /\ Follow(fs, nesting') /\ ms = Tallied(token)
    PROVE  TokenStep(token)
  <1>1. complete \in BOOLEAN /\ outcome = "running"
    BY DEF FramesInv, MetricsTypeOK, Token
  <1>2. CASE complete
    BY <1>2 DEF Counted, TokenStep
  <1>3. CASE ~complete
    BY <1>1, <1>3 DEF Counted, TokenStep, CompleteAfter
  <1> QED BY <1>1, <1>2, <1>3

\* A loop that runs follows the decoder.
LEMMA RunningFollows ==
    ASSUME FramesInv, NEW token, Token(token)
    PROVE  /\ Follow(frames, nesting)
           /\ frames \in Seq(Frame) /\ nesting \in Seq(Places)
           /\ Len(nesting) \in Nat /\ Len(frames) = Len(nesting)
           /\ NestingOK(nesting)
  BY LenProperties DEF FramesInv, MetricsTypeOK, Following, Token, NestingOK, Follow

\* A container is opened.
LEMMA OpenStep ==
    ASSUME FramesInv, OpenToken
    PROVE  \E token \in Kinds : TokenStep(token)
  <1>1. PICK kind \in {"object", "array"} :
          /\ Token(IF kind = "object" THEN "openObject" ELSE "openArray")
          /\ nesting' = Append(Begun, IF kind = "object" THEN "keyDue" ELSE "inArray")
          /\ Counted(Append(frames, [kind |-> kind, expectKey |-> kind = "object"]), OneMore({}))
    BY DEF OpenToken
  <1> DEFINE f == [kind |-> kind, expectKey |-> kind = "object"]
             p == IF kind = "object" THEN "keyDue" ELSE "inArray"
             token == IF kind = "object" THEN "openObject" ELSE "openArray"
  <1>2. f \in Frame /\ Matches(f, p) /\ p \in Places /\ token \in Kinds /\ p # "valueOpen"
    BY DEF Frame, Matches, Places, Kinds, Opening
  <1>3. Follow(frames, Begun) /\ Begun \in Seq(Places) /\ frames \in Seq(Frame)
    BY <1>1, RunningFollows, BegunFollows
  <1>4. One(token, Opening) = 1 /\ One(token, Closing) = 0 /\ token \notin Closing
    BY DEF One, Opening, Closing
  <1>5. OneMore({}) = Tallied(token)
    BY DEF Tallied, CountedIn, Scalars
  <1> HIDE DEF f, p, token
  <1>6. /\ Follow(Append(frames, f), Append(Begun, p))
        /\ Append(frames, f) \in Seq(Frame) /\ Append(Begun, p) \in Seq(Places)
        /\ Last(Append(Begun, p)) = p
    BY <1>2, <1>3, FollowAppend
  <1>7. Len(Append(Begun, p)) = Len(nesting) + 1
    <2>1. Len(Append(Begun, p)) = Len(Begun) + 1
      BY <1>2, <1>3, AppendProperties
    <2>2. Len(Begun) = Len(frames) /\ Len(nesting) = Len(frames)
      BY <1>1, <1>3, RunningFollows DEF Follow
    <2> QED BY <2>1, <2>2
  <1>8. Token(token) /\ nesting' = Append(Begun, p) /\ Counted(Append(frames, f), OneMore({}))
    BY <1>1 DEF f, p, token
  <1>9. NestingOK(nesting')
    BY <1>2, <1>6, <1>8 DEF NestingOK
  <1>10. Len(nesting') = Len(nesting) + One(token, Opening) - One(token, Closing)
    BY <1>4, <1>7, <1>8, RunningFollows
  <1>11. TokenStep(token)
    BY <1>2, <1>4, <1>5, <1>6, <1>8, <1>9, <1>10, CountedIsTokenStep
  <1> QED BY <1>2, <1>11

\* A container is closed: the frame below the innermost one is marked.
LEMMA CloseStep ==
    ASSUME FramesInv, CloseToken
    PROVE  \E token \in Kinds : TokenStep(token)
  <1>1. PICK token \in Closing :
          /\ Inside(IF token = "closeObject" THEN {"keyDue"} ELSE {"inArray"})
          /\ Token(token)
          /\ nesting' = Ended(Front(nesting))
          /\ Counted(MarkJSONValueConsumed(IF frames # <<>> THEN Front(frames) ELSE frames), OneMore({}))
    BY DEF CloseToken
  <1>2. nesting # <<>> /\ nesting \in Seq(Places) /\ frames \in Seq(Frame) /\ Follow(frames, nesting)
    BY <1>1, RunningFollows DEF Inside
  <1> DEFINE fs == Front(frames)
             ps == Front(nesting)
  <1>3. /\ frames # <<>> /\ Follow(fs, ps) /\ fs \in Seq(Frame) /\ ps \in Seq(Places)
        /\ Len(ps) = Len(nesting) - 1
    BY <1>2, FollowFront, FrontProperties
  <1> HIDE DEF fs, ps
  <1>4. /\ Follow(MarkJSONValueConsumed(fs), Ended(ps))
        /\ MarkJSONValueConsumed(fs) \in Seq(Frame)
        /\ NestingOK(Ended(ps)) /\ Len(Ended(ps)) = Len(ps)
    BY <1>3, EndedFollows
  <1>5. nesting' = Ended(ps) /\ Counted(MarkJSONValueConsumed(fs), OneMore({}))
    BY <1>1, <1>3 DEF fs, ps
  <1>6. One(token, Opening) = 0 /\ One(token, Closing) = 1 /\ token \in Kinds
    BY DEF One, Opening, Closing, Kinds
  <1>7. OneMore({}) = Tallied(token)
    BY DEF Tallied, CountedIn, Scalars, Closing
  <1>8. Len(nesting') = Len(nesting) + One(token, Opening) - One(token, Closing)
    BY <1>1, <1>3, <1>4, <1>5, <1>6, RunningFollows
  <1>9. TokenStep(token)
    BY <1>1, <1>2, <1>4, <1>5, <1>6, <1>7, <1>8, CountedIsTokenStep
  <1> QED BY <1>6, <1>9

\* A number, a boolean or null ends the value that was due.
LEMMA ScalarStep ==
    ASSUME FramesInv, ScalarToken
    PROVE  \E token \in Kinds : TokenStep(token)
  <1>1. PICK kind \in Scalars \ {"string"} :
          /\ Token(kind)
          /\ nesting' = Ended(nesting)
          /\ Counted(MarkJSONValueConsumed(frames),
                     OneMore({"valueCount"} \cup IF kind = "number" THEN {"numberCount"} ELSE {}))
    BY DEF ScalarToken
  <1> DEFINE ms == OneMore({"valueCount"} \cup IF kind = "number" THEN {"numberCount"} ELSE {})
  <1>2. nesting \in Seq(Places) /\ frames \in Seq(Frame) /\ Follow(frames, nesting)
    BY <1>1, RunningFollows
  <1>3. /\ Follow(MarkJSONValueConsumed(frames), Ended(nesting))
        /\ MarkJSONValueConsumed(frames) \in Seq(Frame)
        /\ NestingOK(Ended(nesting)) /\ Len(Ended(nesting)) = Len(nesting)
    BY <1>2, EndedFollows
  <1>4. /\ One(kind, Opening) = 0 /\ One(kind, Closing) = 0 /\ kind \in Kinds /\ kind \notin Closing
    BY DEF One, Opening, Closing, Kinds, Scalars
  <1>5. ms = Tallied(kind)
    BY DEF Tallied, CountedIn, Scalars
  <1> HIDE DEF ms
  <1>6. Len(nesting') = Len(nesting) + One(kind, Opening) - One(kind, Closing)
    BY <1>1, <1>3, <1>4, RunningFollows
  <1>7. Counted(MarkJSONValueConsumed(frames), ms)
    BY <1>1 DEF ms
  <1>8. TokenStep(kind)
    BY <1>1, <1>3, <1>4, <1>5, <1>6, <1>7, CountedIsTokenStep
  <1> QED BY <1>4, <1>8

\* A string: the innermost frame takes it for a key exactly when the decoder
\* has handed out a key.
LEMMA StringStep ==
    ASSUME FramesInv, StringToken
    PROVE  \E token \in Kinds : TokenStep(token)
  <1> DEFINE token == IF ValueIsDue THEN "string" ELSE "key"
  <1>1. /\ Token(token) /\ Counted(AfterString, WithString)
        /\ nesting' = IF ValueIsDue THEN Ended(nesting) ELSE WithLast(nesting, "valueDue")
    BY DEF StringToken
  <1>2. /\ nesting \in Seq(Places) /\ frames \in Seq(Frame) /\ Follow(frames, nesting)
        /\ Len(nesting) \in Nat /\ Len(frames) = Len(nesting)
    BY <1>1, RunningFollows
  <1>3. token \in Kinds /\ token \notin Closing /\ One(token, Opening) = 0 /\ One(token, Closing) = 0
    <2>1. token \in {"string", "key"}
      OBVIOUS
    <2> HIDE DEF token
    <2> QED BY <2>1 DEF One, Opening, Closing, Kinds, Scalars
  <1>4. IsJSONObjectKey <=> ~ValueIsDue
    <2>1. CASE nesting = <<>>
      BY <1>2, <2>1, FollowEmpty DEF IsJSONObjectKey, ValueIsDue, Inside
    <2>2. CASE nesting # <<>>
      BY <1>2, <2>2, FollowFront DEF IsJSONObjectKey, ValueIsDue, Inside, Matches
    <2> QED BY <2>1, <2>2
  <1>5. WithString = Tallied(token)
    BY <1>4 DEF WithString, Tallied, CountedIn, Scalars
  <1> HIDE DEF token
  <1>6. /\ AfterString \in Seq(Frame) /\ Follow(AfterString, nesting')
        /\ NestingOK(nesting') /\ Len(nesting') = Len(nesting)
    <2>1. CASE ValueIsDue
      BY <1>1, <1>2, <1>4, <2>1, EndedFollows DEF AfterString
    <2>2. CASE ~ValueIsDue
      <3> DEFINE f == [Last(frames) EXCEPT !.expectKey = FALSE]
      <3>1. nesting # <<>> /\ Last(nesting) = "keyDue"
        BY <2>2 DEF ValueIsDue, Inside
      <3>2. Matches(Last(frames), Last(nesting)) /\ Last(frames) \in Frame
        BY <1>2, <3>1, FollowFront
      <3>3. f \in Frame /\ Matches(f, "valueDue") /\ "valueDue" \in Places
        BY <3>1, <3>2 DEF Frame, Matches, Places
      <3> HIDE DEF f
      <3>4. /\ Follow(WithLast(frames, f), WithLast(nesting, "valueDue"))
            /\ WithLast(frames, f) \in Seq(Frame) /\ WithLast(nesting, "valueDue") \in Seq(Places)
            /\ Last(WithLast(nesting, "valueDue")) = "valueDue"
            /\ Len(WithLast(nesting, "valueDue")) = Len(nesting)
        <4>1. /\ Follow(WithLast(frames, f), WithLast(nesting, "valueDue"))
              /\ WithLast(frames, f) \in Seq(Frame) /\ WithLast(nesting, "valueDue") \in Seq(Places)
              /\ Last(WithLast(nesting, "valueDue")) = "valueDue"
          BY <1>2, <3>1, <3>3, FollowWithLast
        <4>2. Len(WithLast(nesting, "valueDue")) = Len(nesting)
          BY <1>2, <3>1, <3>3, WithLastProperties
        <4> QED BY <4>1, <4>2
      <3>5. AfterString = WithLast(frames, f)
        BY <1>4, <2>2 DEF AfterString, f
      <3> QED BY <1>1, <2>2, <3>4, <3>5 DEF NestingOK
    <2> QED BY <2>1, <2>2
  <1>7. Len(nesting') = Len(nesting) + One(token, Opening) - One(token, Closing)
    BY <1>2, <1>3, <1>6
  <1>8. TokenStep(token)
    BY <1>1, <1>3, <1>5, <1>6, <1>7, CountedIsTokenStep
  <1> QED BY <1>3, <1>8

-----------------------------------------------------------------------------
\* Every step of the loop meets a token or ends it, and an end that is clean,
\* unexpected or nil tells what was left open and whether anything was counted.
LEMMA StepKinds ==
    ASSUME FramesInv, MetricsNext
    PROVE  \/ \E token \in Kinds : TokenStep(token)
           \/ /\ outcome = "running" /\ outcome' # "trailing" /\ outcome' \in Outcomes
              /\ UNCHANGED <<tokens, nesting, frames, complete, metrics>>
              /\ outcome' \in {"clean", "unexpected"} => (outcome' = "clean" <=> frames = <<>>)
              /\ outcome' = "nil" => metrics["tokenCount"] = 0
  <1>1. CASE EndOfInput
    BY <1>1 DEF EndOfInput, Outcomes
  <1>2. CASE DecodeError
    BY <1>2 DEF DecodeError, Outcomes
  <1> QED BY <1>1, <1>2, OpenStep, CloseStep, StringStep, ScalarStep DEF MetricsNext

\* A token keeps the frames in step with the decoder.
LEMMA FramesStep ==
    ASSUME FramesInv, NEW token \in Kinds, TokenStep(token)
    PROVE  FramesInv'
  <1>1. /\ tokens \in Seq(Kinds) /\ frames \in Seq(Frame) /\ complete \in BOOLEAN
        /\ outcome = "running" /\ Token(token) /\ NestingOK(nesting')
    BY DEF FramesInv, MetricsTypeOK, Token, TokenStep
  <1>2. tokens' \in Seq(Kinds) /\ tokens' # <<>>
    BY <1>1, AppendProperties DEF Token
  <1>3. CASE complete
    <2>1. outcome' = "trailing" /\ UNCHANGED <<frames, complete>>
      BY <1>3 DEF TokenStep
    <2> QED BY <1>1, <1>2, <2>1 DEF FramesInv, MetricsTypeOK, Following, Outcomes
  <1>4. CASE ~complete
    <2>1. /\ frames' \in Seq(Frame) /\ Follow(frames', nesting') /\ outcome' = "running"
          /\ complete' = (frames' = <<>>)
      BY <1>4 DEF TokenStep
    <2>2. frames' = <<>> <=> nesting' = <<>>
      BY <1>1, <2>1, FollowEmpty DEF NestingOK
    <2>3. complete' \in BOOLEAN /\ (complete' <=> tokens' # <<>> /\ nesting' = <<>>)
      BY <1>2, <2>1, <2>2
    <2> QED BY <1>1, <1>2, <2>1, <2>3 DEF FramesInv, MetricsTypeOK, Following, Outcomes
  <1> QED BY <1>1, <1>3, <1>4

\* A token more is one more of the kinds it belongs to.
LEMMA HandedStep ==
    ASSUME tokens \in Seq(Kinds), NEW token \in Kinds, Token(token), NEW kinds
    PROVE  /\ Handed(kinds) \in Nat
           /\ Handed(kinds)' = Handed(kinds) + One(token, kinds)
  <1> DEFINE places == {i \in 1 .. Len(tokens) : tokens[i] \in kinds}
             n == Len(tokens) + 1
  <1>1. /\ Len(tokens) \in Nat /\ DOMAIN tokens = 1 .. Len(tokens)
        /\ tokens' \in Seq(Kinds) /\ Len(tokens') = n
        /\ \A i \in 1 .. Len(tokens) : tokens'[i] = tokens[i]
        /\ tokens'[n] = token
    BY LenProperties, AppendProperties DEF Token
  <1>2. DOMAIN tokens' = 1 .. n
    BY <1>1, LenProperties
  <1>3. IsFiniteSet(places) /\ Cardinality(places) \in Nat
    <2>1. IsFiniteSet(1 .. Len(tokens))
      BY <1>1, FS_Interval
    <2> QED BY <2>1, FS_Subset, FS_CardinalityType
  <1>4. n \notin places /\ n \in Nat
    BY <1>1
  <1>5. {i \in 1 .. n : tokens'[i] \in kinds} =
          IF token \in kinds THEN places \cup {n} ELSE places
    <2>1. \A i \in 1 .. n : i \in 1 .. Len(tokens) \/ i = n
      BY <1>1
    <2>2. \A i \in 1 .. Len(tokens) : i \in 1 .. n
      BY <1>1
    <2>3. n \in 1 .. n
      BY <1>1
    <2>4. ASSUME NEW i PROVE i \in {j \in 1 .. n : tokens'[j] \in kinds}
                               <=> i \in places \/ (i = n /\ token \in kinds)
      <3> DEFINE t == tokens'
      <3>1. /\ \A j \in 1 .. Len(tokens) : t[j] = tokens[j]
            /\ t[n] = token
        BY <1>1
      <3> HIDE DEF t, n
      <3>2. i \in {j \in 1 .. n : t[j] \in kinds}
              <=> i \in places \/ (i = n /\ token \in kinds)
        BY <2>1, <2>2, <2>3, <3>1, Zenon
      <3> QED BY <3>2 DEF t
    <2> HIDE DEF places, n
    <2>5. CASE token \in kinds
      BY <2>4, <2>5
    <2>6. CASE token \notin kinds
      BY <2>4, <2>6
    <2> QED BY <2>5, <2>6
  <1>6. Cardinality(places \cup {n}) = Cardinality(places) + 1
    BY <1>3, <1>4, FS_AddElement
  <1>7. Handed(kinds) = Cardinality(places)
    BY <1>1 DEF Handed
  <1>8. Handed(kinds)' = Cardinality({i \in 1 .. n : tokens'[i] \in kinds})
    BY <1>2, Zenon DEF Handed
  <1> DEFINE c == Cardinality(places)
             d == Cardinality({i \in 1 .. n : tokens'[i] \in kinds})
  <1>9. d = IF token \in kinds THEN c + 1 ELSE c
    BY <1>5, <1>6
  <1> HIDE DEF c, d
  <1>10. c \in Nat /\ Handed(kinds) = c /\ Handed(kinds)' = d
    BY <1>3, <1>7, <1>8 DEF c, d
  <1> QED BY <1>9, <1>10 DEF One

\* A token is counted in the fields it belongs to.
LEMMA CountsStep ==
    ASSUME FramesInv, CountsInv, NEW token \in Kinds, TokenStep(token)
    PROVE  CountsInv'
  <1>1. /\ tokens \in Seq(Kinds) /\ complete \in BOOLEAN /\ Token(token) /\ outcome = "running"
    BY DEF FramesInv, MetricsTypeOK, Token, TokenStep
  <1>2. tokens' # <<>> /\ Last(tokens') = token
    <2>1. /\ Len(tokens') = Len(tokens) + 1 /\ tokens' # <<>> /\ tokens'[Len(tokens) + 1] = token
      BY <1>1, AppendProperties DEF Token
    <2> QED BY <2>1 DEF Last
  <1>3. ASSUME NEW f \in Fields
        PROVE  /\ metrics[f] = Handed(KindsOf(f)) /\ metrics[f] \in Nat
               /\ Handed(KindsOf(f))' = Handed(KindsOf(f)) + One(token, KindsOf(f))
    <2>1. Extra(KindsOf(f)) = 0
      BY <1>1 DEF Extra
    <2>2. /\ Handed(KindsOf(f)) \in Nat
          /\ Handed(KindsOf(f))' = Handed(KindsOf(f)) + One(token, KindsOf(f))
      BY <1>1, HandedStep
    <2> QED BY <2>1, <2>2 DEF CountsInv, Metrics
  <1>4. CASE complete
    <2>1. outcome' = "trailing" /\ metrics' = metrics
      BY <1>4 DEF TokenStep
    <2>2. ASSUME NEW f \in Fields PROVE Extra(KindsOf(f))' = One(token, KindsOf(f))
      BY <1>2, <2>1 DEF Extra, One, KindsOf
    <2>3. ASSUME NEW f \in Fields
          PROVE  metrics'[f] = Handed(KindsOf(f))' - Extra(KindsOf(f))'
      <3>1. One(token, KindsOf(f)) \in {0, 1}
        BY DEF One
      <3> QED BY <1>3, <2>1, <2>2, <3>1
    <2> QED BY <2>1, <2>3 DEF CountsInv, KindsOf
  <1>5. CASE ~complete
    <2>1. outcome' = "running" /\ metrics' = Tallied(token)
      BY <1>5 DEF TokenStep
    <2>2. ASSUME NEW f \in Fields
          PROVE  /\ metrics'[f] = metrics[f] + One(token, KindsOf(f))
                 /\ metrics'[f] \in Nat
      <3>1. f \in CountedIn(token) \cup {"tokenCount"} <=> token \in KindsOf(f)
        BY DEF Fields, CountedIn, KindsOf, Kinds, Scalars, Opening, Closing
      <3> QED BY <1>3, <2>1, <3>1 DEF Tallied, OneMore, One
    <2>3. ASSUME NEW f \in Fields
          PROVE  metrics'[f] = Handed(KindsOf(f))' - Extra(KindsOf(f))'
      <3>1. Extra(KindsOf(f))' = 0
        BY <2>1 DEF Extra
      <3> QED BY <1>3, <2>2, <3>1
    <2>4. metrics' \in Metrics
      BY <2>1, <2>2 DEF Metrics, Tallied, OneMore
    <2> QED BY <2>3, <2>4 DEF CountsInv, KindsOf
  <1> QED BY <1>1, <1>4, <1>5

\* A token outside every container begins a value.
LEMMA ValuesOfStep ==
    ASSUME FramesInv, ValuesInv, NEW token \in Kinds, TokenStep(token)
    PROVE  Values' = IF nesting = <<>> THEN Values \cup {Len(tokens) + 1} ELSE Values
  <1>1. /\ tokens \in Seq(Kinds) /\ Token(token) /\ nesting \in Seq(Places)
    BY DEF FramesInv, MetricsTypeOK, TokenStep, NestingOK
  <1>0. Len(tokens) + 1 \in Nat
    BY <1>1, LenProperties
  <1> PICK n \in Nat : n = Len(tokens) + 1
    BY <1>0
  <1>2. /\ n = Len(tokens) + 1
        /\ Len(tokens) \in Nat /\ DOMAIN tokens = 1 .. Len(tokens)
        /\ tokens' \in Seq(Kinds) /\ Len(tokens') = n /\ DOMAIN tokens' = 1 .. n
        /\ \A i \in 1 .. Len(tokens) : tokens'[i] = tokens[i]
        /\ tokens'[n] = token
    BY <1>1, LenProperties, AppendProperties DEF Token
  <1>3. ASSUME NEW i \in 1 .. Len(tokens) PROVE TopLevel(i)' <=> TopLevel(i)
    <2>1. \A j \in 1 .. i - 1 : tokens'[j] = tokens[j]
      BY <1>2
    <2>2. {j \in 1 .. i - 1 : tokens'[j] \in Opening} = {j \in 1 .. i - 1 : tokens[j] \in Opening}
      BY <2>1
    <2>3. {j \in 1 .. i - 1 : tokens'[j] \in Closing} = {j \in 1 .. i - 1 : tokens[j] \in Closing}
      BY <2>1
    <2> QED BY <2>2, <2>3 DEF TopLevel
  <1>4. TopLevel(n)' <=> nesting = <<>>
    <2>1. n - 1 = Len(tokens)
      BY <1>2
    <2>2. {j \in 1 .. n - 1 : tokens'[j] \in Opening} = {j \in DOMAIN tokens : tokens[j] \in Opening}
      BY <1>2, <2>1
    <2>3. {j \in 1 .. n - 1 : tokens'[j] \in Closing} = {j \in DOMAIN tokens : tokens[j] \in Closing}
      BY <1>2, <2>1
    <2>4. TopLevel(n)' <=> Handed(Opening) = Handed(Closing)
      BY <2>2, <2>3 DEF TopLevel, Handed
    <2>5. Handed(Opening) \in Nat /\ Handed(Closing) \in Nat /\ Len(nesting) \in Nat
      BY <1>1, HandedStep, LenProperties
    <2>6. nesting = <<>> <=> Len(nesting) = 0
      BY <1>1, EmptySeq
    <2> QED BY <2>4, <2>5, <2>6 DEF ValuesInv
  <1>5. nesting = <<>> => token \notin Closing
    BY DEF TokenStep
  <1>6. ASSUME NEW i \in 1 .. Len(tokens) PROVE i \in Values' <=> i \in Values
    <2>1. i \in 1 .. n
      BY <1>2
    <2>2. tokens'[i] = tokens[i]
      BY <1>2
    <2> QED BY <1>2, <1>3, <2>1, <2>2 DEF Values
  <1>7. n \in Values' <=> nesting = <<>>
    <2>1. n \in 1 .. n
      BY <1>2
    <2> QED BY <1>2, <1>4, <1>5, <2>1 DEF Values
  <1>8. Values' \subseteq 1 .. n /\ Values \subseteq 1 .. Len(tokens)
    BY <1>2 DEF Values
  <1>9. \A i \in 1 .. n : i \in 1 .. Len(tokens) \/ i = n
    BY <1>2
  <1>10. n \notin 1 .. Len(tokens)
    BY <1>2
  <1>11. CASE nesting = <<>>
    <2>1. \A i : i \in Values' <=> i \in Values \cup {n}
      BY <1>6, <1>7, <1>8, <1>9, <1>11
    <2> QED BY <1>11, <1>2, <2>1
  <1>12. CASE nesting # <<>>
    <2>1. \A i : i \in Values' <=> i \in Values
      BY <1>6, <1>7, <1>8, <1>9, <1>10, <1>12
    <2> QED BY <1>12, <2>1
  <1> QED BY <1>11, <1>12

\* At most one value begins before the loop stops following, and the one that
\* stops it is the second.
LEMMA ValuesStep ==
    ASSUME FramesInv, ValuesInv, NEW token \in Kinds, TokenStep(token)
    PROVE  ValuesInv'
  <1>1. /\ tokens \in Seq(Kinds) /\ Token(token) /\ outcome = "running"
        /\ nesting \in Seq(Places) /\ NestingOK(nesting')
        /\ complete <=> tokens # <<>> /\ nesting = <<>>
    BY DEF FramesInv, MetricsTypeOK, TokenStep, NestingOK, Token, Following
  <1>2. tokens' # <<>> /\ Len(tokens') = Len(tokens) + 1 /\ Len(tokens) \in Nat
    BY <1>1, AppendProperties, LenProperties DEF Token
  <1>3. Handed(Opening)' = Handed(Closing)' + Len(nesting')
    <2>1. /\ Handed(Opening) \in Nat /\ Handed(Opening)' = Handed(Opening) + One(token, Opening)
          /\ Handed(Closing) \in Nat /\ Handed(Closing)' = Handed(Closing) + One(token, Closing)
      BY <1>1, HandedStep
    <2>2. Len(nesting') = Len(nesting) + One(token, Opening) - One(token, Closing)
      BY DEF TokenStep
    <2>3. Len(nesting) \in Nat /\ Handed(Opening) = Handed(Closing) + Len(nesting)
      BY <1>1, LenProperties DEF ValuesInv
    <2>4. One(token, Opening) \in {0, 1} /\ One(token, Closing) \in {0, 1}
      BY DEF One
    <2> DEFINE o == Handed(Opening)'
               c == Handed(Closing)'
               l == Len(nesting')
    <2>5. o = Handed(Opening) + One(token, Opening) /\ c = Handed(Closing) + One(token, Closing)
          /\ l = Len(nesting) + One(token, Opening) - One(token, Closing)
      BY <2>1, <2>2
    <2> HIDE DEF o, c, l
    <2>6. o = c + l
      BY <2>1, <2>3, <2>4, <2>5
    <2> QED BY <2>6 DEF o, c, l
  <1>4. IsFiniteSet(Values) /\ Values \subseteq 1 .. Len(tokens)
        /\ Cardinality(Values) = IF tokens = <<>> THEN 0 ELSE 1
    BY <1>1 DEF ValuesInv, Following
  <1>5. Len(tokens) + 1 \notin Values
    BY <1>2, <1>4
  <1>6. Values' = IF nesting = <<>> THEN Values \cup {Len(tokens) + 1} ELSE Values
    BY ValuesOfStep
  <1>7. IsFiniteSet(Values') /\ Values' \subseteq 1 .. Len(tokens')
        /\ Cardinality(Values') = Cardinality(Values) + IF nesting = <<>> THEN 1 ELSE 0
    <2>1. CASE nesting = <<>>
      <3>1. IsFiniteSet(Values') /\ Cardinality(Values') = Cardinality(Values) + 1
        BY <1>4, <1>5, <1>6, <2>1, FS_AddElement
      <3>2. Values' \subseteq 1 .. Len(tokens) + 1
        <4>1. \A i \in 1 .. Len(tokens) : i \in 1 .. Len(tokens) + 1
          BY <1>2
        <4>2. Len(tokens) + 1 \in 1 .. Len(tokens) + 1
          BY <1>2
        <4> QED BY <1>4, <1>6, <2>1, <4>1, <4>2
      <3> QED BY <1>2, <2>1, <3>1, <3>2
    <2>2. CASE nesting # <<>>
      <3>1. Cardinality(Values) \in Nat
        BY <1>4, FS_CardinalityType
      <3>2. Values' = Values /\ Values' \subseteq 1 .. Len(tokens) + 1
        BY <1>2, <1>4, <1>6, <2>2
      <3> QED BY <1>2, <1>4, <2>2, <3>1, <3>2
    <2> QED BY <2>1, <2>2
  <1>8. Following' <=> ~complete
    BY DEF TokenStep, Following
  <1>9. Cardinality(Values') = IF Following' THEN 1 ELSE 2
    BY <1>1, <1>4, <1>7, <1>8 DEF ValuesInv
  <1> QED BY <1>2, <1>3, <1>7, <1>9 DEF ValuesInv

\* What the loop returns with.
LEMMA ReturnStep ==
    ASSUME Inv, MetricsNext
    PROVE  Inv'
  <1>1. CASE \E token \in Kinds : TokenStep(token)
    <2>1. PICK token \in Kinds : TokenStep(token)
      BY <1>1
    <2>2. FramesInv' /\ CountsInv' /\ ValuesInv'
      BY <2>1, FramesStep, CountsStep, ValuesStep DEF Inv
    <2>3. outcome' \in {"running", "trailing"} /\ tokens' # <<>>
      <3>1. tokens \in Seq(Kinds) /\ tokens' = Append(tokens, token) /\ outcome = "running"
        BY <2>1 DEF Inv, FramesInv, MetricsTypeOK, TokenStep, Token
      <3> QED BY <2>1, <3>1, AppendProperties DEF TokenStep
    <2> QED BY <2>2, <2>3 DEF Inv, ReturnInv
  <1>2. CASE /\ outcome = "running" /\ outcome' # "trailing" /\ outcome' \in Outcomes
             /\ UNCHANGED <<tokens, nesting, frames, complete, metrics>>
             /\ outcome' \in {"clean", "unexpected"} => (outcome' = "clean" <=> frames = <<>>)
             /\ outcome' = "nil" => metrics["tokenCount"] = 0
    <2>1. FramesInv'
      BY <1>2 DEF Inv, FramesInv, MetricsTypeOK, Following
    <2>2. \A kinds : Handed(kinds)' = Handed(kinds) /\ Extra(kinds) = 0 /\ Extra(kinds)' = 0
      BY <1>2 DEF Handed, Extra
    <2>3. CountsInv'
      <3>1. metrics' = metrics /\ metrics \in Metrics
            /\ \A f \in Fields : metrics[f] = Handed(KindsOf(f)) - Extra(KindsOf(f))
        BY <1>2 DEF Inv, CountsInv
      <3>2. ASSUME NEW f \in Fields
            PROVE  metrics'[f] = Handed(KindsOf(f))' - Extra(KindsOf(f))'
        BY <2>2, <3>1
      <3> QED BY <3>1, <3>2 DEF CountsInv, KindsOf
    <2>4. Values' = Values
      BY <1>2 DEF Values, TopLevel
    <2>5. ValuesInv'
      BY <1>2, <2>2, <2>4 DEF Inv, ValuesInv, Following
    <2>6. frames = <<>> <=> nesting = <<>>
      BY <1>2, FollowEmpty DEF Inv, FramesInv, MetricsTypeOK, NestingOK, Following
    <2>7. metrics["tokenCount"] = 0 => tokens = <<>>
      <3> SUFFICES ASSUME metrics["tokenCount"] = 0, tokens # <<>> PROVE FALSE
        OBVIOUS
      <3>1. Handed(Kinds) = 0
        <4>1. "tokenCount" \in Fields /\ KindsOf("tokenCount") = Kinds
          BY DEF Fields, KindsOf
        <4>2. 0 = Handed(Kinds) - 0
          BY <2>2, <4>1 DEF Inv, CountsInv
        <4>3. CASE Handed(Kinds) \in Int
          BY <4>2, <4>3
        <4>4. Handed(Kinds) \in Nat
          <5>1. tokens \in Seq(Kinds) /\ DOMAIN tokens = 1 .. Len(tokens) /\ Len(tokens) \in Nat
            BY LenProperties DEF Inv, FramesInv, MetricsTypeOK
          <5>2. IsFiniteSet(1 .. Len(tokens))
            BY <5>1, FS_Interval
          <5> QED BY <5>1, <5>2, FS_Subset, FS_CardinalityType DEF Handed
        <4> QED BY <4>3, <4>4
      <3>2. tokens \in Seq(Kinds) /\ Len(tokens) \in Nat \ {0} /\ DOMAIN tokens = 1 .. Len(tokens)
        BY EmptySeq, LenProperties DEF Inv, FramesInv, MetricsTypeOK
      <3>3. tokens[1] \in Kinds /\ 1 \in 1 .. Len(tokens)
        BY <3>2, ElementOfSeq
      <3> DEFINE all == {i \in 1 .. Len(tokens) : tokens[i] \in Kinds}
      <3>4. 1 \in all
        BY <3>3
      <3>5. IsFiniteSet(all)
        <4>1. IsFiniteSet(1 .. Len(tokens))
          BY <3>2, FS_Interval
        <4> QED BY <4>1, FS_Subset
      <3>6. Cardinality(all) = 0
        BY <3>1, <3>2 DEF Handed
      <3> HIDE DEF all
      <3> QED BY <3>4, <3>5, <3>6, FS_EmptySet
    <2>8. ReturnInv'
      BY <1>2, <2>6, <2>7 DEF ReturnInv
    <2> QED BY <2>1, <2>3, <2>5, <2>8 DEF Inv
  <1> QED BY <1>1, <1>2, StepKinds DEF Inv

\* The loop starts in a state of the invariant.
LEMMA MetricsStart == MetricsInit => Inv
  <1> SUFFICES ASSUME MetricsInit PROVE Inv
    OBVIOUS
  <1>1. FramesInv
    <2>1. /\ tokens = <<>> /\ nesting = <<>> /\ frames = <<>> /\ complete = FALSE
          /\ outcome = "running"
      BY DEF MetricsInit
    <2>2. tokens \in Seq(Kinds) /\ nesting \in Seq(Places) /\ frames \in Seq(Frame)
      BY <2>1, EmptySeq
    <2>3. Follow(frames, nesting)
      BY <2>1 DEF Follow
    <2> QED BY <2>1, <2>2, <2>3 DEF FramesInv, MetricsTypeOK, NestingOK, Outcomes
  <1>2. DOMAIN tokens = {} /\ Len(tokens) = 0 /\ Len(nesting) = 0
    BY DEF MetricsInit
  <1>3. \A kinds : Handed(kinds) = 0 /\ Extra(kinds) = 0
    BY <1>2, FS_EmptySet DEF MetricsInit, Handed, Extra
  <1>4. CountsInv
    BY <1>3 DEF MetricsInit, CountsInv, NoMetrics, Metrics
  <1>5. Values = {}
    BY <1>2 DEF Values
  <1>6. ValuesInv
    BY <1>2, <1>3, <1>5, FS_EmptySet DEF MetricsInit, ValuesInv, Following
  <1> QED BY <1>1, <1>4, <1>6 DEF Inv, ReturnInv, MetricsInit

-----------------------------------------------------------------------------
\* The invariant holds of the whole analysis: only the step of the format
\* metrics changes what it is about.
THEOREM MetricsInvariant == Spec => []Inv
  <1>1. Init => Inv
    BY MetricsStart DEF Init
  <1>2. Inv /\ [Next]_vars => Inv'
    <2> SUFFICES ASSUME Inv, [Next]_vars PROVE Inv'
      OBVIOUS
    <2>1. CASE FormatStep
      BY <2>1, ReturnStep DEF FormatStep
    <2>2. CASE UNCHANGED metricsVars
      <3>1. UNCHANGED <<tokens, nesting, frames, complete, metrics, outcome>>
        BY <2>2 DEF metricsVars
      <3>2. \A kinds : Handed(kinds)' = Handed(kinds) /\ Extra(kinds)' = Extra(kinds)
        BY <3>1 DEF Handed, Extra
      <3>3. Values' = Values
        BY <3>1 DEF Values, TopLevel
      <3> QED BY <3>1, <3>2, <3>3
          DEF Inv, FramesInv, MetricsTypeOK, Following, CountsInv, KindsOf, ValuesInv, ReturnInv
    <2> QED BY <2>1, <2>2 DEF Next, vars, Cut, ScanRune, ScanEnds, RecordMetrics, RaiseFlags
  <1> QED BY <1>1, <1>2, PTL DEF Spec

\* analyzeJSONTextMetrics: the frames are the containers the decoder has open,
\* and the innermost one expects a key exactly when the decoder does.
THEOREM FramesAreFollowed == Spec => []FramesFollowDecoder
  <1>1. Inv => FramesFollowDecoder
    <2> SUFFICES ASSUME Inv, Following PROVE FramesFollowDecoder
      BY DEF FramesFollowDecoder, Following
    <2>1. Follow(frames, nesting) /\ DOMAIN frames = 1 .. Len(frames)
      BY LenProperties DEF Inv, FramesInv, MetricsTypeOK
    <2> QED BY <2>1 DEF FramesFollowDecoder, Follow, Matches
  <1> QED BY <1>1, MetricsInvariant, PTL

\* analyzeJSONTextMetrics counts keys as keys and scalars as values for inputs
\* of any length and nesting.
THEOREM CountsAreExact == Spec => []CountsMatchTokens
  <1>1. Inv => CountsMatchTokens
    <2> SUFFICES ASSUME Inv PROVE CountsMatchTokens
      OBVIOUS
    <2>1. \A f \in Fields : metrics[f] = Handed(KindsOf(f)) - Extra(KindsOf(f))
      BY DEF Inv, CountsInv
    <2>2. /\ KindsOf("tokenCount") = Kinds /\ KindsOf("keyCount") = {"key"}
          /\ KindsOf("valueCount") = Scalars /\ KindsOf("stringCount") = {"string"}
          /\ KindsOf("numberCount") = {"number"}
      BY DEF KindsOf
    <2>3. /\ metrics["tokenCount"] = Handed(Kinds) - Extra(Kinds)
          /\ metrics["keyCount"] = Handed({"key"}) - Extra({"key"})
          /\ metrics["valueCount"] = Handed(Scalars) - Extra(Scalars)
          /\ metrics["stringCount"] = Handed({"string"}) - Extra({"string"})
          /\ metrics["numberCount"] = Handed({"number"}) - Extra({"number"})
      BY <2>1, <2>2 DEF Fields
    <2> QED BY <2>3 DEF CountsMatchTokens, Extra
  <1> QED BY <1>1, MetricsInvariant, PTL

\* analyzeJSONTextMetrics ends without a complaint only for an input of at most
\* one value that is read to its end.
THEOREM CleanIsOneValue == Spec => []CleanMeansOneValue
  <1>1. Inv => CleanMeansOneValue
    BY DEF Inv, ValuesInv, ReturnInv, CleanMeansOneValue, Following
  <1> QED BY <1>1, MetricsInvariant, PTL

-----------------------------------------------------------------------------
\* Induction over the naturals, from the well-foundedness of their order.
Smaller == {ss \in Nat \X Nat : ss[1] < ss[2]}

\* The order of the naturals has no infinite descent.
LEMMA SmallerIsWellFounded == IsWellFoundedOn(Smaller, Nat)
  <1>1. Smaller = OpToRel(<, Nat)
    BY Zenon DEF OpToRel, Smaller
  <1>2. IsWellFoundedOn(OpToRel(<, Nat), Nat)
    BY NatLessThanWellFounded, Zenon
  <1> QED BY <1>1, <1>2, Zenon

\* Induction for a set of naturals.
LEMMA Induction ==
    ASSUME NEW S, 0 \in S, \A n \in Nat : n \in S => n + 1 \in S
    PROVE  \A n \in Nat : n \in S
  <1> SUFFICES ASSUME Nat \ S # {} PROVE FALSE
    OBVIOUS
  <1> DEFINE T == Nat \ S
  <1>1. PICK m \in T : \A k \in T : <<k, m>> \notin Smaller
    <2>1. T \subseteq Nat /\ T # {}
      OBVIOUS
    <2> QED BY <2>1, SmallerIsWellFounded, WFMin, Zenon
  <1>2. m \in Nat /\ m # 0
    BY <1>1
  <1>3. m - 1 \in Nat /\ <<m - 1, m>> \in Smaller
    BY <1>2 DEF Smaller
  <1>4. m - 1 \in S
    BY <1>1, <1>3
  <1>5. (m - 1) + 1 = m
    BY <1>2
  <1> QED BY <1>1, <1>3, <1>4, <1>5

\* What a step that stays in T gives.
Stays(next, T) == \A i \in Nat : \A v \in T : next[<<i, v>>] \in T

\* A function with n values, each got from the one before.
Iterates(g, n, T, base, next) ==
    /\ g \in [0 .. n -> T]
    /\ g[0] = base
    /\ \A i \in 1 .. n : g[i] = next[<<i, g[i - 1]>>]

\* A function defined from its value one before exists.
LEMMA IterationExists ==
    ASSUME NEW n \in Nat, NEW T, NEW base \in T, NEW next, Stays(next, T)
    PROVE  \E g : Iterates(g, n, T, base, next)
  <1> DEFINE S == {m \in Nat : \E g : Iterates(g, m, T, base, next)}
  <1>1. 0 \in S
    <2> DEFINE g == [i \in 0 .. 0 |-> base]
    <2>1. Iterates(g, 0, T, base, next)
      BY DEF Iterates
    <2> QED BY <2>1, Zenon
  <1>2. ASSUME NEW m \in Nat, m \in S PROVE m + 1 \in S
    <2>1. PICK g : Iterates(g, m, T, base, next)
      BY <1>2
    <2> DEFINE h == [i \in 0 .. m + 1 |-> IF i <= m THEN g[i] ELSE next[<<m + 1, g[m]>>]]
    <2>2. /\ g \in [0 .. m -> T] /\ g[0] = base
          /\ \A i \in 1 .. m : g[i] = next[<<i, g[i - 1]>>]
          /\ \A i \in 0 .. m : g[i] \in T
      BY <2>1 DEF Iterates
    <2>3. g[m] \in T /\ m + 1 \in Nat
      BY <2>2
    <2>4. next[<<m + 1, g[m]>>] \in T
      BY <2>3 DEF Stays
    <2>5. h \in [0 .. m + 1 -> T]
      <3>1. ASSUME NEW i \in 0 .. m + 1 PROVE h[i] \in T
        <4>1. i <= m => i \in 0 .. m
          OBVIOUS
        <4> QED BY <2>2, <2>4, <4>1
      <3> QED BY <3>1
    <2>6. h[0] = base
      <3>1. 0 \in 0 .. m + 1 /\ 0 <= m
        OBVIOUS
      <3> QED BY <2>2, <3>1
    <2>7. ASSUME NEW i \in 1 .. m + 1 PROVE h[i] = next[<<i, h[i - 1]>>]
      <3>1. i \in 0 .. m + 1 /\ i - 1 \in 0 .. m + 1 /\ i - 1 <= m
        OBVIOUS
      <3>2. h[i - 1] = g[i - 1]
        BY <3>1
      <3>3. CASE i <= m
        <4>1. h[i] = g[i] /\ i \in 1 .. m
          BY <3>1, <3>3
        <4> QED BY <2>2, <3>2, <4>1
      <3>4. CASE i = m + 1
        <4>1. h[i] = next[<<m + 1, g[m]>>] /\ i - 1 = m
          BY <3>1, <3>4
        <4> QED BY <3>2, <3>4, <4>1
      <3> QED BY <3>1, <3>3, <3>4
    <2>8. Iterates(h, m + 1, T, base, next)
      <3> HIDE DEF h
      <3> QED BY <2>5, <2>6, <2>7 DEF Iterates
    <2> QED BY <2>3, <2>8, Zenon
  <1>3. n \in S
    <2> HIDE DEF S
    <2> QED BY <1>1, <1>2, Induction
  <1> QED BY <1>3

-----------------------------------------------------------------------------
\* FlattenSeq joins the pieces one after the other.
LEMMA FlattenSteps ==
    ASSUME NEW S, NEW pieces \in Seq(Seq(S))
    PROVE  \E g :
             /\ g \in [0 .. Len(pieces) -> Seq(S)]
             /\ g[0] = <<>>
             /\ \A i \in 1 .. Len(pieces) : g[i] = g[i - 1] \o pieces[i]
             /\ FlattenSeq(pieces) = g[Len(pieces)]
  <1> DEFINE n == Len(pieces)
             T == Seq(S)
             Step(f, i) == IF i = 1 THEN pieces[i] ELSE f[i - 1] \o pieces[i]
             flat == CHOOSE f : f = [i \in 1 .. n |-> Step(f, i)]
             next == [p \in Nat \X T |-> IF p[1] \in 1 .. n THEN p[2] \o pieces[p[1]] ELSE p[2]]
             base == <<>>
  <1>1. n \in Nat /\ \A i \in 1 .. n : pieces[i] \in T
    BY LenProperties, ElementOfSeq, Zenon
  <1>2. base \in T /\ Stays(next, T)
    <2>1. ASSUME NEW i \in Nat, NEW v \in T PROVE next[<<i, v>>] \in T
      <3>1. i \in 1 .. n => v \o pieces[i] \in T
        BY <1>1, ConcatProperties
      <3>2. next[<<i, v>>] = IF i \in 1 .. n THEN v \o pieces[i] ELSE v
        OBVIOUS
      <3> QED BY <3>1, <3>2
    <2>2. base \in T
      BY EmptySeq
    <2> HIDE DEF n, T, next
    <2> QED BY <2>1, <2>2 DEF Stays
  <1> HIDE DEF n, T, next, base, flat, Step
  <1>3. PICK g : Iterates(g, n, T, base, next)
    BY <1>1, <1>2, IterationExists
  <1>4. /\ g \in [0 .. n -> T] /\ g[0] = base
        /\ \A i \in 1 .. n : g[i] = next[<<i, g[i - 1]>>]
    BY <1>3 DEF Iterates
  <1>5. ASSUME NEW i \in 1 .. n PROVE g[i] = g[i - 1] \o pieces[i] /\ g[i - 1] \in T
    <2>1. i - 1 \in 0 .. n /\ i \in Nat
      BY <1>1
    <2>2. g[i - 1] \in T
      BY <1>4, <2>1
    <2> QED BY <1>4, <2>1, <2>2 DEF next
  <1>6. CASE n = 0
    <2>1. pieces = <<>>
      BY <1>6, EmptySeq DEF n
    <2>2. FlattenSeq(pieces) = pieces
      BY <1>6, Zenon DEF FlattenSeq, n
    <2>3. g[0] = <<>>
      BY <1>4 DEF base
    <2> QED BY <1>4, <1>5, <1>6, <2>1, <2>2, <2>3, Zenon DEF n, T
  <1>7. CASE n # 0
    <2>1. 1 \in 1 .. n /\ n \in 1 .. n /\ 1 - 1 = 0
      BY <1>1, <1>7
    <2>2. g[1] = pieces[1]
      <3>1. g[1] = <<>> \o pieces[1]
        BY <1>4, <1>5, <2>1 DEF base
      <3> QED BY <1>1, <2>1, <3>1, ConcatEmptySeq DEF T
    <2> DEFINE h == [i \in 1 .. n |-> g[i]]
    <2>3. h = [i \in 1 .. n |-> Step(h, i)]
      <3>1. ASSUME NEW i \in 1 .. n PROVE g[i] = Step(h, i)
        <4>1. CASE i = 1
          BY <2>2, <4>1 DEF Step
        <4>2. CASE i # 1
          <5>1. i - 1 \in 1 .. n
            BY <1>1, <4>2
          <5>2. h[i - 1] = g[i - 1]
            BY <5>1
          <5> QED BY <1>5, <4>2, <5>2 DEF Step
        <4> QED BY <4>1, <4>2
      <3> QED BY <3>1, Zenon
    <2>4. flat = [i \in 1 .. n |-> Step(flat, i)]
      <3> HIDE DEF h
      <3> QED BY <2>3, Zenon DEF flat
    <2>5. \A i \in 1 .. n : flat[i] = Step(flat, i)
      BY <2>4
    <2> DEFINE A == {i \in Nat : i \in 1 .. n => flat[i] = g[i]}
    <2>6. 0 \in A
      OBVIOUS
    <2>7. ASSUME NEW i \in Nat, i \in A PROVE i + 1 \in A
      <3> SUFFICES ASSUME i + 1 \in 1 .. n PROVE flat[i + 1] = g[i + 1]
        OBVIOUS
      <3>1. flat[i + 1] = Step(flat, i + 1)
        BY <2>5
      <3>2. CASE i = 0
        <4>1. Step(flat, 1) = pieces[1]
          BY DEF Step
        <4> QED BY <2>2, <3>1, <3>2, <4>1
      <3>3. CASE i # 0
        <4>1. i \in 1 .. n /\ (i + 1) - 1 = i /\ i + 1 # 1
          BY <1>1, <3>3
        <4>2. flat[i] = g[i]
          BY <2>7, <4>1
        <4>3. Step(flat, i + 1) = flat[i] \o pieces[i + 1]
          BY <4>1 DEF Step
        <4>4. g[i + 1] = g[i] \o pieces[i + 1]
          BY <1>5, <4>1
        <4> QED BY <3>1, <4>2, <4>3, <4>4
      <3> QED BY <3>2, <3>3
    <2>8. n \in A
      <3> HIDE DEF A
      <3> QED BY <1>1, <2>6, <2>7, Induction
    <2>9. flat[n] = g[n]
      BY <2>1, <2>8
    <2>10. FlattenSeq(pieces) = flat[n]
      BY <1>7, Zenon DEF FlattenSeq, flat, n, Step
    <2> QED BY <1>4, <1>5, <2>9, <2>10, Zenon DEF base, n, T
  <1> QED BY <1>6, <1>7

-----------------------------------------------------------------------------
\* A byte of a text: see BytesOf.
Byte == [of: Nat, announced: 0 .. 4, class: Classes \cup {"stray"}]

\* The k-th byte of the i-th character.
ByteAt(t, i, k) ==
    [of |-> i, announced |-> IF k = 1 THEN t[i].announced ELSE 0, class |-> t[i].class]

\* The i-th character of the text is what follows the first s[i] bytes.
Starts(t, s) ==
    /\ s \in [1 .. Len(t) + 1 -> Nat] /\ s[1] = 0
    /\ \A i \in 1 .. Len(t) : s[i + 1] = s[i] + t[i].length

\* The bytes b are those of the characters, one after the other.
LaidOut(t, s, b) ==
    /\ Starts(t, s)
    /\ b \in Seq(Byte) /\ Len(b) = s[Len(t) + 1]
    /\ \A p \in 1 .. Len(b) :
         /\ b[p].of \in 1 .. Len(t) /\ s[b[p].of] < p /\ p <= s[b[p].of + 1]
         /\ b[p] = ByteAt(t, b[p].of, p - s[b[p].of])

\* The characters of a text.
LEMMA Characters ==
    ASSUME NEW t \in Seq(Character)
    PROVE  /\ Len(t) \in Nat /\ DOMAIN t = 1 .. Len(t)
           /\ \A i \in 1 .. Len(t) :
                /\ t[i].announced \in 0 .. 4 /\ t[i].length \in 1 .. 4
                /\ t[i].class \in Classes \cup {"stray"}
  <1>1. Len(t) \in Nat /\ DOMAIN t = 1 .. Len(t)
    BY LenProperties
  <1>2. \A i \in 1 .. Len(t) : t[i] \in Character
    BY ElementOfSeq, Zenon
  <1>3. \A c \in Character : c.announced \in 0 .. 4 /\ c.length \in 1 .. 4
                              /\ c.class \in Classes \cup {"stray"}
    BY DEF Character
  <1> QED BY <1>1, <1>2, <1>3, Zenon

\* The bytes of one character.
Piece(t, i) == [k \in 1 .. t[i].length |-> ByteAt(t, i, k)]

\* They are as many as there are, each with what it announces.
LEMMA PieceType ==
    ASSUME NEW t \in Seq(Character), NEW i \in 1 .. Len(t)
    PROVE  /\ Piece(t, i) \in Seq(Byte) /\ Len(Piece(t, i)) = t[i].length
           /\ \A k \in 1 .. t[i].length : Piece(t, i)[k] = ByteAt(t, i, k)
  <1> DEFINE n == t[i].length
  <1>1. n \in Nat /\ t[i].announced \in 0 .. 4 /\ t[i].class \in Classes \cup {"stray"} /\ i \in Nat
    BY Characters
  <1>2. \A k \in 1 .. n : ByteAt(t, i, k) \in Byte
    <2>1. \A a \in 0 .. 4, c \in Classes \cup {"stray"} :
            [of |-> i, announced |-> a, class |-> c] \in Byte
      BY <1>1 DEF Byte
    <2>2. \A k \in 1 .. n : (IF k = 1 THEN t[i].announced ELSE 0) \in 0 .. 4
      BY <1>1
    <2> QED BY <1>1, <2>1, <2>2, Zenon DEF ByteAt
  <1> HIDE DEF n
  <1>3. \A x \in [1 .. n -> Byte] : x \in Seq(Byte) /\ Len(x) = n
    BY <1>1
  <1>4. Piece(t, i) \in [1 .. n -> Byte]
    BY <1>2, Zenon DEF Piece, n
  <1> QED BY <1>3, <1>4, Zenon DEF Piece, n

\* BytesOf lays the characters out one after the other.
LEMMA BytesLaidOut ==
    ASSUME NEW t \in Seq(Character)
    PROVE  \E s : LaidOut(t, s, BytesOf(t))
  <1> DEFINE n == Len(t)
             pieces == [i \in 1 .. n |-> Piece(t, i)]
  <1>1. n \in Nat /\ DOMAIN t = 1 .. n
    BY Characters
  <1>2. pieces \in Seq(Seq(Byte)) /\ Len(pieces) = n
    <2>1. pieces \in [1 .. n -> Seq(Byte)]
      BY PieceType, Zenon
    <2>2. \A T : \A x \in [1 .. n -> T] : x \in Seq(T) /\ Len(x) = n
      BY <1>1
    <2> HIDE DEF pieces, n
    <2> QED BY <2>1, <2>2
  <1>3. BytesOf(t) = FlattenSeq(pieces)
    BY <1>1, Zenon DEF BytesOf, Piece, ByteAt
  <1>4. \A i \in 1 .. n : pieces[i] = Piece(t, i)
    OBVIOUS
  <1> HIDE DEF pieces, n
  <1>5. PICK g : /\ g \in [0 .. n -> Seq(Byte)] /\ g[0] = <<>>
                 /\ \A i \in 1 .. n : g[i] = g[i - 1] \o pieces[i]
                 /\ FlattenSeq(pieces) = g[n]
    BY <1>2, FlattenSteps, Zenon
  <1> DEFINE s == [i \in 1 .. n + 1 |-> Len(g[i - 1])]
  <1>6. \A i \in 0 .. n : g[i] \in Seq(Byte) /\ Len(g[i]) \in Nat
    <2>1. \A i \in 0 .. n : g[i] \in Seq(Byte)
      BY <1>5, Zenon
    <2> QED BY <2>1, LenProperties, Zenon
  <1>7. s \in [1 .. n + 1 -> Nat]
    <2>1. \A i \in 1 .. n + 1 : i - 1 \in 0 .. n
      BY <1>1
    <2> QED BY <1>6, <2>1, Zenon
  <1>8. \A i \in 0 .. n : s[i + 1] = Len(g[i])
    BY <1>1
  <1> HIDE DEF s
  <1>9. s[1] = 0
    <2>1. s[0 + 1] = Len(g[0])
      BY <1>1, <1>8
    <2> QED BY <1>5, <2>1
  <1>10. ASSUME NEW i \in 1 .. n
         PROVE  /\ g[i - 1] \in Seq(Byte) /\ i - 1 \in Nat /\ i \in 0 .. n /\ i - 1 \in 0 .. n
                /\ t[i].length \in Nat
                /\ Len(g[i]) = Len(g[i - 1]) + t[i].length
                /\ \A p \in 1 .. Len(g[i]) :
                     g[i][p] = IF p <= Len(g[i - 1]) THEN g[i - 1][p]
                               ELSE ByteAt(t, i, p - Len(g[i - 1]))
    <2>1. i - 1 \in 0 .. n /\ i \in 0 .. n /\ i - 1 \in Nat
      BY <1>1
    <2>2. g[i] = g[i - 1] \o Piece(t, i) /\ g[i - 1] \in Seq(Byte)
      BY <1>4, <1>5, <1>6, <2>1, Zenon
    <2>3. /\ Piece(t, i) \in Seq(Byte) /\ Len(Piece(t, i)) = t[i].length
          /\ \A k \in 1 .. t[i].length : Piece(t, i)[k] = ByteAt(t, i, k)
      BY PieceType, Zenon DEF n
    <2> DEFINE u == g[i - 1]
               v == Piece(t, i)
    <2>4. u \in Seq(Byte) /\ v \in Seq(Byte)
      BY <2>2, <2>3, Zenon
    <2>5. Len(u) \in Nat /\ Len(v) \in Nat
      BY <2>4, LenProperties
    <2> HIDE DEF u, v
    <2>6. /\ Len(u \o v) = Len(u) + Len(v)
          /\ \A p \in 1 .. Len(u) + Len(v) :
               (u \o v)[p] = IF p <= Len(u) THEN u[p] ELSE v[p - Len(u)]
      BY <2>4, ConcatProperties
    <2>7. Len(g[i]) = Len(u) + Len(v) /\ Len(v) = t[i].length
      BY <2>2, <2>3, <2>6, Zenon DEF u, v
    <2>8. ASSUME NEW p \in 1 .. Len(g[i])
          PROVE  g[i][p] = IF p <= Len(u) THEN u[p] ELSE ByteAt(t, i, p - Len(u))
      <3>1. g[i][p] = IF p <= Len(u) THEN u[p] ELSE v[p - Len(u)]
        BY <2>2, <2>6, <2>7, Zenon DEF u, v
      <3>2. ~(p <= Len(u)) => p - Len(u) \in 1 .. t[i].length
        BY <2>5, <2>7
      <3>3. ~(p <= Len(u)) => v[p - Len(u)] = ByteAt(t, i, p - Len(u))
        BY <2>3, <3>2, Zenon DEF v
      <3> QED BY <3>1, <3>3, Zenon
    <2> QED BY <2>1, <2>2, <2>5, <2>7, <2>8, Zenon DEF u
  <1>11. \A i \in 1 .. n : s[i + 1] = s[i] + t[i].length
    <2> SUFFICES ASSUME NEW i \in 1 .. n PROVE s[i + 1] = s[i] + t[i].length
      OBVIOUS
    <2>1. s[(i - 1) + 1] = Len(g[i - 1]) /\ s[i + 1] = Len(g[i])
      BY <1>8, <1>10, Zenon
    <2>2. (i - 1) + 1 = i
      BY <1>1
    <2> QED BY <1>10, <2>1, <2>2, Zenon
  <1>12. Starts(t, s)
    BY <1>7, <1>9, <1>11, Zenon DEF Starts, n
  <1> DEFINE Right(i) == \A p \in 1 .. Len(g[i]) :
                /\ g[i][p].of \in 1 .. i /\ s[g[i][p].of] < p /\ p <= s[g[i][p].of + 1]
                /\ g[i][p] = ByteAt(t, g[i][p].of, p - s[g[i][p].of])
             A == {i \in Nat : i <= n => Right(i)}
  <1>13. 0 \in A
    <2>1. 1 .. Len(g[0]) = {}
      BY <1>5
    <2>2. Right(0)
      BY <2>1, Zenon
    <2> QED BY <2>2
  <1>14. ASSUME NEW j \in Nat, j \in A PROVE j + 1 \in A
    <2> SUFFICES ASSUME j + 1 <= n PROVE Right(j + 1)
      OBVIOUS
    <2> DEFINE i == j + 1
    <2>1. i \in 1 .. n /\ i - 1 = j /\ j <= n /\ j \in 0 .. n
      BY <1>1
    <2>2. Right(j)
      BY <1>14, <2>1
    <2>3. s[i] = Len(g[j]) /\ s[i + 1] = Len(g[i]) /\ Len(g[j]) \in Nat /\ Len(g[i]) \in Nat
          /\ i \in 0 .. n
      BY <1>6, <1>8, <1>10, <2>1, Zenon
    <2>4. \A p \in 1 .. Len(g[i]) :
            g[i][p] = IF p <= Len(g[j]) THEN g[j][p] ELSE ByteAt(t, i, p - Len(g[j]))
      BY <1>10, <2>1, Zenon
    <2> HIDE DEF i
    <2>5. ASSUME NEW p \in 1 .. Len(g[i])
          PROVE  /\ g[i][p].of \in 1 .. i /\ s[g[i][p].of] < p /\ p <= s[g[i][p].of + 1]
                 /\ g[i][p] = ByteAt(t, g[i][p].of, p - s[g[i][p].of])
      <3>1. CASE p <= Len(g[j])
        <4>1. p \in 1 .. Len(g[j]) /\ g[i][p] = g[j][p]
          BY <2>3, <2>4, <3>1
        <4>2. 1 .. j \subseteq 1 .. i
          BY <2>1
        <4> QED BY <2>2, <4>1, <4>2, Zenon
      <3>2. CASE ~(p <= Len(g[j]))
        <4>1. g[i][p] = ByteAt(t, i, p - s[i])
          BY <2>3, <2>4, <3>2, Zenon
        <4>2. g[i][p].of = i
          <5>1. \A k : ByteAt(t, i, k).of = i
            BY DEF ByteAt
          <5> QED BY <4>1, <5>1, Zenon
        <4>3. i \in 1 .. i
          BY <2>1
        <4>4. \A a, b \in Nat : \A k \in 1 .. b : ~(k <= a) => a < k /\ k <= b
          OBVIOUS
        <4>5. s[i] < p /\ p <= s[i + 1]
          BY <2>3, <3>2, <4>4, Zenon
        <4> QED BY <4>1, <4>2, <4>3, <4>5, Zenon
      <3> QED BY <3>1, <3>2
    <2> QED BY <2>5, Zenon DEF i
  <1>15. Right(n)
    <2>1. n \in A
      <3> HIDE DEF A
      <3> QED BY <1>1, <1>13, <1>14, Induction
    <2>2. n <= n
      BY <1>1
    <2> QED BY <2>1, <2>2
  <1>16. s[n + 1] = Len(g[n]) /\ g[n] \in Seq(Byte)
    <2>1. n \in 0 .. n
      BY <1>1
    <2> QED BY <1>6, <1>8, <2>1, Zenon
  <1> QED BY <1>3, <1>5, <1>12, <1>15, <1>16, Zenon DEF LaidOut, n

\* Where a character starts: the places are in the order of the characters, and
\* a byte belongs to one character.
LEMMA StartsInOrder ==
    ASSUME NEW t \in Seq(Character), NEW s, Starts(t, s)
    PROVE  /\ \A i, j \in 1 .. Len(t) + 1 : i <= j => s[i] <= s[j]
           /\ \A i \in 1 .. Len(t) + 1 : s[i] \in Nat
           /\ \A i \in 1 .. Len(t) : i + 1 \in 1 .. Len(t) + 1 /\ i \in 1 .. Len(t) + 1
           /\ \A i, j \in 1 .. Len(t), p \in Nat :
                s[i] < p /\ p <= s[i + 1] /\ s[j] < p /\ p <= s[j + 1] => i = j
  <1> DEFINE n == Len(t)
  <1>1. n \in Nat
    BY Characters
  <1>2. \A i \in 1 .. n + 1 : s[i] \in Nat
    BY Zenon DEF Starts, n
  <1>3. \A i \in 1 .. n : s[i] <= s[i + 1] /\ i + 1 \in 1 .. n + 1 /\ i \in 1 .. n + 1
    <2> SUFFICES ASSUME NEW i \in 1 .. n
                 PROVE  s[i] <= s[i + 1] /\ i + 1 \in 1 .. n + 1 /\ i \in 1 .. n + 1
      BY Zenon
    <2>1. i + 1 \in 1 .. n + 1 /\ i \in 1 .. n + 1
      BY <1>1
    <2>2. t[i].length \in 1 .. 4 /\ s[i + 1] = s[i] + t[i].length
      BY Characters, Zenon DEF Starts, n
    <2>3. s[i] \in Nat
      BY <1>2, <2>1
    <2>4. \A x \in Nat, y \in 1 .. 4 : \A z : z = x + y => x <= z
      OBVIOUS
    <2> QED BY <2>1, <2>2, <2>3, <2>4, Zenon
  <1> HIDE DEF n
  <1> DEFINE A == {k \in Nat : \A i \in 1 .. n + 1 : i + k <= n + 1 => s[i] <= s[i + k]}
  <1>4. 0 \in A
    <2>1. ASSUME NEW i \in 1 .. n + 1 PROVE s[i] <= s[i + 0]
      <3>1. i + 0 = i
        BY <1>1
      <3>2. s[i] \in Nat
        BY <1>2
      <3> QED BY <3>1, <3>2
    <2> QED BY <2>1
  <1>5. ASSUME NEW k \in Nat, k \in A PROVE k + 1 \in A
    <2> SUFFICES ASSUME NEW i \in 1 .. n + 1, i + (k + 1) <= n + 1 PROVE s[i] <= s[i + (k + 1)]
      OBVIOUS
    <2> DEFINE j == i + k
    <2>1. j \in 1 .. n /\ i + (k + 1) = j + 1 /\ i + k <= n + 1
      BY <1>1
    <2>2. s[i] <= s[j]
      BY <1>5, <2>1
    <2>3. s[j] <= s[j + 1] /\ j + 1 \in 1 .. n + 1 /\ j \in 1 .. n + 1
      BY <1>3, <2>1
    <2>4. s[i] \in Nat /\ s[j] \in Nat /\ s[j + 1] \in Nat
      BY <1>2, <2>3
    <2> HIDE DEF j
    <2>5. s[i] <= s[j + 1]
      BY <2>2, <2>3, <2>4
    <2> QED BY <2>1, <2>5
  <1>6. \A k \in Nat : k \in A
    <2> HIDE DEF A
    <2> QED BY <1>4, <1>5, Induction
  <1>7. ASSUME NEW i \in 1 .. n + 1, NEW j \in 1 .. n + 1, i <= j PROVE s[i] <= s[j]
    <2>1. j - i \in Nat /\ i + (j - i) = j /\ j <= n + 1
      BY <1>1, <1>7
    <2>2. j - i \in A
      BY <1>6, <2>1
    <2>3. s[i] <= s[i + (j - i)]
      BY <2>1, <2>2
    <2> QED BY <2>1, <2>3
  <1>8. ASSUME NEW i \in 1 .. n, NEW j \in 1 .. n, NEW p \in Nat,
               s[i] < p, p <= s[i + 1], s[j] < p, p <= s[j + 1]
        PROVE  i = j
    <2>1. i + 1 \in 1 .. n + 1 /\ j + 1 \in 1 .. n + 1 /\ i \in 1 .. n + 1 /\ j \in 1 .. n + 1
      BY <1>1
    <2>2. s[i] \in Nat /\ s[j] \in Nat /\ s[i + 1] \in Nat /\ s[j + 1] \in Nat
      BY <1>2, <2>1
    <2>3. ~(i + 1 <= j)
      <3> SUFFICES ASSUME i + 1 <= j PROVE FALSE
        OBVIOUS
      <3>1. s[i + 1] <= s[j]
        BY <1>7, <2>1
      <3> QED BY <1>8, <2>2, <3>1
    <2>4. ~(j + 1 <= i)
      <3> SUFFICES ASSUME j + 1 <= i PROVE FALSE
        OBVIOUS
      <3>1. s[j + 1] <= s[i]
        BY <1>7, <2>1
      <3> QED BY <1>8, <2>2, <3>1
    <2>5. i \in Int /\ j \in Int
      BY <1>1
    <2> QED BY <2>3, <2>4, <2>5
  <1> QED BY <1>2, <1>3, <1>7, <1>8, Zenon DEF n

-----------------------------------------------------------------------------
\* A sample takes the first h bytes where they are, and the others off further.
Place(h, off, p) == IF p <= h THEN p ELSE p + off

\* The bytes x are drawn from the text so.
Drawn(t, s, h, off, x) ==
    /\ x \in Seq(Byte)
    /\ \A p \in 1 .. Len(x) :
         /\ x[p].of \in 1 .. Len(t)
         /\ s[x[p].of] < Place(h, off, p) /\ Place(h, off, p) <= s[x[p].of + 1]
         /\ x[p] = ByteAt(t, x[p].of, Place(h, off, p) - s[x[p].of])

\* What the two numbers can be: there is no seam where nothing is left out.
Shift(h, off) == h \in Nat /\ off \in Nat /\ (off = 0 => h = 0)

\* A text, where its characters start, and bytes drawn from it.
Setting(t, s, h, off, x) ==
    t \in Seq(Character) /\ Starts(t, s) /\ Shift(h, off) /\ Drawn(t, s, h, off, x)

\* The offsets are a run.
LEMMA OffsetsRun ==
    ASSUME NEW a \in Nat, NEW b \in Nat, a <= b
    PROVE  /\ Offsets(a, b) \in Seq(Nat) /\ Len(Offsets(a, b)) = b - a
           /\ \A i \in 1 .. b - a : Offsets(a, b)[i] = a + i
  <1>1. b - a \in Nat
    OBVIOUS
  <1>2. \A n \in Nat : \A x \in [1 .. n -> Nat] : x \in Seq(Nat) /\ Len(x) = n
    OBVIOUS
  <1>3. Offsets(a, b) \in [1 .. b - a -> Nat]
    BY DEF Offsets
  <1> QED BY <1>1, <1>2, <1>3 DEF Offsets

\* buildSample takes one run of bytes, or two with bytes left out between them.
LEMMA WindowShape ==
    ASSUME NEW size \in Nat, NEW n \in Nat \ {0}, NEW strategy \in Strategies
    PROVE  \E h, off :
             LET w == BuildSample(size, n, strategy)
             IN  /\ Shift(h, off)
                 /\ w \in Seq(Nat)
                 /\ \A p \in 1 .. Len(w) : w[p] = Place(h, off, p) /\ w[p] \in 1 .. size
                 /\ h # 0 => strategy = "head_tail" /\ Len(w) < size
  <1> DEFINE w == BuildSample(size, n, strategy)
             Goal(h, off) ==
                 /\ Shift(h, off)
                 /\ w \in Seq(Nat)
                 /\ \A p \in 1 .. Len(w) : w[p] = Place(h, off, p) /\ w[p] \in 1 .. size
                 /\ h # 0 => strategy = "head_tail" /\ Len(w) < size
  <1>1. ASSUME NEW a \in Nat, NEW b \in Nat, a <= b, b <= size, w = Offsets(a, b)
        PROVE  Goal(0, a)
    <2> HIDE DEF w
    <2>1. /\ w \in Seq(Nat) /\ Len(w) = b - a
          /\ \A i \in 1 .. b - a : w[i] = a + i
      <3>1. /\ Offsets(a, b) \in Seq(Nat) /\ Len(Offsets(a, b)) = b - a
            /\ \A i \in 1 .. b - a : Offsets(a, b)[i] = a + i
        BY <1>1, OffsetsRun, Zenon
      <3> QED BY <1>1, <3>1, Zenon
    <2>2. ASSUME NEW p \in 1 .. Len(w) PROVE w[p] = Place(0, a, p) /\ w[p] \in 1 .. size
      <3>1. p \in 1 .. b - a
        BY <2>1
      <3>2. w[p] = a + p
        BY <2>1, <3>1
      <3> QED BY <1>1, <3>1, <3>2 DEF Place
    <2>3. Shift(0, a)
      BY DEF Shift
    <2> QED BY <2>1, <2>2, <2>3, Zenon
  <1>2. CASE n >= size
    <2>1. w = Offsets(0, size) /\ 0 <= size /\ size <= size /\ 0 \in Nat
      BY <1>2 DEF BuildSample
    <2>2. Goal(0, 0)
      BY <1>1, <2>1, Zenon
    <2> QED BY <2>2, Zenon
  <1>3. CASE ~(n >= size) /\ strategy = "tail"
    <2>1. w = Offsets(size - n, size) /\ size - n \in Nat /\ size - n <= size /\ size <= size
      BY <1>3 DEF BuildSample
    <2>2. Goal(0, size - n)
      BY <1>1, <2>1, Zenon
    <2> QED BY <2>2, Zenon
  <1>4. CASE ~(n >= size) /\ strategy = "head"
    <2>1. w = Offsets(0, n) /\ 0 <= n /\ n <= size /\ 0 \in Nat /\ n \in Nat
      BY <1>4 DEF BuildSample
    <2>2. Goal(0, 0)
      BY <1>1, <2>1, Zenon
    <2> QED BY <2>2, Zenon
  <1>5. CASE ~(n >= size) /\ strategy = "head_tail"
    <2> DEFINE a == (n + 1) \div 2
               b == n \div 2
               u == Offsets(0, a)
               v == Offsets(size - b, size)
    <2>1. w = u \o v
      BY <1>5 DEF BuildSample
    <2>2. a \in Nat /\ b \in Nat /\ a + b = n /\ b <= size /\ a # 0 /\ n < size
      BY <1>5
    <2> HIDE DEF a, b, w
    <2>3. u \in Seq(Nat) /\ Len(u) = a /\ \A i \in 1 .. a : u[i] = i
      <3>1. 0 <= a /\ a - 0 = a /\ 0 \in Nat
        BY <2>2
      <3>2. /\ u \in Seq(Nat) /\ Len(u) = a - 0 /\ \A i \in 1 .. a - 0 : u[i] = 0 + i
        BY <2>2, <3>1, OffsetsRun, Zenon
      <3> HIDE DEF u
      <3> QED BY <3>1, <3>2
    <2>4. v \in Seq(Nat) /\ Len(v) = b /\ \A i \in 1 .. b : v[i] = (size - b) + i
      <3>1. size - b \in Nat /\ size - b <= size /\ size - (size - b) = b
        BY <2>2
      <3>2. /\ v \in Seq(Nat) /\ Len(v) = size - (size - b)
            /\ \A i \in 1 .. size - (size - b) : v[i] = (size - b) + i
        BY <3>1, OffsetsRun, Zenon
      <3> HIDE DEF v
      <3> QED BY <3>1, <3>2, Zenon
    <2> HIDE DEF u, v
    <2>5. /\ w \in Seq(Nat) /\ Len(w) = a + b
          /\ \A i \in 1 .. a + b : w[i] = IF i <= a THEN u[i] ELSE v[i - a]
      BY <2>1, <2>3, <2>4, ConcatProperties
    <2>6. ASSUME NEW p \in 1 .. Len(w)
          PROVE  w[p] = Place(a, size - n, p) /\ w[p] \in 1 .. size
      <3>1. p \in 1 .. a + b
        BY <2>5
      <3>2. CASE p <= a
        <4>1. p \in 1 .. a
          BY <2>2, <3>1, <3>2
        <4>2. w[p] = p
          BY <2>3, <2>5, <3>1, <3>2, <4>1
        <4> QED BY <2>2, <3>2, <4>1, <4>2 DEF Place
      <3>3. CASE ~(p <= a)
        <4>1. p - a \in 1 .. b
          BY <2>2, <3>1, <3>3
        <4>2. w[p] = (size - b) + (p - a)
          BY <2>4, <2>5, <3>1, <3>3, <4>1
        <4>3. (size - b) + (p - a) = p + (size - n) /\ p + (size - n) \in 1 .. size
          BY <2>2, <3>1, <3>3
        <4> QED BY <3>3, <4>2, <4>3 DEF Place
      <3> QED BY <3>2, <3>3
    <2>7. Shift(a, size - n) /\ Len(w) < size
      BY <2>2, <2>5 DEF Shift
    <2>8. Goal(a, size - n)
      BY <1>5, <2>5, <2>6, <2>7, Zenon
    <2> QED BY <2>8, Zenon DEF w
  <1> QED BY <1>2, <1>3, <1>4, <1>5 DEF Strategies

\* The sample of a text is drawn from it.
LEMMA SampleIsDrawn ==
    ASSUME NEW in, in.text \in Seq(Character), in.sampleBytes \in Nat \ {0},
           in.strategy \in Strategies
    PROVE  \E s, h, off :
             /\ Starts(in.text, s) /\ Shift(h, off)
             /\ Drawn(in.text, s, h, off, Sampled(in))
             /\ h # 0 => in.strategy = "head_tail" /\ Len(Sampled(in)) < Len(BytesOf(in.text))
  <1> DEFINE t == in.text
             b == BytesOf(t)
             w == BuildSample(Len(b), in.sampleBytes, in.strategy)
             x == [i \in DOMAIN w |-> b[w[i]]]
  <1>1. PICK s : LaidOut(t, s, b)
    BY BytesLaidOut, Zenon
  <1>2. /\ Starts(t, s)
        /\ b \in Seq(Byte)
        /\ \A p \in 1 .. Len(b) :
             /\ b[p].of \in 1 .. Len(t) /\ s[b[p].of] < p /\ p <= s[b[p].of + 1]
             /\ b[p] = ByteAt(t, b[p].of, p - s[b[p].of])
    BY <1>1, Zenon DEF LaidOut
  <1>3. Len(b) \in Nat
    BY <1>2, LenProperties
  <1>4. PICK h, off : /\ Shift(h, off)
                      /\ w \in Seq(Nat)
                      /\ \A p \in 1 .. Len(w) : w[p] = Place(h, off, p) /\ w[p] \in 1 .. Len(b)
                      /\ h # 0 => in.strategy = "head_tail" /\ Len(w) < Len(b)
    BY <1>3, WindowShape, Zenon
  <1>5. Len(w) \in Nat /\ DOMAIN w = 1 .. Len(w)
    BY <1>4, LenProperties
  <1>6. Sampled(in) = x
    BY Zenon DEF Sampled
  <1> HIDE DEF b, w, t
  <1>7. x \in Seq(Byte) /\ Len(x) = Len(w) /\ \A p \in 1 .. Len(w) : x[p] = b[w[p]]
    <2>1. \A p \in 1 .. Len(w) : b[w[p]] \in Byte
      BY <1>2, <1>4, ElementOfSeq, Zenon
    <2>2. x \in [1 .. Len(w) -> Byte]
      BY <1>5, <2>1, Zenon
    <2>3. \A n \in Nat : \A y \in [1 .. n -> Byte] : y \in Seq(Byte) /\ Len(y) = n
      OBVIOUS
    <2>4. \A p \in 1 .. Len(w) : x[p] = b[w[p]]
      BY <1>5, Zenon
    <2> HIDE DEF x
    <2> QED BY <1>5, <2>2, <2>3, <2>4, Zenon
  <1> HIDE DEF x
  <1>8. Drawn(t, s, h, off, x)
    BY <1>2, <1>4, <1>7, Zenon DEF Drawn
  <1> QED BY <1>2, <1>4, <1>6, <1>7, <1>8, Zenon DEF t, b

-----------------------------------------------------------------------------
\* Places are in the order of the bytes.
LEMMA PlaceOrder ==
    ASSUME NEW h, NEW off, Shift(h, off)
    PROVE  /\ \A p \in Nat : Place(h, off, p) \in Nat /\ p <= Place(h, off, p)
           /\ \A p, q \in Nat : p < q => Place(h, off, p) < Place(h, off, q)
           /\ \A p, q \in Nat : Place(h, off, p) = Place(h, off, q) => p = q
  BY DEF Shift, Place

\* What the place of a byte says of it.
LEMMA DrawnBytes ==
    ASSUME NEW t, NEW s, NEW h, NEW off, NEW x, Setting(t, s, h, off, x)
    PROVE  /\ Len(x) \in Nat /\ DOMAIN x = 1 .. Len(x)
           /\ \A p \in 1 .. Len(x) :
                /\ p \in Nat /\ Place(h, off, p) \in Nat /\ x[p].of \in 1 .. Len(t)
                /\ x[p].announced \in 0 .. 4
                /\ x[p].class = t[x[p].of].class
                /\ x[p].announced = IF Place(h, off, p) = s[x[p].of] + 1
                                    THEN t[x[p].of].announced ELSE 0
  <1>0. t \in Seq(Character) /\ Starts(t, s) /\ Shift(h, off)
    BY Zenon DEF Setting
  <1>1. /\ x \in Seq(Byte)
        /\ \A p \in 1 .. Len(x) :
             /\ x[p].of \in 1 .. Len(t)
             /\ s[x[p].of] < Place(h, off, p) /\ Place(h, off, p) <= s[x[p].of + 1]
             /\ x[p] = ByteAt(t, x[p].of, Place(h, off, p) - s[x[p].of])
    BY Zenon DEF Drawn, Setting
  <1>2. Len(x) \in Nat /\ DOMAIN x = 1 .. Len(x)
    BY <1>1, LenProperties
  <1>3. \A p \in 1 .. Len(x) : p \in Nat
    BY <1>2
  <1>4. \A p \in 1 .. Len(x) : x[p].announced \in 0 .. 4
    <2>1. \A p \in 1 .. Len(x) : x[p] \in Byte
      BY <1>1, ElementOfSeq, Zenon
    <2>2. \A c \in Byte : c.announced \in 0 .. 4
      BY DEF Byte
    <2> QED BY <2>1, <2>2, Zenon
  <1>5. \A i, k : /\ ByteAt(t, i, k).class = t[i].class
                  /\ ByteAt(t, i, k).announced = IF k = 1 THEN t[i].announced ELSE 0
    BY DEF ByteAt
  <1>6. \A i \in 1 .. Len(t) : s[i] \in Nat
    BY <1>0, StartsInOrder, Zenon
  <1>7. \A k, a \in Nat : k - a = 1 <=> k = a + 1
    OBVIOUS
  <1>8. ASSUME NEW p \in 1 .. Len(x)
        PROVE  /\ Place(h, off, p) \in Nat
               /\ x[p].class = t[x[p].of].class
               /\ x[p].announced = IF Place(h, off, p) = s[x[p].of] + 1
                                   THEN t[x[p].of].announced ELSE 0
    <2>1. Place(h, off, p) \in Nat
      BY <1>0, <1>3, PlaceOrder, Zenon
    <2> DEFINE o == x[p].of
               k == Place(h, off, p)
    <2>7. x[p] = ByteAt(t, o, k - s[o])
      BY <1>1, Zenon
    <2>8. x[p].class = ByteAt(t, o, k - s[o]).class
          /\ x[p].announced = ByteAt(t, o, k - s[o]).announced
      BY <2>7, Zenon
    <2> HIDE DEF o
    <2>2. x[p].class = t[o].class
      BY <1>5, <2>8, Zenon
    <2>3. Place(h, off, p) - s[x[p].of] = 1 <=> Place(h, off, p) = s[x[p].of] + 1
      BY <1>1, <1>6, <1>7, <2>1, Zenon
    <2>4. x[p].announced = IF k = s[o] + 1 THEN t[o].announced ELSE 0
      BY <1>5, <2>3, <2>8, Zenon DEF o
    <2> QED BY <2>1, <2>2, <2>4, Zenon DEF o
  <1> QED BY <1>1, <1>2, <1>3, <1>4, <1>8, Zenon

\* A byte is of the character in whose range its place is.
LEMMA ByteOf ==
    ASSUME NEW t, NEW s, NEW h, NEW off, NEW x, Setting(t, s, h, off, x),
           NEW p \in 1 .. Len(x), NEW i \in 1 .. Len(t)
    PROVE  x[p].of = i <=> s[i] < Place(h, off, p) /\ Place(h, off, p) <= s[i + 1]
  <1> DEFINE k == Place(h, off, p)
             o == x[p].of
  <1>1. o \in 1 .. Len(t) /\ s[o] < k /\ k <= s[o + 1]
    BY Zenon DEF Setting, Drawn
  <1>2. k \in Nat
    BY DrawnBytes, Zenon
  <1> HIDE DEF k, o
  <1>3. \A j \in 1 .. Len(t) : s[j] < k /\ k <= s[j + 1] => j = o
    <2>1. t \in Seq(Character) /\ Starts(t, s)
      BY Zenon DEF Setting
    <2>2. \A a, b \in 1 .. Len(t), q \in Nat :
            s[a] < q /\ q <= s[a + 1] /\ s[b] < q /\ q <= s[b + 1] => a = b
      BY <2>1, StartsInOrder, Zenon
    <2> QED BY <1>1, <1>2, <2>2, Zenon
  <1> QED BY <1>1, <1>3, Zenon DEF k, o

\* As many different numbers of a range as it has are all of them.
LEMMA AllOfRange ==
    ASSUME NEW n \in Nat, NEW P, NEW f \in Injection(P, 1 .. n), Cardinality(P) = n
    PROVE  \A k \in 1 .. n : \E p \in P : f[p] = k
  <1>2. IsFiniteSet(1 .. n) /\ Cardinality(1 .. n) = n
    <2>1. 1 \in Int /\ n \in Int /\ (1 > n => n = 0) /\ n - 1 + 1 = n
      OBVIOUS
    <2>2. IsFiniteSet(1 .. n) /\ Cardinality(1 .. n) = IF 1 > n THEN 0 ELSE n - 1 + 1
      BY <2>1, FS_Interval, Zenon
    <2> QED BY <2>1, <2>2, Zenon
  <1>3. f \in Surjection(P, 1 .. n)
    BY <1>2, FS_Injection, Zenon
  <1> QED BY <1>3, Zenon DEF Surjection

\* The n places after b are those of some of the first m bytes.
Reached(h, off, n, b, m) == \A k \in 1 .. n : \E p \in 1 .. m : Place(h, off, p) = b + k

\* They are those of the n bytes after the a-th.
RunAt(h, off, n, b, m, a) ==
    a \in Nat /\ a + n <= m /\ \A k \in 1 .. n : Place(h, off, a + k) = b + k

\* When all of a range of places are those of bytes, the bytes are a run.
LEMMA RunOfPlaces ==
    ASSUME NEW h, NEW off, Shift(h, off), NEW n \in Nat \ {0}, NEW b \in Nat, NEW m \in Nat,
           Reached(h, off, n, b, m)
    PROVE  \E a \in Nat : RunAt(h, off, n, b, m, a)
  <1> DEFINE at(p) == Place(h, off, p)
  <1>1. h \in Nat /\ off \in Nat /\ (off = 0 => h = 0)
    BY DEF Shift
  <1>2. \A p \in Nat : at(p) = IF p <= h THEN p ELSE p + off
    BY DEF Place
  <1> HIDE DEF at
  <1>3. 1 \in 1 .. n /\ n \in 1 .. n
    OBVIOUS
  <1>4. PICK p \in 1 .. m : at(p) = b + 1
    BY <1>3, Zenon DEF at, Reached
  <1>5. PICK q \in 1 .. m : at(q) = b + n
    BY <1>3, Zenon DEF at, Reached
  <1>6. p \in Nat /\ q \in Nat /\ p - 1 \in Nat
    OBVIOUS
  <1>7. CASE p <= h
    <2>1. p = b + 1
      BY <1>2, <1>4, <1>6, <1>7
    <2>2. q <= h
      <3> SUFFICES ASSUME ~(q <= h) PROVE FALSE
        OBVIOUS
      <3>1. q + off = b + n
        BY <1>2, <1>5, <1>6
      <3>2. h + 1 - b \in 1 .. n
        BY <1>1, <1>6, <1>7, <2>1, <3>1
      <3>3. PICK r \in 1 .. m : at(r) = b + (h + 1 - b)
        BY <3>2, Zenon DEF at, Reached
      <3>4. at(r) = h + 1 /\ r \in Nat
        BY <1>1, <3>3
      <3>5. off = 0
        BY <1>1, <1>2, <3>4
      <3> QED BY <1>1, <1>6, <1>7, <2>1, <3>5
    <2>3. q = b + n
      BY <1>2, <1>5, <1>6, <2>2
    <2>4. ASSUME NEW k \in 1 .. n PROVE at(b + k) = b + k
      <3>1. b + k \in Nat /\ b + k <= h
        BY <1>1, <2>2, <2>3
      <3> QED BY <1>2, <3>1
    <2>5. b + n <= m
      BY <2>3
    <2> QED BY <2>4, <2>5, Zenon DEF at, RunAt
  <1>8. CASE ~(p <= h)
    <2>1. p + off = b + 1
      BY <1>2, <1>4, <1>6, <1>8
    <2>2. ~(q <= h)
      <3> SUFFICES ASSUME q <= h PROVE FALSE
        OBVIOUS
      <3>1. q = b + n
        BY <1>2, <1>5, <1>6
      <3> QED BY <1>1, <1>6, <1>8, <2>1, <3>1
    <2>3. q + off = b + n
      BY <1>2, <1>5, <1>6, <2>2
    <2> DEFINE a == p - 1
    <2>4. ASSUME NEW k \in 1 .. n PROVE at(a + k) = b + k
      <3>1. a + k \in Nat /\ (a + k) + off = b + k /\ ~(a + k <= h)
        BY <1>1, <1>6, <1>8, <2>1
      <3> QED BY <1>2, <3>1
    <2>5. a + n <= m /\ a \in Nat
      BY <1>1, <1>6, <2>1, <2>3
    <2> HIDE DEF a
    <2> QED BY <2>4, <2>5, Zenon DEF at, RunAt
  <1> QED BY <1>7, <1>8

\* And a run of bytes is all that is in its range of places.
LEMMA PlacesOfRun ==
    ASSUME NEW h, NEW off, Shift(h, off), NEW n \in Nat \ {0}, NEW b \in Nat, NEW m \in Nat,
           NEW a \in Nat, RunAt(h, off, n, b, m, a)
    PROVE  \A p \in 1 .. m : b < Place(h, off, p) /\ Place(h, off, p) <= b + n <=> p \in a + 1 .. a + n
  <1> DEFINE at(p) == Place(h, off, p)
  <1>1. \A p \in Nat : at(p) \in Nat
    BY PlaceOrder, Zenon
  <1>2. \A r, q \in Nat : at(r) = at(q) => r = q
    BY PlaceOrder, Zenon
  <1>3. \A k \in 1 .. n : at(a + k) = b + k
    BY Zenon DEF RunAt
  <1> HIDE DEF at
  <1>4. ASSUME NEW p \in 1 .. m, b < at(p), at(p) <= b + n PROVE p \in a + 1 .. a + n
    <2>1. p \in Nat /\ at(p) \in Nat
      BY <1>1
    <2>2. at(p) - b \in 1 .. n /\ b + (at(p) - b) = at(p)
      BY <1>4, <2>1
    <2>3. at(a + (at(p) - b)) = at(p) /\ a + (at(p) - b) \in Nat
      BY <1>3, <2>2
    <2>4. p = a + (at(p) - b)
      BY <1>2, <2>1, <2>3, Zenon
    <2> QED BY <2>2, <2>4
  <1>5. ASSUME NEW p \in a + 1 .. a + n PROVE b < at(p) /\ at(p) <= b + n
    <2>1. p - a \in 1 .. n /\ a + (p - a) = p
      OBVIOUS
    <2>2. at(p) = b + (p - a)
      BY <1>3, <2>1
    <2> QED BY <2>1, <2>2
  <1> QED BY <1>4, <1>5, Zenon DEF at

\* The size of a run.
LEMMA SizeOfRun ==
    ASSUME NEW a \in Nat, NEW n \in Nat \ {0}
    PROVE  IsFiniteSet(a + 1 .. a + n) /\ Cardinality(a + 1 .. a + n) = n
  <1>1. a + 1 \in Int /\ a + n \in Int /\ ~(a + 1 > a + n) /\ (a + n) - (a + 1) + 1 = n
    OBVIOUS
  <1>2. /\ IsFiniteSet(a + 1 .. a + n)
        /\ Cardinality(a + 1 .. a + n) = IF a + 1 > a + n THEN 0 ELSE (a + n) - (a + 1) + 1
    BY <1>1, FS_Interval, Zenon
  <1> QED BY <1>1, <1>2, Zenon

\* The distance of the places in a range from where it begins.
LEMMA Distances ==
    ASSUME NEW b \in Nat, NEW n \in Nat
    PROVE  /\ \A k \in Nat : b < k /\ k <= b + n => k - b \in 1 .. n
           /\ \A k, m \in Nat : k - b = m - b => k = m
           /\ \A k \in Nat, m \in 1 .. n : k - b = m => k = b + m
  OBVIOUS

\* A character lies in a sequence of bytes after its first a bytes.
Lies(t, s, h, off, x, i, a) == RunAt(h, off, t[i].length, s[i], Len(x), a)

\* The length of a character, and where it starts and ends.
LEMMA Extent ==
    ASSUME NEW t, NEW s, NEW h, NEW off, NEW x, Setting(t, s, h, off, x)
    PROVE  /\ Shift(h, off)
           /\ \A i \in 1 .. Len(t) :
                /\ t[i].length \in Nat \ {0} /\ t[i].length \in 1 .. 4 /\ t[i].length \in Nat
                /\ t[i].announced \in 0 .. 4
                /\ s[i] \in Nat /\ s[i + 1] = s[i] + t[i].length
  <1>1. t \in Seq(Character) /\ Starts(t, s) /\ Shift(h, off)
    BY Zenon DEF Setting
  <1>2. \A k \in 1 .. 4 : k \in Nat \ {0} /\ k \in Nat
    OBVIOUS
  <1>3. \A i \in 1 .. Len(t) : t[i].announced \in 0 .. 4 /\ t[i].length \in 1 .. 4
    BY <1>1, Characters, Zenon
  <1>4. \A i \in 1 .. Len(t) : s[i] \in Nat
    BY <1>1, StartsInOrder, Zenon
  <1> QED BY <1>1, <1>2, <1>3, <1>4, Zenon DEF Starts

\* The characters of a text of which these are all the bytes: see Whole.
WholeIn(t, bytes) ==
    {i \in DOMAIN t :
       /\ t[i].announced = t[i].length
       /\ Cardinality({p \in DOMAIN bytes : bytes[p].of = i}) = t[i].length}

\* A character is whole in what is drawn from the text when its bytes lie there
\* one after the other, and only then.
LEMMA WholeLies ==
    ASSUME NEW t, NEW s, NEW h, NEW off, NEW x, Setting(t, s, h, off, x),
           NEW i \in 1 .. Len(t)
    PROVE  i \in WholeIn(t, x) <=> /\ t[i].announced = t[i].length
                              /\ \E a \in Nat : Lies(t, s, h, off, x, i, a)
  <1> DEFINE n == t[i].length
             m == Len(x)
             b == s[i]
             P == {p \in DOMAIN x : x[p].of = i}
             at(p) == Place(h, off, p)
  <1>1. DOMAIN t = 1 .. Len(t)
    BY Characters, Zenon DEF Setting
  <1>2. n \in Nat \ {0} /\ n \in Nat /\ b \in Nat /\ s[i + 1] = b + n /\ Shift(h, off)
    BY Extent, Zenon
  <1>3. /\ m \in Nat /\ DOMAIN x = 1 .. m
        /\ \A p \in 1 .. m : /\ p \in Nat /\ at(p) \in Nat
                             /\ x[p].of = i <=> b < at(p) /\ at(p) <= s[i + 1]
    <2>1. Len(x) \in Nat /\ DOMAIN x = 1 .. Len(x)
      BY DrawnBytes, Zenon
    <2>2. ASSUME NEW p \in 1 .. Len(x)
          PROVE  /\ p \in Nat /\ Place(h, off, p) \in Nat
                 /\ x[p].of = i <=> s[i] < Place(h, off, p) /\ Place(h, off, p) <= s[i + 1]
      <3>1. p \in Nat /\ Place(h, off, p) \in Nat
        BY DrawnBytes, Zenon
      <3>2. x[p].of = i <=> s[i] < Place(h, off, p) /\ Place(h, off, p) <= s[i + 1]
        BY ByteOf
      <3> QED BY <3>1, <3>2, Zenon
    <2> QED BY <2>1, <2>2, Zenon
  <1>5. i \in WholeIn(t, x) <=> t[i].announced = n /\ Cardinality(P) = n
    BY <1>1, Zenon DEF WholeIn
  <1>6. \A a : Lies(t, s, h, off, x, i, a) <=> RunAt(h, off, n, b, m, a)
    BY Zenon DEF Lies
  <1>9. \A p : p \in P <=> p \in 1 .. m /\ x[p].of = i
    BY <1>3, Zenon
  <1> HIDE DEF n, at, m, b, P
  <1>7. ASSUME Cardinality(P) = n PROVE \E a \in Nat : Lies(t, s, h, off, x, i, a)
    <2> DEFINE f == [p \in P |-> at(p) - b]
    <2>0. /\ \A k \in Nat : b < k /\ k <= b + n => k - b \in 1 .. n
          /\ \A k, j \in Nat : k - b = j - b => k = j
          /\ \A k \in Nat, j \in 1 .. n : k - b = j => k = b + j
      BY <1>2, Distances, Zenon
    <2>1. \A p \in P : p \in Nat /\ at(p) \in Nat /\ b < at(p) /\ at(p) <= b + n /\ p \in 1 .. m
      BY <1>2, <1>3, <1>9, Zenon
    <2>2. f \in [P -> 1 .. n]
      <3>1. \A p \in P : at(p) - b \in 1 .. n
        BY <2>0, <2>1, Zenon
      <3> QED BY <3>1, Zenon
    <2>3. \A p \in P : f[p] = at(p) - b
      BY Zenon
    <2> HIDE DEF f
    <2>4. ASSUME NEW p \in P, NEW q \in P, f[p] = f[q] PROVE p = q
      <3>1. \A k, j \in Nat : at(k) = at(j) => k = j
        BY <1>2, PlaceOrder, Zenon DEF at
      <3>2. at(p) - b = at(q) - b
        BY <2>3, <2>4, Zenon
      <3>3. at(p) = at(q)
        BY <2>0, <2>1, <3>2, Zenon
      <3> QED BY <2>1, <3>1, <3>3, Zenon
    <2>5. f \in Injection(P, 1 .. n)
      BY <2>2, <2>4, Zenon DEF Injection, IsInjective
    <2>6. \A k \in 1 .. n : \E p \in P : f[p] = k
      <3>1. n \in Nat /\ f \in Injection(P, 1 .. n) /\ Cardinality(P) = n
        BY <1>2, <1>7, <2>5, Zenon
      <3> HIDE DEF P, f, n
      <3> QED BY <3>1, AllOfRange
    <2>7. ASSUME NEW k \in 1 .. n PROVE \E p \in 1 .. m : at(p) = b + k
      <3>1. PICK p \in P : f[p] = k
        BY <2>6, Zenon
      <3>2. at(p) - b = k /\ at(p) \in Nat /\ p \in 1 .. m
        BY <2>1, <2>3, <3>1, Zenon
      <3>3. at(p) = b + k
        BY <2>0, <3>2, Zenon
      <3> QED BY <3>2, <3>3, Zenon
    <2>8. Reached(h, off, n, b, m)
      BY <2>7, Zenon DEF at, Reached
    <2>9. \E a \in Nat : RunAt(h, off, n, b, m, a)
      BY <1>2, <1>3, <2>8, RunOfPlaces, Zenon
    <2> QED BY <1>6, <2>9, Zenon
  <1>8. ASSUME NEW a \in Nat, Lies(t, s, h, off, x, i, a) PROVE Cardinality(P) = n
    <2>1. RunAt(h, off, n, b, m, a)
      BY <1>6, <1>8, Zenon
    <2>2. \A p \in 1 .. m :
            b < Place(h, off, p) /\ Place(h, off, p) <= b + n <=> p \in a + 1 .. a + n
      BY <1>2, <1>3, <2>1, PlacesOfRun, Zenon
    <2>3. a + 1 .. a + n \subseteq 1 .. m
      <3>1. a + n <= m
        BY <2>1, Zenon DEF RunAt
      <3> QED BY <1>2, <1>3, <3>1
    <2>4. \A p : p \in P <=> p \in a + 1 .. a + n
      BY <1>2, <1>3, <1>9, <2>2, <2>3, Zenon DEF at
    <2>5. P = a + 1 .. a + n
      BY <2>4, Zenon
    <2> QED BY <1>2, <2>5, SizeOfRun, Zenon
  <1> QED BY <1>5, <1>7, <1>8, Zenon DEF n

-----------------------------------------------------------------------------
\* A set of places has a greatest.
LEMMA MaxPlace ==
    ASSUME NEW n \in Nat, NEW S \in SUBSET (1 .. n), S # {}
    PROVE  Max(S) \in S /\ \A y \in S : y <= Max(S)
  <1> DEFINE D == {d \in Nat : n - d \in S}
  <1>1. D \subseteq Nat /\ D # {}
    <2>1. PICK y \in S : TRUE
      OBVIOUS
    <2>2. n - y \in Nat /\ n - (n - y) = y
      BY <2>1
    <2>3. n - y \in D
      BY <2>1, <2>2
    <2> QED BY <2>3
  <1>2. PICK d \in D : \A k \in D : <<k, d>> \notin Smaller
    <2> HIDE DEF D
    <2> QED BY <1>1, SmallerIsWellFounded, WFMin, Zenon
  <1>3. n - d \in S /\ d \in Nat
    BY <1>2
  <1>4. ASSUME NEW y \in S PROVE n - d >= y
    <2>1. n - y \in Nat /\ n - (n - y) = y
      OBVIOUS
    <2>2. n - y \in D
      BY <2>1
    <2>3. ~(n - y < d)
      <3>1. <<n - y, d>> \notin Smaller
        BY <1>2, <2>2, Zenon
      <3> QED BY <1>3, <2>1, <3>1 DEF Smaller
    <2> QED BY <1>3, <2>1, <2>3
  <1>5. Max(S) \in S /\ \A y \in S : Max(S) >= y
    BY <1>3, <1>4, Zenon DEF Max
  <1> QED BY <1>5

\* The place trimIncompleteUTF8Suffix goes back to.
LEMMA LastStartIs ==
    ASSUME NEW x \in Seq(Byte), x # <<>>
    PROVE  /\ LastStart(x) \in 1 .. Len(x)
           /\ LastStart(x) = 1 \/ x[LastStart(x)].announced # 0
           /\ \A q \in 1 .. Len(x) : q > LastStart(x) => x[q].announced = 0
  <1> DEFINE S == {1} \cup {i \in DOMAIN x : x[i].announced # 0}
  <1>1. Len(x) \in Nat \ {0} /\ DOMAIN x = 1 .. Len(x)
    BY EmptySeq, LenProperties
  <1>2. S \in SUBSET (1 .. Len(x)) /\ S # {}
    BY <1>1
  <1>3. Max(S) \in S /\ \A y \in S : y <= Max(S)
    <2> HIDE DEF S
    <2> QED BY <1>1, <1>2, MaxPlace
  <1>4. LastStart(x) = Max(S)
    BY Zenon DEF LastStart
  <1>5. ASSUME NEW q \in 1 .. Len(x), q > Max(S) PROVE x[q].announced = 0
    <2> HIDE DEF S
    <2> DEFINE g == Max(S)
    <2>2. g \in Int /\ q \in Int /\ q > g
      <3>1. g \in 1 .. Len(x) /\ q > g
        BY <1>2, <1>3, <1>5, Zenon
      <3> HIDE DEF g
      <3> QED BY <1>1, <3>1
    <2>3. q \in S => q <= g
      BY <1>3, Zenon
    <2> HIDE DEF g
    <2>1. q \notin S
      BY <2>2, <2>3
    <2> USE DEF S
    <2> QED BY <1>1, <2>1
  <1>6. Max(S) \in 1 .. Len(x) /\ (Max(S) = 1 \/ x[Max(S)].announced # 0)
    BY <1>2, <1>3
  <1> HIDE DEF S
  <1> QED BY <1>4, <1>5, <1>6, Zenon

\* A part of a sequence of bytes.
LEMMA PartOf ==
    ASSUME NEW x \in Seq(Byte), NEW a \in 1 .. Len(x) + 1, NEW b \in 0 .. Len(x), a <= b + 1
    PROVE  /\ SubSeq(x, a, b) \in Seq(Byte) /\ Len(SubSeq(x, a, b)) = b - a + 1
           /\ DOMAIN SubSeq(x, a, b) = 1 .. b - a + 1
           /\ \A k \in 1 .. b - a + 1 : SubSeq(x, a, b)[k] = x[a + k - 1]
  <1>1. Len(x) \in Nat /\ a \in Int /\ b \in Int /\ a .. b \subseteq 1 .. Len(x)
    BY LenProperties
  <1>2. \A i \in a .. b : x[i] \in Byte
    BY <1>1, ElementOfSeq
  <1> DEFINE y == SubSeq(x, a, b)
  <1>3. /\ y \in Seq(Byte) /\ Len(y) = IF a <= b THEN b - a + 1 ELSE 0
        /\ \A i \in 1 .. b - a + 1 : y[i] = x[a + i - 1]
    BY <1>1, <1>2, SubSeqProperties
  <1> HIDE DEF y
  <1>4. Len(y) = b - a + 1
    BY <1>1, <1>3
  <1>5. DOMAIN y = 1 .. b - a + 1
    BY <1>3, <1>4, LenProperties
  <1> QED BY <1>3, <1>4, <1>5, Zenon DEF y

\* The first bytes of what is drawn from the text.
LEMMA PrefixDrawn ==
    ASSUME NEW t, NEW s, NEW h, NEW off, NEW x, Setting(t, s, h, off, x), NEW c \in 0 .. Len(x)
    PROVE  /\ Setting(t, s, h, off, SubSeq(x, 1, c))
           /\ Len(SubSeq(x, 1, c)) = c
           /\ \A p \in 1 .. c : SubSeq(x, 1, c)[p] = x[p] /\ p \in 1 .. Len(x)
  <1> DEFINE y == SubSeq(x, 1, c)
  <1>1. /\ x \in Seq(Byte)
        /\ \A p \in 1 .. Len(x) :
             /\ x[p].of \in 1 .. Len(t)
             /\ s[x[p].of] < Place(h, off, p) /\ Place(h, off, p) <= s[x[p].of + 1]
             /\ x[p] = ByteAt(t, x[p].of, Place(h, off, p) - s[x[p].of])
    BY Zenon DEF Setting, Drawn
  <1>2. Len(x) \in Nat
    BY <1>1, LenProperties
  <1>3. 1 \in 1 .. Len(x) + 1 /\ 1 <= c + 1 /\ c - 1 + 1 = c
    BY <1>2
  <1>4. /\ y \in Seq(Byte) /\ Len(y) = c - 1 + 1
        /\ \A k \in 1 .. c - 1 + 1 : y[k] = x[1 + k - 1]
    BY <1>1, <1>3, PartOf, Zenon
  <1> HIDE DEF y
  <1>5. ASSUME NEW p \in 1 .. c PROVE y[p] = x[p] /\ p \in 1 .. Len(x)
    <2>1. 1 + p - 1 = p /\ p \in 1 .. Len(x)
      BY <1>2
    <2> QED BY <1>3, <1>4, <2>1, Zenon
  <1>6. Len(y) = c
    BY <1>3, <1>4, Zenon
  <1>7. Drawn(t, s, h, off, y)
    BY <1>1, <1>4, <1>5, <1>6, Zenon DEF Drawn
  <1>8. Setting(t, s, h, off, y)
    BY <1>7, Zenon DEF Setting
  <1> QED BY <1>5, <1>6, <1>8, Zenon DEF y

\* The bytes of a character that lies after the first a.
LEMMA BytesOfWhole ==
    ASSUME NEW t, NEW s, NEW h, NEW off, NEW x, Setting(t, s, h, off, x),
           NEW i \in 1 .. Len(t), NEW a \in Nat, Lies(t, s, h, off, x, i, a)
    PROVE  /\ a + t[i].length <= Len(x)
           /\ \A p \in 1 .. Len(x) : x[p].of = i <=> p \in a + 1 .. a + t[i].length
           /\ \A k \in 1 .. t[i].length :
                /\ a + k \in 1 .. Len(x) /\ x[a + k].of = i /\ x[a + k].class = t[i].class
                /\ x[a + k].announced = IF k = 1 THEN t[i].announced ELSE 0
  <1> DEFINE n == t[i].length
             m == Len(x)
             b == s[i]
  <1>1. n \in Nat \ {0} /\ n \in Nat /\ b \in Nat /\ s[i + 1] = b + n /\ Shift(h, off)
    BY Extent, Zenon
  <1>2. RunAt(h, off, n, b, m, a)
    BY Zenon DEF Lies
  <1>3. m \in Nat
    BY DrawnBytes, Zenon
  <1>4. a + n <= m /\ \A k \in 1 .. n : Place(h, off, a + k) = b + k
    BY <1>2, Zenon DEF RunAt
  <1>5. \A p \in 1 .. m : b < Place(h, off, p) /\ Place(h, off, p) <= b + n <=> p \in a + 1 .. a + n
    BY <1>1, <1>2, <1>3, PlacesOfRun, Zenon
  <1>6. ASSUME NEW p \in 1 .. m PROVE x[p].of = i <=> p \in a + 1 .. a + n
    <2>1. x[p].of = i <=> s[i] < Place(h, off, p) /\ Place(h, off, p) <= s[i + 1]
      BY ByteOf
    <2> DEFINE o == x[p].of
    <2>2. o = i <=> b < Place(h, off, p) /\ Place(h, off, p) <= b + n
      BY <1>1, <2>1
    <2> HIDE DEF o, b, n, m
    <2>3. o = i <=> p \in a + 1 .. a + n
      BY <1>5, <2>2, Zenon
    <2> QED BY <2>3 DEF o
  <1>7. ASSUME NEW k \in 1 .. n
        PROVE  /\ a + k \in 1 .. m /\ x[a + k].of = i /\ x[a + k].class = t[i].class
               /\ x[a + k].announced = IF k = 1 THEN t[i].announced ELSE 0
    <2> HIDE DEF b, n, m
    <2>1. a + k \in 1 .. m /\ a + k \in a + 1 .. a + n
      BY <1>1, <1>3, <1>4
    <2>2. x[a + k].of = i
      BY <1>6, <2>1
    <2>3. Place(h, off, a + k) = b + k
      BY <1>4, Zenon
    <2>4. b + k = b + 1 <=> k = 1
      BY <1>1
    <2> DEFINE p == a + k
    <2>5. p \in 1 .. Len(x)
      BY <2>1, Zenon DEF m
    <2> HIDE DEF p
    <2>6. /\ x[p].class = t[x[p].of].class
          /\ x[p].announced = IF Place(h, off, p) = s[x[p].of] + 1 THEN t[x[p].of].announced ELSE 0
      BY <2>5, DrawnBytes
    <2>7. x[a + k].announced = IF b + k = b + 1 THEN t[i].announced ELSE 0
      BY <2>2, <2>3, <2>6, Zenon DEF p, b
    <2>8. x[a + k].class = t[i].class
      BY <2>2, <2>6, Zenon DEF p
    <2> QED BY <2>1, <2>2, <2>4, <2>7, <2>8, Zenon
  <1> QED BY <1>4, <1>6, <1>7, Zenon DEF n, m

-----------------------------------------------------------------------------
\* The bytes of the i-th character are those after the first a of x.
At(t, x, i, a) ==
    /\ a \in Nat /\ a + t[i].length <= Len(x)
    /\ \A p \in 1 .. Len(x) : x[p].of = i <=> p \in a + 1 .. a + t[i].length
    /\ \A k \in 1 .. t[i].length :
         /\ a + k \in 1 .. Len(x) /\ x[a + k].of = i /\ x[a + k].class = t[i].class
         /\ x[a + k].announced = IF k = 1 THEN t[i].announced ELSE 0

\* The characters that are whole are those with all their bytes in one place.
LEMMA WholeAt ==
    ASSUME NEW t, NEW s, NEW h, NEW off, NEW x, Setting(t, s, h, off, x),
           NEW i \in 1 .. Len(t)
    PROVE  i \in WholeIn(t, x) <=> t[i].announced = t[i].length /\ \E a \in Nat : At(t, x, i, a)
  <1>1. ASSUME i \in WholeIn(t, x)
        PROVE  t[i].announced = t[i].length /\ \E a \in Nat : At(t, x, i, a)
    <2>1. PICK a \in Nat : Lies(t, s, h, off, x, i, a)
      BY <1>1, WholeLies, Zenon
    <2>2. At(t, x, i, a)
      BY <2>1, BytesOfWhole DEF At
    <2>3. t[i].announced = t[i].length
      BY <1>1, WholeLies
    <2> QED BY <2>2, <2>3
  <1>2. ASSUME t[i].announced = t[i].length, NEW a \in Nat, At(t, x, i, a)
        PROVE  i \in WholeIn(t, x)
    <2> DEFINE n == t[i].length
               P == {p \in DOMAIN x : x[p].of = i}
    <2>1. n \in Nat \ {0}
      BY Extent, Zenon
    <2>2. Len(x) \in Nat /\ DOMAIN x = 1 .. Len(x) /\ DOMAIN t = 1 .. Len(t)
      BY DrawnBytes, Characters, Zenon DEF Setting
    <2>3. /\ a + n <= Len(x)
          /\ \A p \in 1 .. Len(x) : x[p].of = i <=> p \in a + 1 .. a + n
      BY <1>2, Zenon DEF At
    <2>4. \A p \in a + 1 .. a + n : p \in 1 .. Len(x)
      <3> HIDE DEF n
      <3> QED BY <2>1, <2>2, <2>3
    <2>5. P = a + 1 .. a + n
      BY <2>2, <2>3, <2>4, Zenon
    <2> HIDE DEF n
    <2>6. Cardinality(P) = n
      BY <2>1, <2>5, SizeOfRun, Zenon
    <2> QED BY <1>2, <2>2, <2>6, Zenon DEF WholeIn, n
  <1> QED BY <1>1, <1>2, Zenon

\* No whole character has bytes on both sides of the c-th place.
NoStraddle(t, x, c) ==
    \A i \in WholeIn(t, x), a \in Nat : At(t, x, i, a) => ~(a < c /\ c < a + t[i].length)

\* A whole character, its place and its length.
LEMMA WholeHas ==
    ASSUME NEW t, NEW s, NEW h, NEW off, NEW x, Setting(t, s, h, off, x), NEW i \in WholeIn(t, x)
    PROVE  /\ i \in 1 .. Len(t) /\ t[i].announced = t[i].length /\ t[i].length \in 1 .. 4
           /\ \E a \in Nat : At(t, x, i, a)
  <1>1. DOMAIN t = 1 .. Len(t)
    BY Characters, Zenon DEF Setting
  <1>2. i \in 1 .. Len(t)
    BY <1>1, Zenon DEF WholeIn
  <1>3. t[i].length \in 1 .. 4
    BY <1>2, Extent
  <1>4. t[i].announced = t[i].length /\ \E a \in Nat : At(t, x, i, a)
    BY <1>2, WholeAt
  <1> QED BY <1>2, <1>3, <1>4

\* What a cut between characters leaves of a whole one is all of it.
LEMMA CutKeepsWhole ==
    ASSUME NEW t, NEW s, NEW h, NEW off, NEW x, Setting(t, s, h, off, x),
           NEW c \in 0 .. Len(x), NoStraddle(t, x, c),
           NEW p \in 1 .. c, x[p].of \in WholeIn(t, x)
    PROVE  x[p].of \in WholeIn(t, SubSeq(x, 1, c))
  <1> DEFINE y == SubSeq(x, 1, c)
             i == x[p].of
             n == t[i].length
  <1>1. /\ i \in 1 .. Len(t) /\ t[i].announced = n /\ n \in 1 .. 4
        /\ \E a \in Nat : At(t, x, i, a)
    BY WholeHas, Zenon
  <1>2. PICK a \in Nat : At(t, x, i, a)
    BY <1>1, Zenon
  <1>3. /\ Setting(t, s, h, off, y) /\ Len(y) = c
        /\ \A q \in 1 .. c : y[q] = x[q] /\ q \in 1 .. Len(x)
    BY PrefixDrawn
  <1>4. ~(a < c /\ c < a + n)
    BY <1>2, Zenon DEF NoStraddle
  <1>5. /\ a + n <= Len(x)
        /\ \A q \in 1 .. Len(x) : x[q].of = i <=> q \in a + 1 .. a + n
        /\ \A k \in 1 .. n : /\ a + k \in 1 .. Len(x) /\ x[a + k].of = i /\ x[a + k].class = t[i].class
                             /\ x[a + k].announced = IF k = 1 THEN t[i].announced ELSE 0
    BY <1>2, Zenon DEF At
  <1>6. Len(x) \in Nat
    BY DrawnBytes, Zenon
  <1>7. p \in a + 1 .. a + n
    <2>1. p \in 1 .. Len(x) /\ x[p].of = i
      BY <1>3, Zenon
    <2> QED BY <1>5, <2>1, Zenon
  <1> HIDE DEF y, i, n
  <1>8. a + n <= c /\ \A k \in 1 .. n : a + k \in 1 .. c
    BY <1>1, <1>4, <1>6, <1>7
  <1>9. At(t, y, i, a)
    BY <1>3, <1>5, <1>8, Zenon DEF At, n
  <1> QED BY <1>1, <1>3, <1>9, WholeAt, Zenon DEF y, i, n

\* Between the bytes of a whole character there is no first byte of one.
LEMMA NoStartWithin ==
    ASSUME NEW t, NEW x, NEW i, NEW a, At(t, x, i, a), t[i].length \in 1 .. 4,
           NEW r \in Nat, a + 1 < r, r <= a + t[i].length
    PROVE  r \in 1 .. Len(x) /\ x[r].announced = 0
  <1> DEFINE n == t[i].length
  <1>1. /\ a \in Nat
        /\ \A k \in 1 .. n : /\ a + k \in 1 .. Len(x)
                             /\ x[a + k].announced = IF k = 1 THEN t[i].announced ELSE 0
    BY Zenon DEF At
  <1>2. n \in Nat /\ a + 1 < r /\ r <= a + n
    OBVIOUS
  <1> HIDE DEF n
  <1>3. r - a \in 1 .. n /\ r - a # 1 /\ a + (r - a) = r
    BY <1>1, <1>2
  <1> QED BY <1>1, <1>3, Zenon

\* trimIncompleteUTF8Suffix drops three bytes at most, and leaves no part of a
\* whole character.
LEMMA TrimLeavesNoPart ==
    ASSUME NEW t, NEW s, NEW h, NEW off, NEW x, Setting(t, s, h, off, x),
           NEW m \in 1 .. Len(x)
    PROVE  \E c \in 0 .. m :
             /\ TrimIncompleteUTF8Suffix(SubSeq(x, 1, m)) = SubSeq(x, 1, c)
             /\ c >= m - 3
             /\ NoStraddle(t, x, c)
  <1> DEFINE y == SubSeq(x, 1, m)
             g == LastStart(y)
             w == SubSeq(y, g, m)
  <1>1. Len(x) \in Nat /\ m \in Nat \ {0} /\ m \in 0 .. Len(x)
    BY DrawnBytes
  <1>2. /\ Len(y) = m
        /\ \A p \in 1 .. m : y[p] = x[p] /\ p \in 1 .. Len(x)
        /\ Setting(t, s, h, off, y)
    BY <1>1, PrefixDrawn
  <1>3. y \in Seq(Byte)
    BY <1>2, Zenon DEF Setting, Drawn
  <1> HIDE DEF y
  <1>4. y # <<>>
    BY <1>1, <1>2
  <1>5. /\ g \in 1 .. m
        /\ g = 1 \/ y[g].announced # 0
        /\ \A q \in 1 .. m : q > g => y[q].announced = 0
    BY <1>2, <1>3, <1>4, LastStartIs
  <1> HIDE DEF g
  <1>6. /\ Len(w) = m - g + 1 /\ DOMAIN w = 1 .. m - g + 1
        /\ \A k \in 1 .. m - g + 1 : w[k] = y[g + k - 1]
    <2>1. g \in 1 .. Len(y) + 1 /\ m \in 0 .. Len(y) /\ g <= m + 1
      BY <1>1, <1>2, <1>5
    <2> QED BY <1>3, <2>1, PartOf
  <1> HIDE DEF w
  <1>7. TrimIncompleteUTF8Suffix(y) = IF FullRune(w) THEN y ELSE SubSeq(y, 1, g - 1)
    BY <1>2, Zenon DEF TrimIncompleteUTF8Suffix, g, w
  <1>8. w[1] = x[g] /\ x[g] = y[g] /\ y[g].announced \in 0 .. 4
    <2>1. 1 \in 1 .. m - g + 1 /\ g + 1 - 1 = g
      BY <1>1, <1>5
    <2>2. w[1] = y[g] /\ y[g] = x[g]
      BY <1>2, <1>5, <1>6, <2>1, Zenon
    <2>3. x[g].announced \in 0 .. 4
      BY <1>2, <1>5, DrawnBytes
    <2> QED BY <2>2, <2>3, Zenon
  <1>9. CASE FullRune(w)
    <2>1. TrimIncompleteUTF8Suffix(y) = SubSeq(x, 1, m)
      BY <1>7, <1>9, Zenon DEF y
    <2>2. ASSUME NEW i \in WholeIn(t, x), NEW a \in Nat, At(t, x, i, a),
                 a < m, m < a + t[i].length
          PROVE  FALSE
      <3> DEFINE n == t[i].length
      <3>1. i \in 1 .. Len(t) /\ t[i].announced = n /\ n \in 1 .. 4
        BY WholeHas
      <3>2. /\ a + n <= Len(x)
            /\ \A k \in 1 .. n : /\ a + k \in 1 .. Len(x) /\ x[a + k].of = i
                                 /\ x[a + k].announced = IF k = 1 THEN t[i].announced ELSE 0
        BY <2>2, Zenon DEF At
      <3> HIDE DEF n
      <3>3. 1 \in 1 .. n /\ a + 1 \in 1 .. m
        BY <1>1, <2>2, <3>1
      <3>4. x[a + 1].announced = n /\ y[a + 1] = x[a + 1]
        BY <1>2, <3>1, <3>2, <3>3, Zenon
      <3>5. ~(a + 1 > g)
        <4>1. n # 0
          BY <3>1
        <4> QED BY <1>5, <3>3, <3>4, <4>1, Zenon
      <3>6. ~(a + 1 < g)
        <4> SUFFICES ASSUME a + 1 < g PROVE FALSE
          OBVIOUS
        <4>1. g \in Nat /\ g # 1 /\ g <= a + t[i].length
          BY <1>1, <1>5, <2>2, <3>1 DEF n
        <4>2. x[g].announced = 0
          BY <2>2, <3>1, <4>1, NoStartWithin DEF n
        <4> QED BY <1>5, <1>8, <4>1, <4>2, Zenon
      <3>7. g = a + 1
        BY <1>5, <3>5, <3>6
      <3>8. Len(w) = m - a
        BY <1>1, <1>6, <3>7
      <3>9. w[1].announced = n
        BY <1>8, <3>4, <3>7
      <3>10. ~(Len(w) >= w[1].announced)
        <4>1. m < a + n
          BY <2>2 DEF n
        <4> QED BY <1>1, <3>1, <3>8, <3>9, <4>1
      <3>11. ASSUME NEW k \in DOMAIN w PROVE w[k].of = i
        <4>1. k \in 1 .. m - a
          BY <1>1, <1>6, <3>7
        <4>2. k \in 1 .. n /\ a + k \in 1 .. m /\ g + k - 1 = a + k
          <5>1. m < a + n
            BY <2>2 DEF n
          <5> QED BY <1>1, <3>1, <3>7, <4>1, <5>1
        <4>3. w[k] = y[a + k]
          BY <1>6, <4>2, Zenon
        <4>4. w[k] = x[a + k]
          BY <1>2, <4>2, <4>3, Zenon
        <4>5. x[a + k].of = i
          BY <3>2, <4>2, Zenon
        <4> QED BY <4>4, <4>5
      <3>12. w[1].of = i
        <4>1. 1 \in DOMAIN w
          BY <1>1, <1>5, <1>6
        <4> QED BY <3>11, <4>1, Zenon
      <3>13. Fit(w)
        BY <3>11, <3>12, Zenon DEF Fit
      <3> QED BY <1>9, <3>10, <3>13, Zenon DEF FullRune
    <2>3. NoStraddle(t, x, m)
      BY <2>2, Zenon DEF NoStraddle
    <2>4. m \in 0 .. m /\ m >= m - 3
      BY <1>1
    <2> QED BY <2>1, <2>3, <2>4, Zenon DEF y
  <1>10. CASE ~FullRune(w)
    <2> DEFINE c == g - 1
    <2>1. ~(Len(w) >= w[1].announced)
      BY <1>10, Zenon DEF FullRune
    <2>2. Len(w) < y[g].announced
      <3>1. w[1].announced = y[g].announced
        BY <1>8
      <3> QED BY <1>1, <1>5, <1>6, <1>8, <2>1, <3>1
    <2>3. c \in 0 .. m /\ c >= m - 3
      BY <1>1, <1>5, <1>6, <1>8, <2>2
    <2>4. TrimIncompleteUTF8Suffix(y) = SubSeq(x, 1, c)
      <3>1. SubSeq(SubSeq(x, 1, m), 1, c) = SubSeq(x, 1, c)
        <4> DEFINE u == SubSeq(y, 1, c)
                   v == SubSeq(x, 1, c)
        <4>1. u \in Seq(Byte) /\ Len(u) = c /\ \A k \in 1 .. c : u[k] = y[k]
          <5>1. c \in 0 .. Len(y)
            BY <1>2, <2>3
          <5> QED BY <1>2, <5>1, PrefixDrawn DEF Setting, Drawn
        <4>2. v \in Seq(Byte) /\ Len(v) = c /\ \A k \in 1 .. c : v[k] = x[k]
          <5>1. c \in 0 .. Len(x)
            BY <1>1, <2>3
          <5> QED BY <5>1, PrefixDrawn DEF Setting, Drawn
        <4>3. \A k \in 1 .. c : y[k] = x[k]
          BY <1>1, <1>2, <2>3
        <4> HIDE DEF u, v, c
        <4>4. \A k \in 1 .. c : u[k] = v[k]
          BY <4>1, <4>2, <4>3, Zenon
        <4>5. u = v
          BY <4>1, <4>2, <4>4, SeqEqual
        <4> QED BY <4>5 DEF u, v, y
      <3> QED BY <1>7, <1>10, <3>1, Zenon DEF y
    <2>5. ASSUME NEW i \in WholeIn(t, x), NEW a \in Nat, At(t, x, i, a),
                 a < c, c < a + t[i].length
          PROVE  FALSE
      <3>1. t[i].length \in 1 .. 4
        BY WholeHas
      <3>2. g \in Nat /\ a + 1 < g /\ g <= a + t[i].length
        BY <1>1, <1>5, <2>5, <3>1
      <3>3. x[g].announced = 0
        BY <2>5, <3>1, <3>2, NoStartWithin
      <3> QED BY <1>1, <1>5, <1>6, <1>8, <2>2, <3>3
    <2>6. NoStraddle(t, x, c)
      BY <2>5, Zenon DEF NoStraddle
    <2> QED BY <2>3, <2>4, <2>6, Zenon DEF y
  <1> QED BY <1>9, <1>10

-----------------------------------------------------------------------------
\* What it is for a rune to begin at a byte.
LEMMA RuneMeans ==
    ASSUME NEW x \in Seq(Byte), NEW i \in 1 .. Len(x)
    PROVE  /\ x[i].announced \in 0 .. 4
           /\ RuneAt(x, i) <=>
                /\ x[i].announced > 0
                /\ i + x[i].announced - 1 <= Len(x)
                /\ \A k \in 2 .. x[i].announced : x[i + k - 1].announced = 0
                /\ Fit(SubSeq(x, i, i + x[i].announced - 1))
  <1> DEFINE n == x[i].announced
             u == SubSeq(x, i, i + n - 1)
  <1>1. Len(x) \in Nat /\ i \in Nat \ {0}
    BY LenProperties
  <1>2. n \in 0 .. 4
    <2>1. x[i] \in Byte
      BY ElementOfSeq
    <2> QED BY <2>1 DEF Byte
  <1> HIDE DEF n
  <1>3. ASSUME i + n - 1 <= Len(x) PROVE \A k \in 2 .. n : u[k] = x[i + k - 1]
    <2>1. i \in 1 .. Len(x) + 1 /\ i + n - 1 \in 0 .. Len(x) /\ i <= (i + n - 1) + 1
          /\ (i + n - 1) - i + 1 = n
      BY <1>1, <1>2, <1>3
    <2>2. \A k \in 1 .. (i + n - 1) - i + 1 : u[k] = x[i + k - 1]
      BY <2>1, PartOf
    <2> HIDE DEF u
    <2> QED BY <1>2, <2>1, <2>2
  <1>4. RuneAt(x, i) <=> /\ n > 0 /\ i + n - 1 <= Len(x)
                         /\ \A k \in 2 .. n : u[k].announced = 0
                         /\ Fit(u)
    BY Zenon DEF RuneAt, n
  <1> HIDE DEF u
  <1>5. i + n - 1 <= Len(x) =>
          ((\A k \in 2 .. n : u[k].announced = 0) <=> \A k \in 2 .. n : x[i + k - 1].announced = 0)
    BY <1>3, Zenon
  <1> QED BY <1>2, <1>4, <1>5, Zenon DEF n, u

\* Parts of what follows the first q bytes are parts of the whole.
LEMMA RestOf ==
    ASSUME NEW x \in Seq(Byte), NEW q \in Nat, q < Len(x)
    PROVE  LET d == SubSeq(x, q + 1, Len(x))
           IN  /\ d \in Seq(Byte) /\ Len(d) = Len(x) - q /\ d # <<>>
               /\ \A k \in 1 .. Len(x) - q : d[k] = x[q + k]
               /\ d[1] = x[q + 1]
               /\ \A n \in 0 .. Len(x) - q :
                    /\ SubSeq(d, 1, n) = SubSeq(x, q + 1, q + n)
                    /\ SubSeq(d, n + 1, Len(d)) = SubSeq(x, q + n + 1, Len(x))
               /\ RuneAt(d, 1) <=> RuneAt(x, q + 1)
  <1> DEFINE m == Len(x)
             d == SubSeq(x, q + 1, m)
  <1>1. m \in Nat /\ q \in 0 .. m - 1
    BY LenProperties
  <1>2. d \in Seq(Byte) /\ Len(d) = m - q /\ \A k \in 1 .. m - q : d[k] = x[q + k]
    <2>1. q + 1 \in 1 .. m + 1 /\ m \in 0 .. m /\ q + 1 <= m + 1 /\ m - (q + 1) + 1 = m - q
      BY <1>1
    <2>2. d \in Seq(Byte) /\ Len(d) = m - (q + 1) + 1
          /\ \A k \in 1 .. m - (q + 1) + 1 : d[k] = x[(q + 1) + k - 1]
      BY <2>1, PartOf
    <2> HIDE DEF d, m
    <2>3. \A k \in 1 .. m - q : (q + 1) + k - 1 = q + k
      BY <1>1
    <2>4. \A k \in 1 .. m - q : d[k] = x[(q + 1) + k - 1]
      BY <2>1, <2>2, Zenon
    <2>5. \A k \in 1 .. m - q : d[k] = x[q + k]
      BY <2>3, <2>4, Zenon
    <2> QED BY <2>1, <2>2, <2>5, Zenon
  <1> HIDE DEF d
  <1>3. d[1] = x[q + 1] /\ d # <<>>
    BY <1>1, <1>2
  <1>4. ASSUME NEW n \in 0 .. m - q PROVE SubSeq(d, 1, n) = SubSeq(x, q + 1, q + n)
    <2> DEFINE u == SubSeq(d, 1, n)
               v == SubSeq(x, q + 1, q + n)
    <2>1. /\ 1 \in 1 .. Len(d) + 1 /\ n \in 0 .. Len(d) /\ 1 <= n + 1 /\ n - 1 + 1 = n
          /\ q + 1 \in 1 .. Len(x) + 1 /\ q + n \in 0 .. Len(x) /\ q + 1 <= (q + n) + 1
          /\ (q + n) - (q + 1) + 1 = n
      BY <1>1, <1>2 DEF m
    <2>2. u \in Seq(Byte) /\ Len(u) = n - 1 + 1 /\ \A k \in 1 .. n - 1 + 1 : u[k] = d[1 + k - 1]
      BY <1>2, <2>1, PartOf
    <2>3. v \in Seq(Byte) /\ Len(v) = (q + n) - (q + 1) + 1
          /\ \A k \in 1 .. (q + n) - (q + 1) + 1 : v[k] = x[(q + 1) + k - 1]
      BY <2>1, PartOf
    <2> HIDE DEF u, v
    <2>4. Len(u) = n /\ Len(v) = n
      BY <2>1, <2>2, <2>3, Zenon
    <2>5. ASSUME NEW k \in 1 .. n PROVE u[k] = v[k]
      <3>1. 1 + k - 1 = k /\ (q + 1) + k - 1 = q + k /\ k \in 1 .. m - q
        BY <1>1
      <3>2. u[k] = d[k]
        BY <2>1, <2>2, <3>1
      <3>3. v[k] = x[q + k]
        BY <2>1, <2>3, <3>1
      <3> QED BY <1>2, <3>1, <3>2, <3>3, Zenon
    <2>6. u = v
      BY <2>2, <2>3, <2>4, <2>5, SeqEqual
    <2> QED BY <2>6 DEF u, v
  <1>5. ASSUME NEW n \in 0 .. m - q
        PROVE  SubSeq(d, n + 1, Len(d)) = SubSeq(x, q + n + 1, m)
    <2> DEFINE u == SubSeq(d, n + 1, Len(d))
               v == SubSeq(x, q + n + 1, m)
    <2>1. /\ n + 1 \in 1 .. Len(d) + 1 /\ Len(d) \in 0 .. Len(d) /\ n + 1 <= Len(d) + 1
          /\ Len(d) - (n + 1) + 1 = m - q - n
          /\ q + n + 1 \in 1 .. Len(x) + 1 /\ m \in 0 .. Len(x) /\ q + n + 1 <= m + 1
          /\ m - (q + n + 1) + 1 = m - q - n
      BY <1>1, <1>2 DEF m
    <2>2. u \in Seq(Byte) /\ Len(u) = Len(d) - (n + 1) + 1
          /\ \A k \in 1 .. Len(d) - (n + 1) + 1 : u[k] = d[(n + 1) + k - 1]
      BY <1>2, <2>1, PartOf
    <2>3. v \in Seq(Byte) /\ Len(v) = m - (q + n + 1) + 1
          /\ \A k \in 1 .. m - (q + n + 1) + 1 : v[k] = x[(q + n + 1) + k - 1]
      BY <2>1, PartOf
    <2> HIDE DEF u, v
    <2>4. Len(u) = m - q - n /\ Len(v) = m - q - n
      BY <2>1, <2>2, <2>3, Zenon
    <2>5. ASSUME NEW k \in 1 .. m - q - n PROVE u[k] = v[k]
      <3>1. (n + 1) + k - 1 = n + k /\ (q + n + 1) + k - 1 = q + (n + k) /\ n + k \in 1 .. m - q
        BY <1>1
      <3>2. u[k] = d[n + k]
        BY <2>1, <2>2, <3>1
      <3>3. v[k] = x[q + (n + k)]
        BY <2>1, <2>3, <3>1
      <3> QED BY <1>2, <3>1, <3>2, <3>3, Zenon
    <2>6. u = v
      BY <2>2, <2>3, <2>4, <2>5, SeqEqual
    <2> QED BY <2>6 DEF u, v
  <1>6. RuneAt(d, 1) <=> RuneAt(x, q + 1)
    <2> DEFINE n == x[q + 1].announced
    <2>1. /\ n \in 0 .. 4
          /\ RuneAt(x, q + 1) <=> /\ n > 0 /\ (q + 1) + n - 1 <= m
                                  /\ \A k \in 2 .. n : x[(q + 1) + k - 1].announced = 0
                                  /\ Fit(SubSeq(x, q + 1, (q + 1) + n - 1))
      <3>1. q + 1 \in 1 .. Len(x)
        BY <1>1
      <3> QED BY <3>1, RuneMeans
    <2>2. /\ d[1].announced = n
          /\ RuneAt(d, 1) <=> /\ n > 0 /\ 1 + n - 1 <= Len(d)
                              /\ \A k \in 2 .. n : d[1 + k - 1].announced = 0
                              /\ Fit(SubSeq(d, 1, 1 + n - 1))
      <3>1. 1 \in 1 .. Len(d)
        BY <1>1, <1>2
      <3>2. d[1].announced = n
        BY <1>3
      <3>3. RuneAt(d, 1) <=> /\ d[1].announced > 0 /\ 1 + d[1].announced - 1 <= Len(d)
                             /\ \A k \in 2 .. d[1].announced : d[1 + k - 1].announced = 0
                             /\ Fit(SubSeq(d, 1, 1 + d[1].announced - 1))
        BY <1>2, <3>1, RuneMeans
      <3> HIDE DEF n
      <3> QED BY <3>2, <3>3, Zenon
    <2> HIDE DEF n
    <2>3. /\ (q + 1) + n - 1 = q + n /\ 1 + n - 1 = n
          /\ (q + n <= m <=> n <= Len(d))
          /\ (q + n <= m <=> n \in 0 .. m - q)
          /\ \A k \in 2 .. n : 1 + k - 1 = k /\ (q + 1) + k - 1 = q + k
      BY <1>1, <1>2, <2>1
    <2>4. RuneAt(x, q + 1) <=> /\ n > 0 /\ q + n <= m
                               /\ \A k \in 2 .. n : x[q + k].announced = 0
                               /\ Fit(SubSeq(x, q + 1, q + n))
      BY <2>1, <2>3, Zenon
    <2>5. RuneAt(d, 1) <=> /\ n > 0 /\ q + n <= m
                           /\ \A k \in 2 .. n : d[k].announced = 0
                           /\ Fit(SubSeq(d, 1, n))
      BY <2>2, <2>3, Zenon
    <2>6. CASE q + n <= m
      <3>1. SubSeq(d, 1, n) = SubSeq(x, q + 1, q + n)
        BY <1>4, <2>3, <2>6, Zenon
      <3>2. \A k \in 2 .. n : k \in 1 .. m - q
        BY <1>1, <2>1, <2>6
      <3>3. \A k \in 2 .. n : d[k] = x[q + k]
        BY <1>2, <3>2, Zenon
      <3> QED BY <2>4, <2>5, <3>1, <3>3, Zenon
    <2>7. CASE ~(q + n <= m)
      BY <2>4, <2>5, <2>7, Zenon
    <2> QED BY <2>6, <2>7
  <1> HIDE DEF m
  <1>7. \A n \in 0 .. m - q : /\ SubSeq(d, 1, n) = SubSeq(x, q + 1, q + n)
                              /\ SubSeq(d, n + 1, Len(d)) = SubSeq(x, q + n + 1, m)
    BY <1>4, <1>5, Zenon
  <1> QED BY <1>2, <1>3, <1>6, <1>7, Zenon DEF d, m

\* A whole character is in one place.
LEMMA OnePlace ==
    ASSUME NEW t, NEW x, NEW i, NEW a, At(t, x, i, a), t[i].length \in 1 .. 4,
           NEW b, At(t, x, i, b), Len(x) \in Nat
    PROVE  a = b
  <1> DEFINE n == t[i].length
  <1>1. /\ a \in Nat /\ a + n <= Len(x)
        /\ \A p \in 1 .. Len(x) : x[p].of = i <=> p \in a + 1 .. a + n
    BY Zenon DEF At
  <1>2. /\ b \in Nat /\ b + n <= Len(x)
        /\ \A p \in 1 .. Len(x) : x[p].of = i <=> p \in b + 1 .. b + n
    BY Zenon DEF At
  <1>3. n \in 1 .. 4
    OBVIOUS
  <1> HIDE DEF n
  <1>4. /\ a + 1 \in 1 .. Len(x) /\ a + 1 \in a + 1 .. a + n
        /\ b + 1 \in 1 .. Len(x) /\ b + 1 \in b + 1 .. b + n
    BY <1>1, <1>2, <1>3
  <1>5. a + 1 \in b + 1 .. b + n /\ b + 1 \in a + 1 .. a + n
    BY <1>1, <1>2, <1>4, Zenon
  <1> QED BY <1>1, <1>2, <1>5

\* After the bytes of a character that is not cut, or after a byte of none, no
\* whole character is cut.
LEMMA StillNoStraddle ==
    ASSUME NEW t, NEW s, NEW h, NEW off, NEW x, Setting(t, s, h, off, x),
           NEW c \in 1 .. Len(x), x[c].of \notin WholeIn(t, x)
    PROVE  NoStraddle(t, x, c)
  <1> SUFFICES ASSUME NEW i \in WholeIn(t, x), NEW a \in Nat, At(t, x, i, a),
                      a < c, c < a + t[i].length
               PROVE  FALSE
    BY Zenon DEF NoStraddle
  <1> DEFINE n == t[i].length
  <1>1. n \in 1 .. 4
    BY WholeHas
  <1>2. \A p \in 1 .. Len(x) : x[p].of = i <=> p \in a + 1 .. a + n
    BY Zenon DEF At
  <1>3. c < a + n
    OBVIOUS
  <1> HIDE DEF n
  <1>4. c \in a + 1 .. a + n
    BY <1>1, <1>3
  <1>5. x[c].of = i
    BY <1>2, <1>4, Zenon
  <1> QED BY <1>5

\* Where the scan meets a whole character it decodes that character.
LEMMA ScanWhole ==
    ASSUME NEW t, NEW s, NEW h, NEW off, NEW x, Setting(t, s, h, off, x),
           NEW q \in Nat, q < Len(x), NoStraddle(t, x, q), x[q + 1].of \in WholeIn(t, x)
    PROVE  LET i == x[q + 1].of
               n == t[i].length
           IN  /\ i \in 1 .. Len(t) /\ n \in 1 .. 4 /\ q + n <= Len(x)
               /\ t[i].announced = n
               /\ \A p \in 1 .. Len(x) : x[p].of = i <=> p \in q + 1 .. q + n
               /\ RuneAt(x, q + 1)
               /\ x[q + 1].announced = n
               /\ DecodeRune(SubSeq(x, q + 1, Len(x))) = [traits |-> Traits(t[i].class), size |-> n]
               /\ NoStraddle(t, x, q + n)
  <1> DEFINE i == x[q + 1].of
             n == t[i].length
             m == Len(x)
             d == SubSeq(x, q + 1, m)
             u == SubSeq(x, q + 1, q + n)
  <1>1. i \in 1 .. Len(t) /\ t[i].announced = n /\ n \in 1 .. 4 /\ \E a \in Nat : At(t, x, i, a)
    BY WholeHas
  <1>2. PICK a \in Nat : At(t, x, i, a)
    BY <1>1, Zenon
  <1>3. m \in Nat /\ x \in Seq(Byte)
    BY DrawnBytes, Zenon DEF Setting, Drawn
  <1>4. ~(a < q /\ q < a + n)
    BY <1>2, Zenon DEF NoStraddle
  <1> HIDE DEF m
  <1>5. q + 1 \in 1 .. m
    BY <1>3 DEF m
  <1>6. a = q
    <2>1. \A p \in 1 .. m : x[p].of = i <=> p \in a + 1 .. a + n
      BY <1>2, Zenon DEF At, m
    <2>2. q + 1 \in a + 1 .. a + n
      BY <1>5, <2>1
    <2> HIDE DEF n
    <2> QED BY <1>1, <1>4, <2>2
  <1>7. At(t, x, i, q)
    BY <1>2, <1>6, Zenon
  <1>8. /\ q + n <= m
        /\ \A p \in 1 .. m : x[p].of = i <=> p \in q + 1 .. q + n
        /\ \A k \in 1 .. n : /\ q + k \in 1 .. m /\ x[q + k].of = i /\ x[q + k].class = t[i].class
                             /\ x[q + k].announced = IF k = 1 THEN t[i].announced ELSE 0
    BY <1>7, Zenon DEF At, m
  <1> HIDE DEF n, i
  <1>9. x[q + 1].announced = n /\ x[q + 1].class = t[i].class
    <2>1. 1 \in 1 .. n
      BY <1>1
    <2> QED BY <1>1, <1>8, <2>1, Zenon
  <1>10. u \in Seq(Byte) /\ Len(u) = n /\ DOMAIN u = 1 .. n /\ \A k \in 1 .. n : u[k] = x[q + k]
    <2>1. /\ q + 1 \in 1 .. Len(x) + 1 /\ q + n \in 0 .. Len(x) /\ q + 1 <= (q + n) + 1
          /\ (q + n) - (q + 1) + 1 = n
      BY <1>1, <1>3, <1>5, <1>8 DEF m
    <2>2. u \in Seq(Byte) /\ Len(u) = (q + n) - (q + 1) + 1 /\ DOMAIN u = 1 .. (q + n) - (q + 1) + 1
          /\ \A k \in 1 .. (q + n) - (q + 1) + 1 : u[k] = x[(q + 1) + k - 1]
      BY <1>3, <2>1, PartOf
    <2> HIDE DEF u
    <2>3. \A k \in 1 .. n : (q + 1) + k - 1 = q + k
      BY <1>1
    <2>4. \A k \in 1 .. n : u[k] = x[(q + 1) + k - 1]
      BY <2>1, <2>2, Zenon
    <2> QED BY <2>1, <2>2, <2>3, <2>4, Zenon
  <1> HIDE DEF u
  <1>11. (\A k \in DOMAIN u : u[k].of = i) /\ u[1].of = i /\ u[1].class = t[i].class
    <2>1. 1 \in 1 .. n
      BY <1>1
    <2>2. \A k \in 1 .. n : u[k].of = i
      BY <1>8, <1>10
    <2>3. u[1] = x[q + 1]
      BY <1>10, <2>1, Zenon
    <2> QED BY <1>9, <1>10, <2>1, <2>2, <2>3
  <1>12. Fit(u)
    BY <1>11, Zenon DEF Fit
  <1>13. RuneAt(x, q + 1)
    <2>1. \A k \in 2 .. n : x[(q + 1) + k - 1].announced = 0
      <3>1. \A k \in 2 .. n : k \in 1 .. n /\ k # 1 /\ (q + 1) + k - 1 = q + k
        BY <1>1
      <3> QED BY <1>8, <3>1
    <2>2. n > 0 /\ (q + 1) + n - 1 <= m /\ (q + 1) + n - 1 = q + n
      BY <1>1, <1>8
    <2>3. RuneAt(x, q + 1) <=> /\ n > 0 /\ (q + 1) + n - 1 <= m
                               /\ \A k \in 2 .. n : x[(q + 1) + k - 1].announced = 0
                               /\ Fit(SubSeq(x, q + 1, (q + 1) + n - 1))
      BY <1>3, <1>5, <1>9, RuneMeans DEF m
    <2> QED BY <1>12, <2>1, <2>2, <2>3, Zenon DEF u
  <1>14. DecodeRune(d) = [traits |-> Traits(t[i].class), size |-> n]
    <2>1. /\ d[1] = x[q + 1] /\ RuneAt(d, 1) <=> RuneAt(x, q + 1)
          /\ \A k \in 0 .. m - q : SubSeq(d, 1, k) = SubSeq(x, q + 1, q + k)
      BY <1>3, RestOf DEF m
    <2> HIDE DEF d
    <2>2. n \in 0 .. m - q
      BY <1>1, <1>3, <1>5, <1>8
    <2>3. SubSeq(d, 1, n) = u /\ d[1].announced = n /\ RuneAt(d, 1)
      BY <1>9, <1>13, <2>1, <2>2 DEF u
    <2>4. ClassOf(u) = t[i].class
      BY <1>11, Zenon DEF ClassOf
    <2> QED BY <2>3, <2>4, Zenon DEF DecodeRune
  <1>15. NoStraddle(t, x, q + n)
    <2> SUFFICES ASSUME NEW j \in WholeIn(t, x), NEW b \in Nat, At(t, x, j, b),
                        b < q + n, q + n < b + t[j].length
                 PROVE  FALSE
      BY Zenon DEF NoStraddle
    <2> DEFINE l == t[j].length
    <2>1. l \in 1 .. 4
      BY WholeHas
    <2>2. \A p \in 1 .. m : x[p].of = j <=> p \in b + 1 .. b + l
      BY Zenon DEF At, m
    <2>3. q + n < b + l
      OBVIOUS
    <2> HIDE DEF l
    <2>4. q + n \in 1 .. m /\ q + n \in b + 1 .. b + l /\ q + n \in q + 1 .. q + n
      BY <1>1, <1>3, <1>8, <2>1, <2>3
    <2>5. i = j
      BY <1>8, <2>2, <2>4, Zenon
    <2>6. b = q
      BY <1>1, <1>3, <1>7, <2>5, OnePlace DEF m, n
    <2>7. l = n
      BY <2>5 DEF l, n
    <2> QED BY <1>1, <2>3, <2>6, <2>7
  <1> QED BY <1>1, <1>8, <1>9, <1>13, <1>14, <1>15, Zenon DEF i, n, d, m

\* A text with the characters CharsetAssumption allows.
TextOK(t) ==
    /\ t \in Seq(Character)
    /\ \A i \in 1 .. Len(t) :
         t[i].announced # 0 => t[i].length <= t[i].announced /\ t[i].class \in Classes
    /\ \A i \in 2 .. Len(t) : t[i].announced = 0 => t[i - 1].announced <= t[i - 1].length

\* What the scan takes for a rune and is no whole character crosses the seam:
\* where the bytes are those of the text, a character that lacks some is
\* followed by the first byte of another.
LEMMA LooseCrosses ==
    ASSUME NEW t, NEW s, NEW h, NEW off, NEW x, Setting(t, s, h, off, x), TextOK(t),
           NEW q \in Nat, q < Len(x), x[q + 1].of \notin WholeIn(t, x),
           NEW n \in 1 .. 4, x[q + 1].announced = n, q + n <= Len(x),
           \A k \in 2 .. n : x[q + k].announced = 0
    PROVE  q < h /\ h < q + n
  <1> DEFINE i == x[q + 1].of
             l == t[i].length
             m == Len(x)
             at(p) == Place(h, off, p)
  <1>1. m \in Nat /\ q + 1 \in 1 .. m /\ h \in Nat /\ off \in Nat
    BY DrawnBytes DEF Setting, Shift
  <1>2. i \in 1 .. Len(t) /\ Len(t) \in Nat
    BY <1>1, DrawnBytes, Characters DEF TextOK
  <1>3. at(q + 1) = s[i] + 1 /\ t[i].announced = n
    <2>1. x[q + 1].announced = IF at(q + 1) = s[i] + 1 THEN t[i].announced ELSE 0
      BY <1>1, DrawnBytes
    <2>2. x[q + 1].announced # 0
      OBVIOUS
    <2> QED BY <2>1, <2>2, Zenon
  <1> HIDE DEF i
  <1>4. l \in 1 .. 4 /\ s[i] \in Nat /\ s[i + 1] = s[i] + l
    <2>1. l \in 1 .. 4
      BY <1>2, Extent
    <2>2. s[i] \in Nat /\ s[i + 1] = s[i] + l
      BY <1>2, Extent, Zenon
    <2> QED BY <2>1, <2>2
  <1>5. l <= n
    <2>1. t[i].announced # 0
      BY <1>3
    <2> QED BY <1>2, <1>3, <2>1 DEF TextOK
  <1> HIDE DEF i, l, m, at
  <1> SUFFICES ASSUME ~(q < h /\ h < q + n) PROVE FALSE
    OBVIOUS
  <1>6. ASSUME NEW k \in 1 .. n PROVE at(q + k) = s[i] + k
    <2>1. at(q + k) = at(q + 1) + (k - 1)
      <3>1. CASE h <= q
        BY <1>1, <3>1 DEF at, Place
      <3>2. CASE q + n <= h
        BY <1>1, <3>2 DEF at, Place
      <3> QED BY <1>1, <3>1, <3>2
    <2> QED BY <1>3, <1>4, <2>1
  <1>7. CASE l = n
    <2>1. RunAt(h, off, l, s[i], m, q)
      BY <1>6, <1>7, Zenon DEF RunAt, at, m
    <2>2. Lies(t, s, h, off, x, i, q)
      BY <2>1, Zenon DEF Lies, l, m
    <2>3. t[i].announced = t[i].length
      BY <1>3, <1>7, Zenon DEF l
    <2>4. i \in WholeIn(t, x)
      BY <1>2, <2>2, <2>3, WholeLies, Zenon
    <2> QED BY <2>4, Zenon DEF i
  <1>8. CASE l < n
    <2> DEFINE p == q + (l + 1)
               j == x[p].of
    <2>1. l + 1 \in 2 .. n /\ l + 1 \in 1 .. n /\ p \in 1 .. m
      BY <1>1, <1>4, <1>8 DEF m
    <2>2. at(p) = s[i + 1] + 1
      <3>1. at(p) = s[i] + (l + 1)
        BY <1>6, <2>1, Zenon
      <3> QED BY <1>4, <3>1
    <2>3. /\ j \in 1 .. Len(t) /\ x[p].announced = 0
          /\ x[p].announced = IF at(p) = s[j] + 1 THEN t[j].announced ELSE 0
          /\ s[j] < at(p) /\ at(p) <= s[j + 1]
      <3>1. j \in 1 .. Len(t) /\ x[p].announced = IF at(p) = s[j] + 1 THEN t[j].announced ELSE 0
        BY <2>1, DrawnBytes DEF at, m
      <3>2. s[j] < at(p) /\ at(p) <= s[j + 1]
        BY <2>1, <3>1, ByteOf DEF at, m
      <3>3. x[p].announced = 0
        BY <2>1, Zenon
      <3> QED BY <3>1, <3>2, <3>3, Zenon
    <2> HIDE DEF j, p
    <2>4. t \in Seq(Character) /\ Starts(t, s)
      BY Zenon DEF Setting
    <2>5. /\ \A a, b \in 1 .. Len(t) + 1 : a <= b => s[a] <= s[b]
          /\ \A a \in 1 .. Len(t) + 1 : s[a] \in Nat
      BY <2>4, StartsInOrder, Zenon
    <2>6. /\ i + 1 \in 1 .. Len(t) + 1 /\ j \in 1 .. Len(t) + 1 /\ j + 1 \in 1 .. Len(t) + 1
          /\ i \in Nat /\ j \in Nat
      BY <1>2, <2>3
    <2>7. s[i + 1] \in Nat /\ s[j] \in Nat /\ s[j + 1] \in Nat
      BY <2>5, <2>6
    <2>8. ~(j <= i)
      <3> SUFFICES ASSUME j <= i PROVE FALSE
        OBVIOUS
      <3>1. j + 1 <= i + 1
        BY <2>6
      <3>2. s[j + 1] <= s[i + 1]
        BY <2>5, <2>6, <3>1, Zenon
      <3> QED BY <2>2, <2>3, <2>7, <3>2
    <2>9. ~(i + 1 < j)
      <3> SUFFICES ASSUME i + 1 < j PROVE FALSE
        OBVIOUS
      <3>1. i + 1 \in 1 .. Len(t) /\ (i + 1) + 1 \in 1 .. Len(t) + 1 /\ (i + 1) + 1 <= j
        BY <1>2, <2>3, <2>6
      <3>2. s[(i + 1) + 1] <= s[j]
        BY <2>5, <2>6, <3>1, Zenon
      <3>3. t[i + 1].length \in 1 .. 4 /\ s[(i + 1) + 1] = s[i + 1] + t[i + 1].length
        BY <3>1, Extent
      <3>4. \A a, b \in Nat, k \in 1 .. 4 : \A e : e = a + k /\ e <= b => ~(b < a + 1)
        OBVIOUS
      <3> QED BY <2>2, <2>3, <2>7, <3>2, <3>3, <3>4, Zenon
    <2>10. j = i + 1
      BY <2>6, <2>8, <2>9
    <2>11. t[j].announced = 0
      BY <2>2, <2>3, <2>10, Zenon
    <2>12. j \in 2 .. Len(t) /\ j - 1 = i
      BY <1>2, <2>3, <2>10
    <2>13. t[i].announced <= t[i].length
      BY <2>11, <2>12 DEF TextOK
    <2> QED BY <1>3, <1>4, <1>8, <2>13 DEF l
  <1> QED BY <1>4, <1>5, <1>7, <1>8

\* Where the scan meets a byte of no whole character it decodes one byte as a
\* stray one, or bytes across the seam, none of a whole character.
LEMMA ScanLoose ==
    ASSUME NEW t, NEW s, NEW h, NEW off, NEW x, Setting(t, s, h, off, x), TextOK(t),
           input.seam \in Classes \cup {"stray"},
           NEW q \in Nat, q < Len(x), x[q + 1].of \notin WholeIn(t, x)
    PROVE  LET rune == DecodeRune(SubSeq(x, q + 1, Len(x)))
               n == x[q + 1].announced
           IN  \/ /\ ~RuneAt(x, q + 1)
                  /\ rune = [traits |-> Stray, size |-> 1]
                  /\ NoStraddle(t, x, q + 1)
               \/ /\ RuneAt(x, q + 1)
                  /\ n \in 1 .. 4 /\ q + n <= Len(x)
                  /\ \E class \in Classes : rune = [traits |-> Traits(class), size |-> n]
                  /\ \A r \in q + 1 .. q + n : x[r].of \notin WholeIn(t, x)
                  /\ q < h /\ h < q + n
                  /\ NoStraddle(t, x, q + n)
  <1> DEFINE m == Len(x)
             d == SubSeq(x, q + 1, m)
             n == x[q + 1].announced
             u == SubSeq(x, q + 1, q + n)
  <1>1. m \in Nat /\ x \in Seq(Byte) /\ q + 1 \in 1 .. m
    BY DrawnBytes DEF Setting, Drawn
  <1>2. /\ d[1] = x[q + 1] /\ RuneAt(d, 1) <=> RuneAt(x, q + 1)
        /\ \A k \in 0 .. m - q : SubSeq(d, 1, k) = SubSeq(x, q + 1, q + k)
    BY <1>1, RestOf
  <1> HIDE DEF d
  <1>3. CASE ~RuneAt(x, q + 1)
    <2>1. DecodeRune(d) = [traits |-> Stray, size |-> 1]
      <3>1. ~RuneAt(d, 1)
        BY <1>2, <1>3
      <3> QED BY <3>1, Zenon DEF DecodeRune
    <2>2. NoStraddle(t, x, q + 1)
      BY <1>1, StillNoStraddle
    <2> QED BY <1>3, <2>1, <2>2, Zenon DEF d, m
  <1>4. CASE RuneAt(x, q + 1)
    <2>1. /\ n \in 0 .. 4 /\ n > 0 /\ (q + 1) + n - 1 <= m
          /\ \A k \in 2 .. n : x[(q + 1) + k - 1].announced = 0
          /\ Fit(SubSeq(x, q + 1, (q + 1) + n - 1))
      BY <1>1, <1>4, RuneMeans
    <2> HIDE DEF n, u
    <2>2. /\ n \in 1 .. 4 /\ q + n <= m /\ (q + 1) + n - 1 = q + n
          /\ \A k \in 2 .. n : (q + 1) + k - 1 = q + k
      BY <1>1, <2>1
    <2>3. \A k \in 2 .. n : x[q + k].announced = 0
      BY <2>1, <2>2, Zenon
    <2>4. q < h /\ h < q + n
      <3>1. x[q + 1].announced = n
        BY DEF n
      <3> QED BY <2>2, <2>3, <3>1, LooseCrosses DEF m
    <2>5. Fit(u)
      BY <2>1, <2>2, Zenon DEF u
    <2>6. /\ Len(u) = n /\ DOMAIN u = 1 .. n
          /\ \A k \in 1 .. n : u[k] = x[(q + 1) + k - 1]
      <3>1. /\ q + 1 \in 1 .. Len(x) + 1 /\ q + n \in 0 .. Len(x) /\ q + 1 <= (q + n) + 1
            /\ (q + n) - (q + 1) + 1 = n
        BY <1>1, <2>2 DEF m
      <3>2. Len(u) = (q + n) - (q + 1) + 1 /\ DOMAIN u = 1 .. (q + n) - (q + 1) + 1
            /\ \A k \in 1 .. (q + n) - (q + 1) + 1 : u[k] = x[(q + 1) + k - 1]
        BY <1>1, <3>1, PartOf DEF u
      <3> QED BY <3>1, <3>2, Zenon
    <2>7. u[1] = x[q + 1]
      <3>1. 1 \in 1 .. n /\ (q + 1) + 1 - 1 = q + 1
        BY <1>1, <2>2
      <3> QED BY <2>6, <3>1, Zenon
    <2>8. ClassOf(u) \in Classes
      <3>1. CASE \A k \in DOMAIN u : u[k].of = u[1].of
        <4> DEFINE i == x[q + 1].of
        <4>1. i \in 1 .. Len(t) /\ x[q + 1].class = t[i].class
              /\ x[q + 1].announced = IF Place(h, off, q + 1) = s[i] + 1 THEN t[i].announced ELSE 0
          BY <1>1, DrawnBytes
        <4>2. x[q + 1].announced # 0
          BY <2>1 DEF n
        <4>3. t[i].announced # 0
          BY <4>1, <4>2, Zenon
        <4>4. t[i].class \in Classes
          BY <4>1, <4>3 DEF TextOK
        <4>5. ClassOf(u) = u[1].class
          BY <3>1, Zenon DEF ClassOf
        <4> QED BY <2>7, <4>1, <4>4, <4>5
      <3>2. CASE ~(\A k \in DOMAIN u : u[k].of = u[1].of)
        <4>1. ClassOf(u) = input.seam
          BY <3>2, Zenon DEF ClassOf
        <4>2. input.seam # "stray"
          BY <2>5, <3>2, Zenon DEF Fit
        <4> QED BY <4>1, <4>2
      <3> QED BY <3>1, <3>2
    <2>9. DecodeRune(d) = [traits |-> Traits(ClassOf(u)), size |-> n]
      <3>1. n \in 0 .. m - q
        BY <1>1, <2>2
      <3>2. SubSeq(d, 1, n) = u /\ d[1].announced = n /\ RuneAt(d, 1)
        BY <1>2, <1>4, <3>1 DEF u, n
      <3> QED BY <3>2, Zenon DEF DecodeRune
    <2>10. ASSUME NEW r \in q + 1 .. q + n PROVE x[r].of \notin WholeIn(t, x)
      <3> SUFFICES ASSUME x[r].of \in WholeIn(t, x) PROVE FALSE
        OBVIOUS
      <3> DEFINE j == x[r].of
                 l == t[j].length
      <3>1. t[j].announced = l /\ l \in 1 .. 4 /\ \E b \in Nat : At(t, x, j, b)
        BY WholeHas
      <3>2. PICK b \in Nat : At(t, x, j, b)
        BY <3>1, Zenon
      <3>3. /\ b + l <= m /\ \A p \in 1 .. m : x[p].of = j <=> p \in b + 1 .. b + l
            /\ \A k \in 1 .. l : x[b + k].announced = IF k = 1 THEN t[j].announced ELSE 0
        BY <3>2, Zenon DEF At, m
      <3>4. x[r].of = j
        OBVIOUS
      <3> HIDE DEF j, l
      <3>5. r \in 1 .. m
        BY <1>1, <2>2
      <3>6. r \in b + 1 .. b + l
        BY <3>3, <3>4, <3>5, Zenon
      <3>7. x[b + 1].announced = l
        <4>1. 1 \in 1 .. l
          BY <3>1
        <4> QED BY <3>1, <3>3, <4>1, Zenon
      <3>8. CASE b + 1 <= q + 1
        <4>1. q + 1 \in b + 1 .. b + l
          BY <2>2, <3>1, <3>6, <3>8
        <4>2. x[q + 1].of = j
          BY <1>1, <3>3, <4>1, Zenon
        <4> QED BY <3>4, <4>2
      <3>9. CASE ~(b + 1 <= q + 1)
        <4>1. (b + 1) - q \in 2 .. n /\ q + ((b + 1) - q) = b + 1
          BY <2>2, <3>1, <3>6, <3>9
        <4>2. x[b + 1].announced = 0
          BY <2>3, <4>1
        <4> QED BY <3>1, <3>7, <4>2
      <3> QED BY <3>8, <3>9
    <2>11. NoStraddle(t, x, q + n)
      <3>1. q + n \in 1 .. Len(x) /\ q + n \in q + 1 .. q + n
        BY <1>1, <2>2 DEF m
      <3>2. x[q + n].of \notin WholeIn(t, x)
        BY <2>10, <3>1
      <3> QED BY <3>1, <3>2, StillNoStraddle
    <2> QED BY <1>4, <2>2, <2>4, <2>8, <2>9, <2>10, <2>11, Zenon DEF d, m, n
  <1> QED BY <1>3, <1>4

-----------------------------------------------------------------------------
\* Of the first q bytes: the whole characters they are of, those with a trait,
\* and the bytes of no whole character.
Passed(t, x, q) == {i \in WholeIn(t, x) : \E p \in 1 .. q : x[p].of = i}
With(t, x, q, c) == {i \in Passed(t, x, q) : c \in Traits(t[i].class)}
Loose(t, x, q) == {p \in 1 .. q : x[p].of \notin WholeIn(t, x)}

\* They are finite.
LEMMA Sizes ==
    ASSUME NEW t \in Seq(Character), NEW x, NEW q \in Nat
    PROVE  /\ IsFiniteSet(Passed(t, x, q)) /\ Cardinality(Passed(t, x, q)) \in Nat
           /\ IsFiniteSet(Loose(t, x, q)) /\ Cardinality(Loose(t, x, q)) \in Nat
           /\ \A c : IsFiniteSet(With(t, x, q, c)) /\ Cardinality(With(t, x, q, c)) \in Nat
  <1>1. DOMAIN t = 1 .. Len(t) /\ Len(t) \in Nat
    BY Characters
  <1>2. \A n \in Nat : IsFiniteSet(1 .. n)
    <2> SUFFICES ASSUME NEW n \in Nat PROVE IsFiniteSet(1 .. n)
      OBVIOUS
    <2>1. 1 \in Int /\ n \in Int
      OBVIOUS
    <2> QED BY <2>1, FS_Interval, Zenon
  <1>3. \A S, n : S \subseteq 1 .. n /\ n \in Nat => IsFiniteSet(S) /\ Cardinality(S) \in Nat
    BY <1>2, FS_Subset, FS_CardinalityType, Zenon
  <1>4. Passed(t, x, q) \subseteq 1 .. Len(t)
    BY <1>1, Zenon DEF Passed, WholeIn
  <1>5. \A c : With(t, x, q, c) \subseteq 1 .. Len(t)
    BY <1>4, Zenon DEF With
  <1>6. Loose(t, x, q) \subseteq 1 .. q
    BY Zenon DEF Loose
  <1> QED BY <1>1, <1>3, <1>4, <1>5, <1>6, Zenon

\* Of the first m bytes, those of a character are the n after the q-th.
BytesAre(x, i, q, n, m) == \A p \in 1 .. m : x[p].of = i <=> p \in q + 1 .. q + n

\* A whole character more has passed.
LEMMA PassWhole ==
    ASSUME NEW t \in Seq(Character), NEW x, NEW i \in WholeIn(t, x), NEW q \in Nat,
           NEW n \in 1 .. 4, NEW m \in Nat, q + n <= m,
           BytesAre(x, i, q, n, m)
    PROVE  /\ Cardinality(Passed(t, x, q + n)) = Cardinality(Passed(t, x, q)) + 1
           /\ Cardinality(Loose(t, x, q + n)) = Cardinality(Loose(t, x, q))
           /\ \A c : Cardinality(With(t, x, q + n, c))
                       = Cardinality(With(t, x, q, c)) + IF c \in Traits(t[i].class) THEN 1 ELSE 0
  <1>1. /\ \A p \in 1 .. q + n : p \in 1 .. m /\ (p \in 1 .. q \/ p \in q + 1 .. q + n)
        /\ \A p \in 1 .. q : p \in 1 .. q + n /\ p \in 1 .. m /\ p \notin q + 1 .. q + n
        /\ q + 1 \in q + 1 .. q + n /\ q + 1 \in 1 .. q + n /\ q + 1 \in 1 .. m
        /\ q + n \in Nat
    OBVIOUS
  <1>2. x[q + 1].of = i
    BY <1>1, Zenon DEF BytesAre
  <1>3. \A p \in 1 .. q : x[p].of # i
    BY <1>1, Zenon DEF BytesAre
  <1>4. \A p \in 1 .. q + n : p \in 1 .. q \/ x[p].of = i
    BY <1>1, Zenon DEF BytesAre
  <1>5. i \notin Passed(t, x, q)
    BY <1>3, Zenon DEF Passed
  <1>6. Passed(t, x, q + n) = Passed(t, x, q) \cup {i}
    <2>1. ASSUME NEW j \in Passed(t, x, q + n) PROVE j \in Passed(t, x, q) \cup {i}
      BY <1>4, <2>1, Zenon DEF Passed
    <2>2. ASSUME NEW j \in Passed(t, x, q) \cup {i} PROVE j \in Passed(t, x, q + n)
      <3>1. j \in WholeIn(t, x)
        BY <2>2, Zenon DEF Passed
      <3>2. \E p \in 1 .. q + n : x[p].of = j
        <4>1. CASE j = i
          BY <1>1, <1>2, <4>1
        <4>2. CASE j \in Passed(t, x, q)
          BY <1>1, <4>2, Zenon DEF Passed
        <4> QED BY <2>2, <4>1, <4>2
      <3> QED BY <3>1, <3>2, Zenon DEF Passed
    <2> QED BY <2>1, <2>2, Zenon
  <1>7. Loose(t, x, q + n) = Loose(t, x, q)
    <2>1. ASSUME NEW p \in Loose(t, x, q + n) PROVE p \in Loose(t, x, q)
      BY <1>4, <2>1, Zenon DEF Loose
    <2>2. ASSUME NEW p \in Loose(t, x, q) PROVE p \in Loose(t, x, q + n)
      BY <1>1, <2>2, Zenon DEF Loose
    <2> QED BY <2>1, <2>2, Zenon
  <1>8. \A S, j : IsFiniteSet(S) /\ j \notin S => Cardinality(S \cup {j}) = Cardinality(S) + 1
    BY FS_AddElement, Zenon
  <1>9. ASSUME NEW c
        PROVE  Cardinality(With(t, x, q + n, c))
                 = Cardinality(With(t, x, q, c)) + IF c \in Traits(t[i].class) THEN 1 ELSE 0
    <2>1. Cardinality(With(t, x, q, c)) \in Nat /\ IsFiniteSet(With(t, x, q, c))
      BY Sizes, Zenon
    <2>2. CASE c \in Traits(t[i].class)
      <3>1. With(t, x, q + n, c) = With(t, x, q, c) \cup {i}
        BY <1>6, <2>2, Zenon DEF With
      <3>2. i \notin With(t, x, q, c)
        BY <1>5, Zenon DEF With
      <3> QED BY <1>8, <2>1, <2>2, <3>1, <3>2, Zenon
    <2>3. CASE c \notin Traits(t[i].class)
      <3>1. With(t, x, q + n, c) = With(t, x, q, c)
        BY <1>6, <2>3, Zenon DEF With
      <3>2. \A k \in Nat : k = k + 0
        OBVIOUS
      <3> QED BY <2>1, <2>3, <3>1, <3>2, Zenon
    <2> QED BY <2>2, <2>3, Zenon
  <1>10. Cardinality(Passed(t, x, q + n)) = Cardinality(Passed(t, x, q)) + 1
    BY <1>5, <1>6, <1>8, Sizes, Zenon
  <1> QED BY <1>7, <1>9, <1>10, Zenon

\* Bytes of no whole character have passed.
LEMMA PassLoose ==
    ASSUME NEW t \in Seq(Character), NEW x, NEW q \in Nat, NEW n \in 1 .. 4,
           \A r \in q + 1 .. q + n : x[r].of \notin WholeIn(t, x)
    PROVE  /\ Passed(t, x, q + n) = Passed(t, x, q)
           /\ \A c : With(t, x, q + n, c) = With(t, x, q, c)
           /\ Cardinality(Loose(t, x, q + n)) >= Cardinality(Loose(t, x, q)) + 1
           /\ n = 1 => Cardinality(Loose(t, x, q + n)) = Cardinality(Loose(t, x, q)) + 1
  <1>1. /\ \A p \in 1 .. q + n : p \in 1 .. q \/ p \in q + 1 .. q + n
        /\ \A p \in 1 .. q : p \in 1 .. q + n
        /\ q + 1 \in q + 1 .. q + n /\ q + 1 \in 1 .. q + n /\ q + 1 \notin 1 .. q
        /\ q + n \in Nat /\ (n = 1 => q + 1 .. q + n = {q + 1})
    OBVIOUS
  <1>2. Passed(t, x, q + n) = Passed(t, x, q)
    <2>1. ASSUME NEW j \in Passed(t, x, q + n) PROVE j \in Passed(t, x, q)
      BY <1>1, <2>1, Zenon DEF Passed
    <2>2. ASSUME NEW j \in Passed(t, x, q) PROVE j \in Passed(t, x, q + n)
      BY <1>1, <2>2, Zenon DEF Passed
    <2> QED BY <2>1, <2>2, Zenon
  <1>3. \A c : With(t, x, q + n, c) = With(t, x, q, c)
    BY <1>2, Zenon DEF With
  <1>4. IsFiniteSet(Loose(t, x, q)) /\ IsFiniteSet(Loose(t, x, q + n))
    BY <1>1, Sizes, Zenon
  <1>5. q + 1 \notin Loose(t, x, q)
    BY <1>1, Zenon DEF Loose
  <1>6. Loose(t, x, q) \cup {q + 1} \subseteq Loose(t, x, q + n)
    BY <1>1, Zenon DEF Loose
  <1>7. Cardinality(Loose(t, x, q) \cup {q + 1}) = Cardinality(Loose(t, x, q)) + 1
    BY <1>4, <1>5, FS_AddElement, Zenon
  <1>8. Cardinality(Loose(t, x, q) \cup {q + 1}) <= Cardinality(Loose(t, x, q + n))
    BY <1>4, <1>6, FS_Subset, Zenon
  <1>9. ASSUME n = 1 PROVE Loose(t, x, q + n) = Loose(t, x, q) \cup {q + 1}
    <2>1. ASSUME NEW p \in Loose(t, x, q + n) PROVE p \in Loose(t, x, q) \cup {q + 1}
      BY <1>1, <1>9, <2>1, Zenon DEF Loose
    <2> QED BY <1>6, <2>1, Zenon
  <1>10. Cardinality(Loose(t, x, q)) \in Nat /\ Cardinality(Loose(t, x, q + n)) \in Nat
    BY <1>1, Sizes, Zenon
  <1>11. Cardinality(Loose(t, x, q + n)) >= Cardinality(Loose(t, x, q)) + 1
    BY <1>7, <1>8, <1>10
  <1> QED BY <1>2, <1>3, <1>7, <1>9, <1>11, Zenon

-----------------------------------------------------------------------------
\* The counters that CountsMatchText takes the traits for, and the counters
\* after a rune.
Asked ==
    Counters \ ({"totalChars", "control"}
                  \cup (IF input.confusable THEN {} ELSE {"confusable"})
                  \cup (IF input.confusable \/ input.scripts THEN {} ELSE Scripts))

CountsAfter(k, traits) == [c \in Counters |-> k[c] + IF c \in Adds(traits) THEN 1 ELSE 0]

\* A look-alike character is of a script that is counted.
LEMMA ConfusablesAreCyrillic ==
    ASSUME NEW traits, traits = Stray \/ \E class \in Classes : traits = Traits(class)
    PROVE  "confusable" \in traits => "cyrillic" \in traits
  <1>1. CASE traits = Stray
    BY <1>1 DEF Stray
  <1>2. ASSUME NEW class \in Classes PROVE "confusable" \in Traits(class) => "cyrillic" \in Traits(class)
    <2>1. CASE class = "cyrillic a"
      BY <2>1 DEF Traits
    <2>2. CASE class # "cyrillic a"
      BY <2>2 DEF Traits, Classes
    <2> QED BY <2>1, <2>2
  <1> QED BY <1>1, <1>2, Zenon

\* What a rune adds.
LEMMA CountedIs ==
    ASSUME NEW k \in [Counters -> Nat], NEW traits,
           "confusable" \in traits => "cyrillic" \in traits
    PROVE  LET new == CountsAfter(k, traits)
           IN  /\ new \in [Counters -> Nat]
               /\ \A c \in Asked : /\ c \in Counters
                                   /\ new[c] = k[c] + IF c \in traits THEN 1 ELSE 0
               /\ new["control"] = k["control"] + IF "control" \in traits THEN 1 ELSE 0
               /\ new["totalChars"] = k["totalChars"] + 1
               /\ \A c \in Counters : new[c] <= k[c] + 1
               /\ input.confusable /\ k["confusable"] <= k["cyrillic"]
                    => new["confusable"] <= new["cyrillic"]
  <1> DEFINE new == CountsAfter(k, traits)
  <1>1. {"confusable", "cyrillic", "control", "totalChars"} \subseteq Counters
    BY DEF Counters, Scripts
  <1>2. \A c \in Counters : k[c] \in Nat
    OBVIOUS
  <1>3. \A c \in Counters : new[c] = k[c] + IF c \in Adds(traits) THEN 1 ELSE 0
    BY Zenon DEF CountsAfter
  <1>4. new \in [Counters -> Nat]
    <2>1. \A c \in Counters : k[c] + (IF c \in Adds(traits) THEN 1 ELSE 0) \in Nat
      BY <1>2
    <2> QED BY <2>1, Zenon DEF CountsAfter
  <1>5. \A c \in Asked : c \in Counters /\ (c \in Adds(traits) <=> c \in traits)
    BY DEF Asked, Adds
  <1>6. /\ "control" \in Adds(traits) <=> "control" \in traits
        /\ "totalChars" \in Adds(traits)
        /\ input.confusable /\ "confusable" \in Adds(traits) => "cyrillic" \in Adds(traits)
    BY DEF Adds, Scripts
  <1> HIDE DEF new
  <1>7. \A c \in Asked : c \in Counters /\ new[c] = k[c] + IF c \in traits THEN 1 ELSE 0
    BY <1>3, <1>5, Zenon
  <1>8. \A c \in Counters : new[c] <= k[c] + 1 /\ new[c] \in Nat
    BY <1>2, <1>3
  <1>9. /\ new["control"] = k["control"] + IF "control" \in traits THEN 1 ELSE 0
        /\ new["totalChars"] = k["totalChars"] + 1
    BY <1>1, <1>3, <1>6
  <1>10. ASSUME input.confusable, k["confusable"] <= k["cyrillic"]
         PROVE  new["confusable"] <= new["cyrillic"]
    <2>1. k["confusable"] \in Nat /\ k["cyrillic"] \in Nat
      BY <1>1, <1>2
    <2>2. /\ new["confusable"] = k["confusable"] + IF "confusable" \in Adds(traits) THEN 1 ELSE 0
          /\ new["cyrillic"] = k["cyrillic"] + IF "cyrillic" \in Adds(traits) THEN 1 ELSE 0
      BY <1>1, <1>3
    <2> QED BY <1>6, <1>10, <2>1, <2>2
  <1> QED BY <1>4, <1>7, <1>8, <1>9, <1>10, Zenon DEF new

-----------------------------------------------------------------------------
\* A byte begins a rune or continues one: see Valid.
Covered(x, p) ==
    \/ RuneAt(x, p)
    \/ x[p].announced = 0 /\ \E j \in 1 .. p - 1 : RuneAt(x, j) /\ j + x[j].announced > p

\* A rune covers its bytes.
LEMMA RuneCovers ==
    ASSUME NEW x \in Seq(Byte), NEW q \in Nat, q < Len(x), RuneAt(x, q + 1)
    PROVE  \A p \in q + 1 .. q + x[q + 1].announced : Covered(x, p)
  <1> DEFINE n == x[q + 1].announced
  <1>1. Len(x) \in Nat /\ q + 1 \in 1 .. Len(x)
    BY LenProperties
  <1>2. /\ n \in 0 .. 4 /\ n > 0 /\ (q + 1) + n - 1 <= Len(x)
        /\ \A k \in 2 .. n : x[(q + 1) + k - 1].announced = 0
    BY <1>1, RuneMeans
  <1> HIDE DEF n
  <1>3. ASSUME NEW p \in q + 1 .. q + n PROVE Covered(x, p)
    <2>1. CASE p = q + 1
      BY <2>1, Zenon DEF Covered
    <2>2. CASE p # q + 1
      <3>1. p - q \in 2 .. n /\ (q + 1) + (p - q) - 1 = p /\ q + 1 \in 1 .. p - 1 /\ (q + 1) + n > p
        BY <1>2, <2>2
      <3>2. x[p].announced = 0
        BY <1>2, <3>1
      <3> QED BY <3>1, <3>2, Zenon DEF Covered, n
    <2> QED BY <2>1, <2>2
  <1> QED BY <1>3, Zenon DEF n

\* When all that is there are whole characters it is valid.
LEMMA UnbrokenIsValid ==
    ASSUME NEW t, NEW s, NEW h, NEW off, NEW x, Setting(t, s, h, off, x),
           {x[p].of : p \in DOMAIN x} \subseteq WholeIn(t, x)
    PROVE  Valid(x)
  <1>1. Len(x) \in Nat /\ DOMAIN x = 1 .. Len(x) /\ x \in Seq(Byte)
    BY DrawnBytes, Zenon DEF Setting, Drawn
  <1>2. ASSUME NEW p \in 1 .. Len(x) PROVE Covered(x, p)
    <2> DEFINE i == x[p].of
               n == t[i].length
    <2>1. i \in WholeIn(t, x)
      BY <1>1, Zenon
    <2>2. n \in 1 .. 4 /\ \E a \in Nat : At(t, x, i, a)
      BY <2>1, WholeHas
    <2>3. PICK a \in Nat : At(t, x, i, a)
      BY <2>2, Zenon
    <2>4. /\ a + n <= Len(x)
          /\ \A r \in 1 .. Len(x) : x[r].of = i <=> r \in a + 1 .. a + n
      BY <2>3, Zenon DEF At
    <2>5. x[p].of = i
      OBVIOUS
    <2> HIDE DEF i, n
    <2>6. a + 1 \in 1 .. Len(x) /\ a + 1 \in a + 1 .. a + n /\ a < Len(x)
      BY <1>1, <2>2, <2>4
    <2>7. x[a + 1].of = i
      BY <2>4, <2>6, Zenon
    <2>8. NoStraddle(t, x, a)
      <3> SUFFICES ASSUME NEW j \in WholeIn(t, x), NEW b \in Nat, At(t, x, j, b),
                          b < a, a < b + t[j].length
                   PROVE  FALSE
        BY Zenon DEF NoStraddle
      <3>1. t[j].length \in 1 .. 4
        BY WholeHas
      <3>2. b + t[j].length <= Len(x)
            /\ \A r \in 1 .. Len(x) : x[r].of = j <=> r \in b + 1 .. b + t[j].length
        BY Zenon DEF At
      <3>3. a + 1 \in b + 1 .. b + t[j].length
        BY <3>1
      <3>4. x[a + 1].of = j
        BY <2>6, <3>2, <3>3, Zenon
      <3>5. At(t, x, i, b)
        BY <2>7, <3>4
      <3>6. a = b
        BY <1>1, <2>2, <2>3, <3>5, OnePlace DEF n
      <3> QED BY <3>6
    <2>9. RuneAt(x, a + 1) /\ x[a + 1].announced = n
      <3>1. x[a + 1].of \in WholeIn(t, x)
        BY <2>1, <2>7
      <3>2. RuneAt(x, a + 1)
        BY <2>6, <2>8, <3>1, ScanWhole
      <3>3. 1 \in 1 .. n /\ t[i].announced = n
        BY <2>1, <2>2, WholeHas DEF n
      <3>4. \A k \in 1 .. n : x[a + k].announced = IF k = 1 THEN t[i].announced ELSE 0
        BY <2>3, Zenon DEF At, n
      <3> QED BY <3>2, <3>3, <3>4, Zenon
    <2>10. p \in a + 1 .. a + n
      BY <2>4, <2>5, Zenon
    <2> QED BY <1>1, <2>6, <2>9, <2>10, RuneCovers
  <1> QED BY <1>1, <1>2, Zenon DEF Valid, Covered

-----------------------------------------------------------------------------
\* The counters after the first q bytes: exact as long as nothing was decoded
\* across the seam, which is h bytes from the start, and one off at most then.
TallyWith(t, x, q, h, k, e) ==
    /\ e = 1 => h # 0 /\ h < q
    /\ \A c \in Asked : /\ Cardinality(With(t, x, q, c)) <= k[c]
                        /\ k[c] <= Cardinality(With(t, x, q, c)) + e
    /\ e = 0 => /\ k["control"] = Cardinality(With(t, x, q, "control")) + Cardinality(Loose(t, x, q))
                /\ k["totalChars"] = Cardinality(Passed(t, x, q)) + Cardinality(Loose(t, x, q))
    /\ Cardinality(Passed(t, x, q)) <= k["totalChars"]
    /\ k["totalChars"] <= Cardinality(Passed(t, x, q)) + Cardinality(Loose(t, x, q))

Tally(t, x, q, h, k) == TallyWith(t, x, q, h, k, 0) \/ TallyWith(t, x, q, h, k, 1)

\* Nothing has been counted before the first byte.
LEMMA TallyStart ==
    ASSUME NEW t \in Seq(Character), NEW x, NEW h
    PROVE  Tally(t, x, 0, h, [c \in Counters |-> 0])
  <1>1. Passed(t, x, 0) = {} /\ Loose(t, x, 0) = {} /\ \A c : With(t, x, 0, c) = {}
    <2>1. 1 .. 0 = {}
      OBVIOUS
    <2> QED BY <2>1, Zenon DEF Passed, Loose, With
  <1>2. Cardinality({}) = 0
    BY FS_EmptySet
  <1>3. {"control", "totalChars"} \subseteq Counters /\ Asked \subseteq Counters
    BY DEF Counters, Asked
  <1>4. 0 + 0 = 0 /\ 0 <= 0 /\ 0 # 1
    OBVIOUS
  <1>5. TallyWith(t, x, 0, h, [c \in Counters |-> 0], 0)
    BY <1>1, <1>2, <1>3, <1>4, Zenon DEF TallyWith
  <1> QED BY <1>5 DEF Tally

\* A whole character is counted for each of its traits.
LEMMA TallyWhole ==
    ASSUME NEW t \in Seq(Character), NEW x, NEW q \in Nat, NEW h \in Nat,
           NEW k \in [Counters -> Nat], Tally(t, x, q, h, k),
           NEW i \in WholeIn(t, x), NEW n \in 1 .. 4, NEW m \in Nat, q + n <= m,
           BytesAre(x, i, q, n, m),
           "confusable" \in Traits(t[i].class) => "cyrillic" \in Traits(t[i].class)
    PROVE  Tally(t, x, q + n, h, CountsAfter(k, Traits(t[i].class)))
  <1> DEFINE traits == Traits(t[i].class)
             new == CountsAfter(k, traits)
             one(c) == IF c \in traits THEN 1 ELSE 0
             P0 == Cardinality(Passed(t, x, q))
             P1 == Cardinality(Passed(t, x, q + n))
             L0 == Cardinality(Loose(t, x, q))
             L1 == Cardinality(Loose(t, x, q + n))
             W0(c) == Cardinality(With(t, x, q, c))
             W1(c) == Cardinality(With(t, x, q + n, c))
  <1>1. P1 = P0 + 1 /\ L1 = L0 /\ \A c : W1(c) = W0(c) + one(c)
    <2>1. Cardinality(Passed(t, x, q + n)) = Cardinality(Passed(t, x, q)) + 1
      BY PassWhole
    <2>2. Cardinality(Loose(t, x, q + n)) = Cardinality(Loose(t, x, q))
      BY PassWhole
    <2>3. \A c : Cardinality(With(t, x, q + n, c))
                   = Cardinality(With(t, x, q, c)) + IF c \in Traits(t[i].class) THEN 1 ELSE 0
      BY PassWhole
    <2> QED BY <2>1, <2>2, <2>3, Zenon
  <1>2. P0 \in Nat /\ L0 \in Nat /\ \A c : W0(c) \in Nat
    BY Sizes, Zenon
  <1>3. /\ \A c \in Asked : c \in Counters /\ new[c] = k[c] + one(c)
        /\ new["control"] = k["control"] + one("control")
        /\ new["totalChars"] = k["totalChars"] + 1
    BY CountedIs
  <1>4. \A c : one(c) \in Nat
    OBVIOUS
  <1>5. \A c \in Counters : k[c] \in Nat
    OBVIOUS
  <1>6. "control" \in Counters /\ "totalChars" \in Counters
    BY DEF Counters
  <1> HIDE DEF traits, new, one, P0, P1, L0, L1, W0, W1
  <1>7. ASSUME NEW e \in {0, 1}, TallyWith(t, x, q, h, k, e)
        PROVE  TallyWith(t, x, q + n, h, new, e)
    <2>1. /\ e = 1 => h # 0 /\ h < q
          /\ \A c \in Asked : W0(c) <= k[c] /\ k[c] <= W0(c) + e
          /\ e = 0 => k["control"] = W0("control") + L0 /\ k["totalChars"] = P0 + L0
          /\ P0 <= k["totalChars"] /\ k["totalChars"] <= P0 + L0
      BY <1>7, Zenon DEF TallyWith, P0, L0, W0
    <2>2. e = 1 => h # 0 /\ h < q + n
      BY <2>1
    <2>3. ASSUME NEW c \in Asked PROVE W1(c) <= new[c] /\ new[c] <= W1(c) + e
      <3>1. W1(c) = W0(c) + one(c) /\ new[c] = k[c] + one(c)
            /\ W0(c) <= k[c] /\ k[c] <= W0(c) + e
            /\ W0(c) \in Nat /\ k[c] \in Nat /\ one(c) \in Nat
        BY <1>1, <1>2, <1>3, <1>4, <1>5, <2>1, Zenon
      <3> QED BY <3>1
    <2>4. e = 0 => new["control"] = W1("control") + L1 /\ new["totalChars"] = P1 + L1
      <3>1. /\ W1("control") = W0("control") + one("control") /\ W0("control") \in Nat
            /\ one("control") \in Nat /\ k["control"] \in Nat /\ k["totalChars"] \in Nat
        BY <1>1, <1>2, <1>4, <1>5, <1>6, Zenon
      <3> QED BY <1>1, <1>2, <1>3, <2>1, <3>1
    <2>5. P1 <= new["totalChars"] /\ new["totalChars"] <= P1 + L1
      <3>1. k["totalChars"] \in Nat
        BY <1>5, <1>6, Zenon
      <3> QED BY <1>1, <1>2, <1>3, <2>1, <3>1
    <2> QED BY <2>2, <2>3, <2>4, <2>5, Zenon DEF TallyWith, P1, L1, W1
  <1> QED BY <1>7, Zenon DEF Tally, new, traits

\* A stray byte is counted as a control character.
LEMMA TallyStray ==
    ASSUME NEW t \in Seq(Character), NEW x, NEW q \in Nat, NEW h \in Nat,
           NEW k \in [Counters -> Nat], Tally(t, x, q, h, k), x[q + 1].of \notin WholeIn(t, x)
    PROVE  Tally(t, x, q + 1, h, CountsAfter(k, Stray))
  <1> DEFINE new == CountsAfter(k, Stray)
             P0 == Cardinality(Passed(t, x, q))
             P1 == Cardinality(Passed(t, x, q + 1))
             L0 == Cardinality(Loose(t, x, q))
             L1 == Cardinality(Loose(t, x, q + 1))
             W0(c) == Cardinality(With(t, x, q, c))
             W1(c) == Cardinality(With(t, x, q + 1, c))
  <1>1. P1 = P0 /\ L1 = L0 + 1 /\ \A c : W1(c) = W0(c)
    <2>1. 1 \in 1 .. 4 /\ \A r \in q + 1 .. q + 1 : x[r].of \notin WholeIn(t, x)
      OBVIOUS
    <2>2. /\ Passed(t, x, q + 1) = Passed(t, x, q)
          /\ \A c : With(t, x, q + 1, c) = With(t, x, q, c)
          /\ Cardinality(Loose(t, x, q + 1)) = Cardinality(Loose(t, x, q)) + 1
      BY <2>1, PassLoose
    <2> QED BY <2>2, Zenon
  <1>2. P0 \in Nat /\ L0 \in Nat /\ \A c : W0(c) \in Nat
    BY Sizes, Zenon
  <1>3. /\ \A c \in Asked : c \in Counters /\ new[c] = k[c] + IF c \in Stray THEN 1 ELSE 0
        /\ new["control"] = k["control"] + IF "control" \in Stray THEN 1 ELSE 0
        /\ new["totalChars"] = k["totalChars"] + 1
    <2>1. "confusable" \in Stray => "cyrillic" \in Stray
      BY DEF Stray
    <2> QED BY <2>1, CountedIs
  <1>4. "control" \in Stray /\ \A c \in Asked : c \notin Stray
    BY DEF Stray, Asked
  <1>5. \A c \in Counters : k[c] \in Nat
    OBVIOUS
  <1>6. "control" \in Counters /\ "totalChars" \in Counters
    BY DEF Counters
  <1> HIDE DEF new, P0, P1, L0, L1, W0, W1
  <1>7. ASSUME NEW e \in {0, 1}, TallyWith(t, x, q, h, k, e)
        PROVE  TallyWith(t, x, q + 1, h, new, e)
    <2>1. /\ e = 1 => h # 0 /\ h < q
          /\ \A c \in Asked : W0(c) <= k[c] /\ k[c] <= W0(c) + e
          /\ e = 0 => k["control"] = W0("control") + L0 /\ k["totalChars"] = P0 + L0
          /\ P0 <= k["totalChars"] /\ k["totalChars"] <= P0 + L0
      BY <1>7, Zenon DEF TallyWith, P0, L0, W0
    <2>2. e = 1 => h # 0 /\ h < q + 1
      BY <2>1
    <2>3. ASSUME NEW c \in Asked PROVE W1(c) <= new[c] /\ new[c] <= W1(c) + e
      <3>1. W1(c) = W0(c) /\ new[c] = k[c] + 0
            /\ W0(c) <= k[c] /\ k[c] <= W0(c) + e
            /\ W0(c) \in Nat /\ k[c] \in Nat
        BY <1>1, <1>2, <1>3, <1>4, <1>5, <2>1, Zenon
      <3> QED BY <3>1
    <2>6. /\ W1("control") = W0("control") /\ W0("control") \in Nat
          /\ k["control"] \in Nat /\ k["totalChars"] \in Nat
          /\ new["control"] = k["control"] + 1
      BY <1>1, <1>2, <1>3, <1>4, <1>5, <1>6, Zenon
    <2>4. e = 0 => new["control"] = W1("control") + L1 /\ new["totalChars"] = P1 + L1
      BY <1>1, <1>2, <1>3, <2>1, <2>6
    <2>5. P1 <= new["totalChars"] /\ new["totalChars"] <= P1 + L1
      BY <1>1, <1>2, <1>3, <2>1, <2>6
    <2> QED BY <2>2, <2>3, <2>4, <2>5, Zenon DEF TallyWith, P1, L1, W1
  <1> QED BY <1>7, Zenon DEF Tally, new

\* Bytes decoded across the seam are counted as one character.
LEMMA TallySeam ==
    ASSUME NEW t \in Seq(Character), NEW x, NEW q \in Nat, NEW h \in Nat,
           NEW k \in [Counters -> Nat], Tally(t, x, q, h, k), NEW n \in 1 .. 4,
           \A r \in q + 1 .. q + n : x[r].of \notin WholeIn(t, x),
           q < h, h < q + n,
           NEW traits, "confusable" \in traits => "cyrillic" \in traits
    PROVE  Tally(t, x, q + n, h, CountsAfter(k, traits))
  <1> DEFINE new == CountsAfter(k, traits)
             P0 == Cardinality(Passed(t, x, q))
             P1 == Cardinality(Passed(t, x, q + n))
             L0 == Cardinality(Loose(t, x, q))
             L1 == Cardinality(Loose(t, x, q + n))
             W0(c) == Cardinality(With(t, x, q, c))
             W1(c) == Cardinality(With(t, x, q + n, c))
  <1>1. P1 = P0 /\ L1 >= L0 + 1 /\ \A c : W1(c) = W0(c)
    <2>1. /\ Passed(t, x, q + n) = Passed(t, x, q)
          /\ \A c : With(t, x, q + n, c) = With(t, x, q, c)
          /\ Cardinality(Loose(t, x, q + n)) >= Cardinality(Loose(t, x, q)) + 1
      BY PassLoose
    <2> QED BY <2>1, Zenon
  <1>2. P0 \in Nat /\ L0 \in Nat /\ L1 \in Nat /\ \A c : W0(c) \in Nat
    <2>1. q + n \in Nat
      OBVIOUS
    <2> QED BY <2>1, Sizes, Zenon
  <1>3. /\ \A c \in Asked : c \in Counters
        /\ \A c \in Asked : new[c] = k[c] + IF c \in traits THEN 1 ELSE 0
        /\ new["totalChars"] = k["totalChars"] + 1
    BY CountedIs
  <1>5. \A c \in Counters : k[c] \in Nat
    OBVIOUS
  <1>6. "totalChars" \in Counters
    BY DEF Counters
  <1> HIDE DEF new, P0, P1, L0, L1, W0, W1
  <1>7. ~TallyWith(t, x, q, h, k, 1)
    <2>1. ~(h < q)
      OBVIOUS
    <2> QED BY <2>1, Zenon DEF TallyWith
  <1>8. TallyWith(t, x, q, h, k, 0)
    BY <1>7, Zenon DEF Tally
  <1>9. /\ \A c \in Asked : W0(c) <= k[c] /\ k[c] <= W0(c) + 0
        /\ P0 <= k["totalChars"] /\ k["totalChars"] <= P0 + L0
    BY <1>8, Zenon DEF TallyWith, P0, L0, W0
  <1>10. ASSUME NEW c \in Asked PROVE W1(c) <= new[c] /\ new[c] <= W1(c) + 1
    <2>1. W1(c) = W0(c) /\ new[c] = k[c] + (IF c \in traits THEN 1 ELSE 0)
          /\ W0(c) <= k[c] /\ k[c] <= W0(c) + 0
          /\ W0(c) \in Nat /\ k[c] \in Nat
      BY <1>1, <1>2, <1>3, <1>5, <1>9, Zenon
    <2> QED BY <2>1
  <1>11. P1 <= new["totalChars"] /\ new["totalChars"] <= P1 + L1
    <2>1. k["totalChars"] \in Nat
      BY <1>5, <1>6, Zenon
    <2> QED BY <1>1, <1>2, <1>3, <1>9, <2>1
  <1>12. h # 0 /\ h < q + n /\ 1 # 0
    OBVIOUS
  <1>13. TallyWith(t, x, q + n, h, new, 1)
    BY <1>10, <1>11, <1>12, Zenon DEF TallyWith, P1, L1, W1
  <1> QED BY <1>13, Zenon DEF Tally, new

-----------------------------------------------------------------------------
\* The scan has gone over the first q bytes of x, and the counters are k.
ScannedTo(t, x, q, h, k) ==
    /\ q \in Nat /\ q <= Len(x)
    /\ NoStraddle(t, x, q)
    /\ k \in [Counters -> Nat]
    /\ Tally(t, x, q, h, k)
    /\ k["control"] = 0 => \A p \in 1 .. q : Covered(x, p)
    /\ \A c \in Counters : k[c] <= k["totalChars"]
    /\ input.confusable => k["confusable"] <= k["cyrillic"]

\* What is over at the first byte.
LEMMA ScanStarts ==
    ASSUME NEW t, NEW s, NEW h, NEW off, NEW x, Setting(t, s, h, off, x)
    PROVE  ScannedTo(t, x, 0, h, [c \in Counters |-> 0])
  <1> DEFINE k == [c \in Counters |-> 0]
  <1>1. Len(x) \in Nat /\ t \in Seq(Character)
    BY DrawnBytes, Zenon DEF Setting
  <1>2. 0 \in Nat /\ 0 <= Len(x) /\ 0 <= 0 /\ 1 .. 0 = {} /\ \A a \in Nat : ~(a < 0)
    BY <1>1
  <1>3. NoStraddle(t, x, 0)
    BY <1>2, Zenon DEF NoStraddle
  <1>4. Tally(t, x, 0, h, k)
    BY <1>1, TallyStart, Zenon
  <1>5. k \in [Counters -> Nat] /\ \A c \in Counters : k[c] = 0
    BY <1>2, Zenon
  <1>6. {"totalChars", "confusable", "cyrillic"} \subseteq Counters
    BY DEF Counters, Scripts
  <1>7. /\ \A c \in Counters : k[c] <= k["totalChars"]
        /\ k["confusable"] <= k["cyrillic"]
    BY <1>2, <1>5, <1>6, Zenon
  <1> HIDE DEF k
  <1>8. ScannedTo(t, x, 0, h, k)
    BY <1>2, <1>3, <1>4, <1>5, <1>7, Zenon DEF ScannedTo
  <1> QED BY <1>8 DEF k

\* One iteration of the scan.
LEMMA ScanGoesOn ==
    ASSUME NEW t, NEW s, NEW h, NEW off, NEW x, Setting(t, s, h, off, x), TextOK(t),
           input.seam \in Classes \cup {"stray"},
           NEW q, NEW k, ScannedTo(t, x, q, h, k), q < Len(x)
    PROVE  LET rune == DecodeRune(SubSeq(x, q + 1, Len(x)))
           IN  /\ rune.size \in 1 .. 4
               /\ ScannedTo(t, x, q + rune.size, h, CountsAfter(k, rune.traits))
  <1> DEFINE rune == DecodeRune(SubSeq(x, q + 1, Len(x)))
             n == rune.size
             new == CountsAfter(k, rune.traits)
             Result ==
               /\ n \in 1 .. 4 /\ q + n <= Len(x)
               /\ "confusable" \in rune.traits => "cyrillic" \in rune.traits
               /\ NoStraddle(t, x, q + n)
               /\ Tally(t, x, q + n, h, new)
               /\ \/ rune.traits = Stray
                  \/ RuneAt(x, q + 1) /\ n = x[q + 1].announced
  <1>1. /\ q \in Nat /\ q <= Len(x) /\ NoStraddle(t, x, q) /\ k \in [Counters -> Nat]
        /\ Tally(t, x, q, h, k)
        /\ k["control"] = 0 => \A p \in 1 .. q : Covered(x, p)
        /\ \A c \in Counters : k[c] <= k["totalChars"]
        /\ input.confusable => k["confusable"] <= k["cyrillic"]
    BY Zenon DEF ScannedTo
  <1>2. Len(x) \in Nat /\ t \in Seq(Character) /\ h \in Nat /\ x \in Seq(Byte)
    BY DrawnBytes DEF Setting, Drawn, Shift
  <1>3. \A r, a, b : r = [traits |-> a, size |-> b] => r.traits = a /\ r.size = b
    OBVIOUS
  <1>4. ASSUME x[q + 1].of \in WholeIn(t, x) PROVE Result
    <2> DEFINE i == x[q + 1].of
               l == t[i].length
               class == t[i].class
    <2>1. /\ i \in 1 .. Len(t) /\ l \in 1 .. 4 /\ q + l <= Len(x) /\ t[i].announced = l
          /\ \A p \in 1 .. Len(x) : x[p].of = i <=> p \in q + 1 .. q + l
          /\ RuneAt(x, q + 1) /\ x[q + 1].announced = l
          /\ rune = [traits |-> Traits(class), size |-> l]
          /\ NoStraddle(t, x, q + l)
      BY <1>1, <1>4, ScanWhole
    <2> HIDE DEF rune, i, l, class
    <2>2. rune.traits = Traits(class) /\ n = l
      BY <1>3, <2>1, Zenon
    <2>3. class \in Classes
      <3>1. t[i].announced # 0
        BY <2>1
      <3> QED BY <2>1, <3>1 DEF TextOK, class
    <2>4. "confusable" \in Traits(class) => "cyrillic" \in Traits(class)
      BY <2>3, ConfusablesAreCyrillic, Zenon
    <2>5. Tally(t, x, q + l, h, CountsAfter(k, Traits(class)))
      <3>1. i \in WholeIn(t, x) /\ BytesAre(x, i, q, l, Len(x))
        BY <1>4, <2>1, Zenon DEF i, BytesAre
      <3> QED BY <1>1, <1>2, <2>1, <2>4, <3>1, TallyWhole DEF class
    <2>6. new = CountsAfter(k, Traits(class)) /\ n = x[q + 1].announced
      BY <2>1, <2>2
    <2> DEFINE tr == rune.traits
    <2>7. tr = Traits(class)
      BY <2>2
    <2> HIDE DEF n, new, tr
    <2>8. /\ n \in 1 .. 4 /\ q + n <= Len(x) /\ NoStraddle(t, x, q + n)
          /\ Tally(t, x, q + n, h, new)
      BY <2>1, <2>2, <2>5, <2>6
    <2>9. "confusable" \in tr => "cyrillic" \in tr
      BY <2>4, <2>7
    <2> QED BY <2>1, <2>6, <2>8, <2>9, Zenon DEF tr
  <1>5. ASSUME x[q + 1].of \notin WholeIn(t, x) PROVE Result
    <2> DEFINE l == x[q + 1].announced
    <2>1. \/ /\ ~RuneAt(x, q + 1)
             /\ rune = [traits |-> Stray, size |-> 1]
             /\ NoStraddle(t, x, q + 1)
          \/ /\ RuneAt(x, q + 1)
             /\ l \in 1 .. 4 /\ q + l <= Len(x)
             /\ \E class \in Classes : rune = [traits |-> Traits(class), size |-> l]
             /\ \A r \in q + 1 .. q + l : x[r].of \notin WholeIn(t, x)
             /\ q < h /\ h < q + l
             /\ NoStraddle(t, x, q + l)
      BY <1>1, <1>5, ScanLoose
    <2> HIDE DEF rune, l
    <2>2. CASE rune = [traits |-> Stray, size |-> 1] /\ NoStraddle(t, x, q + 1)
      <3>1. rune.traits = Stray /\ n = 1
        BY <1>3, <2>2, Zenon
      <3>2. "confusable" \in Stray => "cyrillic" \in Stray
        BY DEF Stray
      <3>3. Tally(t, x, q + 1, h, CountsAfter(k, Stray))
        BY <1>1, <1>2, <1>5, TallyStray
      <3>4. 1 \in 1 .. 4 /\ q + 1 <= Len(x)
        BY <1>1, <1>2
      <3>5. new = CountsAfter(k, Stray)
        BY <3>1
      <3> DEFINE tr == rune.traits
      <3>6. tr = Stray
        BY <3>1
      <3> HIDE DEF n, new, tr
      <3>7. /\ n \in 1 .. 4 /\ q + n <= Len(x) /\ NoStraddle(t, x, q + n)
            /\ Tally(t, x, q + n, h, new)
        BY <2>2, <3>1, <3>3, <3>4, <3>5
      <3>8. "confusable" \in tr => "cyrillic" \in tr
        BY <3>2, <3>6
      <3> QED BY <3>6, <3>7, <3>8, Zenon DEF tr
    <2>3. ASSUME RuneAt(x, q + 1), l \in 1 .. 4, q + l <= Len(x), NEW class \in Classes,
                 rune = [traits |-> Traits(class), size |-> l],
                 \A r \in q + 1 .. q + l : x[r].of \notin WholeIn(t, x),
                 q < h, h < q + l, NoStraddle(t, x, q + l)
          PROVE  Result
      <3>1. rune.traits = Traits(class) /\ n = l
        BY <1>3, <2>3, Zenon
      <3>2. "confusable" \in Traits(class) => "cyrillic" \in Traits(class)
        BY ConfusablesAreCyrillic, Zenon
      <3>3. Tally(t, x, q + l, h, CountsAfter(k, Traits(class)))
        BY <1>1, <1>2, <2>3, <3>2, TallySeam
      <3>4. n = x[q + 1].announced
        BY <3>1, Zenon DEF l
      <3>5. new = CountsAfter(k, Traits(class))
        BY <3>1
      <3> DEFINE tr == rune.traits
      <3>6. tr = Traits(class)
        BY <3>1
      <3> HIDE DEF n, new, tr
      <3>7. /\ n \in 1 .. 4 /\ q + n <= Len(x) /\ NoStraddle(t, x, q + n)
            /\ Tally(t, x, q + n, h, new)
        BY <2>3, <3>1, <3>3, <3>5
      <3>8. "confusable" \in tr => "cyrillic" \in tr
        BY <3>2, <3>6
      <3> QED BY <2>3, <3>4, <3>7, <3>8, Zenon DEF tr
    <2> HIDE DEF Result, new
    <2> QED BY <2>1, <2>2, <2>3
  <1> HIDE DEF Result
  <1>6. Result
    BY <1>4, <1>5, Zenon
  <1> USE DEF Result
  <1>7. /\ new \in [Counters -> Nat]
        /\ new["control"] = k["control"] + IF "control" \in rune.traits THEN 1 ELSE 0
        /\ new["totalChars"] = k["totalChars"] + 1
        /\ \A c \in Counters : new[c] <= k[c] + 1
        /\ input.confusable /\ k["confusable"] <= k["cyrillic"]
             => new["confusable"] <= new["cyrillic"]
    <2>1. "confusable" \in rune.traits => "cyrillic" \in rune.traits
      BY <1>6, Zenon
    <2> HIDE DEF rune
    <2> QED BY <1>1, <2>1, CountedIs
  <1> HIDE DEF rune, n
  <1>8. \A c \in Counters : k[c] \in Nat /\ new[c] \in Nat
    BY <1>1, <1>7
  <1>9. {"totalChars", "control"} \subseteq Counters
    BY DEF Counters
  <1>10. ASSUME new["control"] = 0, NEW p \in 1 .. q + n PROVE Covered(x, p)
    <2> HIDE DEF new
    <2>1. k["control"] \in Nat
      BY <1>8, <1>9, Zenon
    <2>2. k["control"] = 0 /\ "control" \notin rune.traits
      BY <1>7, <1>10, <2>1
    <2>3. rune.traits # Stray
      BY <2>2 DEF Stray
    <2>4. RuneAt(x, q + 1) /\ n = x[q + 1].announced
      BY <1>6, <2>3, Zenon
    <2>5. p \in 1 .. q \/ p \in q + 1 .. q + n
      BY <1>1, <1>6
    <2>6. CASE p \in 1 .. q
      BY <1>1, <2>2, <2>6, Zenon
    <2>7. CASE p \in q + 1 .. q + n
      BY <1>1, <1>2, <2>4, <2>7, RuneCovers
    <2> QED BY <2>5, <2>6, <2>7
  <1>11. ASSUME NEW c \in Counters PROVE new[c] <= new["totalChars"]
    <2> HIDE DEF new
    <2>1. /\ k[c] \in Nat /\ k["totalChars"] \in Nat /\ k[c] <= k["totalChars"]
          /\ new[c] <= k[c] + 1 /\ new[c] \in Nat /\ new["totalChars"] = k["totalChars"] + 1
      BY <1>1, <1>7, <1>8, <1>9, Zenon
    <2> QED BY <2>1
  <1>12. q + n \in Nat
    BY <1>1, <1>6
  <1> HIDE DEF new
  <1>13. ScannedTo(t, x, q + n, h, new)
    BY <1>1, <1>6, <1>7, <1>10, <1>11, <1>12, Zenon DEF ScannedTo
  <1> QED BY <1>6, <1>13, Zenon DEF rune, n, new

-----------------------------------------------------------------------------
\* The phases of analyzeCharset.
Phases == {"cut", "scan", "format", "flags", "done"}

\* What RaiseFlags raises.
FlagsRaised ==
    LET If(cond, flag) == IF input.suspicious /\ cond THEN {flag} ELSE {}
    IN  If(~Valid(analyzed), "invalid_utf8")
          \cup If(counts["control"] > 0, "control_chars")
          \cup If(counts["zeroWidth"] > 0, "zero_width_chars")
          \cup If(input.scripts /\ Cardinality(ScriptsFound) > 1, "mixed_unicode_scripts")
          \cup If(input.confusable /\ ShouldFlagConfusable, "confusable_homoglyphs")

\* The second cut was between characters.
CutDone ==
    \E c \in 0 .. Len(sample) :
      /\ analyzed = SubSeq(sample, 1, c)
      /\ c <= input.maxAnalyze
      /\ c < Len(sample) => c >= input.maxAnalyze - 3
      /\ NoStraddle(input.text, sample, c)

\* How far the scan is.
Progress ==
    \E t, x, k, s, h, off, q :
      /\ t = input.text /\ x = analyzed /\ k = counts
      /\ Setting(t, s, h, off, x)
      /\ h # 0 => HasSeam
      /\ ScannedTo(t, x, q, h, k)
      /\ data = SubSeq(x, q + 1, Len(x))

\* The inductive invariant: the cut, the scan up to where it is, and the flags.
CharsetInv ==
    /\ input \in Inputs /\ sample = Sampled(input)
    /\ phase \in Phases
    /\ phase = "cut" => analyzed = <<>> /\ counts = [c \in Counters |-> 0]
    /\ phase # "cut" => CutDone /\ Progress
    /\ phase \in {"format", "flags"} => counts["totalChars"] # 0
    /\ phase \notin {"cut", "scan"} => data = <<>>
    /\ phase # "done" => flags = {}
    /\ phase = "done" => flags = IF counts["totalChars"] = 0 THEN {} ELSE FlagsRaised

\* What is assumed of the inputs, and of the sample of one.
LEMMA InputIs ==
    ASSUME input \in Inputs, sample = Sampled(input)
    PROVE  /\ TextOK(input.text)
           /\ input.seam \in Classes \cup {"stray"}
           /\ input.maxAnalyze \in Nat \ {0}
           /\ input.confusable \in BOOLEAN /\ input.scripts \in BOOLEAN /\ input.suspicious \in BOOLEAN
           /\ \E s, h, off : Setting(input.text, s, h, off, sample) /\ (h # 0 => HasSeam)
  <1>1. /\ input.text \in Seq(Character)
        /\ \A i \in 1 .. Len(input.text) :
             IF input.text[i].announced = 0 THEN input.text[i].length = 1
             ELSE input.text[i].length <= input.text[i].announced /\ input.text[i].class \in Classes
        /\ \A i \in 2 .. Len(input.text) :
             input.text[i].announced = 0 => input.text[i - 1].announced <= input.text[i - 1].length
        /\ input.sampleBytes \in Nat \ {0} /\ input.strategy \in Strategies
        /\ input.maxAnalyze \in Nat \ {0}
        /\ input.seam \in Classes \cup {"stray"}
        /\ {input.json, input.scripts, input.confusable, input.suspicious} \subseteq BOOLEAN
    BY CharsetAssumption, Zenon
  <1>2. TextOK(input.text)
    BY <1>1, Zenon DEF TextOK
  <1>3. PICK s, h, off :
          /\ Starts(input.text, s) /\ Shift(h, off)
          /\ Drawn(input.text, s, h, off, Sampled(input))
          /\ h # 0 => input.strategy = "head_tail" /\ Len(Sampled(input)) < Len(BytesOf(input.text))
    BY <1>1, SampleIsDrawn, Zenon
  <1>4. Setting(input.text, s, h, off, sample)
    BY <1>1, <1>3, Zenon DEF Setting
  <1>5. h # 0 => HasSeam
    BY <1>3, Zenon DEF HasSeam
  <1> QED BY <1>1, <1>2, <1>4, <1>5, Zenon

\* What has been scanned does not depend on what a step changes.
LEMMA ScannedToIsStable ==
    ASSUME UNCHANGED input, NEW t, NEW x, NEW q, NEW h, NEW k
    PROVE  ScannedTo(t, x, q, h, k) => ScannedTo(t, x, q, h, k)'
  <1>1. \A p : RuneAt(x, p)' <=> RuneAt(x, p)
    BY DEF RuneAt, Fit
  <1>2. \A p : Covered(x, p)' <=> Covered(x, p)
    BY <1>1 DEF Covered
  <1>3. Asked' = Asked
    BY DEF Asked
  <1>4. Tally(t, x, q, h, k)' <=> Tally(t, x, q, h, k)
    BY <1>3 DEF Tally, TallyWith
  <1> QED BY <1>2, <1>4 DEF ScannedTo

\* The cut makes of the sample what the scan starts from.
LEMMA CutStep ==
    ASSUME CharsetInv, Cut
    PROVE  CutDone' /\ Progress'
  <1> DEFINE t == input.text
             k == [c \in Counters |-> 0]
  <1>1. /\ input \in Inputs /\ sample = Sampled(input) /\ counts = k
        /\ analyzed' = IF Len(sample) <= input.maxAnalyze THEN sample
                       ELSE TrimIncompleteUTF8Suffix(SubSeq(sample, 1, input.maxAnalyze))
        /\ data' = analyzed' /\ UNCHANGED <<input, sample, counts>>
    BY DEF CharsetInv, Cut, given
  <1>2. input.maxAnalyze \in Nat \ {0}
    BY <1>1, InputIs, Zenon
  <1>3. PICK s, h, off : Setting(t, s, h, off, sample) /\ (h # 0 => HasSeam)
    BY <1>1, InputIs, Zenon
  <1>4. Len(sample) \in Nat /\ sample \in Seq(Byte)
    BY <1>3, DrawnBytes DEF Setting, Drawn
  <1>5. \E c \in 0 .. Len(sample) :
          /\ analyzed' = SubSeq(sample, 1, c)
          /\ c <= input.maxAnalyze
          /\ c < Len(sample) => c >= input.maxAnalyze - 3
          /\ NoStraddle(t, sample, c)
    <2>1. CASE Len(sample) <= input.maxAnalyze
      <3> DEFINE m == Len(sample)
      <3>1. analyzed' = SubSeq(sample, 1, m)
        <4>1. \A x \in Seq(Byte) : SubSeq(x, 1, Len(x)) = x
          OBVIOUS
        <4> QED BY <1>1, <1>4, <2>1, <4>1
      <3>2. NoStraddle(t, sample, m)
        <4> SUFFICES ASSUME NEW i \in WholeIn(t, sample), NEW a \in Nat, At(t, sample, i, a),
                            a < m, m < a + t[i].length
                     PROVE  FALSE
          BY Zenon DEF NoStraddle
        <4>1. a + t[i].length <= m
          BY Zenon DEF At
        <4>2. t[i].length \in 1 .. 4
          BY <1>3, WholeHas
        <4> QED BY <1>4, <4>1, <4>2
      <3>3. m \in 0 .. Len(sample) /\ m <= input.maxAnalyze /\ ~(m < Len(sample))
        BY <1>4, <2>1
      <3> HIDE DEF m
      <3> QED BY <3>1, <3>2, <3>3, Zenon
    <2>2. CASE ~(Len(sample) <= input.maxAnalyze)
      <3> DEFINE m == input.maxAnalyze
      <3>1. m \in 1 .. Len(sample)
        BY <1>2, <1>4, <2>2
      <3>2. analyzed' = TrimIncompleteUTF8Suffix(SubSeq(sample, 1, m))
        BY <1>1, <2>2, Zenon
      <3> HIDE DEF m
      <3>3. PICK c \in 0 .. m :
              /\ TrimIncompleteUTF8Suffix(SubSeq(sample, 1, m)) = SubSeq(sample, 1, c)
              /\ c >= m - 3
              /\ NoStraddle(t, sample, c)
        BY <1>3, <3>1, TrimLeavesNoPart
      <3>4. c \in 0 .. Len(sample) /\ c <= m
        BY <1>4, <3>1, <3>3
      <3> QED BY <3>2, <3>3, <3>4, Zenon DEF m
    <2> QED BY <2>1, <2>2
  <1>6. PICK c \in 0 .. Len(sample) :
          /\ analyzed' = SubSeq(sample, 1, c)
          /\ c <= input.maxAnalyze
          /\ c < Len(sample) => c >= input.maxAnalyze - 3
          /\ NoStraddle(t, sample, c)
    BY <1>5, Zenon
  <1>7. CutDone'
    BY <1>1, <1>6 DEF CutDone
  <1>8. PICK x : x = analyzed'
    OBVIOUS
  <1>9. Setting(t, s, h, off, x)
    BY <1>3, <1>6, <1>8, PrefixDrawn
  <1>10. ScannedTo(t, x, 0, h, k)
    BY <1>9, ScanStarts
  <1>11. data' = SubSeq(x, 0 + 1, Len(x))
    <2>1. x \in Seq(Byte)
      BY <1>9, Zenon DEF Setting, Drawn
    <2>2. SubSeq(x, 0 + 1, Len(x)) = x
      BY <2>1
    <2> QED BY <1>1, <1>8, <2>2
  <1>12. (h # 0 => HasSeam)'
    BY <1>1, <1>3 DEF HasSeam
  <1>13. PICK u, v : u = t /\ v = k
    OBVIOUS
  <1>14. ScannedTo(u, x, 0, h, v)'
    BY <1>1, <1>10, <1>13, ScannedToIsStable
  <1>15. u = input'.text /\ x = analyzed' /\ v = counts' /\ Setting(u, s, h, off, x)
    BY <1>1, <1>8, <1>9, <1>13
  <1>16. Progress'
    BY <1>11, <1>12, <1>14, <1>15 DEF Progress
  <1> QED BY <1>7, <1>16

\* The scan goes one rune on.
LEMMA ScanRuneStep ==
    ASSUME CharsetInv, ScanRune
    PROVE  Progress'
  <1>1. /\ input \in Inputs /\ sample = Sampled(input) /\ Progress /\ data # <<>>
        /\ counts' = CountsAfter(counts, DecodeRune(data).traits)
        /\ data' = SubSeq(data, DecodeRune(data).size + 1, Len(data))
        /\ UNCHANGED <<input, sample, analyzed>>
    BY DEF CharsetInv, ScanRune, given, CountsAfter
  <1>2. PICK t, x, k, s, h, off, q :
          /\ t = input.text /\ x = analyzed /\ k = counts
          /\ Setting(t, s, h, off, x)
          /\ h # 0 => HasSeam
          /\ ScannedTo(t, x, q, h, k)
          /\ data = SubSeq(x, q + 1, Len(x))
    BY <1>1, Zenon DEF Progress
  <1>3. TextOK(t) /\ input.seam \in Classes \cup {"stray"}
    BY <1>1, <1>2, InputIs
  <1>4. q \in Nat /\ q <= Len(x) /\ Len(x) \in Nat /\ x \in Seq(Byte)
    BY <1>2, DrawnBytes DEF ScannedTo, Setting, Drawn
  <1>5. q < Len(x)
    <2>1. SubSeq(x, Len(x) + 1, Len(x)) = <<>>
      BY <1>4
    <2>2. q # Len(x)
      BY <1>1, <1>2, <2>1
    <2> QED BY <1>4, <2>2
  <1> DEFINE rune == DecodeRune(data)
             n == rune.size
             new == CountsAfter(k, rune.traits)
  <1>6. n \in 1 .. 4 /\ ScannedTo(t, x, q + n, h, new)
    <2>1. /\ DecodeRune(SubSeq(x, q + 1, Len(x))).size \in 1 .. 4
          /\ ScannedTo(t, x, q + DecodeRune(SubSeq(x, q + 1, Len(x))).size, h,
                       CountsAfter(k, DecodeRune(SubSeq(x, q + 1, Len(x))).traits))
      BY <1>2, <1>3, <1>5, ScanGoesOn
    <2> QED BY <1>2, <2>1
  <1>7. counts' = new /\ data' = SubSeq(data, n + 1, Len(data))
    BY <1>1, <1>2
  <1> HIDE DEF n, new
  <1>8. data' = SubSeq(x, (q + n) + 1, Len(x))
    <2>1. q + n <= Len(x) /\ n \in 0 .. Len(x) - q
      <3>1. q + n <= Len(x)
        BY <1>6, Zenon DEF ScannedTo
      <3> QED BY <1>4, <1>6, <3>1
    <2>2. SubSeq(SubSeq(x, q + 1, Len(x)), n + 1, Len(SubSeq(x, q + 1, Len(x))))
            = SubSeq(x, q + n + 1, Len(x))
      BY <1>4, <1>5, <2>1, RestOf
    <2> QED BY <1>2, <1>7, <2>2
  <1>9. PICK v, r : v = new /\ r = q + n
    OBVIOUS
  <1>10. ScannedTo(t, x, r, h, v)'
    BY <1>1, <1>6, <1>9, ScannedToIsStable
  <1>11. (h # 0 => HasSeam)'
    BY <1>1, <1>2 DEF HasSeam
  <1>12. /\ t = input'.text /\ x = analyzed' /\ v = counts' /\ Setting(t, s, h, off, x)
         /\ data' = SubSeq(x, r + 1, Len(x))
    BY <1>1, <1>2, <1>7, <1>8, <1>9
  <1> QED BY <1>10, <1>11, <1>12 DEF Progress

\* A step that leaves the scan alone.
LEMMA NoScan ==
    ASSUME CharsetInv, UNCHANGED <<input, sample, analyzed, data, counts>>
    PROVE  /\ (CutDone => CutDone') /\ (Progress => Progress')
           /\ FlagsRaised' = FlagsRaised
  <1>1. CutDone => CutDone'
    BY DEF CutDone
  <1>2. ASSUME Progress PROVE Progress'
    <2>1. PICK t, x, k, s, h, off, q :
            /\ t = input.text /\ x = analyzed /\ k = counts
            /\ Setting(t, s, h, off, x)
            /\ h # 0 => HasSeam
            /\ ScannedTo(t, x, q, h, k)
            /\ data = SubSeq(x, q + 1, Len(x))
      BY <1>2, Zenon DEF Progress
    <2>2. ScannedTo(t, x, q, h, k)'
      BY <2>1, ScannedToIsStable
    <2>3. (h # 0 => HasSeam)'
      BY <2>1 DEF HasSeam
    <2>4. /\ t = input'.text /\ x = analyzed' /\ k = counts' /\ Setting(t, s, h, off, x)
          /\ data' = SubSeq(x, q + 1, Len(x))
      BY <2>1
    <2> QED BY <2>2, <2>3, <2>4 DEF Progress
  <1>3. FlagsRaised' = FlagsRaised
    BY DEF FlagsRaised, Valid, RuneAt, Fit, ScriptsFound, ShouldFlagConfusable
  <1> QED BY <1>1, <1>2, <1>3

\* The invariant of the scan and the flags.
LEMMA CharsetInvariant == Spec => []CharsetInv
  <1>1. Init => CharsetInv
    BY DEF Init, CharsetInv, Phases
  <1>2. ASSUME CharsetInv, [Next]_vars PROVE CharsetInv'
    <2>1. CASE Cut
      <3>1. CutDone' /\ Progress'
        BY <1>2, <2>1, CutStep
      <3>2. /\ phase = "cut" /\ phase' = "scan" /\ UNCHANGED <<input, sample, flags, counts>>
        BY <2>1 DEF Cut, given
      <3> QED BY <1>2, <3>1, <3>2 DEF CharsetInv, Phases
    <2>2. CASE ScanRune
      <3>1. Progress'
        BY <1>2, <2>2, ScanRuneStep
      <3>2. phase = "scan" /\ UNCHANGED <<input, sample, phase, analyzed, flags>>
        BY <2>2 DEF ScanRune, given
      <3>3. CutDone => CutDone'
        BY <3>2 DEF CutDone
      <3> QED BY <1>2, <3>1, <3>2, <3>3 DEF CharsetInv, Phases
    <2>3. CASE ScanEnds
      <3>1. /\ phase = "scan" /\ data = <<>> /\ UNCHANGED <<input, sample, analyzed, data, counts, flags>>
            /\ phase' = IF counts["totalChars"] = 0 THEN "done" ELSE IF input.json THEN "format" ELSE "flags"
        BY <2>3 DEF ScanEnds, given
      <3>2. (CutDone => CutDone') /\ (Progress => Progress')
        BY <1>2, <3>1, NoScan
      <3>3. /\ counts["totalChars"] = 0 => phase' = "done"
            /\ counts["totalChars"] # 0 => phase' \in {"format", "flags"}
        BY <3>1
      <3> QED BY <1>2, <3>1, <3>2, <3>3 DEF CharsetInv, Phases
    <2>4. CASE FormatStep
      <3>1. UNCHANGED <<input, sample, phase, analyzed, data, counts, flags>>
        BY <2>4 DEF FormatStep, charsetVars, given
      <3>2. (CutDone => CutDone') /\ (Progress => Progress') /\ FlagsRaised' = FlagsRaised
        BY <1>2, <3>1, NoScan
      <3> QED BY <1>2, <3>1, <3>2 DEF CharsetInv
    <2>5. CASE RecordMetrics
      <3>1. /\ phase = "format" /\ phase' = "flags"
            /\ UNCHANGED <<input, sample, analyzed, data, counts, flags>>
        BY <2>5 DEF RecordMetrics, given
      <3>2. (CutDone => CutDone') /\ (Progress => Progress')
        BY <1>2, <3>1, NoScan
      <3> QED BY <1>2, <3>1, <3>2 DEF CharsetInv, Phases
    <2>6. CASE RaiseFlags
      <3>1. /\ phase = "flags" /\ phase' = "done" /\ flags' = FlagsRaised
            /\ UNCHANGED <<input, sample, analyzed, data, counts>>
        BY <2>6 DEF RaiseFlags, given, FlagsRaised
      <3>2. (CutDone => CutDone') /\ (Progress => Progress') /\ FlagsRaised' = FlagsRaised
        BY <1>2, <3>1, NoScan
      <3> QED BY <1>2, <3>1, <3>2 DEF CharsetInv, Phases
    <2>7. CASE UNCHANGED vars
      <3>1. UNCHANGED <<input, sample, phase, analyzed, data, counts, flags>>
        BY <2>7 DEF vars, charsetVars, given
      <3>2. (CutDone => CutDone') /\ (Progress => Progress') /\ FlagsRaised' = FlagsRaised
        BY <1>2, <3>1, NoScan
      <3> QED BY <1>2, <3>1, <3>2 DEF CharsetInv
    <2> QED BY <1>2, <2>1, <2>2, <2>3, <2>4, <2>5, <2>6, <2>7 DEF Next
  <1> QED BY <1>1, <1>2, PTL DEF Spec

\* Whole and WholeIn.
LEMMA WholeIs == \A b : Whole(b) = WholeIn(input.text, b)
  BY Zenon DEF Whole, WholeIn

\* The cut is at the boundary of a rune.
LEMMA CutHolds ==
    ASSUME CharsetInv
    PROVE  CutAtRuneBoundary
  <1> SUFFICES ASSUME phase # "cut"
               PROVE  /\ Len(analyzed) <= input.maxAnalyze
                      /\ analyzed = <<>> => phase \notin {"format", "flags"} /\ flags = {}
                      /\ analyzed = SubSeq(sample, 1, Len(analyzed))
                      /\ Len(analyzed) < Len(sample) => Len(analyzed) >= input.maxAnalyze - 3
                      /\ \A p \in DOMAIN analyzed :
                           analyzed[p].of \in Whole(sample) => analyzed[p].of \in Whole(analyzed)
    BY Zenon DEF CutAtRuneBoundary
  <1>1. /\ input \in Inputs /\ sample = Sampled(input) /\ CutDone /\ Progress /\ phase \in Phases
        /\ phase \in {"format", "flags"} => counts["totalChars"] # 0
        /\ phase # "done" => flags = {}
        /\ phase = "done" => flags = IF counts["totalChars"] = 0 THEN {} ELSE FlagsRaised
    BY Zenon DEF CharsetInv
  <1>2. PICK s, h, off : Setting(input.text, s, h, off, sample)
    BY <1>1, InputIs, Zenon
  <1>3. PICK c \in 0 .. Len(sample) :
          /\ analyzed = SubSeq(sample, 1, c)
          /\ c <= input.maxAnalyze
          /\ c < Len(sample) => c >= input.maxAnalyze - 3
          /\ NoStraddle(input.text, sample, c)
    BY <1>1, Zenon DEF CutDone
  <1>4. /\ Setting(input.text, s, h, off, analyzed) /\ Len(analyzed) = c
        /\ \A p \in 1 .. c : analyzed[p] = sample[p]
    BY <1>2, <1>3, PrefixDrawn
  <1>5. DOMAIN analyzed = 1 .. c
    BY <1>4, DrawnBytes
  <1>6. ASSUME NEW p \in DOMAIN analyzed, analyzed[p].of \in Whole(sample)
        PROVE  analyzed[p].of \in Whole(analyzed)
    <2>1. p \in 1 .. c /\ sample[p].of = analyzed[p].of
      BY <1>4, <1>5
    <2>2. sample[p].of \in WholeIn(input.text, sample)
      BY <1>6, <2>1, WholeIs
    <2>3. sample[p].of \in WholeIn(input.text, SubSeq(sample, 1, c))
      BY <1>2, <1>3, <2>1, <2>2, CutKeepsWhole
    <2> QED BY <1>3, <2>1, <2>3, WholeIs
  <1>7. ASSUME analyzed = <<>> PROVE phase \notin {"format", "flags"} /\ flags = {}
    <2>1. PICK t, x, k, r, g, o, q :
            /\ t = input.text /\ x = analyzed /\ k = counts
            /\ Setting(t, r, g, o, x)
            /\ g # 0 => HasSeam
            /\ ScannedTo(t, x, q, g, k)
            /\ data = SubSeq(x, q + 1, Len(x))
      BY <1>1, Zenon DEF Progress
    <2>2. q = 0
      <3>1. Len(x) = 0
        BY <1>7, <2>1
      <3> QED BY <2>1, <3>1 DEF ScannedTo
    <2>3. Tally(t, x, 0, g, k) /\ k \in [Counters -> Nat]
      BY <2>1, <2>2, Zenon DEF ScannedTo
    <2>4. Passed(t, x, 0) = {} /\ Loose(t, x, 0) = {} /\ Cardinality({}) = 0
      <3>1. 1 .. 0 = {}
        OBVIOUS
      <3> QED BY <3>1, FS_EmptySet, Zenon DEF Passed, Loose
    <2>5. k["totalChars"] <= 0 + 0
      BY <2>3, <2>4, Zenon DEF Tally, TallyWith
    <2>6. "totalChars" \in Counters
      BY DEF Counters
    <2>7. k["totalChars"] = 0
      BY <2>3, <2>5, <2>6
    <2>8. counts["totalChars"] = 0
      BY <2>1, <2>7
    <2> QED BY <1>1, <2>8, Zenon
  <1> QED BY <1>3, <1>4, <1>6, <1>7, Zenon

\* For every text, sampling and limit, the second cut takes whole characters: of
\* a character that is whole in the sample all bytes are analysed or none, three
\* bytes at most are dropped, and when nothing is left there are no flags
\* (trimIncompleteUTF8Suffix in analyzeCharset).
THEOREM CutTakesWholeRunes == Spec => []CutAtRuneBoundary
  BY CharsetInvariant, CutHolds, PTL

\* All of x has been scanned.
LEMMA AllScanned ==
    ASSUME NEW t, NEW s, NEW h, NEW off, NEW x, Setting(t, s, h, off, x), NEW q,
           q \in Nat, q <= Len(x), SubSeq(x, q + 1, Len(x)) = <<>>
    PROVE  /\ q = Len(x)
           /\ Passed(t, x, q) = WholeIn(t, x)
           /\ Loose(t, x, q) = {p \in DOMAIN x : x[p].of \notin WholeIn(t, x)}
           /\ \A c : With(t, x, q, c) = {i \in WholeIn(t, x) : c \in Traits(t[i].class)}
           /\ IsFiniteSet(WholeIn(t, x))
  <1>1. Len(x) \in Nat /\ DOMAIN x = 1 .. Len(x) /\ x \in Seq(Byte) /\ t \in Seq(Character)
    BY DrawnBytes DEF Setting, Drawn
  <1>2. q = Len(x)
    <2>1. ~(q < Len(x))
      BY <1>1, RestOf
    <2>2. \A a, b \in Nat : a <= b /\ ~(a < b) => a = b
      OBVIOUS
    <2> QED BY <1>1, <2>1, <2>2, Zenon
  <1>3. ASSUME NEW i \in WholeIn(t, x) PROVE \E p \in 1 .. q : x[p].of = i
    <2>1. t[i].length \in 1 .. 4 /\ \E a \in Nat : At(t, x, i, a)
      BY WholeHas
    <2>2. PICK a \in Nat : At(t, x, i, a)
      BY <2>1, Zenon
    <2>3. 1 \in 1 .. t[i].length
      BY <2>1
    <2>4. a + 1 \in 1 .. Len(x) /\ x[a + 1].of = i
      BY <2>2, <2>3, Zenon DEF At
    <2> QED BY <1>2, <2>4
  <1>4. Passed(t, x, q) = WholeIn(t, x)
    BY <1>3, Zenon DEF Passed
  <1>5. \A c : With(t, x, q, c) = {i \in WholeIn(t, x) : c \in Traits(t[i].class)}
    BY <1>4, Zenon DEF With
  <1>6. Loose(t, x, q) = {p \in DOMAIN x : x[p].of \notin WholeIn(t, x)}
    BY <1>1, <1>2, Zenon DEF Loose
  <1>7. IsFiniteSet(WholeIn(t, x))
    BY <1>1, <1>4, Sizes, Zenon
  <1> QED BY <1>2, <1>4, <1>5, <1>6, <1>7, Zenon

\* The scan has counted what there is.
LEMMA CountsHold ==
    ASSUME CharsetInv
    PROVE  CountsMatchText
  <1> DEFINE whole == Whole(analyzed)
             loose == Cardinality({p \in DOMAIN analyzed : analyzed[p].of \notin whole})
             W(c) == Cardinality({i \in whole : c \in Traits(input.text[i].class)})
  <1> SUFFICES ASSUME phase \notin {"cut", "scan"}
               PROVE  IF HasSeam
                      THEN /\ \A c \in Asked : counts[c] \in W(c) .. W(c) + 1
                           /\ counts["totalChars"] \in Cardinality(whole) .. Cardinality(whole) + loose
                      ELSE /\ \A c \in Asked : counts[c] = W(c)
                           /\ counts["control"] = W("control") + loose
                           /\ counts["totalChars"] = Cardinality(whole) + loose
    BY Zenon DEF CountsMatchText, Asked
  <1>1. Progress /\ data = <<>>
    BY Zenon DEF CharsetInv
  <1>2. PICK t, x, k, s, h, off, q :
          /\ t = input.text /\ x = analyzed /\ k = counts
          /\ Setting(t, s, h, off, x)
          /\ h # 0 => HasSeam
          /\ ScannedTo(t, x, q, h, k)
          /\ data = SubSeq(x, q + 1, Len(x))
    BY <1>1, Zenon DEF Progress
  <1>3. q \in Nat /\ q <= Len(x) /\ k \in [Counters -> Nat] /\ Tally(t, x, q, h, k)
    BY <1>2, Zenon DEF ScannedTo
  <1>4. /\ Passed(t, x, q) = WholeIn(t, x)
        /\ Loose(t, x, q) = {p \in DOMAIN x : x[p].of \notin WholeIn(t, x)}
        /\ \A c : With(t, x, q, c) = {i \in WholeIn(t, x) : c \in Traits(t[i].class)}
    <2>1. SubSeq(x, q + 1, Len(x)) = <<>>
      BY <1>1, <1>2
    <2> QED BY <1>2, <1>3, <2>1, AllScanned
  <1>5. whole = WholeIn(t, x)
    BY <1>2, WholeIs
  <1>6. t \in Seq(Character)
    BY <1>2, Zenon DEF Setting
  <1> DEFINE P0 == Cardinality(Passed(t, x, q))
             L0 == Cardinality(Loose(t, x, q))
             W0(c) == Cardinality(With(t, x, q, c))
  <1>7. P0 \in Nat /\ L0 \in Nat /\ \A c : W0(c) \in Nat
    BY <1>3, <1>6, Sizes, Zenon
  <1>8. Cardinality(whole) = P0 /\ loose = L0 /\ \A c : W(c) = W0(c)
    <2>1. Cardinality(whole) = P0
      BY <1>4, <1>5
    <2>2. {p \in DOMAIN analyzed : analyzed[p].of \notin whole} = Loose(t, x, q)
      BY <1>2, <1>4, <1>5
    <2>3. ASSUME NEW c PROVE {i \in whole : c \in Traits(input.text[i].class)} = With(t, x, q, c)
      BY <1>2, <1>4, <1>5
    <2> QED BY <2>1, <2>2, <2>3, Zenon
  <1> HIDE DEF P0, L0, W0, whole, loose, W
  <1>9. \A c \in Counters : k[c] \in Nat
    BY <1>3
  <1>10. Asked \subseteq Counters /\ {"control", "totalChars"} \subseteq Counters
    BY DEF Asked, Counters
  <1>11. ASSUME NEW e \in {0, 1}, TallyWith(t, x, q, h, k, e)
         PROVE  /\ \A c \in Asked : counts[c] \in W(c) .. W(c) + 1
                /\ counts["totalChars"] \in Cardinality(whole) .. Cardinality(whole) + loose
                /\ e = 0 => \A c \in Asked : counts[c] = W(c)
    <2>1. /\ \A c \in Asked : W0(c) <= k[c] /\ k[c] <= W0(c) + e
          /\ P0 <= k["totalChars"] /\ k["totalChars"] <= P0 + L0
      BY <1>11, Zenon DEF TallyWith, P0, L0, W0
    <2>2. ASSUME NEW c \in Asked
          PROVE  counts[c] \in W(c) .. W(c) + 1 /\ (e = 0 => counts[c] = W(c))
      <3>1. counts[c] \in Nat /\ W(c) \in Nat /\ W(c) <= counts[c] /\ counts[c] <= W(c) + e
        BY <1>2, <1>7, <1>8, <1>9, <1>10, <2>1
      <3> QED BY <3>1
    <2>3. counts["totalChars"] \in Cardinality(whole) .. Cardinality(whole) + loose
      <3>1. k["totalChars"] \in Nat
        BY <1>9, <1>10, Zenon
      <3> QED BY <1>2, <1>7, <1>8, <2>1, <3>1
    <2> QED BY <2>2, <2>3, Zenon
  <1>12. ASSUME TallyWith(t, x, q, h, k, 0)
         PROVE  /\ counts["control"] = W("control") + loose
                /\ counts["totalChars"] = Cardinality(whole) + loose
    <2>1. k["control"] = W0("control") + L0 /\ k["totalChars"] = P0 + L0
      BY <1>12, Zenon DEF TallyWith, P0, L0, W0
    <2> QED BY <1>2, <1>8, <2>1
  <1>13. ~HasSeam => TallyWith(t, x, q, h, k, 0)
    <2>1. TallyWith(t, x, q, h, k, 1) => h # 0
      BY Zenon DEF TallyWith
    <2> QED BY <1>2, <1>3, <2>1, Zenon DEF Tally
  <1>14. TallyWith(t, x, q, h, k, 0) \/ TallyWith(t, x, q, h, k, 1)
    BY <1>3, Zenon DEF Tally
  <1> QED BY <1>11, <1>12, <1>13, <1>14, Zenon

\* For every text, sampling and limit, the scan counts every whole character
\* once for each of its traits and every other byte as a control character, and
\* is one character off at most where head_tail has joined two pieces.
THEOREM ScanCountsText == Spec => []CountsMatchText
  BY CharsetInvariant, CountsHold, PTL

\* The scripts found: a look-alike character is never alone with its own script
\* when another is found beside it.
LEMMA ScriptsAre ==
    ASSUME counts["cyrillic"] > 0
    PROVE  ScriptsFound = {} \/ "latin" \in ScriptsFound \/ Cardinality(ScriptsFound) > 1
             <=> Cardinality(ScriptsFound) > 1
  <1>1. "cyrillic" \in ScriptsFound
    BY DEF ScriptsFound, Scripts
  <1>2. IsFiniteSet(ScriptsFound)
    <2>1. IsFiniteSet({}) /\ \A S, e : IsFiniteSet(S) => IsFiniteSet(S \cup {e})
      BY FS_EmptySet, FS_AddElement, Zenon
    <2>2. Scripts = ((({} \cup {"latin"}) \cup {"greek"}) \cup {"cyrillic"}) \cup {"han"}
      BY DEF Scripts
    <2>3. IsFiniteSet(Scripts)
      BY <2>1, <2>2, Zenon
    <2>4. ScriptsFound \subseteq Scripts
      BY DEF ScriptsFound
    <2> QED BY <2>3, <2>4, FS_Subset, Zenon
  <1>3. ASSUME "latin" \in ScriptsFound PROVE Cardinality(ScriptsFound) > 1
    <2> DEFINE S == {"cyrillic", "latin"}
    <2>1. IsFiniteSet({"cyrillic"}) /\ Cardinality({"cyrillic"}) = 1
      BY FS_Singleton, Zenon
    <2>2. "latin" \notin {"cyrillic"} /\ S = {"cyrillic"} \cup {"latin"}
      OBVIOUS
    <2>3. Cardinality(S) = 1 + 1
      BY <2>1, <2>2, FS_AddElement, Zenon
    <2>4. S \subseteq ScriptsFound
      BY <1>1, <1>3, Zenon
    <2> HIDE DEF S
    <2>5. Cardinality(S) <= Cardinality(ScriptsFound) /\ Cardinality(ScriptsFound) \in Nat
      BY <1>2, <2>4, FS_Subset, FS_CardinalityType, Zenon
    <2> QED BY <2>3, <2>5
  <1> QED BY <1>1, <1>3, Zenon

\* The flags follow from the text.
LEMMA FlagsHold ==
    ASSUME CharsetInv
    PROVE  FlagsMatchText
  <1>1. /\ input \in Inputs /\ sample = Sampled(input)
        /\ phase = "done" => Progress /\ data = <<>>
        /\ phase # "done" => flags = {}
        /\ phase = "done" => flags = IF counts["totalChars"] = 0 THEN {} ELSE FlagsRaised
    BY DEF CharsetInv
  <1>2. ASSUME phase # "done" PROVE FlagsMatchText
    BY <1>1, <1>2 DEF FlagsMatchText
  <1>3. ASSUME phase = "done" PROVE FlagsMatchText
    <2>1. PICK t, x, k, s, h, off, q :
            /\ t = input.text /\ x = analyzed /\ k = counts
            /\ Setting(t, s, h, off, x)
            /\ h # 0 => HasSeam
            /\ ScannedTo(t, x, q, h, k)
            /\ data = SubSeq(x, q + 1, Len(x))
      BY <1>1, <1>3, Zenon DEF Progress
    <2>2. /\ q \in Nat /\ q <= Len(x) /\ k \in [Counters -> Nat]
          /\ k["control"] = 0 => \A p \in 1 .. q : Covered(x, p)
          /\ \A c \in Counters : k[c] <= k["totalChars"]
          /\ input.confusable => k["confusable"] <= k["cyrillic"]
      BY <2>1, Zenon DEF ScannedTo
    <2>3. {"control", "totalChars", "confusable", "cyrillic"} \subseteq Counters
      BY DEF Counters, Scripts
    <2>4. q = Len(x)
      <3>1. SubSeq(x, q + 1, Len(x)) = <<>>
        BY <1>1, <1>3, <2>1
      <3> QED BY <2>1, <2>2, <3>1, AllScanned
    <2>5. \A c \in Counters : counts[c] \in Nat
      BY <2>1, <2>2
    <2>6. ASSUME ~(counts["control"] > 0) PROVE Valid(analyzed)
      <3>1. counts["control"] = 0
        BY <2>3, <2>5, <2>6
      <3>2. \A p \in 1 .. q : Covered(x, p)
        BY <2>1, <2>2, <3>1
      <3>3. DOMAIN x = 1 .. q
        BY <2>1, <2>4, DrawnBytes
      <3>4. Valid(x)
        BY <3>2, <3>3, Zenon DEF Valid, Covered
      <3> QED BY <2>1, <3>4
    <2>7. ASSUME Unbroken(analyzed) PROVE Valid(analyzed)
      <3>1. {x[p].of : p \in DOMAIN x} \subseteq WholeIn(t, x)
        BY <2>1, <2>7, WholeIs DEF Unbroken
      <3>2. Valid(x)
        BY <2>1, <3>1, UnbrokenIsValid
      <3> QED BY <2>1, <3>2
    <2>8. ASSUME Unbroken(sample) PROVE Unbroken(analyzed)
      <3>1. /\ analyzed = SubSeq(sample, 1, Len(analyzed))
            /\ \A p \in DOMAIN analyzed :
                 analyzed[p].of \in Whole(sample) => analyzed[p].of \in Whole(analyzed)
        BY <1>3, CutHolds DEF CutAtRuneBoundary
      <3>2. PICK u, g, o : Setting(input.text, u, g, o, sample)
        BY <1>1, InputIs, Zenon
      <3>3. PICK c \in 0 .. Len(sample) : analyzed = SubSeq(sample, 1, c)
        BY <1>3, Zenon DEF CharsetInv, CutDone
      <3>4. \A p \in 1 .. c : analyzed[p] = sample[p] /\ p \in 1 .. Len(sample)
        BY <3>2, <3>3, PrefixDrawn
      <3>5. DOMAIN analyzed = 1 .. c /\ DOMAIN sample = 1 .. Len(sample)
        <4>1. Setting(input.text, u, g, o, analyzed) /\ Len(analyzed) = c
          BY <3>2, <3>3, PrefixDrawn
        <4> QED BY <3>2, <4>1, DrawnBytes
      <3>6. \A p \in DOMAIN analyzed : analyzed[p].of \in Whole(sample)
        BY <2>8, <3>4, <3>5 DEF Unbroken
      <3> QED BY <3>1, <3>6, Zenon DEF Unbroken
    <2>9. CASE counts["totalChars"] = 0
      <3>1. flags = {}
        BY <1>1, <1>3, <2>9
      <3>2. ~(counts["confusable"] > 0)
        <4>1. counts["confusable"] \in Nat /\ counts["confusable"] <= counts["totalChars"]
          BY <2>1, <2>2, <2>3, <2>5
        <4> QED BY <2>9, <4>1
      <3> QED BY <3>1, <3>2, Zenon DEF FlagsMatchText
    <2>10. CASE counts["totalChars"] # 0
      <3>1. flags = FlagsRaised
        BY <1>1, <1>3, <2>10
      <3>2. /\ "invalid_utf8" \in flags <=> input.suspicious /\ ~Valid(analyzed)
            /\ "control_chars" \in flags <=> input.suspicious /\ counts["control"] > 0
            /\ "mixed_unicode_scripts" \in flags
                 <=> input.suspicious /\ input.scripts /\ Cardinality(ScriptsFound) > 1
            /\ "confusable_homoglyphs" \in flags
                 <=> input.suspicious /\ input.confusable /\ ShouldFlagConfusable
        <4> DEFINE v == ~Valid(analyzed)
                   w == counts["control"] > 0
                   y == counts["zeroWidth"] > 0
                   z == input.scripts /\ Cardinality(ScriptsFound) > 1
                   j == input.confusable /\ ShouldFlagConfusable
                   one(cond, flag) == IF input.suspicious /\ cond THEN {flag} ELSE {}
        <4>1. flags = one(v, "invalid_utf8") \cup one(w, "control_chars")
                        \cup one(y, "zero_width_chars") \cup one(z, "mixed_unicode_scripts")
                        \cup one(j, "confusable_homoglyphs")
          BY <3>1, Zenon DEF FlagsRaised
        <4> HIDE DEF v, w, y, z, j
        <4>2. /\ "invalid_utf8" \in flags <=> input.suspicious /\ v
              /\ "control_chars" \in flags <=> input.suspicious /\ w
              /\ "mixed_unicode_scripts" \in flags <=> input.suspicious /\ z
              /\ "confusable_homoglyphs" \in flags <=> input.suspicious /\ j
          BY <4>1
        <4> HIDE DEF one
        <4> QED BY <4>2, Zenon DEF v, w, z, j
      <3>3. ASSUME input.confusable
            PROVE  ShouldFlagConfusable <=> counts["confusable"] > 0 /\ Cardinality(ScriptsFound) > 1
        <4>1. counts["confusable"] > 0 => counts["cyrillic"] > 0
          <5>1. /\ counts["confusable"] \in Nat /\ counts["cyrillic"] \in Nat
                /\ counts["confusable"] <= counts["cyrillic"]
            BY <2>1, <2>2, <2>3, <2>5, <3>3
          <5> QED BY <5>1
        <4> QED BY <4>1, ScriptsAre, Zenon DEF ShouldFlagConfusable
      <3>4. Unbroken(sample) => "invalid_utf8" \notin flags
        BY <2>7, <2>8, <3>2, Zenon
      <3>5. "invalid_utf8" \in flags => "control_chars" \in flags /\ ~Unbroken(analyzed)
        BY <2>6, <2>7, <3>2, Zenon
      <3>6. input.suspicious /\ input.confusable =>
              ("confusable_homoglyphs" \in flags <=>
                 counts["confusable"] > 0 /\ Cardinality(ScriptsFound) > 1)
        BY <3>2, <3>3, Zenon
      <3>7. "confusable_homoglyphs" \in flags /\ input.scripts => "mixed_unicode_scripts" \in flags
        BY <3>2, <3>3, Zenon
      <3> QED BY <3>4, <3>5, <3>6, <3>7, Zenon DEF FlagsMatchText
    <2> QED BY <2>9, <2>10
  <1> QED BY <1>2, <1>3

\* For every text, sampling and limit, the flags follow from the text: well-formed
\* text that the sample has not split is not called invalid, invalid text has a
\* control character, and look-alike characters are reported exactly when there
\* is another script beside theirs.
THEOREM FlagsFollowText == Spec => []FlagsMatchText
  BY CharsetInvariant, FlagsHold, PTL

=============================================================================
