-------------------------- MODULE ChoiceCodec_proofs --------------------------
(***************************************************************************)
(* For every list of items, every set of versions and any number of        *)
(* messages: what ChoiceCodec promises of the emitted CHOICE and ENUMERATED *)
(* codecs.  The invariant says where the decoder stands in the message, so *)
(* that the tokens it reads are those the encoder wrote there, and what it *)
(* has done to the struct by then, whatever arrives.                       *)
(***************************************************************************)
EXTENDS ChoiceCodec, TLAPS, SequenceTheorems

(* Where a message has been sent; the values an alternative may hold, and  *)
(* the structs of the receiver.                                            *)
Started == pc # "idle"
Value   == {Nil} \union (Nat \X Nat)
Structs ==
  IF type = "CHOICE"
    THEN [tag : 0 .. Known(receiver), alt : [1 .. Known(receiver) -> Value]]
    ELSE [tag : Nat, alt : {<<>>}]

(* The tokens of a message with alternative k, of value x: the last token  *)
(* of its head tells k, and its value comes after the head.                *)
HeadLen(version) == IF version.extensible THEN 2 ELSE 1
TokensLen(version) == HeadLen(version) + (IF type = "CHOICE" THEN 1 ELSE 0)
Selector(k) == IF k > Root THEN Token("small", k - Root - 1) ELSE Token("index", k - 1)
Content(k, x) == Token(IF k > Root THEN "open" ELSE "value", x)
Front(version, k) ==
  IF version.extensible THEN <<Token("bit", k > Root), Selector(k)>> ELSE <<Selector(k)>>
Back(k, x) == IF type = "CHOICE" THEN <<Content(k, x)>> ELSE <<>>
AnyToken ==
  [kind : {"bit", "index", "small", "value", "open"}, x : BOOLEAN \union Nat \union Value]

GoodToken(t) ==
  /\ t.kind \in {"index", "small"} => t.x \in Nat
  /\ t.kind = "bit" => t.x \in BOOLEAN
  /\ t.kind = "value" => t.x \in Nat \X Nat
  /\ t.kind = "open" => t.x \in Value

Typed ==
  /\ TypeOK /\ v \in Structs /\ before \in Structs
  /\ Len(wire) \in Nat /\ \A j \in 1 .. Len(wire) : GoodToken(wire[j])

(* The wire is what was sent, or the first tokens of it. *)
Sending ==
  Started =>
    /\ Sent \in 1 .. Known(sender) /\ message = Filled(sender, Sent, count)
    /\ ~damaged => /\ Len(wire) <= Len(Original)
                   /\ \A j \in 1 .. Len(wire) : wire[j] = Original[j]
                   /\ Len(wire) = Len(Original) => wire = Original

(* What the decoder has done to the struct, whatever arrives. *)
Filling ==
  /\ pc \in {"idle", "extensionBit", "rootIndex", "extensionIndex", "openType"} => v = before
  /\ pc = "value" => type = "CHOICE" /\ v.tag \in 1 .. Root /\ v.alt = before.alt
  /\ pc = "openType" => type = "CHOICE"
  /\ FailureKeepsValues /\ StaysConsistent

(* What an undamaged message of the same kind of type makes of it. *)
Decoded ==
  /\ wire = Original /\ pos = Len(Original)
  /\ IF Understood
       THEN /\ v.tag = message.tag
            /\ \A k \in DOMAIN v.alt : v.alt[k] = IF k = Sent THEN message.alt[k] ELSE before.alt[k]
       ELSE /\ v.alt = before.alt
            /\ v.tag = IF type = "CHOICE" THEN before.tag ELSE UnknownBase + (Sent - Root - 1)

(* Then the decoder stands where the encoder stood. *)
Tracking ==
  Compatible /\ Started =>
    /\ pc \notin {"invalid", "misread"}
    /\ pc = "extensionBit" => pos = 0 /\ receiver.extensible
    /\ pc = "rootIndex" => pos = HeadLen(receiver) - 1 /\ Sent <= Root
    /\ pc = "extensionIndex" => pos = 1 /\ receiver.extensible /\ Sent > Root
    /\ pc = "value" => pos = HeadLen(receiver) /\ Sent <= Root /\ v.tag = Sent
    /\ pc = "openType" => /\ pos = 2 /\ receiver.extensible /\ Sent > Root
                           /\ index = Sent - Root - 1
    /\ pc = "ok" => Decoded
    /\ pc = "eof" => Len(wire) < Len(Original) /\ (Understood \/ v = before)

Relaying == forwarded = Refused \/ (pc = "ok" /\ forwarded = Encode(receiver, v))

(* The inductive invariant. *)
Inv == Typed /\ Sending /\ Filling /\ Tracking /\ Relaying

-----------------------------------------------------------------------------
(* Versions, tags, and the alternatives a tag names. *)
LEMMA VersionFacts ==
  ASSUME NEW version \in Versions
  PROVE  /\ Root \in Nat /\ Root > 0 /\ Len(MoreItems) \in Nat
         /\ version.extensible \in BOOLEAN /\ version.additions \in Nat
         /\ Known(version) \in Root .. Root + Len(MoreItems)
         /\ Known(version) = Root + version.additions
         /\ ~version.extensible => Known(version) = Root
<1>1. version \in Version /\ version.additions <= Len(MoreItems)
  BY ChoiceAssumption
<1>2. ~version.extensible => version.additions = 0
  BY ChoiceAssumption
<1>3. Root \in Nat /\ Root > 0 /\ Len(MoreItems) \in Nat
  BY ChoiceAssumption DEF Root
<1> QED BY <1>1, <1>2, <1>3 DEF Known, Version

(* Two alternatives, or items, have different tags; no tag of an           *)
(* alternative is None.                                                    *)
LEMMA TagFacts ==
  ASSUME type \in {"CHOICE", "ENUMERATED"}
  PROVE  /\ \A k \in 1 .. Root + Len(MoreItems) : TagOf(k) \in Nat
         /\ \A j, k \in 1 .. Root + Len(MoreItems) : TagOf(j) = TagOf(k) => j = k
<1>1. /\ Items \in Seq(Nat) /\ MoreItems \in Seq(Nat) /\ Root \in Nat /\ Len(MoreItems) \in Nat
      /\ \A j, k \in 1 .. Root + Len(MoreItems) :
           (Items \o MoreItems)[j] = (Items \o MoreItems)[k] => j = k
  BY ChoiceAssumption DEF Root
<1>2. CASE type = "CHOICE"
  BY <1>1, <1>2 DEF TagOf
<1>3. CASE type = "ENUMERATED"
  <2>1. Items \o MoreItems \in Seq(Nat) /\ Len(Items \o MoreItems) = Root + Len(MoreItems)
    BY <1>1, ConcatProperties DEF Root
  <2>2. \A k \in 1 .. Root + Len(MoreItems) : (Items \o MoreItems)[k] \in Nat
    BY <2>1, ElementOfSeq
  <2> QED BY <1>1, <1>3, <2>2 DEF TagOf
<1> QED BY <1>2, <1>3

LEMMA NamedType ==
  ASSUME NEW version \in Versions, NEW tag
  PROVE  /\ Named(version, tag) \in 0 .. Known(version)
         /\ Named(version, tag) # 0 => TagOf(Named(version, tag)) = tag
         /\ (\A k \in 1 .. Known(version) : TagOf(k) # tag) => Named(version, tag) = 0
<1>1. Known(version) \in Nat
  BY VersionFacts
<1>2. CASE \E k \in 1 .. Known(version) : TagOf(k) = tag
  BY <1>1, <1>2 DEF Named
<1>3. CASE ~ \E k \in 1 .. Known(version) : TagOf(k) = tag
  BY <1>1, <1>3 DEF Named
<1> QED BY <1>2, <1>3

LEMMA NamedKnown ==
  ASSUME type \in {"CHOICE", "ENUMERATED"}, NEW version \in Versions,
         NEW k \in 1 .. Root + Len(MoreItems)
  PROVE  Named(version, TagOf(k)) = IF k <= Known(version) THEN k ELSE 0
<1>1. Known(version) \in Root .. Root + Len(MoreItems) /\ Root \in Nat /\ Len(MoreItems) \in Nat
  BY VersionFacts
<1>2. \A j \in 1 .. Known(version) : TagOf(j) = TagOf(k) => j = k
  BY <1>1, TagFacts
<1>3. CASE k <= Known(version)
  BY <1>1, <1>2, <1>3, NamedType DEF Named
<1>4. CASE k > Known(version)
  <2>1. \A j \in 1 .. Known(version) : TagOf(j) # TagOf(k)
    BY <1>1, <1>2, <1>4
  <2> QED BY <1>1, <1>4, <2>1, NamedType
<1> QED BY <1>1, <1>3, <1>4

-----------------------------------------------------------------------------
(* Encoding. *)
LEMMA NotNil == \A a, b : <<a, b>> # Nil
BY DEF Nil

LEMMA Joined ==
  ASSUME NEW S, NEW s \in Seq(S), NEW t \in Seq(S)
  PROVE  /\ s \o t \in Seq(S) /\ Len(s \o t) = Len(s) + Len(t)
         /\ \A j \in 1 .. Len(s) : (s \o t)[j] = s[j]
         /\ \A j \in 1 .. Len(t) : (s \o t)[Len(s) + j] = t[j]
BY ConcatProperties

(* A message with alternative k in it. *)
LEMMA FilledFacts ==
  ASSUME type \in {"CHOICE", "ENUMERATED"}, NEW version \in Versions,
         NEW k \in 1 .. Known(version), NEW m \in Nat
  PROVE  /\ Named(version, Filled(version, k, m).tag) = k
         /\ Filled(version, k, m).tag = TagOf(k)
         /\ type = "CHOICE" => Filled(version, k, m).alt[k] = <<m, k>>
         /\ <<m, k>> \in Value \ {Nil} /\ <<m, k>> \in Nat \X Nat
<1>1. Known(version) \in Root .. Root + Len(MoreItems) /\ Root \in Nat /\ Len(MoreItems) \in Nat
  BY VersionFacts
<1>2. Named(version, TagOf(k)) = k
  BY <1>1, NamedKnown
<1>3. <<m, k>> \in Nat \X Nat
  BY <1>1
<1>4. type = "CHOICE" => Filled(version, k, m).alt[k] = <<m, k>>
  BY <1>1 DEF Filled, New
<1> QED BY <1>2, <1>3, <1>4, NotNil DEF Filled, Value

LEMMA EncodeFilled ==
  ASSUME type \in {"CHOICE", "ENUMERATED"}, NEW version \in Versions,
         NEW k \in 1 .. Known(version), NEW m \in Nat
  PROVE  Encode(version, Filled(version, k, m)) =
           [ok |-> TRUE, tokens |-> Front(version, k) \o Back(k, <<m, k>>)]
<1> DEFINE s == Filled(version, k, m)
           x == <<m, k>>
<1>1. Named(version, s.tag) = k /\ (type = "CHOICE" => s.alt[k] = x) /\ x # Nil
  <2>1. /\ Named(version, s.tag) = k /\ (type = "CHOICE" => s.alt[k] = x)
        /\ x \in Value \ {Nil}
    BY FilledFacts
  <2> QED BY <2>1
<1> HIDE DEF s, x
<1>2. /\ Known(version) \in Nat /\ Root \in Nat /\ version.extensible \in BOOLEAN
      /\ ~version.extensible => k <= Root
  BY VersionFacts
<1> DEFINE head == CASE ~version.extensible -> <<Token("index", k - 1)>>
                     [] version.extensible /\ ~(k > Root) -> <<Token("bit", FALSE), Token("index", k - 1)>>
                     [] OTHER -> <<Token("bit", TRUE), Token("small", k - Root - 1)>>
<1>3. head = Front(version, k)
  <2>1. CASE ~version.extensible
    BY <1>2, <2>1 DEF Front, Selector
  <2>2. CASE version.extensible /\ k > Root
    <3>1. (k > Root) = TRUE
      BY <2>2
    <3> QED BY <2>2, <3>1 DEF Front, Selector
  <2>3. CASE version.extensible /\ ~(k > Root)
    <3>1. (k > Root) = FALSE
      BY <2>3
    <3> QED BY <2>3, <3>1 DEF Front, Selector
  <2> QED BY <1>2, <2>1, <2>2, <2>3
<1>4. Encode(version, s) = [ok |-> TRUE, tokens |-> head \o Back(k, x)]
  <2>1. CASE type = "CHOICE"
    <3>1. s.alt[k] = x /\ x # Nil
      BY <1>1, <2>1
    <3> QED BY <1>1, <2>1, <3>1 DEF Encode, Back, Content
  <2>2. CASE type = "ENUMERATED"
    BY <1>1, <2>2 DEF Encode, Back
  <2> QED BY <2>1, <2>2
<1> QED BY <1>3, <1>4 DEF s, x

LEMMA MessageShape ==
  ASSUME type \in {"CHOICE", "ENUMERATED"}, NEW version \in Versions,
         NEW k \in 1 .. Known(version), NEW m \in Nat,
         NEW tokens, tokens = Encode(version, Filled(version, k, m)).tokens
  PROVE  /\ tokens \in Seq(AnyToken) /\ Len(tokens) = TokensLen(version)
         /\ version.extensible => tokens[1] = Token("bit", k > Root)
         /\ tokens[HeadLen(version)] = Selector(k)
         /\ type = "CHOICE" => tokens[HeadLen(version) + 1] = Content(k, <<m, k>>)
         /\ \A j \in 1 .. Len(tokens) : GoodToken(tokens[j])
<1> DEFINE front == Front(version, k)
           back  == Back(k, <<m, k>>)
           bit   == Token("bit", k > Root)
           sel   == Selector(k)
           val   == Content(k, <<m, k>>)
<1>1. tokens = front \o back
  BY EncodeFilled
<1>2. Known(version) \in Nat /\ Root \in Nat /\ version.extensible \in BOOLEAN
  BY VersionFacts
<1>3. <<m, k>> \in Value \ {Nil} /\ <<m, k>> \in Nat \X Nat
  BY FilledFacts
<1>4. bit \in AnyToken /\ GoodToken(bit)
  BY DEF GoodToken, Token, AnyToken
<1>5. sel \in AnyToken /\ GoodToken(sel)
  BY <1>2 DEF GoodToken, Token, AnyToken, Selector
<1>6. val \in AnyToken /\ GoodToken(val)
  BY <1>3 DEF GoodToken, Token, AnyToken, Content
<1>7. front = IF version.extensible THEN <<bit, sel>> ELSE <<sel>>
  BY DEF Front
<1>8. back = IF type = "CHOICE" THEN <<val>> ELSE <<>>
  BY DEF Back
<1> HIDE DEF front, back, bit, sel, val
<1>9. /\ front \in Seq(AnyToken) /\ Len(front) = HeadLen(version)
      /\ version.extensible => front[1] = bit
      /\ front[HeadLen(version)] = sel
  BY <1>2, <1>4, <1>5, <1>7 DEF HeadLen
<1>10. /\ back \in Seq(AnyToken) /\ Len(back) = IF type = "CHOICE" THEN 1 ELSE 0
       /\ type = "CHOICE" => back[1] = val
  BY <1>6, <1>8
<1>11. /\ tokens \in Seq(AnyToken) /\ Len(tokens) = Len(front) + Len(back)
       /\ \A j \in 1 .. Len(front) : tokens[j] = front[j]
       /\ \A j \in 1 .. Len(back) : tokens[Len(front) + j] = back[j]
  <2>1. front \in Seq(AnyToken) /\ back \in Seq(AnyToken)
    BY <1>9, <1>10
  <2>2. /\ front \o back \in Seq(AnyToken) /\ Len(front \o back) = Len(front) + Len(back)
        /\ \A j \in 1 .. Len(front) : (front \o back)[j] = front[j]
        /\ \A j \in 1 .. Len(back) : (front \o back)[Len(front) + j] = back[j]
    BY <2>1, Joined
  <2> QED BY <1>1, <2>2
<1>12. HeadLen(version) \in 1 .. 2 /\ (version.extensible => HeadLen(version) = 2)
  BY <1>2 DEF HeadLen
<1>13. Len(tokens) = TokensLen(version)
  BY <1>9, <1>10, <1>11 DEF TokensLen
<1>14. (version.extensible => tokens[1] = bit) /\ tokens[HeadLen(version)] = sel
  BY <1>9, <1>11, <1>12
<1>15. type = "CHOICE" => tokens[HeadLen(version) + 1] = val
  BY <1>9, <1>10, <1>11
<1>16. ASSUME NEW j \in 1 .. Len(tokens)
      PROVE  GoodToken(tokens[j])
  <2>1. \/ j = 1 /\ version.extensible
        \/ j = HeadLen(version)
        \/ j = HeadLen(version) + 1 /\ type = "CHOICE"
    BY <1>2, <1>13 DEF HeadLen, TokensLen
  <2> QED BY <1>4, <1>5, <1>6, <1>14, <1>15, <2>1
<1> QED BY <1>11, <1>13, <1>14, <1>15, <1>16 DEF bit, sel, val

(* Two structs with the same alternative and value in it are encoded alike *)
(* by two versions that are extensible or are not.                         *)
LEMMA EncodeSame ==
  ASSUME NEW one, NEW other, one.extensible = other.extensible,
         NEW s, NEW t, NEW k, Named(one, s.tag) = k, Named(other, t.tag) = k, k # 0,
         type = "CHOICE" => s.alt[k] = t.alt[k] /\ s.alt[k] # Nil
  PROVE  Encode(one, s).tokens = Encode(other, t).tokens
BY DEF Encode

LEMMA EncodeRefused ==
  ASSUME NEW version, NEW s, Named(version, s.tag) = 0
  PROVE  ~Encode(version, s).ok
BY DEF Encode, Refused

-----------------------------------------------------------------------------
(* Where the decoder stands: what the invariant says of numbers. *)
LEMMA Facts ==
  ASSUME Inv
  PROVE  /\ type \in {"CHOICE", "ENUMERATED"} /\ sender \in Versions /\ receiver \in Versions
         /\ count \in Nat /\ Len(wire) \in Nat /\ pos \in 0 .. Len(wire) /\ index \in Nat
         /\ Root \in Nat /\ Root > 0 /\ Known(sender) \in Nat /\ Known(receiver) \in Nat
         /\ Root <= Known(receiver) /\ Root <= Known(sender)
         /\ receiver.additions \in Nat /\ Known(receiver) = Root + receiver.additions
         /\ receiver.extensible \in BOOLEAN /\ sender.extensible \in BOOLEAN
         /\ ~sender.extensible => Known(sender) = Root
         /\ Known(sender) <= Root + Len(MoreItems) /\ Known(receiver) <= Root + Len(MoreItems)
         /\ Len(MoreItems) \in Nat /\ UnknownBase \in Nat
<1>1. type \in {"CHOICE", "ENUMERATED"} /\ sender \in Versions /\ receiver \in Versions
  BY DEF Inv, Typed, TypeOK
<1>2. /\ Root \in Nat /\ Root > 0 /\ Len(MoreItems) \in Nat
      /\ receiver.extensible \in BOOLEAN /\ receiver.additions \in Nat
      /\ Known(receiver) = Root + receiver.additions /\ Known(receiver) <= Root + Len(MoreItems)
  BY <1>1, VersionFacts
<1>3. /\ sender.extensible \in BOOLEAN /\ Known(sender) \in Root .. Root + Len(MoreItems)
      /\ ~sender.extensible => Known(sender) = Root
  BY <1>1, VersionFacts
<1>4. count \in Nat /\ Len(wire) \in Nat /\ pos \in 0 .. Len(wire) /\ index \in Nat
  <2>1. count \in 0 .. MaxMessages /\ MaxMessages \in Nat
    BY ChoiceAssumption DEF Inv, Typed, TypeOK
  <2>2. Len(wire) \in Nat /\ pos \in 0 .. Len(wire) /\ index \in Nat
    BY DEF Inv, Typed, TypeOK
  <2> QED BY <2>1, <2>2
<1>5. UnknownBase \in Nat
  BY ChoiceAssumption
<1> QED BY <1>1, <1>2, <1>3, <1>4, <1>5

LEMMA OriginalShape ==
  ASSUME Inv, Started
  PROVE  /\ Sent \in 1 .. Known(sender)
         /\ Original \in Seq(AnyToken) /\ Len(Original) = TokensLen(sender)
         /\ sender.extensible => Original[1] = Token("bit", Sent > Root)
         /\ Original[HeadLen(sender)] = Selector(Sent)
         /\ type = "CHOICE" => Original[HeadLen(sender) + 1] = Content(Sent, message.alt[Sent])
         /\ type = "CHOICE" => message.alt[Sent] \in Nat \X Nat
         /\ message.tag = TagOf(Sent)
<1>1. Sent \in 1 .. Known(sender) /\ message = Filled(sender, Sent, count)
  BY DEF Inv, Sending
<1>2. Original = Encode(sender, Filled(sender, Sent, count)).tokens
  BY <1>1 DEF Original
<1>3. type = "CHOICE" => message.alt[Sent] = <<count, Sent>>
  BY <1>1, Facts, FilledFacts
<1>4. message.tag = TagOf(Sent) /\ <<count, Sent>> \in Nat \X Nat
  BY <1>1, Facts, FilledFacts
<1>5. /\ Original \in Seq(AnyToken) /\ Len(Original) = TokensLen(sender)
      /\ sender.extensible => Original[1] = Token("bit", Sent > Root)
      /\ Original[HeadLen(sender)] = Selector(Sent)
      /\ type = "CHOICE" => Original[HeadLen(sender) + 1] = Content(Sent, <<count, Sent>>)
  <2>1. type \in {"CHOICE", "ENUMERATED"} /\ sender \in Versions /\ count \in Nat
    BY Facts
  <2> QED BY <1>1, <1>2, <2>1, MessageShape
<1> QED BY <1>1, <1>3, <1>4, <1>5

(* The token that an encoder of the same kind of type wrote where the      *)
(* decoder stands is the one it is about to read.                          *)
LEMMA Expected ==
  ASSUME Inv, Compatible
  PROVE  /\ pc = "extensionBit" =>
              pos + 1 \in 1 .. Len(Original) /\ Original[pos + 1] = Token("bit", Sent > Root)
         /\ pc = "rootIndex" =>
              pos + 1 \in 1 .. Len(Original) /\ Original[pos + 1] = Token("index", Sent - 1)
         /\ pc = "value" =>
              pos + 1 = Len(Original) /\ Original[pos + 1] = Token("value", message.alt[Sent])
         /\ pc = "extensionIndex" =>
              pos + 1 \in 1 .. Len(Original) /\ Original[pos + 1] = Token("small", Sent - Root - 1)
         /\ pc = "openType" =>
              pos + 1 = Len(Original) /\ Original[pos + 1] = Token("open", message.alt[Sent])
<1> DEFINE bit == Token("bit", Sent > Root)
           alt == message.alt[Sent]
<1>0. Len(Original) = TokensLen(sender) => Len(Original) \in Nat
  BY DEF TokensLen, HeadLen
<1>1. /\ type \in {"CHOICE", "ENUMERATED"} /\ pos \in Nat /\ Root \in Nat
      /\ receiver.extensible = sender.extensible /\ receiver.extensible \in BOOLEAN
      /\ HeadLen(receiver) = HeadLen(sender)
  BY Facts DEF Compatible, HeadLen
<1>2. ASSUME Started
      PROVE  /\ Sent \in 1 .. Known(sender) /\ Len(Original) = TokensLen(sender)
             /\ sender.extensible => Original[1] = bit
             /\ Original[HeadLen(sender)] = Selector(Sent)
             /\ type = "CHOICE" => Original[HeadLen(sender) + 1] = Content(Sent, alt)
  BY <1>2, OriginalShape
<1> HIDE DEF bit, alt
<1>3. CASE pc = "extensionBit"
  <2>1. Started /\ pos = 0 /\ sender.extensible
    BY <1>1, <1>3 DEF Inv, Tracking, Started
  <2>2. Original[1] = bit /\ Len(Original) \in 2 .. 3
    BY <1>2, <2>1 DEF TokensLen, HeadLen
  <2>3. pos + 1 = 1
    BY <2>1
  <2>4. pos + 1 \in 1 .. Len(Original)
    BY <2>2, <2>3
  <2>5. Original[pos + 1] = bit
    BY <2>2, <2>3
  <2> QED BY <1>3, <2>4, <2>5 DEF bit
<1>4. CASE pc = "rootIndex"
  <2>1. Started /\ pos = HeadLen(sender) - 1 /\ Sent <= Root
    BY <1>1, <1>4 DEF Inv, Tracking, Started
  <2>2. Original[HeadLen(sender)] = Token("index", Sent - 1) /\ Len(Original) = TokensLen(sender)
    BY <1>1, <1>2, <2>1 DEF Selector
  <2>3. pos + 1 = HeadLen(sender) /\ HeadLen(sender) \in 1 .. TokensLen(sender)
    BY <2>1 DEF TokensLen, HeadLen
  <2> QED BY <1>4, <2>2, <2>3
<1>5. CASE pc = "value"
  <2>1. Started /\ pos = HeadLen(sender) /\ Sent <= Root /\ type = "CHOICE"
    BY <1>1, <1>5 DEF Inv, Tracking, Filling, Started
  <2>2. Original[pos + 1] = Token("value", alt) /\ Len(Original) = TokensLen(sender)
    BY <1>1, <1>2, <2>1 DEF Content
  <2> QED BY <1>5, <2>1, <2>2 DEF TokensLen, HeadLen, alt
<1>6. CASE pc = "extensionIndex"
  <2>1. Started /\ pos = 1 /\ sender.extensible /\ Sent > Root
    BY <1>1, <1>6 DEF Inv, Tracking, Started
  <2>2. HeadLen(sender) = 2 /\ Len(Original) \in 2 .. 3
    BY <1>2, <2>1 DEF TokensLen, HeadLen
  <2>3. Original[2] = Token("small", Sent - Root - 1)
    BY <1>2, <2>1, <2>2 DEF Selector
  <2>4. pos + 1 = 2
    BY <2>1
  <2>5. pos + 1 \in 1 .. Len(Original)
    BY <2>1, <2>2
  <2>6. Original[pos + 1] = Token("small", Sent - Root - 1)
    BY <2>3, <2>4
  <2> QED BY <1>6, <2>5, <2>6
<1>7. CASE pc = "openType"
  <2>1. /\ Started /\ pos = 2 /\ sender.extensible /\ Sent > Root /\ type = "CHOICE"
    BY <1>1, <1>7 DEF Inv, Tracking, Filling, Started
  <2>2. HeadLen(sender) = 2 /\ Len(Original) = 3
    BY <1>2, <2>1 DEF TokensLen, HeadLen
  <2>3. Original[3] = Token("open", alt)
    BY <1>2, <2>1, <2>2 DEF Content
  <2>4. pos + 1 = 3
    BY <2>1
  <2> QED BY <1>7, <2>2, <2>3, <2>4 DEF alt
<1> QED BY <1>3, <1>4, <1>5, <1>6, <1>7

(* A token that has arrived whole and undamaged is the one sent.           *)
LEMMA Arrived ==
  ASSUME Inv, Compatible, Started, pos < Len(wire)
  PROVE  wire[pos + 1] = Original[pos + 1] /\ pos + 1 <= Len(Original)
<1>1. pos + 1 \in 1 .. Len(wire)
  BY Facts
<1>2. Len(wire) <= Len(Original) /\ \A j \in 1 .. Len(wire) : wire[j] = Original[j]
  BY DEF Inv, Sending, Compatible
<1>3. Len(Original) \in Nat
  BY Facts, OriginalShape DEF TokensLen, HeadLen
<1> QED BY <1>1, <1>2, <1>3, Facts

-----------------------------------------------------------------------------
LEMMA SameMessage ==
  ASSUME UNCHANGED <<type, sender, receiver, message, damaged>>
  PROVE  /\ Sent' = Sent /\ Original' = Original /\ Compatible' = Compatible
         /\ Understood' = Understood /\ Structs' = Structs
BY DEF Sent, Original, Compatible, Understood, Structs, Named, TagOf, Encode

(* A new struct is one. *)
LEMMA NewStruct ==
  ASSUME type \in {"CHOICE", "ENUMERATED"}, receiver \in Versions
  PROVE  New(receiver) \in Structs
<1>0. Known(receiver) \in Nat
  BY VersionFacts
<1>1. CASE type = "CHOICE"
  <2>1. [k \in 1 .. Known(receiver) |-> Nil] \in [1 .. Known(receiver) -> Value]
    BY DEF Value
  <2>2. New(receiver) = [tag |-> 0, alt |-> [k \in 1 .. Known(receiver) |-> Nil]]
    BY <1>1 DEF New
  <2>3. Structs = [tag : 0 .. Known(receiver), alt : [1 .. Known(receiver) -> Value]]
    BY <1>1 DEF Structs
  <2> QED BY <1>0, <2>1, <2>2, <2>3
<1>2. CASE type = "ENUMERATED"
  BY <1>2 DEF New, Structs
<1> QED BY <1>1, <1>2

LEMMA InvInit == Init => Inv
<1> SUFFICES ASSUME Init PROVE Inv
  OBVIOUS
<1>1. type \in {"CHOICE", "ENUMERATED"} /\ receiver \in Versions /\ Known(receiver) \in Nat
  BY VersionFacts DEF Init
<1>2. New(receiver) \in Structs
  BY <1>1, NewStruct
<1>3. wire = <<>> /\ pos = 0 /\ Len(wire) = 0 /\ pc = "idle" /\ ~Started
  BY DEF Init, Started
<1>4. TypeOK
  <2>1. MaxMessages \in Nat /\ forwarded.ok \in BOOLEAN
    BY ChoiceAssumption DEF Init, Refused
  <2>2. v = New(receiver) /\ before = New(receiver)
    BY DEF Init
  <2>3. \A s \in {v, before} :
          IF type = "CHOICE"
            THEN s.tag \in 0 .. Known(receiver) /\ DOMAIN s.alt = 1 .. Known(receiver)
            ELSE s.tag \in Nat /\ s.alt = <<>>
    BY <1>2, <2>2 DEF Structs
  <2>4. /\ type \in {"CHOICE", "ENUMERATED"} /\ sender \in Versions /\ receiver \in Versions
        /\ damaged \in BOOLEAN /\ pc = "idle" /\ count = 0 /\ index = 0
    BY DEF Init
  <2>5. count \in 0 .. MaxMessages /\ pos \in 0 .. Len(wire) /\ index \in Nat
    BY <1>3, <2>1, <2>4
  <2> QED BY <2>1, <2>3, <2>4, <2>5 DEF TypeOK
<1>5. Typed
  BY <1>2, <1>3, <1>4 DEF Init, Typed
<1>6. Filling
  BY <1>3 DEF Init, Filling, FailureKeepsValues, StaysConsistent
<1> QED BY <1>3, <1>5, <1>6 DEF Init, Inv, Sending, Tracking, Relaying

(* A step of the decoder keeps what was sent; it has to show what it made  *)
(* of the struct and where it stands.                                      *)
LEMMA DecodeFrame ==
  ASSUME Inv, pc \in {"extensionBit", "rootIndex", "value", "extensionIndex", "openType"},
         UNCHANGED <<setting, input, forwarded>>,
         pos' \in 0 .. Len(wire), index' \in Nat, v' \in Structs,
         pc' \in {"extensionBit", "rootIndex", "value", "extensionIndex", "openType",
                  "ok", "eof", "invalid", "misread"},
         Filling', Tracking'
  PROVE  Inv'
<1>1. /\ UNCHANGED <<type, sender, receiver, count, message, wire, damaged, before, forwarded>>
      /\ Started /\ Started'
  BY DEF setting, input, Started
<1>2. Sent' = Sent /\ Original' = Original /\ Structs' = Structs
  BY <1>1, SameMessage
<1>3. forwarded = Refused
  BY DEF Inv, Relaying
<1>4. Relaying'
  BY <1>1, <1>3 DEF Relaying
<1>5. Sending'
  BY <1>1, <1>2 DEF Inv, Sending, Filled, TagOf, New
<1>6. TypeOK'
  <2>1. v' \in Structs' /\ before' \in Structs'
    BY <1>1, <1>2 DEF Inv, Typed
  <2>2. \A s \in {v', before'} :
          IF type' = "CHOICE"
            THEN s.tag \in 0 .. Known(receiver') /\ DOMAIN s.alt = 1 .. Known(receiver')
            ELSE s.tag \in Nat /\ s.alt = <<>>
    BY <2>1 DEF Structs
  <2> QED BY <1>1, <2>2 DEF Inv, Typed, TypeOK
<1>7. Typed'
  BY <1>1, <1>2, <1>6 DEF Inv, Typed
<1> QED BY <1>4, <1>5, <1>7 DEF Inv

(* A read that fails.  An undamaged message makes it fail only where the   *)
(* message was cut.                                                        *)
LEMMA FailsInv ==
  ASSUME Inv, pc \in {"extensionBit", "rootIndex", "value", "extensionIndex", "openType"},
         NEW kind, Fails(kind), UNCHANGED <<setting, input, index, forwarded>>,
         Compatible => pos + 1 \in 1 .. Len(Original) /\ Original[pos + 1].kind = kind
  PROVE  Inv'
<1>1. /\ UNCHANGED <<type, sender, receiver, count, message, wire, damaged, before, forwarded, pos, v, index>>
      /\ Started /\ Started' /\ pc' \in {"eof", "misread"}
  BY DEF setting, input, Started, Fails
<1>2. Sent' = Sent /\ Original' = Original /\ Structs' = Structs /\ Compatible' = Compatible /\ Understood' = Understood
  BY <1>1, SameMessage
<1>3. Filling'
  <2>1. v.alt = before.alt
    BY DEF Inv, Filling
  <2>2. v.tag # before.tag => type = "CHOICE" /\ v.tag \in 1 .. Known(receiver)
    <3>1. CASE pc = "value"
      BY <3>1, Facts DEF Inv, Filling
    <3>2. CASE pc # "value"
      BY <3>2 DEF Inv, Filling
    <3> QED BY <3>1, <3>2
  <2> QED BY <1>1, <2>1, <2>2 DEF Filling, FailureKeepsValues, StaysConsistent
<1>4. ASSUME Compatible
      PROVE  pc' = "eof" /\ Len(wire) < Len(Original) /\ (Understood \/ v = before)
  <2>1. pos < Len(wire) => wire[pos + 1] = Original[pos + 1]
    BY <1>1, <1>4, Arrived
  <2>2. pos = Len(wire) /\ pc' = "eof"
    BY <1>4, <2>1 DEF Fails
  <2>3. Len(wire) < Len(Original)
    <3>1. Len(Original) \in Nat
      BY <1>1, OriginalShape DEF TokensLen, HeadLen
    <3>2. Len(wire) + 1 \in 1 .. Len(Original) /\ Len(wire) \in Nat
      BY <1>4, <2>2, Facts
    <3> QED BY <3>1, <3>2
  <2>4. pc # "value" => v = before
    BY DEF Inv, Filling
  <2>5. pc = "value" => Understood
    BY <1>1, <1>4, Facts, OriginalShape DEF Inv, Tracking, Understood
  <2> QED BY <2>2, <2>3, <2>4, <2>5
<1>5. Tracking'
  BY <1>1, <1>2, <1>4 DEF Tracking
<1>6. v' \in Structs /\ pos' \in 0 .. Len(wire) /\ index' \in Nat
  BY <1>1, Facts DEF Inv, Typed
<1> QED BY <1>1, <1>3, <1>5, <1>6, DecodeFrame

(* A read that succeeds takes one token, of the kind it reads.             *)
LEMMA TakeFacts ==
  ASSUME Inv, Started, NEW kind, Take(kind)
  PROVE  /\ pos' = pos + 1 /\ pos' \in 0 .. Len(wire) /\ It = wire[pos + 1].x
         /\ wire[pos + 1].kind = kind /\ GoodToken(wire[pos + 1])
         /\ Compatible => Original[pos + 1] = wire[pos + 1]
<1>1. pos < Len(wire) /\ wire[pos + 1].kind = kind /\ pos' = pos + 1
  BY DEF Take
<1>2. pos + 1 \in 1 .. Len(wire)
  BY <1>1, Facts
<1>3. GoodToken(wire[pos + 1])
  BY <1>2 DEF Inv, Typed
<1>4. Compatible => Original[pos + 1] = wire[pos + 1]
  BY <1>1, Arrived
<1> QED BY <1>1, <1>2, <1>3, <1>4, Facts DEF It

LEMMA ReadExtensionBitInv == ASSUME Inv, ReadExtensionBit PROVE Inv'
<1>1. /\ UNCHANGED <<type, sender, receiver, count, message, wire, damaged, before, forwarded, index>>
      /\ UNCHANGED <<setting, input, index, forwarded>> /\ pc = "extensionBit" /\ Started
  BY DEF setting, input, Started, ReadExtensionBit
<1>2. CASE Fails("bit")
  <2>1. Compatible => pos + 1 \in 1 .. Len(Original) /\ Original[pos + 1].kind = "bit"
    <3>1. Compatible => pos + 1 \in 1 .. Len(Original) /\ Original[pos + 1] = Token("bit", Sent > Root)
      BY <1>1, Expected
    <3> QED BY <3>1 DEF Token
  <2> QED BY <1>1, <1>2, <2>1, FailsInv
<1>3. CASE Take("bit") /\ pc' = (IF It THEN "extensionIndex" ELSE "rootIndex") /\ UNCHANGED v
  <2>1. Sent' = Sent /\ Original' = Original /\ Structs' = Structs /\ Compatible' = Compatible /\ Understood' = Understood
    BY <1>1, SameMessage
  <2>2. It \in BOOLEAN /\ pos' = pos + 1 /\ pos' \in 0 .. Len(wire)
    BY <1>1, <1>3, TakeFacts DEF GoodToken
  <2>3. pc' \in {"extensionIndex", "rootIndex"} /\ v = before
    BY <1>1, <1>3 DEF Inv, Filling
  <2>4. Filling'
    BY <1>1, <1>3, <2>3 DEF Filling, FailureKeepsValues, StaysConsistent
  <2>5. ASSUME Compatible
        PROVE  /\ pos' = 1 /\ receiver.extensible
               /\ pc' = IF Sent > Root THEN "extensionIndex" ELSE "rootIndex"
    <3>1. wire[pos + 1] = Token("bit", Sent > Root)
      BY <1>1, <1>3, <2>5, TakeFacts, Expected
    <3>2. It = (Sent > Root)
      BY <3>1 DEF It, Token
    <3>3. pos = 0 /\ receiver.extensible
      BY <1>1, <2>5 DEF Inv, Tracking
    <3>4. pos' = 1
      BY <2>2, <3>3
    <3> QED BY <1>3, <3>2, <3>3, <3>4
  <2>6. Tracking'
    <3>1. Compatible => HeadLen(receiver) - 1 = 1
      BY <2>5 DEF HeadLen
    <3>2. Sent \in Nat /\ Root \in Nat
      BY <1>1, Facts, OriginalShape
    <3>3. Compatible' =>
            /\ pc' \in {"extensionIndex", "rootIndex"} /\ pos' = 1 /\ receiver.extensible
            /\ pc' = "rootIndex" => Sent <= Root
            /\ pc' = "extensionIndex" => Sent > Root
      BY <2>1, <2>3, <2>5, <3>2
    <3>4. Sent' = Sent /\ HeadLen(receiver)' = HeadLen(receiver) /\ receiver' = receiver
      BY <1>1, <2>1 DEF HeadLen
    <3> QED BY <2>1, <3>1, <3>3, <3>4 DEF Tracking
  <2>7. v' \in Structs /\ index' \in Nat
    BY <1>1, <1>3, Facts DEF Inv, Typed
  <2> QED BY <1>1, <2>2, <2>3, <2>4, <2>6, <2>7, DecodeFrame
<1> QED BY <1>2, <1>3 DEF ReadExtensionBit

LEMMA ReadRootIndexInv == ASSUME Inv, ReadRootIndex PROVE Inv'
<1>1. /\ UNCHANGED <<type, sender, receiver, count, message, wire, damaged, before, forwarded, index>>
      /\ UNCHANGED <<setting, input, index, forwarded>> /\ pc = "rootIndex" /\ Started
  BY DEF setting, input, Started, ReadRootIndex
<1>2. CASE Fails("index")
  <2>1. Compatible => pos + 1 \in 1 .. Len(Original) /\ Original[pos + 1].kind = "index"
    BY <1>1, Expected DEF Token
  <2> QED BY <1>1, <1>2, <2>1, FailsInv
<1>3. ASSUME Take("index"),
             \/ It >= Root /\ pc' = "invalid" /\ UNCHANGED v
             \/ /\ It < Root /\ v' = [v EXCEPT !.tag = TagOf(It + 1)]
                /\ pc' = IF type = "CHOICE" THEN "value" ELSE "ok"
      PROVE  Inv'
  <2>1. Sent' = Sent /\ Original' = Original /\ Structs' = Structs /\ Compatible' = Compatible /\ Understood' = Understood
    BY <1>1, SameMessage
  <2>2. It \in Nat /\ pos' = pos + 1 /\ pos' \in 0 .. Len(wire) /\ v = before /\ v \in Structs
    BY <1>1, <1>3, TakeFacts DEF GoodToken, Inv, Typed, Filling
  <2>3. CASE It >= Root /\ pc' = "invalid" /\ UNCHANGED v
    <3>1. Filling'
      BY <1>1, <2>2, <2>3 DEF Filling, FailureKeepsValues, StaysConsistent
    <3>2. ~Compatible
      <4>1. SUFFICES ASSUME Compatible PROVE FALSE
        OBVIOUS
      <4>2. wire[pos + 1] = Token("index", Sent - 1)
        BY <1>1, <1>3, <4>1, TakeFacts, Expected
      <4>3. It = Sent - 1 /\ Sent <= Root
        BY <1>1, <4>1, <4>2 DEF It, Token, Inv, Tracking
      <4> QED BY <1>1, <2>3, <4>3, Facts, OriginalShape
    <3>3. Tracking'
      BY <2>1, <3>2 DEF Tracking
    <3> QED BY <1>1, <2>2, <2>3, <3>1, <3>3, Facts, DecodeFrame
  <2>4. CASE /\ It < Root /\ v' = [v EXCEPT !.tag = TagOf(It + 1)]
             /\ pc' = IF type = "CHOICE" THEN "value" ELSE "ok"
    <3>1. It + 1 \in 1 .. Root + Len(MoreItems) /\ It + 1 \in 1 .. Root
      BY <2>2, <2>4, Facts
    <3>2. TagOf(It + 1) \in Nat /\ (type = "CHOICE" => TagOf(It + 1) = It + 1)
      BY <3>1, Facts, TagFacts DEF TagOf
    <3>3. v' \in Structs /\ v'.tag = TagOf(It + 1) /\ v'.alt = v.alt
      <4>1. CASE type = "CHOICE"
        <5>1. TagOf(It + 1) \in 0 .. Known(receiver)
          BY <3>1, <3>2, <4>1, Facts
        <5> QED BY <2>2, <2>4, <4>1, <5>1 DEF Structs
      <4>2. CASE type = "ENUMERATED"
        BY <2>2, <2>4, <3>2, <4>2 DEF Structs
      <4> QED BY <4>1, <4>2, Facts
    <3>4. Filling'
      <4>1. CASE type = "CHOICE"
        <5>1. v'.tag \in 1 .. Root /\ Root <= Known(receiver) /\ Root \in Nat /\ Known(receiver) \in Nat
          BY <3>1, <3>2, <3>3, <4>1, Facts
        <5> QED BY <1>1, <2>2, <2>4, <3>3, <4>1, <5>1 DEF Filling, FailureKeepsValues, StaysConsistent
      <4>2. CASE type = "ENUMERATED"
        BY <1>1, <2>2, <2>4, <4>2
          DEF Filling, FailureKeepsValues, StaysConsistent, Consistent
      <4> QED BY <4>1, <4>2, Facts
    <3>5. ASSUME Compatible
          PROVE  /\ Sent \in 1 .. Root /\ It + 1 = Sent /\ Understood
                 /\ pos' = HeadLen(receiver) /\ v'.tag = message.tag
                 /\ type = "ENUMERATED" => Len(Original) = pos' /\ wire = Original
      <4>1. /\ wire[pos + 1] = Token("index", Sent - 1)
        BY <1>1, <1>3, <3>5, TakeFacts, Expected
      <4>2. It = Sent - 1 /\ Sent <= Root /\ pos = HeadLen(receiver) - 1
        BY <1>1, <3>5, <4>1 DEF It, Token, Inv, Tracking
      <4>3. Sent \in 1 .. Root /\ It + 1 = Sent /\ Understood
        BY <1>1, <4>2, Facts, OriginalShape DEF Understood
      <4>4. pos' = HeadLen(receiver) /\ HeadLen(receiver) = HeadLen(sender)
        BY <2>2, <3>5, <4>2 DEF Compatible, HeadLen
      <4>5. v'.tag = message.tag
        BY <1>1, <3>3, <4>3, OriginalShape
      <4>6. ASSUME type = "ENUMERATED" PROVE Len(Original) = pos' /\ wire = Original
        <5>1. Len(Original) = pos'
          BY <1>1, <4>4, <4>6, OriginalShape DEF TokensLen, HeadLen
        <5>2. Len(wire) <= Len(Original) /\ (Len(wire) = Len(Original) => wire = Original)
          BY <1>1, <3>5 DEF Inv, Sending, Compatible
        <5> QED BY <2>2, <5>1, <5>2, Facts
      <4> QED BY <4>3, <4>4, <4>5, <4>6
    <3>6. ASSUME Compatible, type = "ENUMERATED" PROVE Decoded'
      <4>1. DOMAIN v'.alt = {}
        BY <3>3, <3>6 DEF Structs
      <4> QED BY <1>1, <2>1, <3>5, <3>6, <4>1 DEF Decoded
    <3>7. Tracking'
      <4>1. CASE type = "CHOICE"
        BY <1>1, <2>1, <2>4, <3>2, <3>3, <3>5, <4>1 DEF Tracking, HeadLen
      <4>2. CASE type = "ENUMERATED"
        BY <1>1, <2>1, <2>4, <3>6, <4>2 DEF Tracking
      <4> QED BY <4>1, <4>2, Facts
    <3> QED BY <1>1, <2>2, <2>4, <3>3, <3>4, <3>7, Facts, DecodeFrame
  <2> QED BY <1>3, <2>3, <2>4
<1> QED BY <1>2, <1>3 DEF ReadRootIndex

LEMMA ReadRootValueInv == ASSUME Inv, ReadRootValue PROVE Inv'
<1>1. /\ UNCHANGED <<type, sender, receiver, count, message, wire, damaged, before, forwarded, index>>
      /\ UNCHANGED <<setting, input, index, forwarded>> /\ pc = "value" /\ Started
  BY DEF setting, input, Started, ReadRootValue
<1>2. CASE Fails("value")
  <2>1. Compatible => pos + 1 \in 1 .. Len(Original) /\ Original[pos + 1].kind = "value"
    <3>1. Compatible => pos + 1 = Len(Original) /\ Original[pos + 1] = Token("value", message.alt[Sent])
      BY <1>1, Expected
    <3>2. pos + 1 \in Nat /\ pos + 1 >= 1
      BY Facts
    <3> QED BY <3>1, <3>2 DEF Token
  <2> QED BY <1>1, <1>2, <2>1, FailsInv
<1>3. ASSUME Take("value"), v' = [v EXCEPT !.alt[v.tag] = It], pc' = "ok"
      PROVE  Inv'
  <2>1. Sent' = Sent /\ Original' = Original /\ Structs' = Structs /\ Compatible' = Compatible /\ Understood' = Understood
    BY <1>1, SameMessage
  <2>2. /\ It \in Nat \X Nat /\ pos' = pos + 1 /\ pos' \in 0 .. Len(wire) /\ v \in Structs
        /\ type = "CHOICE" /\ v.tag \in 1 .. Root /\ v.alt = before.alt
    BY <1>1, <1>3, TakeFacts DEF GoodToken, Inv, Typed, Filling
  <2>3. It \in Value /\ It # Nil /\ v.tag \in 1 .. Known(receiver)
    <3>1. It \in Value
      BY <2>2 DEF Value
    <3>2. It # Nil
      <4>1. PICK a \in Nat, b \in Nat : It = <<a, b>>
        BY <2>2
      <4> QED BY <4>1, NotNil
    <3>3. v.tag \in 1 .. Known(receiver)
      BY <2>2, Facts
    <3> QED BY <3>1, <3>2, <3>3
  <2>4. /\ v' \in Structs /\ v'.tag = v.tag /\ v'.alt = [v.alt EXCEPT ![v.tag] = It]
        /\ v.alt \in [1 .. Known(receiver) -> Value]
    BY <1>3, <2>2, <2>3 DEF Structs
  <2>5. Filling'
    <3>1. v'.alt[v'.tag] # Nil
      BY <2>3, <2>4
    <3> QED BY <1>3, <3>1 DEF Filling, FailureKeepsValues, StaysConsistent, Consistent
  <2>6. ASSUME Compatible
        PROVE  Decoded'
    <3>1. wire[pos + 1] = Token("value", message.alt[Sent]) /\ pos + 1 = Len(Original)
      BY <1>1, <1>3, <2>6, TakeFacts, Expected
    <3>2. It = message.alt[Sent] /\ v.tag = Sent /\ Sent \in 1 .. Root /\ Understood
      BY <1>1, <2>2, <2>6, <3>1, Facts DEF It, Token, Inv, Tracking, Understood
    <3>3. wire = Original /\ pos' = Len(Original)
      <4>1. Len(wire) <= Len(Original) /\ (Len(wire) = Len(Original) => wire = Original)
        BY <1>1, <2>6 DEF Inv, Sending, Compatible
      <4> QED BY <2>2, <3>1, <4>1, Facts
    <3>4. v'.tag = message.tag
      BY <1>1, <2>2, <2>4, <3>2, OriginalShape DEF TagOf
    <3>5. \A k \in DOMAIN v'.alt : v'.alt[k] = IF k = Sent THEN message.alt[k] ELSE before.alt[k]
      BY <2>2, <2>4, <3>2
    <3> QED BY <1>1, <2>1, <3>2, <3>3, <3>4, <3>5 DEF Decoded
  <2>7. Tracking'
    BY <1>3, <2>1, <2>6 DEF Tracking
  <2> QED BY <1>1, <1>3, <2>2, <2>4, <2>5, <2>7, Facts, DecodeFrame
<1> QED BY <1>2, <1>3 DEF ReadRootValue

LEMMA ReadExtensionIndexInv == ASSUME Inv, ReadExtensionIndex PROVE Inv'
<1>1. /\ UNCHANGED <<type, sender, receiver, count, message, wire, damaged, before, forwarded>>
      /\ UNCHANGED <<setting, input, forwarded>> /\ pc = "extensionIndex" /\ Started
  BY DEF setting, input, Started, ReadExtensionIndex
<1>2. CASE Fails("small") /\ UNCHANGED index
  <2>1. Compatible => pos + 1 \in 1 .. Len(Original) /\ Original[pos + 1].kind = "small"
    BY <1>1, Expected DEF Token
  <2> QED BY <1>1, <1>2, <2>1, FailsInv
<1>3. ASSUME Take("small"), index' = It
      PROVE  Inv'
  <2>1. Sent' = Sent /\ Original' = Original /\ Structs' = Structs /\ Compatible' = Compatible /\ Understood' = Understood
    BY <1>1, SameMessage
  <2>2. It \in Nat /\ pos' = pos + 1 /\ pos' \in 0 .. Len(wire) /\ v = before /\ v \in Structs
    BY <1>1, <1>3, TakeFacts DEF GoodToken, Inv, Typed, Filling
  <2>3. ASSUME Compatible
        PROVE  /\ It = Sent - Root - 1 /\ Sent > Root /\ Sent \in Nat /\ pos' = 2 /\ receiver.extensible
               /\ Sent <= Known(sender) /\ HeadLen(sender) = 2
    <3>1. wire[pos + 1] = Token("small", Sent - Root - 1)
      BY <1>1, <1>3, <2>3, TakeFacts, Expected
    <3>2. pos = 1 /\ receiver.extensible /\ Sent > Root
      BY <1>1, <2>3 DEF Inv, Tracking
    <3>3. Sent \in 1 .. Known(sender) /\ Known(sender) \in Nat
      BY <1>1, Facts, OriginalShape
    <3> QED BY <2>2, <2>3, <3>1, <3>2, <3>3 DEF It, Token, Compatible, HeadLen
  <2>4. CASE type = "CHOICE" /\ pc' = "openType" /\ UNCHANGED v
    <3>1. Filling'
      BY <1>1, <2>2, <2>4 DEF Filling, FailureKeepsValues, StaysConsistent
    <3>2. Tracking'
      BY <1>1, <1>3, <2>1, <2>3, <2>4 DEF Tracking
    <3> QED BY <1>1, <1>3, <2>2, <2>4, <3>1, <3>2, DecodeFrame
  <2>5. CASE /\ type = "ENUMERATED" /\ pc' = "ok"
             /\ v' = [v EXCEPT !.tag = IF It < receiver.additions
                        THEN TagOf(Root + It + 1) ELSE It + UnknownBase]
    <3>1. It < receiver.additions => Root + It + 1 \in 1 .. Root + Len(MoreItems)
      <4>1. /\ Root \in Nat /\ Len(MoreItems) \in Nat /\ receiver.additions \in Nat
            /\ receiver.additions <= Len(MoreItems)
        BY Facts
      <4> QED BY <2>2, <4>1
    <3>2. /\ v' \in Structs /\ v'.alt = v.alt /\ v'.alt = <<>>
          /\ v'.tag = IF It < receiver.additions THEN TagOf(Root + It + 1) ELSE It + UnknownBase
      <4>1. (IF It < receiver.additions THEN TagOf(Root + It + 1) ELSE It + UnknownBase) \in Nat
        <5>1. It < receiver.additions => TagOf(Root + It + 1) \in Nat
          BY <3>1, Facts, TagFacts
        <5>2. It + UnknownBase \in Nat
          BY <2>2, Facts
        <5> QED BY <5>1, <5>2
      <4> QED BY <2>2, <2>5, <4>1 DEF Structs
    <3>3. Filling'
      BY <1>1, <2>5 DEF Filling, FailureKeepsValues, StaysConsistent, Consistent
    <3>4. ASSUME Compatible
          PROVE  Decoded'
      <4>1. Len(Original) = 2
        BY <1>1, <2>3, <2>5, <3>4, OriginalShape DEF TokensLen
      <4>2. wire = Original /\ pos' = Len(Original)
        <5>1. Len(wire) <= Len(Original) /\ (Len(wire) = Len(Original) => wire = Original)
          BY <1>1, <3>4 DEF Inv, Sending, Compatible
        <5>2. Len(wire) \in Nat /\ 2 <= Len(wire) /\ Len(wire) <= 2
          BY <2>2, <2>3, <3>4, <4>1, <5>1, Facts
        <5> DEFINE n == Len(wire)
        <5>3. n \in Nat /\ 2 <= n /\ n <= 2
          BY <5>2
        <5> HIDE DEF n
        <5>4. n = 2
          BY <5>3
        <5> QED BY <2>3, <3>4, <4>1, <5>1, <5>4 DEF n
      <4>3. Understood <=> It < receiver.additions
        BY <2>3, <3>4, Facts DEF Understood
      <4>4. Root + It + 1 = Sent
        BY <2>3, <3>4, Facts
      <4>5. Understood => v'.tag = message.tag
        BY <1>1, <3>2, <4>3, <4>4, OriginalShape
      <4>6. ~Understood => v'.tag = UnknownBase + (Sent - Root - 1)
        BY <2>3, <3>2, <3>4, <4>3, Facts
      <4>7. DOMAIN v'.alt = {}
        BY <3>2
      <4> QED BY <1>1, <2>1, <2>2, <2>5, <3>2, <4>2, <4>5, <4>6, <4>7 DEF Decoded
    <3>5. Tracking'
      BY <2>1, <2>5, <3>4 DEF Tracking
    <3> QED BY <1>1, <1>3, <2>2, <2>5, <3>2, <3>3, <3>5, DecodeFrame
  <2> QED BY <1>1, <1>3, <2>4, <2>5, Facts DEF ReadExtensionIndex, Fails, Take
<1> QED BY <1>2, <1>3 DEF ReadExtensionIndex

LEMMA ReadOpenTypeInv == ASSUME Inv, ReadOpenType PROVE Inv'
<1>1. /\ UNCHANGED <<type, sender, receiver, count, message, wire, damaged, before, forwarded, index>>
      /\ UNCHANGED <<setting, input, index, forwarded>> /\ pc = "openType" /\ Started
  BY DEF setting, input, Started, ReadOpenType
<1>2. CASE Fails("open")
  <2>1. Compatible => pos + 1 \in 1 .. Len(Original) /\ Original[pos + 1].kind = "open"
    <3>1. Compatible => pos + 1 = Len(Original) /\ Original[pos + 1] = Token("open", message.alt[Sent])
      BY <1>1, Expected
    <3>2. pos + 1 \in Nat /\ pos + 1 >= 1
      BY Facts
    <3> QED BY <3>1, <3>2 DEF Token
  <2> QED BY <1>1, <1>2, <2>1, FailsInv
<1>3. ASSUME Take("open")
      PROVE  Inv'
  <2>1. Sent' = Sent /\ Original' = Original /\ Structs' = Structs /\ Compatible' = Compatible /\ Understood' = Understood
    BY <1>1, SameMessage
  <2>2. /\ It \in Value /\ pos' = pos + 1 /\ pos' \in 0 .. Len(wire)
        /\ v = before /\ v \in Structs /\ type = "CHOICE"
    BY <1>1, <1>3, TakeFacts DEF GoodToken, Inv, Typed, Filling
  <2>3. ASSUME Compatible
        PROVE  /\ It = message.alt[Sent] /\ It # Nil /\ wire = Original /\ pos' = Len(Original)
               /\ index = Sent - Root - 1 /\ Sent \in Nat /\ Sent > Root /\ message.tag = Sent
               /\ Understood <=> index < receiver.additions
    <3>1. wire[pos + 1] = Token("open", message.alt[Sent]) /\ pos + 1 = Len(Original)
      BY <1>1, <1>3, <2>3, TakeFacts, Expected
    <3>2. It = message.alt[Sent] /\ It # Nil
      BY <1>1, <2>2, <3>1, OriginalShape, NotNil DEF It, Token
    <3>3. index = Sent - Root - 1 /\ Sent > Root
      BY <1>1, <2>3 DEF Inv, Tracking
    <3>4. Sent \in Nat /\ message.tag = Sent
      BY <1>1, <2>2, Facts, OriginalShape DEF TagOf
    <3>5. wire = Original /\ pos' = Len(Original)
      <4>1. Len(wire) <= Len(Original) /\ (Len(wire) = Len(Original) => wire = Original)
        BY <1>1, <2>3 DEF Inv, Sending, Compatible
      <4> QED BY <2>2, <3>1, <4>1, Facts
    <3> QED BY <3>2, <3>3, <3>4, <3>5, Facts DEF Understood
  <2>4. CASE index >= receiver.additions /\ pc' = "ok" /\ UNCHANGED v
    <3>1. Filling'
      BY <1>1, <2>2, <2>4 DEF Filling, FailureKeepsValues, StaysConsistent, Consistent
    <3>2. ASSUME Compatible PROVE Decoded'
      <4>1. ~Understood
        BY <2>3, <2>4, <3>2, Facts
      <4> QED BY <1>1, <2>1, <2>2, <2>3, <2>4, <3>2, <4>1 DEF Decoded
    <3>3. Tracking'
      BY <2>1, <2>4, <3>2 DEF Tracking
    <3> QED BY <1>1, <2>2, <2>4, <3>1, <3>3, Facts, DecodeFrame
  <2>5. CASE index < receiver.additions /\ It = Nil /\ pc' = "eof" /\ v' = [v EXCEPT !.tag = Root + index + 1]
    <3>1. Root + index + 1 \in 1 .. Known(receiver)
      BY <2>5, Facts
    <3>2. v' \in Structs /\ v'.tag = Root + index + 1 /\ v'.alt = v.alt
      <4>1. Root + index + 1 \in 0 .. Known(receiver)
        BY <3>1, Facts
      <4> QED BY <2>2, <2>5, <4>1 DEF Structs
    <3>3. Filling'
      BY <1>1, <2>2, <2>5, <3>1, <3>2 DEF Filling, FailureKeepsValues, StaysConsistent, Known
    <3>4. Tracking'
      BY <2>1, <2>3, <2>5 DEF Tracking
    <3> QED BY <1>1, <2>2, <2>5, <3>2, <3>3, <3>4, Facts, DecodeFrame
  <2>6. CASE /\ index < receiver.additions /\ It # Nil /\ pc' = "ok"
             /\ v' = [v EXCEPT !.tag = Root + index + 1, !.alt[Root + index + 1] = It]
    <3> DEFINE n == Root + index + 1
    <3>1. n \in 1 .. Known(receiver) /\ n \in 0 .. Known(receiver) /\ n # 0
      BY <2>6, Facts
    <3>2. v' = [v EXCEPT !.tag = n, !.alt[n] = It]
      BY <2>6
    <3> HIDE DEF n
    <3>3. /\ v' \in Structs /\ v'.tag = n /\ v'.alt = [v.alt EXCEPT ![n] = It]
          /\ v.alt \in [1 .. Known(receiver) -> Value]
      BY <2>2, <3>1, <3>2 DEF Structs
    <3>4. Filling'
      <4>1. v'.alt[v'.tag] # Nil
        BY <2>6, <3>1, <3>3
      <4> QED BY <2>6, <4>1 DEF Filling, FailureKeepsValues, StaysConsistent, Consistent
    <3>5. ASSUME Compatible PROVE Decoded'
      <4>1. Understood /\ n = Sent
        BY <2>3, <2>6, <3>5, Facts DEF n
      <4>2. \A k \in DOMAIN v'.alt : v'.alt[k] = IF k = Sent THEN message.alt[k] ELSE before.alt[k]
        BY <2>2, <2>3, <3>3, <3>5, <4>1
      <4> QED BY <1>1, <2>1, <2>3, <3>3, <3>5, <4>1, <4>2 DEF Decoded
    <3>6. Tracking'
      BY <2>1, <2>6, <3>5 DEF Tracking
    <3> QED BY <1>1, <2>2, <2>6, <3>3, <3>4, <3>6, Facts, DecodeFrame
  <2> QED BY <1>3, <2>4, <2>5, <2>6, Facts DEF ReadOpenType, Fails, Take
<1> QED BY <1>2, <1>3 DEF ReadOpenType

LEMMA ForwardInv == ASSUME Inv, Forward PROVE Inv'
<1>1. /\ UNCHANGED <<type, sender, receiver, count, message, wire, damaged, before, pos, pc, index, v>>
      /\ pc = "ok" /\ forwarded' = Encode(receiver, v)
  BY DEF setting, input, Forward
<1>2. Sent' = Sent /\ Original' = Original /\ Structs' = Structs /\ Compatible' = Compatible /\ Understood' = Understood
  BY <1>1, SameMessage
<1>3. forwarded'.ok \in BOOLEAN
  BY <1>1 DEF Encode, Refused
<1>4. Typed'
  BY <1>1, <1>2, <1>3 DEF Inv, Typed, TypeOK
<1>5. Sending'
  BY <1>1, <1>2 DEF Inv, Sending, Started, Filled, TagOf, New
<1>6. Filling'
  BY <1>1 DEF Inv, Filling, FailureKeepsValues, StaysConsistent, Consistent
<1>7. Tracking'
  BY <1>1, <1>2 DEF Inv, Tracking, Started, Decoded
<1>8. Relaying'
  BY <1>1 DEF Relaying, Encode, Named, TagOf
<1> QED BY <1>4, <1>5, <1>6, <1>7, <1>8 DEF Inv

(* What arrives of a message, cut or damaged, is still made of good tokens. *)
LEMMA DamageFacts ==
  ASSUME NEW tokens \in Seq(AnyToken), \A j \in 1 .. Len(tokens) : GoodToken(tokens[j]),
         NEW w \in Damage(tokens)
  PROVE  Len(w) \in Nat /\ \A j \in 1 .. Len(w) : GoodToken(w[j])
<1>1. ASSUME NEW j \in 1 .. Len(tokens), NEW n, w = [tokens EXCEPT ![j].x = n],
             \/ tokens[j].kind = "index" /\ n \in Nat
             \/ tokens[j].kind = "open" /\ n = Nil
      PROVE  Len(w) \in Nat /\ \A m \in 1 .. Len(w) : GoodToken(w[m])
  <2> DEFINE t == [tokens[j] EXCEPT !.x = n]
  <2>1. tokens[j] \in AnyToken
    OBVIOUS
  <2>2. t.kind = tokens[j].kind /\ t.x = n /\ t \in AnyToken /\ GoodToken(t)
    BY <1>1, <2>1 DEF AnyToken, GoodToken, Value
  <2>3. w = [tokens EXCEPT ![j] = t]
    BY <1>1
  <2> HIDE DEF t
  <2>4. Len(w) = Len(tokens) /\ \A m \in 1 .. Len(tokens) : w[m] = IF m = j THEN t ELSE tokens[m]
    BY <2>2, <2>3, ExceptSeq
  <2> QED BY <2>2, <2>4
<1>2. WidestIndex \in Nat
  BY ChoiceAssumption
<1>3. \/ \E j \in 1 .. Len(tokens), n \in 0 .. WidestIndex :
           tokens[j].kind = "index" /\ w = [tokens EXCEPT ![j].x = n]
      \/ \E j \in 1 .. Len(tokens) : tokens[j].kind = "open" /\ w = [tokens EXCEPT ![j].x = Nil]
  BY DEF Damage
<1>4. CASE \E j \in 1 .. Len(tokens), n \in 0 .. WidestIndex :
             tokens[j].kind = "index" /\ w = [tokens EXCEPT ![j].x = n]
  <2>1. PICK j \in 1 .. Len(tokens), n \in 0 .. WidestIndex :
          tokens[j].kind = "index" /\ w = [tokens EXCEPT ![j].x = n]
    BY <1>4
  <2>2. n \in Nat
    BY <1>2
  <2> QED BY <1>1, <2>1, <2>2
<1>5. CASE \E j \in 1 .. Len(tokens) : tokens[j].kind = "open" /\ w = [tokens EXCEPT ![j].x = Nil]
  BY <1>1, <1>5
<1> QED BY <1>3, <1>4, <1>5

LEMMA PrefixFacts ==
  ASSUME NEW tokens \in Seq(AnyToken), \A j \in 1 .. Len(tokens) : GoodToken(tokens[j]),
         NEW n \in 0 .. Len(tokens), NEW w, w = SubSeq(tokens, 1, n)
  PROVE  /\ Len(w) \in Nat /\ \A j \in 1 .. Len(w) : GoodToken(w[j])
         /\ Len(w) <= Len(tokens) /\ \A j \in 1 .. Len(w) : w[j] = tokens[j]
         /\ Len(w) = Len(tokens) => w = tokens
<1>1. \A j \in 1 .. n : tokens[j] \in AnyToken
  OBVIOUS
<1>2. Len(w) = n /\ \A j \in 1 .. n : w[j] = tokens[j]
  OBVIOUS
<1>3. n = Len(tokens) => w = tokens
  BY SubSeqFull
<1> QED BY <1>2, <1>3

LEMMA TransmitInv == ASSUME Inv, Transmit PROVE Inv'
<1>0. PICK m \in 1 .. MaxMessages : m = count'
  <2>1. count \in 0 .. MaxMessages /\ count < MaxMessages /\ count' = count + 1 /\ MaxMessages \in Nat
    BY ChoiceAssumption DEF Inv, Typed, TypeOK, Transmit
  <2>2. count' \in 1 .. MaxMessages
    BY <2>1
  <2> QED BY <2>2
<1>1. PICK k \in 1 .. Known(sender) :
        /\ message' = Filled(sender, k, m)
        /\ \/ damaged' = FALSE /\ \E n \in 0 .. Len(Encode(sender, Filled(sender, k, m)).tokens) :
                wire' = SubSeq(Encode(sender, Filled(sender, k, m)).tokens, 1, n)
           \/ damaged' = TRUE /\ wire' \in Damage(Encode(sender, Filled(sender, k, m)).tokens)
  BY <1>0 DEF Transmit
<1>2. /\ UNCHANGED <<type, sender, receiver>> /\ pos' = 0 /\ index' = 0 /\ forwarded' = Refused
      /\ pc' \in {"extensionBit", "rootIndex"}
      /\ pc' = IF receiver.extensible THEN "extensionBit" ELSE "rootIndex"
      /\ v' = before' /\ v' \in {New(receiver), v}
      /\ m \in Nat /\ count' \in 0 .. MaxMessages
  BY <1>0, ChoiceAssumption DEF Transmit, setting
<1> DEFINE tokens == Encode(sender, Filled(sender, k, m)).tokens
<1>3. /\ tokens \in Seq(AnyToken)
      /\ \A j \in 1 .. Len(tokens) : GoodToken(tokens[j])
  <2>1. type \in {"CHOICE", "ENUMERATED"} /\ sender \in Versions /\ m \in Nat
    BY <1>2, Facts
  <2> HIDE DEF tokens
  <2>2. tokens = Encode(sender, Filled(sender, k, m)).tokens
    BY DEF tokens
  <2> QED BY <2>1, <2>2, MessageShape
<1>4. Sent' = k
  <2>1. Named(sender, Filled(sender, k, m).tag) = k
    BY <1>2, Facts, FilledFacts
  <2> QED BY <1>1, <1>2, <2>1 DEF Sent, Named, TagOf, Known
<1>5. Original' = tokens
  <2>1. Original' = Encode(sender, message').tokens
    BY <1>2 DEF Original, Encode, Named, TagOf
  <2> QED BY <1>1, <2>1
<1> HIDE DEF tokens
<1>6. /\ Len(wire') \in Nat /\ \A j \in 1 .. Len(wire') : GoodToken(wire'[j])
      /\ damaged' \in BOOLEAN
      /\ ~damaged' => /\ Len(wire') <= Len(tokens) /\ \A j \in 1 .. Len(wire') : wire'[j] = tokens[j]
                      /\ Len(wire') = Len(tokens) => wire' = tokens
  <2>1. CASE damaged' = FALSE /\ \E n \in 0 .. Len(tokens) : wire' = SubSeq(tokens, 1, n)
    <3>1. PICK n \in 0 .. Len(tokens) : wire' = SubSeq(tokens, 1, n)
      BY <2>1
    <3>2. /\ Len(wire') \in Nat /\ \A j \in 1 .. Len(wire') : GoodToken(wire'[j])
          /\ Len(wire') <= Len(tokens) /\ \A j \in 1 .. Len(wire') : wire'[j] = tokens[j]
          /\ Len(wire') = Len(tokens) => wire' = tokens
      BY <1>3, <3>1, PrefixFacts
    <3> QED BY <2>1, <3>2
  <2>2. CASE damaged' = TRUE /\ wire' \in Damage(tokens)
    BY <1>3, <2>2, DamageFacts
  <2> QED BY <1>1, <2>1, <2>2 DEF tokens
<1>7. Started' /\ Structs' = Structs /\ New(receiver) \in Structs
  BY <1>2, Facts, NewStruct DEF Started, Structs, Known
<1>8. Sending'
  BY <1>0, <1>1, <1>2, <1>4, <1>5, <1>6 DEF Sending, Filled, TagOf, New, Known
<1>9. v' \in Structs' /\ before' \in Structs'
  BY <1>2, <1>7 DEF Inv, Typed
<1>10. Typed'
  <2>1. \A s \in {v', before'} :
          IF type' = "CHOICE"
            THEN s.tag \in 0 .. Known(receiver)' /\ DOMAIN s.alt = 1 .. Known(receiver)'
            ELSE s.tag \in Nat /\ s.alt = <<>>
    BY <1>9 DEF Structs, Known
  <2>2. pos' \in 0 .. Len(wire') /\ index' \in Nat /\ forwarded'.ok \in BOOLEAN
    BY <1>2, <1>6 DEF Refused
  <2>3. TypeOK'
    BY <1>2, <1>6, <2>1, <2>2, Facts DEF TypeOK
  <2> QED BY <1>6, <1>9, <2>3 DEF Typed, GoodToken
<1>11. Filling'
  BY <1>2 DEF Filling, FailureKeepsValues, StaysConsistent
<1>12. Tracking'
  <2>1. Compatible' => (pc' = "extensionBit" => pos' = 0 /\ receiver'.extensible)
    BY <1>2
  <2>2. ASSUME pc' = "rootIndex", Compatible'
        PROVE  pos' = HeadLen(receiver') - 1 /\ Sent' <= Root
    <3>1. ~receiver.extensible /\ ~sender.extensible
      BY <1>2, <2>2, Facts DEF Compatible
    <3>2. HeadLen(receiver') = 1 /\ k <= Root
      BY <1>2, <3>1, Facts DEF HeadLen
    <3> QED BY <1>2, <1>4, <3>2
  <2> QED BY <1>2, <2>1, <2>2 DEF Tracking, HeadLen
<1>13. Relaying'
  BY <1>2 DEF Relaying
<1> QED BY <1>8, <1>10, <1>11, <1>12, <1>13 DEF Inv

LEMMA NextInv == Inv /\ [Next]_vars => Inv'
<1> SUFFICES ASSUME Inv, [Next]_vars PROVE Inv'
  OBVIOUS
<1>1. CASE Transmit
  BY <1>1, TransmitInv
<1>2. CASE ReadExtensionBit
  BY <1>2, ReadExtensionBitInv
<1>3. CASE ReadRootIndex
  BY <1>3, ReadRootIndexInv
<1>4. CASE ReadRootValue
  BY <1>4, ReadRootValueInv
<1>5. CASE ReadExtensionIndex
  BY <1>5, ReadExtensionIndexInv
<1>6. CASE ReadOpenType
  BY <1>6, ReadOpenTypeInv
<1>7. CASE Forward
  BY <1>7, ForwardInv
<1>8. CASE UNCHANGED vars
  <2>1. UNCHANGED <<type, sender, receiver, count, message, wire, damaged, before, pos, pc, index, v, forwarded>>
    BY <1>8 DEF vars, setting, input
  <2>2. Sent' = Sent /\ Original' = Original /\ Structs' = Structs /\ Compatible' = Compatible /\ Understood' = Understood
    BY <2>1, SameMessage
  <2>3. Typed'
    BY <2>1, <2>2 DEF Inv, Typed, TypeOK
  <2>4. Sending'
    BY <2>1, <2>2 DEF Inv, Sending, Started, Filled, TagOf, New
  <2>5. Filling'
    BY <2>1 DEF Inv, Filling, FailureKeepsValues, StaysConsistent, Consistent
  <2>6. Tracking'
    BY <2>1, <2>2 DEF Inv, Tracking, Started, Decoded
  <2>7. Relaying'
    <3>1. Encode(receiver, v)' = Encode(receiver, v)
      BY <2>1 DEF Encode, Named, TagOf
    <3> QED BY <2>1, <3>1 DEF Inv, Relaying
  <2> QED BY <2>3, <2>4, <2>5, <2>6, <2>7 DEF Inv
<1> QED BY <1>1, <1>2, <1>3, <1>4, <1>5, <1>6, <1>7, <1>8 DEF Next

-----------------------------------------------------------------------------
(* What the invariant says to the callers. *)
LEMMA InvDelivered == Inv => Delivered
<1> SUFFICES ASSUME Inv, pc = "ok", Compatible PROVE Delivered
  BY DEF Delivered
<1>1. Decoded
  BY DEF Inv, Tracking, Started
<1> QED BY <1>1 DEF Delivered, Decoded

LEMMA InvUnknownIgnored == Inv => UnknownIgnored
<1> SUFFICES ASSUME Inv, Compatible, Started, ~Understood
             PROVE  /\ wire = Original => pc \notin {"eof", "invalid", "misread"}
                    /\ type = "CHOICE" => v = before
                    /\ type = "ENUMERATED" /\ pc = "ok" /\ Named(receiver, v.tag) # 0 =>
                         v.tag = UnknownBase + (Sent - Root - 1)
  BY DEF UnknownIgnored, Started
<1>1. wire = Original => pc \notin {"eof", "invalid", "misread"}
  <2> SUFFICES ASSUME wire = Original PROVE pc \notin {"eof", "invalid", "misread"}
    OBVIOUS
  <2>1. ~(Len(wire) < Len(Original))
    BY Facts
  <2> QED BY <2>1 DEF Inv, Tracking
<1>2. pc = "ok" =>
        v.alt = before.alt /\ v.tag = IF type = "CHOICE" THEN before.tag ELSE UnknownBase + (Sent - Root - 1)
  BY DEF Inv, Tracking, Decoded
<1>3. ASSUME type = "CHOICE" PROVE v = before
  <2>1. v \in [tag : 0 .. Known(receiver), alt : [1 .. Known(receiver) -> Value]]
        /\ before \in [tag : 0 .. Known(receiver), alt : [1 .. Known(receiver) -> Value]]
    BY <1>3 DEF Inv, Typed, Structs
  <2>2. CASE pc = "ok"
    BY <1>2, <1>3, <2>1, <2>2
  <2>3. pc # "value"
    BY Facts, OriginalShape DEF Inv, Tracking, Understood
  <2>4. pc \notin {"invalid", "misread"} /\ (pc = "eof" => v = before)
    BY DEF Inv, Tracking
  <2>5. pc \in {"idle", "extensionBit", "rootIndex", "extensionIndex", "openType"} => v = before
    BY DEF Inv, Filling
  <2> QED BY <2>2, <2>3, <2>4, <2>5 DEF Inv, Typed, TypeOK
<1> QED BY <1>1, <1>2, <1>3

LEMMA InvRelayFaithful == Inv => RelayFaithful
<1> SUFFICES ASSUME Inv, pc = "ok", Compatible, forwarded.ok,
                    Understood \/ (before = New(receiver) /\ ~Clash)
             PROVE  forwarded.tokens = Original
  BY DEF RelayFaithful
<1>1. forwarded = Encode(receiver, v)
  BY DEF Inv, Relaying, Refused
<1>2. Decoded /\ Started
  BY DEF Inv, Tracking, Started
<1>3. /\ Sent \in 1 .. Known(sender) /\ message.tag = TagOf(Sent)
      /\ message = Filled(sender, Sent, count)
      /\ type = "CHOICE" => message.alt[Sent] \in Nat \X Nat
  BY <1>2, OriginalShape DEF Inv, Sending
<1>4. CASE Understood
  <2>1. Sent \in 1 .. Known(receiver) /\ Sent \in 1 .. Root + Len(MoreItems) /\ Sent # 0
    BY <1>3, <1>4, Facts DEF Understood
  <2>2. v.tag = TagOf(Sent)
    BY <1>2, <1>3, <1>4 DEF Decoded
  <2>3. Named(receiver, v.tag) = Sent
    BY <2>1, <2>2, Facts, NamedKnown
  <2>4. type = "CHOICE" => v.alt[Sent] = message.alt[Sent] /\ v.alt[Sent] # Nil
    <3> SUFFICES ASSUME type = "CHOICE" PROVE v.alt[Sent] = message.alt[Sent] /\ v.alt[Sent] # Nil
      OBVIOUS
    <3>1. DOMAIN v.alt = 1 .. Known(receiver)
      BY DEF Inv, Typed, Structs
    <3>2. v.alt[Sent] = message.alt[Sent]
      BY <1>2, <1>4, <2>1, <3>1 DEF Decoded
    <3>3. message.alt[Sent] # Nil
      BY <1>3, NotNil
    <3> QED BY <3>2, <3>3
  <2>5. Encode(receiver, v).tokens = Encode(sender, message).tokens
    <3>1. receiver.extensible = sender.extensible
      BY DEF Compatible
    <3>2. Named(sender, message.tag) = Sent
      BY DEF Sent
    <3> QED BY <2>1, <2>3, <2>4, <3>1, <3>2, EncodeSame
  <2> QED BY <1>1, <2>5 DEF Original
<1>5. CASE ~Understood
  <2>1. before = New(receiver) /\ ~Clash
    BY <1>5
  <2>2. v.tag = IF type = "CHOICE" THEN 0 ELSE UnknownBase + (Sent - Root - 1)
    BY <1>2, <1>5, <2>1 DEF Decoded, New
  <2>3. \A k \in 1 .. Known(receiver) : TagOf(k) # v.tag
    <3>1. CASE type = "CHOICE"
      BY <2>2, <3>1, Facts DEF TagOf
    <3>2. CASE type = "ENUMERATED"
      BY <2>1, <2>2, <3>2 DEF Clash
    <3> QED BY <3>1, <3>2, Facts
  <2>4. Named(receiver, v.tag) = 0
    BY <2>3, Facts, NamedType
  <2> QED BY <1>1, <2>4, EncodeRefused
<1> QED BY <1>4, <1>5

-----------------------------------------------------------------------------
(* Whatever versions the two sides were generated from and whatever bits    *)
(* arrive, the state keeps its types: emitted decoders leave a struct whose *)
(* tag stands for an alternative the receiver has, or for none.             *)
THEOREM ChoiceTypeOK == Spec => []TypeOK
<1>1. Inv => TypeOK
  BY DEF Inv, Typed
<1> QED BY <1>1, InvInit, NextInv, PTL DEF Spec

(* An alternative or item that both sides know is delivered as it was sent, *)
(* and the whole message has been read then.                                *)
THEOREM ChoiceDelivered == Spec => []Delivered
BY InvInit, NextInv, InvDelivered, PTL DEF Spec

(* One that only the sender knows is read over: no error, no change to a    *)
(* CHOICE, and never taken for another.                                     *)
THEOREM ChoiceUnknownIgnored == Spec => []UnknownIgnored
BY InvInit, NextInv, InvUnknownIgnored, PTL DEF Spec

(* A decode that fails, on any bits, has set no value and no tag of an      *)
(* alternative that does not exist.                                         *)
THEOREM ChoiceFailureKeepsValues == Spec => []FailureKeepsValues
<1>1. Inv => FailureKeepsValues
  BY DEF Inv, Filling
<1> QED BY <1>1, InvInit, NextInv, PTL DEF Spec

(* One that succeeds, on any bits, leaves a CHOICE with a value under its   *)
(* tag if it had one before.                                                *)
THEOREM ChoiceStaysConsistent == Spec => []StaysConsistent
<1>1. Inv => StaysConsistent
  BY DEF Inv, Filling
<1> QED BY <1>1, InvInit, NextInv, PTL DEF Spec

(* A relay that decodes into a new struct passes on the message it got, bit *)
(* for bit, or refuses it.                                                  *)
THEOREM ChoiceRelayFaithful == Spec => []RelayFaithful
BY InvInit, NextInv, InvRelayFaithful, PTL DEF Spec
=============================================================================
