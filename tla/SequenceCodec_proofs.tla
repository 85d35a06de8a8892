-------------------------- MODULE SequenceCodec_proofs --------------------------
(***************************************************************************)
(* For every SEQUENCE, every pair of versions of it and every message: the *)
(* decoder that the generator emits stays in step with the encoder, and    *)
(* returns what was sent. The invariant says which token the decoder       *)
(* stands before at each statement and which fields it has filled by then; *)
(* where a token stands is counted, so it comes down to one lemma, Layout, *)
(* about what the encoder writes.                                          *)
(***************************************************************************)
EXTENDS SequenceCodec, TLAPS, SequenceTheorems, FiniteSetTheorems, WellFoundedInduction

(* The tokens. *)
Item == [kind : {"bit"}, x : BOOLEAN] \union [kind : {"small"}, x : Nat]
        \union [kind : {"value", "open"}, x : Value]

(* The fields of a struct that have a presence bit, those that are written, *)
(* and the additions that are; how far the additions go.                   *)
R == Len(Root)
Optional   == {k \in 1 .. R : Root[k]}
Written(s) == {k \in 1 .. R : ~Root[k] \/ s.root[k] # Nil}
Added(s, n) == {k \in 1 .. n : s.ext[k] # Nil}
Extends(version, s) == \E k \in 1 .. version.additions : s.ext[k] # Nil
LastAdded(version, s) ==
  CHOOSE n \in 1 .. version.additions :
    s.ext[n] # Nil /\ \A k \in n + 1 .. version.additions : s.ext[k] = Nil

(* How many of a set of indices come up to one of them. *)
Rank(S, k) == Cardinality({m \in S : m <= k})

(* Where in an encoded struct the part about field k, of the preamble and  *)
(* so on, stands: how many tokens come before it.                          *)
Start(version) == IF version.extensible THEN 1 ELSE 0
PreambleAt(version, k) == Start(version) + Rank(Optional, k - 1)
RootAt(version, s, k)  == Start(version) + Rank(Optional, R) + Rank(Written(s), k - 1)
CountAt(version, s)    == RootAt(version, s, R + 1)
BitAt(version, s, k)   == CountAt(version, s) + k
OpenAt(version, s, k)  ==
  LET last == LastAdded(version, s)
  IN  CountAt(version, s) + 1 + last + Rank(Added(s, last), k - 1)

(* The message as it was encoded, and how many additions it has. *)
Original == Encode(sender, message)
Extended == Extends(sender, message)
Many     == LastAdded(sender, message)

(* The variables and what was received have the right form. *)
Typed ==
  /\ sender \in Versions /\ receiver \in Versions /\ count \in 0 .. MaxMessages
  /\ message \in Struct(sender) /\ v \in Struct(receiver) /\ before \in Struct(receiver)
  /\ pos \in 0 .. Len(wire) /\ i \in Nat \ {0} /\ numExt \in Nat
  /\ hasExt \in BOOLEAN /\ bitmap \in Seq(BOOLEAN) /\ present \in [1 .. R -> BOOLEAN]
  /\ pc \in Ended \union {"extensionBit", "skipCount", "skip", "skipOpen", "preamble",
                          "root", "count", "bitmap", "additions"}
  /\ wire \in Seq(Item)
  /\ pc \in {"bitmap", "additions"} => Len(bitmap) = numExt

(* Once a message was sent: its mandatory fields are there, and the        *)
(* decoder has a prefix of its tokens.                                     *)
Received ==
  /\ \A k \in 1 .. R : ~Root[k] => message.root[k] # Nil
  /\ Len(wire) <= Len(Original) /\ \A p \in 1 .. Len(wire) : wire[p] = Original[p]

(* What the decoder has filled: the root fields before a, the additions    *)
(* before b, and nothing else.                                             *)
Filled(a, b) ==
  /\ \A k \in 1 .. R :
       v.root[k] = IF k < a /\ SentRoot(k) # Nil THEN SentRoot(k) ELSE before.root[k]
  /\ \A k \in 1 .. receiver.additions :
       v.ext[k] = IF k < b /\ SentExt(k) # Nil THEN SentExt(k) ELSE before.ext[k]

(* Where the decoder is then, in the message and in the struct. *)
AtExtensionBit == sender.extensible /\ pos = 0 /\ Filled(1, 1)
AtPreamble ==
  /\ i <= R + 1 /\ pos = PreambleAt(sender, i) /\ Filled(1, 1) /\ (hasExt <=> Extended)
  /\ \A k \in 1 .. R : k < i /\ Root[k] => (present[k] <=> SentRoot(k) # Nil)
AtRoot ==
  /\ i <= R + 1 /\ pos = RootAt(sender, message, i) /\ Filled(i, 1) /\ (hasExt <=> Extended)
  /\ \A k \in 1 .. R : Root[k] => (present[k] <=> SentRoot(k) # Nil)
AtCount == Extended /\ pos = CountAt(sender, message) /\ Filled(R + 1, 1)
AtBitmap ==
  /\ Extended /\ numExt = Many
  /\ i <= Many + 1 /\ pos = BitAt(sender, message, i) /\ Filled(R + 1, 1)
  /\ \A k \in 1 .. Many : k < i => (bitmap[k] <=> SentExt(k) # Nil)
AtAdditions ==
  /\ Extended /\ numExt = Many
  /\ i <= Many + 1 /\ pos = OpenAt(sender, message, i) /\ Filled(R + 1, i)
  /\ \A k \in 1 .. Many : bitmap[k] <=> SentExt(k) # Nil
AtEnd == pos = Len(Original) /\ Filled(R + 1, receiver.additions + 1)
Short ==
  /\ Len(wire) < Len(Original)
  /\ \E a \in 1 .. R + 1, b \in 1 .. sender.additions + 1 : Filled(a, b) /\ (b > 1 => a = R + 1)

Tracks ==
  /\ pc = "extensionBit" => AtExtensionBit
  /\ pc = "preamble" => AtPreamble
  /\ pc = "root" => AtRoot
  /\ pc = "count" => AtCount
  /\ pc = "bitmap" => AtBitmap
  /\ pc = "additions" => AtAdditions
  /\ pc = "ok" => AtEnd
  /\ pc = "eof" => Short
  /\ pc \notin {"skipCount", "skip", "skipOpen", "misread"}

(* The inductive invariant. *)
Inv == Typed /\ (pc # "idle" => Received) /\ (pc # "idle" /\ Understood => Tracks)
-----------------------------------------------------------------------------
(* Induction, for a set of numbers. *)
LEMMA Induction ==
  ASSUME NEW S, 0 \in S, \A n \in Nat : n \in S => n + 1 \in S
  PROVE  Nat \subseteq S
<1> DEFINE T == Nat \ S
<1> SUFFICES ASSUME T # {} PROVE FALSE
  OBVIOUS
<1>1. PICK x \in T : \A y \in T : ~(<<y, x>> \in OpToRel(<, Nat))
  <2>1. T \subseteq Nat
    OBVIOUS
  <2> HIDE DEF T
  <2> QED BY <2>1, WFMin, NatLessThanWellFounded
<1>2. x \in Nat /\ x # 0
  OBVIOUS
<1>3. x - 1 \in Nat /\ x - 1 < x /\ (x - 1) + 1 = x
  BY <1>2
<1>4. x - 1 \in T
  BY <1>2, <1>3
<1>5. <<x - 1, x>> \in OpToRel(<, Nat)
  BY <1>2, <1>3 DEF OpToRel
<1> QED BY <1>1, <1>4, <1>5

(* What FlattenSeq computes. *)
Step(f, g) == [k \in 1 .. Len(f) |-> IF k = 1 THEN f[k] ELSE g[k - 1] \o f[k]]

LEMMA FlattenDefined ==
  ASSUME NEW X, NEW f \in Seq(X), Len(f) # 0
  PROVE  \E g : g = Step(f, g) /\ FlattenSeq(f) = g[Len(f)]
<1> DEFINE up(m, g) == [k \in 1 .. m |-> IF k = 1 THEN f[k] ELSE g[k - 1] \o f[k]]
           S == {m \in Nat : \E g : g = up(m, g)}
<1>1. 0 \in S
  <2> DEFINE e == [k \in 1 .. 0 |-> f[k]]
  <2>1. e = up(0, e)
    OBVIOUS
  <2> QED BY <2>1
<1>2. ASSUME NEW m \in Nat, m \in S
      PROVE  m + 1 \in S
  <2>1. PICK u : u = up(m, u)
    BY <1>2
  <2> DEFINE h == up(m + 1, u)
  <2>2. ASSUME NEW k \in 1 .. m + 1, k # 1
        PROVE  h[k - 1] = u[k - 1]
    <3>1. k - 1 \in 1 .. m /\ k - 1 \in 1 .. m + 1
      BY <2>2
    <3>2. u[k - 1] = IF k - 1 = 1 THEN f[k - 1] ELSE u[(k - 1) - 1] \o f[k - 1]
      BY <2>1, <3>1
    <3> QED BY <3>1, <3>2
  <2>3. h = up(m + 1, h)
    BY <2>2
  <2>4. \E g : g = up(m + 1, g)
    <3> HIDE DEF h
    <3> QED BY <2>3
  <2> HIDE DEF up
  <2> QED BY <2>4
<1> DEFINE n == Len(f)
<1>3. \E g : g = up(n, g)
  <2>1. Nat \subseteq S
    <3> HIDE DEF S
    <3> QED BY <1>1, <1>2, Induction
  <2>2. n \in Nat
    OBVIOUS
  <2> QED BY <2>1, <2>2
<1> DEFINE flat == CHOOSE g : g = up(n, g)
<1>4. flat = up(n, flat)
  BY <1>3
<1>5. FlattenSeq(f) = flat[n]
  BY DEF FlattenSeq
<1> QED BY <1>4, <1>5 DEF Step

LEMMA RankFacts ==
  ASSUME NEW n \in Nat, NEW S, S \subseteq 1 .. n
  PROVE  /\ \A k \in Nat : Rank(S, k) \in Nat
         /\ Rank(S, 0) = 0
         /\ \A k \in Nat : k + 1 \in S => Rank(S, k + 1) = Rank(S, k) + 1
         /\ \A k \in Nat : k + 1 \notin S => Rank(S, k + 1) = Rank(S, k)
         /\ \A j, k \in Nat : j <= k => Rank(S, j) <= Rank(S, k)
<1> DEFINE U(k) == {m \in S : m <= k}
<1>0. \A m \in S : m \in Nat /\ m >= 1
  OBVIOUS
<1>1. ASSUME NEW k \in Nat
      PROVE  IsFiniteSet(U(k)) /\ Cardinality(U(k)) \in Nat
  <2>1. IsFiniteSet(1 .. n)
    BY FS_Interval
  <2>2. U(k) \subseteq 1 .. n
    OBVIOUS
  <2> HIDE DEF U
  <2>3. IsFiniteSet(U(k))
    BY <2>1, <2>2, FS_Subset
  <2> QED BY <2>3, FS_CardinalityType
<1>2. Cardinality(U(0)) = 0
  <2>1. \A m \in S : ~(m <= 0)
    BY <1>0
  <2>2. U(0) = {}
    BY <2>1
  <2> QED BY <2>2, FS_EmptySet
<1>3. ASSUME NEW k \in Nat, k + 1 \in S
      PROVE  Cardinality(U(k + 1)) = Cardinality(U(k)) + 1
  <2>0. /\ \A m \in S : m <= k + 1 <=> m <= k \/ m = k + 1
        /\ ~(k + 1 <= k)
    BY <1>0
  <2>1. U(k + 1) = U(k) \cup {k + 1} /\ k + 1 \notin U(k)
    BY <1>3, <2>0
  <2>2. IsFiniteSet(U(k))
    BY <1>1
  <2> HIDE DEF U
  <2> QED BY <2>1, <2>2, FS_AddElement
<1>4. ASSUME NEW k \in Nat, k + 1 \notin S
      PROVE  Cardinality(U(k + 1)) = Cardinality(U(k))
  <2>0. \A m \in S : m <= k + 1 <=> m <= k
    BY <1>0, <1>4
  <2>1. U(k + 1) = U(k)
    BY <2>0
  <2> QED BY <2>1
<1>5. ASSUME NEW j \in Nat, NEW k \in Nat, j <= k
      PROVE  Cardinality(U(j)) <= Cardinality(U(k))
  <2>0. \A m \in S : m <= j => m <= k
    BY <1>0, <1>5
  <2>1. U(j) \subseteq U(k)
    BY <2>0
  <2>2. IsFiniteSet(U(k))
    BY <1>1
  <2> HIDE DEF U
  <2> QED BY <2>1, <2>2, FS_Subset
<1>6. \A k \in Nat : Rank(S, k) = Cardinality(U(k))
  BY DEF Rank
<1> HIDE DEF U
<1>7. \A k \in Nat : Rank(S, k) \in Nat
  BY <1>1, <1>6
<1>8. Rank(S, 0) = 0
  BY <1>2, <1>6
<1>9. \A k \in Nat : k + 1 \in S => Rank(S, k + 1) = Rank(S, k) + 1
  BY <1>3, <1>6
<1>10. \A k \in Nat : k + 1 \notin S => Rank(S, k + 1) = Rank(S, k)
  BY <1>4, <1>6
<1>11. \A j, k \in Nat : j <= k => Rank(S, j) <= Rank(S, k)
  BY <1>5, <1>6
<1> QED BY <1>7, <1>8, <1>9, <1>10, <1>11

(* Tokens for some of the indices: how many there are, and where each is. *)
Chosen(n, S, t) == [k \in 1 .. n |-> IF k \in S THEN <<t[k]>> ELSE <<>>]

Placed(n, S, t) ==
  LET tokens == FlattenSeq(Chosen(n, S, t))
  IN  /\ tokens \in Seq(Item) /\ Len(tokens) = Rank(S, n)
      /\ \A k \in S : tokens[Rank(S, k - 1) + 1] = t[k]

LEMMA ChosenTokens ==
  ASSUME NEW n \in Nat, NEW S, S \subseteq 1 .. n,
         NEW t, \A k \in S : t[k] \in Item
  PROVE  Placed(n, S, t)
<1> SUFFICES /\ FlattenSeq(Chosen(n, S, t)) \in Seq(Item)
             /\ Len(FlattenSeq(Chosen(n, S, t))) = Rank(S, n)
             /\ \A k \in S : FlattenSeq(Chosen(n, S, t))[Rank(S, k - 1) + 1] = t[k]
  BY DEF Placed
<1> DEFINE f == Chosen(n, S, t)
           e == FlattenSeq(f)
<1>1. /\ f \in Seq(Seq(Item)) /\ Len(f) = n
      /\ \A k \in 1 .. n : f[k] = IF k \in S THEN <<t[k]>> ELSE <<>>
  BY DEF Chosen
<1> HIDE DEF f
<1>2. CASE n = 0
  <2>1. e = <<>> /\ S = {}
    BY <1>1, <1>2 DEF FlattenSeq
  <2>2. Rank(S, n) = 0
    BY <1>2, RankFacts
  <2> QED BY <2>1, <2>2 DEF f
<1>3. CASE n # 0
  <2>1. PICK g : g = Step(f, g) /\ e = g[n]
    BY <1>1, <1>3, FlattenDefined
  <2>2. \A k \in 1 .. n : g[k] = IF k = 1 THEN f[k] ELSE g[k - 1] \o f[k]
    BY <1>1, <2>1 DEF Step
  <2> DEFINE Good(m) == /\ g[m] \in Seq(Item) /\ Len(g[m]) = Rank(S, m)
                        /\ \A k \in S : k <= m => g[m][Rank(S, k - 1) + 1] = t[k]
             G == {m \in Nat : m \in 1 .. n => Good(m)}
  <2>3. 0 \in G
    OBVIOUS
  <2>4. ASSUME NEW m \in Nat, m \in G
        PROVE  m + 1 \in G
    <3> SUFFICES ASSUME m + 1 \in 1 .. n PROVE Good(m + 1)
      OBVIOUS
    <3> DEFINE p == IF m = 0 THEN <<>> ELSE g[m]
    <3>1. /\ p \in Seq(Item) /\ Len(p) = Rank(S, m)
          /\ \A k \in S : k <= m => p[Rank(S, k - 1) + 1] = t[k]
      <4>1. CASE m = 0
        <5>1. \A k \in S : ~(k <= m)
          BY <4>1
        <5>2. Rank(S, m) = 0
          BY <4>1, RankFacts
        <5>3. p = <<>>
          BY <4>1
        <5> HIDE DEF p
        <5> QED BY <5>1, <5>2, <5>3
      <4>2. CASE m # 0
        <5>1. Good(m)
          BY <2>4, <4>2
        <5> QED BY <4>2, <5>1
      <4> QED BY <4>1, <4>2
    <3>2. g[m + 1] = p \o f[m + 1]
      <4>1. f[m + 1] \in Seq(Item)
        BY <1>1
      <4>2. g[m + 1] = IF m + 1 = 1 THEN f[m + 1] ELSE g[(m + 1) - 1] \o f[m + 1]
        BY <2>2
      <4>3. (m + 1 = 1 <=> m = 0) /\ (m + 1) - 1 = m
        OBVIOUS
      <4>4. <<>> \o f[m + 1] = f[m + 1]
        BY <4>1
      <4> QED BY <4>2, <4>3, <4>4
    <3> HIDE DEF p
    <3>3. CASE m + 1 \in S
      <4>1. f[m + 1] = <<t[m + 1]>> /\ t[m + 1] \in Item
        BY <1>1, <3>3
      <4>2. Rank(S, m + 1) = Rank(S, m) + 1 /\ Rank(S, m) \in Nat
        BY <3>3, RankFacts
      <4> DEFINE q == g[m + 1]
      <4>3. /\ q \in Seq(Item) /\ Len(q) = Rank(S, m) + 1
            /\ \A j \in 1 .. Rank(S, m) : q[j] = p[j]
            /\ q[Rank(S, m) + 1] = t[m + 1]
        BY <3>1, <3>2, <4>1, <4>2
      <4> HIDE DEF q
      <4>4. ASSUME NEW k \in S, k <= m + 1
            PROVE  q[Rank(S, k - 1) + 1] = t[k]
        <5>1. CASE k = m + 1
          BY <4>3, <5>1
        <5>2. CASE k # m + 1
          <6>1. k - 1 \in Nat /\ k \in Nat /\ (k - 1) + 1 = k /\ k <= m
            BY <4>4, <5>2
          <6>2. Rank(S, k) = Rank(S, k - 1) + 1 /\ Rank(S, k) <= Rank(S, m) /\ Rank(S, k - 1) \in Nat
            BY <6>1, RankFacts
          <6>3. Rank(S, k - 1) + 1 \in 1 .. Rank(S, m)
            BY <4>2, <6>2
          <6> QED BY <3>1, <4>3, <6>1, <6>3
        <5> QED BY <5>1, <5>2
      <4> QED BY <4>2, <4>3, <4>4 DEF q
    <3>4. CASE m + 1 \notin S
      <4>1. f[m + 1] = <<>>
        BY <1>1, <3>4
      <4>2. g[m + 1] = p
        BY <3>1, <3>2, <4>1
      <4>3. Rank(S, m + 1) = Rank(S, m)
        BY <3>4, RankFacts
      <4>4. \A k \in S : k <= m + 1 => k <= m
        BY <3>4
      <4> QED BY <3>1, <4>2, <4>3, <4>4
    <3> QED BY <3>3, <3>4
  <2>5. n \in G
    <3> HIDE DEF G
    <3> QED BY <2>3, <2>4, Induction
  <2>6. Good(n)
    BY <1>3, <2>5
  <2> QED BY <2>1, <2>6 DEF f
<1> QED BY <1>2, <1>3
-----------------------------------------------------------------------------
(* There is a last addition when there is one. *)
LEMMA Maximum ==
  ASSUME NEW N \in Nat, NEW S, S \subseteq 1 .. N, S # {}
  PROVE  \E n \in S : \A k \in S : k <= n
<1> DEFINE P(m) == \E n \in S : n <= m /\ \A k \in S : k <= m => k <= n
           T == {m \in Nat : (\E n \in S : n <= m) => P(m)}
<1>0. \A k \in S : k \in Nat /\ k >= 1 /\ k <= N
  OBVIOUS
<1>1. 0 \in T
  BY <1>0
<1>2. ASSUME NEW m \in Nat, m \in T
      PROVE  m + 1 \in T
  <2>1. CASE m + 1 \in S
    <3>1. P(m + 1)
      BY <1>0, <2>1
    <3> QED BY <3>1
  <2>2. CASE m + 1 \notin S
    <3>1. \A k \in S : k <= m + 1 <=> k <= m
      BY <1>0, <2>2
    <3> QED BY <1>2, <3>1
  <2> QED BY <2>1, <2>2
<1>3. N \in T
  <2> HIDE DEF T
  <2> QED BY <1>1, <1>2, Induction
<1>4. P(N)
  BY <1>0, <1>3
<1> QED BY <1>0, <1>4

LEMMA LastExists ==
  ASSUME NEW version, NEW s, version.additions \in Nat, Extends(version, s)
  PROVE  /\ LastAdded(version, s) \in 1 .. version.additions
         /\ s.ext[LastAdded(version, s)] # Nil
         /\ \A k \in LastAdded(version, s) + 1 .. version.additions : s.ext[k] = Nil
<1> DEFINE N == version.additions
           S == Added(s, N)
<1>1. S \subseteq 1 .. N /\ S # {} /\ \A k \in 1 .. N : k \in S <=> s.ext[k] # Nil
  BY DEF Added, Extends
<1> HIDE DEF S
<1>2. PICK n \in S : \A k \in S : k <= n
  BY <1>1, Maximum
<1>3. n \in 1 .. N /\ s.ext[n] # Nil
  BY <1>1, <1>2
<1>4. ASSUME NEW k \in n + 1 .. N
      PROVE  s.ext[k] = Nil
  <2>1. k \in 1 .. N /\ ~(k <= n)
    BY <1>3
  <2> QED BY <1>1, <1>2, <2>1
<1> QED BY <1>3, <1>4 DEF LastAdded

(* The parts of an encoded struct. *)
Flag(x) == Token("bit", x # Nil)
Opening(version, s) == IF version.extensible THEN <<Token("bit", Extends(version, s))>> ELSE <<>>
Preamble(s)  == FlattenSeq([k \in 1 .. Len(Root) |-> IF Root[k] THEN <<Flag(s.root[k])>> ELSE <<>>])
Fields(s)    == FlattenSeq([k \in 1 .. Len(Root) |->
                              IF ~Root[k] \/ s.root[k] # Nil THEN <<Token("value", s.root[k])>> ELSE <<>>])
Bits(s, n)   == FlattenSeq([k \in 1 .. n |-> IF TRUE THEN <<Flag(s.ext[k])>> ELSE <<>>])
Opens(s, n)  == FlattenSeq([k \in 1 .. n |->
                              IF s.ext[k] # Nil THEN <<Token("open", s.ext[k])>> ELSE <<>>])
Back(version, s) ==
  IF Extends(version, s)
    THEN <<Token("small", LastAdded(version, s) - 1)>>
         \o Bits(s, LastAdded(version, s)) \o Opens(s, LastAdded(version, s))
    ELSE <<>>

LEMMA EncodeParts ==
  ASSUME NEW version, NEW s
  PROVE  Encode(version, s) = Opening(version, s) \o Preamble(s) \o Fields(s) \o Back(version, s)
BY Zenon DEF Encode, Tokens, Opening, Preamble, Fields, Back, Bits, Opens, Flag, Extends, LastAdded

LEMMA Items ==
  /\ \A x \in Value : Flag(x) \in Item /\ Token("value", x) \in Item /\ Token("open", x) \in Item
  /\ \A n \in Nat : Token("small", n) \in Item
  /\ \A version, s : Token("bit", Extends(version, s)) \in Item
<1>1. ASSUME NEW b \in BOOLEAN
      PROVE  Token("bit", b) \in Item
  BY DEF Token, Item
<1>2. \A x \in Value : Flag(x) \in Item
  BY <1>1, Zenon DEF Flag
<1>3. \A version, s : Token("bit", Extends(version, s)) \in Item
  <2>1. \A version, s : Extends(version, s) \in BOOLEAN
    BY Zenon DEF Extends
  <2> QED BY <1>1, <2>1
<1>4. \A x \in Value : Token("value", x) \in Item /\ Token("open", x) \in Item
  BY DEF Token, Item
<1>5. \A n \in Nat : Token("small", n) \in Item
  BY DEF Token, Item
<1> QED BY <1>2, <1>3, <1>4, <1>5

LEMMA PreambleTokens ==
  ASSUME NEW s, s.root \in [1 .. R -> Value]
  PROVE  /\ Preamble(s) \in Seq(Item) /\ Len(Preamble(s)) = Rank(Optional, R)
         /\ \A k \in Optional : Preamble(s)[Rank(Optional, k - 1) + 1] = Flag(s.root[k])
<1> DEFINE t == [k \in 1 .. R |-> Flag(s.root[k])]
<1>1. Preamble(s) = FlattenSeq(Chosen(R, Optional, t))
  <2>1. Chosen(R, Optional, t) = [k \in 1 .. Len(Root) |-> IF Root[k] THEN <<Flag(s.root[k])>> ELSE <<>>]
    BY DEF Chosen, Optional, R
  <2> QED BY <2>1 DEF Preamble
<1>2. \A k \in Optional : t[k] = Flag(s.root[k]) /\ t[k] \in Item
  BY Items DEF Optional
<1>3. R \in Nat /\ Optional \subseteq 1 .. R
  BY SequenceAssumption DEF R, Optional
<1> HIDE DEF t
<1> DEFINE e == FlattenSeq(Chosen(R, Optional, t))
<1>4. /\ e \in Seq(Item) /\ Len(e) = Rank(Optional, R)
      /\ \A k \in Optional : e[Rank(Optional, k - 1) + 1] = t[k]
  <2>1. \A k \in Optional : t[k] \in Item
    BY <1>2
  <2>2. Placed(R, Optional, t)
    BY <1>3, <2>1, ChosenTokens
  <2> QED BY <2>2 DEF Placed
<1> HIDE DEF e
<1> QED BY <1>1, <1>2, <1>4 DEF e

LEMMA FieldTokens ==
  ASSUME NEW s, s.root \in [1 .. R -> Value]
  PROVE  /\ Fields(s) \in Seq(Item) /\ Len(Fields(s)) = Rank(Written(s), R)
         /\ \A k \in Written(s) : Fields(s)[Rank(Written(s), k - 1) + 1] = Token("value", s.root[k])
<1> DEFINE t == [k \in 1 .. R |-> Token("value", s.root[k])]
<1>1. Fields(s) = FlattenSeq(Chosen(R, Written(s), t))
  <2>1. Chosen(R, Written(s), t) =
          [k \in 1 .. Len(Root) |->
             IF ~Root[k] \/ s.root[k] # Nil THEN <<Token("value", s.root[k])>> ELSE <<>>]
    BY DEF Chosen, Written, R
  <2> QED BY <2>1 DEF Fields
<1>2. \A k \in Written(s) : t[k] = Token("value", s.root[k]) /\ t[k] \in Item
  BY Items DEF Written
<1>3. R \in Nat /\ Written(s) \subseteq 1 .. R
  BY SequenceAssumption DEF R, Written
<1> HIDE DEF t
<1> DEFINE e == FlattenSeq(Chosen(R, Written(s), t))
<1>4. /\ e \in Seq(Item) /\ Len(e) = Rank(Written(s), R)
      /\ \A k \in Written(s) : e[Rank(Written(s), k - 1) + 1] = t[k]
  <2>1. \A k \in Written(s) : t[k] \in Item
    BY <1>2
  <2>2. Placed(R, Written(s), t)
    BY <1>3, <2>1, ChosenTokens
  <2> QED BY <2>2 DEF Placed
<1> HIDE DEF e
<1> QED BY <1>1, <1>2, <1>4 DEF e

LEMMA BitTokens ==
  ASSUME NEW s, NEW n \in Nat, \A k \in 1 .. n : s.ext[k] \in Value
  PROVE  /\ Bits(s, n) \in Seq(Item) /\ Len(Bits(s, n)) = n
         /\ \A k \in 1 .. n : Bits(s, n)[k] = Flag(s.ext[k])
<1> DEFINE t == [k \in 1 .. n |-> Flag(s.ext[k])]
           S == 1 .. n
<1>1. Bits(s, n) = FlattenSeq(Chosen(n, S, t))
  <2>1. Chosen(n, S, t) = [k \in 1 .. n |-> IF TRUE THEN <<Flag(s.ext[k])>> ELSE <<>>]
    BY DEF Chosen
  <2> QED BY <2>1 DEF Bits
<1>2. \A k \in S : t[k] = Flag(s.ext[k]) /\ t[k] \in Item
  BY Items
<1>3. ASSUME NEW k \in Nat, k <= n
      PROVE  Rank(S, k) = k
  <2> DEFINE G == {m \in Nat : m <= n => Rank(S, m) = m}
  <2>1. 0 \in G
    BY RankFacts
  <2>2. ASSUME NEW m \in Nat, m \in G
        PROVE  m + 1 \in G
    <3> SUFFICES ASSUME m + 1 <= n PROVE Rank(S, m + 1) = m + 1
      OBVIOUS
    <3>1. m + 1 \in S /\ m <= n
      OBVIOUS
    <3>2. Rank(S, m) = m
      BY <2>2, <3>1
    <3>3. \A j \in Nat : j + 1 \in S => Rank(S, j + 1) = Rank(S, j) + 1
      BY RankFacts
    <3> HIDE DEF S
    <3> QED BY <3>1, <3>2, <3>3
  <2>3. k \in G
    <3> HIDE DEF G
    <3> QED BY <2>1, <2>2, Induction
  <2> QED BY <1>3, <2>3
<1>4. ASSUME NEW k \in 1 .. n
      PROVE  Rank(S, k - 1) + 1 = k
  <2>1. k - 1 \in Nat /\ k - 1 <= n /\ (k - 1) + 1 = k
    OBVIOUS
  <2> QED BY <1>3, <2>1
<1>5. Rank(S, n) = n
  BY <1>3
<1>6. S \subseteq 1 .. n
  OBVIOUS
<1> HIDE DEF t
<1>7. /\ Bits(s, n) \in Seq(Item) /\ Len(Bits(s, n)) = Rank(S, n)
      /\ \A k \in S : Bits(s, n)[Rank(S, k - 1) + 1] = t[k]
  <2>1. \A k \in S : t[k] \in Item
    BY <1>2
  <2> DEFINE e == FlattenSeq(Chosen(n, S, t))
  <2> HIDE DEF S
  <2>2. /\ e \in Seq(Item) /\ Len(e) = Rank(S, n)
        /\ \A k \in S : e[Rank(S, k - 1) + 1] = t[k]
    <3>1. Placed(n, S, t)
      BY <1>6, <2>1, ChosenTokens
    <3> QED BY <3>1 DEF Placed
  <2> HIDE DEF e
  <2> QED BY <1>1, <2>2 DEF e
<1> QED BY <1>2, <1>4, <1>5, <1>7

LEMMA OpenTokens ==
  ASSUME NEW s, NEW n \in Nat, \A k \in 1 .. n : s.ext[k] \in Value
  PROVE  /\ Opens(s, n) \in Seq(Item) /\ Len(Opens(s, n)) = Rank(Added(s, n), n)
         /\ \A k \in Added(s, n) : Opens(s, n)[Rank(Added(s, n), k - 1) + 1] = Token("open", s.ext[k])
<1> DEFINE t == [k \in 1 .. n |-> Token("open", s.ext[k])]
<1>1. Opens(s, n) = FlattenSeq(Chosen(n, Added(s, n), t))
  <2>1. Chosen(n, Added(s, n), t) =
          [k \in 1 .. n |-> IF s.ext[k] # Nil THEN <<Token("open", s.ext[k])>> ELSE <<>>]
    BY DEF Chosen, Added
  <2> QED BY <2>1 DEF Opens
<1>2. \A k \in Added(s, n) : t[k] = Token("open", s.ext[k]) /\ t[k] \in Item
  BY Items DEF Added
<1>3. Added(s, n) \subseteq 1 .. n
  BY DEF Added
<1> HIDE DEF t
<1> DEFINE e == FlattenSeq(Chosen(n, Added(s, n), t))
<1>4. /\ e \in Seq(Item) /\ Len(e) = Rank(Added(s, n), n)
      /\ \A k \in Added(s, n) : e[Rank(Added(s, n), k - 1) + 1] = t[k]
  <2>1. \A k \in Added(s, n) : t[k] \in Item
    BY <1>2
  <2>2. Placed(n, Added(s, n), t)
    BY <1>3, <2>1, ChosenTokens
  <2> QED BY <2>2 DEF Placed
<1> HIDE DEF e
<1> QED BY <1>1, <1>2, <1>4 DEF e

(* Where the tokens of a struct are. *)
LaidOut(version, s, e) ==
  /\ e \in Seq(Item)
  /\ version.extensible => Len(e) > 0 /\ e[1] = Token("bit", Extends(version, s))
  /\ \A k \in Optional :
       PreambleAt(version, k) < Len(e) /\ e[PreambleAt(version, k) + 1] = Flag(s.root[k])
  /\ \A k \in Written(s) :
       RootAt(version, s, k) < Len(e) /\ e[RootAt(version, s, k) + 1] = Token("value", s.root[k])
  /\ ~Extends(version, s) => Len(e) = CountAt(version, s)
  /\ Extends(version, s) =>
       /\ CountAt(version, s) < Len(e)
       /\ e[CountAt(version, s) + 1] = Token("small", LastAdded(version, s) - 1)
       /\ \A k \in 1 .. LastAdded(version, s) :
            BitAt(version, s, k) < Len(e) /\ e[BitAt(version, s, k) + 1] = Flag(s.ext[k])
       /\ \A k \in Added(s, LastAdded(version, s)) :
            OpenAt(version, s, k) < Len(e) /\ e[OpenAt(version, s, k) + 1] = Token("open", s.ext[k])
       /\ OpenAt(version, s, LastAdded(version, s) + 1) = Len(e)

Follows(x, y, xy) ==
  /\ xy \in Seq(Item) /\ Len(xy) = Len(x) + Len(y)
  /\ \A k \in 1 .. Len(x) : xy[k] = x[k]
  /\ \A k \in 1 .. Len(y) : xy[Len(x) + k] = y[k]

LEMMA Appended ==
  ASSUME NEW x \in Seq(Item), NEW y \in Seq(Item)
  PROVE  Follows(x, y, x \o y)
BY DEF Follows

AllFollow(a, b, c, d, e) ==
  /\ e \in Seq(Item) /\ Len(e) = Len(a) + Len(b) + Len(c) + Len(d)
  /\ \A k \in 1 .. Len(a) : e[k] = a[k]
  /\ \A k \in 1 .. Len(b) : e[Len(a) + k] = b[k]
  /\ \A k \in 1 .. Len(c) : e[Len(a) + Len(b) + k] = c[k]
  /\ \A k \in 1 .. Len(d) : e[Len(a) + Len(b) + Len(c) + k] = d[k]

LEMMA Joined ==
  ASSUME NEW a \in Seq(Item), NEW b \in Seq(Item), NEW c \in Seq(Item), NEW d \in Seq(Item)
  PROVE  AllFollow(a, b, c, d, a \o b \o c \o d)
<1> DEFINE ab == a \o b
           abc == ab \o c
           e == abc \o d
           la == Len(a)
           lb == Len(b)
           lc == Len(c)
<1>0. la \in Nat /\ lb \in Nat /\ lc \in Nat
  OBVIOUS
<1>1. /\ ab \in Seq(Item) /\ Len(ab) = la + lb
      /\ \A k \in 1 .. la : ab[k] = a[k]
      /\ \A k \in 1 .. lb : ab[la + k] = b[k]
  OBVIOUS
<1> HIDE DEF ab
<1>2. /\ abc \in Seq(Item) /\ Len(abc) = (la + lb) + lc
      /\ \A k \in 1 .. la + lb : abc[k] = ab[k]
      /\ \A k \in 1 .. lc : abc[(la + lb) + k] = c[k]
  <2>1. /\ abc \in Seq(Item) /\ Len(abc) = Len(ab) + lc
        /\ \A k \in 1 .. Len(ab) : abc[k] = ab[k]
        /\ \A k \in 1 .. lc : abc[Len(ab) + k] = c[k]
    <3>1. Follows(ab, c, abc)
      BY <1>1, Appended
    <3> QED BY <3>1 DEF Follows
  <2> QED BY <1>1, <2>1
<1> HIDE DEF abc
<1>3. /\ e \in Seq(Item) /\ Len(e) = ((la + lb) + lc) + Len(d)
      /\ \A k \in 1 .. (la + lb) + lc : e[k] = abc[k]
      /\ \A k \in 1 .. Len(d) : e[((la + lb) + lc) + k] = d[k]
  <2>1. /\ e \in Seq(Item) /\ Len(e) = Len(abc) + Len(d)
        /\ \A k \in 1 .. Len(abc) : e[k] = abc[k]
        /\ \A k \in 1 .. Len(d) : e[Len(abc) + k] = d[k]
    <3>1. Follows(abc, d, e)
      BY <1>2, Appended
    <3> QED BY <3>1 DEF Follows
  <2> QED BY <1>2, <2>1
<1> HIDE DEF e, la, lb, lc
<1>4. \A k \in 1 .. la : e[k] = a[k]
  <2>1. \A k \in 1 .. la : k \in 1 .. la + lb /\ k \in 1 .. (la + lb) + lc
    BY <1>0
  <2> QED BY <1>1, <1>2, <1>3, <2>1
<1>5. \A k \in 1 .. lb : e[la + k] = b[k]
  <2>1. \A k \in 1 .. lb : la + k \in 1 .. la + lb /\ la + k \in 1 .. (la + lb) + lc
    BY <1>0
  <2> QED BY <1>1, <1>2, <1>3, <2>1
<1>6. \A k \in 1 .. lc : e[(la + lb) + k] = c[k]
  <2>1. \A k \in 1 .. lc : (la + lb) + k \in 1 .. (la + lb) + lc
    BY <1>0
  <2> QED BY <1>2, <1>3, <2>1
<1>7. /\ e \in Seq(Item) /\ Len(e) = la + lb + lc + Len(d)
      /\ \A k \in 1 .. Len(d) : e[la + lb + lc + k] = d[k]
  BY <1>3
<1> QED BY <1>4, <1>5, <1>6, <1>7 DEF e, abc, ab, la, lb, lc, AllFollow

(* The place of one of a set, among them. *)
LEMMA RankInside ==
  ASSUME NEW n \in Nat, NEW S, S \subseteq 1 .. n, NEW k \in S
  PROVE  /\ Rank(S, k - 1) \in Nat /\ Rank(S, n) \in Nat
         /\ Rank(S, k - 1) + 1 \in 1 .. Rank(S, n)
<1>1. k - 1 \in Nat /\ k \in Nat /\ (k - 1) + 1 = k /\ k <= n
  OBVIOUS
<1>2. /\ Rank(S, k - 1) \in Nat /\ Rank(S, n) \in Nat
      /\ Rank(S, k) = Rank(S, k - 1) + 1 /\ Rank(S, k) <= Rank(S, n)
  BY <1>1, RankFacts
<1> QED BY <1>2

LEMMA Layout ==
  ASSUME NEW version \in Versions, NEW s \in Struct(version)
  PROVE  LaidOut(version, s, Encode(version, s))
<1>1. /\ s.root \in [1 .. R -> Value] /\ s.ext \in [1 .. version.additions -> Value]
      /\ version.additions \in Nat /\ version.extensible \in BOOLEAN /\ R \in Nat
  BY SequenceAssumption DEF Struct, Version, R
<1> DEFINE a == Opening(version, s)
           b == Preamble(s)
           c == Fields(s)
           d == Back(version, s)
           e == a \o b \o c \o d
           n == LastAdded(version, s)
           P == Rank(Optional, R)
           F == Rank(Written(s), R)
           start == Start(version)
<1>2. /\ Optional \subseteq 1 .. R /\ Written(s) \subseteq 1 .. R
      /\ \A m \in Nat : Added(s, m) \subseteq 1 .. m
      /\ P \in Nat /\ F \in Nat
  BY <1>1, RankFacts DEF Optional, Written, Added
<1>3. /\ a \in Seq(Item) /\ Len(a) = start /\ start \in {0, 1}
      /\ version.extensible => start = 1 /\ a[1] = Token("bit", Extends(version, s))
  BY <1>1, Items DEF Opening, Start
<1>4. /\ b \in Seq(Item) /\ Len(b) = P
      /\ \A k \in Optional : b[Rank(Optional, k - 1) + 1] = Flag(s.root[k])
  BY <1>1, PreambleTokens
<1>5. /\ c \in Seq(Item) /\ Len(c) = F
      /\ \A k \in Written(s) : c[Rank(Written(s), k - 1) + 1] = Token("value", s.root[k])
  BY <1>1, FieldTokens
<1>6. ~Extends(version, s) => d = <<>>
  BY DEF Back
<1>7. Extends(version, s) => n \in 1 .. version.additions
  BY <1>1, LastExists
<1> DEFINE A == Added(s, n)
<1>8. ASSUME Extends(version, s)
      PROVE  /\ d \in Seq(Item) /\ Len(d) = 1 + n + Rank(A, n)
             /\ d[1] = Token("small", n - 1)
             /\ \A k \in 1 .. n : d[1 + k] = Flag(s.ext[k])
             /\ \A k \in A : d[1 + n + (Rank(A, k - 1) + 1)] = Token("open", s.ext[k])
  <2>1. n \in Nat /\ n - 1 \in Nat /\ \A k \in 1 .. n : s.ext[k] \in Value
    BY <1>1, <1>7, <1>8
  <2> DEFINE t == Token("small", n - 1)
             x == Bits(s, n)
             y == Opens(s, n)
  <2>2. d = <<t>> \o x \o y
    BY <1>8 DEF Back
  <2>3. t \in Item
    BY <2>1, Items
  <2> HIDE DEF n
  <2>4. /\ x \in Seq(Item) /\ Len(x) = n /\ \A k \in 1 .. n : x[k] = Flag(s.ext[k])
    BY <2>1, BitTokens
  <2>5. /\ y \in Seq(Item) /\ Len(y) = Rank(A, n)
        /\ \A k \in A : y[Rank(A, k - 1) + 1] = Token("open", s.ext[k])
    BY <2>1, OpenTokens
  <2>6. \A k \in A : Rank(A, k - 1) + 1 \in 1 .. Len(y)
    BY <1>2, <2>1, <2>5, RankInside
  <2> HIDE DEF t, x, y, d
  <2> DEFINE tx == <<t>> \o x
  <2>7. /\ tx \in Seq(Item) /\ Len(tx) = 1 + n /\ tx[1] = t
        /\ \A k \in 1 .. n : tx[1 + k] = x[k]
    BY <2>1, <2>3, <2>4
  <2>8. d = tx \o y
    BY <2>2
  <2> HIDE DEF tx
  <2>9. /\ d \in Seq(Item) /\ Len(d) = 1 + n + Len(y) /\ d[1] = t
        /\ \A k \in 1 .. n : d[1 + k] = x[k]
        /\ \A k \in 1 .. Len(y) : d[1 + n + k] = y[k]
    <3>1. /\ d \in Seq(Item) /\ Len(d) = Len(tx) + Len(y)
          /\ \A k \in 1 .. Len(tx) : d[k] = tx[k]
          /\ \A k \in 1 .. Len(y) : d[Len(tx) + k] = y[k]
      <4>1. Follows(tx, y, d)
        BY <2>5, <2>7, <2>8, Appended
      <4> QED BY <4>1 DEF Follows
    <3>2. 1 \in 1 .. 1 + n /\ \A k \in 1 .. n : 1 + k \in 1 .. 1 + n
      BY <2>1
    <3> QED BY <2>7, <3>1, <3>2
  <2>10. \A k \in 1 .. n : d[1 + k] = Flag(s.ext[k])
    BY <2>4, <2>9
  <2>11. \A k \in A : d[1 + n + (Rank(A, k - 1) + 1)] = Token("open", s.ext[k])
    BY <2>5, <2>6, <2>9
  <2> QED BY <2>5, <2>9, <2>10, <2>11 DEF t
<1>9. d \in Seq(Item)
  <2>1. Extends(version, s) => d \in Seq(Item)
    BY <1>8
  <2>2. d = <<>> => d \in Seq(Item)
    OBVIOUS
  <2> HIDE DEF d
  <2> QED BY <1>6, <2>1, <2>2
<1> HIDE DEF a, b, c, d, n
<1>10. /\ e \in Seq(Item) /\ Len(e) = Len(a) + Len(b) + Len(c) + Len(d)
       /\ \A k \in 1 .. Len(a) : e[k] = a[k]
       /\ \A k \in 1 .. Len(b) : e[Len(a) + k] = b[k]
       /\ \A k \in 1 .. Len(c) : e[Len(a) + Len(b) + k] = c[k]
       /\ \A k \in 1 .. Len(d) : e[Len(a) + Len(b) + Len(c) + k] = d[k]
  <2>1. a \in Seq(Item) /\ b \in Seq(Item) /\ c \in Seq(Item)
    BY <1>3, <1>4, <1>5
  <2>2. AllFollow(a, b, c, d, e)
    BY <1>9, <2>1, Joined
  <2> HIDE DEF e
  <2> QED BY <2>2 DEF AllFollow
<1> HIDE DEF e, P, F, start
<1>11. /\ e \in Seq(Item) /\ Len(e) = start + P + F + Len(d) /\ Len(d) \in Nat
       /\ \A k \in 1 .. start : e[k] = a[k]
       /\ \A k \in 1 .. P : e[start + k] = b[k]
       /\ \A k \in 1 .. F : e[start + P + k] = c[k]
       /\ \A k \in 1 .. Len(d) : e[start + P + F + k] = d[k]
  BY <1>3, <1>4, <1>5, <1>9, <1>10
<1>12. version.extensible => Len(e) > 0 /\ e[1] = Token("bit", Extends(version, s))
  BY <1>2, <1>3, <1>11
<1>13. ASSUME NEW k \in Optional
       PROVE  PreambleAt(version, k) < Len(e) /\ e[PreambleAt(version, k) + 1] = Flag(s.root[k])
  <2>1. Rank(Optional, k - 1) \in Nat /\ Rank(Optional, k - 1) + 1 \in 1 .. P
    BY <1>1, <1>2, RankInside DEF P
  <2>2. e[start + (Rank(Optional, k - 1) + 1)] = Flag(s.root[k])
    BY <1>4, <1>11, <2>1
  <2>3. PreambleAt(version, k) = start + Rank(Optional, k - 1)
    BY DEF PreambleAt, start
  <2>4. start + (Rank(Optional, k - 1) + 1) = (start + Rank(Optional, k - 1)) + 1
    BY <1>3, <2>1
  <2> QED BY <1>2, <1>3, <1>11, <2>1, <2>2, <2>3, <2>4
<1>14. ASSUME NEW k \in Written(s)
       PROVE  /\ RootAt(version, s, k) < Len(e)
              /\ e[RootAt(version, s, k) + 1] = Token("value", s.root[k])
  <2>1. Rank(Written(s), k - 1) \in Nat /\ Rank(Written(s), k - 1) + 1 \in 1 .. F
    BY <1>1, <1>2, RankInside DEF F
  <2>2. e[start + P + (Rank(Written(s), k - 1) + 1)] = Token("value", s.root[k])
    BY <1>5, <1>11, <2>1
  <2>3. RootAt(version, s, k) = start + P + Rank(Written(s), k - 1)
    BY DEF RootAt, start, P
  <2>4. start + P + (Rank(Written(s), k - 1) + 1) = (start + P + Rank(Written(s), k - 1)) + 1
    BY <1>2, <1>3, <2>1
  <2> QED BY <1>2, <1>3, <1>11, <2>1, <2>2, <2>3, <2>4
<1>15. CountAt(version, s) = start + P + F
  <2>1. (R + 1) - 1 = R
    BY <1>1
  <2> QED BY <2>1 DEF CountAt, RootAt, start, P, F
<1>16. ~Extends(version, s) => Len(e) = CountAt(version, s)
  BY <1>2, <1>3, <1>6, <1>11, <1>15
<1>17. ASSUME Extends(version, s)
       PROVE  /\ CountAt(version, s) < Len(e)
              /\ e[CountAt(version, s) + 1] = Token("small", n - 1)
              /\ \A k \in 1 .. n :
                   BitAt(version, s, k) < Len(e) /\ e[BitAt(version, s, k) + 1] = Flag(s.ext[k])
              /\ \A k \in A :
                   OpenAt(version, s, k) < Len(e) /\ e[OpenAt(version, s, k) + 1] = Token("open", s.ext[k])
              /\ OpenAt(version, s, n + 1) = Len(e)
  <2> DEFINE C == start + P + F
  <2>1. n \in Nat /\ C \in Nat /\ Rank(A, n) \in Nat /\ A \subseteq 1 .. n
    <3>1. n \in Nat
      BY <1>1, <1>7, <1>17
    <3>2. C \in Nat
      BY <1>2, <1>3
    <3>3. A \subseteq 1 .. n
      BY <1>2, <3>1
    <3> HIDE DEF A
    <3>4. Rank(A, n) \in Nat
      BY <3>1, <3>3, RankFacts
    <3> QED BY <3>1, <3>2, <3>3, <3>4
  <2>2. /\ Len(e) = C + 1 + n + Rank(A, n) /\ Len(d) = 1 + n + Rank(A, n)
        /\ \A k \in 1 .. Len(d) : e[C + k] = d[k]
    <3>1. Len(d) = 1 + n + Rank(A, n)
      BY <1>8, <1>17
    <3>2. Len(e) = C + Len(d) /\ \A k \in 1 .. Len(d) : e[C + k] = d[k]
      BY <1>11
    <3> HIDE DEF A, C
    <3> QED BY <2>1, <3>1, <3>2
  <2> HIDE DEF C, A
  <2>3. e[C + 1] = Token("small", n - 1) /\ C < Len(e)
    BY <1>8, <1>17, <2>1, <2>2
  <2>4. ASSUME NEW k \in 1 .. n
        PROVE  BitAt(version, s, k) < Len(e) /\ e[BitAt(version, s, k) + 1] = Flag(s.ext[k])
    <3>1. 1 + k \in 1 .. Len(d) /\ C + (1 + k) = (C + k) + 1 /\ C + k < Len(e)
      BY <2>1, <2>2
    <3>2. BitAt(version, s, k) = C + k
      BY <1>15 DEF BitAt, C
    <3> QED BY <1>8, <1>17, <2>2, <3>1, <3>2
  <2>5. ASSUME NEW k \in Nat
        PROVE  OpenAt(version, s, k) = C + 1 + n + Rank(A, k - 1)
    BY <1>15 DEF OpenAt, C, A, n
  <2>6. ASSUME NEW k \in A
        PROVE  OpenAt(version, s, k) < Len(e) /\ e[OpenAt(version, s, k) + 1] = Token("open", s.ext[k])
    <3> DEFINE r == Rank(A, k - 1)
    <3>1. r \in Nat /\ r + 1 \in 1 .. Rank(A, n) /\ k \in Nat
      <4>1. k \in Nat
        BY <2>1
      <4>2. r \in Nat /\ r + 1 \in 1 .. Rank(A, n)
        BY <2>1, RankInside
      <4> QED BY <4>1, <4>2
    <3>2. d[1 + n + (r + 1)] = Token("open", s.ext[k])
      BY <1>8, <1>17 DEF A
    <3>3. OpenAt(version, s, k) = C + 1 + n + r
      BY <2>5, <3>1
    <3> HIDE DEF r
    <3>4. /\ 1 + n + (r + 1) \in 1 .. Len(d)
          /\ C + (1 + n + (r + 1)) = (C + 1 + n + r) + 1
          /\ C + 1 + n + r < Len(e)
      BY <2>1, <2>2, <3>1
    <3>5. e[C + (1 + n + (r + 1))] = d[1 + n + (r + 1)]
      BY <2>2, <3>4
    <3> QED BY <3>2, <3>3, <3>4, <3>5
  <2>7. OpenAt(version, s, n + 1) = Len(e)
    <3>1. (n + 1) - 1 = n /\ n + 1 \in Nat
      BY <2>1
    <3> QED BY <2>2, <2>5, <3>1
  <2> QED BY <1>15, <2>3, <2>4, <2>6, <2>7 DEF C, A
<1>18. Encode(version, s) = e
  BY EncodeParts DEF e, a, b, c, d
<1> QED BY <1>11, <1>12, <1>13, <1>14, <1>16, <1>17, <1>18 DEF LaidOut, n

-----------------------------------------------------------------------------
(* From one field to the next. *)
Advances(version, s) ==
  /\ PreambleAt(version, 1) = Start(version)
  /\ PreambleAt(version, R + 1) = RootAt(version, s, 1)
  /\ \A k \in 1 .. R :
       PreambleAt(version, k + 1) = PreambleAt(version, k) + (IF Root[k] THEN 1 ELSE 0)
  /\ \A k \in 1 .. R :
       RootAt(version, s, k + 1) = RootAt(version, s, k) + (IF ~Root[k] \/ s.root[k] # Nil THEN 1 ELSE 0)
  /\ BitAt(version, s, 1) = CountAt(version, s) + 1
  /\ \A k \in Nat : BitAt(version, s, k + 1) = BitAt(version, s, k) + 1
  /\ Extends(version, s) =>
       /\ BitAt(version, s, LastAdded(version, s) + 1) = OpenAt(version, s, 1)
       /\ \A k \in 1 .. LastAdded(version, s) :
            OpenAt(version, s, k + 1) = OpenAt(version, s, k) + (IF s.ext[k] # Nil THEN 1 ELSE 0)

RankStep(n, S, k) ==
  /\ Rank(S, k - 1) \in Nat /\ Rank(S, n) \in Nat
  /\ Rank(S, (k + 1) - 1) = Rank(S, k - 1) + (IF k \in S THEN 1 ELSE 0)

LEMMA RankNext ==
  ASSUME NEW n \in Nat, NEW S, S \subseteq 1 .. n, NEW k \in 1 .. n
  PROVE  RankStep(n, S, k)
<1>1. /\ \A m \in Nat : Rank(S, m) \in Nat
      /\ \A m \in Nat : m + 1 \in S => Rank(S, m + 1) = Rank(S, m) + 1
      /\ \A m \in Nat : m + 1 \notin S => Rank(S, m + 1) = Rank(S, m)
  BY RankFacts
<1> DEFINE j == k - 1
<1>2. j \in Nat /\ j + 1 = k /\ (k + 1) - 1 = k
  OBVIOUS
<1> HIDE DEF j
<1>3. Rank(S, k) = Rank(S, j) + (IF k \in S THEN 1 ELSE 0)
  <2>1. CASE k \in S
    BY <1>1, <1>2, <2>1
  <2>2. CASE k \notin S
    <3>1. Rank(S, k) = Rank(S, j) /\ Rank(S, j) \in Nat
      BY <1>1, <1>2, <2>2
    <3> QED BY <2>2, <3>1
  <2> QED BY <2>1, <2>2
<1> QED BY <1>1, <1>2, <1>3 DEF RankStep, j

LEMMA Advance ==
  ASSUME NEW version \in Versions, NEW s \in Struct(version)
  PROVE  /\ Advances(version, s)
         /\ Start(version) \in {0, 1} /\ CountAt(version, s) \in Nat
<1>1. R \in Nat /\ version.additions \in Nat /\ Start(version) \in {0, 1}
  BY SequenceAssumption DEF R, Version, Start
<1>2. Optional \subseteq 1 .. R /\ Written(s) \subseteq 1 .. R
  BY DEF Optional, Written
<1>3. /\ Rank(Optional, R) \in Nat /\ Rank(Written(s), R) \in Nat
      /\ Rank(Optional, 0) = 0 /\ Rank(Written(s), 0) = 0
  <2>1. Rank(Optional, R) \in Nat /\ Rank(Optional, 0) = 0
    BY <1>1, <1>2, RankFacts
  <2>2. Rank(Written(s), R) \in Nat /\ Rank(Written(s), 0) = 0
    BY <1>1, <1>2, RankFacts
  <2> QED BY <2>1, <2>2
<1>4. 1 - 1 = 0 /\ (R + 1) - 1 = R
  BY <1>1
<1>5. PreambleAt(version, 1) = Start(version) + 0 /\ PreambleAt(version, 1) = Start(version)
  BY <1>1, <1>3, <1>4 DEF PreambleAt
<1>6. /\ RootAt(version, s, 1) = Start(version) + Rank(Optional, R)
      /\ PreambleAt(version, R + 1) = Start(version) + Rank(Optional, R)
  BY <1>1, <1>3, <1>4 DEF PreambleAt, RootAt
<1>7. CountAt(version, s) = Start(version) + Rank(Optional, R) + Rank(Written(s), R)
  BY <1>4 DEF CountAt, RootAt
<1>8. CountAt(version, s) \in Nat
  BY <1>1, <1>3, <1>7
<1>9. ASSUME NEW k \in 1 .. R
      PROVE  PreambleAt(version, k + 1) = PreambleAt(version, k) + (IF Root[k] THEN 1 ELSE 0)
  <2>1. /\ Rank(Optional, k - 1) \in Nat
        /\ Rank(Optional, (k + 1) - 1) = Rank(Optional, k - 1) + (IF k \in Optional THEN 1 ELSE 0)
    <3>1. RankStep(R, Optional, k)
      BY <1>1, <1>2, RankNext
    <3> QED BY <3>1 DEF RankStep
  <2>2. k \in Optional <=> Root[k]
    BY DEF Optional
  <2>3. PreambleAt(version, k) = Start(version) + Rank(Optional, k - 1)
    BY DEF PreambleAt
  <2>4. PreambleAt(version, k + 1) = Start(version) + Rank(Optional, (k + 1) - 1)
    BY DEF PreambleAt
  <2>5. CASE Root[k]
    BY <1>1, <2>1, <2>2, <2>3, <2>4, <2>5
  <2>6. CASE ~Root[k]
    BY <1>1, <2>1, <2>2, <2>3, <2>4, <2>6
  <2> QED BY <2>5, <2>6
<1>10. ASSUME NEW k \in 1 .. R
       PROVE  RootAt(version, s, k + 1) =
                RootAt(version, s, k) + (IF ~Root[k] \/ s.root[k] # Nil THEN 1 ELSE 0)
  <2> DEFINE c == Start(version) + Rank(Optional, R)
             w == ~Root[k] \/ s.root[k] # Nil
  <2>1. /\ Rank(Written(s), k - 1) \in Nat
        /\ Rank(Written(s), (k + 1) - 1) = Rank(Written(s), k - 1) + (IF k \in Written(s) THEN 1 ELSE 0)
    <3>1. RankStep(R, Written(s), k)
      BY <1>1, <1>2, RankNext
    <3> QED BY <3>1 DEF RankStep
  <2>2. k \in Written(s) <=> w
    BY DEF Written
  <2>3. RootAt(version, s, k) = c + Rank(Written(s), k - 1)
    BY DEF RootAt
  <2>4. RootAt(version, s, k + 1) = c + Rank(Written(s), (k + 1) - 1)
    BY DEF RootAt
  <2>5. c \in Nat
    BY <1>1, <1>3
  <2> HIDE DEF c, w
  <2>6. CASE w
    <3>1. RootAt(version, s, k + 1) = RootAt(version, s, k) + 1
      BY <2>1, <2>2, <2>3, <2>4, <2>5, <2>6
    <3> QED BY <2>6, <3>1 DEF w
  <2>7. CASE ~w
    <3>1. RootAt(version, s, k + 1) = RootAt(version, s, k) + 0
      BY <2>1, <2>2, <2>3, <2>4, <2>5, <2>7
    <3> QED BY <2>7, <3>1 DEF w
  <2> QED BY <2>6, <2>7
<1>11. /\ BitAt(version, s, 1) = CountAt(version, s) + 1
       /\ \A k \in Nat : BitAt(version, s, k + 1) = BitAt(version, s, k) + 1
  BY <1>8 DEF BitAt
<1>12. ASSUME Extends(version, s)
       PROVE  /\ BitAt(version, s, LastAdded(version, s) + 1) = OpenAt(version, s, 1)
              /\ \A k \in 1 .. LastAdded(version, s) :
                   OpenAt(version, s, k + 1) = OpenAt(version, s, k) + (IF s.ext[k] # Nil THEN 1 ELSE 0)
  <2> DEFINE n == LastAdded(version, s)
             A == Added(s, n)
             c == CountAt(version, s) + 1 + n
  <2>1. n \in Nat /\ c \in Nat
    BY <1>1, <1>8, <1>12, LastExists
  <2>2. A \subseteq 1 .. n
    BY DEF Added
  <2>3. ASSUME NEW k \in Nat
        PROVE  OpenAt(version, s, k) = c + Rank(A, k - 1)
    BY DEF OpenAt
  <2>4. ASSUME NEW k \in 1 .. n
        PROVE  k \in A <=> s.ext[k] # Nil
    BY DEF Added
  <2>5. BitAt(version, s, n + 1) = c
    <3>1. BitAt(version, s, n + 1) = CountAt(version, s) + (n + 1)
      BY DEF BitAt
    <3> HIDE DEF n
    <3> QED BY <1>8, <2>1, <3>1
  <2> HIDE DEF n, A, c
  <2>6. Rank(A, 0) = 0
    BY <2>1, <2>2, RankFacts
  <2>7. OpenAt(version, s, 1) = c
    <3>1. OpenAt(version, s, 1) = c + Rank(A, 1 - 1)
      BY <2>3
    <3> QED BY <1>4, <2>1, <2>6, <3>1
  <2>8. ASSUME NEW k \in 1 .. n
        PROVE  OpenAt(version, s, k + 1) = OpenAt(version, s, k) + (IF s.ext[k] # Nil THEN 1 ELSE 0)
    <3>1. /\ Rank(A, k - 1) \in Nat
          /\ Rank(A, (k + 1) - 1) = Rank(A, k - 1) + (IF k \in A THEN 1 ELSE 0)
      <4>1. RankStep(n, A, k)
        BY <2>1, <2>2, RankNext
      <4> QED BY <4>1 DEF RankStep
    <3>2. OpenAt(version, s, k) = c + Rank(A, k - 1)
      BY <2>1, <2>3
    <3>3. OpenAt(version, s, k + 1) = c + Rank(A, (k + 1) - 1)
      BY <2>1, <2>3
    <3> DEFINE w == s.ext[k] # Nil
    <3>4. k \in A <=> w
      BY <2>4
    <3> HIDE DEF w
    <3>5. CASE w
      <4>1. OpenAt(version, s, k + 1) = OpenAt(version, s, k) + 1
        BY <2>1, <3>1, <3>2, <3>3, <3>4, <3>5
      <4> QED BY <3>5, <4>1 DEF w
    <3>6. CASE ~w
      <4>1. OpenAt(version, s, k + 1) = OpenAt(version, s, k) + 0
        BY <2>1, <3>1, <3>2, <3>3, <3>4, <3>6
      <4> QED BY <3>6, <4>1 DEF w
    <3> QED BY <3>5, <3>6
  <2> QED BY <2>5, <2>7, <2>8 DEF n
<1> QED BY <1>1, <1>5, <1>6, <1>8, <1>9, <1>10, <1>11, <1>12 DEF Advances

-----------------------------------------------------------------------------
(* The versions and the structs of the two sides. *)
LEMMA Facts ==
  ASSUME Typed
  PROVE  /\ R \in Nat /\ sender \in Versions /\ receiver \in Versions
         /\ sender.additions \in Nat /\ receiver.additions \in Nat
         /\ sender.extensible \in BOOLEAN /\ receiver.extensible \in BOOLEAN
         /\ ~sender.extensible => sender.additions = 0
         /\ message \in Struct(sender)
         /\ DOMAIN message.ext = 1 .. sender.additions
         /\ \A k \in 1 .. R : message.root[k] \in Value
         /\ \A k \in 1 .. sender.additions : message.ext[k] \in Value
         /\ pos \in Nat /\ Len(wire) \in Nat /\ pos <= Len(wire) /\ i \in Nat /\ i >= 1
<1>1. R \in Nat /\ Versions \subseteq Version
      /\ \A version \in Versions : ~version.extensible => version.additions = 0
  BY SequenceAssumption DEF R
<1>2. sender \in Versions /\ receiver \in Versions /\ message \in Struct(sender)
  BY DEF Typed
<1>3. /\ sender.additions \in Nat /\ receiver.additions \in Nat
      /\ sender.extensible \in BOOLEAN /\ receiver.extensible \in BOOLEAN
      /\ ~sender.extensible => sender.additions = 0
  BY <1>1, <1>2 DEF Version
<1>4. message.root \in [1 .. R -> Value] /\ message.ext \in [1 .. sender.additions -> Value]
  BY <1>2 DEF Struct, R
<1>5. /\ pos \in 0 .. Len(wire) /\ wire \in Seq(Item) /\ i \in Nat \ {0}
  BY DEF Typed
<1>6. pos \in Nat /\ Len(wire) \in Nat /\ pos <= Len(wire) /\ i \in Nat /\ i >= 1
  BY <1>5
<1> QED BY <1>1, <1>2, <1>3, <1>4, <1>6

(* The message goes as far as its last addition. *)
LEMMA HowMany ==
  ASSUME Typed
  PROVE  /\ Extended => Many \in 1 .. sender.additions
         /\ Extended => \A k \in Many + 1 .. sender.additions : message.ext[k] = Nil
         /\ ~Extended => \A k \in 1 .. sender.additions : message.ext[k] = Nil
<1>1. sender.additions \in Nat
  BY Facts
<1>2. ASSUME Extended
      PROVE  /\ Many \in 1 .. sender.additions
             /\ \A k \in Many + 1 .. sender.additions : message.ext[k] = Nil
  BY <1>1, <1>2, LastExists DEF Extended, Many
<1>3. ~Extended => \A k \in 1 .. sender.additions : message.ext[k] = Nil
  BY DEF Extended, Extends
<1> QED BY <1>2, <1>3

LEMMA OriginalFacts ==
  ASSUME Typed
  PROVE  /\ LaidOut(sender, message, Original) /\ Advances(sender, message)
         /\ Original \in Seq(Item) /\ Len(Original) \in Nat
         /\ Start(sender) \in {0, 1} /\ CountAt(sender, message) \in Nat
<1>1. sender \in Versions /\ message \in Struct(sender)
  BY Facts
<1>2. LaidOut(sender, message, Original)
  BY <1>1, Layout DEF Original
<1>3. Advances(sender, message) /\ Start(sender) \in {0, 1} /\ CountAt(sender, message) \in Nat
  BY <1>1, Advance
<1>4. Original \in Seq(Item)
  BY <1>2 DEF LaidOut
<1>5. Len(Original) \in Nat
  BY <1>4
<1> QED BY <1>2, <1>3, <1>4, <1>5

(* The token that the encoder wrote where the decoder is. *)
Due(kind, x) == pos < Len(Original) /\ Original[pos + 1] = Token(kind, x)

LEMMA Expected ==
  ASSUME Typed
  PROVE  /\ AtExtensionBit => Due("bit", Extended)
         /\ AtPreamble /\ i <= R /\ Root[i] =>
              pos < Len(Original) /\ Original[pos + 1] = Flag(SentRoot(i))
         /\ AtRoot /\ i <= R /\ (~Root[i] \/ SentRoot(i) # Nil) => Due("value", SentRoot(i))
         /\ AtCount => Due("small", Many - 1)
         /\ AtBitmap /\ i <= Many =>
              pos < Len(Original) /\ Original[pos + 1] = Flag(message.ext[i])
         /\ AtAdditions /\ i <= Many /\ message.ext[i] # Nil => Due("open", message.ext[i])
<1>0. LaidOut(sender, message, Original) /\ R \in Nat /\ i \in Nat /\ i >= 1
  BY OriginalFacts, Facts
<1>1. AtExtensionBit => Due("bit", Extended)
  <2>1. SUFFICES ASSUME AtExtensionBit PROVE Due("bit", Extended)
    OBVIOUS
  <2>2. Len(Original) > 0 /\ Original[1] = Token("bit", Extended) /\ pos = 0
    BY <1>0, <2>1 DEF AtExtensionBit, LaidOut, Extended
  <2>3. pos + 1 = 1
    BY <2>2
  <2> QED BY <2>2, <2>3 DEF Due
<1>2. ASSUME AtPreamble, i <= R, Root[i]
      PROVE  pos < Len(Original) /\ Original[pos + 1] = Flag(SentRoot(i))
  <2>1. i \in Optional /\ pos = PreambleAt(sender, i)
    BY <1>0, <1>2 DEF Optional, AtPreamble
  <2> QED BY <1>0, <2>1 DEF LaidOut, SentRoot
<1>3. ASSUME AtRoot, i <= R, ~Root[i] \/ SentRoot(i) # Nil
      PROVE  Due("value", SentRoot(i))
  <2>1. i \in Written(message) /\ pos = RootAt(sender, message, i)
    BY <1>0, <1>3 DEF Written, AtRoot, SentRoot
  <2> QED BY <1>0, <2>1 DEF LaidOut, SentRoot, Due
<1>4. AtCount => Due("small", Many - 1)
  BY <1>0 DEF AtCount, LaidOut, Due, Extended, Many
<1>5. ASSUME AtBitmap, i <= Many
      PROVE  pos < Len(Original) /\ Original[pos + 1] = Flag(message.ext[i])
  <2>1. Extended /\ pos = BitAt(sender, message, i)
    BY <1>5 DEF AtBitmap
  <2>2. Many \in Nat
    BY <2>1, Facts, HowMany
  <2>3. i \in 1 .. Many
    BY <1>0, <1>5, <2>2
  <2> QED BY <1>0, <2>1, <2>3 DEF LaidOut, Extended, Many
<1>6. ASSUME AtAdditions, i <= Many, message.ext[i] # Nil
      PROVE  Due("open", message.ext[i])
  <2>1. Extended /\ pos = OpenAt(sender, message, i)
    BY <1>6 DEF AtAdditions
  <2>2. Many \in Nat
    BY <2>1, Facts, HowMany
  <2>3. i \in Added(message, Many)
    BY <1>0, <1>6, <2>2 DEF Added
  <2> QED BY <1>0, <2>1, <2>3 DEF LaidOut, Extended, Many, Due
<1> QED BY <1>1, <1>2, <1>3, <1>4, <1>5, <1>6

(* A token that arrived is the one sent. *)
LEMMA Arrived ==
  ASSUME Inv, pc # "idle", pos < Len(wire)
  PROVE  pos + 1 \in 1 .. Len(wire) /\ wire[pos + 1] = Original[pos + 1] /\ wire[pos + 1] \in Item
<1>1. pos + 1 \in 1 .. Len(wire) /\ wire \in Seq(Item)
  BY Facts DEF Inv, Typed
<1>2. wire[pos + 1] = Original[pos + 1]
  BY <1>1 DEF Inv, Received
<1> QED BY <1>1, <1>2

(* What each kind of token carries. *)
LEMMA ItemFacts ==
  /\ \A t \in Item : /\ t.kind = "bit" => t.x \in BOOLEAN
                     /\ t.kind = "small" => t.x \in Nat
                     /\ t.kind \in {"value", "open"} => t.x \in Value
  /\ \A kind, x : Token(kind, x).kind = kind /\ Token(kind, x).x = x
  /\ \A x : Flag(x).kind = "bit" /\ (Flag(x).x <=> x # Nil)
<1>1. \A t \in Item : /\ t.kind = "bit" => t.x \in BOOLEAN
                      /\ t.kind = "small" => t.x \in Nat
                      /\ t.kind \in {"value", "open"} => t.x \in Value
  BY DEF Item
<1>2. \A kind, x : Token(kind, x).kind = kind /\ Token(kind, x).x = x
  BY DEF Token
<1>3. \A x : Flag(x).kind = "bit" /\ (Flag(x).x <=> x # Nil)
  BY DEF Flag, Token
<1> QED BY <1>1, <1>2, <1>3

LEMMA SameMessage ==
  ASSUME UNCHANGED <<sender, receiver, message>>
  PROVE  /\ Original' = Original /\ (Extended' <=> Extended) /\ Many' = Many
         /\ Understood' <=> Understood
         /\ \A k : SentRoot(k)' = SentRoot(k) /\ SentExt(k)' = SentExt(k)
<1>1. Original' = Original
  BY DEF Original
<1>2. Extended' <=> Extended
  BY DEF Extended
<1>3. Many' = Many
  BY DEF Many
<1>4. Understood' <=> Understood
  BY DEF Understood
<1>5. \A k : SentRoot(k)' = SentRoot(k) /\ SentExt(k)' = SentExt(k)
  BY DEF SentRoot, SentExt
<1> QED BY <1>1, <1>2, <1>3, <1>4, <1>5

(* A step of the decoder keeps what was sent; it has to show where it gets. *)
Frame == UNCHANGED <<sides, wire, before>>
Advanced ==
  /\ pc' = "extensionBit" => AtExtensionBit'
  /\ pc' = "preamble" => AtPreamble'
  /\ pc' = "root" => AtRoot'
  /\ pc' = "count" => AtCount'
  /\ pc' = "bitmap" => AtBitmap'
  /\ pc' = "additions" => AtAdditions'
  /\ pc' = "ok" => AtEnd'
  /\ pc' = "eof" => Short'
  /\ pc' \notin {"skipCount", "skip", "skipOpen", "misread"}

LEMMA FrameFacts ==
  ASSUME Frame
  PROVE  /\ UNCHANGED <<sender, receiver, count, message, wire, before>>
         /\ Original' = Original /\ (Extended' <=> Extended) /\ Many' = Many
         /\ Understood' <=> Understood
         /\ \A k : SentRoot(k)' = SentRoot(k) /\ SentExt(k)' = SentExt(k)
<1>1. UNCHANGED <<sender, receiver, count, message, wire, before>>
  BY DEF Frame, sides
<1> QED BY <1>1, SameMessage

LEMMA DecodeFrame ==
  ASSUME Inv, Frame, pc # "idle", pc' # "idle", Typed', Understood => Advanced
  PROVE  Inv'
<1>1. /\ UNCHANGED <<sender, receiver, count, message, wire, before>>
      /\ Original' = Original /\ (Understood' <=> Understood)
  BY FrameFacts
<1>2. Received'
  BY <1>1 DEF Inv, Received
<1>3. Understood' => Tracks'
  BY <1>1 DEF Tracks, Advanced
<1> QED BY <1>2, <1>3 DEF Inv

LEMMA TypedFrame ==
  ASSUME Typed, Frame, pos' \in 0 .. Len(wire), i' \in Nat \ {0}, numExt' \in Nat,
         hasExt' \in BOOLEAN, bitmap' \in Seq(BOOLEAN), present' \in [1 .. R -> BOOLEAN],
         v' \in Struct(receiver),
         pc' \in Ended \union {"extensionBit", "skipCount", "skip", "skipOpen", "preamble",
                               "root", "count", "bitmap", "additions"},
         pc' \in {"bitmap", "additions"} => Len(bitmap') = numExt'
  PROVE  Typed'
<1>1. UNCHANGED <<sender, receiver, count, message, wire, before>>
  BY FrameFacts
<1> QED BY <1>1 DEF Typed

LEMMA FilledSame ==
  ASSUME Frame, UNCHANGED v, NEW a, NEW b
  PROVE  Filled(a, b)' <=> Filled(a, b)
BY FrameFacts DEF Filled

LEMMA FailsInv ==
  ASSUME Inv, Frame, pc \notin Ended, NEW kind, Fails(kind),
         Understood =>
           /\ pos < Len(Original) /\ Original[pos + 1].kind = kind
           /\ \E a \in 1 .. R + 1, b \in 1 .. sender.additions + 1 :
                Filled(a, b) /\ (b > 1 => a = R + 1)
  PROVE  Inv'
<1>1. /\ UNCHANGED <<sender, receiver, count, message, wire, before>>
      /\ UNCHANGED <<pos, i, hasExt, present, numExt, bitmap, v>>
      /\ pc # "idle" /\ pc' \in {"eof", "misread"}
      /\ ~Reads(kind) /\ pc' = IF pos = Len(wire) THEN "eof" ELSE "misread"
  BY FrameFacts DEF Fails, locals, Ended
<1>2. Typed
  BY DEF Inv
<1>3. Typed'
  BY <1>1, <1>2 DEF Typed, Ended
<1>4. ASSUME Understood
      PROVE  pc' = "eof" /\ Short'
  <2>1. pos \in Nat /\ Len(wire) \in Nat /\ pos <= Len(wire) /\ Len(Original) \in Nat
    BY <1>2, Facts, OriginalFacts
  <2>2. pos = Len(wire)
    <3>1. CASE pos < Len(wire)
      <4>1. wire[pos + 1].kind = kind
        BY <1>1, <1>4, <3>1, Arrived
      <4> QED BY <1>1, <3>1, <4>1 DEF Reads
    <3> QED BY <2>1, <3>1
  <2>3. PICK a \in 1 .. R + 1, b \in 1 .. sender.additions + 1 : Filled(a, b) /\ (b > 1 => a = R + 1)
    BY <1>4
  <2>4. Filled(a, b)'
    BY <1>1, <2>3, FilledSame
  <2>5. Len(wire)' < Len(Original)'
    BY <1>1, <1>4, <2>1, <2>2, FrameFacts
  <2>6. \E x \in 1 .. R + 1, y \in 1 .. sender.additions + 1 : Filled(x, y)' /\ (y > 1 => x = R + 1)
    BY <2>3, <2>4
  <2> QED BY <1>1, <2>2, <2>5, <2>6 DEF Short
<1>5. Understood => Advanced
  BY <1>1, <1>4 DEF Advanced
<1> QED BY <1>1, <1>3, <1>5, DecodeFrame

(* A read that succeeds takes one token, of the kind it reads. *)
LEMMA TakeFacts ==
  ASSUME Inv, pc # "idle", NEW kind, Take(kind)
  PROVE  /\ pos' = pos + 1 /\ pos' \in 0 .. Len(wire)
         /\ It = Original[pos + 1].x
         /\ kind = "bit" => It \in BOOLEAN
         /\ kind = "small" => It \in Nat
         /\ kind \in {"value", "open"} => It \in Value
<1>1. pos < Len(wire) /\ wire[pos + 1].kind = kind /\ pos' = pos + 1
  BY DEF Take, Reads
<1>2. pos + 1 \in 1 .. Len(wire) /\ wire[pos + 1] = Original[pos + 1] /\ wire[pos + 1] \in Item
  BY <1>1, Arrived
<1>3. pos \in Nat
  BY Facts DEF Inv
<1>4. /\ kind = "bit" => It \in BOOLEAN
      /\ kind = "small" => It \in Nat
      /\ kind \in {"value", "open"} => It \in Value
  BY <1>1, <1>2, ItemFacts DEF It
<1> QED BY <1>1, <1>2, <1>3, <1>4 DEF It

(* The sides understand each other, and the decoder is where it should be. *)
LEMMA Here ==
  ASSUME Inv, Understood
  PROVE  /\ pc = "extensionBit" => AtExtensionBit
         /\ pc = "preamble" => AtPreamble
         /\ pc = "root" => AtRoot
         /\ pc = "count" => AtCount
         /\ pc = "bitmap" => AtBitmap
         /\ pc = "additions" => AtAdditions
         /\ pc \notin {"skipCount", "skip", "skipOpen"}
BY DEF Inv, Tracks

LEMMA Inside ==
  ASSUME Typed
  PROVE  1 \in 1 .. R + 1 /\ R + 1 \in 1 .. R + 1 /\ 1 \in 1 .. sender.additions + 1 /\ ~(1 > 1)
BY Facts

LEMMA ReadExtensionBitInv == ASSUME Inv, Frame, ReadExtensionBit PROVE Inv'
<1>1. /\ UNCHANGED <<sender, receiver, count, message, wire, before>>
      /\ pc = "extensionBit" /\ pc \notin Ended /\ pc # "idle" /\ Typed
  BY FrameFacts DEF ReadExtensionBit, Ended, Inv
<1>2. Understood => AtExtensionBit /\ Due("bit", Extended)
  BY <1>1, Here, Expected
<1>3. CASE Fails("bit")
  <2>1. Understood => /\ pos < Len(Original) /\ Original[pos + 1].kind = "bit"
                      /\ Filled(1, 1)
    BY <1>2, ItemFacts DEF Due, AtExtensionBit
  <2>2. Understood => \E a \in 1 .. R + 1, b \in 1 .. sender.additions + 1 :
                        Filled(a, b) /\ (b > 1 => a = R + 1)
    BY <1>1, <2>1, Inside
  <2> QED BY <1>1, <1>3, <2>1, <2>2, FailsInv
<1>4. ASSUME Take("bit"), hasExt' = It,
             Goto(IF It /\ receiver.additions = 0 THEN "skipCount" ELSE "preamble"),
             UNCHANGED <<present, numExt, bitmap, v>>
      PROVE  Inv'
  <2>1. /\ pos' = pos + 1 /\ pos' \in 0 .. Len(wire)
        /\ It = Original[pos + 1].x /\ It \in BOOLEAN
    BY <1>1, <1>4, TakeFacts
  <2>2. pc' \in {"skipCount", "preamble"} /\ i' = 1 /\ hasExt' \in BOOLEAN
    BY <1>4, <2>1 DEF Goto
  <2>3. Typed'
    BY <1>1, <1>4, <2>1, <2>2 DEF Typed, Ended
  <2>4. ASSUME Understood
        PROVE  pc' = "preamble" /\ AtPreamble'
    <3>1. Original[pos + 1] = Token("bit", Extended) /\ pos = 0 /\ Filled(1, 1) /\ sender.extensible
      BY <1>2, <2>4 DEF Due, AtExtensionBit
    <3>2. It <=> Extended
      BY <2>1, <3>1, ItemFacts
    <3>3. receiver.additions = 0 => ~Extended
      BY <1>1, <2>4, Facts DEF Understood, Extended, Extends
    <3>4. pc' = "preamble"
      BY <1>4, <3>2, <3>3 DEF Goto
    <3>5. pos' = PreambleAt(sender, 1)
      <4>1. PreambleAt(sender, 1) = Start(sender)
        BY <1>1, OriginalFacts DEF Advances
      <4> QED BY <2>1, <3>1, <4>1 DEF Start
    <3>6. hasExt' <=> Extended'
      BY <1>4, <3>2, FrameFacts
    <3>7. Filled(1, 1)'
      BY <1>4, <3>1, FilledSame
    <3>8. i' <= R + 1 /\ \A k \in 1 .. R : ~(k < i')
      BY <1>1, <2>2, Facts
    <3> QED BY <1>1, <2>2, <3>4, <3>5, <3>6, <3>7, <3>8 DEF AtPreamble
  <2>5. Understood => Advanced
    BY <2>4 DEF Advanced
  <2> QED BY <1>1, <2>2, <2>3, <2>5, DecodeFrame
<1> QED BY <1>3, <1>4 DEF ReadExtensionBit

(* Where the sides understand each other nothing is skipped. *)
LEMMA SkipInv == ASSUME Inv, Frame, SkipCount \/ SkipBit \/ SkipOpenType PROVE Inv'
<1>1. /\ UNCHANGED <<sender, receiver, count, message, wire, before>>
      /\ pc \in {"skipCount", "skip", "skipOpen"} /\ pc \notin Ended /\ pc # "idle" /\ Typed
  BY FrameFacts DEF SkipCount, SkipBit, SkipOpenType, Ended, Inv
<1>2. ~Understood
  BY <1>1, Here
<1>3. ASSUME NEW kind, Fails(kind)
      PROVE  Inv'
  BY <1>1, <1>2, <1>3, FailsInv
<1>4. ASSUME UNCHANGED <<hasExt, present, bitmap, v>>, pos' \in 0 .. Len(wire), i' \in Nat \ {0},
             numExt' \in Nat, pc' \in {"skip", "skipOpen", "preamble"}
      PROVE  Inv'
  <2>1. Typed'
    BY <1>1, <1>4 DEF Typed, Ended
  <2> QED BY <1>1, <1>2, <1>4, <2>1, DecodeFrame
<1>5. pos \in 0 .. Len(wire) /\ i \in Nat \ {0} /\ i + 1 \in Nat \ {0} /\ numExt \in Nat /\ 1 \in Nat \ {0}
  BY <1>1 DEF Typed
<1>6. CASE SkipCount
  <2>1. ASSUME Take("small"), numExt' = It + 1, Goto("skip"), UNCHANGED <<hasExt, present, bitmap, v>>
        PROVE  Inv'
    <3>1. pos' \in 0 .. Len(wire) /\ It \in Nat
      BY <1>1, <2>1, TakeFacts
    <3> QED BY <1>4, <1>5, <2>1, <3>1 DEF Goto
  <2> QED BY <1>3, <1>6, <2>1 DEF SkipCount
<1>7. CASE SkipBit
  <2>1. ASSUME Take("bit")
        PROVE  pos' \in 0 .. Len(wire)
    BY <1>1, <2>1, TakeFacts
  <2>2. CASE i > numExt /\ Goto("preamble") /\ UNCHANGED pos
    BY <1>4, <1>5, <1>7, <2>2 DEF Goto, SkipBit
  <2>3. CASE Take("bit") /\ It /\ pc' = "skipOpen" /\ UNCHANGED i
    BY <1>4, <1>5, <1>7, <2>1, <2>3 DEF SkipBit
  <2>4. CASE Take("bit") /\ ~It /\ Again
    BY <1>4, <1>5, <1>7, <2>1, <2>4 DEF Again, SkipBit
  <2> QED BY <1>3, <1>7, <2>2, <2>3, <2>4 DEF SkipBit
<1>8. CASE SkipOpenType
  <2>1. ASSUME Take("open"), pc' = "skip", i' = i + 1, UNCHANGED <<hasExt, present, numExt, bitmap, v>>
        PROVE  Inv'
    <3>1. pos' \in 0 .. Len(wire)
      BY <1>1, <2>1, TakeFacts
    <3> QED BY <1>4, <1>5, <2>1, <3>1
  <2> QED BY <1>3, <1>8, <2>1 DEF SkipOpenType
<1> QED BY <1>6, <1>7, <1>8

LEMMA ReadPreambleInv == ASSUME Inv, Frame, ReadPreamble PROVE Inv'
<1>1. /\ UNCHANGED <<sender, receiver, count, message, wire, before>>
      /\ UNCHANGED <<hasExt, numExt, bitmap, v>>
      /\ pc = "preamble" /\ pc \notin Ended /\ pc # "idle" /\ Typed
  BY FrameFacts DEF ReadPreamble, Ended, Inv
<1>2. R \in Nat /\ i \in Nat /\ i >= 1 /\ pos \in Nat /\ pos \in 0 .. Len(wire)
  BY <1>1, Facts DEF Typed
<1>3. Understood =>
        /\ AtPreamble /\ Filled(1, 1) /\ (hasExt' <=> Extended') /\ Filled(1, 1)'
        /\ i <= R + 1 /\ pos = PreambleAt(sender, i) /\ Advances(sender, message)
        /\ \A k \in 1 .. R : k < i /\ Root[k] => (present[k] <=> SentRoot(k) # Nil)
        /\ \A k \in 1 .. R : SentRoot(k)' = SentRoot(k)
  <2>1. SUFFICES ASSUME Understood PROVE <1>3!2
    BY Zenon
  <2>2. AtPreamble
    BY <1>1, <2>1, Here
  <2>3. Filled(1, 1)'
    BY <1>1, <2>2, FilledSame DEF AtPreamble
  <2>4. hasExt' <=> Extended'
    BY <1>1, <2>2, FrameFacts DEF AtPreamble
  <2> QED BY <1>1, <2>2, <2>3, <2>4, FrameFacts, OriginalFacts DEF AtPreamble
<1>4. CASE i > Len(Root) /\ Goto("root") /\ UNCHANGED <<pos, present>>
  <2>1. i > R /\ pc' = "root" /\ i' = 1 /\ UNCHANGED <<pos, present>>
    BY <1>4 DEF Goto, R
  <2>2. Typed'
    BY <1>1, <1>2, <2>1 DEF Typed, Ended
  <2>3. ASSUME Understood
        PROVE  AtRoot'
    <3>1. i = R + 1
      BY <1>2, <1>3, <2>1, <2>3
    <3>2. pos' = RootAt(sender', message', i')
      BY <1>1, <1>3, <2>1, <2>3, <3>1 DEF Advances
    <3>3. \A k \in 1 .. R : Root[k] => (present'[k] <=> SentRoot(k)' # Nil)
      BY <1>2, <1>3, <2>1, <2>3, <3>1
    <3>4. Filled(i, 1)'
      BY <1>3, <2>1, <2>3
    <3> QED BY <1>2, <1>3, <2>1, <2>3, <3>2, <3>3, <3>4 DEF AtRoot
  <2>4. Understood => Advanced
    BY <2>1, <2>3 DEF Advanced
  <2> QED BY <1>1, <2>1, <2>2, <2>4, DecodeFrame
<1>5. CASE i <= Len(Root) /\ ~Root[i] /\ Again /\ UNCHANGED <<pos, present>>
  <2>1. i \in 1 .. R /\ ~Root[i] /\ pc' = "preamble" /\ i' = i + 1 /\ UNCHANGED <<pos, present>>
    BY <1>1, <1>2, <1>5 DEF Again, R
  <2>2. Typed'
    BY <1>1, <1>2, <2>1 DEF Typed, Ended
  <2>3. ASSUME Understood
        PROVE  AtPreamble'
    <3>1. PreambleAt(sender, i + 1) = PreambleAt(sender, i) + 0
      BY <1>3, <2>1, <2>3 DEF Advances
    <3>2. pos' = PreambleAt(sender', i')
      BY <1>1, <1>2, <1>3, <2>1, <2>3, <3>1
    <3>3. \A k \in 1 .. R : k < i' /\ Root[k] => (present'[k] <=> SentRoot(k)' # Nil)
      <4>1. \A k \in 1 .. R : k < i + 1 => k < i \/ k = i
        BY <1>2
      <4> QED BY <1>3, <2>1, <2>3, <4>1
    <3> QED BY <1>2, <1>3, <2>1, <2>3, <3>2, <3>3 DEF AtPreamble
  <2>4. Understood => Advanced
    BY <2>1, <2>3 DEF Advanced
  <2> QED BY <1>1, <2>1, <2>2, <2>4, DecodeFrame
<1>6. Understood /\ i <= R /\ Root[i] => pos < Len(Original) /\ Original[pos + 1] = Flag(SentRoot(i))
  BY <1>1, <1>3, Expected
<1>7. CASE i <= Len(Root) /\ Root[i] /\ Fails("bit")
  <2>1. Understood => /\ pos < Len(Original) /\ Original[pos + 1].kind = "bit"
    BY <1>6, <1>7, ItemFacts DEF R
  <2>2. Understood => \E a \in 1 .. R + 1, b \in 1 .. sender.additions + 1 :
                        Filled(a, b) /\ (b > 1 => a = R + 1)
    BY <1>1, <1>3, Inside
  <2> QED BY <1>1, <1>7, <2>1, <2>2, FailsInv
<1>8. ASSUME i <= Len(Root), Root[i], Take("bit"), present' = [present EXCEPT ![i] = It], Again
      PROVE  Inv'
  <2>1. /\ pos' = pos + 1 /\ pos' \in 0 .. Len(wire)
        /\ It = Original[pos + 1].x /\ It \in BOOLEAN
    BY <1>1, <1>8, TakeFacts
  <2>2. i \in 1 .. R /\ pc' = "preamble" /\ i' = i + 1
    BY <1>1, <1>2, <1>8 DEF Again, R
  <2>3. /\ present' \in [1 .. R -> BOOLEAN] /\ present'[i] = It
        /\ \A k \in 1 .. R : k # i => present'[k] = present[k]
    BY <1>1, <1>8, <2>1, <2>2 DEF Typed
  <2>4. Typed'
    BY <1>1, <1>2, <2>1, <2>2, <2>3 DEF Typed, Ended
  <2>5. ASSUME Understood
        PROVE  AtPreamble'
    <3>1. PreambleAt(sender, i + 1) = PreambleAt(sender, i) + 1
      BY <1>3, <1>8, <2>2, <2>5 DEF Advances
    <3>2. pos' = PreambleAt(sender', i')
      BY <1>1, <1>2, <1>3, <2>1, <2>2, <2>5, <3>1
    <3>3. It <=> SentRoot(i) # Nil
      BY <1>2, <1>6, <1>8, <2>1, <2>2, <2>5, ItemFacts
    <3>4. \A k \in 1 .. R : k < i' /\ Root[k] => (present'[k] <=> SentRoot(k)' # Nil)
      <4>1. \A k \in 1 .. R : k < i + 1 => k = i \/ (k < i /\ k # i)
        BY <1>2
      <4>2. SUFFICES ASSUME NEW k \in 1 .. R, k < i', Root[k]
                     PROVE  present'[k] <=> SentRoot(k)' # Nil
        BY Zenon
      <4>3. SentRoot(k)' = SentRoot(k)
        BY <1>3, <2>5
      <4>4. CASE k = i
        BY <2>3, <3>3, <4>3, <4>4
      <4>5. CASE k < i /\ k # i
        BY <1>3, <2>3, <2>5, <4>2, <4>3, <4>5
      <4> QED BY <2>2, <4>1, <4>2, <4>4, <4>5
    <3>5. i' <= R + 1
      BY <1>2, <2>2
    <3> QED BY <1>3, <2>2, <2>5, <3>2, <3>4, <3>5 DEF AtPreamble
  <2>6. Understood => Advanced
    BY <2>2, <2>5 DEF Advanced
  <2> QED BY <1>1, <2>2, <2>4, <2>6, DecodeFrame
<1> QED BY <1>4, <1>5, <1>7, <1>8 DEF ReadPreamble

(* A field that is written into the struct. *)
LEMMA RootFilled ==
  ASSUME Typed, NEW x \in Value, i \in 1 .. R, v' = [v EXCEPT !.root[i] = x]
  PROVE  /\ v' \in Struct(receiver) /\ v'.root[i] = x /\ v'.ext = v.ext
         /\ \A k \in 1 .. R : k # i => v'.root[k] = v.root[k]
<1>1. v \in [root : [1 .. R -> Value], ext : [1 .. receiver.additions -> Value]]
  BY DEF Typed, Struct, R
<1>2. v' \in [root : [1 .. R -> Value], ext : [1 .. receiver.additions -> Value]]
  BY <1>1
<1>3. /\ v'.root[i] = x /\ v'.ext = v.ext
      /\ \A k \in 1 .. R : k # i => v'.root[k] = v.root[k]
  BY <1>1
<1> QED BY <1>2, <1>3 DEF Struct, R

LEMMA ExtFilled ==
  ASSUME Typed, NEW x \in Value, i \in 1 .. receiver.additions, v' = [v EXCEPT !.ext[i] = x]
  PROVE  /\ v' \in Struct(receiver) /\ v'.ext[i] = x /\ v'.root = v.root
         /\ \A k \in 1 .. receiver.additions : k # i => v'.ext[k] = v.ext[k]
<1>1. v \in [root : [1 .. R -> Value], ext : [1 .. receiver.additions -> Value]]
  BY DEF Typed, Struct, R
<1>2. v' \in [root : [1 .. R -> Value], ext : [1 .. receiver.additions -> Value]]
  BY <1>1
<1>3. /\ v'.ext[i] = x /\ v'.root = v.root
      /\ \A k \in 1 .. receiver.additions : k # i => v'.ext[k] = v.ext[k]
  BY <1>1
<1> QED BY <1>2, <1>3 DEF Struct, R

LEMMA ReadRootInv == ASSUME Inv, Frame, ReadRoot PROVE Inv'
<1>1. /\ UNCHANGED <<sender, receiver, count, message, wire, before>>
      /\ UNCHANGED <<hasExt, present, numExt, bitmap>>
      /\ pc = "root" /\ pc \notin Ended /\ pc # "idle" /\ Typed
  BY FrameFacts DEF ReadRoot, Ended, Inv
<1>2. /\ R \in Nat /\ i \in Nat /\ i >= 1 /\ pos \in Nat /\ pos \in 0 .. Len(wire)
      /\ receiver.additions \in Nat /\ sender.additions \in Nat
  BY <1>1, Facts DEF Typed
<1>3. Understood =>
        /\ AtRoot /\ Filled(i, 1) /\ (hasExt <=> Extended) /\ (hasExt' <=> Extended')
        /\ i <= R + 1 /\ pos = RootAt(sender, message, i) /\ Advances(sender, message)
        /\ \A k \in 1 .. R : Root[k] => (present[k] <=> SentRoot(k) # Nil)
        /\ \A k : SentRoot(k)' = SentRoot(k) /\ SentExt(k)' = SentExt(k)
  <2>1. SUFFICES ASSUME Understood PROVE <1>3!2
    BY Zenon
  <2>2. AtRoot
    BY <1>1, <2>1, Here
  <2>3. hasExt' <=> Extended'
    BY <1>1, <2>2, FrameFacts DEF AtRoot
  <2> QED BY <1>1, <2>2, <2>3, FrameFacts, OriginalFacts DEF AtRoot
<1>4. ASSUME i > Len(Root), UNCHANGED <<pos, v>>,
             Goto(IF hasExt /\ receiver.additions > 0 THEN "count" ELSE "ok")
      PROVE  Inv'
  <2>1. i > R /\ pc' \in {"count", "ok"} /\ i' = 1
    BY <1>4 DEF Goto, R
  <2>2. Typed'
    BY <1>1, <1>2, <1>4, <2>1 DEF Typed, Ended
  <2>3. ASSUME Understood
        PROVE  Advanced
    <3>1. i = R + 1 /\ pos = CountAt(sender, message) /\ Filled(R + 1, 1)
      BY <1>2, <1>3, <2>1, <2>3 DEF CountAt
    <3>2. CASE hasExt /\ receiver.additions > 0
      <4>1. pc' = "count" /\ Extended
        BY <1>3, <1>4, <2>3, <3>2 DEF Goto
      <4>2. pos' = CountAt(sender', message')
        BY <1>1, <1>4, <3>1
      <4>3. Filled(R + 1, 1)'
        BY <1>4, <3>1, FilledSame
      <4>4. AtCount'
        BY <4>1, <4>2, <4>3, FrameFacts DEF AtCount
      <4> QED BY <4>1, <4>4 DEF Advanced
    <3>3. CASE ~(hasExt /\ receiver.additions > 0)
      <4>1. pc' = "ok"
        BY <1>4, <3>3 DEF Goto
      <4>2. ~Extended
        <5>1. receiver.additions = 0 => ~Extended
          BY <1>1, <2>3, Facts DEF Understood, Extended, Extends
        <5> QED BY <1>2, <1>3, <2>3, <3>3, <5>1
      <4>3. pos = Len(Original)
        BY <1>1, <3>1, <4>2, OriginalFacts DEF LaidOut, Extended
      <4>4. \A k \in 1 .. receiver.additions : SentExt(k) = Nil
        BY <1>1, <1>2, <4>2, HowMany DEF SentExt
      <4>5. Filled(R + 1, receiver.additions + 1)
        BY <3>1, <4>4 DEF Filled
      <4>6. Filled(R + 1, receiver.additions + 1)'
        <5>1. /\ v' = v /\ before' = before /\ receiver' = receiver
              /\ \A k : SentRoot(k)' = SentRoot(k) /\ SentExt(k)' = SentExt(k)
          BY <1>1, <1>4, FrameFacts
        <5> QED BY <4>5, <5>1 DEF Filled
      <4>7. AtEnd'
        BY <1>1, <1>4, <4>3, <4>6, FrameFacts DEF AtEnd
      <4> QED BY <4>1, <4>7 DEF Advanced
    <3> QED BY <3>2, <3>3
  <2> QED BY <1>1, <2>1, <2>2, <2>3, DecodeFrame
<1>5. CASE i <= Len(Root) /\ Root[i] /\ ~present[i] /\ Again /\ UNCHANGED <<pos, v>>
  <2>1. i \in 1 .. R /\ Root[i] /\ ~present[i] /\ pc' = "root" /\ i' = i + 1 /\ UNCHANGED <<pos, v>>
    BY <1>1, <1>2, <1>5 DEF Again, R
  <2>2. Typed'
    BY <1>1, <1>2, <2>1 DEF Typed, Ended
  <2>3. ASSUME Understood
        PROVE  AtRoot'
    <3>1. SentRoot(i) = Nil
      BY <1>3, <2>1, <2>3
    <3>2. RootAt(sender, message, i + 1) = RootAt(sender, message, i) + 0
      BY <1>3, <2>1, <2>3, <3>1 DEF Advances, SentRoot
    <3>3. pos' = RootAt(sender', message', i')
      BY <1>1, <1>2, <1>3, <2>1, <2>3, <3>2
    <3>4. Filled(i + 1, 1)
      <4>1. \A k \in 1 .. R : (k < i + 1 /\ SentRoot(k) # Nil) <=> (k < i /\ SentRoot(k) # Nil)
        <5>1. \A k \in 1 .. R : k < i + 1 <=> k < i \/ k = i
          BY <1>2
        <5> QED BY <3>1, <5>1
      <4>2. Filled(i, 1)
        BY <1>3, <2>3
      <4> QED BY <4>1, <4>2 DEF Filled
    <3>5. Filled(i, 1)'
      <4>1. v' = v /\ i' = i + 1
        BY <2>1
      <4> QED BY <1>1, <1>3, <2>3, <3>4, <4>1 DEF Filled
    <3>6. i' <= R + 1 /\ \A k \in 1 .. R : Root[k] => (present'[k] <=> SentRoot(k)' # Nil)
      BY <1>1, <1>2, <1>3, <2>1, <2>3
    <3> QED BY <1>3, <2>3, <3>3, <3>5, <3>6 DEF AtRoot
  <2>4. Understood => Advanced
    BY <2>1, <2>3 DEF Advanced
  <2> QED BY <1>1, <2>1, <2>2, <2>4, DecodeFrame
<1>6. i \in 1 .. R /\ (Root[i] => present[i]) /\ Understood => Due("value", SentRoot(i)) /\ SentRoot(i) # Nil
  <2>1. SUFFICES ASSUME i \in 1 .. R, Root[i] => present[i], Understood
                 PROVE  Due("value", SentRoot(i)) /\ SentRoot(i) # Nil
    BY Zenon
  <2>2. Root[i] => SentRoot(i) # Nil
    BY <1>3, <2>1
  <2>3. ~Root[i] => SentRoot(i) # Nil
    BY <1>1, <2>1 DEF Inv, Received, SentRoot
  <2> QED BY <1>1, <1>2, <1>3, <2>1, <2>2, <2>3, Expected
<1>7. CASE i <= Len(Root) /\ (Root[i] => present[i]) /\ Fails("value")
  <2>1. i \in 1 .. R
    BY <1>2, <1>7 DEF R
  <2>2. Understood => /\ pos < Len(Original) /\ Original[pos + 1].kind = "value"
    BY <1>6, <1>7, <2>1, ItemFacts DEF Due
  <2>3. Understood => \E a \in 1 .. R + 1, b \in 1 .. sender.additions + 1 :
                        Filled(a, b) /\ (b > 1 => a = R + 1)
    <3>1. i \in 1 .. R + 1
      BY <1>2, <2>1
    <3> QED BY <1>1, <1>3, <3>1, Inside
  <2> QED BY <1>1, <1>7, <2>2, <2>3, FailsInv
<1>8. ASSUME i <= Len(Root), Root[i] => present[i], Take("value"), v' = [v EXCEPT !.root[i] = It], Again
      PROVE  Inv'
  <2>1. pos' = pos + 1 /\ pos' \in 0 .. Len(wire) /\ It = Original[pos + 1].x /\ It \in Value
    BY <1>1, <1>8, TakeFacts
  <2>2. i \in 1 .. R /\ pc' = "root" /\ i' = i + 1
    BY <1>1, <1>2, <1>8 DEF Again, R
  <2>3. /\ v' \in Struct(receiver) /\ v'.root[i] = It /\ v'.ext = v.ext
        /\ \A k \in 1 .. R : k # i => v'.root[k] = v.root[k]
    BY <1>1, <1>8, <2>1, <2>2, RootFilled
  <2>4. Typed'
    BY <1>1, <1>2, <2>1, <2>2, <2>3 DEF Typed, Ended
  <2>5. ASSUME Understood
        PROVE  AtRoot'
    <3>1. Due("value", SentRoot(i)) /\ SentRoot(i) # Nil
      BY <1>6, <1>8, <2>2, <2>5
    <3>2. It = SentRoot(i)
      BY <2>1, <3>1, ItemFacts DEF Due
    <3>3. RootAt(sender, message, i + 1) = RootAt(sender, message, i) + 1
      BY <1>3, <2>2, <2>5, <3>1 DEF Advances, SentRoot
    <3>4. pos' = RootAt(sender', message', i')
      BY <1>1, <1>2, <1>3, <2>1, <2>2, <2>5, <3>3
    <3>5. Filled(i, 1)'
      <4>1. ASSUME NEW k \in 1 .. R
            PROVE  v'.root[k] = IF k < i' /\ SentRoot(k)' # Nil THEN SentRoot(k)' ELSE before'.root[k]
        <5>1. SentRoot(k)' = SentRoot(k) /\ before' = before
          BY <1>1, <1>3, <2>5
        <5>2. v.root[k] = IF k < i /\ SentRoot(k) # Nil THEN SentRoot(k) ELSE before.root[k]
          BY <1>3, <2>5 DEF Filled
        <5>3. CASE k = i
          <6>1. k < i'
            BY <1>2, <2>2, <5>3
          <6> QED BY <2>3, <3>1, <3>2, <5>1, <5>3, <6>1
        <5>4. CASE k # i
          <6>1. k < i' <=> k < i
            BY <1>2, <2>2, <5>4
          <6> QED BY <2>3, <5>1, <5>2, <5>4, <6>1
        <5> QED BY <5>3, <5>4
      <4>2. ASSUME NEW k \in 1 .. receiver.additions
            PROVE  v'.ext[k] = IF k < 1 /\ SentExt(k)' # Nil THEN SentExt(k)' ELSE before'.ext[k]
        <5>1. v.ext[k] = IF k < 1 /\ SentExt(k) # Nil THEN SentExt(k) ELSE before.ext[k]
          BY <1>3, <2>5 DEF Filled
        <5> QED BY <1>1, <1>3, <2>3, <2>5, <5>1
      <4> QED BY <1>1, <4>1, <4>2 DEF Filled
    <3>6. i' <= R + 1 /\ \A k \in 1 .. R : Root[k] => (present'[k] <=> SentRoot(k)' # Nil)
      BY <1>1, <1>2, <1>3, <2>2, <2>5
    <3> QED BY <1>3, <2>5, <3>4, <3>5, <3>6 DEF AtRoot
  <2>6. Understood => Advanced
    BY <2>2, <2>5 DEF Advanced
  <2> QED BY <1>1, <2>2, <2>4, <2>6, DecodeFrame
<1> QED BY <1>4, <1>5, <1>7, <1>8 DEF ReadRoot

LEMMA ReadCountInv == ASSUME Inv, Frame, ReadCount PROVE Inv'
<1>1. /\ UNCHANGED <<sender, receiver, count, message, wire, before>>
      /\ pc = "count" /\ pc \notin Ended /\ pc # "idle" /\ Typed
  BY FrameFacts DEF ReadCount, Ended, Inv
<1>2. Understood => AtCount /\ Due("small", Many - 1)
  BY <1>1, Here, Expected
<1>3. CASE Fails("small")
  <2>1. Understood => /\ pos < Len(Original) /\ Original[pos + 1].kind = "small"
                      /\ Filled(R + 1, 1)
    BY <1>2, ItemFacts DEF Due, AtCount
  <2>2. Understood => \E a \in 1 .. R + 1, b \in 1 .. sender.additions + 1 :
                        Filled(a, b) /\ (b > 1 => a = R + 1)
    BY <1>1, <2>1, Inside
  <2> QED BY <1>1, <1>3, <2>1, <2>2, FailsInv
<1>4. ASSUME Take("small"), numExt' = It + 1, bitmap' = [k \in 1 .. It + 1 |-> FALSE],
             Goto("bitmap"), UNCHANGED <<hasExt, present, v>>
      PROVE  Inv'
  <2>1. pos' = pos + 1 /\ pos' \in 0 .. Len(wire) /\ It = Original[pos + 1].x /\ It \in Nat
    BY <1>1, <1>4, TakeFacts
  <2>2. pc' = "bitmap" /\ i' = 1 /\ numExt' \in Nat /\ bitmap' \in Seq(BOOLEAN) /\ Len(bitmap') = numExt'
    <3> DEFINE n == It + 1
               f == [k \in 1 .. n |-> FALSE]
    <3>1. n \in Nat
      BY <2>1
    <3> HIDE DEF n
    <3>2. f \in Seq(BOOLEAN) /\ Len(f) = n
      BY <3>1
    <3> HIDE DEF f
    <3> QED BY <1>4, <3>1, <3>2 DEF Goto, f, n
  <2>3. Typed'
    BY <1>1, <1>4, <2>1, <2>2 DEF Typed, Ended
  <2>4. ASSUME Understood
        PROVE  AtBitmap'
    <3>1. Extended /\ Filled(R + 1, 1) /\ pos = CountAt(sender, message)
      BY <1>2, <2>4 DEF AtCount
    <3>2. Many \in 1 .. sender.additions /\ sender.additions \in Nat
      BY <1>1, <3>1, HowMany, Facts
    <3>3. It = Many - 1
      BY <1>2, <2>1, <2>4, ItemFacts DEF Due
    <3>4. numExt' = Many'
      BY <1>4, <3>2, <3>3, FrameFacts
    <3>5. BitAt(sender, message, 1) = CountAt(sender, message) + 1
      BY <1>1, OriginalFacts DEF Advances
    <3>6. pos' = BitAt(sender', message', i')
      BY <1>1, <2>1, <2>2, <3>1, <3>5
    <3>7. Filled(R + 1, 1)'
      BY <1>4, <3>1, FilledSame
    <3>8. i' <= Many' + 1 /\ \A k \in 1 .. Many' : ~(k < i')
      BY <2>2, <3>2, FrameFacts
    <3> QED BY <3>1, <3>4, <3>6, <3>7, <3>8, FrameFacts DEF AtBitmap
  <2>5. Understood => Advanced
    BY <2>2, <2>4 DEF Advanced
  <2> QED BY <1>1, <2>2, <2>3, <2>5, DecodeFrame
<1> QED BY <1>3, <1>4 DEF ReadCount

LEMMA ReadBitmapInv == ASSUME Inv, Frame, ReadBitmap PROVE Inv'
<1>1. /\ UNCHANGED <<sender, receiver, count, message, wire, before>>
      /\ UNCHANGED <<hasExt, present, numExt, v>>
      /\ pc = "bitmap" /\ pc \notin Ended /\ pc # "idle" /\ Typed
  BY FrameFacts DEF ReadBitmap, Ended, Inv
<1>2. /\ i \in Nat /\ i >= 1 /\ pos \in Nat /\ pos \in 0 .. Len(wire) /\ numExt \in Nat
      /\ sender.additions \in Nat /\ bitmap \in Seq(BOOLEAN) /\ Len(bitmap) = numExt
  BY <1>1, Facts DEF Typed
<1>3. Understood =>
        /\ AtBitmap /\ Filled(R + 1, 1) /\ Filled(R + 1, 1)' /\ Extended /\ Extended'
        /\ numExt = Many /\ numExt' = Many' /\ Many' = Many /\ Many \in 1 .. sender.additions
        /\ i <= Many + 1 /\ pos = BitAt(sender, message, i) /\ Advances(sender, message)
        /\ \A k \in 1 .. Many : k < i => (bitmap[k] <=> SentExt(k) # Nil)
        /\ \A k : SentRoot(k)' = SentRoot(k) /\ SentExt(k)' = SentExt(k)
        /\ \A k \in 1 .. Many : SentExt(k) = message.ext[k]
  <2>1. SUFFICES ASSUME Understood PROVE <1>3!2
    BY Zenon
  <2>2. AtBitmap
    BY <1>1, <2>1, Here
  <2>3. Filled(R + 1, 1)'
    BY <1>1, <2>2, FilledSame DEF AtBitmap
  <2>4. numExt = Many /\ numExt' = Many' /\ Many' = Many /\ Extended /\ Extended'
    BY <1>1, <2>2, FrameFacts DEF AtBitmap
  <2>5. Many \in 1 .. sender.additions
    BY <1>1, <2>4, HowMany
  <2>6. \A k \in 1 .. Many : SentExt(k) = message.ext[k]
    BY <1>2, <2>5 DEF SentExt
  <2> QED BY <1>1, <2>2, <2>3, <2>4, <2>5, <2>6, FrameFacts, OriginalFacts DEF AtBitmap
<1>4. CASE i > numExt /\ Goto("additions") /\ UNCHANGED <<pos, bitmap>>
  <2>1. i > numExt /\ pc' = "additions" /\ i' = 1 /\ UNCHANGED <<pos, bitmap>>
    BY <1>4 DEF Goto
  <2>2. Typed'
    BY <1>1, <1>2, <2>1 DEF Typed, Ended
  <2>3. ASSUME Understood
        PROVE  AtAdditions'
    <3>1. i = Many + 1
      BY <1>2, <1>3, <2>1, <2>3
    <3>2. pos' = OpenAt(sender', message', i')
      BY <1>1, <1>3, <2>1, <2>3, <3>1 DEF Advances, Extended, Many
    <3>3. \A k \in 1 .. Many' : bitmap'[k] <=> SentExt(k)' # Nil
      BY <1>2, <1>3, <2>1, <2>3, <3>1
    <3>4. Filled(R + 1, i)'
      BY <1>3, <2>1, <2>3
    <3>5. i' <= Many' + 1
      BY <1>2, <1>3, <2>1, <2>3
    <3> QED BY <1>3, <2>3, <3>2, <3>3, <3>4, <3>5 DEF AtAdditions
  <2>4. Understood => Advanced
    BY <2>1, <2>3 DEF Advanced
  <2> QED BY <1>1, <2>1, <2>2, <2>4, DecodeFrame
<1>5. Understood /\ i <= numExt =>
        pos < Len(Original) /\ Original[pos + 1] = Flag(message.ext[i])
  BY <1>1, <1>3, Expected
<1>6. CASE i <= numExt /\ Fails("bit")
  <2>1. Understood => /\ pos < Len(Original) /\ Original[pos + 1].kind = "bit"
    BY <1>5, <1>6, ItemFacts
  <2>2. Understood => \E a \in 1 .. R + 1, b \in 1 .. sender.additions + 1 :
                        Filled(a, b) /\ (b > 1 => a = R + 1)
    BY <1>1, <1>3, Inside
  <2> QED BY <1>1, <1>6, <2>1, <2>2, FailsInv
<1>7. ASSUME i <= numExt, Take("bit"), bitmap' = [bitmap EXCEPT ![i] = It], Again
      PROVE  Inv'
  <2>1. /\ pos' = pos + 1 /\ pos' \in 0 .. Len(wire)
        /\ It = Original[pos + 1].x /\ It \in BOOLEAN
    BY <1>1, <1>7, TakeFacts
  <2>2. i \in 1 .. numExt /\ pc' = "bitmap" /\ i' = i + 1
    BY <1>1, <1>2, <1>7 DEF Again
  <2>3. /\ bitmap' \in Seq(BOOLEAN) /\ Len(bitmap') = numExt' /\ bitmap'[i] = It
        /\ \A k \in 1 .. numExt : k # i => bitmap'[k] = bitmap[k]
    BY <1>1, <1>2, <1>7, <2>1, <2>2
  <2>4. Typed'
    BY <1>1, <1>2, <2>1, <2>2, <2>3 DEF Typed, Ended
  <2>5. ASSUME Understood
        PROVE  AtBitmap'
    <3>1. BitAt(sender, message, i + 1) = BitAt(sender, message, i) + 1
      BY <1>2, <1>3, <2>5 DEF Advances
    <3>2. pos' = BitAt(sender', message', i')
      BY <1>1, <1>3, <2>1, <2>2, <2>5, <3>1
    <3>3. It <=> SentExt(i) # Nil
      BY <1>3, <1>5, <1>7, <2>1, <2>2, <2>5, ItemFacts
    <3>4. ASSUME NEW k \in 1 .. Many', k < i'
          PROVE  bitmap'[k] <=> SentExt(k)' # Nil
      <4>1. SentExt(k)' = SentExt(k) /\ k \in 1 .. Many /\ k \in 1 .. numExt
        BY <1>3, <2>5
      <4>2. k = i \/ (k < i /\ k # i)
        BY <1>2, <2>2, <3>4
      <4>3. CASE k = i
        BY <2>3, <3>3, <4>1, <4>3
      <4>4. CASE k < i /\ k # i
        BY <1>3, <2>3, <2>5, <4>1, <4>4
      <4> QED BY <4>2, <4>3, <4>4
    <3>5. i' <= Many' + 1
      BY <1>2, <1>3, <2>2, <2>5
    <3> QED BY <1>3, <2>5, <3>2, <3>4, <3>5 DEF AtBitmap
  <2>6. Understood => Advanced
    BY <2>2, <2>5 DEF Advanced
  <2> QED BY <1>1, <2>2, <2>4, <2>6, DecodeFrame
<1> QED BY <1>4, <1>6, <1>7 DEF ReadBitmap

LEMMA ReadAdditionInv == ASSUME Inv, Frame, ReadAddition PROVE Inv'
<1>1. /\ UNCHANGED <<sender, receiver, count, message, wire, before>>
      /\ UNCHANGED <<hasExt, present, numExt, bitmap>>
      /\ pc = "additions" /\ pc \notin Ended /\ pc # "idle" /\ Typed
  BY FrameFacts DEF ReadAddition, Ended, Inv
<1>2. /\ i \in Nat /\ i >= 1 /\ pos \in Nat /\ pos \in 0 .. Len(wire) /\ numExt \in Nat
      /\ sender.additions \in Nat /\ receiver.additions \in Nat /\ R \in Nat
  BY <1>1, Facts DEF Typed
<1>3. Understood =>
        /\ AtAdditions /\ Filled(R + 1, i) /\ Extended /\ Extended'
        /\ numExt = Many /\ numExt' = Many' /\ Many' = Many /\ Many \in 1 .. sender.additions
        /\ i <= Many + 1 /\ pos = OpenAt(sender, message, i) /\ Advances(sender, message)
        /\ \A k \in 1 .. Many : bitmap[k] <=> SentExt(k) # Nil
        /\ \A k \in 1 .. Many' : bitmap'[k] <=> SentExt(k)' # Nil
        /\ \A k : SentRoot(k)' = SentRoot(k) /\ SentExt(k)' = SentExt(k)
        /\ \A k \in 1 .. Many : SentExt(k) = message.ext[k]
  <2>1. SUFFICES ASSUME Understood PROVE <1>3!2
    BY Zenon
  <2>2. AtAdditions
    BY <1>1, <2>1, Here
  <2>3. numExt = Many /\ numExt' = Many' /\ Many' = Many /\ Extended /\ Extended'
    BY <1>1, <2>2, FrameFacts DEF AtAdditions
  <2>4. Many \in 1 .. sender.additions
    BY <1>1, <2>3, HowMany
  <2>5. \A k \in 1 .. Many : SentExt(k) = message.ext[k]
    BY <1>2, <2>4 DEF SentExt
  <2>6. \A k \in 1 .. Many' : bitmap'[k] <=> SentExt(k)' # Nil
    BY <1>1, <2>2, <2>3, FrameFacts DEF AtAdditions
  <2> QED BY <1>1, <2>2, <2>3, <2>4, <2>5, <2>6, FrameFacts, OriginalFacts DEF AtAdditions
<1>4. CASE i > numExt /\ Goto("ok") /\ UNCHANGED <<pos, v>>
  <2>1. i > numExt /\ pc' = "ok" /\ i' = 1 /\ UNCHANGED <<pos, v>>
    BY <1>4 DEF Goto
  <2>2. Typed'
    BY <1>1, <1>2, <2>1 DEF Typed, Ended
  <2>3. ASSUME Understood
        PROVE  AtEnd'
    <3>1. i = Many + 1
      BY <1>2, <1>3, <2>1, <2>3
    <3>2. pos' = Len(Original')
      BY <1>1, <1>3, <2>1, <2>3, <3>1, OriginalFacts, FrameFacts DEF LaidOut, Extended, Many
    <3>3. \A k \in 1 .. receiver.additions : k >= i => SentExt(k) = Nil
      <4>1. \A k \in Many + 1 .. sender.additions : message.ext[k] = Nil
        BY <1>1, <1>3, <2>3, HowMany
      <4> QED BY <1>2, <1>3, <2>3, <3>1, <4>1 DEF SentExt
    <3>4. Filled(R + 1, receiver.additions + 1)
      <4>1. ASSUME NEW k \in 1 .. receiver.additions
            PROVE  k < receiver.additions + 1 /\ (k < i \/ SentExt(k) = Nil)
        BY <1>2, <3>3
      <4>2. Filled(R + 1, i)
        BY <1>3, <2>3
      <4> QED BY <4>1, <4>2 DEF Filled
    <3>5. Filled(R + 1, receiver.additions + 1)'
      <4>1. /\ v' = v /\ before' = before /\ receiver' = receiver
            /\ \A k : SentRoot(k)' = SentRoot(k) /\ SentExt(k)' = SentExt(k)
        BY <1>1, <2>1, FrameFacts
      <4> QED BY <3>4, <4>1 DEF Filled
    <3> QED BY <3>2, <3>5 DEF AtEnd
  <2>4. Understood => Advanced
    BY <2>1, <2>3 DEF Advanced
  <2> QED BY <1>1, <2>1, <2>2, <2>4, DecodeFrame
<1>5. CASE i <= numExt /\ ~bitmap[i] /\ Again /\ UNCHANGED <<pos, v>>
  <2>1. i \in 1 .. numExt /\ ~bitmap[i] /\ pc' = "additions" /\ i' = i + 1 /\ UNCHANGED <<pos, v>>
    BY <1>1, <1>2, <1>5 DEF Again
  <2>2. Typed'
    BY <1>1, <1>2, <2>1 DEF Typed, Ended
  <2>3. ASSUME Understood
        PROVE  AtAdditions'
    <3>1. SentExt(i) = Nil /\ message.ext[i] = Nil
      BY <1>3, <2>1, <2>3
    <3>2. OpenAt(sender, message, i + 1) = OpenAt(sender, message, i) + 0
      BY <1>3, <2>1, <2>3, <3>1 DEF Advances, Extended, Many
    <3>3. pos' = OpenAt(sender', message', i')
      BY <1>1, <1>2, <1>3, <2>1, <2>3, <3>2
    <3>4. Filled(R + 1, i + 1)
      <4>1. \A k \in 1 .. receiver.additions :
              (k < i + 1 /\ SentExt(k) # Nil) <=> (k < i /\ SentExt(k) # Nil)
        <5>1. \A k \in 1 .. receiver.additions : k < i + 1 <=> k < i \/ k = i
          BY <1>2
        <5> QED BY <3>1, <5>1
      <4>2. Filled(R + 1, i)
        BY <1>3, <2>3
      <4> QED BY <4>1, <4>2 DEF Filled
    <3>5. Filled(R + 1, i)'
      <4>1. v' = v /\ i' = i + 1
        BY <2>1
      <4> QED BY <1>1, <1>3, <2>3, <3>4, <4>1 DEF Filled
    <3>6. i' <= Many' + 1
      BY <1>2, <1>3, <2>1, <2>3
    <3> QED BY <1>3, <2>3, <3>3, <3>5, <3>6 DEF AtAdditions
  <2>4. Understood => Advanced
    BY <2>1, <2>3 DEF Advanced
  <2> QED BY <1>1, <2>1, <2>2, <2>4, DecodeFrame
<1>6. i \in 1 .. numExt /\ bitmap[i] /\ Understood =>
        Due("open", message.ext[i]) /\ SentExt(i) = message.ext[i] /\ SentExt(i) # Nil
  <2>1. SUFFICES ASSUME i \in 1 .. numExt, bitmap[i], Understood
                 PROVE  Due("open", message.ext[i]) /\ SentExt(i) = message.ext[i] /\ SentExt(i) # Nil
    BY Zenon
  <2>2. SentExt(i) # Nil /\ SentExt(i) = message.ext[i] /\ i <= Many /\ AtAdditions
    BY <1>3, <2>1
  <2> QED BY <1>1, <2>2, Expected
<1>7. CASE i <= numExt /\ bitmap[i] /\ Fails("open")
  <2>1. i \in 1 .. numExt
    BY <1>2, <1>7
  <2>2. Understood => /\ pos < Len(Original) /\ Original[pos + 1].kind = "open"
    BY <1>6, <1>7, <2>1, ItemFacts DEF Due
  <2>3. Understood => \E a \in 1 .. R + 1, b \in 1 .. sender.additions + 1 :
                        Filled(a, b) /\ (b > 1 => a = R + 1)
    <3>1. Understood => i \in 1 .. sender.additions + 1
      BY <1>2, <1>3, <2>1
    <3>2. R + 1 \in 1 .. R + 1
      BY <1>2
    <3> QED BY <1>3, <3>1, <3>2
  <2> QED BY <1>1, <1>7, <2>2, <2>3, FailsInv
<1>8. ASSUME i <= numExt, bitmap[i], Take("open"), Again,
             v' = IF i <= receiver.additions THEN [v EXCEPT !.ext[i] = It] ELSE v
      PROVE  Inv'
  <2>1. pos' = pos + 1 /\ pos' \in 0 .. Len(wire) /\ It = Original[pos + 1].x /\ It \in Value
    BY <1>1, <1>8, TakeFacts
  <2>2. i \in 1 .. numExt /\ pc' = "additions" /\ i' = i + 1
    BY <1>1, <1>2, <1>8 DEF Again
  <2>3. /\ v' \in Struct(receiver) /\ v'.root = v.root
        /\ i <= receiver.additions => v'.ext[i] = It
        /\ \A k \in 1 .. receiver.additions : k # i => v'.ext[k] = v.ext[k]
    <3>1. CASE i <= receiver.additions
      <4>1. i \in 1 .. receiver.additions
        BY <1>2, <3>1
      <4>2. v' = [v EXCEPT !.ext[i] = It]
        BY <1>8, <3>1
      <4> QED BY <1>1, <2>1, <4>1, <4>2, ExtFilled
    <3>2. CASE ~(i <= receiver.additions)
      BY <1>1, <1>8, <3>2 DEF Typed
    <3> QED BY <3>1, <3>2
  <2>4. Typed'
    BY <1>1, <1>2, <2>1, <2>2, <2>3 DEF Typed, Ended
  <2>5. ASSUME Understood
        PROVE  AtAdditions'
    <3>1. Due("open", message.ext[i]) /\ SentExt(i) = message.ext[i] /\ SentExt(i) # Nil
      BY <1>6, <1>8, <2>2, <2>5
    <3>2. It = SentExt(i)
      BY <2>1, <3>1, ItemFacts DEF Due
    <3>3. OpenAt(sender, message, i + 1) = OpenAt(sender, message, i) + 1
      BY <1>3, <2>2, <2>5, <3>1 DEF Advances, Extended, Many
    <3>4. pos' = OpenAt(sender', message', i')
      BY <1>1, <1>2, <1>3, <2>1, <2>2, <2>5, <3>3
    <3>5. Filled(R + 1, i)'
      <4>1. ASSUME NEW k \in 1 .. receiver.additions
            PROVE  v'.ext[k] = IF k < i' /\ SentExt(k)' # Nil THEN SentExt(k)' ELSE before'.ext[k]
        <5>1. SentExt(k)' = SentExt(k) /\ before' = before
          BY <1>1, <1>3, <2>5
        <5>2. v.ext[k] = IF k < i /\ SentExt(k) # Nil THEN SentExt(k) ELSE before.ext[k]
          BY <1>3, <2>5 DEF Filled
        <5>3. CASE k = i
          <6>1. k < i' /\ i <= receiver.additions
            BY <1>2, <2>2, <5>3
          <6> QED BY <2>3, <3>1, <3>2, <5>1, <5>3, <6>1
        <5>4. CASE k # i
          <6>1. k < i' <=> k < i
            BY <1>2, <2>2, <5>4
          <6> QED BY <2>3, <5>1, <5>2, <5>4, <6>1
        <5> QED BY <5>3, <5>4
      <4>2. ASSUME NEW k \in 1 .. R
            PROVE  v'.root[k] = IF k < R + 1 /\ SentRoot(k)' # Nil THEN SentRoot(k)' ELSE before'.root[k]
        <5>1. v.root[k] = IF k < R + 1 /\ SentRoot(k) # Nil THEN SentRoot(k) ELSE before.root[k]
          BY <1>3, <2>5 DEF Filled
        <5> QED BY <1>1, <1>3, <2>3, <2>5, <5>1
      <4> QED BY <1>1, <4>1, <4>2 DEF Filled
    <3>6. i' <= Many' + 1
      BY <1>2, <1>3, <2>2, <2>5
    <3> QED BY <1>3, <2>5, <3>4, <3>5, <3>6 DEF AtAdditions
  <2>6. Understood => Advanced
    BY <2>2, <2>5 DEF Advanced
  <2> QED BY <1>1, <2>2, <2>4, <2>6, DecodeFrame
<1> QED BY <1>4, <1>5, <1>7, <1>8 DEF ReadAddition

-----------------------------------------------------------------------------
(* A struct that the sender may fill, and a new one. *)
Fill(m, n, first, there) == [k \in 1 .. n |-> IF k \in there THEN <<m, first + k>> ELSE Nil]
Mandatory == {fields \in SUBSET (1 .. Len(Root)) : \A k \in 1 .. Len(Root) : Root[k] \/ k \in fields}

LEMMA FillFacts ==
  ASSUME NEW m \in Nat \ {0}, NEW n \in Nat, NEW first \in Nat, NEW there
  PROVE  /\ Fill(m, n, first, there) \in [1 .. n -> Value]
         /\ \A k \in 1 .. n : k \in there => Fill(m, n, first, there)[k] # Nil
<1>1. ASSUME NEW k \in 1 .. n
      PROVE  <<m, first + k>> \in Value /\ <<m, first + k>> # Nil
  <2>1. first + k \in Nat \ {0}
    OBVIOUS
  <2> QED BY <2>1 DEF Value, Nil
<1>2. Nil \in Value
  BY DEF Value
<1> QED BY <1>1, <1>2 DEF Fill

LEMMA SentMessage ==
  ASSUME NEW version \in Versions, NEW m \in Nat \ {0}, NEW s \in Messages(version, m)
  PROVE  s \in Struct(version) /\ \A k \in 1 .. R : ~Root[k] => s.root[k] # Nil
<1>1. R \in Nat /\ Len(Root) \in Nat /\ version.additions \in Nat
  BY SequenceAssumption DEF R, Version
<1>2. Messages(version, m) =
        {[root |-> Fill(m, Len(Root), 0, there), ext |-> Fill(m, version.additions, Len(Root), added)] :
           there \in Mandatory, added \in SUBSET (1 .. version.additions)}
  BY DEF Messages, Fill, Mandatory
<1>3. PICK there \in Mandatory, added \in SUBSET (1 .. version.additions) :
        s = [root |-> Fill(m, Len(Root), 0, there), ext |-> Fill(m, version.additions, Len(Root), added)]
  BY <1>2
<1> DEFINE a == Fill(m, Len(Root), 0, there)
           b == Fill(m, version.additions, Len(Root), added)
<1>4. a \in [1 .. Len(Root) -> Value] /\ \A k \in 1 .. Len(Root) : k \in there => a[k] # Nil
  BY <1>1, FillFacts
<1>5. b \in [1 .. version.additions -> Value]
  BY <1>1, FillFacts
<1>6. s = [root |-> a, ext |-> b]
  BY <1>3
<1> HIDE DEF a, b
<1>7. s \in Struct(version)
  BY <1>4, <1>5, <1>6 DEF Struct
<1>8. ASSUME NEW k \in 1 .. R, ~Root[k]
      PROVE  s.root[k] # Nil
  <2>1. k \in 1 .. Len(Root) /\ k \in there
    BY <1>8 DEF R, Mandatory
  <2> QED BY <1>4, <1>6, <2>1
<1> QED BY <1>7, <1>8

LEMMA NewStruct == \A version : New(version) \in Struct(version)
<1>1. Nil \in Value
  BY DEF Value
<1> QED BY <1>1 DEF New, Struct

LEMMA InvInit == Init => Inv
<1> SUFFICES ASSUME Init PROVE Inv
  OBVIOUS
<1>1. MaxMessages \in Nat /\ R \in Nat
  BY SequenceAssumption DEF R
<1>2. /\ message \in Struct(sender) /\ v \in Struct(receiver) /\ before \in Struct(receiver)
  BY NewStruct DEF Init
<1>3. wire \in Seq(Item) /\ bitmap \in Seq(BOOLEAN) /\ Len(wire) = 0
  BY DEF Init
<1>4. Typed
  <2>1. count \in 0 .. MaxMessages /\ pos \in 0 .. Len(wire)
    BY <1>1, <1>3 DEF Init
  <2>2. present \in [1 .. R -> BOOLEAN] /\ hasExt \in BOOLEAN
    BY DEF Init, R
  <2>3. /\ sender \in Versions /\ receiver \in Versions /\ i \in Nat \ {0} /\ numExt \in Nat
        /\ pc = "idle"
    BY DEF Init
  <2> QED BY <1>2, <1>3, <2>1, <2>2, <2>3 DEF Typed, Ended
<1> QED BY <1>4 DEF Init, Inv

LEMMA TransmitInv == ASSUME Inv, Transmit PROVE Inv'
<1>1. /\ UNCHANGED <<sender, receiver>> /\ count' = count + 1 /\ count < MaxMessages
      /\ pos' = 0 /\ i' = 1 /\ hasExt' = FALSE /\ numExt' = 0 /\ bitmap' = <<>>
      /\ present' = [k \in 1 .. Len(Root) |-> FALSE]
      /\ pc' = (IF receiver.extensible THEN "extensionBit" ELSE "preamble")
      /\ pc' # "idle"
  BY DEF Transmit
<1>2. Typed /\ count \in 0 .. MaxMessages /\ MaxMessages \in Nat /\ R \in Nat
  BY SequenceAssumption DEF Inv, Typed, R
<1>3. PICK s \in Messages(sender, count') :
        /\ message' = s
        /\ \E n \in 0 .. Len(Encode(sender, s)) : wire' = SubSeq(Encode(sender, s), 1, n)
  BY DEF Transmit
<1>4. sender \in Versions /\ sender' \in Versions /\ receiver' \in Versions
  BY <1>1, <1>2 DEF Typed
<1>5. count' \in Nat \ {0} /\ count' \in 0 .. MaxMessages
  BY <1>1, <1>2
<1>6. s \in Struct(sender) /\ \A k \in 1 .. R : ~Root[k] => s.root[k] # Nil
  BY <1>3, <1>4, <1>5, SentMessage
<1> DEFINE e == Encode(sender, s)
<1>7. e \in Seq(Item)
  BY <1>4, <1>6, Layout DEF LaidOut
<1>8. Original' = e
  BY <1>1, <1>3 DEF Original
<1>9. PICK n \in 0 .. Len(e) : wire' = SubSeq(e, 1, n)
  BY <1>3
<1> HIDE DEF e
<1>10. /\ wire' \in Seq(Item) /\ Len(wire') = n /\ n <= Len(e) /\ n \in Nat
       /\ \A p \in 1 .. n : wire'[p] = e[p]
  BY <1>7, <1>9
<1>11. Received'
  BY <1>3, <1>6, <1>8, <1>10 DEF Received
<1>12. v' = before' /\ before' \in Struct(receiver)
  <2>1. New(receiver) \in Struct(receiver) /\ v \in Struct(receiver)
    BY <1>2, NewStruct DEF Typed
  <2> QED BY <2>1 DEF Transmit
<1>13. Typed'
  <2>1. bitmap' \in Seq(BOOLEAN) /\ present' \in [1 .. R -> BOOLEAN]
    BY <1>1 DEF R
  <2>2. pos' \in 0 .. Len(wire')
    BY <1>1, <1>10
  <2>3. pc' \in {"extensionBit", "preamble"}
    BY <1>1
  <2>4. v' \in Struct(receiver') /\ before' \in Struct(receiver')
    BY <1>1, <1>12
  <2>5. message' \in Struct(sender')
    BY <1>1, <1>3, <1>6
  <2>6. i' \in Nat \ {0} /\ numExt' \in Nat
    BY <1>1
  <2>7. hasExt' \in BOOLEAN
    BY <1>1, Zenon
  <2> QED BY <2>7, <1>4, <1>5, <1>10, <2>1, <2>2, <2>3, <2>4, <2>5, <2>6 DEF Typed, Ended
<1>14. ASSUME Understood'
       PROVE  Tracks'
  <2>1. Filled(1, 1)'
    <3>1. \A k \in 1 .. R : ~(k < 1)
      BY <1>2
    <3>2. \A k \in 1 .. receiver'.additions : ~(k < 1)
      BY <1>13, Facts
    <3> QED BY <1>12, <3>1, <3>2 DEF Filled
  <2>2. sender.extensible = receiver.extensible /\ sender.extensible \in BOOLEAN
        /\ (~sender.extensible => sender.additions = 0)
    BY <1>1, <1>2, <1>14, Facts DEF Understood
  <2>3. CASE receiver.extensible
    <3>1. AtExtensionBit'
      BY <1>1, <2>1, <2>2, <2>3 DEF AtExtensionBit
    <3> QED BY <1>1, <2>3, <3>1 DEF Tracks
  <2>4. CASE ~receiver.extensible
    <3>1. ~Extended'
      BY <1>1, <2>2, <2>4 DEF Extended, Extends
    <3>2. pos' = PreambleAt(sender', i')
      <4>1. PreambleAt(sender, 1) = Start(sender)
        BY <1>4, <1>6, Advance DEF Advances
      <4> QED BY <1>1, <2>2, <2>4, <4>1 DEF Start
    <3>3. i' <= R + 1 /\ \A k \in 1 .. R : ~(k < i')
      BY <1>1, <1>2
    <3>4. AtPreamble'
      BY <1>1, <2>1, <3>1, <3>2, <3>3 DEF AtPreamble
    <3> QED BY <1>1, <2>4, <3>4 DEF Tracks
  <2> QED BY <2>3, <2>4
<1> QED BY <1>11, <1>13, <1>14 DEF Inv

LEMMA NextInv == Inv /\ [Next]_vars => Inv'
<1> SUFFICES ASSUME Inv, [Next]_vars PROVE Inv'
  OBVIOUS
<1>1. CASE Transmit
  BY <1>1, TransmitInv
<1>2. CASE Decode
  <2>1. Frame
    BY <1>2 DEF Decode, Frame
  <2>2. CASE ReadExtensionBit
    BY <2>1, <2>2, ReadExtensionBitInv
  <2>3. CASE SkipCount \/ SkipBit \/ SkipOpenType
    BY <2>1, <2>3, SkipInv
  <2>4. CASE ReadPreamble
    BY <2>1, <2>4, ReadPreambleInv
  <2>5. CASE ReadRoot
    BY <2>1, <2>5, ReadRootInv
  <2>6. CASE ReadCount
    BY <2>1, <2>6, ReadCountInv
  <2>7. CASE ReadBitmap
    BY <2>1, <2>7, ReadBitmapInv
  <2>8. CASE ReadAddition
    BY <2>1, <2>8, ReadAdditionInv
  <2> QED BY <1>2, <2>2, <2>3, <2>4, <2>5, <2>6, <2>7, <2>8 DEF Decode
<1>3. CASE UNCHANGED vars
  <2>1. /\ UNCHANGED <<sender, receiver, count, message, wire, before>>
        /\ UNCHANGED <<pos, pc, i, hasExt, present, numExt, bitmap, v>> /\ Frame
    BY <1>3 DEF vars, sides, locals, Frame
  <2>2. Typed'
    BY <2>1 DEF Inv, Typed
  <2>3. CASE pc = "idle"
    BY <2>1, <2>2, <2>3 DEF Inv
  <2>4. CASE pc # "idle"
    <3>1. ASSUME Understood
          PROVE  Advanced
      <4>1. Tracks
        BY <2>4, <3>1 DEF Inv
      <4>2. /\ Original' = Original /\ (Extended' <=> Extended) /\ Many' = Many
            /\ \A k : SentRoot(k)' = SentRoot(k) /\ SentExt(k)' = SentExt(k)
        BY <2>1, FrameFacts
      <4>3. /\ AtExtensionBit' <=> AtExtensionBit
            /\ AtPreamble' <=> AtPreamble
            /\ AtRoot' <=> AtRoot
            /\ AtCount' <=> AtCount
            /\ AtBitmap' <=> AtBitmap
            /\ AtAdditions' <=> AtAdditions
            /\ AtEnd' <=> AtEnd
            /\ Short' <=> Short
        <5>1. ASSUME NEW a, NEW b PROVE Filled(a, b)' <=> Filled(a, b)
          BY <2>1, FilledSame
        <5>2. AtExtensionBit' <=> AtExtensionBit
          BY <2>1, <5>1 DEF AtExtensionBit
        <5>3. AtPreamble' <=> AtPreamble
          BY <2>1, <4>2, <5>1 DEF AtPreamble
        <5>4. AtRoot' <=> AtRoot
          BY <2>1, <4>2 DEF AtRoot, Filled
        <5>5. AtCount' <=> AtCount
          BY <2>1, <4>2, <5>1 DEF AtCount
        <5>6. AtBitmap' <=> AtBitmap
          BY <2>1, <4>2, <5>1 DEF AtBitmap
        <5>7. AtAdditions' <=> AtAdditions
          BY <2>1, <4>2 DEF AtAdditions, Filled
        <5>8. AtEnd' <=> AtEnd
          BY <2>1, <4>2 DEF AtEnd, Filled
        <5>9. Short' <=> Short
          BY <2>1, <4>2, <5>1 DEF Short
        <5> QED BY <5>2, <5>3, <5>4, <5>5, <5>6, <5>7, <5>8, <5>9
      <4> QED BY <2>1, <4>1, <4>3 DEF Tracks, Advanced
    <3> QED BY <2>1, <2>2, <2>4, <3>1, DecodeFrame
  <2> QED BY <2>3, <2>4
<1> QED BY <1>1, <1>2, <1>3 DEF Next

-----------------------------------------------------------------------------
(* The invariant holds of every behaviour of the two sides. *)
THEOREM SequenceInvariant == Spec => []Inv
<1>1. Init => Inv
  BY InvInit
<1>2. Inv /\ [Next]_vars => Inv'
  BY NextInv
<1> QED BY <1>1, <1>2, PTL DEF Spec

(* The variables of the emitted encoder and decoder always hold values of  *)
(* their types: the loop index stays positive, and the decoder never reads *)
(* beyond the octets it has.                                               *)
THEOREM SequenceTypeOK == Spec => []TypeOK
<1>1. Inv => TypeOK
  BY DEF Inv, Typed, TypeOK
<1> QED BY <1>1, SequenceInvariant, PTL

(* Between any two versions of any SEQUENCE, a decoder that returns without *)
(* error has read the whole message, and found in it every field it knows. *)
THEOREM SequenceFieldsDelivered == Spec => []FieldsDelivered
<1>1. Inv => FieldsDelivered
  <2> SUFFICES ASSUME Inv, pc = "ok", Understood
               PROVE  /\ Whole /\ pos = Len(wire)
                      /\ \A k \in 1 .. Len(Root) :
                           v.root[k] = IF SentRoot(k) # Nil THEN SentRoot(k) ELSE before.root[k]
                      /\ \A k \in 1 .. receiver.additions :
                           v.ext[k] = IF SentExt(k) # Nil THEN SentExt(k) ELSE before.ext[k]
    BY DEF FieldsDelivered
  <2>1. AtEnd /\ Received /\ Typed
    BY DEF Inv, Tracks
  <2>2. /\ pos \in Nat /\ Len(wire) \in Nat /\ pos <= Len(wire) /\ R \in Nat
        /\ receiver.additions \in Nat
        /\ wire \in Seq(Item) /\ Original \in Seq(Item) /\ Len(Original) \in Nat
    BY <2>1, Facts, OriginalFacts DEF Typed
  <2>3. pos = Len(Original) /\ Len(wire) <= Len(Original)
    BY <2>1 DEF AtEnd, Received
  <2>4. Len(wire) = Len(Original) /\ pos = Len(wire)
    BY <2>2, <2>3
  <2>5. wire = Original
    <3>1. \A p \in 1 .. Len(wire) : wire[p] = Original[p]
      BY <2>1 DEF Received
    <3> QED BY <2>2, <2>4, <3>1, SeqEqual
  <2>6. Filled(R + 1, receiver.additions + 1)
    BY <2>1 DEF AtEnd
  <2>7. \A k \in 1 .. R : k < R + 1
    BY <2>2
  <2>8. \A k \in 1 .. receiver.additions : k < receiver.additions + 1
    BY <2>2
  <2>9. /\ \A k \in 1 .. R : v.root[k] = IF SentRoot(k) # Nil THEN SentRoot(k) ELSE before.root[k]
        /\ \A k \in 1 .. receiver.additions :
             v.ext[k] = IF SentExt(k) # Nil THEN SentExt(k) ELSE before.ext[k]
    BY <2>6, <2>7, <2>8 DEF Filled
  <2> QED BY <2>4, <2>5, <2>9 DEF Whole, Original, R
<1> QED BY <1>1, SequenceInvariant, PTL

(* The emitted decoder never takes the bits of one field for another, and  *)
(* meets the end of input only in a message that was cut.                  *)
THEOREM SequenceInStep == Spec => []InStep
<1>1. Inv => InStep
  <2> SUFFICES ASSUME Inv, Understood
               PROVE  pc # "misread" /\ (pc = "eof" => ~Whole)
    BY DEF InStep
  <2>1. CASE pc = "idle"
    BY <2>1
  <2>2. CASE pc # "idle"
    <3>1. Tracks /\ Typed
      BY <2>2 DEF Inv
    <3>2. pc = "eof" => Len(wire) < Len(Original)
      BY <3>1 DEF Tracks, Short
    <3>3. Len(wire) \in Nat /\ Len(Original) \in Nat
      BY <3>1, Facts, OriginalFacts
    <3>4. pc = "eof" => wire # Original
      BY <3>2, <3>3
    <3> QED BY <3>1, <3>4 DEF Tracks, Whole, Original
  <2> QED BY <2>1, <2>2
<1> QED BY <1>1, SequenceInvariant, PTL

(* Whatever moment the emitted decoder is looked at, or fails at, the      *)
(* struct holds the first fields of the message, each as it was sent, and  *)
(* the fields after them as they were before the call.                     *)
THEOREM SequenceFilledInOrder == Spec => []FilledInOrder
<1>1. Inv => FilledInOrder
  <2> SUFFICES ASSUME Inv, pc # "idle", Understood PROVE FilledInOrder
    BY DEF FilledInOrder
  <2>1. Tracks /\ Typed
    BY DEF Inv
  <2>2. /\ R \in Nat /\ receiver.additions \in Nat /\ sender.additions \in Nat
        /\ i \in Nat /\ i >= 1
    BY <2>1, Facts
  <2>3. PICK a \in Nat, b \in Nat : Filled(a, b) /\ (b > 1 => a = R + 1)
    <3>1. CASE pc \in {"extensionBit", "preamble"}
      <4>1. Filled(1, 1)
        BY <2>1, <3>1 DEF Tracks, AtExtensionBit, AtPreamble
      <4> QED BY <4>1
    <3>2. CASE pc = "root"
      <4>1. Filled(i, 1)
        BY <2>1, <3>2 DEF Tracks, AtRoot
      <4> QED BY <2>2, <4>1
    <3>3. CASE pc \in {"count", "bitmap"}
      <4>1. Filled(R + 1, 1) /\ R + 1 \in Nat
        BY <2>1, <2>2, <3>3 DEF Tracks, AtCount, AtBitmap
      <4> QED BY <4>1
    <3>4. CASE pc = "additions"
      <4>1. Filled(R + 1, i) /\ R + 1 \in Nat
        BY <2>1, <2>2, <3>4 DEF Tracks, AtAdditions
      <4> QED BY <2>2, <4>1
    <3>5. CASE pc = "ok"
      <4>1. /\ Filled(R + 1, receiver.additions + 1)
            /\ R + 1 \in Nat /\ receiver.additions + 1 \in Nat
        BY <2>1, <2>2, <3>5 DEF Tracks, AtEnd
      <4> QED BY <4>1
    <3>6. CASE pc = "eof"
      <4>1. PICK x \in 1 .. R + 1, y \in 1 .. sender.additions + 1 : Filled(x, y) /\ (y > 1 => x = R + 1)
        BY <2>1, <3>6 DEF Tracks, Short
      <4>2. x \in Nat /\ y \in Nat
        BY <2>2
      <4> QED BY <4>1, <4>2
    <3> QED BY <2>1, <3>1, <3>2, <3>3, <3>4, <3>5, <3>6 DEF Tracks, Typed, Ended
  <2> DEFINE changed == {k \in 1 .. R : v.root[k] # before.root[k]}
             added   == {k \in 1 .. receiver.additions : v.ext[k] # before.ext[k]}
             arrived(k) == SentRoot(k) = Nil \/ v.root[k] = SentRoot(k)
  <2>4. ASSUME NEW k \in changed, NEW m \in 1 .. k
        PROVE  arrived(m)
    <3>1. k \in 1 .. R /\ k < a
      BY <2>3 DEF Filled
    <3>2. m \in 1 .. R /\ m < a
      BY <2>2, <2>3, <3>1
    <3> QED BY <2>3, <3>2 DEF Filled
  <2>5. ASSUME NEW k \in added
        PROVE  /\ \A m \in 1 .. R : arrived(m)
               /\ \A m \in 1 .. k : SentExt(m) = Nil \/ v.ext[m] = SentExt(m)
    <3>1. k \in 1 .. receiver.additions /\ k < b
      BY <2>3 DEF Filled
    <3>2. a = R + 1
      BY <2>3, <3>1
    <3>3. \A m \in 1 .. R : m < a
      BY <2>2, <3>2
    <3>4. \A m \in 1 .. k : m \in 1 .. receiver.additions /\ m < b
      BY <2>2, <2>3, <3>1
    <3> QED BY <2>3, <3>3, <3>4 DEF Filled
  <2> QED BY <2>4, <2>5 DEF FilledInOrder, R
<1> QED BY <1>1, SequenceInvariant, PTL

=============================================================================
