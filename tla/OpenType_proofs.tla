---------------------------- MODULE OpenType_proofs ----------------------------
(***************************************************************************)
(* For every unit of fragmentation, every size of fragment and payloads of *)
(* every length: ReadOpenType never loses step with WriteOpenType, and the *)
(* two together are a channel.                                             *)
(***************************************************************************)
EXTENDS OpenType, TLAPS, SequenceTheorems

(* The fragment that WriteOpenType makes of L octets that are left: all of  *)
(* them when they need no fragmentation.                                   *)
Size(L) == IF L < K THEN L ELSE Factor(L) * K

(* Where the encoder goes on: in the payload it is writing, or before the  *)
(* next one.                                                               *)
CursorOf  == IF writing THEN field ELSE field + 1
CursorOff == IF writing THEN done ELSE 0

(* At position p of the stream stands the determinant of what is left of   *)
(* payload j from place off; or the stream has been written up to there.   *)
Starts(p, j, off) ==
  /\ p < Len(out) /\ j \in 1 .. Len(sent) /\ off \in 0 .. sent[j]
  /\ out[p + 1] = Determinant(sent[j] - off, j, off)
Ends(p, j, off) == p = Len(out) /\ j = CursorOf /\ off = CursorOff
At(p, j, off)  == Starts(p, j, off) \/ Ends(p, j, off)

(* From position q on stand the octets of that fragment, then the          *)
(* determinant of the next: of the same payload or of the next payload.    *)
Follows(q, j, off) ==
  LET L == sent[j] - off
  IN  /\ q + Size(L) <= Len(out)
      /\ \A k \in 1 .. Size(L) : out[q + k] = Octet(j, off + k)
      /\ IF L < K THEN At(q + L, j + 1, 0) ELSE At(q + Size(L), j, off + Size(L))

(* The stream is well framed from its start. *)
Framed ==
  /\ At(0, 1, 0)
  /\ \A p \in 0 .. Len(out) - 1 : out[p + 1].of <= Len(sent)
  /\ \A p \in 0 .. Len(out) - 1 : \A j \in 1 .. Len(sent) : \A off \in 0 .. sent[j] :
       Starts(p, j, off) => Follows(p + 1, j, off)

(* The encoder's loop. *)
Writing == writing => field >= 1 /\ done <= sent[field]

(* The decoder has a prefix of the stream, once the encoder is done. *)
Received ==
  /\ Len(wire) <= Len(out) /\ \A p \in 1 .. Len(wire) : wire[p] = out[p]
  /\ step = "none" => wire = <<>> /\ pos = 0 /\ got = <<>> /\ result = <<>>
  /\ step # "none" => ~writing

(* It has returned the first payloads, and holds the start of the next. *)
reading == Len(got) + 1
Holds ==
  /\ Len(got) <= Len(sent)
  /\ \A j \in 1 .. Len(got) : got[j] = Payload(j, sent[j])
  /\ result = Payload(reading, Len(result))

(* It stands where that one goes on. *)
Stands ==
  /\ step = "idle" => At(pos, reading, 0) /\ result = <<>>
  /\ step = "data" =>
       /\ reading <= Len(sent) /\ Len(result) <= sent[reading]
       /\ chunk = Size(sent[reading] - Len(result))
       /\ Follows(pos, reading, Len(result))
  /\ step = "next" => reading <= Len(sent) /\ Starts(pos, reading, Len(result))
  /\ step = "eof" => Len(wire) < Len(out)
  /\ step # "desync"

(* The inductive invariant. *)
Inv == TypeOK /\ Framed /\ Writing /\ Received /\ Holds /\ Stands
-----------------------------------------------------------------------------
(* A fragment takes at least one unit and no more than is left. *)
LEMMA SizeFacts ==
  ASSUME NEW L \in Nat
  PROVE  /\ Size(L) \in Nat /\ Size(L) <= L
         /\ L < K => Size(L) = L
         /\ L >= K => /\ Factor(L) \in 1 .. MaxFactor
                      /\ Size(L) = Factor(L) * K /\ Size(L) >= K
<1> USE OpenTypeAssumption
<1>1. CASE L < K
  BY <1>1 DEF Size
<1>2. CASE L >= K
  <2> DEFINE q == L \div K
             f == Factor(L)
  <2>1. q \in Nat /\ K * q <= L /\ q >= 1
    BY <1>2
  <2>2. f \in 1 .. MaxFactor /\ f <= q
    BY <2>1 DEF Factor
  <2> HIDE DEF q, f
  <2>3. q * K <= L
    BY <2>1
  <2>4. f * K \in Nat /\ f * K >= K /\ f * K <= L
    BY <2>1, <2>2, <2>3
  <2>5. Size(L) = f * K
    BY <1>2 DEF Size, f
  <2> QED BY <1>2, <2>2, <2>4, <2>5 DEF f
<1> QED BY <1>1, <1>2

(* One that takes less than a unit takes all that is left. *)
LEMMA SizeSmall ==
  ASSUME NEW L \in Nat, Size(L) < K
  PROVE  L < K /\ Size(L) = L
<1>1. Size(L) \in Nat /\ K \in Nat /\ ~(L >= K)
  BY SizeFacts, OpenTypeAssumption
<1> QED BY <1>1, SizeFacts

(* Determinants and payloads. *)
LEMMA DeterminantType ==
  ASSUME NEW L \in Nat, NEW j \in Nat, NEW o \in Nat
  PROVE  /\ Determinant(L, j, o) \in Item
         /\ j = Determinant(L, j, o).of /\ o = Determinant(L, j, o).off
<1>1. L >= K => Factor(L) \in Nat
  BY SizeFacts, OpenTypeAssumption
<1>2. K \in Nat
  BY OpenTypeAssumption
<1> QED BY <1>1, <1>2 DEF Determinant, Item

LEMMA DeterminantKind ==
  ASSUME NEW L, NEW j, NEW o
  PROVE  /\ L < K => Determinant(L, j, o).kind = "len" /\ Determinant(L, j, o).n = L
         /\ ~(L < K) => /\ Determinant(L, j, o).kind = "frag"
                        /\ Determinant(L, j, o).n = Factor(L)
BY DEF Determinant

LEMMA OctetFacts ==
  ASSUME NEW j \in Nat, NEW k \in Nat
  PROVE  Octet(j, k) \in Item /\ Octet(j, k).of = j /\ Octet(j, k).kind = "octet"
BY DEF Octet, Item

LEMMA PayloadFacts ==
  ASSUME NEW j \in Nat, NEW n \in Nat
  PROVE  /\ Payload(j, n) \in Seq(Item) /\ Len(Payload(j, n)) = n
         /\ \A k \in 1 .. n : Payload(j, n)[k] = Octet(j, k)
<1>1. Payload(j, n) = [k \in 1 .. n |-> Octet(j, k)]
  BY DEF Payload, Slice
<1>2. \A k \in 1 .. n : Octet(j, k) \in Item
  BY OctetFacts
<1> QED BY <1>1, <1>2

LEMMA PayloadGrows ==
  ASSUME NEW j \in Nat, NEW o \in Nat,
         NEW s \in Seq(Item), \A k \in 1 .. Len(s) : s[k] = Octet(j, o + k)
  PROVE  Payload(j, o) \o s = Payload(j, o + Len(s))
<1> DEFINE n == Len(s)
           m == o + n
           p == Payload(j, o)
           r == Payload(j, m)
<1>0. n \in Nat /\ m \in Nat
  OBVIOUS
<1>1. p \in Seq(Item) /\ Len(p) = o /\ \A k \in 1 .. o : p[k] = Octet(j, k)
  BY PayloadFacts
<1>2. r \in Seq(Item) /\ Len(r) = m /\ \A k \in 1 .. m : r[k] = Octet(j, k)
  <2> HIDE DEF m
  <2> QED BY <1>0, PayloadFacts
<1> HIDE DEF p, r
<1>3. /\ p \o s \in Seq(Item) /\ Len(p \o s) = m
      /\ \A k \in 1 .. m : (p \o s)[k] = IF k <= o THEN p[k] ELSE s[k - o]
  BY <1>1, ConcatProperties
<1>4. ASSUME NEW k \in 1 .. m
      PROVE  (p \o s)[k] = r[k]
  <2>1. CASE k <= o
    BY <1>1, <1>2, <1>3, <2>1
  <2>2. CASE k > o
    <3>1. k - o \in 1 .. n /\ o + (k - o) = k
      BY <2>2
    <3>2. s[k - o] = Octet(j, k)
      BY <3>1
    <3> QED BY <1>2, <1>3, <2>2, <3>2
  <2>3. k <= o \/ k > o
    OBVIOUS
  <2> QED BY <2>1, <2>2, <2>3
<1>5. p \o s = r
  BY <1>2, <1>3, <1>4, SeqEqual
<1> QED BY <1>5 DEF p, r

-----------------------------------------------------------------------------
LEMMA Emitted ==
  ASSUME NEW old \in Seq(Item), NEW d \in Item, NEW s \in Seq(Item)
  PROVE  /\ old \o <<d>> \o s \in Seq(Item)
         /\ Len(old \o <<d>> \o s) = Len(old) + 1 + Len(s)
         /\ \A p \in 1 .. Len(old) : (old \o <<d>> \o s)[p] = old[p]
         /\ (old \o <<d>> \o s)[Len(old) + 1] = d
         /\ \A k \in 1 .. Len(s) : (old \o <<d>> \o s)[Len(old) + 1 + k] = s[k]
<1> DEFINE t == old \o <<d>>
           n == Len(old)
<1>1. /\ t \in Seq(Item) /\ Len(t) = n + 1 /\ n \in Nat
      /\ \A p \in 1 .. n : t[p] = old[p]
      /\ t[n + 1] = d
  OBVIOUS
<1> HIDE DEF t, n
<1>2. /\ t \o s \in Seq(Item) /\ Len(t \o s) = Len(t) + Len(s)
      /\ \A p \in 1 .. Len(t) + Len(s) :
           (t \o s)[p] = IF p <= Len(t) THEN t[p] ELSE s[p - Len(t)]
  BY <1>1, ConcatProperties
<1>3. \A k \in 1 .. Len(s) : /\ n + 1 + k \in 1 .. n + 1 + Len(s)
                              /\ n + 1 + k > n + 1 /\ n + 1 + k - (n + 1) = k
  BY <1>1
<1>4. /\ t \o s \in Seq(Item) /\ Len(t \o s) = n + 1 + Len(s)
      /\ \A p \in 1 .. n : (t \o s)[p] = old[p]
      /\ (t \o s)[n + 1] = d
  BY <1>1, <1>2
<1>5. \A k \in 1 .. Len(s) : (t \o s)[n + 1 + k] = s[k]
  BY <1>1, <1>2, <1>3
<1> QED BY <1>4, <1>5 DEF t, n

(* What has been written stays: a step of the encoder that only appends     *)
(* changes nothing of what stands before.                                  *)
Grows ==
  /\ sent' \in Seq(Nat) /\ Len(sent) <= Len(sent')
  /\ \A i \in 1 .. Len(sent) : sent'[i] = sent[i]
  /\ out' \in Seq(Item) /\ Len(out) <= Len(out')
  /\ \A p \in 1 .. Len(out) : out'[p] = out[p]

LEMMA GrowsLengths ==
  ASSUME TypeOK, Grows
  PROVE  /\ Len(sent) \in Nat /\ Len(sent') \in Nat /\ Len(sent) <= Len(sent')
         /\ Len(out) \in Nat /\ Len(out') \in Nat /\ Len(out) <= Len(out')
BY DEF TypeOK, Grows

LEMMA OldStarts ==
  ASSUME TypeOK, Grows, NEW p \in Nat, NEW a, NEW b, Starts(p, a, b)
  PROVE  Starts(p, a, b)'
<1>1. /\ p < Len(out) /\ a \in 1 .. Len(sent) /\ b \in 0 .. sent[a]
      /\ out[p + 1] = Determinant(sent[a] - b, a, b)
  BY DEF Starts
<1>2. a \in 1 .. Len(sent') /\ sent'[a] = sent[a]
  BY <1>1, GrowsLengths DEF Grows
<1>3. p + 1 \in 1 .. Len(out) /\ p < Len(out')
  BY <1>1, GrowsLengths
<1>4. out'[p + 1] = out[p + 1]
  BY <1>3 DEF Grows
<1> QED BY <1>1, <1>2, <1>3, <1>4 DEF Starts

LEMMA OldFollows ==
  ASSUME TypeOK, Framed, Grows, \A q \in Nat : \A x, y : Ends(q, x, y) => At(q, x, y)',
         NEW p \in 0 .. Len(out) - 1
  PROVE  /\ out'[p + 1].of <= Len(sent')
         /\ \A a \in 1 .. Len(sent') : \A b \in 0 .. sent'[a] :
              Starts(p, a, b)' => Follows(p + 1, a, b)'
<1>0. p \in Nat /\ p + 1 \in 1 .. Len(out) /\ K \in Nat
  BY OpenTypeAssumption DEF TypeOK
<1>1. \A q \in Nat : \A x, y : At(q, x, y) => At(q, x, y)'
  BY OldStarts DEF At
<1>2. out[p + 1] \in Item /\ out'[p + 1] = out[p + 1]
  <2>1. out \in Seq(Item)
    BY DEF TypeOK
  <2> QED BY <1>0, <2>1, ElementOfSeq DEF Grows
<1>3. out[p + 1].of \in Nat /\ out[p + 1].of <= Len(sent)
  BY <1>2 DEF Framed, Item
<1>4. out'[p + 1].of <= Len(sent')
  BY <1>2, <1>3, GrowsLengths
<1>5. ASSUME NEW a \in 1 .. Len(sent'), NEW b \in 0 .. sent'[a], Starts(p, a, b)'
      PROVE  Follows(p + 1, a, b)'
  <2>0. sent'[a] \in Nat
    <3>1. sent' \in Seq(Nat)
      BY DEF Grows
    <3> QED BY <3>1, ElementOfSeq
  <2>1. PICK l \in Nat : l = sent'[a] - b
    BY <2>0
  <2>b. a \in Nat /\ b \in Nat
    BY <2>0
  <2>2. out[p + 1] = Determinant(l, a, b)
    BY <1>2, <1>5, <2>1 DEF Starts
  <2>3. Determinant(l, a, b).of = a
    BY <2>b, DeterminantType
  <2>4. a \in 1 .. Len(sent)
    BY <1>3, <2>2, <2>3, GrowsLengths
  <2>5. sent'[a] = sent[a]
    BY <2>4 DEF Grows
  <2>6. Starts(p, a, b)
    BY <1>0, <2>1, <2>2, <2>4, <2>5 DEF Starts
  <2>7. Follows(p + 1, a, b)
    BY <2>4, <2>5, <2>6 DEF Framed
  <2>8. sent[a] - b = l
    BY <2>1, <2>5
  <2> DEFINE z == Size(l)
  <2>9. z \in Nat
    BY SizeFacts
  <2>10. /\ p + 1 + z <= Len(out)
         /\ \A k \in 1 .. z : out[p + 1 + k] = Octet(a, b + k)
         /\ IF l < K THEN At(p + 1 + l, a + 1, 0) ELSE At(p + 1 + z, a, b + z)
    BY <2>7, <2>8 DEF Follows
  <2> HIDE DEF z
  <2>11. p + 1 + z <= Len(out')
    BY <1>0, <2>9, <2>10, GrowsLengths
  <2>12. \A k \in 1 .. z : out'[p + 1 + k] = Octet(a, b + k)
    <3>1. \A k \in 1 .. z : p + 1 + k \in 1 .. Len(out)
      BY <1>0, <2>9, <2>10, GrowsLengths
    <3> QED BY <2>10, <3>1 DEF Grows
  <2>13. IF l < K THEN At(p + 1 + l, a + 1, 0)' ELSE At(p + 1 + z, a, b + z)'
    <3>1. p + 1 + l \in Nat /\ p + 1 + z \in Nat
      BY <1>0, <2>9
    <3> QED BY <1>1, <2>10, <3>1
  <2> QED BY <2>1, <2>11, <2>12, <2>13 DEF Follows, z
<1> QED BY <1>4, <1>5

(* A step that writes one fragment, where the encoder goes on. *)
Emits(j, o, L) ==
  /\ j = CursorOf /\ o = CursorOff /\ sent'[j] = o + L
  /\ out' = out \o <<Determinant(L, j, o)>> \o Slice(j, o, o + Size(L))
  /\ IF L < K THEN CursorOf' = j + 1 /\ CursorOff' = 0
              ELSE CursorOf' = j /\ CursorOff' = o + Size(L)

LEMMA FragmentWritten ==
  ASSUME TypeOK, Framed, sent' \in Seq(Nat),
         Len(sent) <= Len(sent'), \A i \in 1 .. Len(sent) : sent'[i] = sent[i],
         NEW j \in 1 .. Len(sent'), NEW o \in Nat, NEW L \in Nat, Emits(j, o, L)
  PROVE  Framed' /\ out' \in Seq(Item)
<1> DEFINE m == Size(L)
           d == Determinant(L, j, o)
<1>a. out \in Seq(Item) /\ Len(sent) \in Nat /\ Len(sent') \in Nat /\ Len(out) \in Nat
  BY DEF TypeOK
<1>b. PICK n \in Nat : n = Len(out)
  BY <1>a
<1>c. m \in Nat /\ m <= L /\ (L < K => m = L)
  BY SizeFacts
<1>1. /\ n \in Nat /\ m \in Nat /\ K \in Nat /\ m <= L /\ j \in Nat
      /\ L < K => m = L
      /\ out \in Seq(Item) /\ Len(sent) \in Nat /\ Len(sent') \in Nat
  BY <1>a, <1>c, OpenTypeAssumption
<1>2. d \in Item /\ d.of = j /\ d.off = o
  BY <1>1, DeterminantType
<1>3. /\ Slice(j, o, o + m) \in Seq(Item) /\ Len(Slice(j, o, o + m)) = m
      /\ \A k \in 1 .. m : Slice(j, o, o + m)[k] = Octet(j, o + k)
  <2> DEFINE s == Slice(j, o, o + m)
  <2> HIDE DEF m, d
  <2>1. s = [k \in 1 .. m |-> Octet(j, o + k)]
    BY <1>c DEF Slice
  <2>2. \A k \in 1 .. m : Octet(j, o + k) \in Item
    BY <1>1, OctetFacts
  <2> HIDE DEF s
  <2>3. s \in Seq(Item) /\ Len(s) = m /\ \A k \in 1 .. m : s[k] = Octet(j, o + k)
    BY <1>c, <2>1, <2>2
  <2> QED BY <2>3 DEF s
<1>4. /\ out' \in Seq(Item) /\ Len(out') = n + 1 + m
      /\ \A p \in 1 .. n : out'[p] = out[p]
      /\ out'[n + 1] = d
      /\ \A k \in 1 .. m : out'[n + 1 + k] = Octet(j, o + k)
  <2> DEFINE s == Slice(j, o, o + m)
  <2>1. out' = out \o <<d>> \o s
    BY DEF Emits
  <2>2. s \in Seq(Item) /\ Len(s) = m /\ \A k \in 1 .. m : s[k] = Octet(j, o + k)
    BY <1>3
  <2> HIDE DEF s, m, d
  <2> DEFINE w == out \o <<d>> \o s
  <2>3. /\ w \in Seq(Item)
        /\ Len(w) = Len(out) + 1 + Len(s)
        /\ \A p \in 1 .. Len(out) : w[p] = out[p]
        /\ w[Len(out) + 1] = d
        /\ \A k \in 1 .. Len(s) : w[Len(out) + 1 + k] = s[k]
    BY <1>1, <1>2, <2>2, Emitted
  <2> HIDE DEF w
  <2>4. /\ w \in Seq(Item) /\ Len(w) = n + 1 + m
        /\ \A p \in 1 .. n : w[p] = out[p]
        /\ w[n + 1] = d
        /\ \A k \in 1 .. m : w[n + 1 + k] = Octet(j, o + k)
    BY <1>b, <2>2, <2>3
  <2> QED BY <2>1, <2>4 DEF w
<1> HIDE DEF m
<1>5. sent'[j] - o = L /\ o \in 0 .. sent'[j]
  BY DEF Emits
<1>6. Starts(n, j, o)'
  <2>1. n < Len(out')
    BY <1>1, <1>4
  <2>2. Determinant(sent'[j] - o, j, o) = d
    BY <1>5
  <2> QED BY <1>4, <1>5, <2>1, <2>2 DEF Starts
<1>7. Grows
  <2>1. Len(out) <= Len(out')
    BY <1>1, <1>4, <1>b
  <2> QED BY <1>4, <1>b, <2>1 DEF Grows
<1>8. ASSUME NEW p \in Nat, NEW a, NEW b, Ends(p, a, b)
      PROVE  At(p, a, b)'
  <2>1. p = n /\ a = j /\ b = o
    BY <1>b, <1>8 DEF Ends, Emits
  <2>2. Starts(p, a, b)'
    BY <1>6, <2>1
  <2> QED BY <2>2 DEF At
<1>9. At(0, 1, 0)'
  <2>1. CASE Starts(0, 1, 0)
    BY <1>7, <2>1, OldStarts DEF At
  <2>2. CASE Ends(0, 1, 0)
    BY <1>8, <2>2
  <2> QED BY <2>1, <2>2 DEF Framed, At
<1>10. ASSUME NEW p \in 0 .. Len(out') - 1
       PROVE  /\ out'[p + 1].of <= Len(sent')
              /\ \A a \in 1 .. Len(sent') : \A b \in 0 .. sent'[a] :
                   Starts(p, a, b)' => Follows(p + 1, a, b)'
  <2>0. p \in Nat /\ p < n + 1 + m
    BY <1>1, <1>4
  <2>1. CASE p < n
    <3>1. p \in 0 .. Len(out) - 1
      BY <1>1, <1>b, <2>0, <2>1
    <3> QED BY <1>7, <1>8, <3>1, OldFollows
  <2>2. CASE p = n
    <3>1. out'[p + 1] = d
      BY <1>4, <2>2
    <3>2. out'[p + 1].of <= Len(sent')
      BY <1>1, <1>2, <3>1
    <3>3. ASSUME NEW a \in 1 .. Len(sent'), NEW b \in 0 .. sent'[a], Starts(p, a, b)'
          PROVE  Follows(p + 1, a, b)'
      <4>1. PICK l \in Nat : l = sent'[a] - b
        <5>1. sent'[a] \in Nat
          BY ElementOfSeq
        <5> QED BY <5>1
      <4>2. a \in Nat /\ b \in Nat
        OBVIOUS
      <4>3. out'[p + 1] = Determinant(l, a, b)
        BY <3>3, <4>1 DEF Starts
      <4>4. Determinant(l, a, b).of = a /\ Determinant(l, a, b).off = b
        BY <4>2, DeterminantType
      <4>5. a = j /\ b = o
        BY <1>2, <3>1, <4>3, <4>4
      <4>6. sent'[a] - b = L
        BY <1>5, <4>5
      <4>7. /\ p + 1 + m <= Len(out')
            /\ \A k \in 1 .. m : out'[p + 1 + k] = Octet(a, b + k)
        BY <1>1, <1>4, <2>2, <4>5
      <4>8. IF L < K THEN Ends(p + 1 + L, a + 1, 0)' ELSE Ends(p + 1 + m, a, b + m)'
        BY <1>1, <1>4, <2>2, <4>5 DEF Ends, Emits, m
      <4> QED BY <4>6, <4>7, <4>8 DEF Follows, At, m
    <3> QED BY <3>2, <3>3
  <2>3. CASE p > n
    <3> DEFINE k == o + (p - n)
    <3>1. p - n \in 1 .. m /\ n + 1 + (p - n) = p + 1 /\ k \in Nat
      BY <1>1, <2>0, <2>3
    <3>2. out'[p + 1] = Octet(j, k)
      BY <1>4, <3>1
    <3> HIDE DEF k
    <3>3. Octet(j, k).of = j /\ Octet(j, k).kind = "octet"
      BY <1>1, <3>1, OctetFacts
    <3>4. out'[p + 1].of <= Len(sent')
      BY <1>1, <3>2, <3>3
    <3>5. ASSUME NEW a, NEW b, Starts(p, a, b)'
          PROVE  FALSE
      <4>1. Determinant(sent'[a] - b, a, b).kind = "octet"
        BY <3>2, <3>3, <3>5 DEF Starts
      <4> QED BY <4>1, DeterminantKind
    <3> QED BY <3>4, <3>5
  <2> QED BY <1>1, <2>0, <2>1, <2>2, <2>3
<1> QED BY <1>4, <1>9, <1>10 DEF Framed

-----------------------------------------------------------------------------
(* The steps of the encoder. *)
LEMMA InvInit == Init => Inv
<1> SUFFICES ASSUME Init PROVE Inv
  OBVIOUS
<1> USE DEF Init
<1>1. TypeOK /\ Writing /\ Received /\ Stands
  <2>1. At(0, 1, 0)
    BY DEF At, Ends, CursorOf, CursorOff, field
  <2>2. TypeOK
    <3>1. wire \in Seq(Item) /\ Len(wire) = 0 /\ pos = 0
      OBVIOUS
    <3>2. sent \in Seq(Nat) /\ out \in Seq(Item) /\ result \in Seq(Item) /\ got \in Seq(Seq(Item))
      OBVIOUS
    <3>3. done \in Nat /\ chunk \in Nat /\ writing \in BOOLEAN /\ step = "none"
      OBVIOUS
    <3> QED BY <3>1, <3>2, <3>3 DEF TypeOK
  <2>3. Writing /\ Received
    BY DEF Writing, Received
  <2>4. Stands
    BY <2>1 DEF Stands
  <2> QED BY <2>2, <2>3, <2>4
<1>2. Framed
  BY DEF Framed, At, Ends, CursorOf, CursorOff, field
<1>3. Holds
  <2>1. Payload(1, 0) \in Seq(Item) /\ Len(Payload(1, 0)) = 0
    BY PayloadFacts
  <2>2. Payload(1, 0) = <<>>
    BY <2>1
  <2> QED BY <2>2 DEF Holds, reading
<1> QED BY <1>1, <1>2, <1>3 DEF Inv

(* While the encoder runs, the decoder has not been called. *)
LEMMA ReaderIdles ==
  ASSUME Inv, step = "none", UNCHANGED reader, sent' \in Seq(Nat), out' \in Seq(Item)
  PROVE  /\ Received' /\ Holds' /\ Stands'
         /\ wire' \in Seq(Item) /\ pos' \in 0 .. Len(wire')
         /\ step' \in {"none", "idle", "data", "next", "eof", "desync"}
         /\ chunk' \in Nat /\ result' \in Seq(Item) /\ got' \in Seq(Seq(Item))
<1>1. /\ wire' = wire /\ pos' = pos /\ step' = step /\ chunk' = chunk
      /\ result' = result /\ got' = got
  BY DEF reader
<1>2. /\ wire \in Seq(Item) /\ pos \in 0 .. Len(wire)
      /\ step \in {"none", "idle", "data", "next", "eof", "desync"}
      /\ chunk \in Nat /\ result \in Seq(Item) /\ got \in Seq(Seq(Item))
  BY DEF Inv, TypeOK
<1>3. wire = <<>> /\ pos = 0 /\ got = <<>> /\ result = <<>>
  BY DEF Inv, Received
<1>4. Received'
  <2>1. Len(out') \in Nat
    OBVIOUS
  <2> QED BY <1>1, <1>3, <2>1 DEF Received
<1>5. Holds'
  <2>1. result = Payload(1, 0)
    BY <1>3 DEF Inv, Holds, reading
  <2>2. Len(sent') \in Nat
    OBVIOUS
  <2> QED BY <1>1, <1>3, <2>1, <2>2 DEF Holds, reading
<1>6. Stands'
  BY <1>1 DEF Stands
<1> QED BY <1>1, <1>2, <1>4, <1>5, <1>6

LEMMA SentGrows ==
  ASSUME sent \in Seq(Nat), NEW n \in Nat
  PROVE  /\ Append(sent, n) \in Seq(Nat)
         /\ Len(Append(sent, n)) = Len(sent) + 1 /\ Len(sent) \in Nat
         /\ \A i \in 1 .. Len(sent) : Append(sent, n)[i] = sent[i]
         /\ Append(sent, n)[Len(sent) + 1] = n
BY AppendProperties

LEMMA WriteOpenTypeInv ==
  ASSUME Inv, NEW n \in Lengths, WriteOpenType(n)
  PROVE  Inv'
<1>1. /\ step = "none" /\ ~writing /\ writing \in BOOLEAN /\ sent' = Append(sent, n)
      /\ UNCHANGED reader
      /\ sent \in Seq(Nat) /\ n \in Nat /\ K \in Nat /\ out \in Seq(Item) /\ done \in Nat
  BY OpenTypeAssumption DEF Inv, TypeOK, WriteOpenType
<1>2. PICK j \in Nat : j = Len(sent) + 1
  BY <1>1
<1>3. /\ sent' \in Seq(Nat) /\ Len(sent') = j /\ Len(sent) = j - 1 /\ Len(sent) \in Nat
      /\ \A i \in 1 .. Len(sent) : sent'[i] = sent[i]
      /\ sent'[j] = n
  BY <1>1, <1>2, SentGrows
<1>4. CursorOf = j /\ CursorOff = 0
  BY <1>1, <1>2 DEF CursorOf, CursorOff, field
<1>5. TypeOK /\ Framed
  BY DEF Inv
<1>6. CASE n < K
  <2>1. /\ out' = out \o <<Determinant(n, j, 0)>> \o Payload(j, n)
        /\ writing' = writing /\ done' = done
    BY <1>1, <1>2, <1>6 DEF WriteOpenType, field
  <2>2. Size(n) = n
    BY <1>6 DEF Size
  <2>3. CursorOf' = j + 1 /\ CursorOff' = 0
    BY <1>1, <1>3, <2>1 DEF CursorOf, CursorOff, field
  <2>4. Emits(j, 0, n)
    <3>1. Payload(j, n) = Slice(j, 0, 0 + Size(n))
      BY <1>1, <2>2 DEF Payload
    <3>2. sent'[j] = 0 + n
      BY <1>1, <1>3
    <3> QED BY <1>4, <1>6, <2>1, <2>3, <3>1, <3>2 DEF Emits
  <2>5. Len(sent) <= Len(sent') /\ j \in 1 .. Len(sent')
    BY <1>2, <1>3
  <2>6. Framed' /\ out' \in Seq(Item)
    BY <1>1, <1>3, <1>5, <2>4, <2>5, FragmentWritten
  <2>7. Writing'
    BY <1>1, <2>1 DEF Writing
  <2>8. TypeOK' /\ Received' /\ Holds' /\ Stands'
    BY <1>1, <1>3, <2>1, <2>6, ReaderIdles DEF TypeOK
  <2> QED BY <2>6, <2>7, <2>8 DEF Inv
<1>7. CASE ~(n < K)
  <2>1. writing' = TRUE /\ done' = 0 /\ out' = out
    BY <1>1, <1>7 DEF WriteOpenType
  <2>2. Grows
    BY <1>1, <1>3, <2>1 DEF Grows
  <2>3. ASSUME NEW q \in Nat, NEW x, NEW y, Ends(q, x, y)
        PROVE  At(q, x, y)'
    <3>1. CursorOf' = j /\ CursorOff' = 0
      BY <1>3, <2>1 DEF CursorOf, CursorOff, field
    <3>2. q = Len(out') /\ x = j /\ y = 0
      BY <1>4, <2>1, <2>3 DEF Ends
    <3> QED BY <3>1, <3>2 DEF At, Ends
  <2>4. Framed'
    <3>1. At(0, 1, 0)'
      BY <1>5, <2>2, <2>3, OldStarts DEF Framed, At
    <3>2. \A p \in 0 .. Len(out') - 1 :
            /\ out'[p + 1].of <= Len(sent')
            /\ \A a \in 1 .. Len(sent') : \A b \in 0 .. sent'[a] :
                 Starts(p, a, b)' => Follows(p + 1, a, b)'
      BY <1>5, <2>1, <2>2, <2>3, OldFollows
    <3> QED BY <3>1, <3>2 DEF Framed
  <2>5. Writing'
    BY <1>1, <1>2, <1>3, <2>1 DEF Writing, field
  <2>6. TypeOK' /\ Received' /\ Holds' /\ Stands'
    BY <1>1, <1>3, <2>1, ReaderIdles DEF TypeOK
  <2> QED BY <2>4, <2>5, <2>6 DEF Inv
<1> QED BY <1>6, <1>7

(* Inside the encoder's loop. *)
LEMMA LoopFacts ==
  ASSUME Inv, writing
  PROVE  /\ step = "none" /\ sent \in Seq(Nat) /\ Len(sent) \in Nat /\ field = Len(sent)
         /\ field \in 1 .. Len(sent) /\ done \in Nat /\ left \in Nat
         /\ sent[field] = done + left /\ CursorOf = field /\ CursorOff = done
<1>1. sent \in Seq(Nat) /\ done \in Nat /\ Len(sent) \in Nat /\ field = Len(sent)
  BY DEF Inv, TypeOK, field
<1>2. field \in 1 .. Len(sent) /\ done <= sent[field]
  BY <1>1 DEF Inv, Writing
<1>3. sent[field] \in Nat
  BY <1>1, <1>2, ElementOfSeq
<1>4. left \in Nat /\ sent[field] = done + left
  BY <1>1, <1>2, <1>3 DEF left
<1>5. step = "none"
  BY DEF Inv, Received
<1> QED BY <1>1, <1>2, <1>4, <1>5 DEF CursorOf, CursorOff

LEMMA WriteFragmentInv ==
  ASSUME Inv, WriteFragment
  PROVE  Inv'
<1>1. writing /\ left >= K /\ UNCHANGED <<sent, writing, reader>> /\ K \in Nat /\ K >= 1
  BY OpenTypeAssumption DEF WriteFragment
<1>2. PICK j \in Nat, o \in Nat, L \in Nat : j = field /\ o = done /\ L = left
  BY <1>1, LoopFacts
<1>3. /\ step = "none" /\ sent' = sent /\ sent \in Seq(Nat) /\ j \in 1 .. Len(sent)
      /\ sent[j] = o + L /\ CursorOf = j /\ CursorOff = o /\ Len(sent) \in Nat
      /\ field = Len(sent)
  BY <1>1, <1>2, LoopFacts
<1> DEFINE m == Size(L)
<1>4. m \in Nat /\ m <= L /\ m = Factor(L) * K
  BY <1>1, <1>2, SizeFacts
<1>5. out' = out \o <<Determinant(L, j, o)>> \o Slice(j, o, o + m) /\ done' = o + m
  BY <1>2, <1>4 DEF WriteFragment
<1> HIDE DEF m
<1>6. CursorOf' = j /\ CursorOff' = o + m /\ field' = j
  BY <1>1, <1>2, <1>3, <1>5 DEF CursorOf, CursorOff, field
<1>7. Emits(j, o, L)
  <2>1. ~(L < K) /\ sent'[j] = o + L
    BY <1>1, <1>2, <1>3
  <2>2. CursorOf' = j /\ CursorOff' = o + Size(L)
    BY <1>6 DEF m
  <2>3. out' = out \o <<Determinant(L, j, o)>> \o Slice(j, o, o + Size(L))
    BY <1>5 DEF m
  <2>4. j = CursorOf /\ o = CursorOff
    BY <1>3
  <2> QED BY <2>1, <2>2, <2>3, <2>4 DEF Emits
<1>8. Framed' /\ out' \in Seq(Item)
  <2>1. TypeOK /\ Framed
    BY DEF Inv
  <2> QED BY <1>3, <1>7, <2>1, FragmentWritten
<1>9. Writing'
  BY <1>3, <1>4, <1>5, <1>6 DEF Writing
<1>10. TypeOK' /\ Received' /\ Holds' /\ Stands'
  <2>1. UNCHANGED reader /\ writing' \in BOOLEAN /\ done' \in Nat
    BY <1>1, <1>4, <1>5 DEF Inv, TypeOK
  <2> QED BY <1>3, <1>8, <2>1, ReaderIdles DEF TypeOK
<1> QED BY <1>8, <1>9, <1>10 DEF Inv

LEMMA WriteRemainingInv ==
  ASSUME Inv, WriteRemaining
  PROVE  Inv'
<1>1. /\ writing /\ left < K /\ writing' = FALSE /\ UNCHANGED <<sent, done, reader>>
      /\ K \in Nat
  BY OpenTypeAssumption DEF WriteRemaining
<1>2. PICK j \in Nat, o \in Nat, L \in Nat : j = field /\ o = done /\ L = left
  BY <1>1, LoopFacts
<1>3. /\ step = "none" /\ sent' = sent /\ sent \in Seq(Nat) /\ j \in 1 .. Len(sent)
      /\ sent[j] = o + L /\ CursorOf = j /\ CursorOff = o /\ Len(sent) \in Nat
      /\ field = Len(sent)
  BY <1>1, <1>2, LoopFacts
<1>4. Size(L) = L
  BY <1>1, <1>2 DEF Size
<1>5. out' = out \o <<Determinant(L, j, o)>> \o Slice(j, o, o + Size(L))
  BY <1>2, <1>3, <1>4 DEF WriteRemaining
<1>6. CursorOf' = j + 1 /\ CursorOff' = 0
  BY <1>1, <1>2, <1>3 DEF CursorOf, CursorOff, field
<1>7. Emits(j, o, L)
  BY <1>1, <1>2, <1>3, <1>5, <1>6 DEF Emits
<1>8. Framed' /\ out' \in Seq(Item)
  <2>1. TypeOK /\ Framed
    BY DEF Inv
  <2> QED BY <1>3, <1>7, <2>1, FragmentWritten
<1>9. Writing'
  BY <1>1 DEF Writing
<1>10. TypeOK' /\ Received' /\ Holds' /\ Stands'
  <2>1. UNCHANGED reader /\ writing' \in BOOLEAN /\ done' \in Nat
    BY <1>1 DEF Inv, TypeOK
  <2> QED BY <1>3, <1>8, <2>1, ReaderIdles DEF TypeOK
<1> QED BY <1>8, <1>9, <1>10 DEF Inv

-----------------------------------------------------------------------------
(* The steps of the decoder leave the stream as it is. *)
LEMMA StreamStays ==
  ASSUME UNCHANGED writer
  PROVE  /\ Framed => Framed'
         /\ Writing => Writing'
         /\ \A p, a, b : (Starts(p, a, b) => Starts(p, a, b)')
                         /\ (At(p, a, b) => At(p, a, b)')
                         /\ (Follows(p, a, b) => Follows(p, a, b)')
<1>1. sent' = sent /\ done' = done /\ writing' = writing /\ out' = out
  BY DEF writer
<1>2. ASSUME NEW p, NEW a, NEW b
      PROVE  /\ (Starts(p, a, b) <=> Starts(p, a, b)')
             /\ (At(p, a, b) <=> At(p, a, b)')
  BY <1>1 DEF At, Starts, Ends, CursorOf, CursorOff, field
<1>3. ASSUME NEW p, NEW a, NEW b
      PROVE  Follows(p, a, b) <=> Follows(p, a, b)'
  BY <1>1, <1>2 DEF Follows
<1>4. Framed => Framed'
  BY <1>1, <1>2, <1>3 DEF Framed
<1>5. Writing => Writing'
  BY <1>1 DEF Writing, field
<1> QED BY <1>2, <1>3, <1>4, <1>5

LEMMA DecoderStep ==
  ASSUME Inv, step # "none", UNCHANGED <<writer, wire>>,
         step' \in {"idle", "data", "next", "eof", "desync"},
         pos' \in 0 .. Len(wire), chunk' \in Nat, result' \in Seq(Item), got' \in Seq(Seq(Item))
  PROVE  TypeOK' /\ Framed' /\ Writing' /\ Received'
<1>1. /\ sent' = sent /\ done' = done /\ writing' = writing /\ out' = out /\ wire' = wire
      /\ UNCHANGED writer
  BY DEF writer
<1>2. Framed' /\ Writing'
  BY <1>1, StreamStays DEF Inv
<1>3. TypeOK'
  BY <1>1 DEF Inv, TypeOK
<1>4. Received'
  BY <1>1 DEF Inv, Received
<1> QED BY <1>2, <1>3, <1>4

LEMMA FailInv ==
  ASSUME Inv, step # "none", UNCHANGED <<writer, wire>>, Fail("eof"), Len(wire) < Len(out)
  PROVE  Inv'
<1>1. /\ step' = "eof" /\ pos' = pos /\ chunk' = chunk /\ result' = result /\ got' = got
      /\ sent' = sent /\ wire' = wire /\ out' = out
  BY DEF Fail, writer
<1>2. TypeOK' /\ Framed' /\ Writing' /\ Received'
  BY <1>1, DecoderStep DEF Inv, TypeOK
<1>3. Holds' /\ Stands'
  BY <1>1 DEF Inv, Holds, Stands, reading
<1> QED BY <1>2, <1>3 DEF Inv

(* Where a determinant stands, the decoder takes it or finds the end. *)
LEMMA TypeFacts ==
  ASSUME Inv
  PROVE  /\ sent \in Seq(Nat) /\ Len(sent) \in Nat /\ out \in Seq(Item) /\ Len(out) \in Nat
         /\ wire \in Seq(Item) /\ Len(wire) \in Nat /\ pos \in 0 .. Len(wire) /\ pos \in Nat
         /\ Len(wire) <= Len(out) /\ \A p \in 1 .. Len(wire) : wire[p] = out[p]
         /\ chunk \in Nat /\ result \in Seq(Item) /\ Len(result) \in Nat
         /\ got \in Seq(Seq(Item)) /\ Len(got) \in Nat /\ Len(got) <= Len(sent)
         /\ reading \in Nat /\ reading = Len(got) + 1
         /\ K \in Nat /\ K >= 1 /\ MaxFactor \in Nat
<1>1. TypeOK /\ Received /\ Holds
  BY DEF Inv
<1> QED BY <1>1, OpenTypeAssumption DEF TypeOK, Received, Holds, reading

LEMMA ItemRead ==
  ASSUME Inv, NEW j, NEW o, Starts(pos, j, o), pos < Len(wire)
  PROVE  \E l \in Nat : /\ l = sent[j] - o /\ wire[pos + 1] = Determinant(l, j, o)
                        /\ Follows(pos + 1, j, o)
<1>1. /\ j \in 1 .. Len(sent) /\ o \in 0 .. sent[j] /\ pos \in 0 .. Len(out) - 1
      /\ out[pos + 1] = Determinant(sent[j] - o, j, o)
  BY TypeFacts DEF Starts
<1>2. sent[j] \in Nat
  BY <1>1, TypeFacts, ElementOfSeq
<1>3. PICK l \in Nat : l = sent[j] - o
  BY <1>1, <1>2
<1>4. pos + 1 \in 1 .. Len(wire)
  BY TypeFacts
<1>5. wire[pos + 1] = Determinant(l, j, o)
  BY <1>1, <1>3, <1>4, TypeFacts
<1>6. Follows(pos + 1, j, o)
  BY <1>1 DEF Inv, Framed
<1> QED BY <1>3, <1>5, <1>6

LEMMA DeterminantRead ==
  ASSUME Inv, NEW j, NEW o, Starts(pos, j, o), ReadDeterminant
  PROVE  /\ pos' = pos + 1 /\ pos' \in 0 .. Len(wire)
         /\ sent[j] - o \in Nat /\ chunk' = Size(sent[j] - o) /\ chunk' \in Nat
         /\ Follows(pos + 1, j, o)
<1>1. pos < Len(wire) /\ pos' = pos + 1
  BY DEF ReadDeterminant
<1>2. PICK l \in Nat : /\ l = sent[j] - o /\ wire[pos + 1] = Determinant(l, j, o)
                       /\ Follows(pos + 1, j, o)
  BY <1>1, ItemRead
<1>3. chunk' = IF wire[pos + 1].kind = "len" THEN wire[pos + 1].n ELSE wire[pos + 1].n * K
  BY DEF ReadDeterminant
<1>4. chunk' = Size(l)
  <2>1. CASE l < K
    <3>1. wire[pos + 1].kind = "len" /\ wire[pos + 1].n = l
      BY <1>2, <2>1, DeterminantKind
    <3> QED BY <1>3, <2>1, <3>1 DEF Size
  <2>2. CASE ~(l < K)
    <3>1. wire[pos + 1].kind = "frag" /\ wire[pos + 1].n = Factor(l)
      BY <1>2, <2>2, DeterminantKind
    <3> QED BY <1>3, <2>2, <3>1 DEF Size
  <2> QED BY <2>1, <2>2
<1>5. Size(l) \in Nat
  BY SizeFacts
<1>6. pos' \in 0 .. Len(wire)
  BY <1>1, TypeFacts
<1> QED BY <1>1, <1>2, <1>4, <1>5, <1>6

LEMMA DeterminantMissing ==
  ASSUME Inv, NEW j, NEW o, Starts(pos, j, o), NoDeterminant
  PROVE  Fail("eof") /\ Len(wire) < Len(out)
<1>1. CASE pos = Len(wire) /\ Fail("eof")
  BY <1>1 DEF Starts
<1>2. CASE /\ pos < Len(wire) /\ wire[pos + 1].kind # "len"
           /\ ~(wire[pos + 1].kind = "frag" /\ wire[pos + 1].n \in 1 .. MaxFactor)
  <2>1. PICK l \in Nat : wire[pos + 1] = Determinant(l, j, o)
    BY <1>2, ItemRead
  <2>2. l >= K
    BY <1>2, <2>1, DeterminantKind, TypeFacts
  <2>3. Factor(l) \in 1 .. MaxFactor
    BY <2>2, SizeFacts
  <2> QED BY <1>2, <2>1, <2>2, <2>3, DeterminantKind, TypeFacts
<1> QED BY <1>1, <1>2 DEF NoDeterminant

LEMMA ReceiveInv ==
  ASSUME Inv, Receive
  PROVE  Inv'
<1>1. PICK n \in 0 .. Len(out) : wire' = SubSeq(out, 1, n)
  BY DEF Receive
<1>2. /\ step = "none" /\ ~writing /\ step' = "idle" /\ UNCHANGED writer
      /\ sent' = sent /\ done' = done /\ writing' = writing /\ out' = out
      /\ pos' = pos /\ chunk' = chunk /\ result' = result /\ got' = got
  BY DEF Receive, writer
<1>3. wire = <<>> /\ pos = 0 /\ got = <<>> /\ result = <<>>
  BY <1>2 DEF Inv, Received
<1>4. /\ wire' \in Seq(Item) /\ Len(wire') = n
      /\ \A p \in 1 .. n : wire'[p] = out[p]
  <2> DEFINE w == SubSeq(out, 1, n)
  <2>1. n \in Nat /\ n <= Len(out) /\ out \in Seq(Item) /\ Len(out) \in Nat
    BY TypeFacts
  <2>2. \A p \in 1 .. n : out[p] \in Item
    BY <2>1, ElementOfSeq
  <2>3. w \in Seq(Item) /\ Len(w) = n /\ \A p \in 1 .. n : w[p] = out[p]
    BY <2>1, <2>2, SubSeqProperties
  <2> HIDE DEF w
  <2> QED BY <1>1, <2>3 DEF w
<1>5. Received'
  BY <1>2, <1>4, TypeFacts DEF Received
<1>6. TypeOK'
  <2>1. n \in Nat /\ pos' \in 0 .. Len(wire')
    BY <1>2, <1>3, <1>4, TypeFacts
  <2> QED BY <1>2, <1>4, <2>1 DEF Inv, TypeOK
<1>7. Framed' /\ Writing'
  BY <1>2, StreamStays DEF Inv
<1>8. Holds'
  BY <1>2 DEF Inv, Holds, reading
<1>9. Stands'
  <2>1. reading' = 1 /\ pos' = 0
    BY <1>2, <1>3 DEF reading
  <2>2. At(0, 1, 0)'
    BY <1>7 DEF Framed
  <2>3. At(pos, reading, 0)'
    BY <2>1, <2>2
  <2> QED BY <1>2, <1>3, <2>3 DEF Stands
<1> QED BY <1>5, <1>6, <1>7, <1>8, <1>9 DEF Inv

(* Before a payload that was sent stands its determinant. *)
LEMMA NextPayload ==
  ASSUME Inv, step = "idle", Len(got) < Len(sent)
  PROVE  Starts(pos, reading, 0)
<1>1. At(pos, reading, 0) /\ ~writing
  BY DEF Inv, Stands, Received
<1>2. ~Ends(pos, reading, 0)
  BY <1>1, TypeFacts DEF Ends, CursorOf, field
<1> QED BY <1>1, <1>2 DEF At

LEMMA ReadOpenTypeInv ==
  ASSUME Inv, ReadOpenType
  PROVE  Inv'
<1>1. /\ step = "idle" /\ Len(got) < Len(sent) /\ UNCHANGED <<writer, wire>> /\ UNCHANGED writer
      /\ sent' = sent
  BY DEF ReadOpenType, writer
<1>2. Starts(pos, reading, 0)
  BY <1>1, NextPayload
<1>3. CASE ReadDeterminant /\ result' = <<>> /\ step' = "data" /\ UNCHANGED got
  <2>1. PICK j \in Nat : j = reading
    BY TypeFacts
  <2>2. Starts(pos, j, 0) /\ result = <<>> /\ Len(result') = 0
    BY <1>1, <1>2, <1>3, <2>1 DEF Inv, Stands
  <2>3. /\ pos' = pos + 1 /\ pos' \in 0 .. Len(wire)
        /\ chunk' = Size(sent[j] - 0) /\ chunk' \in Nat /\ Follows(pos + 1, j, 0)
    BY <1>3, <2>2, DeterminantRead
  <2>4. TypeOK' /\ Framed' /\ Writing' /\ Received'
    BY <1>1, <1>3, <2>3, DecoderStep DEF Inv, TypeOK
  <2>5. Holds'
    BY <1>1, <1>3, <2>2 DEF Inv, Holds, reading
  <2>6. Stands'
    <3>1. j \in 1 .. Len(sent) /\ 0 <= sent[j]
      BY <2>2 DEF Starts
    <3>2. reading' = j
      BY <1>3, <2>1 DEF reading
    <3>3. PICK q \in Nat : q = pos + 1
      BY TypeFacts
    <3>4. Follows(q, j, 0)'
      BY <1>1, <2>3, <3>3, StreamStays
    <3>5. Follows(pos, reading, Len(result))'
      BY <2>2, <2>3, <3>2, <3>3, <3>4
    <3> QED BY <1>1, <1>3, <2>2, <2>3, <3>1, <3>2, <3>5, TypeFacts DEF Stands
  <2> QED BY <2>4, <2>5, <2>6 DEF Inv
<1>4. CASE NoDeterminant
  BY <1>1, <1>2, <1>4, DeterminantMissing, FailInv
<1> QED BY <1>3, <1>4 DEF ReadOpenType

(* What a chunk adds to the payload. *)
LEMMA ChunkRead ==
  ASSUME Inv, step = "data", ~(Len(wire) - pos < chunk),
         NEW j \in Nat, NEW o \in Nat, j = reading, o = Len(result)
  PROVE  /\ result \o SubSeq(wire, pos + 1, pos + chunk) = Payload(j, o + chunk)
         /\ pos + chunk \in 0 .. Len(wire)
<1> DEFINE s == SubSeq(wire, pos + 1, pos + chunk)
<1>1. result = Payload(j, o) /\ Follows(pos, j, o) /\ chunk = Size(sent[j] - o)
  BY DEF Inv, Holds, Stands
<1>2. \A k \in 1 .. chunk : out[pos + k] = Octet(j, o + k)
  BY <1>1 DEF Follows
<1>3. pos + chunk \in 0 .. Len(wire)
  BY TypeFacts
<1>4. s \in Seq(Item) /\ Len(s) = chunk /\ \A k \in 1 .. chunk : s[k] = Octet(j, o + k)
  <2> DEFINE a == pos + 1
             b == pos + chunk
  <2>1. a \in Nat /\ b \in Nat /\ wire \in Seq(Item) /\ pos \in Nat /\ chunk \in Nat
    BY TypeFacts
  <2>2. \A p \in a .. b : p \in 1 .. Len(wire)
    BY <1>3, TypeFacts
  <2>3. \A p \in a .. b : wire[p] \in Item
    BY <2>1, <2>2, ElementOfSeq
  <2> HIDE DEF a, b
  <2>4. /\ SubSeq(wire, a, b) \in Seq(Item)
        /\ Len(SubSeq(wire, a, b)) = IF a <= b THEN b - a + 1 ELSE 0
        /\ \A k \in 1 .. b - a + 1 : SubSeq(wire, a, b)[k] = wire[a + k - 1]
    BY <2>1, <2>3, SubSeqProperties
  <2>5. (IF a <= b THEN b - a + 1 ELSE 0) = chunk /\ b - a + 1 = chunk
    BY <2>1 DEF a, b
  <2>6. \A k \in 1 .. chunk : a + k - 1 = pos + k /\ pos + k \in a .. b
    BY <2>1 DEF a, b
  <2>7. \A k \in 1 .. chunk : wire[pos + k] = out[pos + k]
    BY <2>2, <2>6, TypeFacts
  <2>8. s = SubSeq(wire, a, b)
    BY DEF a, b
  <2> HIDE DEF s
  <2> QED BY <1>2, <2>4, <2>5, <2>6, <2>7, <2>8
<1> HIDE DEF s
<1>5. Payload(j, o) \o s = Payload(j, o + chunk)
  <2>1. \A k \in 1 .. Len(s) : s[k] = Octet(j, o + k)
    BY <1>4
  <2>2. Payload(j, o) \o s = Payload(j, o + Len(s))
    BY <1>4, <2>1, PayloadGrows
  <2> QED BY <1>4, <2>2
<1> QED BY <1>1, <1>3, <1>5 DEF s

(* A payload is complete when the rest of it needed no fragmentation. *)
LEMMA PayloadComplete ==
  ASSUME Inv, step # "none", UNCHANGED <<writer, wire>>, step' = "idle",
         NEW j \in Nat, j = reading, j <= Len(sent),
         got' = Append(got, Payload(j, sent[j])), result' = <<>>,
         pos' \in 0 .. Len(wire), chunk' \in Nat,
         NEW q \in Nat, pos' = q, At(q, j + 1, 0)
  PROVE  Inv'
<1>1. UNCHANGED writer /\ sent' = sent
  BY DEF writer
<1>2. sent[j] \in Nat /\ j >= 1
  <2>1. j \in 1 .. Len(sent)
    BY TypeFacts
  <2> QED BY <2>1, TypeFacts, ElementOfSeq
<1> DEFINE p == Payload(j, sent[j])
<1>3. p \in Seq(Item)
  BY <1>2, PayloadFacts
<1> HIDE DEF p
<1>4. /\ got' \in Seq(Seq(Item)) /\ Len(got') = j /\ got'[j] = p
      /\ \A i \in 1 .. Len(got) : got'[i] = got[i]
  <2>1. got' = Append(got, p)
    BY DEF p
  <2> QED BY <1>3, <2>1, TypeFacts, AppendProperties
<1>5. TypeOK' /\ Framed' /\ Writing' /\ Received'
  BY <1>4, DecoderStep
<1>6. Holds'
  <2>1. ASSUME NEW i \in 1 .. Len(got')
        PROVE  got'[i] = Payload(i, sent[i])
    <3>1. CASE i = j
      BY <1>4, <3>1 DEF p
    <3>2. CASE i # j
      <4>1. i \in 1 .. Len(got)
        BY <1>4, <3>2, TypeFacts
      <4> QED BY <1>4, <4>1 DEF Inv, Holds
    <3> QED BY <3>1, <3>2
  <2>2. result' = Payload(j + 1, 0)
    <3>1. Payload(j + 1, 0) \in Seq(Item) /\ Len(Payload(j + 1, 0)) = 0
      BY PayloadFacts
    <3> QED BY <3>1
  <2>3. Len(result') = 0 /\ reading' = j + 1
    BY <1>4 DEF reading
  <2> QED BY <1>1, <1>4, <2>1, <2>2, <2>3, TypeFacts DEF Holds
<1>7. Stands'
  <2>1. reading' = j + 1
    BY <1>4 DEF reading
  <2>2. PICK r \in Nat : r = j + 1
    OBVIOUS
  <2>3. At(q, r, 0)'
    BY <1>1, <2>2, StreamStays
  <2>4. At(pos, reading, 0)'
    BY <2>1, <2>2, <2>3
  <2> QED BY <2>4 DEF Stands
<1> QED BY <1>5, <1>6, <1>7 DEF Inv

LEMMA ReadChunkInv ==
  ASSUME Inv, ReadChunk
  PROVE  Inv'
<1>1. step = "data" /\ UNCHANGED <<writer, wire>> /\ UNCHANGED writer /\ sent' = sent
  BY DEF ReadChunk, writer
<1>2. PICK j \in Nat, o \in Nat : j = reading /\ o = Len(result)
  BY TypeFacts
<1>3. /\ j \in 1 .. Len(sent) /\ o <= sent[j] /\ chunk = Size(sent[j] - o)
      /\ Follows(pos, j, o) /\ Len(wire) <= Len(out)
  BY <1>1, <1>2, TypeFacts DEF Inv, Stands
<1>4. sent[j] \in Nat
  BY <1>3, TypeFacts, ElementOfSeq
<1>5. PICK l \in Nat : l = sent[j] - o
  BY <1>3, <1>4
<1>6. CASE Len(wire) - pos < chunk
  <2>1. Fail("eof")
    BY <1>6 DEF ReadChunk
  <2>2. pos + chunk <= Len(out)
    BY <1>3 DEF Follows
  <2>3. Len(wire) < Len(out)
    BY <1>6, <2>2, TypeFacts
  <2> QED BY <1>1, <2>1, <2>3, FailInv
<1>7. CASE ~(Len(wire) - pos < chunk)
  <2> DEFINE read == result \o SubSeq(wire, pos + 1, pos + chunk)
  <2>1. read = Payload(j, o + chunk) /\ pos + chunk \in 0 .. Len(wire)
    BY <1>1, <1>2, <1>7, ChunkRead
  <2>2. /\ pos' = pos + chunk /\ chunk' = chunk
        /\ IF chunk < K
             THEN step' = "idle" /\ got' = Append(got, read) /\ result' = <<>>
             ELSE step' = "next" /\ result' = read /\ got' = got
    BY <1>7 DEF ReadChunk
  <2> HIDE DEF read
  <2>3. PICK q \in Nat : q = pos + chunk
    BY TypeFacts
  <2>4. CASE chunk < K
    <3>1. l < K /\ chunk = l
      <4>1. chunk = Size(l)
        BY <1>3, <1>5
      <4> QED BY <2>4, <4>1, SizeSmall
    <3>2. o + chunk = sent[j]
      BY <1>4, <1>5, <3>1
    <3>3. At(q, j + 1, 0)
      BY <1>3, <1>5, <2>3, <3>1 DEF Follows
    <3>4. got' = Append(got, Payload(j, sent[j]))
      BY <2>1, <2>2, <2>4, <3>2
    <3>5. pos' = q /\ pos' \in 0 .. Len(wire) /\ chunk' \in Nat /\ step' = "idle" /\ result' = <<>>
      BY <2>1, <2>2, <2>3, <2>4, TypeFacts
    <3>6. j <= Len(sent)
      BY <1>3
    <3> QED BY <1>1, <1>2, <3>3, <3>4, <3>5, <3>6, PayloadComplete
  <2>5. CASE ~(chunk < K)
    <3>1. ~(l < K)
      BY <1>3, <1>5, <2>5 DEF Size
    <3>2. chunk <= l /\ chunk = Size(l)
      BY <1>3, <1>5, SizeFacts
    <3>3. PICK c \in Nat : c = o + chunk
      BY TypeFacts
    <3>4. At(q, j, c)
      BY <1>3, <1>5, <2>3, <3>1, <3>2, <3>3 DEF Follows
    <3>5. Starts(q, j, c)
      <4>1. ~writing
        BY <1>1 DEF Inv, Received
      <4>2. ~Ends(q, j, c)
        BY <1>3, <4>1, TypeFacts DEF Ends, CursorOf, field
      <4> QED BY <3>4, <4>2 DEF At
    <3>6. step' = "next" /\ got' = got /\ result' = Payload(j, c)
      BY <2>1, <2>2, <2>5, <3>3
    <3>7. result' \in Seq(Item) /\ Len(result') = c
      BY <3>6, PayloadFacts
    <3>8. TypeOK' /\ Framed' /\ Writing' /\ Received'
      BY <1>1, <2>1, <2>2, <3>6, <3>7, DecoderStep, TypeFacts
    <3>9. reading' = j
      BY <1>2, <3>6 DEF reading
    <3>10. Holds'
      BY <1>1, <3>6, <3>7, <3>9 DEF Inv, Holds
    <3>11. Stands'
      <4>1. Starts(q, j, c)'
        BY <1>1, <3>5, StreamStays
      <4>2. Starts(pos, reading, Len(result))'
        BY <2>2, <2>3, <3>7, <3>9, <4>1
      <4> QED BY <1>1, <1>3, <3>6, <3>9, <4>2, TypeFacts DEF Stands
    <3> QED BY <3>8, <3>10, <3>11 DEF Inv
  <2> QED BY <2>4, <2>5
<1> QED BY <1>6, <1>7

LEMMA ReadNextInv ==
  ASSUME Inv, ReadNext
  PROVE  Inv'
<1>1. step = "next" /\ UNCHANGED <<writer, wire>> /\ UNCHANGED writer /\ sent' = sent
  BY DEF ReadNext, writer
<1>2. PICK j \in Nat, o \in Nat : j = reading /\ o = Len(result)
  BY TypeFacts
<1>3. Starts(pos, j, o) /\ j \in 1 .. Len(sent) /\ o \in 0 .. sent[j] /\ result = Payload(j, o)
  BY <1>1, <1>2 DEF Inv, Stands, Starts, Holds
<1>4. CASE NoDeterminant
  BY <1>1, <1>3, <1>4, DeterminantMissing, FailInv
<1>5. CASE /\ ReadDeterminant
           /\ IF chunk' = 0
                THEN step' = "idle" /\ got' = Append(got, result) /\ result' = <<>>
                ELSE step' = "data" /\ UNCHANGED <<got, result>>
  <2>1. PICK l \in Nat : l = sent[j] - o
    BY <1>3, <1>5, DeterminantRead
  <2>2. PICK m \in Nat : m = chunk'
    BY <1>3, <1>5, DeterminantRead
  <2>3. PICK q \in Nat : q = pos + 1
    BY TypeFacts
  <2>4. /\ pos' = q /\ pos' \in 0 .. Len(wire) /\ m = Size(l) /\ Follows(q, j, o)
    BY <1>3, <1>5, <2>1, <2>2, <2>3, DeterminantRead
  <2>5. CASE m = 0
    <3>1. l = 0
      <4>1. Size(l) = 0
        BY <2>4, <2>5
      <4>2. Size(l) < K
        BY <4>1, OpenTypeAssumption
      <4> QED BY <4>1, <4>2, SizeSmall
    <3>2. sent[j] \in Nat
      BY <1>3, TypeFacts, ElementOfSeq
    <3>3. o = sent[j]
      BY <2>1, <3>1, <3>2
    <3>4. At(q, j + 1, 0)
      <4>1. l < K /\ q + l = q
        BY <3>1, TypeFacts
      <4>2. At(q + l, j + 1, 0)
        BY <2>1, <2>4, <4>1 DEF Follows
      <4> QED BY <4>1, <4>2
    <3>5. step' = "idle" /\ got' = Append(got, Payload(j, sent[j])) /\ result' = <<>>
      BY <1>3, <1>5, <2>2, <2>5, <3>3
    <3>6. j <= Len(sent) /\ chunk' \in Nat
      BY <1>3, <2>2
    <3> QED BY <1>1, <1>2, <2>4, <3>4, <3>5, <3>6, PayloadComplete
  <2>6. CASE m # 0
    <3>1. step' = "data" /\ got' = got /\ result' = result
      BY <1>5, <2>2, <2>6
    <3>2. TypeOK' /\ Framed' /\ Writing' /\ Received'
      BY <1>1, <2>2, <2>4, <3>1, DecoderStep, TypeFacts
    <3>3. reading' = j /\ Len(result') = o
      BY <1>2, <3>1 DEF reading
    <3>4. Holds'
      BY <1>1, <3>1 DEF Inv, Holds, reading
    <3>5. Stands'
      <4>1. Follows(q, j, o)'
        BY <1>1, <2>4, StreamStays
      <4>2. Follows(pos, reading, Len(result))'
        BY <2>4, <3>3, <4>1
      <4>3. j <= Len(sent) /\ o <= sent[j]
        BY <1>3
      <4> QED BY <1>1, <2>1, <2>2, <2>4, <3>1, <3>3, <4>2, <4>3 DEF Stands
    <3> QED BY <3>2, <3>4, <3>5 DEF Inv
  <2> QED BY <2>5, <2>6
<1> QED BY <1>4, <1>5 DEF ReadNext

LEMMA NextInv ==
  ASSUME Inv, [Next]_vars
  PROVE  Inv'
<1>1. CASE Encode
  BY <1>1, WriteOpenTypeInv, WriteFragmentInv, WriteRemainingInv DEF Encode
<1>2. CASE Receive
  BY <1>2, ReceiveInv
<1>3. CASE Decode
  BY <1>3, ReadOpenTypeInv, ReadChunkInv, ReadNextInv DEF Decode
<1>4. CASE Finished \/ UNCHANGED vars
  <2>1. UNCHANGED <<writer, reader>>
    BY <1>4 DEF Finished, vars
  <2>2. /\ UNCHANGED writer /\ sent' = sent /\ done' = done /\ writing' = writing /\ out' = out
        /\ wire' = wire /\ pos' = pos /\ step' = step /\ chunk' = chunk
        /\ result' = result /\ got' = got
    BY <2>1 DEF writer, reader
  <2>3. TypeOK' /\ Received' /\ Holds'
    BY <2>2 DEF Inv, TypeOK, Received, Holds, reading
  <2>4. Framed' /\ Writing'
    BY <2>2, StreamStays DEF Inv
  <2>5. Stands'
    <3>1. Stands
      BY DEF Inv
    <3>2. PICK p, j, o : p = pos /\ j = reading /\ o = Len(result)
      OBVIOUS
    <3>3. pos' = p /\ reading' = j /\ Len(result') = o /\ Len(wire') = Len(wire)
      BY <2>2, <3>2 DEF reading
    <3>4. step = "idle" => At(pos, reading, 0)'
      BY <2>2, <3>1, <3>2, <3>3, StreamStays DEF Stands
    <3>5. step = "data" => Follows(pos, reading, Len(result))'
      BY <2>2, <3>1, <3>2, <3>3, StreamStays DEF Stands
    <3>6. step = "next" => Starts(pos, reading, Len(result))'
      BY <2>2, <3>1, <3>2, <3>3, StreamStays DEF Stands
    <3> QED BY <2>2, <3>1, <3>2, <3>3, <3>4, <3>5, <3>6 DEF Stands
  <2> QED BY <2>3, <2>4, <2>5 DEF Inv
<1> QED BY <1>1, <1>2, <1>3, <1>4 DEF Next

-----------------------------------------------------------------------------
(* The theorems. *)

(* The inductive invariant of WriteOpenType and ReadOpenType: the stream   *)
(* is well framed, and the decoder stands in it where it thinks it does.   *)
THEOREM OpenTypeInvariant == Spec => []Inv
<1>1. Inv /\ [Next]_vars => Inv'
  BY NextInv
<1> QED BY InvInit, <1>1, PTL DEF Spec

(* The variables of WriteOpenType and ReadOpenType keep their types, and   *)
(* the decoder's position stays inside its input.                          *)
THEOREM OpenTypeTypeOK == Spec => []TypeOK
<1>1. Inv => TypeOK
  BY DEF Inv
<1> QED BY <1>1, OpenTypeInvariant, PTL

(* ReadOpenType never takes a payload octet for a determinant, never loses *)
(* its place in a payload, and fails only on a stream that was cut.        *)
THEOREM OpenTypeInStep == Spec => []InStep
<1>1. Inv => InStep
  <2> SUFFICES ASSUME Inv PROVE InStep
    OBVIOUS
  <2>1. Holds /\ Stands
    BY DEF Inv
  <2>2. result = Payload(Len(got) + 1, Len(result))
    BY <2>1 DEF Holds, reading
  <2>3. step = "data" => Len(result) <= sent[Len(got) + 1]
    BY <2>1 DEF Stands, reading
  <2>4. step = "next" => Len(result) <= sent[Len(got) + 1]
    <3>1. step = "next" => /\ reading \in 1 .. Len(sent) /\ Len(result) \in 0 .. sent[reading]
      BY <2>1 DEF Stands, Starts
    <3> QED BY <3>1 DEF reading
  <2>5. step # "desync" /\ (step = "eof" => Len(wire) < Len(out))
    BY <2>1 DEF Stands
  <2> QED BY <2>2, <2>3, <2>4, <2>5 DEF InStep
<1> QED BY <1>1, OpenTypeInvariant, PTL

(* Once every payload is read, ReadOpenType has consumed the stream to its *)
(* end and no further.                                                     *)
THEOREM OpenTypeStopsAtTheEnd == Spec => []StopsAtTheEnd
<1>1. Inv => StopsAtTheEnd
  <2> SUFFICES ASSUME Inv, step = "idle", Len(got) = Len(sent)
               PROVE  pos = Len(out) /\ Len(wire) = Len(out)
    BY DEF StopsAtTheEnd
  <2>1. At(pos, reading, 0)
    BY DEF Inv, Stands
  <2>2. ~Starts(pos, reading, 0)
    BY TypeFacts DEF Starts
  <2>3. pos = Len(out)
    BY <2>1, <2>2 DEF At, Ends
  <2> QED BY <2>3, TypeFacts
<1> QED BY <1>1, OpenTypeInvariant, PTL

(* Every payload ReadOpenType has returned is the one WriteOpenType was    *)
(* given in its place.                                                     *)
THEOREM OpenTypeDelivered ==
  Spec => [](Len(got) <= Len(sent) /\ \A j \in 1 .. Len(got) : got[j] = Payload(j, sent[j]))
<1>1. Inv => Len(got) <= Len(sent) /\ \A j \in 1 .. Len(got) : got[j] = Payload(j, sent[j])
  BY DEF Inv, Holds
<1> QED BY <1>1, OpenTypeInvariant, PTL

-----------------------------------------------------------------------------
(* The refinement: what the decoder was handed is sent, a payload that it  *)
(* completes is delivered, a stream that ends is lost, the rest stutters.  *)
Handed == IF step = "none" THEN <<>> ELSE [j \in 1 .. Len(sent) |-> Payload(j, sent[j])]

LEMMA HandedFacts ==
  ASSUME Inv, step # "none"
  PROVE  /\ Len(Handed) = Len(sent)
         /\ \A j \in 1 .. Len(sent) : Handed[j] = Payload(j, sent[j])
BY TypeFacts DEF Handed

LEMMA ReceiveRefines ==
  ASSUME Inv, Receive
  PROVE  [Ch!CNext]_(Ch!cvars)
<1>1. /\ step = "none" /\ step' = "idle" /\ got' = got /\ sent' = sent
      /\ sent \in Seq(Nat) /\ Len(sent) \in Nat
  BY TypeFacts DEF Receive, writer
<1> DEFINE h == [j \in 1 .. Len(sent) |-> Payload(j, sent[j])]
<1>2. Handed = <<>> /\ Handed' = h /\ (step = "eof") = FALSE /\ (step = "eof")' = FALSE
  BY <1>1 DEF Handed
<1>3. h = <<>> \/ (Len(h) > 0 /\ SubSeq(h, 1, 0) = <<>>)
  <2>1. Len(h) = Len(sent)
    BY <1>1
  <2>2. CASE Len(sent) = 0
    BY <2>2
  <2>3. CASE Len(sent) # 0
    BY <1>1, <2>1, <2>3, SubSeqEmpty
  <2> QED BY <2>2, <2>3
<1> HIDE DEF h
<1>4. CASE h = <<>>
  BY <1>1, <1>2, <1>4 DEF Ch!cvars, Handed
<1>5. CASE Len(h) > 0 /\ SubSeq(h, 1, 0) = <<>>
  BY <1>1, <1>2, <1>5 DEF Ch!CNext, Ch!Send, Handed
<1> QED BY <1>3, <1>4, <1>5

LEMMA EncodeRefines ==
  ASSUME Inv, Encode
  PROVE  UNCHANGED Ch!cvars
<1>1. step = "none" /\ UNCHANGED reader
  <2>1. CASE \E n \in Lengths : WriteOpenType(n)
    BY <2>1 DEF WriteOpenType
  <2>2. CASE WriteFragment \/ WriteRemaining
    BY <2>2, LoopFacts DEF WriteFragment, WriteRemaining
  <2> QED BY <2>1, <2>2 DEF Encode
<1>2. step' = step /\ got' = got
  BY <1>1 DEF reader
<1> QED BY <1>1, <1>2 DEF Ch!cvars

LEMMA LoseRefines ==
  ASSUME step # "none", UNCHANGED <<writer, wire>>, Fail("eof")
  PROVE  Ch!CNext
<1>1. step' = "eof" /\ got' = got /\ sent' = sent
  BY DEF Fail, writer
<1> QED BY <1>1 DEF Ch!CNext, Ch!Lose

LEMMA GoesOnRefines ==
  ASSUME step \in {"idle", "data", "next"}, step' \in {"data", "next"}, sent' = sent, got' = got
  PROVE  UNCHANGED Ch!cvars
BY DEF Ch!cvars

LEMMA DeliverRefines ==
  ASSUME Inv, Inv', step \in {"data", "next"}, step' = "idle", sent' = sent,
         NEW x \in Seq(Item), got' = Append(got, x)
  PROVE  Ch!CNext
<1>1. PICK j \in Nat : j = reading
  BY TypeFacts
<1>2. /\ Len(got') = j /\ got'[j] = x /\ Len(got) = j - 1
  BY <1>1, TypeFacts, AppendProperties
<1>3. j <= Len(sent) /\ got'[j] = Payload(j, sent[j])
  <2>1. Holds'
    BY DEF Inv
  <2>2. j \in 1 .. Len(got')
    BY <1>1, <1>2, TypeFacts
  <2> QED BY <1>2, <2>1, <2>2 DEF Holds
<1>4. Len(Handed) = Len(sent) /\ Handed[j] = Payload(j, sent[j])
  BY <1>1, <1>3, HandedFacts, TypeFacts
<1>5. /\ Len(got) < Len(Handed) /\ got' = Append(got, Handed[Len(got) + 1])
      /\ Handed' = Handed
  <2>1. Len(got) < Len(Handed)
    BY <1>1, <1>3, <1>4, TypeFacts
  <2>2. Handed[Len(got) + 1] = x
    BY <1>1, <1>2, <1>3, <1>4, TypeFacts
  <2>3. Handed' = Handed
    BY DEF Handed
  <2> QED BY <2>1, <2>2, <2>3
<1> QED BY <1>5 DEF Ch!CNext, Ch!Deliver, Handed

LEMMA ReadOpenTypeRefines ==
  ASSUME Inv, ReadOpenType
  PROVE  [Ch!CNext]_(Ch!cvars)
<1>1. step = "idle" /\ UNCHANGED <<writer, wire>> /\ sent' = sent /\ Starts(pos, reading, 0)
  BY NextPayload DEF ReadOpenType, writer
<1>2. CASE NoDeterminant
  BY <1>1, <1>2, DeterminantMissing, LoseRefines
<1>3. CASE step' = "data" /\ UNCHANGED got
  BY <1>1, <1>3, GoesOnRefines
<1> QED BY <1>2, <1>3 DEF ReadOpenType

LEMMA ReadChunkRefines ==
  ASSUME Inv, ReadChunk
  PROVE  [Ch!CNext]_(Ch!cvars)
<1>1. step = "data" /\ UNCHANGED <<writer, wire>> /\ sent' = sent
  BY DEF ReadChunk, writer
<1>2. CASE Len(wire) - pos < chunk
  <2>1. Fail("eof")
    BY <1>2 DEF ReadChunk
  <2> QED BY <1>1, <2>1, LoseRefines
<1>3. CASE ~(Len(wire) - pos < chunk)
  <2> DEFINE read == result \o SubSeq(wire, pos + 1, pos + chunk)
  <2>1. PICK j \in Nat, o \in Nat : j = reading /\ o = Len(result)
    BY TypeFacts
  <2>2. PICK c \in Nat : c = o + chunk
    BY TypeFacts
  <2>3. read \in Seq(Item)
    <3>1. read = Payload(j, c)
      BY <1>1, <1>3, <2>1, <2>2, ChunkRead
    <3> QED BY <3>1, PayloadFacts
  <2>4. IF chunk < K THEN step' = "idle" /\ got' = Append(got, read)
                     ELSE step' = "next" /\ got' = got
    BY <1>3 DEF ReadChunk
  <2> HIDE DEF read
  <2>5. Inv'
    BY ReadChunkInv
  <2> QED BY <1>1, <2>3, <2>4, <2>5, DeliverRefines, GoesOnRefines
<1> QED BY <1>2, <1>3

LEMMA ReadNextRefines ==
  ASSUME Inv, ReadNext
  PROVE  [Ch!CNext]_(Ch!cvars)
<1>1. step = "next" /\ UNCHANGED <<writer, wire>> /\ sent' = sent /\ result \in Seq(Item)
  BY TypeFacts DEF ReadNext, writer
<1>2. CASE NoDeterminant
  <2>1. PICK j, o : Starts(pos, j, o)
    BY <1>1 DEF Inv, Stands
  <2> QED BY <1>1, <1>2, <2>1, DeterminantMissing, LoseRefines
<1>3. CASE IF chunk' = 0 THEN step' = "idle" /\ got' = Append(got, result) /\ result' = <<>>
                         ELSE step' = "data" /\ UNCHANGED <<got, result>>
  <2>1. Inv'
    BY ReadNextInv
  <2>2. CASE step' = "idle" /\ got' = Append(got, result)
    BY <1>1, <2>1, <2>2, DeliverRefines
  <2>3. CASE step' = "data" /\ got' = got
    BY <1>1, <2>3, GoesOnRefines
  <2> QED BY <1>3, <2>2, <2>3
<1> QED BY <1>2, <1>3 DEF ReadNext

(* WriteOpenType and ReadOpenType together are a channel: nothing is       *)
(* delivered but what was sent, in order, each once, and nothing after the *)
(* stream has run out.  (That something is delivered is Transfers, which   *)
(* is checked under fairness.)                                             *)
THEOREM OpenTypeIsAChannel == Spec => Ch!CInit /\ [][Ch!CNext]_(Ch!cvars)
<1>1. Init => Ch!CInit
  BY DEF Init, Ch!CInit
<1>2. ASSUME Inv, [Next]_vars
      PROVE  [Ch!CNext]_(Ch!cvars)
  <2>1. CASE Encode
    BY <1>2, <2>1, EncodeRefines
  <2>2. CASE Receive
    BY <1>2, <2>2, ReceiveRefines
  <2>3. CASE Decode
    BY <1>2, <2>3, ReadOpenTypeRefines, ReadChunkRefines, ReadNextRefines DEF Decode
  <2>4. CASE Finished \/ UNCHANGED vars
    BY <2>4 DEF Finished, vars, writer, reader, Ch!cvars
  <2> QED BY <1>2, <2>1, <2>2, <2>3, <2>4 DEF Next
<1> QED BY <1>1, <1>2, OpenTypeInvariant, PTL DEF Spec
=============================================================================
