--------------------------- MODULE BitReader_proofs ---------------------------
(***************************************************************************)
(* For every input, width and count: BitReader delivers the bits of its    *)
(* input in order, each once, and a call that fails has consumed nothing.  *)
(***************************************************************************)
EXTENDS BitReader, TLAPS, SequenceTheorems

(* The bits of the input from position a up to position b. *)
Slice(a, b) == SubSeq(AllBits(data), a + 1, b)

(* Where the active ReadBits started, and how many bits the call as a      *)
(* whole still wants from there.                                           *)
From  == IF path = "slow" THEN bitPos - i ELSE bitPos
Ahead == IF todo > 0 THEN 8 * todo ELSE numBits

(* What each loop holds: the bits it has taken since it started. *)
FastHolds ==
  /\ numBits % 8 = 0 /\ bitPos % 8 = 0 /\ 8 * i <= numBits
  /\ res = Slice(bitPos, bitPos + 8 * i)
SlowHolds == i <= bitPos /\ i <= numBits /\ res = Slice(bitPos - i, bitPos)

InLoop ==
  path # "none" =>
    /\ numBits \in 1 .. 64
    /\ path = "fast" => FastHolds
    /\ path = "slow" => SlowHolds
    /\ IF todo > 0 THEN numBits = 8 ELSE start = From

(* An active call has so far what lies between its start and the loop, and *)
(* what it still wants is there: it was checked up front.                  *)
InCall ==
  ~Idle =>
    /\ start <= From /\ bytes = Slice(start, From)
    /\ From + Ahead = start + want /\ start + want <= totalBits

Returned ==
  Idle =>
    /\ start <= bitPos
    /\ outcome.status = "ok" => outcome.bits = Slice(start, bitPos)

(* The inductive invariant. *)
Inv ==
  /\ TypeOK /\ bitPos <= totalBits
  /\ InLoop /\ InCall /\ Returned /\ FailsUpFront
  /\ todo = 0 => bytes = <<>>

-----------------------------------------------------------------------------
(* Slices of an input. *)
LEMMA AllBitsType ==
  ASSUME NEW d \in Seq(Byte)
  PROVE  /\ AllBits(d) \in Seq(Bit) /\ Len(AllBits(d)) = 8 * Len(d)
         /\ \A k \in 0 .. 8 * Len(d) - 1 : AllBits(d)[k + 1] = At(d, k)
<1>1. ASSUME NEW k \in 0 .. 8 * Len(d) - 1
      PROVE  At(d, k) \in Bit
  <2>1. (k \div 8) + 1 \in 1 .. Len(d) /\ k % 8 \in 0 .. 7
    OBVIOUS
  <2>2. d[(k \div 8) + 1] \in Byte
    BY <2>1
  <2> QED BY <2>1, <2>2 DEF At, Byte
<1>2. \A k \in 1 .. 8 * Len(d) : At(d, k - 1) \in Bit
  BY <1>1
<1> QED BY <1>2 DEF AllBits, Stream

LEMMA SliceType ==
  ASSUME data \in Seq(Byte), NEW a \in Nat, NEW b \in Nat, a <= b, b <= totalBits
  PROVE  /\ Slice(a, b) \in Seq(Bit) /\ Len(Slice(a, b)) = b - a
         /\ \A k \in 1 .. b - a : Slice(a, b)[k] = At(data, a + k - 1)
<1> DEFINE A == AllBits(data)
<1>1. A \in Seq(Bit) /\ Len(A) = totalBits /\ \A k \in 0 .. totalBits - 1 : A[k + 1] = At(data, k)
  BY AllBitsType DEF totalBits
<1>2. \A k \in a + 1 .. b : A[k] \in Bit /\ A[k] = At(data, k - 1)
  BY <1>1
<1> HIDE DEF A
<1>3. /\ SubSeq(A, a + 1, b) \in Seq(Bit)
      /\ Len(SubSeq(A, a + 1, b)) = IF a + 1 <= b THEN b - (a + 1) + 1 ELSE 0
      /\ \A k \in 1 .. b - (a + 1) + 1 : SubSeq(A, a + 1, b)[k] = A[(a + 1) + k - 1]
  <2>1. a + 1 \in Int /\ b \in Int /\ \A k \in (a + 1) .. b : A[k] \in Bit
    BY <1>2
  <2> DEFINE m == a + 1
  <2> HIDE DEF m
  <2>2. m \in Int /\ \A k \in m .. b : A[k] \in Bit
    BY <2>1 DEF m
  <2>3. /\ SubSeq(A, m, b) \in Seq(Bit)
        /\ Len(SubSeq(A, m, b)) = IF m <= b THEN b - m + 1 ELSE 0
        /\ \A k \in 1 .. b - m + 1 : SubSeq(A, m, b)[k] = A[m + k - 1]
    BY <2>1, <2>2, SubSeqProperties
  <2> QED BY <2>3 DEF m
<1>4. \A k \in 1 .. b - a : (a + 1) + k - 1 \in a + 1 .. b /\ (a + 1) + k - 1 - 1 = a + k - 1
  OBVIOUS
<1> QED BY <1>2, <1>3, <1>4 DEF Slice, A

LEMMA SliceLength ==
  ASSUME data \in Seq(Byte), NEW a \in Nat, NEW n \in Nat, NEW b \in Nat, b = a + n, b <= totalBits
  PROVE  /\ Slice(a, b) \in Seq(Bit) /\ Len(Slice(a, b)) = n
         /\ \A k \in 1 .. n : Slice(a, b)[k] = At(data, a + k - 1)
<1>1. a <= b /\ b - a = n
  OBVIOUS
<1> QED BY <1>1, SliceType

LEMMA SliceEmpty ==
  ASSUME NEW a \in Nat
  PROVE  Slice(a, a) = <<>>
BY SubSeqEmpty DEF Slice

LEMMA SliceJoin ==
  ASSUME data \in Seq(Byte), NEW a \in Nat, NEW b \in Nat, NEW c \in Nat,
         a <= b, b <= c, c <= totalBits
  PROVE  Slice(a, b) \o Slice(b, c) = Slice(a, c)
<1> DEFINE A == AllBits(data)
<1>1. A \in Seq(Bit) /\ Len(A) = totalBits /\ totalBits \in Nat
  BY AllBitsType DEF totalBits
<1> HIDE DEF A
<1>2. /\ a + 1 \in 1 .. Len(A) + 1 /\ b \in (a + 1) - 1 .. Len(A) /\ c \in b .. Len(A)
  BY <1>1
<1>3. SubSeq(A, a + 1, b) \o SubSeq(A, b + 1, c) = SubSeq(A, a + 1, c)
  BY <1>1, <1>2, ConcatAdjacentSubSeq
<1> QED BY <1>3 DEF Slice, A

(* One bit more, one byte more, and a slice of bytes. *)
LEMMA SliceAppend ==
  ASSUME data \in Seq(Byte), NEW a \in Nat, NEW b \in Nat, a <= b, b < totalBits
  PROVE  Append(Slice(a, b), At(data, b)) = Slice(a, b + 1)
<1> DEFINE s == Slice(a, b)
           t == Slice(a, b + 1)
<1>0. totalBits \in Nat /\ b + 1 <= totalBits /\ b + 1 \in Nat /\ a <= b + 1 /\ b <= totalBits
  BY DEF totalBits
<1>1. s \in Seq(Bit) /\ Len(s) = b - a /\ \A k \in 1 .. b - a : s[k] = At(data, a + k - 1)
  BY <1>0, SliceType
<1>2. t \in Seq(Bit) /\ Len(t) = b + 1 - a /\ \A k \in 1 .. b + 1 - a : t[k] = At(data, a + k - 1)
  BY <1>0, SliceType
<1> HIDE DEF s, t
<1>3. b + 1 - a \in 1 .. Len(t) /\ a + (b + 1 - a) - 1 = b
  BY <1>2
<1>4. t[b + 1 - a] = At(data, b) /\ At(data, b) \in Bit
  BY <1>2, <1>3, ElementOfSeq
<1>5. /\ Append(s, At(data, b)) \in Seq(Bit) /\ Len(Append(s, At(data, b))) = Len(t)
      /\ \A k \in 1 .. Len(s) : Append(s, At(data, b))[k] = s[k]
      /\ Append(s, At(data, b))[Len(s) + 1] = At(data, b)
  BY <1>1, <1>2, <1>4, AppendProperties
<1>6. \A k \in 1 .. Len(t) : Append(s, At(data, b))[k] = t[k]
  BY <1>1, <1>2, <1>4, <1>5
<1>7. Append(s, At(data, b)) = t
  BY <1>2, <1>5, <1>6, SeqEqual
<1> QED BY <1>7 DEF s, t

LEMMA SliceByte ==
  ASSUME data \in Seq(Byte), NEW n \in 0 .. Len(data) - 1
  PROVE  [k \in 1 .. 8 |-> data[n + 1][k - 1]] = Slice(8 * n, 8 * n + 8)
<1> DEFINE s == [k \in 1 .. 8 |-> data[n + 1][k - 1]]
           t == Slice(8 * n, 8 * n + 8)
<1>0. 8 * n \in Nat /\ 8 * n + 8 \in Nat /\ 8 * n <= 8 * n + 8 /\ 8 * n + 8 <= totalBits
  BY DEF totalBits
<1>1. t \in Seq(Bit) /\ Len(t) = 8 /\ \A k \in 1 .. 8 : t[k] = At(data, 8 * n + k - 1)
  BY <1>0, SliceLength
<1>2. \A k \in 1 .. 8 : (8 * n + k - 1) \div 8 = n /\ (8 * n + k - 1) % 8 = k - 1
  OBVIOUS
<1>3. \A k \in 1 .. 8 : t[k] = s[k]
  BY <1>1, <1>2 DEF At
<1>4. s \in Seq(Bit) /\ Len(s) = 8
  <2>1. data[n + 1] \in Byte
    OBVIOUS
  <2> QED BY <2>1 DEF Byte
<1> HIDE DEF s, t
<1>5. s = t
  BY <1>1, <1>3, <1>4, SeqEqual
<1> QED BY <1>5 DEF s, t

LEMMA SliceBytes ==
  ASSUME data \in Seq(Byte), NEW n \in Nat, NEW c \in Nat, c > 0, n + c <= Len(data)
  PROVE  AllBits(SubSeq(data, n + 1, n + c)) = Slice(8 * n, 8 * n + 8 * c)
<1> DEFINE d == SubSeq(data, n + 1, n + c)
           s == AllBits(d)
           t == Slice(8 * n, 8 * n + 8 * c)
<1>0. /\ 8 * n \in Nat /\ 8 * c \in Nat /\ 8 * n + 8 * c \in Nat
      /\ 8 * n + 8 * c <= totalBits
  BY DEF totalBits
<1>1. t \in Seq(Bit) /\ Len(t) = 8 * c /\ \A k \in 1 .. 8 * c : t[k] = At(data, 8 * n + k - 1)
  BY <1>0, SliceLength
<1>2. \A k \in n + 1 .. n + c : data[k] \in Byte
  OBVIOUS
<1>3. d \in Seq(Byte) /\ Len(d) = c /\ \A k \in 1 .. c : d[k] = data[n + k]
  BY <1>2, SubSeqProperties
<1> HIDE DEF d, t
<1>4. s \in Seq(Bit) /\ Len(s) = 8 * c /\ \A k \in 0 .. 8 * c - 1 : s[k + 1] = At(d, k)
  BY <1>3, AllBitsType
<1> HIDE DEF s
<1>5. ASSUME NEW k \in 0 .. 8 * c - 1
      PROVE  At(d, k) = At(data, 8 * n + k)
  <2>1. /\ (8 * n + k) \div 8 = n + (k \div 8) /\ (8 * n + k) % 8 = k % 8
        /\ (k \div 8) + 1 \in 1 .. c
    OBVIOUS
  <2>2. d[(k \div 8) + 1] = data[n + (k \div 8) + 1]
    BY <1>3, <2>1
  <2> QED BY <2>1, <2>2 DEF At
<1>6. \A k \in 1 .. 8 * c : s[k] = t[k]
  <2> SUFFICES ASSUME NEW k \in 1 .. 8 * c PROVE s[k] = t[k]
    OBVIOUS
  <2>1. k - 1 \in 0 .. 8 * c - 1 /\ (k - 1) + 1 = k /\ 8 * n + (k - 1) = 8 * n + k - 1
    OBVIOUS
  <2>2. s[(k - 1) + 1] = At(d, k - 1) /\ At(d, k - 1) = At(data, 8 * n + (k - 1))
    BY <1>4, <1>5, <2>1
  <2> QED BY <1>1, <2>1, <2>2
<1>7. s = t
  BY <1>1, <1>4, <1>6, SeqEqual
<1> QED BY <1>7 DEF s, t, d

-----------------------------------------------------------------------------
(* What the invariant says of numbers, in a form every step can use. *)
LEMMA Positions ==
  ASSUME Inv
  PROVE  /\ data \in Seq(Byte) /\ Len(data) \in Nat /\ totalBits = 8 * Len(data) /\ totalBits \in Nat
         /\ bitPos \in Nat /\ bitPos <= totalBits /\ i \in Nat /\ todo \in Nat
         /\ start \in Nat /\ want \in Int /\ numBits \in Int
BY ReaderAssumption DEF Inv, TypeOK, totalBits

(* Inside a loop, From is a position, the field of numBits bits from there *)
(* is inside the input, and what the call took before ends there.          *)
LEMMA Inside ==
  ASSUME Inv, path # "none"
  PROVE  /\ numBits \in 1 .. 64 /\ From \in Nat /\ start <= From
         /\ From + numBits <= totalBits /\ bytes = Slice(start, From)
         /\ todo = 0 => start = From /\ want = numBits /\ bytes = <<>>
         /\ todo > 0 => numBits = 8 /\ From + 8 * todo = start + want
         /\ start + want <= totalBits
<1>1. ~Idle /\ path \in {"slow", "fast"}
  BY DEF Idle, Inv, TypeOK
<1>2. numBits \in 1 .. 64 /\ From \in Nat
  BY <1>1, Positions DEF Inv, InLoop, SlowHolds, From
<1>3. /\ start <= From /\ bytes = Slice(start, From)
      /\ From + Ahead = start + want /\ start + want <= totalBits
  BY <1>1 DEF Inv, InCall
<1>4. IF todo > 0 THEN numBits = 8 ELSE start = From
  BY DEF Inv, InLoop
<1>5. todo = 0 => bytes = <<>>
  BY DEF Inv
<1>6. CASE todo = 0
  BY <1>2, <1>3, <1>4, <1>5, <1>6, Positions DEF Ahead
<1>7. CASE todo > 0
  BY <1>2, <1>3, <1>4, <1>7, Positions DEF Ahead
<1> QED BY <1>6, <1>7, Positions

LEMMA InvInit == Init => Inv
<1> SUFFICES ASSUME Init PROVE Inv
  OBVIOUS
<1>1. data \in Seq(Byte) /\ Len(data) \in Nat /\ totalBits \in Nat
  BY ReaderAssumption DEF Init, totalBits
<1>2. TypeOK
  BY DEF Init, TypeOK
<1>3. Slice(0, 0) = <<>>
  BY SliceEmpty
<1>4. Returned
  BY <1>3 DEF Init, Returned
<1>5. FailsUpFront
  BY <1>1 DEF Init, FailsUpFront
<1> QED BY <1>1, <1>2, <1>4, <1>5 DEF Init, Inv, InLoop, InCall, Idle

(* A call that returns at once: n bits asked for at bitPos, and either all *)
(* of them delivered, or none and an error for a reason.                   *)
LEMMA ReturnsAtOnce ==
  ASSUME Inv, NEW n \in Int, Ask(n), UNCHANGED <<data, loop, todo, bytes>>,
         outcome' \in [status : {"ok", "eof", "invalid"}, bits : Seq(Bit)],
         \/ /\ outcome'.status = "ok" /\ n >= 0 /\ bitPos + n <= totalBits
            /\ bitPos' = bitPos + n /\ outcome'.bits = Slice(bitPos, bitPos + n)
         \/ outcome'.status = "eof" /\ bitPos' = bitPos /\ n > totalBits - bitPos
         \/ outcome'.status = "invalid" /\ bitPos' = bitPos
  PROVE  Inv'
<1>1. /\ Idle /\ Idle' /\ path = "none" /\ path' = "none" /\ todo = 0 /\ todo' = 0
      /\ start' = bitPos /\ want' = n /\ data' = data /\ bytes = <<>> /\ bytes' = <<>>
  BY DEF Ask, Idle, loop, Inv
<1>2. totalBits' = totalBits
  BY <1>1 DEF totalBits
<1>3. bitPos' \in Nat /\ bitPos' <= totalBits' /\ start' <= bitPos'
  BY <1>1, <1>2, Positions
<1>4. TypeOK'
  BY <1>1, <1>3, Positions DEF TypeOK, Inv, loop
<1>5. Returned'
  BY <1>1, <1>3 DEF Returned, Slice
<1>6. FailsUpFront'
  BY <1>1, <1>2, Positions DEF FailsUpFront
<1> QED BY <1>1, <1>3, <1>4, <1>5, <1>6 DEF Inv, InLoop, InCall

LEMMA ReadBitInv == ASSUME Inv, ReadBit PROVE Inv'
<1>1. CASE bitPos >= totalBits
  <2>1. outcome' = [status |-> "eof", bits |-> <<>>] /\ bitPos' = bitPos /\ Ask(1)
    BY <1>1 DEF ReadBit, Error
  <2>2. 1 > totalBits - bitPos
    BY <1>1, Positions
  <2> QED BY <2>1, <2>2, ReturnsAtOnce DEF ReadBit
<1>2. CASE bitPos < totalBits
  <2>1. /\ outcome' = [status |-> "ok", bits |-> <<At(data, bitPos)>>] /\ bitPos' = bitPos + 1 /\ Ask(1)
        /\ bitPos + 1 <= totalBits
    BY <1>2, Positions DEF ReadBit, Ok
  <2>2. Append(Slice(bitPos, bitPos), At(data, bitPos)) = Slice(bitPos, bitPos + 1)
    BY <1>2, Positions, SliceAppend
  <2>3. <<At(data, bitPos)>> = Slice(bitPos, bitPos + 1)
    <3>1. \A x : Append(<<>>, x) = <<x>>
      OBVIOUS
    <3>2. Slice(bitPos, bitPos) = <<>>
      BY Positions, SliceEmpty
    <3> QED BY <2>2, <3>1, <3>2
  <2>4. Slice(bitPos, bitPos + 1) \in Seq(Bit)
    BY <2>1, Positions, SliceType
  <2> QED BY <2>1, <2>3, <2>4, ReturnsAtOnce DEF ReadBit
<1> QED BY <1>1, <1>2, Positions

LEMMA AlignToByteInv == ASSUME Inv, AlignToByte PROVE Inv'
<1> DEFINE n == (8 - (bitPos % 8)) % 8
<1>1. n \in 0 .. 7 /\ bitPos + n <= totalBits
  <2>1. \A m, L \in Nat : m <= 8 * L =>
          (8 - (m % 8)) % 8 \in 0 .. 7 /\ m + ((8 - (m % 8)) % 8) <= 8 * L
    <3> SUFFICES ASSUME NEW m \in Nat, NEW L \in Nat, m <= 8 * L
                 PROVE  (8 - (m % 8)) % 8 \in 0 .. 7 /\ m + ((8 - (m % 8)) % 8) <= 8 * L
      OBVIOUS
    <3>1. CASE m % 8 = 0
      BY <3>1
    <3>2. CASE m % 8 # 0
      <4>1. m % 8 \in 1 .. 7 /\ (8 - (m % 8)) % 8 = 8 - (m % 8)
        BY <3>2
      <4>2. m + (8 - (m % 8)) <= 8 * L
        BY <3>2
      <4> QED BY <4>1, <4>2
    <3> QED BY <3>1, <3>2
  <2> QED BY <2>1, Positions
<1>2. /\ Ask(n) /\ want' = n /\ bitPos' = bitPos + want'
      /\ outcome' = [status |-> "ok", bits |-> SubSeq(AllBits(data), bitPos + 1, bitPos + want')]
      /\ UNCHANGED <<data, loop, todo, bytes>>
  BY DEF AlignToByte, Ask, Ok
<1> HIDE DEF n
<1>3. outcome' = [status |-> "ok", bits |-> Slice(bitPos, bitPos + n)] /\ bitPos' = bitPos + n
  BY <1>2 DEF Slice
<1>4. Slice(bitPos, bitPos + n) \in Seq(Bit)
  <2>1. n \in Nat /\ bitPos + n \in Nat
    BY <1>1, Positions
  <2> QED BY <1>1, <2>1, Positions, SliceLength
<1>5. /\ n \in Int /\ n >= 0 /\ outcome'.status = "ok" /\ outcome'.bits = Slice(bitPos, bitPos + n)
      /\ outcome' \in [status : {"ok", "eof", "invalid"}, bits : Seq(Bit)]
  BY <1>1, <1>3, <1>4
<1> QED BY <1>1, <1>2, <1>3, <1>5, ReturnsAtOnce

(* Whichever loop Enter chooses, it starts with all n bits to take. *)
LEMMA EnterInv ==
  ASSUME Inv, path = "none", NEW n \in 1 .. 64, Enter(n), UNCHANGED <<data, bitPos, outcome>>,
         start' \in Nat, start' <= bitPos, want' \in Int, start' + want' <= totalBits,
         todo' \in Nat, bytes' \in Seq(Bit), bytes' = Slice(start', bitPos),
         IF todo' > 0 THEN n = 8 /\ bitPos + 8 * todo' = start' + want'
                      ELSE start' = bitPos /\ want' = n /\ bytes' = <<>>
  PROVE  Inv'
<1>1. /\ path' = IF bitPos % 8 = 0 /\ n % 8 = 0 THEN "fast" ELSE "slow"
      /\ numBits' = n /\ i' = 0 /\ res' = <<>> /\ bitPos' = bitPos /\ data' = data
  BY DEF Enter
<1>2. totalBits' = totalBits /\ ~Idle'
  BY <1>1 DEF totalBits, Idle
<1>3. From' = bitPos
  BY <1>1, Positions DEF From
<1>4. Slice(bitPos, bitPos) = <<>>
  BY Positions, SliceEmpty
<1>5. TypeOK'
  BY <1>1, Positions DEF TypeOK, Inv
<1>6. path' = "fast" => FastHolds'
  <2> SUFFICES ASSUME path' = "fast" PROVE FastHolds'
    OBVIOUS
  <2>1. n % 8 = 0 /\ bitPos % 8 = 0 /\ 8 * i' = 0 /\ bitPos' + 8 * i' = bitPos
    BY <1>1, Positions
  <2>2. res' = Slice(bitPos, bitPos + 8 * i)'
    BY <1>1, <1>4, <2>1 DEF Slice
  <2>3. (numBits % 8 = 0)' /\ (bitPos % 8 = 0)' /\ (8 * i <= numBits)'
    BY <1>1, <2>1
  <2> QED BY <2>2, <2>3 DEF FastHolds
<1>7. path' = "slow" => SlowHolds'
  <2>1. i' <= bitPos' /\ i' <= numBits' /\ bitPos' - i' = bitPos
    BY <1>1, Positions
  <2>2. res' = Slice(bitPos - i, bitPos)'
    BY <1>1, <1>4, <2>1 DEF Slice
  <2> QED BY <2>1, <2>2 DEF SlowHolds
<1>8. InLoop'
  BY <1>1, <1>3, <1>6, <1>7 DEF InLoop
<1>9. InCall'
  <2>1. start' + want' <= totalBits'
    BY <1>2
  <2>2. start' <= From' /\ bytes' = Slice(start, From)'
    BY <1>1, <1>3 DEF Slice
  <2>3. From' + Ahead' = start' + want'
    BY <1>1, <1>3, Positions DEF Ahead
  <2> QED BY <2>1, <2>2, <2>3 DEF InCall
<1>10. bitPos' <= totalBits' /\ (todo' = 0 => bytes' = <<>>)
  BY <1>1, <1>2, Positions
<1> QED BY <1>2, <1>5, <1>8, <1>9, <1>10 DEF Inv, Returned, FailsUpFront

LEMMA ReadBitsInv == ASSUME Inv, NEW n \in Widths, ReadBits(n) PROVE Inv'
<1>1. n \in Int /\ Ask(n) /\ UNCHANGED <<data, bitPos, todo, bytes>>
  BY ReaderAssumption DEF ReadBits
<1>2. BitsLeft = totalBits - bitPos
  BY DEF BitsLeft
<1>3. CASE n < 0 \/ n > 64
  <2>1. outcome' = [status |-> "invalid", bits |-> <<>>] /\ UNCHANGED loop
    BY <1>1, <1>3 DEF ReadBits, Error
  <2> QED BY <1>1, <2>1, ReturnsAtOnce
<1>4. CASE n = 0
  <2>1. outcome' = [status |-> "ok", bits |-> <<>>] /\ UNCHANGED loop
    BY <1>1, <1>4 DEF ReadBits, Ok
  <2>2. Slice(bitPos, bitPos + n) = <<>> /\ bitPos + n = bitPos
    BY <1>4, Positions, SliceEmpty
  <2> QED BY <1>1, <1>4, <2>1, <2>2, Positions, ReturnsAtOnce
<1>5. CASE n > 0 /\ n <= 64 /\ BitsLeft < n
  <2>1. outcome' = [status |-> "eof", bits |-> <<>>] /\ UNCHANGED loop
    BY <1>1, <1>5 DEF ReadBits, Error
  <2>2. n > totalBits - bitPos
    BY <1>1, <1>2, <1>5, Positions
  <2> QED BY <1>1, <2>1, <2>2, ReturnsAtOnce
<1>6. CASE n > 0 /\ n <= 64 /\ ~(BitsLeft < n)
  <2>1. Enter(n) /\ UNCHANGED outcome
    BY <1>1, <1>6 DEF ReadBits
  <2>2. /\ path = "none" /\ todo = 0 /\ todo' = 0 /\ start' = bitPos /\ want' = n
        /\ bytes' = <<>> /\ n \in 1 .. 64
    BY <1>1, <1>6 DEF Ask, Idle, Inv
  <2>3. bytes' = Slice(start', bitPos) /\ bytes' \in Seq(Bit)
    BY <2>2, Positions, SliceEmpty
  <2>4. start' \in Nat /\ start' <= bitPos /\ want' \in Int /\ start' + want' <= totalBits
    BY <1>1, <1>2, <1>6, <2>2, Positions
  <2>5. IF todo' > 0 THEN n = 8 /\ bitPos + 8 * todo' = start' + want'
                     ELSE start' = bitPos /\ want' = n /\ bytes' = <<>>
    BY <2>2
  <2>6. todo' \in Nat
    BY <2>2
  <2>7. UNCHANGED <<data, bitPos, outcome>>
    BY <1>1, <2>1
  <2> QED BY <2>1, <2>2, <2>3, <2>4, <2>5, <2>6, <2>7, EnterInv
<1> QED BY <1>1, <1>3, <1>4, <1>5, <1>6

LEMMA ReadBytesInv == ASSUME Inv, NEW count \in Counts, ReadBytes(count) PROVE Inv'
<1>1. count \in Int /\ 8 * count \in Int /\ Ask(8 * count) /\ UNCHANGED <<data, loop>>
  BY ReaderAssumption DEF ReadBytes
<1>2. /\ BitsLeft = totalBits - bitPos /\ path = "none" /\ todo = 0 /\ bytes = <<>>
      /\ start' = bitPos /\ want' = 8 * count
  BY <1>1 DEF BitsLeft, Ask, Idle, Inv
<1>3. CASE count < 0
  <2>1. outcome' = [status |-> "invalid", bits |-> <<>>] /\ UNCHANGED <<bitPos, todo, bytes>>
    BY <1>1, <1>3 DEF ReadBytes, Error
  <2> QED BY <1>1, <2>1, ReturnsAtOnce
<1>4. CASE count = 0
  <2>1. outcome' = [status |-> "ok", bits |-> <<>>] /\ UNCHANGED <<bitPos, todo, bytes>>
    BY <1>1, <1>4 DEF ReadBytes, Ok
  <2>2. 8 * count = 0 /\ Slice(bitPos, bitPos + 8 * count) = <<>> /\ bitPos + 8 * count = bitPos
    BY <1>4, Positions, SliceEmpty
  <2> QED BY <1>1, <2>1, <2>2, Positions, ReturnsAtOnce
<1>5. CASE count > 0 /\ BitsLeft < count * 8
  <2>1. outcome' = [status |-> "eof", bits |-> <<>>] /\ UNCHANGED <<bitPos, todo, bytes>>
    <3>1. BitsLeft \in Int /\ ~(count < 0) /\ count # 0 /\ ~(BitsLeft >= count * 8)
      BY <1>1, <1>2, <1>5, Positions
    <3> QED BY <1>5, <3>1 DEF ReadBytes, Error
  <2>2. 8 * count > totalBits - bitPos
    BY <1>1, <1>2, <1>5, Positions
  <2> QED BY <1>1, <2>1, <2>2, ReturnsAtOnce
<1>6. CASE count > 0 /\ BitsLeft >= count * 8 /\ bitPos % 8 = 0
  <2> DEFINE n == bitPos \div 8
  <2>1. n \in Nat /\ 8 * n = bitPos /\ n + count <= Len(data) /\ count \in Nat
    BY <1>1, <1>2, <1>6, Positions
  <2>2. /\ outcome' = [status |-> "ok", bits |-> AllBits(SubSeq(data, n + 1, n + count))]
        /\ bitPos' = bitPos + 8 * count /\ UNCHANGED <<todo, bytes>>
    BY <1>1, <1>2, <1>6, Positions DEF ReadBytes, Ok
  <2> HIDE DEF n
  <2>3. AllBits(SubSeq(data, n + 1, n + count)) = Slice(bitPos, bitPos + 8 * count)
    BY <1>6, <2>1, Positions, SliceBytes
  <2>4. 8 * count \in Nat /\ bitPos + 8 * count \in Nat /\ bitPos + 8 * count <= totalBits
    BY <1>2, <1>6, <2>1, Positions
  <2>5. Slice(bitPos, bitPos + 8 * count) \in Seq(Bit)
    BY <2>4, Positions, SliceLength
  <2> QED BY <1>1, <2>2, <2>3, <2>4, <2>5, ReturnsAtOnce
<1>7. CASE count > 0 /\ BitsLeft >= count * 8 /\ bitPos % 8 # 0
  <2>1. /\ todo' = count /\ bytes' = <<>> /\ UNCHANGED <<data, loop, bitPos, outcome>>
    BY <1>1, <1>2, <1>7, Positions DEF ReadBytes
  <2>2. /\ path' = "none" /\ data' = data /\ bitPos' = bitPos /\ totalBits' = totalBits /\ ~Idle'
        /\ From' = bitPos' /\ count \in Nat
    BY <1>1, <1>2, <1>7, <2>1 DEF loop, totalBits, Idle, From
  <2>3. TypeOK'
    BY <1>1, <1>2, <2>1, <2>2, Positions DEF TypeOK, Inv, loop
  <2>4. Slice(bitPos, bitPos) = <<>>
    BY Positions, SliceEmpty
  <2>5. bytes' = Slice(start, From)' /\ start' <= From'
    BY <1>2, <2>1, <2>2, <2>4, Positions DEF Slice
  <2>6. From' + Ahead' = start' + want' /\ start' + want' <= totalBits'
    BY <1>2, <1>7, <2>1, <2>2, Positions DEF Ahead
  <2>7. bitPos' <= totalBits' /\ todo' # 0
    BY <1>7, <2>1, <2>2, Positions
  <2> QED BY <2>2, <2>3, <2>5, <2>6, <2>7 DEF Inv, InLoop, InCall, Returned, FailsUpFront
<1> QED BY <1>1, <1>2, <1>3, <1>4, <1>5, <1>6, <1>7, Positions

LEMMA ReadNextByteInv == ASSUME Inv, ReadNextByte PROVE Inv'
<1>1. /\ path = "none" /\ todo > 0 /\ Enter(8) /\ 8 \in 1 .. 64
      /\ UNCHANGED <<data, bitPos, todo, bytes, outcome, start, want>>
  BY DEF ReadNextByte
<1>2. /\ start <= bitPos /\ bytes = Slice(start, bitPos)
      /\ bitPos + 8 * todo = start + want /\ start + want <= totalBits
  BY <1>1, Positions DEF Inv, InCall, Idle, From, Ahead
<1>3. bytes \in Seq(Bit)
  BY DEF Inv, TypeOK
<1> QED BY <1>1, <1>2, <1>3, Positions, EnterInv

(* Byte j of a field of m bits at pos, both whole bytes, of L bytes. *)
LEMMA WholeByte ==
  ASSUME NEW pos \in Nat, NEW j \in Nat, NEW m \in 1 .. 64, NEW L \in Nat,
         pos % 8 = 0, m % 8 = 0, j < m \div 8, pos + m <= 8 * L,
         NEW k, k = (pos \div 8) + j
  PROVE  /\ 8 * k = pos + 8 * j /\ k \in 0 .. L - 1 /\ 8 * (j + 1) <= m
         /\ 8 * k + 8 = pos + 8 * (j + 1) /\ pos + 8 * (j + 1) <= 8 * L
<1>1. pos = 8 * (pos \div 8) /\ (pos \div 8) \in Nat
  OBVIOUS
<1>2. m = 8 * (m \div 8) /\ (m \div 8) \in Nat
  OBVIOUS
<1>3. j + 1 <= m \div 8
  BY <1>2
<1>4. 8 * k = pos + 8 * j /\ k \in Nat
  BY <1>1
<1>5. 8 * (j + 1) <= m /\ 8 * (j + 1) = 8 * j + 8
  BY <1>2, <1>3
<1>6. 8 * k + 8 <= 8 * L
  BY <1>4, <1>5
<1>7. k <= L - 1
  BY <1>4, <1>6
<1> QED BY <1>4, <1>5, <1>6, <1>7

LEMMA FastByteInv == ASSUME Inv, FastByte PROVE Inv'
<1> DEFINE n == (bitPos \div 8) + i
<1>1. /\ path = "fast" /\ i < numBits \div 8 /\ i' = i + 1
      /\ UNCHANGED <<data, bitPos, path, numBits, todo, bytes, outcome, start, want>>
      /\ res' = res \o [k \in 1 .. 8 |-> data[n + 1][k - 1]]
  BY DEF FastByte
<1>2. /\ numBits \in 1 .. 64 /\ From = bitPos /\ bitPos + numBits <= totalBits
      /\ numBits % 8 = 0 /\ bitPos % 8 = 0 /\ res = Slice(bitPos, bitPos + 8 * i)
  BY <1>1, Inside DEF From, Inv, InLoop, FastHolds
<1>3. /\ 8 * n = bitPos + 8 * i /\ n \in 0 .. Len(data) - 1 /\ 8 * i' <= numBits
      /\ 8 * n + 8 = bitPos + 8 * i' /\ bitPos + 8 * i' <= totalBits
  <2>1. i' = i + 1 /\ i < numBits \div 8 /\ n = (bitPos \div 8) + i
    BY <1>1
  <2>2. bitPos \in Nat /\ i \in Nat /\ Len(data) \in Nat /\ bitPos + numBits <= 8 * Len(data)
    BY <1>2, Positions
  <2>3. numBits \in 1 .. 64 /\ numBits % 8 = 0 /\ bitPos % 8 = 0 /\ totalBits = 8 * Len(data)
    BY <1>2, Positions
  <2> HIDE DEF n
  <2> QED BY <2>1, <2>2, <2>3, WholeByte
<1> HIDE DEF n
<1>4. res' = Slice(bitPos, bitPos + 8 * i')
  <2> DEFINE byte == [k \in 1 .. 8 |-> data[n + 1][k - 1]]
  <2>1. byte = Slice(bitPos + 8 * i, bitPos + 8 * i')
    <3>1. byte = Slice(8 * n, 8 * n + 8)
      BY <1>3, Positions, SliceByte
    <3> QED BY <1>3, <3>1
  <2>2. /\ bitPos + 8 * i \in Nat /\ bitPos + 8 * i' \in Nat
        /\ bitPos <= bitPos + 8 * i /\ bitPos + 8 * i <= bitPos + 8 * i'
    BY <1>1, Positions
  <2>3. res' = res \o byte
    BY <1>1
  <2> HIDE DEF byte
  <2>4. Slice(bitPos, bitPos + 8 * i) \o Slice(bitPos + 8 * i, bitPos + 8 * i')
          = Slice(bitPos, bitPos + 8 * i')
    BY <1>3, <2>2, Positions, SliceJoin
  <2> QED BY <1>2, <2>1, <2>3, <2>4
<1>5. res' \in Seq(Bit)
  <2>1. 8 * i' \in Nat /\ bitPos + 8 * i' \in Nat
    BY <1>1, Positions
  <2> QED BY <1>3, <1>4, <2>1, Positions, SliceLength
<1>6. TypeOK'
  BY <1>1, <1>5, Positions DEF TypeOK, Inv
<1>7. /\ totalBits' = totalBits /\ From' = From /\ Ahead' = Ahead /\ ~Idle /\ ~Idle'
  BY <1>1 DEF totalBits, From, Ahead, Idle
<1>8. FastHolds'
  BY <1>1, <1>2, <1>3, <1>4 DEF FastHolds, Slice
<1>9. InLoop'
  BY <1>1, <1>2, <1>7, <1>8 DEF InLoop, Inv
<1>10. InCall'
  BY <1>1, <1>7 DEF InCall, Slice, Inv
<1> QED BY <1>1, <1>6, <1>7, <1>9, <1>10 DEF Inv, Returned, FailsUpFront

(* The error branch of the slow loop never runs: the field is inside. *)
LEMMA SlowBitInv == ASSUME Inv, SlowBit PROVE Inv'
<1>1. /\ path = "slow" /\ i < numBits /\ UNCHANGED <<data, numBits, start, want>>
  BY DEF SlowBit
<1>2. /\ numBits \in 1 .. 64 /\ From = bitPos - i /\ From \in Nat /\ From + numBits <= totalBits
      /\ i <= bitPos /\ res = Slice(bitPos - i, bitPos)
  BY <1>1, Inside DEF From, Inv, InLoop, SlowHolds
<1>3. bitPos < totalBits /\ bitPos - i \in Nat /\ bitPos - i <= bitPos
  BY <1>1, <1>2, Positions
<1>4. /\ res' = Append(res, At(data, bitPos)) /\ bitPos' = bitPos + 1 /\ i' = i + 1
      /\ UNCHANGED <<outcome, path, todo, bytes>>
  BY <1>3, Positions DEF SlowBit
<1>5. /\ bitPos' \in Nat /\ i' \in Nat /\ bitPos' <= totalBits /\ bitPos' - i' = bitPos - i
      /\ i' <= bitPos' /\ i' <= numBits
  <2>1. bitPos' = bitPos + 1 /\ i' = i + 1 /\ i <= bitPos /\ i < numBits /\ bitPos < totalBits
    BY <1>1, <1>2, <1>3, <1>4
  <2>2. bitPos \in Nat /\ i \in Nat /\ totalBits \in Nat /\ numBits \in Int
    BY Positions
  <2> QED BY <2>1, <2>2
<1>6. res' = Slice(bitPos - i, bitPos')
  BY <1>2, <1>3, <1>4, Positions, SliceAppend
<1>7. res' \in Seq(Bit)
  <2>1. bitPos - i <= bitPos'
    BY <1>3, <1>4, Positions
  <2> QED BY <1>3, <1>5, <1>6, <2>1, Positions, SliceType
<1>8. TypeOK'
  BY <1>1, <1>4, <1>5, <1>7, Positions DEF TypeOK, Inv
<1>9. /\ totalBits' = totalBits /\ From' = From /\ Ahead' = Ahead /\ ~Idle /\ ~Idle'
  BY <1>1, <1>2, <1>4, <1>5 DEF totalBits, From, Ahead, Idle
<1>10. SlowHolds'
  BY <1>1, <1>5, <1>6 DEF SlowHolds, Slice
<1>11. InLoop'
  BY <1>1, <1>2, <1>4, <1>9, <1>10 DEF InLoop, Inv
<1>12. InCall'
  BY <1>1, <1>4, <1>9 DEF InCall, Slice, Inv
<1> QED BY <1>1, <1>4, <1>5, <1>8, <1>9, <1>11, <1>12 DEF Inv, Returned, FailsUpFront

(* A loop that took all its bits hands them over. *)
LEMMA ReturnInv ==
  ASSUME Inv, path # "none", Return, bitPos' = From + numBits, res = Slice(From, From + numBits)
  PROVE  Inv'
<1>1. /\ path' = "none" /\ UNCHANGED <<data, numBits, i, res, start, want>>
  BY DEF Return
<1>2. /\ numBits \in 1 .. 64 /\ From \in Nat /\ start <= From
      /\ From + numBits <= totalBits /\ bytes = Slice(start, From)
      /\ todo = 0 => start = From /\ want = numBits /\ bytes = <<>>
      /\ todo > 0 => numBits = 8 /\ From + 8 * todo = start + want
      /\ start + want <= totalBits
  BY Inside
<1>3. /\ totalBits' = totalBits /\ bitPos' \in Nat /\ bitPos' <= totalBits' /\ start <= bitPos'
  BY <1>1, <1>2, Positions DEF totalBits
<1>4. bytes \o res = Slice(start, bitPos')
  <2>1. From <= bitPos' /\ bitPos' <= totalBits
    BY <1>1, <1>2, <1>3
  <2> QED BY <1>2, <1>3, <2>1, Positions, SliceJoin
<1>5. Slice(start, bitPos') \in Seq(Bit)
  BY <1>1, <1>3, Positions, SliceType DEF totalBits
<1>6. res \in Seq(Bit) /\ Slice(start, bitPos)' = Slice(start, bitPos')
  BY <1>1 DEF Inv, TypeOK, Slice
<1>7. CASE todo = 0
  <2>1. outcome' = [status |-> "ok", bits |-> res] /\ todo' = 0 /\ bytes' = <<>> /\ Idle'
    BY <1>1, <1>2, <1>7 DEF Return, Ok, Idle
  <2>2. TypeOK'
    BY <1>1, <1>3, <1>6, <2>1, Positions DEF TypeOK, Inv
  <2>3. res = Slice(start, bitPos')
    BY <1>2, <1>7
  <2>4. Returned'
    BY <1>1, <1>3, <1>6, <2>1, <2>3 DEF Returned
  <2>5. FailsUpFront'
    <3>1. outcome'.status = "ok" /\ bitPos' = start' + want' /\ ~(want' > totalBits' - start')
      BY <1>1, <1>2, <1>3, <1>7, <2>1, Positions
    <3> QED BY <3>1 DEF FailsUpFront
  <2> QED BY <1>1, <1>3, <2>1, <2>2, <2>4, <2>5 DEF Inv, InLoop, InCall
<1>8. CASE todo = 1
  <2>1. outcome' = [status |-> "ok", bits |-> Slice(start, bitPos')] /\ todo' = 0 /\ bytes' = <<>> /\ Idle'
    <3>1. todo' = todo - 1 /\ outcome' = [status |-> "ok", bits |-> bytes \o res] /\ bytes' = <<>>
      BY <1>8 DEF Return, Ok
    <3>2. todo' = 0
      BY <1>8, <3>1
    <3> QED BY <1>1, <1>4, <3>1, <3>2 DEF Idle
  <2>2. TypeOK'
    BY <1>1, <1>3, <1>5, <1>6, <2>1, Positions DEF TypeOK, Inv
  <2>3. Returned'
    BY <1>1, <1>3, <1>6, <2>1 DEF Returned
  <2>4. FailsUpFront'
    <3>1. outcome'.status = "ok" /\ bitPos' = start' + want' /\ ~(want' > totalBits' - start')
      BY <1>1, <1>2, <1>3, <1>8, <2>1, Positions
    <3> QED BY <3>1 DEF FailsUpFront
  <2> QED BY <1>1, <1>3, <2>1, <2>2, <2>3, <2>4 DEF Inv, InLoop, InCall
<1>9. CASE todo > 1
  <2>1. todo' = todo - 1 /\ bytes' = bytes \o res /\ outcome' = outcome
    BY <1>9, Positions DEF Return
  <2>2. todo' \in Nat /\ todo' > 0 /\ ~Idle' /\ bytes' \in Seq(Bit)
    BY <1>4, <1>5, <1>9, <2>1, Positions DEF Idle
  <2>3. TypeOK'
    BY <1>1, <1>3, <1>6, <2>1, <2>2, Positions DEF TypeOK, Inv
  <2>4. From' = bitPos' /\ Ahead' = 8 * todo'
    BY <1>1, <2>2 DEF From, Ahead
  <2>5. start' <= From' /\ bytes' = Slice(start, From)'
    BY <1>1, <1>3, <1>4, <2>1, <2>4 DEF Slice
  <2>6. From' + Ahead' = start' + want' /\ start' + want' <= totalBits'
    <3>0. numBits = 8 /\ From + 8 * todo = start + want
      BY <1>2, <1>9, Positions
    <3>1. numBits = 8 /\ From + 8 * todo = start + want /\ 8 * todo' = 8 * todo - 8
      BY <2>1, <3>0, Positions
    <3>2. From' = From + 8 /\ Ahead' = 8 * todo - 8
      BY <2>4, <3>1
    <3>3. From \in Nat /\ start + want <= totalBits
      BY <1>2
    <3>4. start' = start /\ want' = want /\ totalBits' = totalBits
      BY <1>1, <1>3
    <3> QED BY <3>1, <3>2, <3>3, <3>4, Positions
  <2> QED BY <1>1, <1>3, <2>2, <2>3, <2>5, <2>6 DEF Inv, InLoop, InCall, Returned, FailsUpFront
<1> QED BY <1>7, <1>8, <1>9, Positions

LEMMA FastEndInv == ASSUME Inv, FastEnd PROVE Inv'
<1>1. path = "fast" /\ i >= numBits \div 8 /\ bitPos' = bitPos + numBits /\ Return
  BY DEF FastEnd
<1>2. /\ From = bitPos /\ numBits \in 1 .. 64 /\ 8 * i <= numBits /\ numBits % 8 = 0
      /\ res = Slice(bitPos, bitPos + 8 * i)
  BY <1>1, Inside DEF From, Inv, InLoop, FastHolds
<1>3. 8 * i = numBits
  BY <1>1, <1>2, Positions
<1> QED BY <1>1, <1>2, <1>3, ReturnInv

LEMMA SlowEndInv == ASSUME Inv, SlowEnd PROVE Inv'
<1>1. path = "slow" /\ i >= numBits /\ bitPos' = bitPos /\ Return
  BY DEF SlowEnd
<1>2. /\ From = bitPos - i /\ numBits \in 1 .. 64 /\ i <= numBits
      /\ res = Slice(bitPos - i, bitPos)
  BY <1>1, Inside DEF From, Inv, InLoop, SlowHolds
<1>3. From + numBits = bitPos
  BY <1>1, <1>2, Positions
<1> QED BY <1>1, <1>2, <1>3, ReturnInv

LEMMA InvNext == Inv /\ [Next]_vars => Inv'
<1> SUFFICES ASSUME Inv, [Next]_vars PROVE Inv'
  OBVIOUS
<1>1. CASE ReadBit
  BY <1>1, ReadBitInv
<1>2. ASSUME NEW n \in Widths, ReadBits(n) PROVE Inv'
  BY <1>2, ReadBitsInv
<1>3. ASSUME NEW count \in Counts, ReadBytes(count) PROVE Inv'
  BY <1>3, ReadBytesInv
<1>4. CASE AlignToByte
  BY <1>4, AlignToByteInv
<1>5. CASE FastByte
  BY <1>5, FastByteInv
<1>6. CASE FastEnd
  BY <1>6, FastEndInv
<1>7. CASE SlowBit
  BY <1>7, SlowBitInv
<1>8. CASE SlowEnd
  BY <1>8, SlowEndInv
<1>9. CASE ReadNextByte
  BY <1>9, ReadNextByteInv
<1>10. CASE UNCHANGED vars
  BY <1>10 DEF vars, Inv, TypeOK, totalBits, InLoop, FastHolds, SlowHolds, From, Slice, InCall,
               Ahead, Idle, Returned, FailsUpFront
<1> QED BY <1>1, <1>2, <1>3, <1>4, <1>5, <1>6, <1>7, <1>8, <1>9, <1>10 DEF Next, Call, Iteration

(* What the invariant says of a call that has returned and of every loop. *)
LEMMA InvInOrder == Inv => InOrder
<1> SUFFICES ASSUME Inv PROVE InOrder
  OBVIOUS
<1>1. CASE path = "none"
  <2>1. Position = bitPos
    BY <1>1 DEF Position
  <2>2. ~(Idle /\ outcome.status # "ok") => Taken = Slice(start, bitPos)
    <3>1. CASE Idle
      BY <3>1 DEF Taken, Inv, Returned
    <3>2. CASE ~Idle
      BY <1>1, <3>2 DEF Taken, Inv, InCall, From
    <3> QED BY <3>1, <3>2
  <2> QED BY <2>1, <2>2, Positions DEF InOrder, Slice
<1>2. CASE path = "fast"
  <2>1. /\ From = bitPos /\ numBits \in 1 .. 64 /\ From + numBits <= totalBits
        /\ bytes = Slice(start, bitPos) /\ start <= bitPos
        /\ 8 * i <= numBits /\ res = Slice(bitPos, bitPos + 8 * i)
    BY <1>2, Inside DEF From, Inv, InLoop, FastHolds
  <2>2. Position = bitPos + 8 * i /\ Taken = bytes \o res /\ Position <= totalBits
    BY <1>2, <2>1, Positions DEF Position, Taken, Idle
  <2>3. bitPos + 8 * i \in Nat /\ bitPos <= bitPos + 8 * i
    BY Positions
  <2>4. bytes \o res = Slice(start, bitPos + 8 * i)
    BY <2>1, <2>2, <2>3, Positions, SliceJoin
  <2> QED BY <2>2, <2>4 DEF InOrder, Slice
<1>3. CASE path = "slow"
  <2>1. /\ From = bitPos - i /\ From \in Nat /\ bytes = Slice(start, From) /\ start <= From
        /\ res = Slice(From, bitPos)
    BY <1>3, Inside DEF From, Inv, InLoop, SlowHolds
  <2>2. Position = bitPos /\ Taken = bytes \o res /\ From <= bitPos
    BY <1>3, <2>1, Positions DEF Position, Taken, Idle
  <2>3. bytes \o res = Slice(start, bitPos)
    BY <2>1, <2>2, Positions, SliceJoin
  <2> QED BY <2>2, <2>3, Positions DEF InOrder, Slice
<1> QED BY <1>1, <1>2, <1>3 DEF Inv, TypeOK

LEMMA ReaderInv == Spec => []Inv
BY InvInit, InvNext, PTL DEF Spec

(* Every field of the reader and every local of its loops keeps its type. *)
THEOREM ReaderTypeOK == Spec => []TypeOK
<1>1. Inv => TypeOK
  BY DEF Inv
<1> QED BY <1>1, ReaderInv, PTL

(* ReadBit, ReadBits, ReadBytes and AlignToByte deliver the bits of the    *)
(* input from where the call started, each once and in order, on either    *)
(* path, and never look past its end.                                      *)
THEOREM ReaderInOrder == Spec => []InOrder
BY InvInOrder, ReaderInv, PTL

(* A call that fails has consumed nothing, and fails exactly when too few  *)
(* bits are left or its argument is out of range: the error branches       *)
(* inside the two loops are dead code.                                     *)
THEOREM ReaderFailsUpFront == Spec => []FailsUpFront
<1>1. Inv => FailsUpFront
  BY DEF Inv
<1> QED BY <1>1, ReaderInv, PTL
=============================================================================
