--------------------------- MODULE BitWriter_proofs ---------------------------
(***************************************************************************)
(* For every word, width, byte slice and bound: BitWriter keeps its buffer *)
(* in shape and writes what it is asked to write.                          *)
(***************************************************************************)
EXTENDS BitWriter, TLAPS, SequenceTheorems

(* The inductive invariant: the parts are stated in BitWriter.  Faithful   *)
(* alone is not inductive, since it says nothing while a call is active.   *)
Inv == TypeOK /\ BufferFits /\ PaddingZero /\ OnTrack

-----------------------------------------------------------------------------
(* Bits of words and bytes are bits. *)
LEMMA BitAtType ==
  ASSUME NEW v \in Word, NEW k \in Nat
  PROVE  BitAt(v, k) \in Bit
BY DEF BitAt, Word, Bit, WordSize

LEMMA ByteAtType ==
  ASSUME NEW v \in Word, NEW k \in Nat
  PROVE  ByteAt(v, k) \in Byte
BY BitAtType DEF ByteAt, Byte

LEMMA WordOfType ==
  ASSUME NEW byte \in Byte
  PROVE  /\ WordOf(byte) \in Word
         /\ \A k \in 0 .. 7 : BitAt(WordOf(byte), 7 - k) = byte[k]
BY DEF WordOf, Word, Byte, Bit, BitAt, WordSize

(* Where a bit lies in a buffer. *)
LEMMA AtType ==
  ASSUME NEW d \in Seq(Byte), NEW k \in 0 .. 8 * Len(d) - 1
  PROVE  /\ At(d, k) \in Bit
         /\ (k \div 8) + 1 \in 1 .. Len(d)
         /\ k % 8 \in 0 .. 7
<1>1. (k \div 8) + 1 \in 1 .. Len(d) /\ k % 8 \in 0 .. 7
  OBVIOUS
<1>2. d[(k \div 8) + 1] \in Byte
  BY <1>1
<1> QED BY <1>1, <1>2 DEF At, Byte

LEMMA StreamType ==
  ASSUME NEW d \in Seq(Byte), NEW n \in 0 .. 8 * Len(d)
  PROVE  /\ Stream(d, n) \in Seq(Bit)
         /\ Len(Stream(d, n)) = n
         /\ \A k \in 0 .. n - 1 : Stream(d, n)[k + 1] = At(d, k)
<1>1. \A k \in 1 .. n : At(d, k - 1) \in Bit
  BY AtType
<1> QED BY <1>1 DEF Stream

LEMMA FieldBitsType ==
  ASSUME NEW v \in Word, NEW n \in Nat
  PROVE  /\ FieldBits(v, n) \in Seq(Bit)
         /\ Len(FieldBits(v, n)) = n
         /\ \A k \in 0 .. n - 1 : FieldBits(v, n)[k + 1] = BitAt(v, n - 1 - k)
<1>1. \A k \in 1 .. n : BitAt(v, n - k) \in Bit
  BY BitAtType
<1> QED BY <1>1 DEF FieldBits

(* Appending a byte, or a slice, leaves the bits before it alone. *)
LEMMA ConcatAt ==
  ASSUME NEW d \in Seq(Byte), NEW e \in Seq(Byte)
  PROVE  /\ d \o e \in Seq(Byte)
         /\ 8 * Len(d \o e) = 8 * Len(d) + 8 * Len(e)
         /\ \A k \in 0 .. 8 * Len(d) - 1 : At(d \o e, k) = At(d, k)
         /\ \A k \in 0 .. 8 * Len(e) - 1 : At(d \o e, 8 * Len(d) + k) = At(e, k)
<1>1. d \o e \in Seq(Byte) /\ Len(d \o e) = Len(d) + Len(e)
  OBVIOUS
<1>2. ASSUME NEW k \in 0 .. 8 * Len(d) - 1
      PROVE  At(d \o e, k) = At(d, k)
  BY AtType DEF At
<1>3. ASSUME NEW k \in 0 .. 8 * Len(e) - 1
      PROVE  At(d \o e, 8 * Len(d) + k) = At(e, k)
  <2>1. /\ (8 * Len(d) + k) \div 8 = Len(d) + (k \div 8)
        /\ (8 * Len(d) + k) % 8 = k % 8
    OBVIOUS
  <2>2. (k \div 8) + 1 \in 1 .. Len(e)
    BY AtType
  <2>3. (d \o e)[Len(d) + (k \div 8) + 1] = e[(k \div 8) + 1]
    BY <2>2
  <2> QED BY <2>1, <2>3 DEF At
<1> QED BY <1>1, <1>2, <1>3

LEMMA AppendAt ==
  ASSUME NEW d \in Seq(Byte), NEW byte \in Byte
  PROVE  /\ Append(d, byte) \in Seq(Byte)
         /\ Len(Append(d, byte)) = Len(d) + 1
         /\ \A k \in 0 .. 8 * Len(d) - 1 : At(Append(d, byte), k) = At(d, k)
         /\ \A k \in 0 .. 7 : At(Append(d, byte), 8 * Len(d) + k) = byte[k]
<1>1. \A k \in 0 .. 8 * Len(d) - 1 : At(Append(d, byte), k) = At(d, k)
  BY AtType DEF At
<1>2. \A k \in 0 .. 7 : (8 * Len(d) + k) \div 8 = Len(d) /\ (8 * Len(d) + k) % 8 = k
  OBVIOUS
<1> QED BY <1>1, <1>2 DEF At

(* How the length in bytes follows from the length in bits. *)
LEMMA WholeBytes ==
  \A L, m \in Nat : m <= 8 * L /\ 8 * L < m + 8 =>
    /\ m % 8 = 0 => 8 * L = m
    /\ m % 8 # 0 => 8 * L = m + (8 - (m % 8))
OBVIOUS

(* WriteBit: bit n of the stream becomes b, the others stay, and the rest  *)
(* of the last byte stays 0.                                               *)
LEMMA PutBitAt ==
  ASSUME NEW d \in Seq(Byte), NEW n \in Nat, NEW b \in Bit,
         n <= 8 * Len(d), 8 * Len(d) < n + 8,
         \A k \in n .. 8 * Len(d) - 1 : At(d, k) = 0
  PROVE  LET e == PutBit(d, n, b)
         IN  /\ e \in Seq(Byte)
             /\ n + 1 <= 8 * Len(e) /\ 8 * Len(e) < n + 9
             /\ \A k \in 0 .. n - 1 : At(e, k) = At(d, k)
             /\ At(e, n) = b
             /\ \A k \in n + 1 .. 8 * Len(e) - 1 : At(e, k) = 0
<1> DEFINE g    == IF n % 8 = 0 THEN Append(d, ZeroByte) ELSE d
           last == g[Len(g)]
           new  == IF b = 1 THEN [last EXCEPT ![n % 8] = 1] ELSE last
           e    == [g EXCEPT ![Len(g)] = new]
<1>1. ZeroByte \in Byte
  BY DEF ZeroByte, Byte, Bit
<1>2. /\ g \in Seq(Byte)
      /\ Len(g) = (n \div 8) + 1
      /\ \A k \in 0 .. n - 1 : At(g, k) = At(d, k)
      /\ \A k \in n .. 8 * Len(g) - 1 : At(g, k) = 0
  <2>1. CASE n % 8 = 0
    <3>0. Len(d) \in Nat
      OBVIOUS
    <3>1. 8 * Len(d) = n
      BY <2>1, <3>0, WholeBytes
    <3>2. \A k \in n .. 8 * Len(g) - 1 : At(g, k) = 0
      <4>1. \A j \in 0 .. 7 : At(g, n + j) = 0
        BY <1>1, <2>1, <3>1, AppendAt DEF ZeroByte
      <4>2. 8 * Len(g) = n + 8 /\ Len(g) \in Nat
        BY <1>1, <2>1, <3>0, <3>1, AppendAt
      <4> HIDE DEF g
      <4>3. \A k \in n .. 8 * Len(g) - 1 : k - n \in 0 .. 7 /\ k = n + (k - n)
        BY <4>2
      <4> QED BY <4>1, <4>3
    <3> QED BY <1>1, <2>1, <3>1, <3>2, AppendAt
  <2>2. CASE n % 8 # 0
    BY <2>2
  <2> QED BY <2>1, <2>2
<1> HIDE DEF g
<1>3. last \in Byte /\ n % 8 \in 0 .. 7 /\ Len(g) \in 1 .. Len(g)
  BY <1>2
<1>4. /\ new \in Byte
      /\ new[n % 8] = (IF b = 1 THEN 1 ELSE last[n % 8])
      /\ \A j \in 0 .. 7 : j # n % 8 => new[j] = last[j]
  BY <1>3 DEF Byte, Bit
<1> HIDE DEF new
<1>5. /\ e \in Seq(Byte) /\ Len(e) = Len(g)
      /\ e[Len(g)] = new
      /\ \A j \in 1 .. Len(g) : j # Len(g) => e[j] = g[j]
  BY <1>2, <1>3, <1>4
<1> HIDE DEF e
<1>6. ASSUME NEW k \in 0 .. 8 * Len(g) - 1, k # n
      PROVE  At(e, k) = At(g, k)
  <2>1. (k \div 8) + 1 \in 1 .. Len(g) /\ k % 8 \in 0 .. 7
    BY <1>2, AtType
  <2>2. CASE (k \div 8) + 1 = Len(g)
    <3>1. k % 8 # n % 8
      BY <1>2, <1>6, <2>2
    <3> QED BY <1>4, <1>5, <2>1, <2>2, <3>1 DEF At
  <2>3. CASE (k \div 8) + 1 # Len(g)
    BY <1>5, <2>1, <2>3 DEF At
  <2> QED BY <2>2, <2>3
<1>7. At(e, n) = b
  <2>1. At(g, n) = 0
    BY <1>2
  <2>2. last[n % 8] = 0
    BY <1>2, <2>1 DEF At
  <2>3. e[(n \div 8) + 1][n % 8] = b
    BY <1>2, <1>4, <1>5, <2>2 DEF Bit
  <2> QED BY <2>3 DEF At
<1>8. /\ e \in Seq(Byte)
      /\ n + 1 <= 8 * Len(e) /\ 8 * Len(e) < n + 9
      /\ \A k \in 0 .. n - 1 : At(e, k) = At(d, k)
      /\ At(e, n) = b
      /\ \A k \in n + 1 .. 8 * Len(e) - 1 : At(e, k) = 0
  BY <1>2, <1>5, <1>6, <1>7
<1>9. e = PutBit(d, n, b)
  BY DEF e, g, last, new, PutBit
<1> QED BY <1>8, <1>9

-----------------------------------------------------------------------------
(* What a call adds to asked, while no other call is active. *)
LEMMA AskAppends ==
  ASSUME Inv, NEW bits \in Seq(Bit), Ask(bits)
  PROVE  /\ asked' \in Seq(Bit) /\ calls' \in Nat
         /\ Len(asked') = bitLen + Len(bits)
         /\ \A k \in 0 .. bitLen - 1 : asked'[k + 1] = At(data, k)
         /\ \A k \in 0 .. Len(bits) - 1 : asked'[bitLen + k + 1] = bits[k + 1]
<1>1. /\ Len(asked) = bitLen
      /\ \A k \in 0 .. bitLen - 1 : asked[k + 1] = At(data, k)
  BY DEF Inv, TypeOK, OnTrack, Ask, Idle, Written, Pending
<1>2. asked' = asked \o bits /\ calls' = calls + 1 /\ asked \in Seq(Bit) /\ calls \in Nat
  BY DEF Inv, TypeOK, Ask
<1>3. /\ asked' \in Seq(Bit) /\ Len(asked') = Len(asked) + Len(bits)
      /\ \A k \in 1 .. Len(asked) : asked'[k] = asked[k]
      /\ \A k \in 1 .. Len(bits) : asked'[Len(asked) + k] = bits[k]
  BY <1>2
<1>4. bitLen \in Nat /\ Len(bits) \in Nat
  BY DEF Inv, TypeOK
<1>5. \A k \in 0 .. Len(bits) - 1 : k + 1 \in 1 .. Len(bits) /\ bitLen + k + 1 = bitLen + (k + 1)
  BY <1>4
<1>6. \A k \in 0 .. bitLen - 1 : k + 1 \in 1 .. bitLen
  BY <1>4
<1> QED BY <1>1, <1>2, <1>3, <1>4, <1>5, <1>6

(* Whichever loop Enter chooses, it starts at the end of the buffer with   *)
(* all n bits pending.                                                     *)
LEMMA EnterStarts ==
  ASSUME Inv, path = "none", NEW v \in Word, NEW n \in Int, n > 0, Enter(v, n),
         UNCHANGED <<data, bitLen>>
  PROVE  /\ path' \in {"slow", "fast"} /\ val' = v /\ numBits' = n /\ i' \in Int
         /\ Written' = bitLen /\ Pending' = n
         /\ BufferFits' /\ PaddingZero'
<1>1. /\ Len(data) \in Nat /\ bitLen \in Nat
      /\ bitLen <= 8 * Len(data) /\ 8 * Len(data) < bitLen + 8
      /\ \A k \in bitLen .. 8 * Len(data) - 1 : At(data, k) = 0
  BY DEF Inv, TypeOK, BufferFits, PaddingZero, Written
<1>2. CASE bitLen % 8 = 0 /\ n % 8 = 0 /\ n <= 64
  <2>1. 8 * Len(data) = bitLen
    BY <1>1, <1>2, WholeBytes
  <2>2. path' = "fast" /\ i' = (n \div 8) - 1 /\ val' = v /\ numBits' = n
    BY <1>2 DEF Enter
  <2>3. 8 * (i' + 1) = n /\ i' \in Int
    BY <1>2, <2>2
  <2> QED BY <1>1, <1>2, <2>1, <2>2, <2>3 DEF Written, Pending, BufferFits, PaddingZero
<1>3. CASE ~(bitLen % 8 = 0 /\ n % 8 = 0 /\ n <= 64)
  <2>1. path' = "slow" /\ i' = n - 1 /\ val' = v /\ numBits' = n
    BY <1>3 DEF Enter
  <2> QED BY <1>1, <2>1 DEF Written, Pending, BufferFits, PaddingZero
<1> QED BY <1>2, <1>3

LEMMA InvInit == Init => Inv
<1> SUFFICES ASSUME Init PROVE Inv
  OBVIOUS
<1> QED BY DEF Init, Inv, TypeOK, BufferFits, PaddingZero, OnTrack, Written, Pending,
               Word, Bit, WordSize

LEMMA WriteBitInv ==
  ASSUME Inv, NEW b \in Bit, WriteBit(b)
  PROVE  Inv'
<1>1. Idle /\ Ask(<<b>>) /\ <<b>> \in Seq(Bit) /\ Len(<<b>>) = 1 /\ <<b>>[1] = b
  BY DEF WriteBit, Ask
<1>2. /\ data \in Seq(Byte) /\ bitLen \in Nat
      /\ bitLen <= 8 * Len(data) /\ 8 * Len(data) < bitLen + 8
      /\ \A k \in bitLen .. 8 * Len(data) - 1 : At(data, k) = 0
  BY <1>1 DEF Idle, Inv, TypeOK, BufferFits, PaddingZero, Written
<1>3. /\ data' = PutBit(data, bitLen, b) /\ bitLen' = bitLen + 1
      /\ UNCHANGED <<path, val, numBits, i, rest>>
  BY DEF WriteBit
<1>4. /\ data' \in Seq(Byte)
      /\ bitLen + 1 <= 8 * Len(data') /\ 8 * Len(data') < bitLen + 9
      /\ \A k \in 0 .. bitLen - 1 : At(data', k) = At(data, k)
      /\ At(data', bitLen) = b
      /\ \A k \in bitLen + 1 .. 8 * Len(data') - 1 : At(data', k) = 0
  BY <1>2, <1>3, PutBitAt
<1>5. /\ asked' \in Seq(Bit) /\ calls' \in Nat /\ Len(asked') = bitLen + 1
      /\ \A k \in 0 .. bitLen - 1 : asked'[k + 1] = At(data, k)
      /\ asked'[bitLen + 1] = b
  <2> DEFINE bits == <<b>>
  <2>1. bits \in Seq(Bit) /\ Len(bits) = 1 /\ bits[1] = b /\ Ask(bits)
    BY <1>1
  <2> HIDE DEF bits
  <2>2. /\ asked' \in Seq(Bit) /\ calls' \in Nat /\ Len(asked') = bitLen + Len(bits)
        /\ \A k \in 0 .. bitLen - 1 : asked'[k + 1] = At(data, k)
        /\ \A k \in 0 .. Len(bits) - 1 : asked'[bitLen + k + 1] = bits[k + 1]
    BY <2>1, AskAppends
  <2>3. asked'[bitLen + 0 + 1] = bits[0 + 1]
    BY <2>1, <2>2
  <2> QED BY <1>2, <2>1, <2>2, <2>3
<1>6. path' = "none" /\ rest' = <<>> /\ Written' = bitLen + 1 /\ Pending' = 0
  BY <1>1, <1>3 DEF Idle, Written, Pending
<1>7. TypeOK'
  BY <1>2, <1>3, <1>4, <1>5 DEF Inv, TypeOK
<1>8. BufferFits' /\ PaddingZero'
  BY <1>2, <1>3, <1>4, <1>6 DEF BufferFits, PaddingZero
<1>9. OnTrack'
  <2>1. \A k \in 0 .. bitLen : k \in 0 .. bitLen - 1 \/ k = bitLen
    BY <1>2
  <2>2. \A k \in 0 .. bitLen : asked'[k + 1] = At(data', k)
    BY <1>4, <1>5, <2>1
  <2> QED BY <1>2, <1>5, <1>6, <2>2 DEF OnTrack
<1> QED BY <1>7, <1>8, <1>9 DEF Inv

LEMMA WriteBitsInv ==
  ASSUME Inv, NEW v \in Words, NEW n \in Widths, WriteBits(v, n)
  PROVE  Inv'
<1>1. /\ v \in Word /\ n \in Int /\ n > 0 /\ n \in Nat
      /\ Ask(FieldBits(v, n)) /\ Idle /\ Enter(v, n)
      /\ UNCHANGED <<data, bitLen, rest>>
  BY WriterAssumption DEF WriteBits, Ask
<1>2. /\ path' \in {"slow", "fast"} /\ val' = v /\ numBits' = n /\ i' \in Int
      /\ Written' = bitLen /\ Pending' = n
      /\ BufferFits' /\ PaddingZero'
  BY <1>1, EnterStarts DEF Idle
<1>3. /\ FieldBits(v, n) \in Seq(Bit) /\ Len(FieldBits(v, n)) = n
      /\ \A k \in 0 .. n - 1 : FieldBits(v, n)[k + 1] = BitAt(v, n - 1 - k)
  BY <1>1, FieldBitsType
<1>4. /\ asked' \in Seq(Bit) /\ calls' \in Nat /\ Len(asked') = bitLen + n
      /\ \A k \in 0 .. bitLen - 1 : asked'[k + 1] = At(data, k)
      /\ \A k \in 0 .. n - 1 : asked'[bitLen + k + 1] = FieldBits(v, n)[k + 1]
  BY <1>1, <1>3, AskAppends
<1>5. TypeOK'
  BY <1>1, <1>2, <1>4 DEF Inv, TypeOK
<1>6. OnTrack'
  BY <1>1, <1>2, <1>3, <1>4 DEF OnTrack, Idle, Inv, TypeOK
<1> QED BY <1>2, <1>5, <1>6 DEF Inv

LEMMA FastByteInv ==
  ASSUME Inv, FastByte
  PROVE  Inv'
<1>1. /\ path = "fast" /\ i \in Nat /\ val \in Word
      /\ data' = Append(data, ByteAt(val, i)) /\ i' = i - 1
      /\ UNCHANGED <<bitLen, path, val, numBits, rest, asked, calls>>
      /\ data \in Seq(Byte) /\ bitLen \in Nat
  BY DEF FastByte, Inv, TypeOK
<1>2. ByteAt(val, i) \in Byte
  BY <1>1, ByteAtType
<1>3. /\ data' \in Seq(Byte)
      /\ Len(data') = Len(data) + 1
      /\ \A k \in 0 .. 8 * Len(data) - 1 : At(data', k) = At(data, k)
      /\ \A k \in 0 .. 7 : At(data', 8 * Len(data) + k) = ByteAt(val, i)[k]
  BY <1>1, <1>2, AppendAt
<1>4. /\ Written = 8 * Len(data) /\ Written' = Written + 8
      /\ Pending = 8 * (i + 1) /\ Pending' = Pending - 8 /\ Pending' = 8 * i
      /\ Written \in Nat /\ Pending' \in Nat
  <2>1. Written = 8 * Len(data) /\ Written' = 8 * Len(data')
    BY <1>1 DEF Written
  <2>2. Pending = 8 * (i + 1) /\ Pending' = 8 * (i' + 1)
    BY <1>1 DEF Pending
  <2>3. Len(data) \in Nat
    BY <1>1
  <2> QED BY <1>1, <1>3, <2>1, <2>2, <2>3
<1>5. TypeOK'
  BY <1>1, <1>3 DEF Inv, TypeOK
<1>6. BufferFits' /\ PaddingZero'
  <2>1. /\ Len(data) \in Nat /\ numBits \in Int /\ bitLen <= 8 * Len(data)
        /\ bitLen % 8 = 0 /\ 8 * Len(data) + Pending = bitLen + numBits
    BY <1>1 DEF Inv, TypeOK, BufferFits
  <2>2. BufferFits'
    <3>1. Pending \in Nat /\ 8 * Len(data') = 8 * Len(data) + 8
      BY <1>1, <1>3, <1>4, <2>1
    <3>2. 8 * Len(data') + Pending' = bitLen + numBits /\ bitLen <= 8 * Len(data')
      BY <1>1, <1>4, <2>1, <3>1
    <3>3. Pending' >= 0
      BY <1>4
    <3> QED BY <1>1, <2>1, <3>2, <3>3 DEF BufferFits
  <2>3. PaddingZero'
    BY <1>1, <1>3, <1>4, <2>1 DEF PaddingZero
  <2> QED BY <2>2, <2>3
<1>7. OnTrack'
  <2>1. \A k \in 0 .. 7 : asked[Written + k + 1] = At(data', Written + k)
    <3>1. \A k \in 0 .. 7 : ByteAt(val, i)[k] = BitAt(val, Pending - 1 - k)
      BY <1>1, <1>4 DEF ByteAt
    <3>2. \A k \in 0 .. 7 : asked[Written + k + 1] = BitAt(val, Pending - 1 - k)
      BY <1>4 DEF Inv, OnTrack
    <3> QED BY <1>3, <1>4, <3>1, <3>2
  <2>2. \A k \in 0 .. Written - 1 : asked[k + 1] = At(data', k)
    BY <1>3, <1>4 DEF Inv, OnTrack
  <2>3. \A k \in 0 .. Written' - 1 : asked[k + 1] = At(data', k)
    <3> SUFFICES ASSUME NEW k \in 0 .. Written' - 1 PROVE asked[k + 1] = At(data', k)
      OBVIOUS
    <3>1. CASE k < Written
      BY <1>4, <2>2, <3>1
    <3>2. CASE k >= Written
      <4>1. k - Written \in 0 .. 7 /\ k = Written + (k - Written)
        BY <1>4, <3>2
      <4> QED BY <2>1, <4>1
    <3> QED BY <1>4, <3>1, <3>2
  <2>4. \A k \in 0 .. Pending' - 1 : asked[Written' + k + 1] = BitAt(val, Pending' - 1 - k)
    <3> SUFFICES ASSUME NEW k \in 0 .. Pending' - 1
                 PROVE  asked[Written' + k + 1] = BitAt(val, Pending' - 1 - k)
      OBVIOUS
    <3>1. k + 8 \in 0 .. Pending - 1
      BY <1>1, <1>4
    <3>2. asked[Written + (k + 8) + 1] = BitAt(val, Pending - 1 - (k + 8))
      BY <3>1 DEF Inv, OnTrack
    <3>3. Written + (k + 8) + 1 = Written' + k + 1 /\ Pending - 1 - (k + 8) = Pending' - 1 - k
      BY <1>1, <1>4
    <3> QED BY <3>2, <3>3
  <2>5. Written' + Pending' = Written + Pending
    BY <1>1, <1>4
  <2> QED BY <1>1, <2>3, <2>4, <2>5 DEF Inv, OnTrack
<1> QED BY <1>5, <1>6, <1>7 DEF Inv

LEMMA FastEndInv ==
  ASSUME Inv, FastEnd
  PROVE  Inv'
<1>1. /\ path = "fast" /\ i \in Int /\ i < 0 /\ path' = "none"
      /\ bitLen' = bitLen + numBits
      /\ UNCHANGED <<data, val, numBits, i, rest, asked, calls>>
      /\ Len(data) \in Nat /\ bitLen \in Nat /\ numBits \in Int
  BY DEF FastEnd, Inv, TypeOK
<1>2. Pending = 0 /\ Pending' = 0 /\ bitLen' = 8 * Len(data) /\ Written' = Written
  BY <1>1 DEF Inv, BufferFits, Pending, Written
<1>3. TypeOK'
  BY <1>1, <1>2 DEF Inv, TypeOK
<1>4. BufferFits' /\ PaddingZero'
  BY <1>1, <1>2 DEF Inv, BufferFits, PaddingZero, Written
<1>5. OnTrack'
  BY <1>1, <1>2 DEF Inv, OnTrack
<1> QED BY <1>3, <1>4, <1>5 DEF Inv

LEMMA SlowBitInv ==
  ASSUME Inv, SlowBit
  PROVE  Inv'
<1>1. /\ path = "slow" /\ i \in Nat /\ val \in Word
      /\ data' = PutBit(data, bitLen, BitAt(val, i)) /\ bitLen' = bitLen + 1 /\ i' = i - 1
      /\ UNCHANGED <<path, val, numBits, rest, asked, calls>>
      /\ data \in Seq(Byte) /\ bitLen \in Nat
      /\ bitLen <= 8 * Len(data) /\ 8 * Len(data) < bitLen + 8
      /\ \A k \in bitLen .. 8 * Len(data) - 1 : At(data, k) = 0
  BY DEF SlowBit, Inv, TypeOK, BufferFits, PaddingZero, Written
<1>2. BitAt(val, i) \in Bit
  BY <1>1, BitAtType
<1>3. /\ data' \in Seq(Byte)
      /\ bitLen + 1 <= 8 * Len(data') /\ 8 * Len(data') < bitLen + 9
      /\ \A k \in 0 .. bitLen - 1 : At(data', k) = At(data, k)
      /\ At(data', bitLen) = BitAt(val, i)
      /\ \A k \in bitLen + 1 .. 8 * Len(data') - 1 : At(data', k) = 0
  BY <1>1, <1>2, PutBitAt
<1>4. /\ Written = bitLen /\ Written' = bitLen + 1
      /\ Pending = i + 1 /\ Pending' = i
  BY <1>1 DEF Written, Pending
<1>5. TypeOK'
  BY <1>1, <1>3 DEF Inv, TypeOK
<1>6. BufferFits' /\ PaddingZero'
  BY <1>1, <1>3, <1>4 DEF BufferFits, PaddingZero
<1>7. OnTrack'
  <2>1. \A k \in 0 .. bitLen - 1 : asked[k + 1] = At(data', k)
    BY <1>3, <1>4 DEF Inv, OnTrack
  <2>2. asked[bitLen + 1] = At(data', bitLen)
    <3>1. 0 \in 0 .. Pending - 1 /\ Written + 0 + 1 = bitLen + 1 /\ Pending - 1 - 0 = i
      BY <1>1, <1>4
    <3>2. asked[Written + 0 + 1] = BitAt(val, Pending - 1 - 0)
      BY <3>1 DEF Inv, OnTrack
    <3> QED BY <1>3, <3>1, <3>2
  <2>3. \A k \in 0 .. i - 1 : asked[bitLen + 1 + k + 1] = BitAt(val, i - 1 - k)
    <3> SUFFICES ASSUME NEW k \in 0 .. i - 1
                 PROVE  asked[bitLen + 1 + k + 1] = BitAt(val, i - 1 - k)
      OBVIOUS
    <3>1. /\ k + 1 \in 0 .. Pending - 1
          /\ Written + (k + 1) + 1 = bitLen + 1 + k + 1
          /\ Pending - 1 - (k + 1) = i - 1 - k
      BY <1>1, <1>4
    <3>2. asked[Written + (k + 1) + 1] = BitAt(val, Pending - 1 - (k + 1))
      BY <3>1 DEF Inv, OnTrack
    <3> QED BY <3>1, <3>2
  <2>4. Written' + Pending' = Written + Pending
    BY <1>1, <1>4
  <2> QED BY <1>1, <1>4, <2>1, <2>2, <2>3, <2>4 DEF Inv, OnTrack
<1> QED BY <1>5, <1>6, <1>7 DEF Inv

LEMMA SlowEndInv ==
  ASSUME Inv, SlowEnd
  PROVE  Inv'
<1>1. /\ path = "slow" /\ i \in Int /\ i < 0 /\ path' = "none"
      /\ UNCHANGED <<data, bitLen, val, numBits, i, rest, asked, calls>>
  BY DEF SlowEnd, Inv, TypeOK
<1>2. Pending = 0 /\ Pending' = 0 /\ Written' = Written /\ Written = bitLen
  BY <1>1 DEF Inv, BufferFits, Pending, Written
<1> QED BY <1>1, <1>2 DEF Inv, TypeOK, BufferFits, PaddingZero, OnTrack

LEMMA WriteBytesInv ==
  ASSUME Inv, NEW bytes \in Chunks, WriteBytes(bytes)
  PROVE  Inv'
<1>1. /\ bytes \in Seq(Byte) /\ bytes # <<>> /\ Idle /\ Ask(AllBits(bytes))
      /\ UNCHANGED <<path, val, numBits, i>>
      /\ data \in Seq(Byte) /\ bitLen \in Nat
      /\ bitLen <= 8 * Len(data) /\ 8 * Len(data) < bitLen + 8
      /\ \A k \in bitLen .. 8 * Len(data) - 1 : At(data, k) = 0
  BY WriterAssumption DEF WriteBytes, Ask, Idle, Inv, TypeOK, BufferFits, PaddingZero, Written
<1>2. /\ AllBits(bytes) \in Seq(Bit)
      /\ Len(AllBits(bytes)) = 8 * Len(bytes)
      /\ \A k \in 0 .. 8 * Len(bytes) - 1 : AllBits(bytes)[k + 1] = At(bytes, k)
  <2>1. 8 * Len(bytes) \in 0 .. 8 * Len(bytes)
    BY <1>1
  <2> QED BY <1>1, <2>1, StreamType DEF AllBits
<1>3. /\ asked' \in Seq(Bit) /\ calls' \in Nat /\ Len(asked') = bitLen + 8 * Len(bytes)
      /\ \A k \in 0 .. bitLen - 1 : asked'[k + 1] = At(data, k)
      /\ \A k \in 0 .. 8 * Len(bytes) - 1 : asked'[bitLen + k + 1] = At(bytes, k)
  BY <1>1, <1>2, AskAppends
<1>4. path = "none" /\ path' = "none" /\ Pending' = 0 /\ Written' = bitLen'
  BY <1>1 DEF Idle, Pending, Written
<1>5. CASE bitLen % 8 = 0
  <2>1. /\ data' = data \o bytes /\ bitLen' = bitLen + 8 * Len(bytes)
        /\ rest' = <<>> /\ 8 * Len(data) = bitLen
    <3>1. Len(data) \in Nat
      BY <1>1
    <3>2. 8 * Len(data) = bitLen
      BY <1>1, <1>5, <3>1, WholeBytes
    <3> QED BY <1>1, <1>5, <3>2 DEF WriteBytes, Idle
  <2>2. /\ data' \in Seq(Byte)
        /\ 8 * Len(data') = bitLen'
        /\ \A k \in 0 .. bitLen - 1 : At(data', k) = At(data, k)
        /\ \A k \in 0 .. 8 * Len(bytes) - 1 : At(data', bitLen + k) = At(bytes, k)
    BY <1>1, <2>1, ConcatAt
  <2>3. TypeOK'
    BY <1>1, <1>3, <2>1, <2>2 DEF Inv, TypeOK
  <2>4. BufferFits' /\ PaddingZero'
    BY <1>1, <1>4, <2>1, <2>2, <2>3 DEF BufferFits, PaddingZero, TypeOK
  <2>5. \A k \in 0 .. bitLen' - 1 : asked'[k + 1] = At(data', k)
    <3> SUFFICES ASSUME NEW k \in 0 .. bitLen' - 1 PROVE asked'[k + 1] = At(data', k)
      OBVIOUS
    <3>1. CASE k < bitLen
      BY <1>1, <1>3, <2>1, <2>2, <3>1
    <3>2. CASE k >= bitLen
      <4>1. k - bitLen \in 0 .. 8 * Len(bytes) - 1 /\ k = bitLen + (k - bitLen)
        BY <1>1, <2>1, <3>2
      <4> QED BY <1>3, <2>2, <4>1
    <3> QED BY <1>1, <3>1, <3>2
  <2>6. OnTrack'
    BY <1>1, <1>3, <1>4, <2>1, <2>5 DEF OnTrack
  <2> QED BY <2>3, <2>4, <2>6 DEF Inv
<1>6. CASE bitLen % 8 # 0
  <2>1. rest' = bytes /\ UNCHANGED <<data, bitLen>>
    BY <1>6 DEF WriteBytes
  <2>2. TypeOK'
    BY <1>1, <1>3, <2>1 DEF Inv, TypeOK
  <2>3. BufferFits' /\ PaddingZero'
    BY <1>1, <1>4, <2>1 DEF BufferFits, PaddingZero
  <2>4. OnTrack'
    BY <1>1, <1>3, <1>4, <2>1 DEF OnTrack
  <2> QED BY <2>2, <2>3, <2>4 DEF Inv
<1> QED BY <1>5, <1>6

LEMMA WriteNextByteInv ==
  ASSUME Inv, WriteNextByte
  PROVE  Inv'
<1>1. /\ path = "none" /\ rest \in Seq(Byte) /\ rest # <<>>
      /\ Enter(WordOf(Head(rest)), 8) /\ rest' = Tail(rest)
      /\ UNCHANGED <<data, bitLen, asked, calls>>
      /\ bitLen \in Nat
  BY DEF WriteNextByte, Inv, TypeOK
<1>2. /\ Head(rest) \in Byte /\ Tail(rest) \in Seq(Byte)
      /\ Len(Tail(rest)) = Len(rest) - 1 /\ Len(rest) \in Nat /\ Len(rest) >= 1
      /\ Head(rest) = rest[1] /\ \A m \in 1 .. Len(Tail(rest)) : Tail(rest)[m] = rest[m + 1]
  BY <1>1
<1>3. /\ WordOf(Head(rest)) \in Word
      /\ \A k \in 0 .. 7 : BitAt(WordOf(Head(rest)), 7 - k) = Head(rest)[k]
  BY <1>2, WordOfType
<1>4. /\ path' \in {"slow", "fast"} /\ val' = WordOf(Head(rest)) /\ numBits' = 8 /\ i' \in Int
      /\ Written' = bitLen /\ Pending' = 8
      /\ BufferFits' /\ PaddingZero'
  BY <1>1, <1>3, EnterStarts
<1>5. TypeOK'
  BY <1>1, <1>2, <1>3, <1>4 DEF Inv, TypeOK
<1>6. OnTrack'
  <2>1. /\ Len(asked) = bitLen + 8 * Len(rest)
        /\ \A k \in 0 .. bitLen - 1 : asked[k + 1] = At(data, k)
        /\ \A k \in 0 .. 8 * Len(rest) - 1 : asked[bitLen + k + 1] = At(rest, k)
    BY <1>1 DEF Inv, OnTrack, Written, Pending, TypeOK
  <2>2. \A k \in 0 .. 7 : asked[bitLen + k + 1] = BitAt(val', 8 - 1 - k)
    <3>1. \A k \in 0 .. 7 : At(rest, k) = Head(rest)[k]
      BY <1>2 DEF At
    <3>2. \A k \in 0 .. 7 : asked[bitLen + k + 1] = At(rest, k)
      BY <1>2, <2>1
    <3> QED BY <1>3, <1>4, <3>1, <3>2
  <2>3. \A k \in 0 .. 8 * Len(rest') - 1 : asked[bitLen + 8 + k + 1] = At(rest', k)
    <3> SUFFICES ASSUME NEW k \in 0 .. 8 * Len(rest') - 1
                 PROVE  asked[bitLen + 8 + k + 1] = At(rest', k)
      OBVIOUS
    <3>1. k + 8 \in 0 .. 8 * Len(rest) - 1
      BY <1>1, <1>2
    <3>2. asked[bitLen + (k + 8) + 1] = At(rest, k + 8)
      BY <2>1, <3>1
    <3>3. (k \div 8) + 1 \in 1 .. Len(rest') /\ k \in Nat
      BY <1>1, <1>2, AtType
    <3>4. ((k + 8) \div 8) + 1 = ((k \div 8) + 1) + 1 /\ (k + 8) % 8 = k % 8
      BY <3>3
    <3>5. At(rest, k + 8) = At(rest', k)
      BY <1>1, <1>2, <3>3, <3>4 DEF At
    <3>6. bitLen + (k + 8) + 1 = bitLen + 8 + k + 1
      BY <1>1, <3>3
    <3> QED BY <3>2, <3>5, <3>6
  <2>4. Len(asked) = bitLen + 8 + 8 * Len(rest')
    BY <1>1, <1>2, <2>1
  <2> QED BY <1>1, <1>4, <2>1, <2>2, <2>3, <2>4 DEF OnTrack
<1> QED BY <1>4, <1>5, <1>6 DEF Inv

LEMMA AlignToByteInv ==
  ASSUME Inv, AlignToByte
  PROVE  Inv'
<1> DEFINE pad == 8 - (bitLen % 8)
           zeros == [k \in 1 .. 8 - (bitLen % 8) |-> 0]
<1>1. /\ bitLen % 8 # 0 /\ Idle /\ Ask(zeros) /\ bitLen' = bitLen + pad
      /\ UNCHANGED <<data, path, val, numBits, i, rest>>
      /\ data \in Seq(Byte) /\ bitLen \in Nat
      /\ bitLen <= 8 * Len(data) /\ 8 * Len(data) < bitLen + 8
      /\ \A k \in bitLen .. 8 * Len(data) - 1 : At(data, k) = 0
  BY DEF AlignToByte, Ask, Idle, Inv, TypeOK, BufferFits, PaddingZero, Written
<1>2. pad \in 1 .. 7 /\ zeros \in Seq(Bit) /\ Len(zeros) = pad
      /\ \A k \in 0 .. pad - 1 : zeros[k + 1] = 0
  BY <1>1 DEF Bit
<1>3. 8 * Len(data) = bitLen + pad
  <2>1. Len(data) \in Nat
    BY <1>1
  <2> QED BY <1>1, <2>1, WholeBytes
<1>4. /\ asked' \in Seq(Bit) /\ calls' \in Nat /\ Len(asked') = bitLen + pad
      /\ \A k \in 0 .. bitLen - 1 : asked'[k + 1] = At(data, k)
      /\ \A k \in 0 .. pad - 1 : asked'[bitLen + k + 1] = 0
  BY <1>1, <1>2, AskAppends
<1> HIDE DEF pad, zeros
<1>5. path' = "none" /\ rest' = <<>> /\ Pending' = 0 /\ Written' = bitLen + pad
  BY <1>1 DEF Idle, Pending, Written
<1>6. TypeOK'
  BY <1>1, <1>2, <1>4 DEF Inv, TypeOK
<1>7. BufferFits' /\ PaddingZero'
  BY <1>1, <1>2, <1>3, <1>5 DEF BufferFits, PaddingZero
<1>8. \A k \in 0 .. bitLen + pad - 1 : asked'[k + 1] = At(data, k)
  <2> SUFFICES ASSUME NEW k \in 0 .. bitLen + pad - 1 PROVE asked'[k + 1] = At(data, k)
    OBVIOUS
  <2>1. CASE k < bitLen
    BY <1>1, <1>4, <2>1
  <2>2. CASE k >= bitLen
    <3>1. k - bitLen \in 0 .. pad - 1 /\ k = bitLen + (k - bitLen)
      BY <1>1, <1>2, <2>2
    <3>2. asked'[k + 1] = 0
      BY <1>4, <3>1
    <3> QED BY <1>1, <1>2, <1>3, <2>2, <3>2
  <2> QED BY <1>1, <2>1, <2>2
<1>9. OnTrack'
  BY <1>1, <1>2, <1>4, <1>5, <1>8 DEF OnTrack
<1> QED BY <1>6, <1>7, <1>9 DEF Inv

LEMMA InvNext == Inv /\ [Next]_vars => Inv'
<1> SUFFICES ASSUME Inv, [Next]_vars PROVE Inv'
  OBVIOUS
<1>1. ASSUME NEW b \in Bit, WriteBit(b) PROVE Inv'
  BY <1>1, WriteBitInv
<1>2. ASSUME NEW v \in Words, NEW n \in Widths, WriteBits(v, n) PROVE Inv'
  BY <1>2, WriteBitsInv
<1>3. ASSUME NEW bytes \in Chunks, WriteBytes(bytes) PROVE Inv'
  BY <1>3, WriteBytesInv
<1>4. CASE UNCHANGED vars
  BY <1>4 DEF vars, Inv, TypeOK, BufferFits, PaddingZero, OnTrack, Written, Pending
<1>5. CASE WriteNothing
  BY <1>4, <1>5 DEF WriteNothing
<1> QED
  BY <1>1, <1>2, <1>3, <1>4, <1>5, AlignToByteInv, FastByteInv, FastEndInv, SlowBitInv,
     SlowEndInv, WriteNextByteInv DEF Next, Call, Iteration

-----------------------------------------------------------------------------
(* BitWriter keeps its types, its buffer in shape and its padding zero,    *)
(* and no loop loses track of what was asked: bitstream.go:28-82.          *)
THEOREM WriterOnTrack == Spec => [](TypeOK /\ BufferFits /\ PaddingZero /\ OnTrack)
<1>1. Inv => TypeOK /\ BufferFits /\ PaddingZero /\ OnTrack
  BY DEF Inv
<1> QED BY <1>1, InvInit, InvNext, PTL DEF Spec

(* The variables of the writer keep their types for every word, width and  *)
(* slice, in the middle of every loop as well: what is in hand is always a *)
(* word, a byte or a slice of the right length.                            *)
THEOREM WriterTypeOK == Spec => []TypeOK
<1>1. Inv => TypeOK
  BY DEF Inv
<1> QED BY <1>1, InvInit, InvNext, PTL DEF Spec

(* What the buffer holds between calls is what the callers asked for, for  *)
(* every word, width and slice they may hand over.                         *)
THEOREM WriterFaithful == Spec => []Faithful
<1>1. Inv => Faithful
  <2> SUFFICES ASSUME Inv, Idle PROVE bitLen = Len(asked) /\ Stream(data, bitLen) = asked
    BY DEF Faithful
  <2>1. /\ data \in Seq(Byte) /\ bitLen \in 0 .. 8 * Len(data) /\ asked \in Seq(Bit)
        /\ Len(asked) = bitLen
        /\ \A k \in 0 .. bitLen - 1 : asked[k + 1] = At(data, k)
    BY DEF Inv, TypeOK, BufferFits, OnTrack, Idle, Written, Pending
  <2>2. \A k \in 1 .. bitLen : asked[k] = At(data, k - 1)
    BY <2>1
  <2> QED BY <2>1, <2>2 DEF Stream
<1> QED BY <1>1, InvInit, InvNext, PTL DEF Spec

(* What Inv says of the stream, in the form the next theorem needs. *)
Held ==
  /\ bitLen \in Nat /\ Len(asked) \in Nat /\ bitLen <= Len(asked)
  /\ \A k \in 0 .. bitLen - 1 : asked[k + 1] = At(data, k)

LEMMA InvHolds == Inv => Held
<1> SUFFICES ASSUME Inv PROVE Held
  OBVIOUS
<1>1. bitLen \in Nat /\ Len(data) \in Nat /\ Len(rest) \in Nat /\ Len(asked) \in Nat
  BY DEF Inv, TypeOK
<1>2. Written \in Nat /\ bitLen <= Written
  BY <1>1 DEF Inv, BufferFits, Written
<1>3. Pending \in Int /\ Pending >= 0
  BY DEF Inv, TypeOK, BufferFits, Pending
<1> QED BY <1>1, <1>2, <1>3 DEF Held, Inv, OnTrack

(* No step takes back a bit, of the stream or of what was asked for. *)
LEMMA Grows ==
  ASSUME Inv, [Next]_vars
  PROVE  bitLen' >= bitLen /\ \A k \in 1 .. Len(asked) : asked'[k] = asked[k]
<1>1. asked \in Seq(Bit) /\ bitLen \in Nat
  BY DEF Inv, TypeOK
<1>2. ASSUME NEW bits \in Seq(Bit), Ask(bits)
      PROVE  \A k \in 1 .. Len(asked) : asked'[k] = asked[k]
  BY <1>1, <1>2 DEF Ask
<1>3. ASSUME NEW b \in Bit, WriteBit(b)
      PROVE  bitLen' >= bitLen /\ \A k \in 1 .. Len(asked) : asked'[k] = asked[k]
  <2> DEFINE bits == <<b>>
  <2>1. bits \in Seq(Bit) /\ Ask(bits) /\ bitLen' = bitLen + 1
    BY <1>3 DEF WriteBit
  <2> HIDE DEF bits
  <2> QED BY <1>1, <1>2, <2>1
<1>4. ASSUME NEW v \in Words, NEW n \in Widths, WriteBits(v, n)
      PROVE  bitLen' >= bitLen /\ \A k \in 1 .. Len(asked) : asked'[k] = asked[k]
  <2>1. FieldBits(v, n) \in Seq(Bit) /\ Ask(FieldBits(v, n))
    BY <1>4, FieldBitsType, WriterAssumption DEF WriteBits
  <2> QED BY <1>1, <1>2, <1>4, <2>1 DEF WriteBits
<1>5. ASSUME NEW bytes \in Chunks, WriteBytes(bytes)
      PROVE  bitLen' >= bitLen /\ \A k \in 1 .. Len(asked) : asked'[k] = asked[k]
  <2>1. bytes \in Seq(Byte) /\ 8 * Len(bytes) \in 0 .. 8 * Len(bytes)
    BY WriterAssumption
  <2>2. AllBits(bytes) \in Seq(Bit) /\ Ask(AllBits(bytes))
    BY <1>5, <2>1, StreamType DEF WriteBytes, AllBits
  <2>3. bitLen' \in {bitLen, bitLen + 8 * Len(bytes)} /\ Len(bytes) \in Nat
    BY <1>5, <2>1 DEF WriteBytes
  <2> QED BY <1>1, <1>2, <2>2, <2>3
<1>6. ASSUME AlignToByte
      PROVE  bitLen' >= bitLen /\ \A k \in 1 .. Len(asked) : asked'[k] = asked[k]
  <2> DEFINE zeros == [k \in 1 .. 8 - (bitLen % 8) |-> 0]
  <2>1. zeros \in Seq(Bit) /\ Ask(zeros)
    BY <1>1, <1>6 DEF AlignToByte, Bit
  <2>2. bitLen' >= bitLen
    BY <1>1, <1>6 DEF AlignToByte
  <2> HIDE DEF zeros
  <2> QED BY <1>2, <2>1, <2>2
<1>7. ASSUME FastEnd
      PROVE  bitLen' >= bitLen /\ asked' = asked
  <2>1. /\ path = "fast" /\ i \in Int /\ i < 0 /\ Len(data) \in Nat /\ numBits \in Int
        /\ bitLen' = bitLen + numBits /\ asked' = asked
    BY <1>7 DEF FastEnd, Inv, TypeOK
  <2>2. Pending = 8 * (i + 1) /\ Pending >= 0
    BY <2>1 DEF Inv, BufferFits, Pending
  <2>3. bitLen <= 8 * Len(data) /\ 8 * Len(data) + Pending = bitLen + numBits
    BY <2>1 DEF Inv, BufferFits
  <2>4. Pending = 0
    BY <2>1, <2>2
  <2>5. bitLen' = 8 * Len(data)
    BY <1>1, <2>1, <2>3, <2>4
  <2> QED BY <1>1, <2>1, <2>3, <2>5
<1>8. CASE WriteNothing \/ UNCHANGED vars
  BY <1>1, <1>8 DEF WriteNothing, vars
<1>9. CASE FastByte \/ SlowBit \/ SlowEnd \/ WriteNextByte
  BY <1>1, <1>9 DEF FastByte, SlowBit, SlowEnd, WriteNextByte
<1> QED BY <1>3, <1>4, <1>5, <1>6, <1>7, <1>8, <1>9 DEF Next, Call, Iteration

(* No step changes a bit that is already written: Inv says before and after *)
(* the step which bits of asked the buffer holds, and asked only grows.    *)
THEOREM WriterAppendOnly == Spec => AppendOnly
<1>1. Inv' => Held'
  BY InvHolds, PTL
<1>2. ASSUME Inv, Inv', [Next]_vars PROVE KeepsWritten
  <2>1. Held /\ Held'
    BY <1>1, <1>2, InvHolds
  <2>2. bitLen' >= bitLen /\ \A k \in 1 .. Len(asked) : asked'[k] = asked[k]
    BY <1>2, Grows
  <2>3. ASSUME NEW k \in 0 .. bitLen - 1
        PROVE  At(data', k) = At(data, k)
    <3>0. /\ bitLen \in Nat /\ bitLen' \in Nat /\ bitLen <= bitLen'
          /\ Len(asked) \in Nat /\ bitLen <= Len(asked)
      BY <2>1, <2>2 DEF Held
    <3>1. k \in 0 .. bitLen' - 1 /\ k + 1 \in 1 .. Len(asked)
      <4>1. \A m, n \in Nat : m <= n => \A j \in 0 .. m - 1 : j \in 0 .. n - 1 /\ j + 1 \in 1 .. n
        OBVIOUS
      <4> QED BY <3>0, <4>1
    <3>2. asked[k + 1] = At(data, k) /\ asked'[k + 1] = At(data', k)
      BY <2>1, <3>1 DEF Held
    <3> QED BY <2>2, <3>1, <3>2
  <2> QED BY <2>2, <2>3 DEF KeepsWritten
<1> QED BY <1>2, InvInit, InvNext, PTL DEF Spec, AppendOnly
=============================================================================
