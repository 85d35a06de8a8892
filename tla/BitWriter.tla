------------------------------ MODULE BitWriter ------------------------------
(***************************************************************************)
(* pkg/uper/bitstream.go, type BitWriter.  A call of WriteBits or          *)
(* WriteBytes is an action that enters it and one action per iteration of  *)
(* its loop, so the states between two iterations are visible: on the fast *)
(* path bitLen stays behind len(data) until the call ends.  The history    *)
(* variable asked holds the bits the callers asked for, whichever path     *)
(* wrote them.                                                             *)
(***************************************************************************)
EXTENDS Bits

CONSTANTS
  Words,   (* the values callers hand to WriteBits                         *)
  Widths,  (* the numBits they hand to it                                  *)
  Chunks,  (* the byte slices they hand to WriteBytes                      *)
  MaxCalls (* bound: how many calls that write something are made         *)

ASSUME WriterAssumption ==
  /\ Words \subseteq Word
  /\ Widths \subseteq Int
  /\ Chunks \subseteq Seq(Byte)
  /\ MaxCalls \in Nat

VARIABLES
  data, bitLen,             (* the fields of the struct                     *)
  path, val, numBits, i,    (* the active WriteBits: its path and locals    *)
  rest,                     (* bytes the active WriteBytes has yet to write *)
  asked,                    (* history: every bit asked for so far          *)
  calls                     (* how many calls were made, for the bound      *)

vars == <<data, bitLen, path, val, numBits, i, rest, asked, calls>>

Idle == path = "none" /\ rest = <<>>

Init ==
  /\ data = <<>> /\ bitLen = 0
  /\ path = "none" /\ val = [k \in 0 .. WordSize - 1 |-> 0] /\ numBits = 0 /\ i = 0
  /\ rest = <<>> /\ asked = <<>> /\ calls = 0

(* A call asks for some more bits. *)
Ask(bits) ==
  /\ Idle /\ calls < MaxCalls
  /\ asked' = asked \o bits
  /\ calls' = calls + 1

(* Mutant of PutBit: the byte is assigned, not OR-ed into. *)
PutBitAssigned(d, n, b) ==
  LET grown == IF n % 8 = 0 THEN Append(d, ZeroByte) ELSE d
  IN  [grown EXCEPT ![Len(grown)] = [ZeroByte EXCEPT ![n % 8] = b]]

(* The buffer after WriteBit(b): a new byte at a byte boundary, then the   *)
(* bit OR-ed into the last byte.                                           *)
PutBit(d, n, b) ==
  LET grown == IF n % 8 = 0 THEN Append(d, ZeroByte) ELSE d
      byte  == grown[Len(grown)]
  IN  [grown EXCEPT ![Len(grown)] =
         IF b = 1 THEN [byte EXCEPT ![n % 8] = 1] ELSE byte]

WriteBit(b) ==
  /\ Ask(<<b>>)
  /\ data' = PutBit(data, bitLen, b)
  /\ bitLen' = bitLen + 1
  /\ UNCHANGED <<path, val, numBits, i, rest>>

(* The head of WriteBits(v, n), n > 0: which of the two loops will run. *)
Enter(v, n) ==
  /\ val' = v /\ numBits' = n
  /\ IF bitLen % 8 = 0 /\ n % 8 = 0 /\ n <= 64
       THEN path' = "fast" /\ i' = (n \div 8) - 1
       ELSE path' = "slow" /\ i' = n - 1

WriteBits(v, n) ==
  /\ n > 0 /\ Ask(FieldBits(v, n))
  /\ Enter(v, n)
  /\ UNCHANGED <<data, bitLen, rest>>

(* Mutant of FastByte: least significant byte first. *)
FastByteSwapped ==
  /\ path = "fast" /\ i >= 0
  /\ data' = Append(data, ByteAt(val, (numBits \div 8) - 1 - i))
  /\ i' = i - 1
  /\ UNCHANGED <<bitLen, path, val, numBits, rest, asked, calls>>

FastByte ==
  /\ path = "fast" /\ i >= 0
  /\ data' = Append(data, ByteAt(val, i))
  /\ i' = i - 1
  /\ UNCHANGED <<bitLen, path, val, numBits, rest, asked, calls>>

(* Mutant of FastEnd: bitLen moves by the loop variable, which is -1 here. *)
FastEndByIndex ==
  /\ path = "fast" /\ i < 0
  /\ bitLen' = bitLen + 8 * i
  /\ path' = "none"
  /\ UNCHANGED <<data, val, numBits, i, rest, asked, calls>>

FastEnd ==
  /\ path = "fast" /\ i < 0
  /\ bitLen' = bitLen + numBits
  /\ path' = "none"
  /\ UNCHANGED <<data, val, numBits, i, rest, asked, calls>>

SlowBit ==
  /\ path = "slow" /\ i >= 0
  /\ data' = PutBit(data, bitLen, BitAt(val, i))
  /\ bitLen' = bitLen + 1
  /\ i' = i - 1
  /\ UNCHANGED <<path, val, numBits, rest, asked, calls>>

SlowEnd ==
  /\ path = "slow" /\ i < 0
  /\ path' = "none"
  /\ UNCHANGED <<data, bitLen, val, numBits, i, rest, asked, calls>>

(* WriteBytes on a byte boundary appends the slice; elsewhere it calls     *)
(* WriteBits(b, 8) for each byte, which decides its own path each time.    *)
WriteBytes(bytes) ==
  /\ bytes # <<>> /\ Ask(AllBits(bytes))
  /\ IF bitLen % 8 = 0
       THEN /\ data' = data \o bytes
            /\ bitLen' = bitLen + 8 * Len(bytes)
            /\ UNCHANGED rest
       ELSE rest' = bytes /\ UNCHANGED <<data, bitLen>>
  /\ UNCHANGED <<path, val, numBits, i>>

WriteNextByte ==
  /\ path = "none" /\ rest # <<>>
  /\ Enter(WordOf(Head(rest)), 8)
  /\ rest' = Tail(rest)
  /\ UNCHANGED <<data, bitLen, asked, calls>>

(* AlignToByte moves bitLen only: it relies on the bits it skips being 0. *)
AlignToByte ==
  /\ bitLen % 8 # 0 /\ Ask([k \in 1 .. 8 - (bitLen % 8) |-> 0])
  /\ bitLen' = bitLen + (8 - (bitLen % 8))
  /\ UNCHANGED <<data, path, val, numBits, i, rest>>

(* The early returns: numBits <= 0, an empty slice, an aligned AlignToByte. *)
WriteNothing ==
  /\ Idle
  /\ UNCHANGED vars

Call ==
  \/ \E b \in Bit : WriteBit(b)
  \/ \E v \in Words, n \in Widths : WriteBits(v, n)
  \/ \E bytes \in Chunks : WriteBytes(bytes)
  \/ AlignToByte
  \/ WriteNothing

Iteration == FastByte \/ FastEnd \/ SlowBit \/ SlowEnd \/ WriteNextByte

Next == Call \/ Iteration

Spec == Init /\ [][Next]_vars

-----------------------------------------------------------------------------
TypeOK ==
  /\ data \in Seq(Byte) /\ bitLen \in Nat
  /\ path \in {"none", "slow", "fast"}
  /\ val \in Word /\ numBits \in Int /\ i \in Int
  /\ rest \in Seq(Byte) /\ asked \in Seq(Bit) /\ calls \in Nat

(* How many bits of data are written: bitLen of them, except inside the    *)
(* fast loop, where bitLen lags behind the bytes already appended.         *)
Written == IF path = "fast" THEN 8 * Len(data) ELSE bitLen

(* How many bits the active WriteBits has yet to write. *)
Pending == CASE path = "fast" -> 8 * (i + 1)
             [] path = "slow" -> i + 1
             [] OTHER -> 0

(* The buffer has exactly the bytes bitLen needs (bitstream.go:30,49,68),  *)
(* and inside the fast loop as many more as its iterations appended:       *)
(* AlignToByte and WriteBit rely on it without checking it.                *)
BufferFits ==
  /\ Pending >= 0 /\ bitLen <= 8 * Len(data)
  /\ IF path = "fast"
       THEN bitLen % 8 = 0 /\ 8 * Len(data) + Pending = bitLen + numBits
       ELSE 8 * Len(data) < bitLen + 8

(* The bits past the end of the stream in the last byte are 0, as the      *)
(* comment of Bytes (bitstream.go:85) says: AlignToByte turns them into    *)
(* stream without touching data, and WriteBit ORs over them.               *)
PaddingZero == \A k \in Written .. 8 * Len(data) - 1 : At(data, k) = 0

(* At every iteration, what is written, then what the active WriteBits has *)
(* yet to write, then the bytes WriteBytes has yet to hand it, are the     *)
(* bits the callers asked for: no loop drops, repeats or reorders one.     *)
OnTrack ==
  /\ Len(asked) = Written + Pending + 8 * Len(rest)
  /\ \A k \in 0 .. Written - 1 : asked[k + 1] = At(data, k)
  /\ \A k \in 0 .. Pending - 1 : asked[Written + k + 1] = BitAt(val, Pending - 1 - k)
  /\ \A k \in 0 .. 8 * Len(rest) - 1 : asked[Written + Pending + k + 1] = At(rest, k)

(* When no call is active the buffer holds, bit for bit, what the callers  *)
(* asked for, whichever path wrote it: the two loops of WriteBits and the  *)
(* two branches of WriteBytes are interchangeable.                         *)
Faithful == Idle => bitLen = Len(asked) /\ Stream(data, bitLen) = asked

(* A bit once written is never changed by a later step: WriteBit ORs into  *)
(* a byte that already holds bits of the stream.                           *)
KeepsWritten ==
  bitLen' >= bitLen /\ \A k \in 0 .. bitLen - 1 : At(data', k) = At(data, k)
AppendOnly == [][KeepsWritten]_vars

=============================================================================
