-------------------------------- MODULE Bits --------------------------------
(***************************************************************************)
(* The data that pkg/uper/bitstream.go moves: bits, bytes, machine words   *)
(* and buffers.  A byte is a function whose index 0 is the most            *)
(* significant bit, the first one on the wire.  A word is a uint64 seen    *)
(* through its shifts: w[k] is (w >> k) & 1.                               *)
(***************************************************************************)
EXTENDS Integers, Sequences

WordSize == 64
Bit  == {0, 1}
Byte == [0 .. 7 -> Bit]
Word == [0 .. WordSize - 1 -> Bit]

ZeroByte == [b \in 0 .. 7 |-> 0]

(* (val >> k) & 1: a shift by the width of the word or more leaves 0. *)
BitAt(val, k) == IF k < WordSize THEN val[k] ELSE 0

(* byte((val >> (8 * k)) & 0xFF) *)
ByteAt(val, k) == [b \in 0 .. 7 |-> BitAt(val, 8 * k + 7 - b)]

(* uint64(b) for a byte b *)
WordOf(byte) == [k \in 0 .. WordSize - 1 |-> IF k < 8 THEN byte[7 - k] ELSE 0]

(* The field a caller of WriteBits(val, n) means: n bits of val, the most  *)
(* significant of them first.                                              *)
FieldBits(val, n) == [k \in 1 .. n |-> BitAt(val, n - k)]

(* Bit k of a buffer, counted from 0 in the order of the wire. *)
At(bytes, k) == bytes[(k \div 8) + 1][k % 8]

(* The first n bits of a buffer. *)
Stream(bytes, n) == [k \in 1 .. n |-> At(bytes, k - 1)]

AllBits(bytes) == Stream(bytes, 8 * Len(bytes))
=============================================================================
