------------------------------- MODULE Numbers -------------------------------
(***************************************************************************)
(* pkg/uper/integers.go and the length determinants of pkg/uper/lengths.go *)
(* in fixed-width arithmetic, as operators from numbers to bits and back.  *)
(* The widths of Go are parameters.                                        *)
(***************************************************************************)
EXTENDS Integers, Sequences, Results

CONSTANTS
  W,          (* 64: the width of int64 and uint64                          *)
  B,          (* 8: the width of an octet                                   *)
  SmallBits,  (* 6: the width of a normally small number                    *)
  MaxFactor   (* 4: the most fragmentation units one determinant stands for *)

ASSUME WidthAssumption ==
  /\ W \in Nat /\ B \in Nat /\ B > 2 /\ W % B = 0
  /\ W \div B < 2 ^ (B - 1) /\ MaxFactor \in 1 .. 2 ^ (B - 2) - 1
  /\ SmallBits \in 1 .. W - 1

Signed == -(2 ^ (W - 1)) .. 2 ^ (W - 1) - 1

(* uint64(x) and int64(x). *)
U(x) == x % 2 ^ W
S(x) == LET u == U(x) IN IF u < 2 ^ (W - 1) THEN u ELSE u - 2 ^ W

(* Mutant of BitsOf: a bit is not masked. *)
BitsOfUnmasked(v, n) == [k \in 1 .. n |-> v \div 2 ^ (n - k)]

(* The n low bits of v, high one first, and the number n bits stand for. *)
BitsOf(v, n) == [k \in 1 .. n |-> (v \div 2 ^ (n - k)) % 2]
NumberOf(bits) ==
  LET sum[k \in 0 .. Len(bits)] == IF k = 0 THEN 0 ELSE 2 * sum[k - 1] + bits[k]
  IN  sum[Len(bits)]

(* Mutant of ReadBits: a short read is taken for a full one. *)
ReadBitsShort(bits, at, n) ==
  IF Len(bits) <= at THEN Failed("eof")
  ELSE Decoded(NumberOf(SubSeq(bits, at + 1, IF Len(bits) < at + n THEN Len(bits) ELSE at + n)), at + n)

(* ReadBits(n) after at bits. *)
ReadBits(bits, at, n) ==
  IF Len(bits) < at + n THEN Failed("eof")
  ELSE Decoded(NumberOf(SubSeq(bits, at + 1, at + n)), at + n)

-----------------------------------------------------------------------------
(* Length determinants: a length below Half in one octet, below K in two,  *)
(* and from K on as a count of units of K.                                 *)
Half == 2 ^ (B - 1)
K    == 2 ^ (2 * B - 2)

WriteLengthDeterminant(length) ==
  IF length < 0 THEN Refused
  ELSE IF length < Half THEN Encoded(BitsOf(length, B))
  ELSE IF length < K THEN Encoded(BitsOf(2 * K + length, 2 * B))
  ELSE LET factor == IF length \div K > MaxFactor THEN MaxFactor ELSE length \div K
       IN  Encoded(BitsOf(3 * 2 ^ (B - 2) + factor, B))

ReadLengthDeterminant(bits, at) ==
  LET octet == ReadBits(bits, at, B)
      next  == ReadBits(bits, octet.used, B)
      low   == octet.value % 2 ^ (B - 2)
  IN  CASE octet.status # "ok"                          -> octet
        [] octet.status = "ok" /\ octet.value < Half    -> octet
        [] octet.value \in Half .. 3 * 2 ^ (B - 2) - 1  ->
             IF next.status = "ok" THEN Decoded(low * 2 ^ B + next.value, next.used) ELSE next
        [] octet.value >= 3 * 2 ^ (B - 2)               ->
             IF low \in 1 .. MaxFactor THEN Decoded(low * K, octet.used) ELSE Failed("invalid")

-----------------------------------------------------------------------------
(* Mutant of BitsNeeded: the length of range, not of range - 1. *)
BitsNeededOfRange(range) ==
  IF range <= 1 THEN 0 ELSE CHOOSE n \in 1 .. W : 2 ^ (n - 1) <= range /\ range < 2 ^ n

(* The least n such that range - 1 has no bit above its n low ones. *)
BitsNeeded(range) ==
  IF range <= 1 THEN 0 ELSE CHOOSE n \in 1 .. W : 2 ^ (n - 1) <= range - 1 /\ range - 1 < 2 ^ n

(* Mutant of RangeOf: the upper bound is left out. *)
RangeOfExclusive(lb, ub) == U(ub - lb)

(* ub - lb + 1 as Go computes it: the full range of int64 has length 0. *)
RangeOf(lb, ub) == U(ub - lb + 1)

WriteConstrainedInt(val, lb, ub) ==
  IF val < lb \/ val > ub \/ ub < lb THEN Refused
  ELSE IF RangeOf(lb, ub) = 1 THEN Encoded(<<>>)
  ELSE Encoded(BitsOf(U(val - lb), BitsNeeded(RangeOf(lb, ub))))

ReadConstrainedInt(bits, lb, ub) ==
  LET field == ReadBits(bits, 0, BitsNeeded(RangeOf(lb, ub)))
  IN  CASE ub < lb                                  -> Failed("invalid")
        [] ub >= lb /\ RangeOf(lb, ub) = 1          -> Decoded(lb, 0)
        [] OTHER -> IF field.status = "ok" THEN Decoded(S(S(field.value) + lb), field.used) ELSE field

(* The loop of WriteSemiConstrainedInt: one octet, and one more as long as *)
(* a shift by the octets so far leaves something.                          *)
OctetsFor(offset) ==
  CHOOSE n \in 1 .. W \div B :
    /\ offset \div 2 ^ (n * B) = 0
    /\ \A m \in 1 .. n - 1 : offset \div 2 ^ (m * B) > 0

WriteSemiConstrainedInt(val, lb) ==
  IF val < lb THEN Refused
  ELSE LET offset == U(val - lb)
           octets == OctetsFor(offset)
       IN  Encoded(WriteLengthDeterminant(octets).bits \o BitsOf(offset, octets * B))

ReadSemiConstrainedInt(bits, at, lb) ==
  LET octets == ReadLengthDeterminant(bits, at)
      field  == ReadBits(bits, octets.used, octets.value * B)
  IN  CASE octets.status # "ok" -> octets
        [] octets.status = "ok" /\ octets.value \notin 1 .. W \div B -> Failed("invalid")
        [] OTHER -> IF field.status = "ok" THEN Decoded(S(S(field.value) + lb), field.used) ELSE field

(* n is a uint64; from 2^SmallBits on it goes through int64. *)
WriteNormallySmall(n) ==
  IF n < 2 ^ SmallBits THEN Encoded(<<0>> \o BitsOf(n, SmallBits))
  ELSE LET large == WriteSemiConstrainedInt(S(n), 0)
       IN  IF large.ok THEN Encoded(<<1>> \o large.bits) ELSE Refused

(* Mutant of ReadNormallySmall: the sign of a large one is not looked at. *)
ReadNormallySmallSigned(bits) ==
  LET isLarge == ReadBits(bits, 0, 1)
  IN  CASE isLarge.status # "ok" -> isLarge
        [] isLarge.status = "ok" /\ isLarge.value = 0 -> ReadBits(bits, 1, SmallBits)
        [] OTHER -> ReadSemiConstrainedInt(bits, 1, 0)

ReadNormallySmall(bits) ==
  LET isLarge == ReadBits(bits, 0, 1)
      large   == ReadSemiConstrainedInt(bits, 1, 0)
  IN  CASE isLarge.status # "ok" -> isLarge
        [] isLarge.status = "ok" /\ isLarge.value = 0 -> ReadBits(bits, 1, SmallBits)
        [] OTHER -> IF large.status = "ok" /\ large.value < 0 THEN Failed("invalid") ELSE large
=============================================================================
