------------------------------- MODULE Strings -------------------------------
(***************************************************************************)
(* pkg/uper/strings.go and the BitString of pkg/uper/types.go, and the     *)
(* codec that pkg/generator/generator.go (emitSequenceOfCodec) emits for a *)
(* SEQUENCE OF, which has the same form: a size, then that many elements.  *)
(* A string is a sequence of numbers: bits, octets, characters or          *)
(* elements.  A size constraint is a pair lb, ub.                          *)
(***************************************************************************)
EXTENDS Numbers, FiniteSets

CONSTANTS
  CharBits,   (* 7: the width of a character, and here of an element *)
  Default     (* the default alphabet of a VisibleString             *)

ASSUME StringAssumption ==
  /\ CharBits \in 1 .. W - 1
  /\ Default \subseteq 0 .. 2 ^ CharBits - 1 /\ IsFiniteSet(Default)

-----------------------------------------------------------------------------
(* NewBitString: as many octets as n bits need, of the bits given, with    *)
(* zeros after them.  A bit past n in the last octet is kept.              *)
NewBitString(held, n) ==
  [k \in 1 .. ((n + B - 1) \div B) * B |-> IF k <= Len(held) THEN held[k] ELSE 0]

GetBit(held, len, index) == IF index >= len THEN 0 ELSE held[index + 1]

(* Every encoder of a string starts with its size, unless that is fixed.   *)
WriteSize(n, lb, ub) ==
  IF n < lb \/ n > ub THEN Refused
  ELSE IF lb = ub THEN Encoded(<<>>) ELSE WriteConstrainedInt(n, lb, ub)

(* Elements of a width one after the other; one that is not legal makes    *)
(* the call fail.                                                          *)
Fields(s, width) == [k \in 1 .. Len(s) * width |->
                       BitsOf(s[((k - 1) \div width) + 1], width)[((k - 1) % width) + 1]]
WriteAll(before, s, width, legal) ==
  IF before.ok /\ \A k \in 1 .. Len(s) : s[k] \in legal
    THEN Encoded(before.bits \o Fields(s, width)) ELSE Refused

Ascii == 0 .. 2 ^ CharBits - 1

(* A fixed size is the length written, whatever the string has: a short    *)
(* one is made longer by NewBitString, a long one is cut.                  *)
WriteBitString(held, len, lb, ub) ==
  IF lb = ub
    THEN LET all == IF len < lb THEN NewBitString(held, lb) ELSE held
             n   == IF len < lb THEN lb ELSE len
         IN  Encoded([k \in 1 .. lb |-> GetBit(all, n, k - 1)])
    ELSE WriteAll(WriteSize(len, lb, ub), [k \in 1 .. len |-> GetBit(held, len, k - 1)], 1, Nat)

WriteOctetString(s, lb, ub) == WriteAll(WriteSize(Len(s), lb, ub), s, B, Nat)

WriteIA5String(s, lb, ub) == WriteAll(WriteSize(Len(s), lb, ub), s, CharBits, Ascii)

(* Mutants: the characters are in falling order; the permitted alphabet is  *)
(* not looked at.                                                           *)
BuildAlphabetFalling(from) ==
  [k \in 1 .. Cardinality(from) |->
     CHOOSE x \in from : Cardinality({y \in from : y > x}) = k - 1]
PermittedAlways(from) == Default

(* BuildAlphabet: the characters permitted, in order.  A character is      *)
(* written as its place there, in the least width that holds all places.   *)
BuildAlphabet(from) ==
  [k \in 1 .. Cardinality(from) |->
     CHOOSE x \in from : Cardinality({y \in from : y < x}) = k - 1]
Permitted(from) == IF from = {} THEN Default ELSE from
PlaceOf(from, x) == Cardinality({y \in from : y < x})

WriteVisibleString(s, from, lb, ub) ==
  LET permitted == Permitted(from)
      places    == [k \in 1 .. Len(s) |-> PlaceOf(permitted, s[k])]
  IN  IF \A k \in 1 .. Len(s) : s[k] \in permitted
        THEN WriteAll(WriteSize(Len(s), lb, ub), places, BitsNeeded(Cardinality(permitted)), Nat)
        ELSE Refused

(* A length determinant and then all elements, however many: UTCTime, with *)
(* the low bits of each octet, and a SEQUENCE OF without a size.           *)
WriteUnsized(s) == WriteAll(WriteLengthDeterminant(Len(s)), s, CharBits, Nat)

-----------------------------------------------------------------------------
ReadSize(bits, lb, ub) == IF lb = ub THEN Decoded(lb, 0) ELSE ReadConstrainedInt(bits, lb, ub)

(* As many elements as n says, each of a width; each is looked at before   *)
(* the next is read, so the first that fails decides how the call fails.   *)
ReadAll(bits, n, width, legal) ==
  LET element(k) == ReadBits(bits, n.used + (k - 1) * width, width)
      failed     == {k \in 1 .. n.value : element(k).status # "ok" \/ element(k).value \notin legal}
      first      == CHOOSE k \in failed : \A j \in failed : k <= j
  IN  CASE n.status # "ok" -> n
        [] n.status = "ok" /\ failed # {} ->
             IF element(first).status # "ok" THEN element(first) ELSE Failed("invalid")
        [] OTHER -> Decoded([k \in 1 .. n.value |-> element(k).value], n.used + n.value * width)

ReadBitString(bits, lb, ub)   == ReadAll(bits, ReadSize(bits, lb, ub), 1, Nat)
ReadOctetString(bits, lb, ub) == ReadAll(bits, ReadSize(bits, lb, ub), B, Nat)
ReadIA5String(bits, lb, ub)   == ReadAll(bits, ReadSize(bits, lb, ub), CharBits, Nat)
ReadUnsized(bits)             == ReadAll(bits, ReadLengthDeterminant(bits, 0), CharBits, Nat)

ReadVisibleString(bits, from, lb, ub) ==
  LET alphabet == BuildAlphabet(Permitted(from))
      width    == BitsNeeded(Len(alphabet))
      places   == ReadAll(bits, ReadSize(bits, lb, ub), width, 0 .. Len(alphabet) - 1)
  IN  IF places.status # "ok" THEN places
      ELSE [places EXCEPT !.value = [k \in 1 .. Len(places.value) |-> alphabet[places.value[k] + 1]]]
=============================================================================
