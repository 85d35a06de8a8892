------------------------------- MODULE Values -------------------------------
(***************************************************************************)
(* Numbers, length determinants and strings exchanged: each value of Calls *)
(* is written by the operators of Numbers or Strings and read back.        *)
(***************************************************************************)
EXTENDS Strings, Exchange

Number == [op : {"constrained", "semi", "small", "length"}, val : Int, lb : Int, ub : Int]

(* from is the set of characters permitted, {} for all; a BIT STRING has   *)
(* whole octets in held, of which len bits count.                          *)
String == [op : {"bits", "octets", "ia5", "visible", "list", "unsized"},
           held : Seq(Nat), len : Nat, from : SUBSET Nat, lb : Nat, ub : Nat]

NumberOps == {"constrained", "semi", "small", "length"}
IsNumber(c) == c.op \in NumberOps

(* The values of Go: int64 for numbers and bounds, uint64 for a normally   *)
(* small number, one bit, octet or character each for the parts of a       *)
(* string, a rune for a permitted character.  The bounds of a size are     *)
(* small enough that a damaged one, which may be read as up to twice its   *)
(* upper bound, is still an int64.                                         *)
InMachine(c) ==
  CASE c.op = "constrained" -> {c.val, c.lb, c.ub} \subseteq Signed
    [] c.op = "semi"        -> {c.val, c.lb} \subseteq Signed
    [] c.op = "small"       -> c.val \in 0 .. 2 ^ W - 1
    [] c.op = "length"      -> TRUE
    [] OTHER ->
         /\ 2 * c.lb <= 2 ^ (W - 1) /\ 2 * c.ub <= 2 ^ (W - 1)
         /\ c.from \subseteq Signed
         /\ Len(c.held) = IF c.op = "bits" THEN ((c.len + B - 1) \div B) * B ELSE c.len
         /\ c.op = "bits"   => \A k \in 1 .. Len(c.held) : c.held[k] \in {0, 1}
         /\ c.op = "octets" => \A k \in 1 .. Len(c.held) : c.held[k] < 2 ^ B
         /\ c.op = "list"   => \A k \in 1 .. Len(c.held) : c.held[k] \in Ascii

ASSUME CallAssumption ==
  \A c \in Calls : (IF IsNumber(c) THEN c \in Number ELSE c \in String) /\ InMachine(c)
ASSUME StreamAssumption == Tails \union Noise \subseteq Seq({0, 1})

Encode(c) ==
  CASE c.op = "constrained" -> WriteConstrainedInt(c.val, c.lb, c.ub)
    [] c.op = "semi"        -> WriteSemiConstrainedInt(c.val, c.lb)
    [] c.op = "small"       -> WriteNormallySmall(c.val)
    [] c.op = "length"      -> WriteLengthDeterminant(c.val)
    [] c.op = "bits"        -> WriteBitString(c.held, c.len, c.lb, c.ub)
    [] c.op = "octets"      -> WriteOctetString(c.held, c.lb, c.ub)
    [] c.op = "ia5"         -> WriteIA5String(c.held, c.lb, c.ub)
    [] c.op = "visible"     -> WriteVisibleString(c.held, c.from, c.lb, c.ub)
    [] c.op = "list"        -> WriteAll(WriteSize(c.len, c.lb, c.ub), c.held, CharBits, Nat)
    [] c.op = "unsized"     -> WriteUnsized(c.held)

Decode(c, bits) ==
  CASE c.op = "constrained"     -> ReadConstrainedInt(bits, c.lb, c.ub)
    [] c.op = "semi"            -> ReadSemiConstrainedInt(bits, 0, c.lb)
    [] c.op = "small"           -> ReadNormallySmall(bits)
    [] c.op = "length"          -> ReadLengthDeterminant(bits, 0)
    [] c.op = "bits"            -> ReadBitString(bits, c.lb, c.ub)
    [] c.op = "octets"          -> ReadOctetString(bits, c.lb, c.ub)
    [] c.op \in {"ia5", "list"} -> ReadIA5String(bits, c.lb, c.ub)
    [] c.op = "visible"         -> ReadVisibleString(bits, c.from, c.lb, c.ub)
    [] c.op = "unsized"         -> ReadUnsized(bits)

(* A decoder knows the type but not the value: the calls with val = lb, or *)
(* an empty string, stand for all the others of their type.                *)
Representative(c) == IF IsNumber(c) THEN c.val = c.lb ELSE c.len = 0

Next ==
  \/ Write(Encode(call)) \/ WriteCut(Encode(call)) \/ Refuse(Encode(call))
  \/ Representative(call) /\ ReceiveNoise
  \/ Read(Decode(call, wire))

Spec == Init /\ [][Next]_vars

-----------------------------------------------------------------------------
TypeOK ==
  /\ size \in Nat
  /\ stage \in Stages /\ sort \in Stages \union {"none"}
  /\ wire \in Seq({0, 1})
  /\ answer.status \in {"none", "ok", "eof", "invalid"}
  /\ answer.status = "ok" =>
       IF IsNumber(call) THEN answer.value \in Int ELSE answer.value \in Seq(Nat)

(* The characters a type allows: those of its FROM constraint if it has one. *)
Allowed(c) == IF c.from # {} THEN c.from ELSE Default
Sized(c) == c.op # "unsized" /\ ~(c.op = "bits" /\ c.lb = c.ub)

(* The values an operation is for. *)
InType(c) ==
  CASE c.op = "constrained" -> c.lb <= c.val /\ c.val <= c.ub
    [] c.op = "semi"        -> c.lb <= c.val
    [] c.op = "small"       -> 0 <= c.val /\ c.val < 2 ^ (W - 1)
    [] c.op = "length"      -> 0 <= c.val
    [] OTHER ->
         /\ Sized(c) => c.lb <= c.len /\ c.len <= c.ub
         /\ c.op = "ia5"     => \A k \in 1 .. c.len : c.held[k] \in Ascii
         /\ c.op = "visible" => \A k \in 1 .. c.len : c.held[k] \in Allowed(c)

(* The lengths one determinant stands for: below K, or a number of units   *)
(* it can hold.  WriteUTCTime and SEQUENCE OF do not fragment              *)
(* (strings.go:255, generator.go:348).                                     *)
OneDeterminant(n) == n < K \/ (n % K = 0 /\ n \div K <= MaxFactor)

(* The values whose encoding is meant to carry them: the full range of     *)
(* int64 has no length in uint64; a character has no more bits than are    *)
(* written; a BIT STRING made longer carries the bits past its own length  *)
(* in its last octet (types.go:18), which should be 0.                     *)
Carried(c) ==
  CASE c.op = "constrained" -> c.ub - c.lb + 1 < 2 ^ W
    [] c.op = "length"      -> OneDeterminant(c.val)
    [] c.op = "unsized"     -> OneDeterminant(c.len) /\ \A k \in 1 .. c.len : c.held[k] \in Ascii
    [] c.op = "bits"        -> \A k \in c.len + 1 .. Len(c.held) : c.held[k] = 0
    [] OTHER -> TRUE

(* What a decoder should return: what was written; for a BIT STRING of     *)
(* fixed size, made longer with zeros or cut.                              *)
Meaning(c) ==
  LET n == IF c.op = "bits" /\ c.lb = c.ub THEN c.lb ELSE c.len
  IN  IF IsNumber(c) THEN c.val ELSE [k \in 1 .. n |-> IF k <= c.len THEN c.held[k] ELSE 0]

(* An encoder refuses the values outside its type and no other; the        *)
(* decoder returns what was written, and stops exactly where it ends.      *)
RoundTrip ==
  /\ stage = "refused" => ~InType(call)
  /\ sort = "whole" => InType(call)
  /\ stage = "end" /\ sort = "whole" /\ Carried(call) => answer = Decoded(Meaning(call), size)

(* A value of which bits are missing is not taken for another, or a        *)
(* shorter, one.                                                           *)
CutIsNoticed ==
  stage = "end" /\ sort = "cut" /\ (Carried(call) \/ IsNumber(call)) => answer.status = "eof"

(* The encodings are as short as UPER says: the field of a constrained     *)
(* number has the least width that holds the range, the offset of a        *)
(* semi-constrained one no leading zero octet.                             *)
Shortest ==
  sort = "whole" /\ Carried(call) =>
    /\ call.op = "constrained" =>
         /\ call.ub - call.lb + 1 <= 2 ^ size
         /\ size > 0 => 2 ^ (size - 1) < call.ub - call.lb + 1
    /\ call.op = "semi" =>
         /\ call.val - call.lb < 2 ^ (size - B)
         /\ size > 2 * B => 2 ^ (size - 2 * B) <= call.val - call.lb

(* Whatever the bits, a decoder stays inside its input, returns a number   *)
(* of the machine, and makes no count negative: the callers add 1 to it    *)
(* and allocate (generator.go:683).                                        *)
Defensive ==
  answer.status = "ok" =>
    /\ answer.used <= Len(wire)
    /\ IsNumber(call) => answer.value \in Signed \/ call.op = "length"
    /\ call.op \in {"small", "length"} => answer.value >= 0

(* Whatever the bits, a VisibleString that is accepted is made of the      *)
(* permitted characters: the width of an index has room for more.          *)
StaysInAlphabet ==
  answer.status = "ok" /\ call.op = "visible" =>
    \A k \in 1 .. Len(answer.value) : answer.value[k] \in Allowed(call)

(* There is one encoding of a string with a size constraint: bits that a   *)
(* decoder accepts, whatever they are, are those the encoder writes for    *)
(* what it returned; unless the size is above the upper bound, which it    *)
(* does not check (integers.go:65).                                        *)
Canonical ==
  answer.status = "ok" /\ ~IsNumber(call) /\ call.op # "unsized" /\ Len(answer.value) <= call.ub =>
    LET n    == Len(answer.value)
        held == IF call.op = "bits" THEN NewBitString(answer.value, n) ELSE answer.value
    IN  Encode([call EXCEPT !.held = held, !.len = n]) = Encoded(SubSeq(wire, 1, answer.used))

(* "Integer range optimization (ceil(log2 R) bits for any constrained      *)
(* range R" (README.md:19): whatever the bounds, what is written is read.  *)
AnyRangeCarried ==
  stage = "end" /\ sort = "whole" /\ call.op = "constrained" => answer.value = call.val
=============================================================================
