------------------------------ MODULE BitReader ------------------------------
(***************************************************************************)
(* pkg/uper/bitstream.go, type BitReader, over one input slice.  A call is *)
(* the action that enters it and one action per iteration of its loops.    *)
(* The uint64 that ReadBits builds has at most 64 bits (it refuses more),  *)
(* so res is kept as those bits, first read first; a byte slice is kept as *)
(* its bits.                                                               *)
(***************************************************************************)
EXTENDS Bits

CONSTANTS
  Inputs,  (* the slices a reader is made over                             *)
  Widths,  (* the numBits callers hand to ReadBits                         *)
  Counts   (* the counts they hand to ReadBytes                            *)

ASSUME ReaderAssumption ==
  /\ Inputs \subseteq Seq(Byte)
  /\ Widths \subseteq Int /\ Counts \subseteq Int

VARIABLES
  data, bitPos,            (* the fields of the struct; totalBits is fixed   *)
  path, numBits, i, res,   (* the active ReadBits: its path and locals       *)
  todo, bytes,             (* the active ReadBytes: bytes to read, bits read *)
  outcome,                 (* how the last call ended, and what it returned  *)
  start, want              (* history: bitPos at the call, bits it asked for *)

loop == <<path, numBits, i, res>>
vars == <<data, bitPos, path, numBits, i, res, todo, bytes, outcome, start, want>>

totalBits == 8 * Len(data)
BitsLeft  == totalBits - bitPos

Idle == path = "none" /\ todo = 0

Init ==
  /\ data \in Inputs /\ bitPos = 0
  /\ path = "none" /\ numBits = 0 /\ i = 0 /\ res = <<>>
  /\ todo = 0 /\ bytes = <<>>
  /\ outcome = [status |-> "ok", bits |-> <<>>]
  /\ start = 0 /\ want = 0

Ok(bits) == outcome' = [status |-> "ok", bits |-> bits]
Error(e) == outcome' = [status |-> e, bits |-> <<>>]

(* A call that asks for n bits. *)
Ask(n) == Idle /\ start' = bitPos /\ want' = n

ReadBit ==
  /\ Ask(1)
  /\ IF bitPos >= totalBits
       THEN Error("eof") /\ UNCHANGED bitPos
       ELSE Ok(<<At(data, bitPos)>>) /\ bitPos' = bitPos + 1
  /\ UNCHANGED <<data, loop, todo, bytes>>

(* The head of ReadBits(n): which of the two loops will run. *)
Enter(n) ==
  /\ path' = IF bitPos % 8 = 0 /\ n % 8 = 0 THEN "fast" ELSE "slow"
  /\ numBits' = n /\ i' = 0 /\ res' = <<>>

ReadBits(n) ==
  /\ Ask(n)
  /\ CASE n < 0 \/ n > 64           -> Error("invalid") /\ UNCHANGED loop
       [] n = 0                     -> Ok(<<>>) /\ UNCHANGED loop
       [] n > 0 /\ n <= 64 /\ BitsLeft < n
                                    -> Error("eof") /\ UNCHANGED loop
       [] OTHER                     -> Enter(n) /\ UNCHANGED outcome
  /\ UNCHANGED <<data, bitPos, todo, bytes>>

(* Mutant of Return: the bytes of ReadBytes are counted down whoever called. *)
ReturnCounts ==
  /\ path' = "none" /\ todo' = todo - 1 /\ Ok(bytes \o res) /\ bytes' = <<>>
  /\ UNCHANGED <<data, numBits, i, res, start, want>>

(* ReadBits hands its result to its caller: the user, or ReadBytes. *)
Return ==
  /\ path' = "none"
  /\ IF todo = 0
       THEN Ok(res) /\ UNCHANGED <<todo, bytes>>
       ELSE /\ todo' = todo - 1
            /\ IF todo = 1
                 THEN Ok(bytes \o res) /\ bytes' = <<>>
                 ELSE bytes' = bytes \o res /\ UNCHANGED outcome
  /\ UNCHANGED <<data, numBits, i, res, start, want>>

(* Mutant of FastByte: startByte is forgotten. *)
FastByteFromZero ==
  /\ path = "fast" /\ i < numBits \div 8
  /\ res' = res \o [k \in 1 .. 8 |-> data[i + 1][k - 1]]
  /\ i' = i + 1
  /\ UNCHANGED <<data, bitPos, path, numBits, todo, bytes, outcome, start, want>>

FastByte ==
  /\ path = "fast" /\ i < numBits \div 8
  /\ res' = res \o [k \in 1 .. 8 |-> data[(bitPos \div 8) + i + 1][k - 1]]
  /\ i' = i + 1
  /\ UNCHANGED <<data, bitPos, path, numBits, todo, bytes, outcome, start, want>>

FastEnd ==
  /\ path = "fast" /\ i >= numBits \div 8
  /\ bitPos' = bitPos + numBits
  /\ Return

(* The slow loop calls ReadBit, which may refuse: the loop then returns    *)
(* its error, with the bits before it already consumed.                    *)
SlowBit ==
  /\ path = "slow" /\ i < numBits
  /\ IF bitPos >= totalBits
       THEN Error("eof") /\ path' = "none" /\ todo' = 0 /\ bytes' = <<>>
            /\ UNCHANGED <<bitPos, res, i>>
       ELSE /\ res' = Append(res, At(data, bitPos)) /\ bitPos' = bitPos + 1
            /\ i' = i + 1 /\ UNCHANGED <<outcome, path, todo, bytes>>
  /\ UNCHANGED <<data, numBits, start, want>>

SlowEnd ==
  /\ path = "slow" /\ i >= numBits
  /\ UNCHANGED bitPos
  /\ Return

(* Mutant of ReadBytes: the last byte of the input is out of reach. *)
ReadBytesShort(count) ==
  /\ Ask(8 * count)
  /\ CASE count < 0  -> Error("invalid") /\ UNCHANGED <<bitPos, todo, bytes>>
       [] count = 0  -> Ok(<<>>) /\ UNCHANGED <<bitPos, todo, bytes>>
       [] count > 0 /\ BitsLeft <= count * 8
                     -> Error("eof") /\ UNCHANGED <<bitPos, todo, bytes>>
       [] OTHER      -> todo' = count /\ bytes' = <<>> /\ UNCHANGED <<bitPos, outcome>>
  /\ UNCHANGED <<data, loop>>

(* ReadBytes on a byte boundary copies the slice; elsewhere it calls       *)
(* ReadBits(8) count times, which decides its own path each time.          *)
ReadBytes(count) ==
  /\ Ask(8 * count)
  /\ CASE count < 0  -> Error("invalid") /\ UNCHANGED <<bitPos, todo, bytes>>
       [] count = 0  -> Ok(<<>>) /\ UNCHANGED <<bitPos, todo, bytes>>
       [] count > 0 /\ BitsLeft < count * 8
                     -> Error("eof") /\ UNCHANGED <<bitPos, todo, bytes>>
       [] count > 0 /\ BitsLeft >= count * 8 /\ bitPos % 8 = 0
                     -> /\ Ok(AllBits(SubSeq(data, (bitPos \div 8) + 1, (bitPos \div 8) + count)))
                        /\ bitPos' = bitPos + 8 * count
                        /\ UNCHANGED <<todo, bytes>>
       [] OTHER      -> todo' = count /\ bytes' = <<>> /\ UNCHANGED <<bitPos, outcome>>
  /\ UNCHANGED <<data, loop>>

ReadNextByte ==
  /\ path = "none" /\ todo > 0
  /\ Enter(8)
  /\ UNCHANGED <<data, bitPos, todo, bytes, outcome, start, want>>

AlignToByte ==
  /\ Ask((8 - (bitPos % 8)) % 8)
  /\ bitPos' = bitPos + want'
  /\ Ok(SubSeq(AllBits(data), bitPos + 1, bitPos + want'))
  /\ UNCHANGED <<data, loop, todo, bytes>>

Call ==
  \/ ReadBit
  \/ \E n \in Widths : ReadBits(n)
  \/ \E count \in Counts : ReadBytes(count)
  \/ AlignToByte

Iteration == FastByte \/ FastEnd \/ SlowBit \/ SlowEnd \/ ReadNextByte

Next == Call \/ Iteration

Spec == Init /\ [][Next]_vars

-----------------------------------------------------------------------------
TypeOK ==
  /\ data \in Inputs /\ bitPos \in Nat
  /\ path \in {"none", "slow", "fast"} /\ numBits \in Int /\ i \in Nat
  /\ res \in Seq(Bit) /\ todo \in Nat /\ bytes \in Seq(Bit)
  /\ outcome \in [status : {"ok", "eof", "invalid"}, bits : Seq(Bit)]
  /\ start \in Nat /\ want \in Int

(* The bits the current call has taken so far, or the last one returned,   *)
(* and the position they lead to (the fast loop moves bitPos at its end).  *)
Taken == IF Idle THEN outcome.bits ELSE IF path = "none" THEN bytes ELSE bytes \o res
Position == IF path = "fast" THEN bitPos + 8 * i ELSE bitPos

(* In every loop, and in what a call returns, the bits are the input's     *)
(* from where the call started, each once and in order, whichever path     *)
(* reads them; none is read past the end of the input.                     *)
InOrder ==
  /\ Position <= totalBits
  /\ ~(Idle /\ outcome.status # "ok") => Taken = SubSeq(AllBits(data), start + 1, Position)

(* A call that fails has consumed nothing and fails for one reason only:   *)
(* too few bits are left (bitstream.go:138,176) or the argument is out of  *)
(* range.  In particular the error branch of the slow loop (:157) and the  *)
(* one of ReadBytes (:191) never run: the check up front covers them.      *)
FailsUpFront ==
  Idle => /\ outcome.status # "ok" => bitPos = start
          /\ outcome.status = "eof" <=> want > totalBits - start /\ outcome.status # "invalid"
          /\ outcome.status = "ok" => bitPos = start + want

=============================================================================
