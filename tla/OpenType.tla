------------------------------ MODULE OpenType ------------------------------
(***************************************************************************)
(* pkg/uper/lengths.go: WriteOpenType and ReadOpenType, with the length    *)
(* determinants between them.  Payloads are written one after another,     *)
(* then a decoder reads them back from the whole stream or from a          *)
(* truncated one.                                                          *)
(*                                                                         *)
(* The wire is a sequence of items: a length determinant (one item,        *)
(* whatever its octets; module Lengths has those) or one payload octet.    *)
(* An octet is known by the payload it belongs to and its place there, so  *)
(* a payload is known by its length.  The stream need not be aligned:      *)
(* WriteBytes and ReadBytes move whole octets either way (BitWriter,       *)
(* BitReader).                                                             *)
(***************************************************************************)
EXTENDS Integers, Sequences

CONSTANTS
  K,          (* 16384: the unit of fragmentation, the first length that needs it *)
  MaxFactor,  (* 4: the most units in one fragment                                *)
  Lengths,    (* the lengths of the payloads                                      *)
  MaxPayloads (* bound: how many payloads are written                             *)

ASSUME OpenTypeAssumption ==
  /\ K \in Nat \ {0} /\ MaxFactor \in Nat \ {0}
  /\ Lengths \subseteq Nat /\ MaxPayloads \in Nat

VARIABLES
  sent,               (* the lengths of the payloads handed to WriteOpenType      *)
  done, writing,      (* its loop: octets written so far; whether it is running   *)
  out,                (* the stream written                                       *)
  wire, pos,          (* what the decoder got of it; items it has read            *)
  step,               (* where ReadOpenType is                                    *)
  chunk, result,      (* its locals                                               *)
  got                 (* the payloads it returned                                 *)

writer == <<sent, done, writing, out>>
reader == <<wire, pos, step, chunk, result, got>>
vars   == <<writer, reader>>

Item == [kind : {"len", "frag", "octet"}, n : Nat, of : Nat, off : Nat]

(* Payload j (of length n), and the octets of it from one place to another. *)
Octet(j, k) == [kind |-> "octet", n |-> 0, of |-> j, off |-> k]
Slice(j, from, to) == [k \in 1 .. to - from |-> Octet(j, from + k)]
Payload(j, n) == Slice(j, 0, n)

(* WriteLengthDeterminant: a length below K is written as such, a longer   *)
(* one as the number of units, at most MaxFactor, that fit in it.  of and  *)
(* off say what it stands before, for the invariants only.                 *)
(* Mutant of Factor: as many units as there are. *)
FactorUncapped(n) == n \div K

Factor(n) == IF n \div K > MaxFactor THEN MaxFactor ELSE n \div K
Determinant(n, j, off) ==
  IF n < K
    THEN [kind |-> "len",  n |-> n,         of |-> j, off |-> off]
    ELSE [kind |-> "frag", n |-> Factor(n), of |-> j, off |-> off]

Init ==
  /\ sent = <<>> /\ done = 0 /\ writing = FALSE /\ out = <<>>
  /\ wire = <<>> /\ pos = 0 /\ step = "none" /\ chunk = 0 /\ result = <<>> /\ got = <<>>

-----------------------------------------------------------------------------
(* The encoder. *)
field == Len(sent)
left  == sent[field] - done

(* Mutant of WriteOpenType: a payload of K octets goes without a terminator. *)
WriteOpenTypeOffByOne(n) ==
  /\ step = "none" /\ ~writing /\ field < MaxPayloads
  /\ sent' = Append(sent, n)
  /\ IF n <= K
       THEN /\ out' = out \o <<Determinant(n, field + 1, 0)>> \o Payload(field + 1, n)
            /\ UNCHANGED <<writing, done>>
       ELSE writing' = TRUE /\ done' = 0 /\ UNCHANGED out
  /\ UNCHANGED reader

WriteOpenType(n) ==
  /\ step = "none" /\ ~writing /\ field < MaxPayloads
  /\ sent' = Append(sent, n)
  /\ IF n < K
       THEN /\ out' = out \o <<Determinant(n, field + 1, 0)>> \o Payload(field + 1, n)
            /\ UNCHANGED <<writing, done>>
       ELSE writing' = TRUE /\ done' = 0 /\ UNCHANGED out
  /\ UNCHANGED reader

WriteFragment ==
  /\ writing /\ left >= K
  /\ LET size == Factor(left) * K
     IN  /\ out' = out \o <<Determinant(left, field, done)>> \o Slice(field, done, done + size)
         /\ done' = done + size
  /\ UNCHANGED <<sent, writing, reader>>

WriteRemaining ==
  /\ writing /\ left < K
  /\ out' = out \o <<Determinant(left, field, done)>> \o Slice(field, done, sent[field])
  /\ writing' = FALSE
  /\ UNCHANGED <<sent, done, reader>>

(* Bytes are handed to a decoder, all of them or a prefix. *)
Receive ==
  /\ step = "none" /\ ~writing
  /\ \E n \in 0 .. Len(out) : wire' = SubSeq(out, 1, n)
  /\ step' = "idle"
  /\ UNCHANGED <<writer, pos, chunk, result, got>>

-----------------------------------------------------------------------------
(* The decoder.  Reading a determinant takes whatever stands at pos: "len" *)
(* and "frag" are told apart by their first bits; a payload octet in that  *)
(* place would be taken for a determinant, and a fragment of no unit, or   *)
(* of more than MaxFactor, is refused: both are "desync".                  *)
Fail(how) == step' = how /\ UNCHANGED <<pos, chunk, result, got>>

ReadDeterminant ==
  /\ pos < Len(wire)
  /\ LET item == wire[pos + 1]
     IN  /\ item.kind = "len" \/ (item.kind = "frag" /\ item.n \in 1 .. MaxFactor)
         /\ chunk' = IF item.kind = "len" THEN item.n ELSE item.n * K
  /\ pos' = pos + 1

NoDeterminant ==
  \/ pos = Len(wire) /\ Fail("eof")
  \/ /\ pos < Len(wire) /\ wire[pos + 1].kind # "len"
     /\ ~(wire[pos + 1].kind = "frag" /\ wire[pos + 1].n \in 1 .. MaxFactor)
     /\ Fail("desync")

(* A payload is asked for as long as the caller knows one was sent. *)
ReadOpenType ==
  /\ step = "idle" /\ Len(got) < Len(sent)
  /\ \/ ReadDeterminant /\ result' = <<>> /\ step' = "data" /\ UNCHANGED got
     \/ NoDeterminant
  /\ UNCHANGED <<writer, wire>>

(* Mutants of ReadChunk: every chunk is taken for one unit; a fragment with  *)
(* fewer units than it can have ends the transfer.                           *)
ReadChunkOneUnit ==
  /\ step = "data"
  /\ pos' = pos + K /\ result' = result \o SubSeq(wire, pos + 1, Len(wire))
  /\ step' = "next"
  /\ UNCHANGED <<chunk, got, writer, wire>>

ReadChunkStopsEarly ==
  /\ step = "data"
  /\ IF Len(wire) - pos < chunk
       THEN Fail("eof")
       ELSE LET read == result \o SubSeq(wire, pos + 1, pos + chunk)
            IN  /\ pos' = pos + chunk
                /\ IF chunk < MaxFactor * K
                     THEN step' = "idle" /\ got' = Append(got, read) /\ result' = <<>>
                     ELSE step' = "next" /\ result' = read /\ UNCHANGED got
                /\ UNCHANGED chunk
  /\ UNCHANGED <<writer, wire>>

ReadChunk ==
  /\ step = "data"
  /\ IF Len(wire) - pos < chunk
       THEN Fail("eof")
       ELSE LET read == result \o SubSeq(wire, pos + 1, pos + chunk)
            IN  /\ pos' = pos + chunk
                /\ IF chunk < K
                     THEN step' = "idle" /\ got' = Append(got, read) /\ result' = <<>>
                     ELSE step' = "next" /\ result' = read /\ UNCHANGED got
                /\ UNCHANGED chunk
  /\ UNCHANGED <<writer, wire>>

(* A determinant of 0 ends the payload without another ReadBytes. *)
ReadNext ==
  /\ step = "next"
  /\ \/ /\ ReadDeterminant
        /\ IF chunk' = 0
             THEN step' = "idle" /\ got' = Append(got, result) /\ result' = <<>>
             ELSE step' = "data" /\ UNCHANGED <<got, result>>
     \/ NoDeterminant
  /\ UNCHANGED <<writer, wire>>

(* The decoder has returned every payload, or an error. *)
Finished ==
  /\ step = "eof" \/ (step = "idle" /\ Len(got) = Len(sent))
  /\ UNCHANGED vars

Encode == (\E n \in Lengths : WriteOpenType(n)) \/ WriteFragment \/ WriteRemaining
Decode == ReadOpenType \/ ReadChunk \/ ReadNext

Next == Encode \/ Receive \/ Decode \/ Finished

Spec == Init /\ [][Next]_vars

(* A decoder that was called runs to its end; nothing obliges anybody to   *)
(* call it.                                                                *)
FairSpec == Spec /\ WF_vars(Decode)

-----------------------------------------------------------------------------
TypeOK ==
  /\ sent \in Seq(Nat) /\ done \in Nat /\ writing \in BOOLEAN /\ out \in Seq(Item)
  /\ wire \in Seq(Item) /\ pos \in 0 .. Len(wire)
  /\ step \in {"none", "idle", "data", "next", "eof", "desync"}
  /\ chunk \in Nat /\ result \in Seq(Item) /\ got \in Seq(Seq(Item))

(* The decoder never takes a payload octet for a determinant, and what it  *)
(* takes for payload is the payload it is reading, up to the place it has  *)
(* reached: a truncated stream makes it stop, never lose step, and nothing *)
(* but a truncated stream does.                                            *)
InStep ==
  /\ step # "desync"
  /\ result = Payload(Len(got) + 1, Len(result))
  /\ step \in {"data", "next"} => Len(result) <= sent[Len(got) + 1]
  /\ step = "eof" => Len(wire) < Len(out)

(* When all is read that was sent, it has consumed the input to its end    *)
(* and no further: an extension's siblings follow at once.                 *)
StopsAtTheEnd ==
  step = "idle" /\ Len(got) = Len(sent) => pos = Len(out) /\ Len(wire) = Len(out)

Ch == INSTANCE Channel WITH
        sent  <- IF step = "none" THEN <<>>
                 ELSE [j \in 1 .. Len(sent) |-> Payload(j, sent[j])],
        got   <- got,
        lost  <- step = "eof"

(* The open types of a message are a channel: every payload is delivered   *)
(* as it was written, in order, unless the message was cut.                *)
Transfers == Ch!CSpec
=============================================================================
