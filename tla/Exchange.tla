------------------------------ MODULE Exchange ------------------------------
(***************************************************************************)
(* One value on its way: an encoder writes it or refuses it; a decoder is  *)
(* handed the bits written, followed by others, or a part of them, or any  *)
(* bits at all, and answers.  The modules that extend this one say how a   *)
(* value is encoded and decoded.                                           *)
(***************************************************************************)
EXTENDS Naturals, Sequences

CONSTANTS
  Calls,  (* what is written, each with the type a decoder expects *)
  Tails,  (* what may follow it                                    *)
  Noise   (* other bits a decoder may be handed                    *)

VARIABLES
  call,    (* the value written, with its type                       *)
  stage,   (* "start", "refused", "whole", "cut", "noise", "end"     *)
  wire,    (* the bits the decoder is handed                         *)
  size,    (* how many bits were written, all handed over or not     *)
  sort,    (* history: which kind of input was decoded               *)
  answer   (* what the decoder returned: status, value, bits used    *)

vars == <<call, stage, wire, size, sort, answer>>

Init ==
  /\ call \in Calls /\ stage = "start"
  /\ wire = <<>> /\ size = 0 /\ sort = "none"
  /\ answer = [status |-> "none", value |-> 0, used |-> 0]

Hand(kind, bits, n) ==
  /\ stage' = kind /\ sort' = kind
  /\ wire' = bits /\ size' = n
  /\ UNCHANGED <<call, answer>>

(* encoded is what the encoder returned: ok, and the bits it has written.  *)
Write(encoded) ==
  stage = "start" /\ encoded.ok /\ \E tail \in Tails : Hand("whole", encoded.bits \o tail, Len(encoded.bits))

WriteCut(encoded) ==
  stage = "start" /\ encoded.ok /\ \E n \in 0 .. Len(encoded.bits) - 1 :
    Hand("cut", SubSeq(encoded.bits, 1, n), Len(encoded.bits))

Refuse(encoded) == stage = "start" /\ ~encoded.ok /\ Hand("refused", <<>>, 0)

ReceiveNoise == stage = "start" /\ \E bits \in Noise : Hand("noise", bits, 0)

Read(decoded) ==
  /\ stage \in {"whole", "cut", "noise"}
  /\ answer' = decoded
  /\ stage' = "end"
  /\ UNCHANGED <<call, wire, size, sort>>

Stages == {"start", "refused", "whole", "cut", "noise", "end"}
=============================================================================
