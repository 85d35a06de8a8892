------------------------------- MODULE Channel -------------------------------
(***************************************************************************)
(* What every codec of this repository promises: the values the encoder    *)
(* was given come out of the decoder unchanged, in order, each once; the   *)
(* only excuse is that bits were lost on the way.                          *)
(***************************************************************************)
EXTENDS Naturals, Sequences

VARIABLES
  sent,  (* the values in the message handed to the decoder     *)
  got,   (* the values the decoder returned                     *)
  lost   (* whether the decoder ran out of input                *)

cvars == <<sent, got, lost>>

CInit == sent = <<>> /\ got = <<>> /\ lost = FALSE

Send ==
  /\ Len(sent') > Len(sent) /\ SubSeq(sent', 1, Len(sent)) = sent
  /\ UNCHANGED <<got, lost>>

Deliver ==
  /\ ~lost /\ Len(got) < Len(sent)
  /\ got' = Append(got, sent[Len(got) + 1])
  /\ UNCHANGED <<sent, lost>>

Lose == lost' = TRUE /\ UNCHANGED <<sent, got>>

CNext == Send \/ Deliver \/ Lose

(* What a decoder is handed it delivers in the end, unless bits were lost. *)
CSpec == CInit /\ [][CNext]_cvars /\ WF_cvars(Deliver)
=============================================================================
