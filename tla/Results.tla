------------------------------- MODULE Results -------------------------------
(***************************************************************************)
(* What an encoder returns: what it has written, or a refusal.  What a     *)
(* decoder returns: a value and how much it has read, or why it failed.    *)
(***************************************************************************)

Refused == [ok |-> FALSE, bits |-> <<>>]
Encoded(bits) == [ok |-> TRUE, bits |-> bits]
Decoded(value, used) == [status |-> "ok", value |-> value, used |-> used]
Failed(status) == [status |-> status, value |-> 0, used |-> 0]
=============================================================================
