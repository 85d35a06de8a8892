----------------------------- MODULE MC_OpenType -----------------------------
(* Small instance of OpenType: K = 3 and at most 2 units a fragment, with   *)
(* lengths below, at and above every multiple of K and of the fragment.     *)
EXTENDS OpenType

MCLengths == 0 .. 14
=============================================================================
