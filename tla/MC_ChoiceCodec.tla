---------------------------- MODULE MC_ChoiceCodec ----------------------------
(* Three alternatives in the root, whose index takes two bits and so can be *)
(* out of range, and up to three more.  10 stands for 1000; the first item  *)
(* added has the value that the second is moved to where it is unknown.     *)
EXTENDS ChoiceCodec

MCItems == <<0, 1, 4>>
MCMoreItems == <<11, 2, 5>>
MCVersions ==
  {[extensible |-> FALSE, additions |-> 0]} \union [extensible : {TRUE}, additions : 0 .. 3]
=============================================================================
