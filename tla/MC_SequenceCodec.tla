--------------------------- MODULE MC_SequenceCodec ---------------------------
(* A mandatory root field between two OPTIONAL ones; a version that is not  *)
(* extensible, and extensible ones with no addition up to three.            *)
EXTENDS SequenceCodec

MCRoot == <<TRUE, FALSE, TRUE>>
MCVersions ==
  {[extensible |-> FALSE, additions |-> 0]} \union [extensible : {TRUE}, additions : 0 .. 3]
=============================================================================
