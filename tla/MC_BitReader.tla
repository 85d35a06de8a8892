---------------------------- MODULE MC_BitReader ----------------------------
(* Small instance of BitReader: inputs of no byte up to four, widths that  *)
(* are illegal (-1, 65), empty, whole bytes and neither.                   *)
EXTENDS BitReader

ByteA == [b \in 0 .. 7 |-> IF b \in {0, 3, 4} THEN 1 ELSE 0]
ByteB == [b \in 0 .. 7 |-> IF b < 5 THEN 1 ELSE 0]
MCInputs == {<<>>, <<ByteA>>, <<ByteA, ByteB>>, <<ByteB, ByteA, ByteA, ByteB>>}
MCWidths == {-1, 0, 3, 8, 11, 16, 65}
MCCounts == {-1, 0, 1, 2, 3}
=============================================================================
