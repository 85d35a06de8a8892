---------------------------- MODULE MC_BitWriter ----------------------------
(* Small instance of BitWriter.  Widths lie on both sides of a byte and    *)
(* include the negative and the zero one; the word has ones above every    *)
(* width, which must not reach the stream.                                 *)
EXTENDS BitWriter

Mixed == [k \in 0 .. 63 |-> IF k % 3 = 0 THEN 1 ELSE 0]
MCWords  == {Mixed}
MCWidths == {-1, 0, 3, 8, 16, 72}
ByteA == [b \in 0 .. 7 |-> IF b \in {0, 7} THEN 1 ELSE 0]
ByteB == [b \in 0 .. 7 |-> IF b < 5 THEN 1 ELSE 0]
MCChunks == {<<>>, <<ByteA>>, <<ByteB, ByteA>>}
=============================================================================
