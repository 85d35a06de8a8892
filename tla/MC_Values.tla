------------------------------ MODULE MC_Values ------------------------------
(* Values with 8-bit integers, 4-bit octets and 2-bit characters: one       *)
(* determinant octet holds a length below 8, two one below 64, and a unit   *)
(* is 64; 4 is a character that is not ASCII.  Bounds and values sit at 0,  *)
(* at every such edge and at both ends of the machine.  Sizes are fixed or  *)
(* variable, their ranges a power of two or not; alphabets have 4, 3, 2 and *)
(* 1 characters.                                                            *)
EXTENDS Values, SequencesExt

Edges == {-128, -127, -9, -1, 0, 1, 2, 6, 7, 8, 15, 16, 63, 127}
Naturals8 == 0 .. 17 \union {126, 127, 128, 255}
LengthsTried == -1 .. 70 \union {127, 128, 129, 191, 192, 200, 300}

Constrained == [op : {"constrained"}, val : Edges, lb : Edges, ub : Edges]
SemiConstrained == [op : {"semi"}, val : Edges, lb : Edges, ub : {0}]
Small == [op : {"small"}, val : Naturals8, lb : {0}, ub : {0}]
Length == [op : {"length"}, val : LengthsTried, lb : {0}, ub : {0}]

Sizes == {<<0, 0>>, <<2, 2>>, <<3, 3>>, <<5, 5>>, <<0, 2>>, <<1, 3>>, <<2, 6>>}
Of(op, s, from, bounds) ==
  [op |-> op, held |-> s, len |-> Len(s), from |-> from, lb |-> bounds[1], ub |-> bounds[2]]

BitStrings ==
  {[Of("bits", held, {}, bounds) EXCEPT !.len = len] :
     held \in SeqOf({0, 1}, 4), len \in 0 .. 4, bounds \in Sizes}
  \union {[Of("bits", <<1, 0, 1, 1>> \o rest, {}, bounds) EXCEPT !.len = len] :
     rest \in SeqOf({0, 1}, 4), len \in 5 .. 7, bounds \in Sizes}
Octets  == {Of("octets", s, {}, bounds) : s \in SeqOf({0, 6, 15}, 3), bounds \in Sizes}
IA5     == {Of(op, s, {}, bounds) : op \in {"ia5", "list"}, s \in SeqOf({0, 1, 3}, 3), bounds \in Sizes}
NotAscii == {Of(op, s, {}, bounds) : op \in {"ia5", "unsized"}, s \in {<<4>>, <<1, 4>>, <<4, 2>>}, bounds \in Sizes}
Visible == {Of("visible", s, from, bounds) :
              s \in SeqOf({0, 1, 2, 3}, 2) \union SeqOf({1, 2}, 3),
              from \in {{}, {0, 2, 3}, {1, 2}, {2}}, bounds \in Sizes}
Unsized == {Of("unsized", s, {}, <<0, 0>>) :
              s \in SeqOf({0, 1, 3}, 3) \union {[k \in 1 .. n |-> k % 4] : n \in {7, 8, 63, 64, 65, 128, 130}}}

Numerical == Constrained \union SemiConstrained \union Small \union Length
MCCalls == Numerical
           \union {c \in BitStrings : Len(c.held) = ((c.len + 3) \div 4) * 4}
           \union Octets \union IA5 \union NotAscii \union Visible \union Unsized
MCTails == {<<>>, <<1>>}
MCNoise ==
  SeqOf({0, 1}, 7) \union
  {s \o t : s \in SeqOf({0, 1}, 5) , t \in {<<1, 1, 1, 1, 1, 1, 1, 1>>, <<0, 0, 0, 1, 0, 0, 0, 0>>}}
=============================================================================
