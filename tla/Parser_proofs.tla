----------------------------- MODULE Parser_proofs -----------------------------
(***************************************************************************)
(* The parser, on the tokens of any text: it moves on, to at most one      *)
(* token after EOF, and accepts nothing but whole modules. And the lexer,  *)
(* on any text: the tokens are the text, if comments are opened as they    *)
(* should be.                                                              *)
(*                                                                         *)
(* The invariant (Inv) says what the lexer hands over, that EOF is the     *)
(* last token and no other, and how deep the stack is in each loop: the    *)
(* module at the bottom and nowhere else, a type above it wherever a type  *)
(* is being parsed. So what a method returns to is there. That of the      *)
(* lexer (TextInv) says that the spellings of the tokens so far and what   *)
(* is kept of the text from here on are, together, what is kept of all of  *)
(* it; from the second half of this module on, what is kept at a position, *)
(* a recursive function, is shown to begin with the spelling of the token. *)
(***************************************************************************)
EXTENDS Parser, TLAPS, WellFoundedInduction

-----------------------------------------------------------------------------
(* Sequences of anything, frames of the stack among them. *)
IsSeq(s) == Len(s) \in Nat /\ s = [i \in 1..Len(s) |-> s[i]]

(* A sequence over some set is a sequence. *)
LEMMA SeqIsSeq ==
  ASSUME NEW X, NEW s \in Seq(X)
  PROVE  IsSeq(s)
<1> DEFINE n == Len(s)
<1>1. n \in Nat /\ s \in [1..n -> X]
  OBVIOUS
<1> HIDE DEF n
<1>2. s = [i \in 1..n |-> s[i]]
  BY <1>1
<1> QED BY <1>1, <1>2 DEF n, IsSeq

(* Any sequence is one over the set of its elements. *)
Elements(s) == {s[i] : i \in 1..Len(s)}
LEMMA IsSeqOver ==
  ASSUME NEW s, IsSeq(s), NEW X, Elements(s) \subseteq X
  PROVE  s \in Seq(X)
<1> DEFINE n == Len(s)
<1>1. n \in Nat /\ s = [i \in 1..n |-> s[i]] /\ \A i \in 1..n : s[i] \in X
  BY DEF IsSeq, Elements
<1> HIDE DEF n
<1> QED BY <1>1

(* One more at the end. *)
Pushed(s, x, t) ==
  /\ IsSeq(t) /\ Len(t) = Len(s) + 1 /\ t[Len(t)] = x
  /\ \A i \in 1..Len(s) : t[i] = s[i]
LEMMA AppendPushes ==
  ASSUME NEW s, IsSeq(s), NEW x
  PROVE  Pushed(s, x, Append(s, x))
<1> DEFINE X == Elements(s) \union {x}
           t == Append(s, x)
<1>1. Elements(s) \subseteq X /\ x \in X
  OBVIOUS
<1> HIDE DEF X
<1>2. s \in Seq(X)
  BY <1>1, IsSeqOver
<1>3. /\ t \in Seq(X) /\ Len(t) = Len(s) + 1 /\ t[Len(s) + 1] = x
      /\ \A i \in 1..Len(s) : t[i] = s[i]
  BY <1>1, <1>2
<1> HIDE DEF t
<1>4. IsSeq(t)
  BY <1>3, SeqIsSeq
<1>5. Pushed(s, x, t)
  BY <1>3, <1>4 DEF Pushed
<1> QED BY <1>5 DEF t

(* One less. *)
Popped(s, t) ==
  /\ IsSeq(t) /\ Len(t) = Len(s) - 1
  /\ \A i \in 1..Len(t) : t[i] = s[i]
LEMMA FrontPops ==
  ASSUME NEW s, IsSeq(s), Len(s) > 0
  PROVE  Popped(s, Front(s))
<1> DEFINE X == Elements(s)
           t == Front(s)
           m == Len(s) - 1
<1>1. s \in Seq(X) /\ Len(s) \in Nat
  BY IsSeqOver DEF IsSeq
<1> HIDE DEF X
<1>2. t = SubSeq(s, 1, m)
  BY DEF Front
<1>3. m \in Nat /\ Len(s) = m + 1
  BY <1>1
<1> HIDE DEF m, t
<1>4. t \in Seq(X) /\ Len(t) = m /\ \A i \in 1..m : t[i] = s[i]
  BY <1>1, <1>2, <1>3
<1>5. IsSeq(t)
  BY <1>4, SeqIsSeq
<1>6. Popped(s, t)
  BY <1>3, <1>4, <1>5 DEF Popped
<1> QED BY <1>6 DEF t

(* The last replaced. *)
Replaced(s, x, t) ==
  /\ IsSeq(t) /\ Len(t) = Len(s) /\ t[Len(t)] = x
  /\ \A i \in 1..Len(s) - 1 : t[i] = s[i]
LEMMA RebuildReplaces ==
  ASSUME NEW s, IsSeq(s), Len(s) > 0, NEW x
  PROVE  Replaced(s, x, Append(Front(s), x))
<1> DEFINE f == Front(s)
           t == Append(f, x)
<1>1. IsSeq(f) /\ Len(f) = Len(s) - 1 /\ \A i \in 1..Len(f) : f[i] = s[i]
  BY FrontPops DEF Popped
<1> HIDE DEF f
<1>2. IsSeq(t) /\ Len(t) = Len(f) + 1 /\ t[Len(t)] = x /\ \A i \in 1..Len(f) : t[i] = f[i]
  BY <1>1, AppendPushes DEF Pushed
<1> HIDE DEF t
<1>3. Replaced(s, x, t)
  BY <1>1, <1>2 DEF Replaced, IsSeq
<1> QED BY <1>3 DEF t, f

-----------------------------------------------------------------------------
(* The stack: the module first, and types under construction above it. *)
IsNode(n) == "kind" \in DOMAIN n /\ n = [f \in DOMAIN n |-> n[f]]
Shape(s, n) ==
  /\ IsSeq(s) /\ Len(s) = n
  /\ \A i \in 1..n : IsNode(s[i].node) /\ (s[i].node.kind = "Module" <=> i = 1)

(* What a step does to the stack leaves it in shape: a node pushed, ... *)
LEMMA PushInShape ==
  ASSUME NEW n \in Nat, NEW s, Shape(s, n),
         NEW node, IsNode(node), node.kind = "Module" <=> n = 0, NEW name
  PROVE  Shape(Append(s, [node |-> node, name |-> name]), n + 1)
<1> DEFINE x == [node |-> node, name |-> name]
           t == Append(s, x)
<1>1. x.node = node
  OBVIOUS
<1>2. /\ IsSeq(t) /\ Len(t) = n + 1 /\ t[n + 1] = x
      /\ \A i \in 1..n : t[i] = s[i]
  <2> HIDE DEF x
  <2> QED BY AppendPushes DEF Shape, Pushed
<1> HIDE DEF x, t
<1>3. ASSUME NEW i \in 1..n + 1
      PROVE  IsNode(t[i].node) /\ (t[i].node.kind = "Module" <=> i = 1)
  <2>1. CASE i = n + 1
    BY <2>1, <1>1, <1>2
  <2>2. CASE i # n + 1
    <3>1. i \in 1..n
      BY <2>2
    <3> QED BY <3>1, <1>2 DEF Shape
  <2> QED BY <2>1, <2>2
<1>4. Shape(t, n + 1)
  BY <1>2, <1>3 DEF Shape
<1> QED BY <1>4 DEF t, x

(* ... the last one popped, ... *)
LEMMA PopInShape ==
  ASSUME NEW n \in Nat, NEW s, Shape(s, n), n > 0
  PROVE  Shape(Front(s), n - 1)
<1> DEFINE t == Front(s)
<1>1. IsSeq(t) /\ Len(t) = n - 1 /\ \A i \in 1..n - 1 : t[i] = s[i]
  BY FrontPops DEF Shape, Popped
<1> HIDE DEF t
<1>2. \A i \in 1..n - 1 : i \in 1..n
  OBVIOUS
<1>3. Shape(t, n - 1)
  BY <1>1, <1>2 DEF Shape
<1> QED BY <1>3 DEF t

(* ... or the last one rebuilt, with its kind as it was. *)
LEMMA RebuildInShape ==
  ASSUME NEW n \in Nat, NEW s, Shape(s, n), n > 0,
         NEW node, IsNode(node), node.kind = Last(s).node.kind, NEW name
  PROVE  Shape(Append(Front(s), [node |-> node, name |-> name]), n)
<1>1. Len(s) = n /\ Last(s) = s[n]
  BY DEF Last, Shape
<1>2. s[n].node.kind = "Module" <=> n = 1
  BY DEF Shape
<1>3. Shape(Front(s), n - 1)
  BY PopInShape
<1>4. node.kind = "Module" <=> n - 1 = 0
  BY <1>1, <1>2
<1> DEFINE m == n - 1
<1>5. m \in Nat /\ n = m + 1
  OBVIOUS
<1> HIDE DEF m
<1>6. Shape(Append(Front(s), [node |-> node, name |-> name]), m + 1)
  BY <1>3, <1>4, <1>5, PushInShape DEF m
<1> QED BY <1>5, <1>6

(* A field of a node assigned: it stays a node, of the kind it was. *)
SameNode(n, m) == IsNode(m) /\ m.kind = n.kind
LEMMA NodeExcept ==
  ASSUME NEW n, IsNode(n), NEW f, f # "kind", NEW x
  PROVE  SameNode(n, [n EXCEPT ![f] = x])
<1> DEFINE d == DOMAIN n
           m == [n EXCEPT ![f] = x]
<1>1. n = [g \in d |-> n[g]] /\ "kind" \in d
  BY DEF IsNode
<1>2. m = [g \in d |-> IF g = f THEN x ELSE n[g]]
  BY <1>1
<1> HIDE DEF d, m
<1>3. DOMAIN m = d /\ m = [g \in d |-> m[g]] /\ m["kind"] = n["kind"]
  BY <1>1, <1>2
<1>4. SameNode(n, m)
  BY <1>1, <1>3 DEF IsNode, SameNode
<1> QED BY <1>4 DEF m
LEMMA FieldsExcept ==
  ASSUME NEW n, IsNode(n), NEW x
  PROVE  /\ SameNode(n, [n EXCEPT !.types = x])
         /\ SameNode(n, [n EXCEPT !.values = x])
         /\ SameNode(n, [n EXCEPT !.extensible = x])
         /\ SameNode(n, [n EXCEPT !.root = x])
         /\ SameNode(n, [n EXCEPT !.more = x])
         /\ SameNode(n, [n EXCEPT !.bounds = x])
         /\ SameNode(n, [n EXCEPT !.alphabet = x])
         /\ SameNode(n, [n EXCEPT !.of = x])
<1>1. SameNode(n, [n EXCEPT !.types = x])
  BY NodeExcept, "types" # "kind"
<1>2. SameNode(n, [n EXCEPT !.values = x])
  BY NodeExcept, "values" # "kind"
<1>3. SameNode(n, [n EXCEPT !.extensible = x])
  BY NodeExcept, "extensible" # "kind"
<1>4. SameNode(n, [n EXCEPT !.root = x])
  BY NodeExcept, "root" # "kind"
<1>5. SameNode(n, [n EXCEPT !.more = x])
  BY NodeExcept, "more" # "kind"
<1>6. SameNode(n, [n EXCEPT !.bounds = x])
  BY NodeExcept, "bounds" # "kind"
<1>7. SameNode(n, [n EXCEPT !.alphabet = x])
  BY NodeExcept, "alphabet" # "kind"
<1>8. SameNode(n, [n EXCEPT !.of = x])
  BY NodeExcept, "of" # "kind"
<1> QED BY <1>1, <1>2, <1>3, <1>4, <1>5, <1>6, <1>7, <1>8

-----------------------------------------------------------------------------
(* The tokens of a file, and where one of them can be.                     *)
Ended ==
  tokens # <<>> /\ \A i \in DOMAIN tokens : tokens[i].type = "EOF" <=> i = Len(tokens)
File == IsSeq(tokens) /\ Ended

(* EOF is the last token and the only one. *)
LEMMA FileFacts ==
  ASSUME File
  PROVE  /\ Len(tokens) \in Nat \ {0} /\ DOMAIN tokens = 1..Len(tokens)
         /\ \A p \in DOMAIN tokens : tokens[p].type = "EOF" <=> p = Len(tokens)
<1> DEFINE n == Len(tokens)
<1>1. n \in Nat /\ tokens = [i \in 1..n |-> tokens[i]] /\ tokens # <<>>
  BY DEF File, IsSeq, Ended
<1> HIDE DEF n
<1>2. n # 0
  BY <1>1
<1>3. DOMAIN tokens = 1..n
  BY <1>1
<1>4. \A p \in DOMAIN tokens : tokens[p].type = "EOF" <=> p = n
  BY DEF File, Ended, n
<1> QED BY <1>1, <1>2, <1>3, <1>4 DEF n

(* Any other token is before it. *)
Before(p) == p \in 1..Len(tokens) - 1
LEMMA TokenThere ==
  ASSUME File, NEW p, ~Is(p, "EOF")
  PROVE  Before(p)
<1>1. p \in DOMAIN tokens /\ tokens[p].type # "EOF"
  BY DEF Is, Tok
<1>2. p \in 1..Len(tokens) /\ p # Len(tokens) /\ Len(tokens) \in Nat
  BY <1>1, FileFacts
<1> QED BY <1>2 DEF Before
LEMMA IsThere ==
  ASSUME File, NEW p, NEW type, Is(p, type), type # "EOF"
  PROVE  Before(p)
<1>1. ~Is(p, "EOF")
  BY DEF Is
<1> QED BY <1>1, TokenThere

(* A number is a token. *)
LEMMA NumberThere ==
  ASSUME File, NEW p, IsNumber(Text(p))
  PROVE  p \in 1..Len(tokens)
<1>1. Text(p) # ""
  BY DEF IsNumber
<1>2. p \in DOMAIN tokens
  BY <1>1 DEF Text, Tok
<1> QED BY <1>2, FileFacts

(* Where a constraint ends: nowhere, or after a token of its own. *)
After(p, q) == q = 0 \/ (q \in Nat /\ q > p /\ q \in 1..Len(tokens))
LEMMA RangeEnds ==
  ASSUME File, NEW p \in Nat
  PROVE  After(p, RangeConstraint(p).next)
<1> DEFINE e == RangeConstraint(p).next
<1>1. \/ e = 0
      \/ Is(p + 4, ")") /\ e = p + 5
      \/ Is(p + 2, ")") /\ e = p + 3
  BY DEF RangeConstraint, Span, Wrong
<1> SUFFICES After(p, e)
  OBVIOUS
<1> HIDE DEF e
<1>2. Len(tokens) \in Nat
  BY FileFacts
<1>3. CASE Is(p + 4, ")") /\ e = p + 5
  <2>1. Before(p + 4)
    BY <1>3, IsThere
  <2> QED BY <1>2, <1>3, <2>1 DEF Before, After
<1>4. CASE Is(p + 2, ")") /\ e = p + 3
  <2>1. Before(p + 2)
    BY <1>4, IsThere
  <2> QED BY <1>2, <1>4, <2>1 DEF Before, After
<1> QED BY <1>1, <1>3, <1>4 DEF After

(* ... or, when there is none, where it would have begun. *)
LEMMA SizeEnds ==
  ASSUME File, NEW p \in Nat
  PROVE  SizeConstraint(p).next = p \/ After(p, SizeConstraint(p).next)
<1>1. CASE ~Is(p, "(")
  BY <1>1 DEF SizeConstraint, Span
<1>2. CASE Is(p, "(")
  <2> DEFINE e == RangeConstraint(p + 2).next
             s == SizeConstraint(p).next
  <2>1. s = 0 \/ (Is(e, ")") /\ s = e + 1)
    BY <1>2 DEF SizeConstraint, Span, Wrong
  <2>2. After(p + 2, e)
    BY RangeEnds
  <2> SUFFICES After(p, s)
    OBVIOUS
  <2> HIDE DEF e, s
  <2>3. CASE Is(e, ")") /\ s = e + 1
    <3>1. Before(e)
      BY <2>3, IsThere
    <3>2. Len(tokens) \in Nat
      BY FileFacts
    <3> QED BY <2>2, <2>3, <3>1, <3>2 DEF Before, After
  <2> QED BY <2>1, <2>3 DEF After
<1> QED BY <1>1, <1>2
LEMMA IntegerEnds ==
  ASSUME File, NEW p \in Nat
  PROVE  IntegerConstraint(p).next = p \/ After(p, IntegerConstraint(p).next)
<1>1. CASE ~Is(p, "(")
  BY <1>1 DEF IntegerConstraint, Span
<1>2. CASE Is(p, "(")
  BY <1>2, RangeEnds DEF IntegerConstraint
<1> QED BY <1>1, <1>2
LEMMA SequenceOfEnds ==
  ASSUME File, NEW p \in Nat
  PROVE  After(p, SequenceOfRest(p).next)
<1> DEFINE r == IF Is(p, "SIZE") THEN RangeConstraint(p + 1) ELSE SizeConstraint(p)
           e == r.next
           s == SequenceOfRest(p).next
<1>1. s = 0 \/ (Is(e, "OF") /\ s = e + 1)
  BY DEF SequenceOfRest, Span, Wrong
<1>2. e = p \/ After(p, e) \/ After(p + 1, e)
  <2>1. CASE Is(p, "SIZE")
    BY <2>1, RangeEnds
  <2>2. CASE ~Is(p, "SIZE")
    BY <2>2, SizeEnds
  <2> QED BY <2>1, <2>2
<1> SUFFICES After(p, s)
  OBVIOUS
<1> HIDE DEF e, s, r
<1>3. CASE Is(e, "OF") /\ s = e + 1
  <2>1. Before(e)
    BY <1>3, IsThere
  <2>2. Len(tokens) \in Nat
    BY FileFacts
  <2> QED BY <1>2, <1>3, <2>1, <2>2 DEF Before, After
<1> QED BY <1>1, <1>3 DEF After

(* The first token of some types, the end of the file among them. *)
LEMMA FirstFound ==
  ASSUME File, NEW p \in 1..Len(tokens) + 1, NEW types, "EOF" \in types
  PROVE  /\ FirstOf(types, p) \in p..Len(tokens) + 1
         /\ Tok(FirstOf(types, p)).type \in types
<1> DEFINE n == Len(tokens) + 1
           S == {q \in Nat : q \in p..n /\ Tok(q).type \in types}
           R == OpToRel(<, Nat)
<1>1. n \in Nat /\ p \in Nat /\ p <= n
  BY FileFacts
<1>2. n \in S
  <2>1. Tok(n).type = "EOF"
    <3>1. n \notin DOMAIN tokens
      BY FileFacts
    <3> HIDE DEF n
    <3> QED BY <3>1 DEF Tok
  <2> HIDE DEF n
  <2> QED BY <1>1, <2>1
<1>3. PICK q \in S : \A k \in S : ~(k < q)
  <2>1. IsWellFoundedOn(R, Nat)
    BY NatLessThanWellFounded
  <2>2. \E q \in S : \A k \in S : <<k, q>> \notin R
    <3> HIDE DEF R, n
    <3>1. S \subseteq Nat /\ S # {}
      BY <1>2
    <3> HIDE DEF S
    <3> QED BY <2>1, <3>1, WFMin
  <2>3. \A k, q \in Nat : k < q => <<k, q>> \in R
    BY DEF OpToRel
  <2> HIDE DEF R, n
  <2> QED BY <2>2, <2>3
<1> HIDE DEF n
<1>4. /\ q \in p..n /\ Tok(q).type \in types
      /\ \A k \in p..(q - 1) : Tok(k).type \notin types
  BY <1>1, <1>3
<1>5. FirstOf(types, p) \in p..n /\ Tok(FirstOf(types, p)).type \in types
  BY <1>4 DEF FirstOf, n
<1> QED BY <1>5 DEF n

-----------------------------------------------------------------------------
(* Where the parser is, and what it has under construction there.          *)
Depth(g, n) ==
  /\ g = "file" => n = 0
  /\ g \in {"imports", "assignments"} => n = 1
  /\ g \in {"type", "returned"} => n >= 1
  /\ g \in {"parts", "bits", "constraints", "alphabet"} => n >= 2
Position(p, g) ==
  /\ p \in 1..Len(tokens) + 1
  /\ g = "file" => p = 1 \/ (p \in 2..Len(tokens) + 1 /\ tokens[p - 1].type = "END")
Reading ==
  /\ File /\ Position(at, goal)
  /\ Shape(stack, Len(stack)) /\ Depth(goal, Len(stack))
(* Before, there is no EOF yet; after, no token at all. *)
Fresh == goal = "file" /\ stack = <<>>
NotEnded ==
  /\ IsSeq(tokens) /\ \A i \in DOMAIN tokens : tokens[i].type # "EOF"
  /\ at = 1
Inv ==
  /\ phase = "lex" => Fresh /\ NotEnded
  /\ phase = "parse" => Reading
  /\ phase = "next" => Fresh /\ tokens = <<>>

(* What a step may do: go on from here, ...                                *)
Progress(p, g, n) ==
  \/ p > at
  \/ n < Len(stack)
  \/ n = Len(stack) /\ goal = "returned" /\ g # "returned"
Moves(p, g, s) ==
  /\ p >= at /\ Position(p, g) /\ Shape(s, Len(s)) /\ Depth(g, Len(s))
  /\ Progress(p, g, Len(s)) \/ Stuck
(* ... fail, or accept the file.                                           *)
Accepted == stack = <<>> /\ (Len(tokens) > 1 => tokens[Len(tokens) - 1].type = "END")
Outcome ==
  \/ phase' = "failed"
  \/ phase' = "next" /\ Accepted /\ Fresh' /\ tokens' = <<>>
  \/ phase' = "parse" /\ tokens' = tokens /\ Moves(at', goal', stack')

(* The current state, by the names the steps use.                          *)
Now(n) ==
  /\ File /\ Len(tokens) \in Nat \ {0} /\ n \in Nat /\ Len(stack) = n
  /\ at \in Nat /\ at >= 1 /\ at <= Len(tokens) + 1
  /\ Shape(stack, n) /\ Depth(goal, n)
LEMMA InvNow ==
  ASSUME Inv, phase = "parse"
  PROVE  Now(Len(stack))
<1> DEFINE n == Len(stack)
           m == Len(tokens)
<1>1. m \in Nat \ {0}
  BY FileFacts DEF Inv, Reading
<1>2. n \in Nat
  BY DEF Inv, Reading, Shape, IsSeq
<1>3. at \in 1..m + 1
  BY DEF Inv, Reading, Position
<1>4. at \in Nat /\ at >= 1 /\ at <= m + 1
  BY <1>1, <1>3
<1> SUFFICES Now(n)
  OBVIOUS
<1> HIDE DEF n
<1>5. Len(stack) = n
  BY DEF n
<1>6. File /\ Shape(stack, n) /\ Depth(goal, n)
  BY DEF Inv, Reading, n
<1> QED BY <1>1, <1>2, <1>4, <1>5, <1>6 DEF Now

(* The node on top. *)
LEMMA TopIsNode ==
  ASSUME NEW n, Now(n), n > 0
  PROVE  IsNode(Node)
<1>1. Node = stack[n].node /\ n \in 1..n
  BY DEF Now, Node, Top, Last
<1> QED BY <1>1 DEF Now, Shape

(* Four ways to go on. The stack as it was: *)
LEMMA GoOn ==
  ASSUME NEW n, Now(n), NEW p, NEW g, Continue(p, g), phase = "parse", UNCHANGED stack,
         Depth(g, n), g # "file", p \in at..Len(tokens) + 1,
         p > at \/ Stuck \/ (goal = "returned" /\ g # "returned")
  PROVE  Outcome
<1>1. phase' = "parse" /\ tokens' = tokens /\ at' = p /\ goal' = g /\ stack' = stack
  BY DEF Continue, lexerVars
<1>2. Len(stack) = n /\ Shape(stack, n)
  BY DEF Now
<1>3. Position(p, g) /\ p >= at
  BY DEF Now, Position
<1>4. Moves(p, g, stack)
  BY <1>2, <1>3 DEF Moves, Progress
<1> QED BY <1>1, <1>4 DEF Outcome

(* ... a node pushed, ... *)
LEMMA GoDeeper ==
  ASSUME NEW n, Now(n), NEW p, NEW g, Continue(p, g), phase = "parse",
         NEW node, IsNode(node), node.kind = "Module" <=> n = 0, Push(node),
         Depth(g, n + 1), g # "file", p \in at + 1..Len(tokens) + 1
  PROVE  Outcome
<1> DEFINE s == Append(stack, [node |-> node, name |-> ""])
<1>1. phase' = "parse" /\ tokens' = tokens /\ at' = p /\ goal' = g /\ stack' = s
  BY DEF Continue, lexerVars, Push
<1>2. Shape(s, n + 1)
  BY PushInShape DEF Now
<1> HIDE DEF s
<1>3. Len(s) = n + 1
  BY <1>2 DEF Shape
<1>4. Position(p, g) /\ p > at /\ p >= at
  BY DEF Now, Position
<1>5. Moves(p, g, s)
  BY <1>2, <1>3, <1>4 DEF Moves, Progress
<1> QED BY <1>1, <1>5 DEF Outcome

(* ... the top rebuilt, ... *)
LEMMA GoOnRebuilt ==
  ASSUME NEW n, Now(n), n > 0, NEW p, NEW g, Continue(p, g), phase = "parse",
         NEW node, IsNode(node), node.kind = Node.kind, NEW name, Rebuild(node, name),
         Depth(g, n), g # "file", p \in at..Len(tokens) + 1,
         p > at \/ (goal = "returned" /\ g # "returned")
  PROVE  Outcome
<1> DEFINE s == Append(Front(stack), [node |-> node, name |-> name])
<1>1. phase' = "parse" /\ tokens' = tokens /\ at' = p /\ goal' = g /\ stack' = s
  BY DEF Continue, lexerVars, Rebuild
<1>2. Shape(s, n)
  BY RebuildInShape DEF Now, Node, Top
<1> HIDE DEF s
<1>3. Len(s) = n /\ Len(stack) = n
  BY <1>2 DEF Shape, Now
<1>4. Position(p, g) /\ p >= at
  BY DEF Now, Position
<1>5. Moves(p, g, s)
  BY <1>2, <1>3, <1>4 DEF Moves, Progress
<1> QED BY <1>1, <1>5 DEF Outcome

(* ... or a type completed and popped. *)
LEMMA GoBack ==
  ASSUME NEW n, Now(n), n > 1, phase = "parse",
         NEW p, NEW type, Complete(type, p), p \in at..Len(tokens) + 1
  PROVE  Outcome
<1> DEFINE s == Front(stack)
<1>1. /\ phase' = "parse" /\ tokens' = tokens /\ at' = p /\ goal' = "returned"
      /\ stack' = s
  BY DEF Complete, Continue, lexerVars
<1>2. Shape(s, n - 1)
  BY PopInShape DEF Now
<1> HIDE DEF s
<1>3. Len(s) = n - 1 /\ Len(stack) = n /\ n - 1 >= 1 /\ n - 1 < n
  BY <1>2 DEF Shape, Now
<1>4. Position(p, "returned") /\ p >= at
  BY DEF Now, Position
<1>5. Depth("returned", n - 1)
  BY <1>3 DEF Depth
<1>6. Moves(p, "returned", s)
  BY <1>2, <1>3, <1>4, <1>5 DEF Moves, Progress
<1> QED BY <1>1, <1>6 DEF Outcome

(* An error ends the parser. *)
LEMMA Failing ==
  ASSUME Fail
  PROVE  Outcome
BY DEF Fail, Outcome

(* Nothing is under construction between modules. *)
LEMMA EmptyInShape == Shape(<<>>, Len(<<>>)) /\ Depth("file", Len(<<>>))
<1>1. Len(<<>>) = 0 /\ IsSeq(<<>>)
  BY DEF IsSeq
<1> QED BY <1>1 DEF Shape, Depth

-----------------------------------------------------------------------------
(* Each step, in the order of Parse. *)
Ahead(p) == p \in at + 1..Len(tokens) + 1
LEMMA AheadOf ==
  ASSUME NEW n, Now(n), NEW k \in Nat, Before(at + k), NEW l \in 1..k + 2
  PROVE  Ahead(at + l)
<1> SUFFICES ASSUME NEW a, a = at, NEW m, m = Len(tokens)
             PROVE  a + l \in a + 1..m + 1
  BY DEF Ahead
<1>1. a \in Nat /\ m \in Nat /\ a + k <= m - 1
  BY DEF Now, Before
<1> QED BY <1>1
LEMMA AheadOfType ==
  ASSUME NEW n, Now(n), NEW k \in Nat, NEW type, Is(at + k, type), type # "EOF", NEW l \in 1..k + 2
  PROVE  Ahead(at + l)
BY AheadOf, IsThere DEF Now
LEMMA AheadOfAny ==
  ASSUME NEW n, Now(n), ~Is(at, "EOF"), NEW l \in 1..2
  PROVE  Ahead(at + l)
<1>1. Before(at + 0)
  <2>1. Before(at) /\ at + 0 = at
    BY TokenThere DEF Now
  <2> QED BY <2>1
<1>2. l \in 1..0 + 2
  OBVIOUS
<1> QED BY <1>1, <1>2, AheadOf

(* A comma is passed over, if it is there. *)
LEMMA CommaAhead ==
  ASSUME NEW n, Now(n), NEW p, p \in at + 1..Len(tokens)
  PROVE  Ahead(Comma(p))
<1> SUFFICES ASSUME NEW a, a = at, NEW m, m = Len(tokens)
             PROVE  Comma(p) \in a + 1..m + 1
  BY DEF Ahead
<1>1. Comma(p) = p \/ Comma(p) = p + 1
  BY DEF Comma
<1> QED BY <1>1 DEF Now

LEMMA FileStep ==
  ASSUME NEW n, Now(n), Inv, ParseFile
  PROVE  Outcome
<1>1. phase' = "next" /\ In("file") /\ Is(at, "EOF")
  BY DEF ParseFile
<1>2. Position(at, "file") /\ n = 0 /\ stack = <<>>
  <2>1. Position(at, "file") /\ n = 0
    BY <1>1 DEF In, Inv, Reading, Now, Depth
  <2>2. Len(stack) = 0 /\ IsSeq(stack)
    BY <2>1 DEF Now, Shape
  <2>3. stack = <<>>
    BY <2>2 DEF IsSeq
  <2> QED BY <2>1, <2>3
<1>3. at \in DOMAIN tokens => at = Len(tokens)
  BY <1>1, FileFacts DEF Now, Is, Tok
<1>4. Len(tokens) > 1 => tokens[Len(tokens) - 1].type = "END"
  <2> SUFFICES ASSUME Len(tokens) > 1
               PROVE  tokens[Len(tokens) - 1].type = "END"
    OBVIOUS
  <2>1. at # 1
    <3>1. 1 \in DOMAIN tokens
      BY FileFacts DEF Now
    <3> QED BY <3>1, <1>3
  <2>2. at \in 2..Len(tokens) + 1 /\ tokens[at - 1].type = "END"
    BY <1>2, <2>1 DEF Position
  <2>3. at # Len(tokens) + 1
    <3> SUFFICES ASSUME at = Len(tokens) + 1 PROVE FALSE
      OBVIOUS
    <3>1. Len(tokens) \in DOMAIN tokens /\ at - 1 = Len(tokens)
      BY FileFacts DEF Now
    <3>2. tokens[Len(tokens)].type = "EOF"
      BY <3>1, FileFacts DEF Now
    <3> QED BY <2>2, <3>1, <3>2
  <2>4. at \in 1..Len(tokens)
    BY <2>2, <2>3
  <2>5. at = Len(tokens)
    BY <2>4, <1>3, FileFacts DEF Now
  <2> QED BY <2>2, <2>5
<1>5. Fresh' /\ tokens' = <<>>
  BY <1>1, <1>2 DEF ParseFile, Fresh, parserVars, In
<1> QED BY <1>1, <1>2, <1>4, <1>5 DEF Outcome, Accepted

LEMMA ModuleStep ==
  ASSUME NEW n, Now(n), ParseModule
  PROVE  Outcome
<1> DEFINE p == HeaderEnd(at)
           q == ExportsEnd(p)
           node == Module(Text(at))
<1>0. phase = "parse" /\ n = 0
  BY DEF ParseModule, In, Now, Depth
<1>1. CASE p = 0 \/ (Is(p, "EXPORTS") /\ Is(q, "EOF"))
  BY <1>1, Failing DEF ParseModule
<1>2. CASE ~(p = 0 \/ (Is(p, "EXPORTS") /\ Is(q, "EOF")))
  <2>1. /\ Push(node)
        /\ IF Is(q + 1, "IMPORTS") THEN Continue(q + 2, "imports")
                                   ELSE Continue(q + 1, "assignments")
    BY <1>2 DEF ParseModule
  <2>2. IsNode(node) /\ node.kind = "Module"
    BY DEF Module, IsNode
  <2>3. p \in at + 1..Len(tokens)
    <3>1. CASE p = at + 4 /\ Are(at, <<"IDENT", "DEFINITIONS", "::=", "BEGIN">>)
      <4>1. Is(at + 4 - 1, "BEGIN")
        BY <3>1 DEF Are
      <4>2. Before(at + 4 - 1)
        BY <4>1, IsThere DEF Now
      <4> QED BY <3>1, <4>2 DEF Before, Now
    <3>2. CASE p = at + 6 /\ Are(at, <<"IDENT", "DEFINITIONS", "AUTOMATIC", "TAGS", "::=", "BEGIN">>)
      <4>1. Is(at + 6 - 1, "BEGIN")
        BY <3>2 DEF Are
      <4>2. Before(at + 6 - 1)
        BY <4>1, IsThere DEF Now
      <4> QED BY <3>2, <4>2 DEF Before, Now
    <3> QED BY <3>1, <3>2, <1>2 DEF HeaderEnd
  <2>4. q \in Nat /\ q + 1 \in at + 1..Len(tokens)
    <3>1. CASE ~Is(p, "EXPORTS")
      <4>1. q = p - 1
        BY <3>1 DEF ExportsEnd
      <4> HIDE DEF q, p
      <4>2. q + 1 = p /\ q \in Nat
        BY <2>3, <4>1 DEF Now
      <4> QED BY <2>3, <4>2
    <3>2. CASE Is(p, "EXPORTS")
      <4>1. q = FirstOf({";", "EOF"}, p)
        BY <3>2 DEF ExportsEnd
      <4>2. ~Is(q, "EOF")
        BY <3>2, <1>2
      <4> HIDE DEF p, q
      <4>3. p \in 1..Len(tokens) + 1
        BY <2>3 DEF Now
      <4>4. q \in p..Len(tokens) + 1
        BY <4>1, <4>3, FirstFound DEF Now
      <4>5. Before(q)
        BY <4>2, TokenThere DEF Now
      <4> QED BY <2>3, <4>4, <4>5 DEF Before, Now
    <3> QED BY <3>1, <3>2
  <2> HIDE DEF q, p, node
  <2>5. CASE Is(q + 1, "IMPORTS")
    <3>1. Continue(q + 2, "imports")
      BY <2>1, <2>5
    <3>0. q + 2 \in at + 1..Len(tokens) + 1
      <4> SUFFICES ASSUME NEW a, a = at, NEW m, m = Len(tokens)
                   PROVE  q + 2 \in a + 1..m + 1
        OBVIOUS
      <4>1. a \in Nat /\ m \in Nat /\ q \in Nat /\ q + 1 \in a + 1..m
        BY <2>4 DEF Now
      <4> QED BY <4>1
    <3>2. Depth("imports", n + 1)
      BY <1>0 DEF Depth
    <3> QED BY <1>0, <2>1, <2>2, <3>0, <3>1, <3>2, GoDeeper
  <2>6. CASE ~Is(q + 1, "IMPORTS")
    <3>1. Continue(q + 1, "assignments")
      BY <2>1, <2>6
    <3>0. q + 1 \in at + 1..Len(tokens) + 1
      <4> SUFFICES ASSUME NEW a, a = at, NEW m, m = Len(tokens)
                   PROVE  q + 1 \in a + 1..m + 1
        OBVIOUS
      <4>1. a \in Nat /\ m \in Nat /\ q \in Nat /\ q + 1 \in a + 1..m
        BY <2>4 DEF Now
      <4> QED BY <4>1
    <3>2. Depth("assignments", n + 1)
      BY <1>0 DEF Depth
    <3> QED BY <1>0, <2>1, <2>2, <3>0, <3>1, <3>2, GoDeeper
  <2> QED BY <2>5, <2>6
<1> QED BY <1>1, <1>2

LEMMA ImportStep ==
  ASSUME NEW n, Now(n), ParseImport
  PROVE  Outcome
<1> DEFINE q == FirstOf({"FROM", ";", "EOF"}, at)
<1>0. phase = "parse" /\ goal = "imports" /\ n = 1 /\ UNCHANGED stack
  BY DEF ParseImport, In, Now, Depth
<1>1. \/ Is(q, "FROM") /\ Continue(q + 2, "imports")
      \/ Is(q, ";") /\ Continue(q + 1, "assignments")
      \/ Fail
  BY DEF ParseImport
<1>2. q \in at..Len(tokens) + 1
  <2> DEFINE types == {"FROM", ";", "EOF"}
  <2>1. "EOF" \in types /\ at \in 1..Len(tokens) + 1
    BY DEF Now
  <2> HIDE DEF types
  <2>2. FirstOf(types, at) \in at..Len(tokens) + 1
    BY <2>1, FirstFound DEF Now
  <2> QED BY <2>2 DEF types
<1> HIDE DEF q
<1>3. Depth("imports", n) /\ Depth("assignments", n)
  BY <1>0 DEF Depth
<1>4. CASE Is(q, "FROM") /\ Continue(q + 2, "imports")
  <2>1. Before(q)
    BY <1>4, IsThere DEF Now
  <2>2. q + 2 \in at..Len(tokens) + 1 /\ q + 2 > at
    BY <1>2, <2>1 DEF Now, Before
  <2> QED BY <1>0, <1>3, <1>4, <2>2, GoOn
<1>5. CASE Is(q, ";") /\ Continue(q + 1, "assignments")
  <2>1. Before(q)
    BY <1>5, IsThere DEF Now
  <2>2. q + 1 \in at..Len(tokens) + 1 /\ q + 1 > at
    BY <1>2, <2>1 DEF Now, Before
  <2> QED BY <1>0, <1>3, <1>5, <2>2, GoOn
<1> QED BY <1>1, <1>4, <1>5, Failing

LEMMA AheadIs ==
  ASSUME NEW n, Now(n), NEW p, Ahead(p)
  PROVE  p \in at..Len(tokens) + 1 /\ p \in at + 1..Len(tokens) + 1 /\ p > at
BY DEF Now, Ahead

(* How deep the loops and methods are. *)
LEMMA InModule ==
  ASSUME NEW n, Now(n), goal \in {"imports", "assignments"}
  PROVE  n = 1 /\ n > 0 /\ Depth("assignments", n) /\ Depth("type", n)
BY DEF Now, Depth
LEMMA AtType ==
  ASSUME NEW n, Now(n), goal \in {"type", "returned"}
  PROVE  /\ n > 0 /\ n + 1 > 1 /\ n # 0 /\ Depth("returned", n)
         /\ Depth("type", n + 1)
         /\ \A g \in {"parts", "bits", "constraints"} : Depth(g, n + 1)
BY DEF Now, Depth
LEMMA InType ==
  ASSUME NEW n, Now(n), goal \in {"parts", "bits", "constraints", "alphabet"}
  PROVE  /\ n > 1 /\ n > 0 /\ Depth("type", n)
         /\ \A g \in {"parts", "bits", "constraints", "alphabet"} : Depth(g, n)
BY DEF Now, Depth

LEMMA AssignmentStep ==
  ASSUME NEW n, Now(n), ParseAssignment
  PROVE  Outcome
<1> DEFINE x == Append(Node.values, [name |-> Text(at), value |-> Decimal[Text(at + 3)]])
           node == [Node EXCEPT !.values = x]
<1>0. /\ phase = "parse" /\ goal = "assignments"
      /\ \/ IsNumber(Text(at + 3)) /\ Rebuild(node, "") /\ Continue(at + 4, "assignments")
         \/ Is(at + 1, "::=") /\ Rebuild(Node, Text(at)) /\ Continue(at + 2, "type")
         \/ Fail
  BY DEF ParseAssignment, In
<1> HIDE DEF x
<1>1. n = 1 /\ n > 0 /\ Depth("assignments", n) /\ Depth("type", n)
  BY <1>0, InModule
<1>2. IsNode(Node)
  BY <1>1, TopIsNode
<1>3. SameNode(Node, node)
  BY <1>2, FieldsExcept
<1> HIDE DEF node
<1>4. CASE IsNumber(Text(at + 3)) /\ Rebuild(node, "") /\ Continue(at + 4, "assignments")
  <2>1. at + 3 \in 1..Len(tokens)
    BY <1>4, NumberThere DEF Now
  <2>2. at + 4 \in at..Len(tokens) + 1 /\ at + 4 > at
    BY <2>1 DEF Now
  <2> QED BY <1>0, <1>1, <1>3, <1>4, <2>2, GoOnRebuilt DEF SameNode
<1>5. CASE Is(at + 1, "::=") /\ Rebuild(Node, Text(at)) /\ Continue(at + 2, "type")
  <2>1. at + 2 \in at..Len(tokens) + 1 /\ at + 2 > at
    BY <1>5, AheadOfType, AheadIs
  <2> QED BY <1>0, <1>1, <1>2, <1>5, <2>1, GoOnRebuilt
<1> QED BY <1>0, <1>4, <1>5, Failing

LEMMA EndModuleStep ==
  ASSUME NEW n, Now(n), EndModule
  PROVE  Outcome
<1>0. /\ phase = "parse" /\ goal = "assignments"
      /\ Fail \/ (Is(at, "END") /\ stack' = Front(stack) /\ Continue(at + 1, "file"))
  BY DEF EndModule, In
<1>1. n = 1
  BY <1>0, InModule
<1>2. CASE Is(at, "END") /\ stack' = Front(stack) /\ Continue(at + 1, "file")
  <2> DEFINE s == Front(stack)
  <2>1. /\ phase' = "parse" /\ tokens' = tokens /\ at' = at + 1 /\ goal' = "file"
        /\ stack' = s
    BY <1>0, <1>2 DEF Continue, lexerVars
  <2>2. Shape(s, n - 1) /\ n - 1 = 0
    BY <1>1, PopInShape DEF Now
  <2> HIDE DEF s
  <2>3. Shape(s, 0) /\ Len(s) = 0 /\ Len(stack) = 1
    BY <1>1, <2>2 DEF Shape, Now
  <2>4. Before(at) /\ at < at + 1 /\ at + 1 >= at /\ at + 1 - 1 = at
    BY <1>2, IsThere DEF Now
  <2>5. tokens[at].type = "END"
    BY <1>2 DEF Is, Tok
  <2>6. Position(at + 1, "file")
    <3> DEFINE p == at + 1
    <3>1. p \in 1..Len(tokens) + 1 /\ p \in 2..Len(tokens) + 1 /\ p - 1 = at
      BY <2>4 DEF Now, Before
    <3> HIDE DEF p
    <3>2. Position(p, "file")
      BY <2>5, <3>1 DEF Position
    <3> QED BY <3>2 DEF p
  <2>7. Depth("file", 0)
    BY DEF Depth
  <2>8. Moves(at + 1, "file", s)
    BY <2>3, <2>4, <2>6, <2>7 DEF Moves, Progress
  <2> QED BY <2>1, <2>8 DEF Outcome
<1> QED BY <1>0, <1>2, Failing

(* A type that needs no loop is returned. *)
LEMMA Returning ==
  ASSUME NEW n, Now(n), NEW type, NEW p, Return(type, p), goal = "type", phase = "parse",
         Ahead(p)
  PROVE  Outcome
<1>1. Continue(p, "returned") /\ UNCHANGED stack
  BY DEF Return
<1>2. p \in at..Len(tokens) + 1 /\ p > at
  BY AheadIs
<1>3. Depth("returned", n)
  BY AtType
<1> QED BY <1>1, <1>2, <1>3, GoOn

LEMMA SimpleStep ==
  ASSUME NEW n, Now(n), ParseSimple
  PROVE  Outcome
<1>1. Ahead(at + 1)
  <2>1. ~Is(at, "EOF")
    BY DEF ParseSimple, Is
  <2> QED BY <2>1, AheadOfAny
<1>2. /\ phase = "parse" /\ goal = "type"
      /\ \/ Return(Simple(Tok(at).type), at + 1)
         \/ Return(ReferenceType(Text(at)), at + 1)
  BY DEF ParseSimple, In
<1> QED BY <1>1, <1>2, Returning

(* A constraint that is there, or not, ends later. *)
LEMMA EndsAhead ==
  ASSUME NEW n, Now(n), NEW p, p \in at + 1..Len(tokens) + 1, NEW q, q # 0,
         q = p \/ After(p, q)
  PROVE  Ahead(q)
<1> SUFFICES ASSUME NEW a, a = at, NEW m, m = Len(tokens)
             PROVE  q \in a + 1..m + 1
  BY DEF Ahead
<1> QED BY DEF Now, After
LEMMA RangedStep ==
  ASSUME NEW n, Now(n), ParseRanged
  PROVE  Outcome
<1>0. phase = "parse" /\ goal = "type" /\ Tok(at).type \in {"INTEGER", "OCTET", "IA5String"}
  BY DEF ParseRanged, In
<1> DEFINE r == CASE Is(at, "INTEGER") -> IntegerConstraint(at + 1)
                [] Is(at, "IA5String") -> SizeConstraint(at + 1)
                [] Are(at, <<"OCTET", "STRING_KW">>) -> SizeConstraint(at + 2)
                [] OTHER -> Wrong
           q == r.next
<1>1. Fail \/ (q # 0 /\ Return(Ranged(Tok(at).type, r.bounds), q))
  BY DEF ParseRanged
<1>2. \/ q = at + 1 \/ After(at + 1, q)
      \/ q = at + 2 \/ After(at + 2, q)
  <2>1. at + 1 \in Nat /\ at + 2 \in Nat /\ File
    BY DEF Now
  <2>2. CASE Is(at, "INTEGER")
    <3>1. ~Is(at, "IA5String")
      BY <2>2 DEF Is
    <3>2. ~Are(at, <<"OCTET", "STRING_KW">>)
      <4>1. at + 1 - 1 = at
        BY DEF Now
      <4>2. ~Is(at + 1 - 1, "OCTET")
        BY <2>2, <4>1 DEF Is
      <4> QED BY <4>2 DEF Are
    <3>3. q = IntegerConstraint(at + 1).next
      BY <2>2, <3>1, <3>2
    <3> QED BY <2>1, <3>3, IntegerEnds
  <2>3. CASE ~Is(at, "INTEGER") /\ Is(at, "IA5String")
    BY <2>1, <2>3, SizeEnds
  <2>4. CASE ~Is(at, "INTEGER") /\ ~Is(at, "IA5String") /\ Are(at, <<"OCTET", "STRING_KW">>)
    BY <2>1, <2>4, SizeEnds
  <2>5. CASE ~Is(at, "INTEGER") /\ ~Is(at, "IA5String") /\ ~Are(at, <<"OCTET", "STRING_KW">>)
    BY <2>5 DEF Wrong, Span, After
  <2> QED BY <2>2, <2>3, <2>4, <2>5
<1>3. Ahead(at + 1) /\ Ahead(at + 2)
  <2>1. ~Is(at, "EOF")
    BY <1>0 DEF Is
  <2> QED BY <2>1, AheadOfAny
<1> DEFINE bounds == r.bounds
<1> HIDE DEF q, r
<1>4. ASSUME q # 0 PROVE Ahead(q)
  BY <1>2, <1>3, <1>4, EndsAhead, AheadIs
<1> QED BY <1>0, <1>1, <1>4, Returning, Failing

LEMMA AheadOfThird ==
  ASSUME NEW n, Now(n), NEW type, Is(at + 2, type), type # "EOF"
  PROVE  Ahead(at + 3) /\ Ahead(at + 4)
<1>1. Before(at + 2)
  BY IsThere DEF Now
<1> SUFFICES ASSUME NEW a, a = at, NEW m, m = Len(tokens)
             PROVE  a + 3 \in a + 1..m + 1 /\ a + 4 \in a + 1..m + 1
  BY DEF Ahead
<1> QED BY <1>1 DEF Now, Before

(* A type that needs a loop, or has an element, is pushed. *)
LEMMA Opening ==
  ASSUME NEW n, Now(n), goal = "type", phase = "parse",
         NEW node, IsNode(node), node.kind # "Module", NEW p, Ahead(p),
         NEW g \in {"type", "parts", "bits", "constraints"}, Open(node, p, g)
  PROVE  Outcome
<1>1. Continue(p, g) /\ Push(node)
  BY DEF Open
<1>2. p \in at + 1..Len(tokens) + 1
  BY AheadIs
<1>3. n # 0 /\ Depth(g, n + 1) /\ g # "file"
  BY AtType
<1> QED BY <1>1, <1>2, <1>3, GoDeeper

(* The nodes of types. *)
LEMMA TypeNodes ==
  /\ \A kind, bounds : LET m == Ranged(kind, bounds) IN IsNode(m) /\ m.kind = kind
  /\ \A bounds, of :
       LET m == SequenceOfType(bounds, of) IN IsNode(m) /\ m.kind = "SEQUENCE OF"
  /\ \A kind : LET m == Composite(kind) IN IsNode(m) /\ m.kind = kind
  /\ IsNode(VisibleStringType) /\ VisibleStringType.kind = "VisibleString"
  /\ IsNode(None) /\ None.kind = "None"
BY DEF IsNode, Ranged, SequenceOfType, Composite, VisibleStringType, None, Simple

LEMMA SequenceStep ==
  ASSUME NEW n, Now(n), ParseSequenceOrSequenceOf
  PROVE  Outcome
<1> DEFINE r == SequenceOfRest(at + 1)
           q == r.next
           node == SequenceOfType(r.bounds, None)
<1>0. phase = "parse" /\ goal = "type" /\ Is(at, "SEQUENCE")
  BY DEF ParseSequenceOrSequenceOf, In
<1>1. \/ Open(Composite("SEQUENCE"), at + 2, "parts")
      \/ Tok(at + 1).type \in {"(", "SIZE", "OF"} /\ q # 0 /\ Open(node, q, "type")
      \/ Fail
  BY DEF ParseSequenceOrSequenceOf
<1>2. Ahead(at + 1) /\ Ahead(at + 2)
  <2>1. ~Is(at, "EOF")
    BY <1>0 DEF Is
  <2> QED BY <2>1, AheadOfAny
<1>3. After(at + 1, q)
  BY SequenceOfEnds DEF Now
<1>4. IsNode(node) /\ node.kind = "SEQUENCE OF"
  BY TypeNodes
<1>5. IsNode(Composite("SEQUENCE")) /\ Composite("SEQUENCE").kind = "SEQUENCE"
  BY TypeNodes
<1> HIDE DEF q, node
<1>6. ASSUME q # 0 PROVE Ahead(q)
  BY <1>2, <1>3, <1>6, EndsAhead, AheadIs
<1>7. "SEQUENCE OF" # "Module" /\ "SEQUENCE" # "Module"
  OBVIOUS
<1>8. CASE Open(Composite("SEQUENCE"), at + 2, "parts")
  BY <1>0, <1>2, <1>5, <1>7, <1>8, Opening
<1>9. CASE q # 0 /\ Open(node, q, "type")
  BY <1>0, <1>4, <1>6, <1>7, <1>9, Opening
<1> QED BY <1>1, <1>8, <1>9, Failing

LEMMA ChoiceStep ==
  ASSUME NEW n, Now(n), ParseChoiceOrEnumerated
  PROVE  Outcome
<1> DEFINE node == Composite(Tok(at).type)
<1>0. /\ phase = "parse" /\ goal = "type" /\ Tok(at).type \in {"CHOICE", "ENUMERATED"}
      /\ Open(node, at + 2, "parts") \/ Fail
  BY DEF ParseChoiceOrEnumerated, In
<1>1. Ahead(at + 2)
  <2>1. ~Is(at, "EOF")
    BY <1>0 DEF Is
  <2> QED BY <2>1, AheadOfAny
<1>2. IsNode(node) /\ node.kind = Tok(at).type
  BY TypeNodes
<1>3. Tok(at).type # "Module"
  BY <1>0
<1> HIDE DEF node
<1> QED BY <1>0, <1>1, <1>2, <1>3, Opening, Failing

LEMMA BitStringStep ==
  ASSUME NEW n, Now(n), ParseBitString
  PROVE  Outcome
<1> DEFINE r == SizeConstraint(at + 2)
           q == r.next
           named == Are(at, <<"BIT", "STRING_KW", "{">>)
<1>0. /\ phase = "parse" /\ goal = "type" /\ Is(at, "BIT")
      /\ \/ named /\ Open(None, at + 3, "bits")
         \/ q # 0 /\ Return(Ranged("BIT", r.bounds), q)
         \/ Fail
  BY DEF ParseBitString, In
<1>1. Ahead(at + 2)
  <2>1. ~Is(at, "EOF")
    BY <1>0 DEF Is
  <2> QED BY <2>1, AheadOfAny
<1>2. ASSUME named PROVE Ahead(at + 3)
  <2> DEFINE types == <<"BIT", "STRING_KW", "{">>
  <2>1. 3 \in DOMAIN types /\ types[3] = "{"
    OBVIOUS
  <2>2. Are(at, types)
    BY <1>2
  <2> HIDE DEF types
  <2>3. \A i \in DOMAIN types : Is(at + i - 1, types[i])
    BY <2>2 DEF Are
  <2>4. Is(at + 2, "{")
    <3> SUFFICES ASSUME NEW i, i = 3, NEW a, a = at
                 PROVE  Is(a + 2, "{")
      OBVIOUS
    <3>1. Is(a + i - 1, types[i])
      BY <2>1, <2>3
    <3>2. a + i - 1 = a + 2
      BY DEF Now
    <3> QED BY <2>1, <3>1, <3>2
  <2> QED BY <2>4, AheadOfThird
<1>3. q = at + 2 \/ After(at + 2, q)
  BY SizeEnds DEF Now
<1> HIDE DEF q, r, named
<1>4. ASSUME q # 0 PROVE Ahead(q)
  BY <1>1, <1>3, <1>4, EndsAhead, AheadIs
<1>5. CASE named /\ Open(None, at + 3, "bits")
  <2>1. IsNode(None) /\ None.kind # "Module"
    BY TypeNodes
  <2> QED BY <1>0, <1>2, <1>5, <2>1, Opening
<1>6. CASE q # 0 /\ Return(Ranged("BIT", r.bounds), q)
  BY <1>0, <1>4, <1>6, Returning
<1> QED BY <1>0, <1>5, <1>6, Failing

LEMMA VisibleStringStep ==
  ASSUME NEW n, Now(n), ParseVisibleString
  PROVE  Outcome
<1>0. /\ phase = "parse" /\ goal = "type" /\ Is(at, "VisibleString")
      /\ Open(VisibleStringType, at + 1, "constraints")
  BY DEF ParseVisibleString, In
<1>1. Ahead(at + 1)
  <2>1. ~Is(at, "EOF")
    BY <1>0 DEF Is
  <2> QED BY <2>1, AheadOfAny
<1>2. IsNode(VisibleStringType) /\ VisibleStringType.kind # "Module"
  BY TypeNodes
<1> QED BY <1>0, <1>1, <1>2, Opening

(* A position that a comma or a bar may follow. *)
LEMMA NearAhead ==
  ASSUME NEW n, Now(n), ~Is(at, "EOF")
  PROVE  at + 1 \in at + 1..Len(tokens)
<1>1. Before(at)
  BY TokenThere DEF Now
<1> SUFFICES ASSUME NEW a, a = at, NEW m, m = Len(tokens)
             PROVE  a + 1 \in a + 1..m
  OBVIOUS
<1> QED BY <1>1 DEF Now, Before
LEMMA FourthAhead ==
  ASSUME NEW n, Now(n), NEW type, Is(at + 3, type), type # "EOF"
  PROVE  at + 4 \in at + 1..Len(tokens)
<1>1. Before(at + 3)
  BY IsThere DEF Now
<1> SUFFICES ASSUME NEW a, a = at, NEW m, m = Len(tokens)
             PROVE  a + 4 \in a + 1..m
  OBVIOUS
<1> QED BY <1>1 DEF Now, Before

(* In the loops over parts and items. *)
LEMMA PartsGoOn ==
  ASSUME NEW n, Now(n), phase = "parse", goal \in {"parts", "constraints", "alphabet"},
         NEW node, SameNode(Node, node), NEW name, Rebuild(node, name),
         NEW p, Ahead(p),
         NEW g \in {"type", "parts", "constraints", "alphabet"}, Continue(p, g)
  PROVE  Outcome
<1>1. p \in at..Len(tokens) + 1 /\ p > at
  BY AheadIs
<1>2. n > 0 /\ Depth(g, n) /\ g # "file"
  BY InType
<1> QED BY <1>1, <1>2, GoOnRebuilt DEF SameNode
LEMMA NodeIsNode ==
  ASSUME NEW n, Now(n), n > 0
  PROVE  IsNode(Node) /\ SameNode(Node, Node)
BY TopIsNode DEF SameNode
LEMMA NodeAssigned ==
  ASSUME NEW n, Now(n), n > 0, NEW x
  PROVE  /\ SameNode(Node, [Node EXCEPT !.types = x])
         /\ SameNode(Node, [Node EXCEPT !.extensible = x])
         /\ SameNode(Node, [Node EXCEPT !.root = x])
         /\ SameNode(Node, [Node EXCEPT !.more = x])
         /\ SameNode(Node, [Node EXCEPT !.bounds = x])
         /\ SameNode(Node, [Node EXCEPT !.alphabet = x])
         /\ SameNode(Node, [Node EXCEPT !.of = x])
<1> DEFINE m == Node
<1>1. IsNode(m)
  BY TopIsNode
<1> HIDE DEF m
<1>2. /\ SameNode(m, [m EXCEPT !.types = x])
      /\ SameNode(m, [m EXCEPT !.extensible = x])
      /\ SameNode(m, [m EXCEPT !.root = x])
      /\ SameNode(m, [m EXCEPT !.more = x])
      /\ SameNode(m, [m EXCEPT !.bounds = x])
      /\ SameNode(m, [m EXCEPT !.alphabet = x])
      /\ SameNode(m, [m EXCEPT !.of = x])
  BY <1>1, FieldsExcept
<1> QED BY <1>2 DEF m
LEMMA AddSame ==
  ASSUME NEW n, Now(n), n > 0, NEW part
  PROVE  SameNode(Node, Add(part))
<1> DEFINE x == Append(Node.more, part)
           y == Append(Node.root, part)
<1>1. Add(part) = [Node EXCEPT !.more = x] \/ Add(part) = [Node EXCEPT !.root = y]
  BY DEF Add
<1> HIDE DEF x, y
<1>2. SameNode(Node, [Node EXCEPT !.more = x]) /\ SameNode(Node, [Node EXCEPT !.root = y])
  BY NodeAssigned
<1> QED BY <1>1, <1>2

LEMMA EllipsisStep ==
  ASSUME NEW n, Now(n), Ellipsis
  PROVE  Outcome
<1> DEFINE node == [Node EXCEPT !.extensible = TRUE]
<1>0. /\ phase = "parse" /\ goal = "parts" /\ Is(at, "...")
      /\ Rebuild(node, "") /\ Continue(Comma(at + 1), "parts")
  BY DEF Ellipsis, In
<1>1. Ahead(Comma(at + 1))
  <2>1. ~Is(at, "EOF")
    BY <1>0 DEF Is
  <2> QED BY <2>1, NearAhead, CommaAhead
<1>2. n > 0
  BY <1>0, InType
<1>3. SameNode(Node, node)
  BY <1>2, NodeAssigned
<1> HIDE DEF node
<1> QED BY <1>0, <1>1, <1>3, PartsGoOn

LEMMA PartStep ==
  ASSUME NEW n, Now(n), ParsePart
  PROVE  Outcome
<1>0. /\ phase = "parse" /\ goal = "parts" /\ Tok(at).type # "EOF"
      /\ Rebuild(Node, Text(at)) /\ Continue(at + 1, "type")
  BY DEF ParsePart, In
<1>1. Ahead(at + 1)
  <2>1. ~Is(at, "EOF")
    BY <1>0 DEF Is
  <2> QED BY <2>1, AheadOfAny
<1>2. SameNode(Node, Node)
  BY <1>0, InType, NodeIsNode
<1> QED BY <1>0, <1>1, <1>2, PartsGoOn

LEMMA ItemStep ==
  ASSUME NEW n, Now(n), ParseItem
  PROVE  Outcome
<1> DEFINE a == Add(EnumItem(Text(at), FALSE, 0))
           b == Add(EnumItem(Text(at), TRUE, Atoi[Text(at + 2)]))
<1>0. /\ phase = "parse" /\ goal = "parts" /\ Tok(at).type # "EOF"
      /\ \/ Rebuild(a, "") /\ Continue(Comma(at + 1), "parts")
         \/ Is(at + 3, ")") /\ Rebuild(b, "") /\ Continue(Comma(at + 4), "parts")
         \/ Fail
  BY DEF ParseItem, In
<1>1. SameNode(Node, a) /\ SameNode(Node, b)
  BY <1>0, InType, AddSame
<1> HIDE DEF a, b
<1>2. Ahead(Comma(at + 1))
  <2>1. ~Is(at, "EOF")
    BY <1>0 DEF Is
  <2> QED BY <2>1, NearAhead, CommaAhead
<1>3. ASSUME Is(at + 3, ")") PROVE Ahead(Comma(at + 4))
  <2>1. at + 4 \in at + 1..Len(tokens)
    BY <1>3, FourthAhead
  <2> QED BY <2>1, CommaAhead
<1>4. CASE Rebuild(a, "") /\ Continue(Comma(at + 1), "parts")
  BY <1>0, <1>1, <1>2, <1>4, PartsGoOn
<1>5. CASE Is(at + 3, ")") /\ Rebuild(b, "") /\ Continue(Comma(at + 4), "parts")
  BY <1>0, <1>1, <1>3, <1>5, PartsGoOn
<1> QED BY <1>0, <1>4, <1>5, Failing

LEMMA EndPartsStep ==
  ASSUME NEW n, Now(n), EndParts
  PROVE  Outcome
<1>0. /\ phase = "parse" /\ goal = "parts"
      /\ Fail \/ (Is(at, "}") /\ Complete(Node, at + 1))
  BY DEF EndParts, In
<1>1. CASE Is(at, "}") /\ Complete(Node, at + 1)
  <2>1. ~Is(at, "EOF")
    BY <1>1 DEF Is
  <2>2. at + 1 \in at..Len(tokens) + 1
    BY <2>1, AheadOfAny, AheadIs
  <2>3. n > 1
    BY <1>0, InType
  <2> QED BY <1>0, <1>1, <2>2, <2>3, GoBack
<1> QED BY <1>0, <1>1, Failing

(* A type that is returned is delivered; the parser stays where it is. *)
LEMMA Delivering ==
  ASSUME NEW n, Now(n), phase = "parse", goal = "returned",
         NEW node, SameNode(Node, node), Rebuild(node, ""),
         NEW p, p \in at..Len(tokens) + 1, NEW g, Depth(g, n), g \notin {"file", "returned"},
         Continue(p, g)
  PROVE  Outcome
<1>1. n > 0
  BY AtType
<1>2. IsNode(node) /\ node.kind = Node.kind
  BY DEF SameNode
<1>3. goal = "returned" /\ g # "returned" /\ g # "file"
  OBVIOUS
<1> QED BY <1>1, <1>2, <1>3, GoOnRebuilt
(* The module is the bottom of the stack. *)
LEMMA ModuleIsFirst ==
  ASSUME NEW n, Now(n), n > 0
  PROVE  Node.kind = "Module" <=> n = 1
<1>1. Node = stack[n].node /\ n \in 1..n
  BY DEF Now, Node, Top, Last
<1> QED BY <1>1 DEF Now, Shape
LEMMA AtIsThere ==
  ASSUME NEW n, Now(n)
  PROVE  at \in at..Len(tokens) + 1
BY DEF Now

LEMMA DeliverAssignmentStep ==
  ASSUME NEW n, Now(n), DeliverAssignment
  PROVE  Outcome
<1> DEFINE x == Append(Node.types, [name |-> Top.name, type |-> result])
           node == [Node EXCEPT !.types = x]
<1>0. /\ phase = "parse" /\ goal = "returned" /\ Node.kind = "Module"
      /\ Rebuild(node, "") /\ Continue(at, "assignments")
  BY DEF DeliverAssignment, In
<1>1. n > 0
  BY <1>0, AtType
<1> HIDE DEF x
<1>2. SameNode(Node, node)
  BY <1>1, NodeAssigned
<1> HIDE DEF node
<1>3. n = 1
  BY <1>0, <1>1, ModuleIsFirst
<1>4. Depth("assignments", n)
  BY <1>3 DEF Depth
<1> QED BY <1>0, <1>2, <1>4, AtIsThere, Delivering

LEMMA DeliverPartStep ==
  ASSUME NEW n, Now(n), DeliverPart
  PROVE  Outcome
<1> DEFINE optional == Node.kind = "SEQUENCE" /\ Is(at, "OPTIONAL")
           node == Add(Component(Top.name, result, optional))
           p == Comma(IF optional THEN at + 1 ELSE at)
<1>0. /\ phase = "parse" /\ goal = "returned" /\ Node.kind \in {"SEQUENCE", "CHOICE"}
      /\ Rebuild(node, "") /\ Continue(p, "parts")
  BY DEF DeliverPart, In
<1>1. n > 0
  BY <1>0, AtType
<1>2. SameNode(Node, node)
  BY <1>1, AddSame
<1>3. p \in at..Len(tokens) + 1
  <2>1. CASE optional
    <3>1. ~Is(at, "EOF")
      BY <2>1 DEF Is
    <3>2. Ahead(Comma(at + 1)) /\ p = Comma(at + 1)
      BY <2>1, <3>1, NearAhead, CommaAhead
    <3> QED BY <3>2, AheadIs
  <2>2. CASE ~optional /\ Is(at, ",")
    <3>1. ~Is(at, "EOF")
      BY <2>2 DEF Is
    <3>2. Ahead(at + 1)
      BY <3>1, AheadOfAny
    <3>3. p = at + 1
      BY <2>2 DEF Comma
    <3> QED BY <3>2, <3>3, AheadIs
  <2>3. CASE ~optional /\ ~Is(at, ",")
    <3>1. p = at
      BY <2>3 DEF Comma
    <3> QED BY <3>1, AtIsThere
  <2> QED BY <2>1, <2>2, <2>3
<1> HIDE DEF node, p
<1>4. n # 1
  BY <1>0, <1>1, ModuleIsFirst
<1>5. Depth("parts", n)
  BY <1>1, <1>4 DEF Depth, Now
<1> QED BY <1>0, <1>2, <1>3, <1>5, Delivering

LEMMA DeliverElementStep ==
  ASSUME NEW n, Now(n), DeliverElement
  PROVE  Outcome
<1> DEFINE node == [Node EXCEPT !.of = result]
<1>0. /\ phase = "parse" /\ goal = "returned" /\ Node.kind = "SEQUENCE OF"
      /\ Complete(node, at)
  BY DEF DeliverElement, In
<1> HIDE DEF node
<1>1. n > 0 /\ n # 1
  <2>1. n > 0
    BY <1>0, AtType
  <2>2. Node.kind # "Module"
    BY <1>0
  <2> QED BY <2>1, <2>2, ModuleIsFirst
<1>2. n > 1
  BY <1>1 DEF Now
<1> QED BY <1>0, <1>2, AtIsThere, GoBack

LEMMA NamedBitStep ==
  ASSUME NEW n, Now(n), ParseNamedBit
  PROVE  Outcome
<1>0. /\ phase = "parse" /\ goal = "bits"
      /\ Fail \/ (Is(at + 3, ")") /\ Continue(Comma(at + 4), "bits") /\ UNCHANGED stack)
  BY DEF ParseNamedBit, In
<1>1. CASE Is(at + 3, ")") /\ Continue(Comma(at + 4), "bits") /\ UNCHANGED stack
  <2>1. at + 4 \in at + 1..Len(tokens)
    BY <1>1, FourthAhead
  <2>2. Comma(at + 4) \in at..Len(tokens) + 1 /\ Comma(at + 4) > at
    BY <2>1, CommaAhead, AheadIs
  <2>3. Depth("bits", n)
    BY <1>0, InType
  <2> QED BY <1>0, <1>1, <2>2, <2>3, GoOn
<1> QED BY <1>0, <1>1, Failing

LEMMA EndNamedBitsStep ==
  ASSUME NEW n, Now(n), EndNamedBits
  PROVE  Outcome
<1> DEFINE r == SizeConstraint(at + 1)
           q == r.next
<1>0. /\ phase = "parse" /\ goal = "bits"
      /\ Fail \/ (Is(at, "}") /\ q # 0 /\ Complete(Ranged("BIT", r.bounds), q))
  BY DEF EndNamedBits, In
<1>1. q = at + 1 \/ After(at + 1, q)
  BY SizeEnds DEF Now
<1> HIDE DEF q, r
<1>2. CASE Is(at, "}") /\ q # 0 /\ Complete(Ranged("BIT", r.bounds), q)
  <2>1. ~Is(at, "EOF")
    BY <1>2 DEF Is
  <2>2. at + 1 \in at + 1..Len(tokens) + 1
    BY <2>1, AheadOfAny, AheadIs
  <2>3. q \in at..Len(tokens) + 1
    BY <1>1, <1>2, <2>2, EndsAhead, AheadIs
  <2>4. n > 1
    BY <1>0, InType
  <2> QED BY <1>0, <1>2, <2>3, <2>4, GoBack
<1> QED BY <1>0, <1>2, Failing

LEMMA ConstraintStep ==
  ASSUME NEW n, Now(n), ParseConstraint
  PROVE  Outcome
<1> DEFINE r == RangeConstraint(at + 2)
           q == r.next
           node == [Node EXCEPT !.bounds = r.bounds]
           from == Are(at + 1, <<"FROM", "(">>)
<1>0. /\ phase = "parse" /\ goal = "constraints" /\ Is(at, "(")
      /\ \/ from /\ Continue(at + 3, "alphabet") /\ UNCHANGED stack
         \/ Is(q, ")") /\ Rebuild(node, "") /\ Continue(q + 1, "constraints")
         \/ Is(at + 1, ")") /\ Continue(at + 2, "constraints") /\ UNCHANGED stack
         \/ Fail
  BY DEF ParseConstraint, In
<1>1. After(at + 2, q)
  BY RangeEnds DEF Now
<1>2. n > 0 /\ Depth("alphabet", n) /\ Depth("constraints", n)
  BY <1>0, InType
<1> DEFINE bounds == r.bounds
<1> HIDE DEF bounds
<1>3. SameNode(Node, [Node EXCEPT !.bounds = bounds])
  BY <1>2, NodeAssigned
<1>4. SameNode(Node, node)
  BY <1>3 DEF bounds
<1> HIDE DEF q, r, node
<1>5. CASE from /\ Continue(at + 3, "alphabet") /\ UNCHANGED stack
  <2> DEFINE types == <<"FROM", "(">>
  <2>1. 1 \in DOMAIN types /\ types[1] = "FROM"
    OBVIOUS
  <2>2. Are(at + 1, types)
    BY <1>5
  <2> HIDE DEF types, from
  <2>3. \A i \in DOMAIN types : Is(at + 1 + i - 1, types[i])
    BY <2>2 DEF Are
  <2>4. Is(at + 1, "FROM")
    <3> SUFFICES ASSUME NEW i, i = 1, NEW a, a = at + 1
                 PROVE  Is(a, "FROM")
      OBVIOUS
    <3>1. Is(a + i - 1, types[i])
      BY <2>1, <2>3
    <3>2. a + i - 1 = a
      BY DEF Now
    <3> QED BY <2>1, <3>1, <3>2
  <2>5. Before(at + 1)
    BY <2>4, IsThere DEF Now
  <2>6. at + 3 \in at..Len(tokens) + 1 /\ at + 3 > at
    BY <2>5 DEF Now, Before
  <2> QED BY <1>0, <1>2, <1>5, <2>6, GoOn
<1>6. CASE Is(q, ")") /\ Rebuild(node, "") /\ Continue(q + 1, "constraints")
  <2>1. Before(q)
    BY <1>6, IsThere DEF Now
  <2>2. Ahead(q + 1)
    <3> SUFFICES ASSUME NEW a, a = at, NEW m, m = Len(tokens)
                 PROVE  q + 1 \in a + 1..m + 1
      BY DEF Ahead
    <3> QED BY <1>1, <2>1 DEF Now, Before, After
  <2> QED BY <1>0, <1>4, <1>6, <2>2, PartsGoOn
<1>7. CASE Is(at + 1, ")") /\ Continue(at + 2, "constraints") /\ UNCHANGED stack
  <2>1. Before(at + 1)
    BY <1>7, IsThere DEF Now
  <2>2. at + 2 \in at..Len(tokens) + 1 /\ at + 2 > at
    BY <2>1 DEF Now, Before
  <2> QED BY <1>0, <1>2, <1>7, <2>2, GoOn
<1> HIDE DEF from
<1> QED BY <1>0, <1>5, <1>6, <1>7, Failing

LEMMA EndConstraintsStep ==
  ASSUME NEW n, Now(n), EndConstraints
  PROVE  Outcome
<1>1. phase = "parse" /\ goal = "constraints" /\ Complete(Node, at)
  BY DEF EndConstraints, In
<1>2. n > 1
  BY <1>1, InType
<1> QED BY <1>1, <1>2, AtIsThere, GoBack

LEMMA PipeAhead ==
  ASSUME NEW n, Now(n), NEW p, Ahead(p)
  PROVE  Ahead(Pipe(p))
<1>1. CASE Is(p, "|")
  <2>1. Before(p) /\ Pipe(p) = p + 1
    BY <1>1, IsThere DEF Now, Pipe
  <2> SUFFICES ASSUME NEW a, a = at, NEW m, m = Len(tokens)
               PROVE  p + 1 \in a + 1..m + 1
    BY <2>1 DEF Ahead
  <2> QED BY <2>1 DEF Now, Before, Ahead
<1>2. CASE ~Is(p, "|")
  BY <1>2 DEF Pipe
<1> QED BY <1>1, <1>2

LEMMA AlphabetItemStep ==
  ASSUME NEW n, Now(n), ParseAlphabetItem
  PROVE  Outcome
<1> DEFINE range == Are(at, <<"STRING", "..">>)
           item == IF range THEN Text(at) \o "-" \o Text(at + 2) ELSE Text(at)
           x == Append(Node.alphabet, item)
           node == [Node EXCEPT !.alphabet = x]
           p == Pipe(IF range THEN at + 3 ELSE at + 1)
<1>0. /\ phase = "parse" /\ goal = "alphabet" /\ Tok(at).type \notin {")", "EOF"}
      /\ \/ Is(at, "STRING") /\ Rebuild(node, "") /\ Continue(p, "alphabet")
         \/ ~Is(at, "STRING") /\ Continue(Pipe(at), "alphabet") /\ UNCHANGED stack
  BY DEF ParseAlphabetItem, In
<1> HIDE DEF x
<1>1. n > 0 /\ Depth("alphabet", n)
  BY <1>0, InType
<1>2. SameNode(Node, node)
  BY <1>1, NodeAssigned
<1> HIDE DEF node
<1>3. Ahead(p)
  <2>1. CASE range
    <3> DEFINE types == <<"STRING", "..">>
    <3>1. 2 \in DOMAIN types /\ types[2] = ".."
      OBVIOUS
    <3>2. Are(at, types)
      BY <2>1
    <3> HIDE DEF types, p
    <3>3. \A i \in DOMAIN types : Is(at + i - 1, types[i])
      BY <3>2 DEF Are
    <3>4. Is(at + 1, "..")
      <4> SUFFICES ASSUME NEW i, i = 2, NEW a, a = at
                   PROVE  Is(a + 1, "..")
        OBVIOUS
      <4>1. Is(a + i - 1, types[i])
        BY <3>1, <3>3
      <4>2. a + i - 1 = a + 1
        BY DEF Now
      <4> QED BY <3>1, <4>1, <4>2
    <3>5. Before(at + 1)
      BY <3>4, IsThere DEF Now
    <3>6. Ahead(at + 3)
      <4> SUFFICES ASSUME NEW a, a = at, NEW m, m = Len(tokens)
                   PROVE  a + 3 \in a + 1..m + 1
        BY DEF Ahead
      <4> QED BY <3>5 DEF Now, Before
    <3>7. p = Pipe(at + 3)
      BY <2>1 DEF p
    <3> QED BY <3>6, <3>7, PipeAhead
  <2>2. CASE ~range
    <3>1. ~Is(at, "EOF")
      BY <1>0 DEF Is
    <3>2. Ahead(at + 1) /\ p = Pipe(at + 1)
      BY <2>2, <3>1, AheadOfAny
    <3> QED BY <3>2, PipeAhead
  <2> QED BY <2>1, <2>2
<1> HIDE DEF p, range
<1>4. CASE Is(at, "STRING") /\ Rebuild(node, "") /\ Continue(p, "alphabet")
  BY <1>0, <1>2, <1>3, <1>4, PartsGoOn
<1>5. CASE ~Is(at, "STRING") /\ Continue(Pipe(at), "alphabet") /\ UNCHANGED stack
  <2>1. CASE Is(at, "|")
    <3>1. Pipe(at) = at + 1
      BY <2>1 DEF Pipe
    <3>2. ~Is(at, "EOF")
      BY <2>1 DEF Is
    <3>3. Pipe(at) \in at..Len(tokens) + 1 /\ Pipe(at) > at
      BY <3>1, <3>2, AheadOfAny, AheadIs
    <3> QED BY <1>0, <1>1, <1>5, <3>3, GoOn
  <2>2. CASE ~Is(at, "|")
    <3>1. Pipe(at) = at /\ at \in at..Len(tokens) + 1
      BY <2>2, AtIsThere DEF Pipe
    <3>2. Stuck
      BY <1>0, <1>5, <2>2 DEF Stuck, In, Is
    <3> QED BY <1>0, <1>1, <1>5, <3>1, <3>2, GoOn
  <2> QED BY <2>1, <2>2
<1> QED BY <1>0, <1>4, <1>5

LEMMA EndAlphabetStep ==
  ASSUME NEW n, Now(n), EndAlphabet
  PROVE  Outcome
<1>0. /\ phase = "parse" /\ goal = "alphabet"
      /\ Fail \/ (Are(at, <<")", ")">>) /\ Continue(at + 2, "constraints") /\ UNCHANGED stack)
  BY DEF EndAlphabet, In
<1>1. CASE Are(at, <<")", ")">>) /\ Continue(at + 2, "constraints") /\ UNCHANGED stack
  <2> DEFINE types == <<")", ")">>
  <2>1. 1 \in DOMAIN types /\ types[1] = ")"
    OBVIOUS
  <2>2. Are(at, types)
    BY <1>1
  <2> HIDE DEF types
  <2>3. \A i \in DOMAIN types : Is(at + i - 1, types[i])
    BY <2>2 DEF Are
  <2>4. Is(at, ")")
    <3> SUFFICES ASSUME NEW i, i = 1, NEW a, a = at
                 PROVE  Is(a, ")")
      OBVIOUS
    <3>1. Is(a + i - 1, types[i])
      BY <2>1, <2>3
    <3>2. a + i - 1 = a
      BY DEF Now
    <3> QED BY <2>1, <3>1, <3>2
  <2>5. ~Is(at, "EOF")
    BY <2>4 DEF Is
  <2>6. at + 2 \in at..Len(tokens) + 1 /\ at + 2 > at
    BY <2>5, AheadOfAny, AheadIs
  <2>7. Depth("constraints", n)
    BY <1>0, InType
  <2> QED BY <1>0, <1>1, <2>6, <2>7, GoOn
<1> QED BY <1>0, <1>1, Failing

-----------------------------------------------------------------------------
(* Every step goes on, fails or accepts, ... *)
LEMMA StepOutcome ==
  ASSUME Inv, Parse
  PROVE  phase = "parse" /\ Outcome
<1> DEFINE n == Len(stack)
<1>1. phase = "parse"
  BY DEF Parse, In, ParseModule, ParseFile, ParseImport, ParseAssignment, EndModule,
         ParseSimple, ParseRanged, ParseSequenceOrSequenceOf, ParseChoiceOrEnumerated,
         ParseBitString, ParseVisibleString, NoType, Ellipsis, ParsePart, ParseItem,
         EndParts, DeliverAssignment, DeliverPart, DeliverElement, ParseNamedBit,
         EndNamedBits, ParseConstraint, EndConstraints, ParseAlphabetItem, EndAlphabet
<1> SUFFICES Outcome
  BY <1>1
<1>2. Now(n)
  BY <1>1, InvNow
<1> HIDE DEF n
<1>3. CASE ParseModule
  BY <1>2, <1>3, ModuleStep
<1>4. CASE ParseFile
  BY <1>2, <1>4, FileStep
<1>5. CASE ParseImport
  BY <1>2, <1>5, ImportStep
<1>6. CASE ParseAssignment
  BY <1>2, <1>6, AssignmentStep
<1>7. CASE EndModule
  BY <1>2, <1>7, EndModuleStep
<1>8. CASE ParseSimple
  BY <1>2, <1>8, SimpleStep
<1>9. CASE ParseRanged
  BY <1>2, <1>9, RangedStep
<1>10. CASE ParseSequenceOrSequenceOf
  BY <1>2, <1>10, SequenceStep
<1>11. CASE ParseChoiceOrEnumerated
  BY <1>2, <1>11, ChoiceStep
<1>12. CASE ParseBitString
  BY <1>2, <1>12, BitStringStep
<1>13. CASE ParseVisibleString
  BY <1>2, <1>13, VisibleStringStep
<1>14. CASE NoType
  BY <1>14, Failing DEF NoType
<1>15. CASE Ellipsis
  BY <1>2, <1>15, EllipsisStep
<1>16. CASE ParsePart
  BY <1>2, <1>16, PartStep
<1>17. CASE ParseItem
  BY <1>2, <1>17, ItemStep
<1>18. CASE EndParts
  BY <1>2, <1>18, EndPartsStep
<1>19. CASE DeliverAssignment
  BY <1>2, <1>19, DeliverAssignmentStep
<1>20. CASE DeliverPart
  BY <1>2, <1>20, DeliverPartStep
<1>21. CASE DeliverElement
  BY <1>2, <1>21, DeliverElementStep
<1>22. CASE ParseNamedBit
  BY <1>2, <1>22, NamedBitStep
<1>23. CASE EndNamedBits
  BY <1>2, <1>23, EndNamedBitsStep
<1>24. CASE ParseConstraint
  BY <1>2, <1>24, ConstraintStep
<1>25. CASE EndConstraints
  BY <1>2, <1>25, EndConstraintsStep
<1>26. CASE ParseAlphabetItem
  BY <1>2, <1>26, AlphabetItemStep
<1>27. CASE EndAlphabet
  BY <1>2, <1>27, EndAlphabetStep
<1> QED
  BY <1>1, <1>3, <1>4, <1>5, <1>6, <1>7, <1>8, <1>9, <1>10, <1>11, <1>12, <1>13, <1>14,
     <1>15, <1>16, <1>17, <1>18, <1>19, <1>20, <1>21, <1>22, <1>23, <1>24, <1>25, <1>26,
     <1>27 DEF Parse

(* A token is found: EOF, and the file is one, or another one. *)
LEMMA TokenizeInv ==
  ASSUME Inv, Tokenize, UNCHANGED parserVars
  PROVE  Inv'
<1>1. Fresh /\ NotEnded /\ at' = at /\ goal' = goal /\ stack' = stack
  BY DEF Tokenize, Inv, parserVars
<1>2. PICK t \in {NextToken} :
        \/ phase' = "failed"
        \/ /\ tokens' = Append(tokens, [type |-> t.type, text |-> t.text])
           /\ phase' = IF t.type = "EOF" THEN "parse" ELSE "lex"
  BY DEF Tokenize
<1>3. CASE phase' = "failed"
  BY <1>3 DEF Inv
<1>4. CASE /\ tokens' = Append(tokens, [type |-> t.type, text |-> t.text])
           /\ phase' = IF t.type = "EOF" THEN "parse" ELSE "lex"
  <2> DEFINE x == [type |-> t.type, text |-> t.text]
             s == Append(tokens, x)
             n == Len(tokens)
  <2>1. x.type = t.type
    OBVIOUS
  <2>2. n \in Nat /\ DOMAIN tokens = 1..n /\ \A i \in 1..n : tokens[i].type # "EOF"
    BY <1>1 DEF NotEnded, IsSeq
  <2>3. IsSeq(s) /\ Len(s) = n + 1 /\ s[n + 1] = x /\ \A i \in 1..n : s[i] = tokens[i]
    <3> HIDE DEF x
    <3> QED BY <1>1, AppendPushes DEF NotEnded, Pushed
  <2>4. tokens' = s
    BY <1>4
  <2> HIDE DEF x, s, n
  <2>5. DOMAIN s = 1..n + 1
    BY <2>3 DEF IsSeq
  <2>6. \A i \in DOMAIN s : i # n + 1 => s[i].type # "EOF"
    BY <2>2, <2>3, <2>5
  <2>7. CASE t.type = "EOF"
    <3>1. phase' = "parse"
      BY <1>4, <2>7
    <3>2. s # <<>>
      BY <2>2, <2>3
    <3>3. \A i \in DOMAIN s : s[i].type = "EOF" <=> i = Len(s)
      BY <2>1, <2>3, <2>6, <2>7
    <3>4. File'
      BY <2>3, <2>4, <3>2, <3>3 DEF File, Ended
    <3>5. (Position(at, goal))'
      <4>1. at' = 1 /\ 1 \in 1..Len(s) + 1
        BY <1>1, <2>2, <2>3 DEF NotEnded
      <4> QED BY <2>4, <4>1 DEF Position
    <3>6. (Shape(stack, Len(stack)))' /\ (Depth(goal, Len(stack)))'
      <4>1. stack' = <<>> /\ goal' = "file"
        BY <1>1 DEF Fresh
      <4> QED BY <4>1, EmptyInShape
    <3> QED BY <3>1, <3>4, <3>5, <3>6 DEF Inv, Reading
  <2>8. CASE t.type # "EOF"
    <3>1. phase' = "lex"
      BY <1>4, <2>8
    <3>2. NotEnded'
      BY <1>1, <2>1, <2>3, <2>4, <2>6, <2>8 DEF NotEnded
    <3>3. Fresh'
      BY <1>1 DEF Fresh
    <3> QED BY <3>1, <3>2, <3>3 DEF Inv
  <2> QED BY <2>7, <2>8
<1> QED BY <1>2, <1>3, <1>4

(* ... so the invariant is one, on any texts. *)
LEMMA InitInv == ReadInit => Inv
<1> SUFFICES ASSUME ReadInit PROVE Inv
  OBVIOUS
<1>1. tokens = <<>> /\ Len(tokens) = 0
  BY DEF ReadInit, ReadFirst
<1>2. IsSeq(tokens) /\ DOMAIN tokens = {}
  BY <1>1 DEF IsSeq
<1> QED BY <1>2 DEF ReadInit, ReadFirst, Inv, Fresh, NotEnded
LEMMA NextInv ==
  Inv /\ [ReadNext]_<<phase, lexerVars, parserVars>> => Inv'
<1> SUFFICES ASSUME Inv, [ReadNext]_<<phase, lexerVars, parserVars>> PROVE Inv'
  OBVIOUS
<1>1. CASE UNCHANGED <<phase, lexerVars, parserVars>>
  <2>1. /\ phase' = phase /\ tokens' = tokens /\ at' = at /\ goal' = goal
        /\ stack' = stack
    BY <1>1 DEF lexerVars, parserVars
  <2> QED
    BY <2>1 DEF Inv, Fresh, NotEnded, Reading, File, Ended, Position, Shape, IsSeq, IsNode,
                Depth
<1>2. CASE Parse
  <2>1. phase = "parse" /\ Outcome
    BY <1>2, StepOutcome
  <2>2. CASE phase' = "failed"
    BY <2>2 DEF Inv
  <2>3. CASE phase' = "next" /\ Fresh' /\ tokens' = <<>>
    BY <2>3 DEF Inv
  <2>4. CASE phase' = "parse" /\ tokens' = tokens /\ Moves(at', goal', stack')
    <3>1. File'
      BY <2>1, <2>4 DEF Inv, Reading, File, Ended
    <3>2. (Position(at, goal))' /\ (Shape(stack, Len(stack)))' /\ (Depth(goal, Len(stack)))'
      BY <2>4 DEF Moves, Position
    <3> QED BY <2>4, <3>1, <3>2 DEF Inv, Reading
  <2> QED BY <2>1, <2>2, <2>3, <2>4 DEF Outcome
<1>3. CASE Tokenize /\ UNCHANGED parserVars
  BY <1>3, TokenizeInv
<1>4. ASSUME NEW text \in Texts, ReadAnother(text)
      PROVE  Inv'
  <2>1. tokens' = <<>> /\ goal' = goal /\ stack' = stack /\ at' = 1 /\ phase' = "lex"
    BY <1>4 DEF ReadAnother, Inv
  <2>2. Fresh'
    BY <1>4, <2>1 DEF ReadAnother, Inv, Fresh
  <2>3. NotEnded'
    <3>1. Len(tokens') = 0 /\ DOMAIN tokens' = {}
      BY <2>1
    <3> QED BY <2>1, <3>1 DEF NotEnded, IsSeq
  <2> QED BY <2>1, <2>2, <2>3 DEF Inv
<1>5. CASE Otherwise
  BY <1>5 DEF Otherwise, Inv
<1> QED BY <1>1, <1>2, <1>3, <1>4, <1>5 DEF ReadNext

LEMMA InvHolds == ReadSpec => []Inv
BY InitInv, NextInv, PTL DEF ReadSpec

(* From any state with the invariant, every iteration of every loop but    *)
(* that over an alphabet gets further; none changes nothing. As Rank and   *)
(* the tokens left are numbers, no loop turns for ever.                    *)
THEOREM ParserMoves ==
  ASSUME Inv, Parse, phase' = "parse", ~Stuck
  PROVE  Forward
<1>1. phase = "parse" /\ Moves(at', goal', stack')
  BY StepOutcome DEF Outcome
<1>2. at' \in 1..Len(tokens) + 1 /\ at' >= at /\ Progress(at', goal', Len(stack'))
  BY <1>1 DEF Moves, Position
<1>3. at \in Nat /\ Len(tokens) \in Nat /\ Len(stack) \in Nat
  BY <1>1, InvNow DEF Now
<1>4. Len(stack') \in Nat
  BY <1>1 DEF Moves, Shape, IsSeq
<1>5. at' \in at..Len(tokens) + 1
  BY <1>2, <1>3
<1>6. at' > at \/ Rank' < Rank
  <2>1. CASE at' > at
    BY <2>1
  <2>2. CASE Len(stack') < Len(stack)
    <3> SUFFICES ASSUME NEW m, m = Len(stack'), NEW n, n = Len(stack)
                 PROVE  2 * m + (IF goal' = "returned" THEN 1 ELSE 0) <
                          2 * n + (IF goal = "returned" THEN 1 ELSE 0)
      BY DEF Rank
    <3>1. m \in Nat /\ n \in Nat /\ m + 1 <= n
      BY <1>3, <1>4, <2>2
    <3> QED BY <3>1
  <2>3. CASE Len(stack') = Len(stack) /\ goal = "returned" /\ goal' # "returned"
    BY <1>3, <2>3 DEF Rank
  <2> QED BY <1>2, <2>1, <2>2, <2>3 DEF Progress
<1> QED BY <1>5, <1>6 DEF Forward

(* On any texts: a step that changes anything gets further.                *)
THEOREM ParserAdvances == ReadSpec => Advances
<1>1. Inv /\ [ReadNext]_<<phase, lexerVars, parserVars>> =>
        [phase = "parse" /\ phase' = "parse" /\ ~Stuck => Forward
        ]_<<phase, lexerVars, parserVars>>
  <2> SUFFICES ASSUME Inv, ReadNext, phase = "parse", phase' = "parse", ~Stuck
               PROVE  Forward
    OBVIOUS
  <2>1. Parse
    BY DEF ReadNext, Tokenize, ReadAnother, Otherwise
  <2> QED BY <2>1, ParserMoves
<1> QED BY <1>1, InitInv, NextInv, PTL DEF ReadSpec, Advances

(* On any texts: what is accepted is whole modules, to the last token.   *)
THEOREM ParserAcceptsWholeModules == ReadSpec => AcceptsWholeModules
<1>1. Inv /\ [ReadNext]_<<phase, lexerVars, parserVars>> =>
        [phase = "parse" /\ phase' = "next" =>
           /\ stack = <<>>
           /\ Len(tokens) > 1 => tokens[Len(tokens) - 1].type = "END"
        ]_<<phase, lexerVars, parserVars>>
  <2> SUFFICES ASSUME Inv, ReadNext, phase = "parse", phase' = "next" PROVE Accepted
    BY DEF Accepted
  <2>1. Parse
    BY DEF ReadNext, Tokenize, ReadAnother, Otherwise
  <2> QED BY <2>1, StepOutcome DEF Outcome
<1> QED BY <1>1, InitInv, NextInv, PTL DEF ReadSpec, AcceptsWholeModules

-----------------------------------------------------------------------------
(* Induction, for a set of numbers. *)
LEMMA Induction ==
  ASSUME NEW S, 0 \in S, \A n \in Nat : n \in S => n + 1 \in S
  PROVE  Nat \subseteq S
<1> DEFINE T == Nat \ S
<1> SUFFICES ASSUME T # {} PROVE FALSE
  OBVIOUS
<1>1. PICK x \in T : \A y \in T : ~(<<y, x>> \in OpToRel(<, Nat))
  <2>1. T \subseteq Nat
    OBVIOUS
  <2> HIDE DEF T
  <2> QED BY <2>1, WFMin, NatLessThanWellFounded
<1>2. x \in Nat /\ x # 0
  OBVIOUS
<1>3. x - 1 \in Nat /\ x - 1 < x /\ (x - 1) + 1 = x
  BY <1>2
<1>4. x - 1 \in T
  BY <1>2, <1>3
<1>5. <<x - 1, x>> \in OpToRel(<, Nat)
  BY <1>2, <1>3 DEF OpToRel
<1> QED BY <1>1, <1>4, <1>5

(* What recursion on later and later positions defines: a function f on D, *)
(* where x either stops, or leads on to jump[x], of lower rank, from whose *)
(* value that of x is made.                                                *)
Follows(f, D, stop, end, jump, make) ==
  f = [x \in D |-> IF x \in stop THEN end[x] ELSE make[x, f[jump[x]]]]
Recursion(D, V, stop, end, jump, make, rank, n) ==
  /\ n \in Nat /\ rank \in [D -> 0..n]
  /\ jump \in [D -> D] /\ end \in [D -> V] /\ make \in [D \X V -> V]
  /\ \A x \in D \ stop : rank[jump[x]] < rank[x]
Defines(D, V, stop, end, jump, make) ==
  \E f \in [D -> V] : Follows(f, D, stop, end, jump, make)

LEMMA RecursionDefines ==
  ASSUME NEW D, NEW V, NEW stop, NEW end, NEW jump, NEW make, NEW rank, NEW n,
         Recursion(D, V, stop, end, jump, make, rank, n)
  PROVE  Defines(D, V, stop, end, jump, make)
<1> DEFINE value(f, x) == IF x \in stop THEN end[x] ELSE make[x, f[jump[x]]]
           P(m) == \E f \in [D -> V] : \A x \in D : rank[x] < m => f[x] = value(f, x)
<1>1. P(0)
  <2>1. end \in [D -> V] /\ \A x \in D : ~(rank[x] < 0)
    BY DEF Recursion
  <2> QED BY <2>1
<1>2. ASSUME NEW m \in Nat, P(m) PROVE P(m + 1)
  <2>1. PICK f \in [D -> V] : \A x \in D : rank[x] < m => f[x] = value(f, x)
    BY <1>2
  <2> DEFINE g == [x \in D |-> value(f, x)]
  <2>2. g \in [D -> V]
    <3>1. \A x \in D : value(f, x) \in V
      BY DEF Recursion
    <3> QED BY <3>1
  <2>3. ASSUME NEW x \in D, rank[x] < m + 1 PROVE g[x] = value(g, x)
    <3>1. CASE x \in stop
      BY <3>1
    <3>2. CASE x \notin stop
      <4>1. jump[x] \in D /\ rank[jump[x]] < m
        BY <2>3, <3>2 DEF Recursion
      <4>2. f[jump[x]] = g[jump[x]]
        BY <2>1, <4>1
      <4> QED BY <3>2, <4>2
    <3> QED BY <3>1, <3>2
  <2> HIDE DEF g
  <2> QED BY <2>2, <2>3
<1> HIDE DEF P
<1>3. \A m \in Nat : P(m)
  <2> DEFINE S == {m \in Nat : P(m)}
  <2>1. 0 \in S /\ \A m \in Nat : m \in S => m + 1 \in S
    BY <1>1, <1>2
  <2> HIDE DEF S
  <2>2. Nat \subseteq S
    BY <2>1, Induction
  <2> QED BY <2>2 DEF S
<1>4. P(n + 1) /\ n \in Nat
  BY <1>3 DEF Recursion
<1>5. PICK f \in [D -> V] : \A x \in D : rank[x] < n + 1 => f[x] = value(f, x)
  BY <1>4 DEF P
<1>6. \A x \in D : rank[x] < n + 1
  BY DEF Recursion
<1>7. f = [x \in D |-> value(f, x)]
  BY <1>5, <1>6
<1> QED BY <1>7 DEF Defines, Follows


-----------------------------------------------------------------------------
(* The text being read, its characters and its signs. *)
Sign(word, chars, n) ==
  \A p \in Positions : Here(p, n) = word <=> \A i \in 1..n : Ch(p + i - 1) = chars[i]
Readable ==
  /\ Len(source) \in Nat
  /\ \A p \in Positions : Ch(p) = NoChar <=> p > Len(source)
  /\ Sign("--", <<"-", "-">>, 2) /\ Sign("---", <<"-", "-", "-">>, 3)
  /\ Sign("..", <<".", ".">>, 2) /\ Sign("...", <<".", ".", ".">>, 3)
  /\ Sign("::=", <<":", ":", "=">>, 3)

(* A sign at any position, the end of the text included, where it is not. *)
SignWithin(word, chars, m, L) ==
  \A p \in 1..L - m :
    SubSeq(source, p, p + m) = word
      <=> \A i \in 1..m + 1 : SubSeq(source, p + i - 1, p + i - 1) = chars[i]
LEMMA SignAnywhere ==
  ASSUME NEW L \in Nat, L = Len(source), NEW word, word # NoChar, NEW chars, NEW m \in Nat,
         chars[m + 1] # NoChar, SignWithin(word, chars, m, L)
  PROVE  Sign(word, chars, m + 1)
<1> SUFFICES ASSUME NEW p \in Nat, p # 0
             PROVE  Here(p, m + 1) = word <=> \A i \in 1..m + 1 : Ch(p + i - 1) = chars[i]
  BY DEF Sign, Positions
<1>1. \A k \in Nat : Ch(k) = IF k <= L THEN SubSeq(source, k, k) ELSE NoChar
  <2> TAKE k \in Nat
  <2>1. k + 1 - 1 = k
    OBVIOUS
  <2> QED BY <2>1 DEF Ch, Here
<1>2. Here(p, m + 1) = IF p + m <= L THEN SubSeq(source, p, p + m) ELSE NoChar
  <2>1. p + (m + 1) - 1 = p + m
    OBVIOUS
  <2> QED BY <2>1 DEF Here
<1>3. CASE p + m <= L
  <2>1. Here(p, m + 1) = SubSeq(source, p, p + m) /\ p \in 1..L - m
    BY <1>2, <1>3
  <2>2. \A i \in 1..m + 1 : Ch(p + i - 1) = SubSeq(source, p + i - 1, p + i - 1)
    <3> TAKE i \in 1..m + 1
    <3>1. p + i - 1 \in Nat /\ p + i - 1 <= L
      BY <1>3
    <3> QED BY <1>1, <3>1
  <2> QED BY <2>1, <2>2 DEF SignWithin
<1>4. CASE ~(p + m <= L)
  <2>1. Here(p, m + 1) = NoChar
    BY <1>2, <1>4
  <2>2. Ch(p + (m + 1) - 1) = NoChar /\ m + 1 \in 1..m + 1
    <3>1. p + (m + 1) - 1 = p + m /\ p + m \in Nat
      OBVIOUS
    <3> QED BY <1>1, <1>4, <3>1
  <2> QED BY <2>1, <2>2
<1> QED BY <1>3, <1>4

LEMMA SignIsCharacters ==
  ASSUME source \in Texts, NEW sign \in Signs, NEW m \in Nat, Len(sign[2]) = m + 1,
         sign[1] # NoChar, sign[2][m + 1] # NoChar
  PROVE  Sign(sign[1], sign[2], m + 1)
<1> DEFINE L == Len(source)
<1>1. /\ L \in Nat
      /\ \A p \in 1..L + 1 - Len(sign[2]) :
           SubSeq(source, p, p + Len(sign[2]) - 1) = sign[1]
             <=> \A i \in 1..Len(sign[2]) :
                   SubSeq(source, p + i - 1, p + i - 1) = sign[2][i]
  BY TextsAssumption
<1>2. \A p \in 1..L + 1 - (m + 1) :
        SubSeq(source, p, p + (m + 1) - 1) = sign[1]
          <=> \A i \in 1..m + 1 : SubSeq(source, p + i - 1, p + i - 1) = sign[2][i]
  BY <1>1
<1> SUFFICES ASSUME NEW n, n = L, n \in Nat PROVE Sign(sign[1], sign[2], m + 1)
  BY <1>1
<1>3. SignWithin(sign[1], sign[2], m, n)
  <2>1. \A p \in 1..n - m : p \in 1..n + 1 - (m + 1) /\ p + (m + 1) - 1 = p + m
    OBVIOUS
  <2> QED BY <1>2, <2>1 DEF SignWithin
<1>4. n = Len(source)
  OBVIOUS
<1> HIDE DEF L
<1> QED BY <1>3, <1>4, SignAnywhere

LEMMA NoCharIsNoSign ==
  /\ NoChar # "--" /\ NoChar # "---" /\ NoChar # ".." /\ NoChar # "..." /\ NoChar # "::="
  /\ NoChar # "-" /\ NoChar # "." /\ NoChar # ":" /\ NoChar # "=" /\ NoChar # "\n"
BY Zenon DEF NoChar

LEMMA TextIsReadable ==
  ASSUME source \in Texts
  PROVE  Readable
<1>1. /\ Len(source) \in Nat
      /\ \A p \in 1..Len(source) : SubSeq(source, p, p) # NoChar
  BY TextsAssumption
<1>2. \A p \in Positions : Ch(p) = NoChar <=> p > Len(source)
  <2> SUFFICES ASSUME NEW p \in Nat, p # 0, NEW n \in Nat, n = Len(source)
               PROVE  Ch(p) = NoChar <=> p > n
    BY <1>1 DEF Positions
  <2>1. Ch(p) = IF p <= n THEN SubSeq(source, p, p) ELSE NoChar
    <3>1. p + 1 - 1 = p
      OBVIOUS
    <3> QED BY <3>1 DEF Ch, Here
  <2>2. p <= n => SubSeq(source, p, p) # NoChar
    BY <1>1
  <2> QED BY <2>1, <2>2
<1>3. Sign("--", <<"-", "-">>, 2)
  <2> DEFINE sign == <<"--", <<"-", "-">>>>
  <2>1. /\ sign \in Signs /\ Len(sign[2]) = 1 + 1 /\ sign[1] = "--"
        /\ sign[2] = <<"-", "-">> /\ sign[2][1 + 1] = "-"
    BY DEF Signs
  <2> HIDE DEF sign
  <2>2. Sign(sign[1], sign[2], 1 + 1)
    BY <2>1, SignIsCharacters, NoCharIsNoSign
  <2> QED BY <2>1, <2>2
<1>4. Sign("---", <<"-", "-", "-">>, 3)
  <2> DEFINE sign == <<"---", <<"-", "-", "-">>>>
  <2>1. /\ sign \in Signs /\ Len(sign[2]) = 2 + 1 /\ sign[1] = "---"
        /\ sign[2] = <<"-", "-", "-">> /\ sign[2][2 + 1] = "-"
    BY DEF Signs
  <2> HIDE DEF sign
  <2>2. Sign(sign[1], sign[2], 2 + 1)
    BY <2>1, SignIsCharacters, NoCharIsNoSign
  <2> QED BY <2>1, <2>2
<1>5. Sign("..", <<".", ".">>, 2)
  <2> DEFINE sign == <<"..", <<".", ".">>>>
  <2>1. /\ sign \in Signs /\ Len(sign[2]) = 1 + 1 /\ sign[1] = ".."
        /\ sign[2] = <<".", ".">> /\ sign[2][1 + 1] = "."
    BY DEF Signs
  <2> HIDE DEF sign
  <2>2. Sign(sign[1], sign[2], 1 + 1)
    BY <2>1, SignIsCharacters, NoCharIsNoSign
  <2> QED BY <2>1, <2>2
<1>6. Sign("...", <<".", ".", ".">>, 3)
  <2> DEFINE sign == <<"...", <<".", ".", ".">>>>
  <2>1. /\ sign \in Signs /\ Len(sign[2]) = 2 + 1 /\ sign[1] = "..."
        /\ sign[2] = <<".", ".", ".">> /\ sign[2][2 + 1] = "."
    BY DEF Signs
  <2> HIDE DEF sign
  <2>2. Sign(sign[1], sign[2], 2 + 1)
    BY <2>1, SignIsCharacters, NoCharIsNoSign
  <2> QED BY <2>1, <2>2
<1>7. Sign("::=", <<":", ":", "=">>, 3)
  <2> DEFINE sign == <<"::=", <<":", ":", "=">>>>
  <2>1. /\ sign \in Signs /\ Len(sign[2]) = 2 + 1 /\ sign[1] = "::="
        /\ sign[2] = <<":", ":", "=">> /\ sign[2][2 + 1] = "="
    BY DEF Signs
  <2> HIDE DEF sign
  <2>2. Sign(sign[1], sign[2], 2 + 1)
    BY <2>1, SignIsCharacters, NoCharIsNoSign
  <2> QED BY <2>1, <2>2
<1> QED BY <1>1, <1>2, <1>3, <1>4, <1>5, <1>6, <1>7 DEF Readable

(* The signs that the lexer and the property look for, by their characters. *)
LEMMA HyphenPair ==
  ASSUME Readable, NEW p \in Positions
  PROVE  Here(p, 2) = "--" <=> Ch(p) = "-" /\ Ch(p + 1) = "-"
<1>1. p \in Nat /\ Sign("--", <<"-", "-">>, 2)
  BY DEF Readable, Positions
<1> QED BY <1>1 DEF Sign
LEMMA HyphenTriple ==
  ASSUME Readable, NEW p \in Positions
  PROVE  Here(p, 3) = "---" <=> Ch(p) = "-" /\ Ch(p + 1) = "-" /\ Ch(p + 2) = "-"
<1>1. p \in Nat /\ Sign("---", <<"-", "-", "-">>, 3)
  BY DEF Readable, Positions
<1> QED BY <1>1 DEF Sign
LEMMA Dots ==
  ASSUME Readable, NEW p \in Positions
  PROVE  /\ Here(p, 2) = ".." => Ch(p) = "." /\ Ch(p + 1) = "."
         /\ Here(p, 3) = "..." => Ch(p) = "." /\ Ch(p + 1) = "." /\ Ch(p + 2) = "."
         /\ Here(p, 3) = "::=" => Ch(p) = ":" /\ Ch(p + 1) = ":" /\ Ch(p + 2) = "="
<1>1. p \in Nat /\ Sign("..", <<".", ".">>, 2) /\ Sign("...", <<".", ".", ".">>, 3)
      /\ Sign("::=", <<":", ":", "=">>, 3)
  BY DEF Readable, Positions
<1>2. Here(p, 2) = ".." => Ch(p) = "." /\ Ch(p + 1) = "."
  BY <1>1 DEF Sign
<1>3. Here(p, 3) = "..." => Ch(p) = "." /\ Ch(p + 1) = "." /\ Ch(p + 2) = "."
  BY <1>1 DEF Sign
<1>4. Here(p, 3) = "::=" => Ch(p) = ":" /\ Ch(p + 1) = ":" /\ Ch(p + 2) = "="
  BY <1>1 DEF Sign
<1> QED BY <1>2, <1>3, <1>4

-----------------------------------------------------------------------------
(* What the lexer's recursive functions do: each goes on to later positions, *)
(* and stops at the end of the text if not before.                           *)
LEMMA Downward ==
  ASSUME NEW L \in Nat, NEW S,
         \A p \in Positions : p > L => p \in S,
         \A p \in Positions : p <= L /\ (\A q \in Positions : q > p => q \in S) => p \in S
  PROVE  Positions \subseteq S
<1> DEFINE T == {n \in Nat : \A p \in Positions : p + n > L => p \in S}
<1>1. 0 \in T
  BY DEF Positions
<1>2. \A n \in Nat : n \in T => n + 1 \in T
  <2> SUFFICES ASSUME NEW n \in Nat, n \in T, NEW p \in Positions, p + (n + 1) > L
               PROVE  p \in S
    OBVIOUS
  <2>1. \A q \in Positions : q > p => q \in S
    BY DEF Positions
  <2>2. CASE p > L
    BY <2>2
  <2>3. CASE ~(p > L)
    <3>1. p <= L
      BY <2>3 DEF Positions
    <3> QED BY <2>1, <3>1
  <2> QED BY <2>2, <2>3
<1> HIDE DEF T
<1>3. L + 1 \in T
  BY <1>1, <1>2, Induction
<1>4. \A p \in Positions : p + (L + 1) > L
  BY DEF Positions
<1> QED BY <1>3, <1>4 DEF T

Onward(stop, jump) ==
  /\ jump \in [Positions -> Positions]
  /\ \A p \in Positions \ stop : p <= Len(source) /\ jump[p] > p
LEMMA OnwardDefines ==
  ASSUME Readable, NEW V, NEW stop, NEW end \in [Positions -> V], NEW jump,
         NEW make \in [Positions \X V -> V], Onward(stop, jump)
  PROVE  Defines(Positions, V, stop, end, jump, make)
<1> DEFINE n == Len(source) + 1
           rank == [p \in Positions |-> IF p > Len(source) THEN 0 ELSE n - p]
<1>1. Len(source) \in Nat
  BY DEF Readable
<1>2. n \in Nat /\ rank \in [Positions -> 0..n]
  BY <1>1 DEF Positions
<1>3. ASSUME NEW p \in Positions \ stop PROVE rank[jump[p]] < rank[p]
  <2>1. p <= Len(source) /\ jump[p] > p /\ jump[p] \in Positions
    BY DEF Onward
  <2> SUFFICES ASSUME NEW q \in Positions, q > p PROVE rank[q] < rank[p]
    BY <2>1
  <2> QED BY <1>1, <2>1 DEF Positions
<1> HIDE DEF n, rank
<1>4. Recursion(Positions, V, stop, end, jump, make, rank, n)
  BY <1>2, <1>3 DEF Recursion, Onward
<1> QED BY <1>4, RecursionDefines

(* A function that is only led on. *)
Walk(stop, end, jump, f) ==
  f = [p \in Positions |-> IF p \in stop THEN end[p] ELSE f[jump[p]]]
LEMMA WalkDefines ==
  ASSUME Readable, NEW stop, NEW end \in [Positions -> Positions], NEW jump,
         Onward(stop, jump)
  PROVE  \E f : Walk(stop, end, jump, f)
<1> DEFINE make == [x \in Positions \X Positions |-> x[2]]
<1>1. make \in [Positions \X Positions -> Positions]
  OBVIOUS
<1>2. \A p, q \in Positions : make[p, q] = q
  OBVIOUS
<1> HIDE DEF make
<1>3. Defines(Positions, Positions, stop, end, jump, make)
  BY <1>1, OnwardDefines
<1>4. PICK f \in [Positions -> Positions] : Follows(f, Positions, stop, end, jump, make)
  BY <1>3 DEF Defines
<1>5. jump \in [Positions -> Positions]
  BY DEF Onward
<1>6. Walk(stop, end, jump, f)
  <2>1. \A p \in Positions : make[p, f[jump[p]]] = f[jump[p]]
    BY <1>2, <1>5
  <2> QED BY <1>4, <2>1 DEF Follows, Walk
<1> QED BY <1>6

(* The end of a run of characters. *)
LEMMA PastDefined ==
  ASSUME Readable, NEW chars, NoChar \notin chars, NEW p \in Positions
  PROVE  Past(p, chars) = IF Ch(p) \in chars THEN Past(p + 1, chars) ELSE p
<1> DEFINE F(f) == [q \in Positions |-> IF Ch(q) \in chars THEN f[q + 1] ELSE q]
           stop == {q \in Positions : Ch(q) \notin chars}
           end == [q \in Positions |-> q]
           jump == [q \in Positions |-> q + 1]
           past == CHOOSE f : f = F(f)
<1>1. \A q \in Positions : q \in Nat /\ q + 1 \in Positions
  BY DEF Positions
<1>2. end \in [Positions -> Positions] /\ jump \in [Positions -> Positions]
  BY <1>1
<1>3. Onward(stop, jump)
  <2> SUFFICES ASSUME NEW q \in Positions, q \notin stop
               PROVE  q <= Len(source) /\ jump[q] > q
    BY <1>2 DEF Onward
  <2>1. Ch(q) # NoChar
    OBVIOUS
  <2> QED BY <1>1, <2>1 DEF Readable
<1>4. PICK f : Walk(stop, end, jump, f)
  <2> HIDE DEF stop, end, jump
  <2> QED BY <1>2, <1>3, WalkDefines
<1>5. f = F(f)
  BY <1>4 DEF Walk
<1>6. past = F(past)
  <2>1. \E g : g = F(g)
    BY <1>5
  <2> HIDE DEF F
  <2> QED BY <2>1
<1>7. \A q \in Positions : Past(q, chars) = past[q]
  BY DEF Past
<1> HIDE DEF past
<1> QED BY <1>1, <1>6, <1>7

Run(p, r, chars) ==
  /\ r \in Positions /\ r >= p /\ (r = p \/ r <= Len(source) + 1)
  /\ Ch(r) \notin chars /\ \A k \in p..r - 1 : Ch(k) \in chars
LEMMA PastRun ==
  ASSUME Readable, NEW chars, NoChar \notin chars, NEW p \in Positions
  PROVE  Run(p, Past(p, chars), chars)
<1> DEFINE S == {q \in Positions : Run(q, Past(q, chars), chars)}
           L == Len(source)
<1>1. L \in Nat
  BY DEF Readable
<1>2. ASSUME NEW q \in Positions, Ch(q) \notin chars PROVE q \in S
  <2>1. Past(q, chars) = q
    BY <1>2, PastDefined
  <2> QED BY <1>2, <2>1 DEF Run, Positions
<1>3. ASSUME NEW q \in Positions, Ch(q) \in chars, q + 1 \in S PROVE q \in S
  <2> DEFINE r == Past(q + 1, chars)
  <2>1. Past(q, chars) = r /\ Run(q + 1, r, chars) /\ q \in Nat
    BY <1>3, PastDefined DEF Positions
  <2>2. q <= L
    <3>1. Ch(q) # NoChar /\ q \in Nat
      BY <1>3, <2>1
    <3> QED BY <1>1, <3>1 DEF Readable
  <2> HIDE DEF r
  <2>3. r \in Nat /\ r >= q + 1 /\ r <= L + 1 /\ r \in Positions
    BY <1>1, <2>1, <2>2 DEF Run, Positions
  <2>4. \A k \in q..r - 1 : k = q \/ k \in q + 1..r - 1
    BY <2>1, <2>3
  <2>5. Run(q, r, chars)
    BY <1>3, <2>1, <2>3, <2>4 DEF Run
  <2> QED BY <2>1, <2>5
<1>4. \A q \in Positions : q > L => q \in S
  BY <1>2 DEF Readable
<1>5. ASSUME NEW q \in Positions, \A r \in Positions : r > q => r \in S PROVE q \in S
  <2>1. q + 1 \in Positions /\ q + 1 > q
    BY DEF Positions
  <2>2. q + 1 \in S
    BY <1>5, <2>1
  <2> QED BY <1>2, <1>3, <2>2
<1> HIDE DEF S, L
<1>6. Positions \subseteq S
  BY <1>1, <1>4, <1>5, Downward
<1> QED BY <1>6 DEF S

(* The end of a word, and of a string. *)
LEMMA WordEndDefined ==
  ASSUME Readable, NEW p \in Positions
  PROVE  WordEnd[p] = IF Ch(p) \in WordChars /\ Here(p, 2) # "--" THEN WordEnd[p + 1] ELSE p
<1> DEFINE F(f) == [q \in Positions |->
                      IF Ch(q) \in WordChars /\ Here(q, 2) # "--" THEN f[q + 1] ELSE q]
           stop == {q \in Positions : ~(Ch(q) \in WordChars /\ Here(q, 2) # "--")}
           end == [q \in Positions |-> q]
           jump == [q \in Positions |-> q + 1]
<1>1. \A q \in Positions : q \in Nat /\ q + 1 \in Positions
  BY DEF Positions
<1>2. end \in [Positions -> Positions] /\ jump \in [Positions -> Positions]
  BY <1>1
<1>3. Onward(stop, jump)
  <2> SUFFICES ASSUME NEW q \in Positions, q \notin stop
               PROVE  q <= Len(source) /\ jump[q] > q
    BY <1>2 DEF Onward
  <2>1. Ch(q) # NoChar
    BY CharactersAssumption
  <2> QED BY <1>1, <2>1 DEF Readable
<1>4. PICK f : Walk(stop, end, jump, f)
  <2> HIDE DEF stop, end, jump
  <2> QED BY <1>2, <1>3, WalkDefines
<1>5. f = F(f)
  BY <1>4 DEF Walk
<1>6. WordEnd = F(WordEnd)
  <2>1. \E g : g = F(g)
    BY <1>5
  <2>2. WordEnd = CHOOSE g : g = F(g)
    BY DEF WordEnd
  <2> HIDE DEF F
  <2> QED BY <2>1, <2>2
<1> QED BY <1>1, <1>6

LEMMA StringEndDefined ==
  ASSUME Readable, NEW p \in Positions
  PROVE  StringEnd[p] = IF Ch(p) \in {Quote, NoChar} THEN p ELSE StringEnd[p + 1]
<1> DEFINE F(f) == [q \in Positions |-> IF Ch(q) \in {Quote, NoChar} THEN q ELSE f[q + 1]]
           stop == {q \in Positions : Ch(q) \in {Quote, NoChar}}
           end == [q \in Positions |-> q]
           jump == [q \in Positions |-> q + 1]
<1>1. \A q \in Positions : q \in Nat /\ q + 1 \in Positions
  BY DEF Positions
<1>2. end \in [Positions -> Positions] /\ jump \in [Positions -> Positions]
  BY <1>1
<1>3. Onward(stop, jump)
  <2> SUFFICES ASSUME NEW q \in Positions, q \notin stop
               PROVE  q <= Len(source) /\ jump[q] > q
    BY <1>2 DEF Onward
  <2> QED BY <1>1 DEF Readable
<1>4. PICK f : Walk(stop, end, jump, f)
  <2> HIDE DEF stop, end, jump
  <2> QED BY <1>2, <1>3, WalkDefines
<1>5. f = F(f)
  BY <1>4 DEF Walk
<1>6. StringEnd = F(StringEnd)
  <2>1. \E g : g = F(g)
    BY <1>5
  <2>2. StringEnd = CHOOSE g : g = F(g)
    BY DEF StringEnd
  <2> HIDE DEF F
  <2> QED BY <2>1, <2>2
<1> QED BY <1>1, <1>6

(* The end of a comment. *)
LEMMA CommentEndDefined ==
  ASSUME Readable, NEW p \in Positions
  PROVE  /\ Ch(p) = NoChar => CommentEnd[p] = p
         /\ Ch(p) = "\n" => CommentEnd[p] = p + 1
         /\ Here(p, 2) = "--" => CommentEnd[p] = p + 2
         /\ Ch(p) \notin {NoChar, "\n"} /\ Here(p, 2) # "--" => CommentEnd[p] = CommentEnd[p + 1]
<1> DEFINE F(f) == [q \in Positions |->
                      CASE Ch(q) = NoChar -> q
                        [] Ch(q) = "\n" -> q + 1
                        [] Here(q, 2) = "--" -> q + 2
                        [] OTHER -> f[q + 1]]
           stop == {q \in Positions : Ch(q) = NoChar \/ Ch(q) = "\n" \/ Here(q, 2) = "--"}
           end == [q \in Positions |-> IF Ch(q) = NoChar THEN q
                                       ELSE IF Ch(q) = "\n" THEN q + 1 ELSE q + 2]
           jump == [q \in Positions |-> q + 1]
<1>1. \A q \in Positions : q \in Nat /\ q + 1 \in Positions /\ q + 2 \in Positions
  BY DEF Positions
<1>2. end \in [Positions -> Positions] /\ jump \in [Positions -> Positions]
  BY <1>1
<1>3. Onward(stop, jump)
  <2> SUFFICES ASSUME NEW q \in Positions, q \notin stop
               PROVE  q <= Len(source) /\ jump[q] > q
    BY <1>2 DEF Onward
  <2> QED BY <1>1 DEF Readable
<1>4. PICK f : Walk(stop, end, jump, f)
  <2> HIDE DEF stop, end, jump
  <2> QED BY <1>2, <1>3, WalkDefines
<1>5. \A q \in Positions : Here(q, 2) = "--" => Ch(q) # NoChar /\ Ch(q) # "\n"
  <2> SUFFICES ASSUME NEW q \in Positions, Here(q, 2) = "--"
               PROVE  Ch(q) # NoChar /\ Ch(q) # "\n"
    OBVIOUS
  <2>1. Ch(q) = "-"
    BY HyphenPair
  <2> QED BY <2>1, NoCharIsNoSign
<1>6. f = F(f)
  <2>1. ASSUME NEW q \in Positions PROVE f[q] = F(f)[q]
    <3>1. f[q] = IF q \in stop THEN end[q] ELSE f[q + 1]
      BY <1>4 DEF Walk
    <3>2. CASE Ch(q) = NoChar
      BY <1>5, <3>1, <3>2, NoCharIsNoSign
    <3>3. CASE Ch(q) = "\n"
      BY <1>5, <3>1, <3>3, NoCharIsNoSign
    <3>4. CASE Here(q, 2) = "--"
      BY <1>5, <3>1, <3>4
    <3>5. CASE q \notin stop
      BY <3>1, <3>5
    <3> QED BY <3>2, <3>3, <3>4, <3>5
  <2>2. f = [q \in Positions |-> f[q]]
    BY <1>4 DEF Walk
  <2> QED BY <2>1, <2>2
<1>7. CommentEnd = F(CommentEnd)
  <2>1. \E g : g = F(g)
    BY <1>6
  <2>2. CommentEnd = CHOOSE g : g = F(g)
    BY DEF CommentEnd
  <2> HIDE DEF F
  <2> QED BY <2>1, <2>2
<1>8. CommentEnd[p] = F(CommentEnd)[p]
  BY <1>7
<1> HIDE DEF stop, end, jump
<1>9. Ch(p) = NoChar => CommentEnd[p] = p
  BY <1>5, <1>8, NoCharIsNoSign
<1>10. Ch(p) = "\n" => CommentEnd[p] = p + 1
  BY <1>5, <1>8, NoCharIsNoSign
<1>11. Here(p, 2) = "--" => CommentEnd[p] = p + 2
  BY <1>5, <1>8
<1>12. Ch(p) \notin {NoChar, "\n"} /\ Here(p, 2) # "--" => CommentEnd[p] = CommentEnd[p + 1]
  BY <1>8
<1> QED BY <1>9, <1>10, <1>11, <1>12

(* Where a comment ends is no further than the end of the text. *)
LEMMA CommentEnds ==
  ASSUME Readable, NEW p \in Positions
  PROVE  CommentEnd[p] \in Positions /\ CommentEnd[p] >= p
<1> DEFINE S == {q \in Positions : CommentEnd[q] \in Positions /\ CommentEnd[q] >= q}
           L == Len(source)
<1>1. L \in Nat
  BY DEF Readable
<1>2. \A q \in Positions : q > L => q \in S
  <2> SUFFICES ASSUME NEW q \in Positions, q > L PROVE q \in S
    OBVIOUS
  <2>1. Ch(q) = NoChar
    BY DEF Readable
  <2> QED BY <2>1, CommentEndDefined DEF Positions
<1>3. ASSUME NEW q \in Positions, \A r \in Positions : r > q => r \in S PROVE q \in S
  <2>1. q \in Nat /\ q + 1 \in Positions /\ q + 1 > q /\ q + 2 \in Positions
    BY DEF Positions
  <2>2. q + 1 \in S
    BY <1>3, <2>1
  <2>3. CommentEnd[q] \in {q, q + 1, q + 2, CommentEnd[q + 1]}
    BY CommentEndDefined
  <2>4. \A r \in Positions : r >= q + 1 => r >= q
    BY <2>1 DEF Positions
  <2>5. CommentEnd[q + 1] \in Positions /\ CommentEnd[q + 1] >= q
    BY <2>2, <2>4
  <2>6. q >= q /\ q + 1 >= q /\ q + 2 >= q
    BY <2>1
  <2> QED BY <2>1, <2>3, <2>5, <2>6
<1> HIDE DEF S, L
<1>4. Positions \subseteq S
  BY <1>1, <1>2, <1>3, Downward
<1> QED BY <1>4 DEF S

(* The beginning of a token. *)
LEMMA StartDefined ==
  ASSUME Readable, NEW p \in Positions
  PROVE  LET q == Past(p, Blanks)
         IN  Start[p] = IF Here(q, 2) = "--" THEN Start[SkipComment(q)] ELSE q
<1> DEFINE q(r) == Past(r, Blanks)
           F(f) == [r \in Positions |->
                      IF Here(q(r), 2) = "--" THEN f[SkipComment(q(r))] ELSE q(r)]
           stop == {r \in Positions : Here(q(r), 2) # "--"}
           end == [r \in Positions |-> q(r)]
           jump == [r \in Positions |-> SkipComment(q(r))]
<1>1. \A r \in Positions : Run(r, q(r), Blanks) /\ q(r) \in Positions /\ q(r) >= r
  <2> SUFFICES ASSUME NEW r \in Positions PROVE Run(r, q(r), Blanks)
    BY DEF Run
  <2>1. NoChar \notin Blanks
    BY CharactersAssumption
  <2> QED BY <2>1, PastRun
<1>2. \A r \in Positions : SkipComment(r) \in Positions /\ SkipComment(r) > r
  <2> SUFFICES ASSUME NEW r \in Positions
               PROVE  SkipComment(r) \in Positions /\ SkipComment(r) > r
    OBVIOUS
  <2>1. r + 1 \in Positions /\ r \in Nat
    BY DEF Positions
  <2>2. SkipComment(r) \in Positions /\ SkipComment(r) >= r + 1
    BY <2>1, CommentEnds DEF SkipComment
  <2> QED BY <2>1, <2>2 DEF Positions
<1> HIDE DEF q
<1>3. end \in [Positions -> Positions] /\ jump \in [Positions -> Positions]
  BY <1>1, <1>2
<1>4. Onward(stop, jump)
  <2> SUFFICES ASSUME NEW r \in Positions, r \notin stop
               PROVE  r <= Len(source) /\ jump[r] > r
    BY <1>3 DEF Onward
  <2>1. q(r) \in Positions /\ q(r) >= r /\ Here(q(r), 2) = "--"
    BY <1>1
  <2>2. Ch(q(r)) # NoChar
    BY <2>1, HyphenPair, NoCharIsNoSign
  <2>3. q(r) <= Len(source) /\ Len(source) \in Nat
    BY <2>1, <2>2 DEF Readable, Positions
  <2>4. jump[r] \in Positions /\ jump[r] > q(r)
    BY <1>2, <2>1
  <2> QED BY <2>1, <2>3, <2>4 DEF Positions
<1>5. PICK f : Walk(stop, end, jump, f)
  <2> HIDE DEF stop, end, jump
  <2> QED BY <1>3, <1>4, WalkDefines
<1>6. f = F(f)
  BY <1>5 DEF Walk
<1>7. Start = F(Start)
  <2>1. \E g : g = F(g)
    BY <1>6
  <2>2. Start = CHOOSE g : g = F(g)
    BY DEF Start, q
  <2> HIDE DEF F
  <2> QED BY <2>1, <2>2
<1> QED BY <1>7 DEF q

-----------------------------------------------------------------------------
(* What is kept of a text. *)
LEMMA FirstInFound ==
  ASSUME NEW S, NEW p \in Nat, NEW n \in S, S \subseteq Nat, n >= p
  PROVE  LET q == FirstIn(S, p)
         IN  q \in S /\ q >= p /\ \A k \in p..q - 1 : k \notin S
<1> DEFINE T == {k \in S : k >= p}
           P(q) == q >= p /\ \A k \in p..q - 1 : k \notin S
<1>1. T \subseteq Nat /\ n \in T
  OBVIOUS
<1>2. PICK x \in T : \A y \in T : ~(<<y, x>> \in OpToRel(<, Nat))
  <2> HIDE DEF T
  <2> QED BY <1>1, WFMin, NatLessThanWellFounded
<1>3. x \in Nat /\ x >= p /\ x \in S
  OBVIOUS
<1>4. ASSUME NEW k \in p..x - 1 PROVE k \notin S
  <2>1. k \in Nat /\ k < x /\ k >= p
    BY <1>3
  <2>2. <<k, x>> \in OpToRel(<, Nat)
    BY <1>3, <2>1 DEF OpToRel
  <2> QED BY <1>2, <2>1, <2>2
<1>5. \E q \in S : P(q)
  BY <1>3, <1>4
<1>6. FirstIn(S, p) = CHOOSE q \in S : P(q)
  BY DEF FirstIn
<1> HIDE DEF P
<1>7. FirstIn(S, p) \in S /\ P(FirstIn(S, p))
  BY <1>5, <1>6
<1> QED BY <1>7 DEF P

Alnum == Letters \cup Digits
CommentStop(p) == FirstIn(Pairs \cup Ends({"\n"}), p + 2)
CommentNext(p) == IF CommentStop(p) \in Pairs THEN CommentStop(p) + 2 ELSE CommentStop(p)
StringStop(p) == FirstIn(Ends({Quote}), p + 1)

First(S, p, q) == q \in S /\ q \in Positions /\ q >= p /\ \A k \in p..q - 1 : k \notin S
LEMMA CommentStopFound ==
  ASSUME Readable, NEW p \in Positions, Here(p, 2) = "--"
  PROVE  First(Pairs \cup Ends({"\n"}), p + 2, CommentStop(p))
<1> DEFINE S == Pairs \cup Ends({"\n"})
           L == Len(source)
<1>1. L \in Nat /\ p \in Nat
  BY DEF Readable, Positions
<1>2. L + 1 \in S
  <2>1. L + 1 \in Positions /\ L + 1 > L
    BY <1>1 DEF Positions
  <2>2. Ch(L + 1) = NoChar
    BY <2>1 DEF Readable
  <2> QED BY <1>1, <2>2 DEF Ends
<1>3. p + 1 <= L
  <2>1. Ch(p + 1) # NoChar /\ p + 1 \in Positions
    BY HyphenPair, NoCharIsNoSign, <1>1 DEF Positions
  <2> QED BY <1>1, <2>1 DEF Readable, Positions
<1>4. S \subseteq Nat /\ \A k \in S : k # 0
  BY <1>1 DEF Pairs, Ends
<1> HIDE DEF S, L
<1>5. p + 2 \in Nat /\ L + 1 >= p + 2
  BY <1>1, <1>3
<1>6. LET q == FirstIn(S, p + 2)
      IN  q \in S /\ q >= p + 2 /\ \A k \in p + 2..q - 1 : k \notin S
  BY <1>2, <1>4, <1>5, FirstInFound
<1>7. FirstIn(S, p + 2) \in Positions
  BY <1>4, <1>6 DEF Positions
<1> QED BY <1>6, <1>7 DEF First, CommentStop, S

LEMMA StringStopFound ==
  ASSUME Readable, NEW p \in Positions, Ch(p) # NoChar
  PROVE  First(Ends({Quote}), p + 1, StringStop(p))
<1> DEFINE S == Ends({Quote})
           L == Len(source)
<1>1. L \in Nat /\ p \in Nat
  BY DEF Readable, Positions
<1>2. L + 1 \in S
  <2>1. L + 1 \in Positions /\ L + 1 > L
    BY <1>1 DEF Positions
  <2>2. Ch(L + 1) = NoChar
    BY <2>1 DEF Readable
  <2> QED BY <1>1, <2>2 DEF Ends
<1>3. p <= L
  BY <1>1 DEF Readable, Positions
<1>4. S \subseteq Nat /\ \A k \in S : k # 0
  BY <1>1 DEF Ends
<1> HIDE DEF S, L
<1>5. p + 1 \in Nat /\ L + 1 >= p + 1
  BY <1>1, <1>3
<1>6. LET q == FirstIn(S, p + 1)
      IN  q \in S /\ q >= p + 1 /\ \A k \in p + 1..q - 1 : k \notin S
  BY <1>2, <1>4, <1>5, FirstInFound
<1>7. FirstIn(S, p + 1) \in Positions
  BY <1>4, <1>6 DEF Positions
<1> QED BY <1>6, <1>7 DEF First, StringStop, S

(* The kinds of characters are apart. *)
LEMMA Kinds ==
  /\ NoChar \notin Blanks \cup Alnum \cup {Quote, "-"}
  /\ Quote \notin Blanks \cup Alnum \cup {"-"}
  /\ "-" \notin Blanks \cup Alnum
  /\ Blanks \cap Alnum = {}
<1>1. Quote # NoChar /\ Quote # "-"
  BY Zenon DEF Quote, NoChar
<1> QED BY <1>1, CharactersAssumption, NoCharIsNoSign DEF Alnum, WordChars

(* How many characters are passed over, and what is kept of them. *)
KeptNext(p) ==
  IF Here(p, 2) = "--" THEN CommentNext(p)
  ELSE IF Ch(p) \in Alnum THEN Past(p, Alnum)
  ELSE IF Ch(p) = Quote THEN StringStop(p) + 1
  ELSE p + 1
KeptHere(p) ==
  IF Here(p, 2) = "--" \/ Ch(p) \in Blanks THEN <<>>
  ELSE IF Ch(p) \in Alnum THEN Characters(p, Past(p, Alnum))
  ELSE IF Ch(p) = Quote THEN Characters(p, StringStop(p)) \o <<Quote>>
  ELSE <<Ch(p)>>
Alphabet == {Ch(p) : p \in Positions} \cup {Quote}

LEMMA KeptNextIsNext ==
  ASSUME Readable, NEW p \in Positions, Ch(p) # NoChar
  PROVE  KeptNext(p) \in Positions /\ KeptNext(p) > p
<1>1. p \in Nat /\ p + 1 \in Positions /\ p + 1 > p
  BY DEF Positions
<1>2. CASE Here(p, 2) = "--"
  <2>1. First(Pairs \cup Ends({"\n"}), p + 2, CommentStop(p))
    BY <1>2, CommentStopFound
  <2> DEFINE q == CommentStop(p)
  <2>2. q \in Positions /\ q >= p + 2 /\ KeptNext(p) \in {q, q + 2}
    BY <1>2, <2>1 DEF First, KeptNext, CommentNext
  <2> HIDE DEF q
  <2> QED BY <1>1, <2>2 DEF Positions
<1>3. CASE Here(p, 2) # "--" /\ Ch(p) \in Alnum
  <2> DEFINE q == Past(p, Alnum)
  <2>1. Run(p, q, Alnum)
    BY PastRun, Kinds
  <2>2. KeptNext(p) = q /\ q \in Positions /\ q >= p /\ q # p
    BY <1>3, <2>1 DEF KeptNext, Run
  <2> HIDE DEF q
  <2> QED BY <1>1, <2>2 DEF Positions
<1>4. CASE Here(p, 2) # "--" /\ Ch(p) \notin Alnum /\ Ch(p) = Quote
  <2> DEFINE q == StringStop(p)
  <2>1. First(Ends({Quote}), p + 1, q)
    BY StringStopFound
  <2>2. KeptNext(p) = q + 1 /\ q \in Positions /\ q >= p + 1
    BY <1>4, <2>1 DEF KeptNext, First
  <2> HIDE DEF q
  <2> QED BY <1>1, <2>2 DEF Positions
<1>5. CASE Here(p, 2) # "--" /\ Ch(p) \notin Alnum /\ Ch(p) # Quote
  BY <1>1, <1>5 DEF KeptNext
<1> QED BY <1>2, <1>3, <1>4, <1>5

LEMMA CharactersInAlphabet ==
  ASSUME NEW p \in Positions, NEW q \in Positions, q >= p
  PROVE  Characters(p, q) \in Seq(Alphabet) /\ Len(Characters(p, q)) = q - p
<1> DEFINE n == q - p
<1>1. n \in Nat
  BY DEF Positions
<1>2. \A i \in 1..n : Ch(p + i - 1) \in Alphabet
  <2> TAKE i \in 1..n
  <2>1. p + i - 1 \in Positions
    BY <1>1 DEF Positions
  <2> QED BY <2>1 DEF Alphabet
<1>3. Characters(p, q) = [i \in 1..n |-> Ch(p + i - 1)]
  BY DEF Characters
<1> HIDE DEF n
<1>4. Characters(p, q) \in [1..n -> Alphabet]
  BY <1>2, <1>3
<1>5. Characters(p, q) \in Seq(Alphabet) /\ Len(Characters(p, q)) = n
  BY <1>1, <1>4
<1> QED BY <1>5 DEF n

LEMMA KeptHereInAlphabet ==
  ASSUME Readable, NEW p \in Positions, Ch(p) # NoChar
  PROVE  KeptHere(p) \in Seq(Alphabet)
<1>1. <<>> \in Seq(Alphabet) /\ <<Quote>> \in Seq(Alphabet) /\ <<Ch(p)>> \in Seq(Alphabet)
  BY DEF Alphabet
<1>2. CASE Here(p, 2) = "--" \/ Ch(p) \in Blanks
  BY <1>1, <1>2 DEF KeptHere
<1>3. CASE ~(Here(p, 2) = "--" \/ Ch(p) \in Blanks) /\ Ch(p) \in Alnum
  <2>1. Run(p, Past(p, Alnum), Alnum)
    BY PastRun, Kinds
  <2>2. Characters(p, Past(p, Alnum)) \in Seq(Alphabet)
    BY <2>1, CharactersInAlphabet DEF Run
  <2> QED BY <1>3, <2>2 DEF KeptHere
<1>4. CASE ~(Here(p, 2) = "--" \/ Ch(p) \in Blanks) /\ Ch(p) \notin Alnum /\ Ch(p) = Quote
  <2>1. First(Ends({Quote}), p + 1, StringStop(p))
    BY StringStopFound
  <2>2. StringStop(p) \in Positions /\ StringStop(p) >= p
    BY <2>1 DEF First, Positions
  <2>3. Characters(p, StringStop(p)) \in Seq(Alphabet)
    BY <2>2, CharactersInAlphabet
  <2>4. Characters(p, StringStop(p)) \o <<Quote>> \in Seq(Alphabet)
    BY <1>1, <2>3
  <2> QED BY <1>4, <2>4 DEF KeptHere
<1>5. CASE ~(Here(p, 2) = "--" \/ Ch(p) \in Blanks) /\ Ch(p) \notin Alnum /\ Ch(p) # Quote
  BY <1>1, <1>5 DEF KeptHere
<1> QED BY <1>2, <1>3, <1>4, <1>5

(* What Kept is defined as, of a function like it. *)
KeptBody(f, p) ==
  CASE Ch(p) = NoChar -> <<>>
    [] Here(p, 2) = "--" ->
         f[IF FirstIn(Pairs \cup Ends({"\n"}), p + 2) \in Pairs
           THEN FirstIn(Pairs \cup Ends({"\n"}), p + 2) + 2
           ELSE FirstIn(Pairs \cup Ends({"\n"}), p + 2)]
    [] Ch(p) \in Blanks -> f[p + 1]
    [] Ch(p) \in Letters \cup Digits ->
         Characters(p, Past(p, Letters \cup Digits)) \o f[Past(p, Letters \cup Digits)]
    [] Ch(p) = Quote ->
         Characters(p, FirstIn(Ends({Quote}), p + 1)) \o <<Quote>>
           \o f[FirstIn(Ends({Quote}), p + 1) + 1]
    [] OTHER -> <<Ch(p)>> \o f[p + 1]

LEMMA KeptBodyIs ==
  ASSUME Readable, NEW f, NEW p \in Positions
  PROVE  /\ Ch(p) = NoChar => KeptBody(f, p) = <<>>
         /\ Ch(p) # NoChar /\ f[KeptNext(p)] \in Seq(Alphabet) =>
              KeptBody(f, p) = KeptHere(p) \o f[KeptNext(p)]
<1>1. Here(p, 2) = "--" => Ch(p) = "-"
  BY HyphenPair
<1>2. CASE Ch(p) = NoChar
  <2>1. Here(p, 2) # "--" /\ Ch(p) \notin Blanks \cup Letters \cup Digits /\ Ch(p) # Quote
    BY <1>1, <1>2, Kinds DEF Alnum
  <2>2. KeptBody(f, p) = <<>>
    BY <1>2, <2>1 DEF KeptBody
  <2> QED BY <1>2, <2>2
<1> DEFINE v == f[KeptNext(p)]
<1> SUFFICES ASSUME Ch(p) # NoChar, v \in Seq(Alphabet) PROVE KeptBody(f, p) = KeptHere(p) \o v
  BY <1>2
<1>3. <<>> \o v = v
  <2> HIDE DEF v
  <2> QED OBVIOUS
<1>4. CASE Here(p, 2) = "--"
  <2>1. Ch(p) \notin Blanks \cup Letters \cup Digits /\ Ch(p) # Quote
    BY <1>1, <1>4, Kinds DEF Alnum
  <2>2. KeptBody(f, p) = v
    BY <1>4, <2>1 DEF KeptBody, KeptNext, CommentNext, CommentStop
  <2> QED BY <1>3, <1>4, <2>2 DEF KeptHere
<1>5. CASE Here(p, 2) # "--" /\ Ch(p) \in Blanks
  <2>1. Ch(p) \notin Letters \cup Digits /\ Ch(p) # Quote
    BY <1>5, Kinds DEF Alnum
  <2>2. KeptBody(f, p) = v
    BY <1>5, <2>1 DEF KeptBody, KeptNext, Alnum
  <2> QED BY <1>3, <1>5, <2>2 DEF KeptHere
<1>6. CASE Here(p, 2) # "--" /\ Ch(p) \in Alnum
  <2>1. Ch(p) \notin Blanks /\ Ch(p) # Quote
    BY <1>6, Kinds
  <2>2. KeptBody(f, p) = Characters(p, Past(p, Alnum)) \o v
    BY <1>6, <2>1 DEF KeptBody, KeptNext, Alnum
  <2> QED BY <1>6, <2>1, <2>2 DEF KeptHere
<1>7. CASE Here(p, 2) # "--" /\ Ch(p) = Quote
  <2>1. Ch(p) \notin Blanks /\ Ch(p) \notin Alnum
    BY <1>7, Kinds
  <2>2. KeptBody(f, p) = Characters(p, StringStop(p)) \o <<Quote>> \o v
    BY <1>7, <2>1 DEF KeptBody, KeptNext, Alnum, StringStop
  <2> QED BY <1>7, <2>1, <2>2 DEF KeptHere
<1>8. CASE Here(p, 2) # "--" /\ Ch(p) \notin Blanks \cup Alnum /\ Ch(p) # Quote
  <2>1. KeptBody(f, p) = <<Ch(p)>> \o v
    BY <1>8 DEF KeptBody, KeptNext, Alnum
  <2> QED BY <1>8, <2>1 DEF KeptHere
<1> QED BY <1>4, <1>5, <1>6, <1>7, <1>8

LEMMA KeptIsBody ==
  ASSUME Readable
  PROVE  Kept = [p \in Positions |-> KeptBody(Kept, p)]
<1> DEFINE stop == {p \in Positions : Ch(p) = NoChar}
           end == [p \in Positions |-> <<>>]
           jump == [p \in Positions |-> IF Ch(p) = NoChar THEN p ELSE KeptNext(p)]
           here(p) == IF Ch(p) = NoChar THEN <<>> ELSE KeptHere(p)
           V == Seq(Alphabet)
           make == [x \in Positions \X V |-> here(x[1]) \o x[2]]
<1>1. \A p \in Positions : here(p) \in V
  BY KeptHereInAlphabet
<1>2. \A p \in Positions : Ch(p) # NoChar => KeptNext(p) \in Positions /\ KeptNext(p) > p
  BY KeptNextIsNext
<1>3. end \in [Positions -> V] /\ jump \in [Positions -> Positions]
  BY <1>2
<1>4. make \in [Positions \X V -> V]
  <2> HIDE DEF here
  <2> QED BY <1>1
<1>5. Onward(stop, jump)
  <2> SUFFICES ASSUME NEW p \in Positions, p \notin stop
               PROVE  p <= Len(source) /\ jump[p] > p
    BY <1>3 DEF Onward
  <2> QED BY <1>2 DEF Readable, Positions
<1>6. \A p \in Positions, v \in V : make[p, v] = here(p) \o v
  <2> HIDE DEF here, V
  <2> QED OBVIOUS
<1>7. Defines(Positions, V, stop, end, jump, make)
  <2> HIDE DEF stop, end, jump, make, V
  <2> QED BY <1>3, <1>4, <1>5, OnwardDefines
<1>8. PICK f \in [Positions -> V] : Follows(f, Positions, stop, end, jump, make)
  BY <1>7 DEF Defines
<1>9. ASSUME NEW p \in Positions PROVE f[p] = KeptBody(f, p)
  <2>1. f[p] = IF p \in stop THEN end[p] ELSE make[p, f[jump[p]]]
    BY <1>8 DEF Follows
  <2>2. CASE Ch(p) = NoChar
    BY <2>1, <2>2, KeptBodyIs
  <2>3. CASE Ch(p) # NoChar
    <3>1. jump[p] = KeptNext(p) /\ f[KeptNext(p)] \in V
      BY <1>2, <1>8, <2>3
    <3>2. make[p, f[KeptNext(p)]] = here(p) \o f[KeptNext(p)]
      BY <1>6, <3>1
    <3>3. p \notin stop /\ here(p) = KeptHere(p)
      BY <2>3
    <3>4. KeptBody(f, p) = KeptHere(p) \o f[KeptNext(p)]
      BY <2>3, <3>1, KeptBodyIs
    <3> HIDE DEF stop, end, jump, here, make, V
    <3> QED BY <2>1, <3>1, <3>2, <3>3, <3>4
  <2> QED BY <2>2, <2>3
<1> DEFINE F(g) == [p \in Positions |-> KeptBody(g, p)]
<1>10. f = F(f)
  <2>1. f = [p \in Positions |-> f[p]]
    BY <1>8
  <2> QED BY <1>9, <2>1
<1>11. Kept = CHOOSE g : g = F(g)
  BY DEF Kept, KeptBody
<1> HIDE DEF F
<1>12. Kept = F(Kept)
  BY <1>10, <1>11
<1> QED BY <1>12 DEF F

LEMMA KeptDefined ==
  ASSUME Readable, NEW p \in Positions
  PROVE  /\ Kept[p] \in Seq(Alphabet)
         /\ Ch(p) = NoChar => Kept[p] = <<>>
         /\ Ch(p) # NoChar => Kept[p] = KeptHere(p) \o Kept[KeptNext(p)]
<1> DEFINE P(q) == /\ Kept[q] \in Seq(Alphabet)
                   /\ Ch(q) = NoChar => Kept[q] = <<>>
                   /\ Ch(q) # NoChar => Kept[q] = KeptHere(q) \o Kept[KeptNext(q)]
           S == {q \in Positions : P(q)}
           L == Len(source)
<1>1. L \in Nat
  BY DEF Readable
<1>2. \A q \in Positions : Kept[q] = KeptBody(Kept, q)
  BY KeptIsBody
<1>3. ASSUME NEW q \in Positions, Ch(q) = NoChar PROVE q \in S
  <2>1. Kept[q] = <<>>
    BY <1>2, <1>3, KeptBodyIs
  <2>2. <<>> \in Seq(Alphabet)
    OBVIOUS
  <2> QED BY <1>3, <2>1, <2>2
<1>4. \A q \in Positions : q > L => q \in S
  BY <1>3 DEF Readable
<1>5. ASSUME NEW q \in Positions, \A r \in Positions : r > q => r \in S PROVE q \in S
  <2>1. CASE Ch(q) = NoChar
    BY <1>3, <2>1
  <2>2. CASE Ch(q) # NoChar
    <3>1. KeptNext(q) \in S
      BY <1>5, <2>2, KeptNextIsNext
    <3>2. Kept[KeptNext(q)] \in Seq(Alphabet)
      BY <3>1
    <3>3. Kept[q] = KeptHere(q) \o Kept[KeptNext(q)]
      BY <1>2, <2>2, <3>2, KeptBodyIs
    <3>4. KeptHere(q) \in Seq(Alphabet)
      BY <2>2, KeptHereInAlphabet
    <3>5. KeptHere(q) \o Kept[KeptNext(q)] \in Seq(Alphabet)
      BY <3>2, <3>4
    <3> QED BY <2>2, <3>3, <3>5
  <2> QED BY <2>1, <2>2
<1> HIDE DEF S, L
<1>6. Positions \subseteq S
  BY <1>1, <1>4, <1>5, Downward
<1> QED BY <1>6 DEF S

-----------------------------------------------------------------------------
(* What the lexer passes over between two tokens is not kept. *)
LEMMA KeptBlank ==
  ASSUME Readable, NEW p \in Positions, Ch(p) \in Blanks
  PROVE  Kept[p] = Kept[p + 1]
<1>1. Ch(p) # NoChar /\ Ch(p) # "-" /\ Ch(p) \notin Alnum /\ Ch(p) # Quote
  BY Kinds
<1>2. Here(p, 2) # "--"
  BY <1>1, HyphenPair
<1>3. KeptHere(p) = <<>> /\ KeptNext(p) = p + 1
  BY <1>1, <1>2 DEF KeptHere, KeptNext
<1>4. Kept[p + 1] \in Seq(Alphabet)
  BY KeptDefined DEF Positions
<1>5. Kept[p] = <<>> \o Kept[p + 1]
  BY <1>1, <1>3, KeptDefined
<1> DEFINE v == Kept[p + 1]
<1> HIDE DEF v
<1>6. <<>> \o v = v
  BY <1>4 DEF v
<1> QED BY <1>5, <1>6 DEF v

LEMMA KeptPastBlanks ==
  ASSUME Readable, NEW p \in Positions
  PROVE  Kept[p] = Kept[Past(p, Blanks)]
<1> DEFINE S == {q \in Positions : Kept[q] = Kept[Past(q, Blanks)]}
           L == Len(source)
<1>1. L \in Nat /\ NoChar \notin Blanks
  BY CharactersAssumption DEF Readable
<1>2. ASSUME NEW q \in Positions, Ch(q) \notin Blanks PROVE q \in S
  BY <1>1, <1>2, PastDefined
<1>3. \A q \in Positions : q > L => q \in S
  BY <1>1, <1>2 DEF Readable
<1>4. ASSUME NEW q \in Positions, \A r \in Positions : r > q => r \in S PROVE q \in S
  <2>1. CASE Ch(q) \notin Blanks
    BY <1>2, <2>1
  <2>2. CASE Ch(q) \in Blanks
    <3>1. q + 1 \in Positions /\ q + 1 > q
      BY DEF Positions
    <3>2. Kept[q + 1] = Kept[Past(q + 1, Blanks)]
      BY <1>4, <3>1
    <3>3. Past(q, Blanks) = Past(q + 1, Blanks)
      BY <1>1, <2>2, PastDefined
    <3> QED BY <2>2, <3>2, <3>3, KeptBlank
  <2> QED BY <2>1, <2>2
<1> HIDE DEF S, L
<1>5. Positions \subseteq S
  BY <1>1, <1>3, <1>4, Downward
<1> QED BY <1>5 DEF S

(* A comment is read on to where it stops. *)
CommentText(k) == Ch(k) \notin {NoChar, "\n"} /\ Here(k, 2) # "--"
LEMMA CommentReadOn ==
  ASSUME Readable, NEW p \in Positions, NEW c \in Positions, c >= p,
         \A k \in p..c - 1 : CommentText(k)
  PROVE  CommentEnd[p] = CommentEnd[c]
<1> DEFINE S == {n \in Nat : p + n <= c => CommentEnd[p] = CommentEnd[p + n]}
<1>1. p \in Nat /\ c \in Nat
  BY DEF Positions
<1>2. 0 \in S
  BY <1>1
<1>3. \A n \in Nat : n \in S => n + 1 \in S
  <2> SUFFICES ASSUME NEW n \in Nat, n \in S, p + (n + 1) <= c
               PROVE  CommentEnd[p] = CommentEnd[p + (n + 1)]
    OBVIOUS
  <2> DEFINE k == p + n
  <2>1. k \in Positions /\ k \in p..c - 1 /\ k + 1 = p + (n + 1) /\ p + n <= c
    BY <1>1 DEF Positions
  <2>2. CommentEnd[p] = CommentEnd[k]
    BY <2>1
  <2> HIDE DEF k
  <2>3. CommentEnd[k] = CommentEnd[k + 1]
    BY <2>1, CommentEndDefined DEF CommentText
  <2> QED BY <2>1, <2>2, <2>3
<1> HIDE DEF S
<1>4. c - p \in S
  BY <1>1, <1>2, <1>3, Induction
<1>5. p + (c - p) = c
  BY <1>1
<1> QED BY <1>1, <1>4, <1>5 DEF S

(* No comment is opened by more than two hyphens. *)
NoRulers == \A p \in 1..Len(source) : Here(p, 3) # "---"

LEMMA KeptComment ==
  ASSUME Readable, NoRulers, NEW p \in Positions, Here(p, 2) = "--"
  PROVE  Kept[p] = Kept[SkipComment(p)]
<1> DEFINE c == CommentStop(p)
           L == Len(source)
<1>1. L \in Nat /\ p \in Nat /\ p + 1 \in Positions /\ p + 2 \in Positions
  BY DEF Readable, Positions
<1>2. Ch(p) = "-" /\ Ch(p + 1) = "-" /\ Ch(p) # NoChar
  BY HyphenPair, NoCharIsNoSign
<1>3. First(Pairs \cup Ends({"\n"}), p + 2, c)
  BY CommentStopFound
<1>4. Kept[p] = Kept[CommentNext(p)]
  <2>1. KeptNext(p) = CommentNext(p) /\ KeptHere(p) = <<>>
    BY DEF KeptNext, KeptHere
  <2>2. KeptNext(p) \in Positions
    BY <1>2, KeptNextIsNext
  <2> DEFINE v == Kept[CommentNext(p)]
  <2>3. v \in Seq(Alphabet)
    BY <2>1, <2>2, KeptDefined
  <2>4. Kept[p] = <<>> \o v
    BY <1>2, <2>1, KeptDefined
  <2> HIDE DEF v
  <2>5. <<>> \o v = v
    BY <2>3
  <2> QED BY <2>4, <2>5 DEF v
<1>5. Here(p + 1, 2) # "--"
  <2>1. p \in 1..L
    BY <1>1, <1>2 DEF Readable, Positions
  <2>2. Here(p, 3) # "---"
    BY <2>1 DEF NoRulers
  <2>3. Ch(p + 2) # "-"
    BY <1>2, <2>2, HyphenTriple
  <2>4. (p + 1) + 1 = p + 2
    BY <1>1
  <2> QED BY <1>1, <2>3, <2>4, HyphenPair
<1>6. SkipComment(p) = CommentEnd[p + 2]
  <2>1. (p + 1) + 1 = p + 2
    BY <1>1
  <2>2. CommentEnd[p + 1] = CommentEnd[(p + 1) + 1]
    BY <1>1, <1>2, <1>5, CommentEndDefined, NoCharIsNoSign
  <2> QED BY <2>1, <2>2 DEF SkipComment
<1>7. c \in Positions /\ c >= p + 2 /\ c \in Nat /\ c <= L + 1
  BY <1>1, <1>3 DEF First, Positions, Pairs, Ends
<1>8. \A k \in p + 2..c - 1 : CommentText(k)
  <2> SUFFICES ASSUME NEW k \in p + 2..c - 1 PROVE CommentText(k)
    OBVIOUS
  <2> HIDE DEF c
  <2>1. k \in 1..L /\ k \in 1..L + 1
    BY <1>1, <1>7
  <2>2. k \notin Pairs /\ k \notin Ends({"\n"})
    BY <1>3 DEF First
  <2> QED BY <2>1, <2>2 DEF Pairs, Ends, CommentText
<1>9. CommentEnd[p + 2] = CommentEnd[c]
  <2> HIDE DEF c
  <2> QED BY <1>1, <1>7, <1>8, CommentReadOn
<1>10. CASE c \in Pairs
  <2>1. Here(c, 2) = "--" /\ CommentNext(p) = c + 2
    BY <1>10 DEF Pairs, CommentNext
  <2> HIDE DEF c
  <2> QED BY <1>4, <1>6, <1>7, <1>9, <2>1, CommentEndDefined
<1>11. CASE c \notin Pairs
  <2>1. Ch(c) \in {"\n", NoChar} /\ CommentNext(p) = c
    BY <1>3, <1>11 DEF First, Ends, CommentNext
  <2> HIDE DEF c
  <2>2. CASE Ch(c) = NoChar
    BY <1>4, <1>6, <1>7, <1>9, <2>1, <2>2, CommentEndDefined
  <2>3. CASE Ch(c) = "\n"
    <3>1. Kept[c] = Kept[c + 1]
      BY <1>7, <2>3, KeptBlank, CharactersAssumption
    <3> QED BY <1>4, <1>6, <1>7, <1>9, <2>1, <2>3, <3>1, CommentEndDefined
  <2> QED BY <2>1, <2>2, <2>3
<1> QED BY <1>10, <1>11

(* So nothing is kept before the next token. *)
Begins(p, s) ==
  /\ s \in Positions /\ Ch(s) \notin Blanks /\ Here(s, 2) # "--"
  /\ Kept[p] = Kept[s]
LEMMA KeptStart ==
  ASSUME Readable, NoRulers, NEW p \in Positions
  PROVE  Begins(p, Start[p])
<1> DEFINE S == {q \in Positions : Begins(q, Start[q])}
           L == Len(source)
<1>1. L \in Nat /\ NoChar \notin Blanks
  BY CharactersAssumption DEF Readable
<1>2. ASSUME NEW q \in Positions, \A r \in Positions : r > q => r \in S PROVE q \in S
  <2> DEFINE b == Past(q, Blanks)
  <2>1. Run(q, b, Blanks)
    BY <1>1, PastRun
  <2>2. b \in Positions /\ b >= q /\ Ch(b) \notin Blanks /\ Kept[q] = Kept[b]
    BY <2>1, KeptPastBlanks DEF Run
  <2>3. Start[q] = IF Here(b, 2) = "--" THEN Start[SkipComment(b)] ELSE b
    BY StartDefined
  <2> HIDE DEF b
  <2>4. CASE Here(b, 2) # "--"
    BY <2>2, <2>3, <2>4 DEF Begins
  <2>5. CASE Here(b, 2) = "--"
    <3> DEFINE c == SkipComment(b)
    <3>1. b + 1 \in Positions /\ b \in Nat /\ q \in Nat
      BY <2>2 DEF Positions
    <3>2. c \in Positions /\ c >= b + 1
      BY <3>1, CommentEnds DEF SkipComment
    <3>3. c > q
      <4> HIDE DEF c
      <4> QED BY <2>2, <3>1, <3>2 DEF Positions
    <3>4. Begins(c, Start[c])
      BY <1>2, <3>2, <3>3
    <3>5. Kept[b] = Kept[c]
      BY <2>2, <2>5, KeptComment
    <3> HIDE DEF c
    <3>6. Begins(q, Start[c])
      BY <2>2, <3>4, <3>5 DEF Begins
    <3> QED BY <2>3, <2>5, <3>6 DEF c
  <2> QED BY <2>4, <2>5
<1>3. ASSUME NEW q \in Positions, q > L PROVE q \in S
  <2>1. Ch(q) = NoChar
    BY <1>3 DEF Readable
  <2>2. Past(q, Blanks) = q /\ Ch(q) \notin Blanks
    BY <1>1, <2>1, PastDefined
  <2>3. Here(q, 2) # "--"
    BY <2>1, HyphenPair, NoCharIsNoSign
  <2>4. Start[q] = q
    BY <2>2, <2>3, StartDefined
  <2> QED BY <2>2, <2>3, <2>4 DEF Begins
<1> HIDE DEF S, L
<1>4. Positions \subseteq S
  BY <1>1, <1>2, <1>3, Downward
<1> QED BY <1>4 DEF S

-----------------------------------------------------------------------------
(* What a token is made of is kept. *)
Plain(k) ==
  /\ Ch(k) # NoChar /\ Ch(k) \notin Blanks /\ Ch(k) # Quote
  /\ Here(k, 2) # "--"

LEMMA JoinedInAnyOrder ==
  ASSUME NEW X, NEW a \in Seq(X), NEW b \in Seq(X), NEW c \in Seq(X)
  PROVE  (a \o b) \o c = a \o (b \o c)
OBVIOUS
LEMMA NoneJoined ==
  ASSUME NEW X, NEW a \in Seq(X)
  PROVE  <<>> \o a = a /\ a \o <<>> = a
OBVIOUS
LEMMA CharacterInAlphabet ==
  ASSUME NEW p \in Positions
  PROVE  <<Ch(p)>> \in Seq(Alphabet)
<1>1. Ch(p) \in Alphabet
  BY DEF Alphabet
<1> QED BY <1>1

LEMMA CharactersOfNone ==
  ASSUME NEW p \in Positions
  PROVE  Characters(p, p) = <<>>
<1>1. 1..p - p = {}
  BY DEF Positions
<1> QED BY <1>1 DEF Characters

LEMMA CharactersFirst ==
  ASSUME NEW p \in Positions, NEW q \in Positions, q > p
  PROVE  Characters(p, q) = <<Ch(p)>> \o Characters(p + 1, q)
<1> DEFINE n == q - p
           s == Characters(p + 1, q)
           x == Ch(p)
           t == <<x>> \o s
<1>1. n \in Nat /\ n > 0 /\ p \in Nat /\ q - (p + 1) = n - 1
  BY DEF Positions
<1>2. Characters(p, q) = [i \in 1..n |-> Ch(p + i - 1)]
  BY DEF Characters
<1>3. s = [i \in 1..n - 1 |-> Ch((p + 1) + i - 1)]
  BY <1>1 DEF Characters
<1>4. s \in Seq(Alphabet) /\ x \in Alphabet /\ Len(s) = n - 1
  <2>1. p + 1 \in Positions /\ q >= p + 1
    BY <1>1 DEF Positions
  <2>2. q - (p + 1) = n - 1
    BY <1>1
  <2> QED BY <2>1, <2>2, CharactersInAlphabet DEF Alphabet
<1> HIDE DEF s, n, x
<1>5. t = [i \in 1..n |-> IF i = 1 THEN x ELSE s[i - 1]]
  BY <1>1, <1>4
<1>6. ASSUME NEW i \in 1..n
      PROVE  (IF i = 1 THEN x ELSE s[i - 1]) = Ch(p + i - 1)
  <2>1. CASE i = 1
    <3>1. p + 1 - 1 = p
      BY <1>1
    <3> QED BY <2>1, <3>1 DEF x
  <2>2. CASE i # 1
    <3>1. i - 1 \in 1..n - 1 /\ (p + 1) + (i - 1) - 1 = p + i - 1
      BY <1>1, <2>2
    <3> QED BY <1>3, <2>2, <3>1
  <2> QED BY <2>1, <2>2
<1> QED BY <1>2, <1>5, <1>6 DEF s, x

LEMMA CharactersLast ==
  ASSUME NEW p \in Positions, NEW q \in Positions, q >= p
  PROVE  Characters(p, q + 1) = Characters(p, q) \o <<Ch(q)>>
<1> DEFINE n == q - p
           s == Characters(p, q)
           x == Ch(q)
           t == s \o <<x>>
<1>1. n \in Nat /\ p \in Nat /\ q \in Nat /\ (q + 1) - p = n + 1 /\ p + (n + 1) - 1 = q
  BY DEF Positions
<1>2. Characters(p, q + 1) = [i \in 1..n + 1 |-> Ch(p + i - 1)]
  BY <1>1 DEF Characters
<1>3. s = [i \in 1..n |-> Ch(p + i - 1)]
  BY DEF Characters
<1>4. s \in Seq(Alphabet) /\ x \in Alphabet /\ Len(s) = n
  BY CharactersInAlphabet DEF Alphabet
<1>5. x = Ch(p + (n + 1) - 1)
  BY <1>1
<1> HIDE DEF s, n, x
<1>6. t = [i \in 1..n + 1 |-> IF i = n + 1 THEN x ELSE s[i]]
  BY <1>1, <1>4
<1>7. ASSUME NEW i \in 1..n + 1
      PROVE  (IF i = n + 1 THEN x ELSE s[i]) = Ch(p + i - 1)
  <2>1. CASE i = n + 1
    BY <1>5, <2>1
  <2>2. CASE i # n + 1
    <3>1. i \in 1..n
      BY <1>1, <2>2
    <3> QED BY <1>3, <2>2, <3>1
  <2> QED BY <2>1, <2>2
<1> QED BY <1>2, <1>6, <1>7 DEF s, x

LEMMA KeptCharacter ==
  ASSUME Readable, NEW p \in Positions, Plain(p)
  PROVE  Kept[p] = <<Ch(p)>> \o Kept[p + 1]
<1>1. p \in Nat /\ p + 1 \in Positions
  BY DEF Positions
<1>2. Kept[p] = KeptHere(p) \o Kept[KeptNext(p)]
  BY KeptDefined DEF Plain
<1>3. CASE Ch(p) \notin Alnum
  BY <1>2, <1>3 DEF Plain, KeptHere, KeptNext
<1>4. CASE Ch(p) \in Alnum
  <2> DEFINE w == Past(p, Alnum)
  <2>1. w = Past(p + 1, Alnum)
    BY <1>4, PastDefined, Kinds
  <2>2. w \in Positions /\ w >= p + 1
    BY <1>1, <2>1, PastRun, Kinds DEF Run
  <2>3. Kept[p] = Characters(p, w) \o Kept[w]
    BY <1>2, <1>4 DEF Plain, KeptHere, KeptNext
  <2> HIDE DEF w
  <2>4. Characters(p, w) = <<Ch(p)>> \o Characters(p + 1, w)
    BY <1>1, <2>2, CharactersFirst DEF Positions
  <2>5. Kept[p + 1] = Characters(p + 1, w) \o Kept[w]
    <3>1. CASE Ch(p + 1) \notin Alnum
      <4>1. w = p + 1
        BY <1>1, <2>1, <3>1, PastDefined, Kinds
      <4>2. Characters(p + 1, w) = <<>> /\ Kept[w] \in Seq(Alphabet)
        BY <1>1, <4>1, CharactersOfNone, KeptDefined
      <4> DEFINE v == Kept[w]
      <4>3. v \in Seq(Alphabet)
        BY <4>2
      <4> HIDE DEF v
      <4>4. <<>> \o v = v
        BY <4>3
      <4> QED BY <4>1, <4>2, <4>4 DEF v
    <3>2. CASE Ch(p + 1) \in Alnum
      <4>1. Ch(p + 1) # NoChar /\ Ch(p + 1) \notin Blanks /\ Ch(p + 1) # "-"
        BY <3>2, Kinds
      <4>2. Here(p + 1, 2) # "--"
        BY <1>1, <4>1, HyphenPair
      <4>3. KeptHere(p + 1) = Characters(p + 1, w) /\ KeptNext(p + 1) = w
        BY <2>1, <3>2, <4>1, <4>2 DEF KeptHere, KeptNext
      <4> QED BY <1>1, <4>1, <4>3, KeptDefined
    <3> QED BY <3>1, <3>2
  <2>6. /\ <<Ch(p)>> \in Seq(Alphabet) /\ Characters(p + 1, w) \in Seq(Alphabet)
        /\ Kept[w] \in Seq(Alphabet)
    BY <1>1, <2>2, CharactersInAlphabet, CharacterInAlphabet, KeptDefined
  <2>7. (<<Ch(p)>> \o Characters(p + 1, w)) \o Kept[w] =
          <<Ch(p)>> \o (Characters(p + 1, w) \o Kept[w])
    <3> DEFINE a == <<Ch(p)>>
               b == Characters(p + 1, w)
               c == Kept[w]
    <3>1. a \in Seq(Alphabet) /\ b \in Seq(Alphabet) /\ c \in Seq(Alphabet)
      BY <2>6
    <3> HIDE DEF a, b, c
    <3>2. (a \o b) \o c = a \o (b \o c)
      BY <3>1, JoinedInAnyOrder
    <3> QED BY <3>2 DEF a, b, c
  <2> QED BY <2>3, <2>4, <2>5, <2>7
<1> QED BY <1>3, <1>4

LEMMA KeptPlain ==
  ASSUME Readable, NEW p \in Positions, NEW q \in Positions, q >= p,
         \A k \in p..q - 1 : Plain(k)
  PROVE  Kept[p] = Characters(p, q) \o Kept[q]
<1> DEFINE P(n) == Kept[p] = Characters(p, p + n) \o Kept[p + n]
           S == {n \in Nat : p + n <= q => P(n)}
<1>1. p \in Nat /\ q \in Nat
  BY DEF Positions
<1>2. 0 \in S
  <2> DEFINE v == Kept[p]
  <2>1. v \in Seq(Alphabet) /\ Characters(p, p) = <<>> /\ p + 0 = p
    BY <1>1, KeptDefined, CharactersOfNone
  <2>2. <<>> \o v = v
    <3> HIDE DEF v
    <3> QED BY <2>1
  <2> QED BY <2>1, <2>2
<1>3. \A n \in Nat : n \in S => n + 1 \in S
  <2> HIDE DEF P
  <2> SUFFICES ASSUME NEW n \in Nat, n \in S, p + (n + 1) <= q
               PROVE  P(n + 1)
    OBVIOUS
  <2> DEFINE k == p + n
  <2>1. /\ k \in Positions /\ k \in p..q - 1 /\ k + 1 = p + (n + 1) /\ p + n <= q
        /\ k >= p /\ k + 1 \in Positions
    BY <1>1 DEF Positions
  <2>2. Kept[p] = Characters(p, k) \o Kept[k]
    BY <2>1 DEF P
  <2> HIDE DEF k
  <2>3. Kept[k] = <<Ch(k)>> \o Kept[k + 1]
    BY <2>1, KeptCharacter
  <2>4. Characters(p, k + 1) = Characters(p, k) \o <<Ch(k)>>
    BY <2>1, CharactersLast
  <2>5. /\ <<Ch(k)>> \in Seq(Alphabet) /\ Characters(p, k) \in Seq(Alphabet)
        /\ Kept[k + 1] \in Seq(Alphabet)
    BY <2>1, CharactersInAlphabet, CharacterInAlphabet, KeptDefined
  <2>6. (Characters(p, k) \o <<Ch(k)>>) \o Kept[k + 1] =
          Characters(p, k) \o (<<Ch(k)>> \o Kept[k + 1])
    <3> DEFINE a == Characters(p, k)
               b == <<Ch(k)>>
               c == Kept[k + 1]
    <3>1. a \in Seq(Alphabet) /\ b \in Seq(Alphabet) /\ c \in Seq(Alphabet)
      BY <2>5
    <3> HIDE DEF a, b, c
    <3>2. (a \o b) \o c = a \o (b \o c)
      BY <3>1
    <3> QED BY <3>2 DEF a, b, c
  <2> QED BY <2>1, <2>2, <2>3, <2>4, <2>6 DEF P
<1> HIDE DEF S
<1>4. q - p \in S
  BY <1>1, <1>2, <1>3, Induction
<1>5. p + (q - p) = q
  BY <1>1
<1> QED BY <1>1, <1>4, <1>5 DEF S

(* The characters of a piece of the text. *)
LEMMA PieceIsCharacters ==
  ASSUME Readable, NEW p \in Positions, NEW q \in Positions, q >= p, q <= Len(source) + 1
  PROVE  LET text == SubSeq(source, p, q - 1)
         IN  [i \in 1..Len(text) |-> SubSeq(text, i, i)] = Characters(p, q)
<1> DEFINE text == SubSeq(source, p, q - 1)
           n == q - p
<1>1. n \in Nat /\ p \in Nat /\ q \in Nat /\ Len(source) \in Nat
  BY DEF Readable, Positions
<1>2. Len(text) = n
  BY <1>1
<1>3. ASSUME NEW i \in 1..n PROVE SubSeq(text, i, i) = Ch(p + i - 1)
  <2>1. SubSeq(text, i, i) = SubSeq(source, p + i - 1, p + i - 1)
    BY <1>1
  <2> DEFINE k == p + i - 1
  <2>2. k \in Nat /\ k <= Len(source)
    BY <1>1
  <2>3. Ch(k) = SubSeq(source, k, k)
    <3> HIDE DEF k
    <3>1. k + 1 - 1 = k
      BY <2>2
    <3> QED BY <2>2, <3>1 DEF Ch, Here
  <2> QED BY <2>1, <2>3
<1> HIDE DEF text, n
<1>4. [i \in 1..Len(text) |-> SubSeq(text, i, i)] = [i \in 1..n |-> Ch(p + i - 1)]
  BY <1>2, <1>3
<1> QED BY <1>4 DEF Characters, text, n

(* A token after what was passed over: what is kept from its beginning on  *)
(* is its spelling, and what is kept from the position after it.           *)
TokenKept(p, t) ==
  /\ t.next \in Positions /\ Spelling(t) \in Seq(Alphabet)
  /\ Kept[p] = Spelling(t) \o Kept[t.next]

LEMMA SpeltKept ==
  ASSUME Readable, NEW p \in Positions, NEW q \in Positions, q > p,
         \A k \in p..q - 1 : Plain(k), NEW t, t.type # "STRING",
         t.text = SubSeq(source, p, q - 1), t.next = q
  PROVE  TokenKept(p, t)
<1>1. p \in Nat /\ q \in Nat /\ Len(source) \in Nat /\ q >= p
  BY DEF Readable, Positions
<1>2. q <= Len(source) + 1
  <2>1. q - 1 \in Positions /\ q - 1 \in p..q - 1
    BY <1>1 DEF Positions
  <2>2. Ch(q - 1) # NoChar
    BY <2>1 DEF Plain
  <2> QED BY <1>1, <2>1, <2>2 DEF Readable
<1>3. Spelling(t) = Characters(p, q)
  BY <1>1, <1>2, PieceIsCharacters DEF Spelling
<1>4. Characters(p, q) \in Seq(Alphabet) /\ Kept[p] = Characters(p, q) \o Kept[q]
  BY <1>1, CharactersInAlphabet, KeptPlain
<1> QED BY <1>3, <1>4 DEF TokenKept

(* No word is taken for a string. *)
LEMMA NotAString ==
  ASSUME NEW word
  PROVE  LookupIdent(word) # "STRING"
<1>1. CASE word = "STRING"
  BY <1>1 DEF LookupIdent
<1>2. CASE word # "STRING" /\ word \in Keywords
  BY <1>2 DEF LookupIdent
<1>3. CASE word # "STRING" /\ word \notin Keywords
  BY <1>3 DEF LookupIdent
<1> QED BY <1>1, <1>2, <1>3

LEMMA PlainCharacter ==
  ASSUME Readable, NEW k \in Positions, Ch(k) # "-",
         Ch(k) \in WordChars \cup Marks \cup {":", ".", "="}
  PROVE  Plain(k)
<1>1. Here(k, 2) # "--"
  BY HyphenPair
<1>2. Quote \notin {":", ".", "="}
  <2>1. Quote # ":" /\ Quote # "." /\ Quote # "="
    BY Zenon DEF Quote
  <2> QED BY <2>1
<1> QED BY <1>1, <1>2, CharactersAssumption, NoCharIsNoSign DEF Plain

(* Signs are made of marks, colons, dots and an equals sign. *)
SignChars == Marks \cup {":", ".", "="}
MadeOfSigns(p, q) == \A k \in p..q - 1 : Ch(k) \in SignChars
LEMMA SignKept ==
  ASSUME Readable, NEW p \in Positions, NEW q \in Positions, q > p,
         MadeOfSigns(p, q), NEW type, type # "STRING"
  PROVE  TokenKept(p, Spelt(type, p, q))
<1> DEFINE t == Spelt(type, p, q)
<1>1. ASSUME NEW k \in p..q - 1 PROVE Plain(k)
  <2>1. k \in Positions
    BY DEF Positions
  <2>2. Ch(k) \in SignChars
    BY DEF MadeOfSigns
  <2>3. Ch(k) # "-" /\ Ch(k) \in WordChars \cup Marks \cup {":", ".", "="}
    BY <2>2, CharactersAssumption DEF SignChars
  <2> QED BY <2>1, <2>3, PlainCharacter
<1>2. t.type = type /\ t.text = SubSeq(source, p, q - 1) /\ t.next = q
  BY DEF Spelt, Token
<1> HIDE DEF t
<1>3. TokenKept(p, t)
  BY <1>1, <1>2, SpeltKept
<1> QED BY <1>3 DEF t

LEMMA NumberKept ==
  ASSUME Readable, NEW p \in Positions, Here(p, 2) # "--",
         Ch(p) \in Digits \/ Ch(p) = "-"
  PROVE  TokenKept(p, Spelt("NUMBER", p, Past(p + 1, Digits)))
<1> DEFINE q == Past(p + 1, Digits)
           t == Spelt("NUMBER", p, q)
<1>1. p + 1 \in Positions /\ p \in Nat
  BY DEF Positions
<1>2. NoChar \notin Digits /\ "-" \notin Digits
  BY CharactersAssumption DEF WordChars
<1>3. Run(p + 1, q, Digits)
  BY <1>1, <1>2, PastRun
<1>4. t.type # "STRING" /\ t.text = SubSeq(source, p, q - 1) /\ t.next = q
  BY DEF Spelt, Token
<1> HIDE DEF q, t
<1>5. q \in Positions /\ q > p
  BY <1>1, <1>3 DEF Run, Positions
<1>6. ASSUME NEW k \in p..q - 1 PROVE Plain(k)
  <2>1. k \in Positions /\ (k = p \/ k \in p + 1..q - 1)
    BY <1>1, <1>5 DEF Positions
  <2>2. CASE Ch(k) \in Digits
    BY <1>2, <2>1, <2>2, PlainCharacter DEF WordChars
  <2>3. CASE k = p /\ Ch(p) = "-"
    <3>1. Quote # "-"
      BY Zenon DEF Quote
    <3> QED BY <2>3, <3>1, CharactersAssumption, NoCharIsNoSign DEF Plain, WordChars
  <2> QED BY <1>3, <2>1, <2>2, <2>3 DEF Run
<1>7. TokenKept(p, t)
  BY <1>4, <1>5, <1>6, SpeltKept
<1> QED BY <1>7 DEF q, t

(* A word, up to where WordEnd finds its end. *)
InWord(k) == Ch(k) \in WordChars /\ Here(k, 2) # "--"
WordTo(p, r) == r \in Positions /\ r >= p /\ \A k \in p..r - 1 : InWord(k)
LEMMA WordEnds ==
  ASSUME Readable, NEW p \in Positions
  PROVE  WordTo(p, WordEnd[p])
<1> DEFINE S == {q \in Positions : WordTo(q, WordEnd[q])}
           L == Len(source)
<1>1. L \in Nat
  BY DEF Readable
<1>2. ASSUME NEW q \in Positions, ~InWord(q) PROVE q \in S
  <2>1. WordEnd[q] = q
    BY <1>2, WordEndDefined DEF InWord
  <2> QED BY <2>1 DEF WordTo, Positions
<1>3. \A q \in Positions : q > L => q \in S
  <2> SUFFICES ASSUME NEW q \in Positions, q > L PROVE ~InWord(q)
    BY <1>2
  <2> QED BY CharactersAssumption DEF InWord, Readable
<1>4. ASSUME NEW q \in Positions, \A r \in Positions : r > q => r \in S PROVE q \in S
  <2>1. CASE ~InWord(q)
    BY <1>2, <2>1
  <2>2. CASE InWord(q)
    <3> DEFINE r == WordEnd[q + 1]
    <3>1. q + 1 \in Positions /\ q + 1 > q /\ q \in Nat
      BY DEF Positions
    <3>2. WordTo(q + 1, r) /\ WordEnd[q] = r
      BY <1>4, <2>2, <3>1, WordEndDefined DEF InWord
    <3> HIDE DEF r
    <3>3. r \in Positions /\ r >= q + 1 /\ r \in Nat
      BY <3>2 DEF WordTo, Positions
    <3>4. r >= q /\ \A k \in q..r - 1 : k = q \/ k \in q + 1..r - 1
      BY <3>1, <3>3
    <3>5. WordTo(q, r)
      BY <2>2, <3>2, <3>3, <3>4 DEF WordTo
    <3> QED BY <3>2, <3>5
  <2> QED BY <2>1, <2>2
<1> HIDE DEF S, L
<1>5. Positions \subseteq S
  BY <1>1, <1>3, <1>4, Downward
<1> QED BY <1>5 DEF S

LEMMA WordKept ==
  ASSUME Readable, NEW p \in Positions, Ch(p) \in Letters
  PROVE  LET q == IdentifierEnd(p)
             word == SubSeq(source, p, q - 1)
         IN  TokenKept(p, Token(LookupIdent(word), word, q))
<1> DEFINE r == WordEnd[p]
           q == IdentifierEnd(p)
           word == SubSeq(source, p, q - 1)
           t == Token(LookupIdent(word), word, q)
<1>1. Ch(p) \in WordChars /\ Ch(p) # "-" /\ p \in Nat
  BY CharactersAssumption DEF WordChars, Positions
<1>2. Here(p, 2) # "--"
  BY <1>1, HyphenPair
<1>3. WordTo(p, r)
  BY WordEnds
<1>4. r = WordEnd[p + 1] /\ p + 1 \in Positions
  BY <1>1, <1>2, WordEndDefined DEF Positions
<1>5. r \in Positions /\ r \in Nat /\ r >= p + 1
  BY <1>4, WordEnds DEF WordTo, Positions
<1>6. q = IF Ch(r - 1) = "-" THEN r - 1 ELSE r
  BY DEF IdentifierEnd
<1>7. t.type # "STRING" /\ t.text = SubSeq(source, p, q - 1) /\ t.next = q
  BY NotAString DEF Token
<1> HIDE DEF r, q, t
<1>8. q \in Positions /\ q > p /\ q <= r
  <2>1. CASE Ch(r - 1) = "-"
    <3>1. r - 1 # p
      BY <1>1, <2>1
    <3> QED BY <1>1, <1>5, <1>6, <2>1, <3>1 DEF Positions
  <2>2. CASE Ch(r - 1) # "-"
    BY <1>1, <1>5, <1>6, <2>2
  <2> QED BY <2>1, <2>2
<1>9. ASSUME NEW k \in p..q - 1 PROVE Plain(k)
  <2>1. k \in p..r - 1
    BY <1>1, <1>5, <1>8 DEF Positions
  <2>2. Ch(k) \in WordChars /\ Here(k, 2) # "--"
    BY <1>3, <2>1 DEF WordTo, InWord
  <2> QED BY <2>2, CharactersAssumption DEF Plain
<1>10. TokenKept(p, t)
  BY <1>7, <1>8, <1>9, SpeltKept
<1> QED BY <1>10 DEF q, t

(* A string, up to the quote that closes it or the end of the text. *)
LEMMA StringEndFirst ==
  ASSUME Readable, NEW p \in Positions
  PROVE  LET r == StringEnd[p]
         IN  /\ r \in Positions /\ r >= p /\ Ch(r) \in {Quote, NoChar}
             /\ \A k \in p..r - 1 : Ch(k) \notin {Quote, NoChar}
<1> DEFINE P(q, r) == /\ r \in Positions /\ r >= q /\ Ch(r) \in {Quote, NoChar}
                      /\ \A k \in q..r - 1 : Ch(k) \notin {Quote, NoChar}
           S == {q \in Positions : P(q, StringEnd[q])}
           L == Len(source)
<1>1. L \in Nat
  BY DEF Readable
<1>2. ASSUME NEW q \in Positions, Ch(q) \in {Quote, NoChar} PROVE q \in S
  <2>1. StringEnd[q] = q
    BY <1>2, StringEndDefined
  <2>2. q..q - 1 = {} /\ q >= q
    BY DEF Positions
  <2> QED BY <1>2, <2>1, <2>2
<1>3. \A q \in Positions : q > L => q \in S
  BY <1>2 DEF Readable
<1>4. ASSUME NEW q \in Positions, \A r \in Positions : r > q => r \in S PROVE q \in S
  <2>1. CASE Ch(q) \in {Quote, NoChar}
    BY <1>2, <2>1
  <2>2. CASE Ch(q) \notin {Quote, NoChar}
    <3> DEFINE r == StringEnd[q + 1]
    <3>1. q + 1 \in Positions /\ q + 1 > q /\ q \in Nat
      BY DEF Positions
    <3>2. P(q + 1, r) /\ StringEnd[q] = r
      BY <1>4, <2>2, <3>1, StringEndDefined
    <3> HIDE DEF r
    <3>3. r \in Positions /\ r >= q + 1 /\ r \in Nat
      BY <3>2 DEF Positions
    <3>4. r >= q /\ \A k \in q..r - 1 : k = q \/ k \in q + 1..r - 1
      BY <3>1, <3>3
    <3>5. P(q, r)
      BY <2>2, <3>2, <3>3, <3>4
    <3> QED BY <3>2, <3>5
  <2> QED BY <2>1, <2>2
<1> HIDE DEF S, L
<1>5. Positions \subseteq S
  BY <1>1, <1>3, <1>4, Downward
<1> QED BY <1>5 DEF S

(* It ends where the reading of the text has it end. *)
LEMMA StringEndIsStop ==
  ASSUME Readable, NEW p \in Positions, Ch(p) # NoChar
  PROVE  /\ StringEnd[p + 1] = StringStop(p) /\ StringStop(p) \in Positions
         /\ StringStop(p) > p /\ StringStop(p) <= Len(source) + 1
         /\ Ch(StringStop(p)) \in {Quote, NoChar}
<1> DEFINE r == StringEnd[p + 1]
           s == StringStop(p)
           L == Len(source)
<1>1. p \in Nat /\ p + 1 \in Positions /\ L \in Nat
  BY DEF Positions, Readable
<1>2. /\ r \in Positions /\ r >= p + 1 /\ Ch(r) \in {Quote, NoChar}
      /\ \A k \in p + 1..r - 1 : Ch(k) \notin {Quote, NoChar}
  BY <1>1, StringEndFirst
<1>3. First(Ends({Quote}), p + 1, s)
  BY StringStopFound
<1>4. /\ s \in Positions /\ s >= p + 1 /\ s \in 1..L + 1 /\ Ch(s) \in {Quote, NoChar}
      /\ \A k \in p + 1..s - 1 : k \notin Ends({Quote})
  BY <1>3 DEF First, Ends
<1> HIDE DEF r, s
<1>5. r \in Nat /\ s \in Nat
  BY <1>2, <1>4 DEF Positions
<1>6. ~(r > s)
  <2> SUFFICES ASSUME r > s PROVE FALSE
    OBVIOUS
  <2>1. s \in p + 1..r - 1
    BY <1>1, <1>4, <1>5
  <2> QED BY <1>2, <1>4, <2>1
<1>7. ~(r < s)
  <2> SUFFICES ASSUME r < s PROVE FALSE
    OBVIOUS
  <2>1. r \in p + 1..s - 1 /\ r \in 1..L + 1
    BY <1>1, <1>2, <1>4, <1>5
  <2>2. r \in Ends({Quote})
    BY <1>2, <2>1 DEF Ends, L
  <2> QED BY <1>4, <2>1, <2>2
<1>8. r = s
  BY <1>5, <1>6, <1>7
<1> QED BY <1>1, <1>4, <1>5, <1>8 DEF r, s, L

LEMMA StringKept ==
  ASSUME Readable, NEW p \in Positions, Ch(p) = Quote
  PROVE  LET q == StringEnd[p + 1]
         IN  TokenKept(p, Token("STRING", SubSeq(source, p + 1, q - 1), AfterString(q)))
<1> DEFINE q == StringStop(p)
           t == Token("STRING", SubSeq(source, p + 1, q - 1), AfterString(q))
           a == <<Quote>>
           b == Characters(p + 1, q)
<1>1. p \in Nat /\ p + 1 \in Positions /\ Ch(p) # NoChar
  BY Kinds DEF Positions
<1>2. /\ StringEnd[p + 1] = q /\ q \in Positions /\ q > p /\ q <= Len(source) + 1
      /\ Ch(q) \in {Quote, NoChar}
  BY <1>1, StringEndIsStop
<1>3. t.type = "STRING" /\ t.text = SubSeq(source, p + 1, q - 1) /\ t.next = AfterString(q)
  BY DEF Token
<1>4. Here(p, 2) # "--" /\ Ch(p) \notin Blanks /\ Ch(p) \notin Alnum
  BY HyphenPair, Kinds
<1>5. KeptNext(p) = q + 1 /\ KeptHere(p) = Characters(p, q) \o a
  BY <1>4 DEF KeptNext, KeptHere
<1>6. Kept[p] = (Characters(p, q) \o a) \o Kept[q + 1]
  BY <1>1, <1>5, KeptDefined
<1> HIDE DEF q, t
<1>7. q \in Nat /\ q + 1 \in Positions /\ q >= p + 1
  BY <1>1, <1>2 DEF Positions
<1>8. AfterString(q) \in Positions /\ Kept[AfterString(q)] = Kept[q + 1]
  <2>1. CASE Ch(q) = Quote
    BY <1>7, <2>1 DEF AfterString
  <2>2. CASE Ch(q) = NoChar /\ Ch(q) # Quote
    <3>1. AfterString(q) = q /\ Kept[q] = <<>>
      BY <1>2, <2>2, KeptDefined DEF AfterString
    <3>2. q > Len(source) /\ Len(source) \in Nat
      BY <1>2, <2>2 DEF Readable
    <3>3. q + 1 > Len(source)
      BY <1>7, <3>2
    <3>4. Ch(q + 1) = NoChar
      BY <1>7, <3>3 DEF Readable
    <3>5. Kept[q + 1] = <<>>
      BY <1>7, <3>4, KeptDefined
    <3> QED BY <1>2, <3>1, <3>5
  <2> QED BY <1>2, <2>1, <2>2
<1>9. Characters(p, q) = a \o b
  BY <1>2, CharactersFirst
<1>10. Spelling(t) = a \o b \o a
  <2>1. [i \in 1..Len(t.text) |-> SubSeq(t.text, i, i)] = b
    BY <1>1, <1>2, <1>3, <1>7, PieceIsCharacters
  <2> QED BY <1>3, <2>1 DEF Spelling
<1>11. a \in Seq(Alphabet) /\ b \in Seq(Alphabet)
  <2>1. Quote \in Alphabet
    BY DEF Alphabet
  <2>2. b \in Seq(Alphabet)
    BY <1>1, <1>2, <1>7, CharactersInAlphabet
  <2> QED BY <2>1, <2>2
<1> HIDE DEF a, b
<1>12. a \o b \o a \in Seq(Alphabet)
  BY <1>11
<1> QED BY <1>2, <1>3, <1>6, <1>8, <1>9, <1>10, <1>12 DEF TokenKept, t

(* Each token, at a position where one begins, but one that is refused. *)
LEMMA SignsKept ==
  ASSUME Readable, NEW p \in Positions
  PROVE  /\ Here(p, 3) \in {"::=", "..."} => TokenKept(p, Spelt(Here(p, 3), p, p + 3))
         /\ Here(p, 2) = ".." => TokenKept(p, Spelt("..", p, p + 2))
         /\ Ch(p) \in Marks => TokenKept(p, Spelt(Ch(p), p, p + 1))
<1>1. p \in Nat /\ \A n \in 1..3 : p + n \in Positions /\ p + n > p
  BY DEF Positions
<1>2. ASSUME Here(p, 3) \in {"::=", "..."} PROVE TokenKept(p, Spelt(Here(p, 3), p, p + 3))
  <2>1. Ch(p) \in SignChars /\ Ch(p + 1) \in SignChars /\ Ch(p + 2) \in SignChars
    BY <1>2, Dots DEF SignChars
  <2>2. \A k \in p..p + 3 - 1 : k = p \/ k = p + 1 \/ k = p + 2
    BY <1>1
  <2>3. ASSUME NEW k \in p..p + 3 - 1 PROVE Ch(k) \in SignChars
    BY <2>1, <2>2
  <2>4. MadeOfSigns(p, p + 3)
    BY <1>1, <2>3 DEF MadeOfSigns
  <2>5. Here(p, 3) # "STRING"
    BY <1>2
  <2> QED BY <1>1, <2>4, <2>5, SignKept
<1>3. ASSUME Here(p, 2) = ".." PROVE TokenKept(p, Spelt("..", p, p + 2))
  <2>1. Ch(p) \in SignChars /\ Ch(p + 1) \in SignChars
    BY <1>3, Dots DEF SignChars
  <2>2. \A k \in p..p + 2 - 1 : k = p \/ k = p + 1
    BY <1>1
  <2>3. ASSUME NEW k \in p..p + 2 - 1 PROVE Ch(k) \in SignChars
    BY <2>1, <2>2
  <2>4. MadeOfSigns(p, p + 2)
    BY <1>1, <2>3 DEF MadeOfSigns
  <2> QED BY <1>1, <2>4, SignKept, ".." # "STRING"
<1>4. ASSUME Ch(p) \in Marks PROVE TokenKept(p, Spelt(Ch(p), p, p + 1))
  <2>1. \A k \in p..p + 1 - 1 : k = p
    BY <1>1
  <2>2. ASSUME NEW k \in p..p + 1 - 1 PROVE Ch(k) \in SignChars
    BY <1>4, <2>1 DEF SignChars
  <2>3. MadeOfSigns(p, p + 1)
    BY <1>1, <2>2 DEF MadeOfSigns
  <2>4. Ch(p) # "STRING"
    BY <1>4, CharactersAssumption
  <2> QED BY <1>1, <2>3, <2>4, SignKept
<1> QED BY <1>2, <1>3, <1>4

LEMMA EndKept ==
  ASSUME Readable, NEW p \in Positions, Ch(p) = NoChar
  PROVE  TokenKept(p, Token("EOF", NoChar, p))
<1> DEFINE t == Token("EOF", NoChar, p)
<1>1. t.type # "STRING" /\ t.text = NoChar /\ t.next = p
  BY DEF Token
<1>2. Len(t.text) = 0
  BY <1>1, CharactersAssumption
<1> HIDE DEF t
<1>3. Spelling(t) = <<>>
  <2>1. 1..Len(t.text) = {}
    BY <1>2
  <2> QED BY <1>1, <2>1 DEF Spelling
<1>4. Kept[p] = <<>> /\ <<>> \in Seq(Alphabet) /\ <<>> \o <<>> = <<>>
  BY KeptDefined
<1> QED BY <1>1, <1>3, <1>4 DEF TokenKept, t

LEMMA TokenAtKept ==
  ASSUME Readable, NEW p \in Positions, Here(p, 2) # "--", TokenAt(p).type # "ILLEGAL"
  PROVE  TokenKept(p, TokenAt(p))
<1> DEFINE t == TokenAt(p)
<1>1. \/ Ch(p) = NoChar /\ t = Token("EOF", NoChar, p)
      \/ Here(p, 3) \in {"::=", "..."} /\ t = Spelt(Here(p, 3), p, p + 3)
      \/ Here(p, 2) = ".." /\ t = Spelt("..", p, p + 2)
      \/ Ch(p) \in Marks /\ t = Spelt(Ch(p), p, p + 1)
      \/ /\ Ch(p) = Quote
         /\ t = LET q == StringEnd[p + 1]
                IN  Token("STRING", SubSeq(source, p + 1, q - 1), AfterString(q))
      \/ /\ Ch(p) \in Digits \/ Ch(p) = "-"
         /\ t = Spelt("NUMBER", p, Past(p + 1, Digits))
      \/ /\ Ch(p) \in Letters
         /\ t = LET q == IdentifierEnd(p)
                IN  Token(LookupIdent(SubSeq(source, p, q - 1)), SubSeq(source, p, q - 1), q)
      \/ t = Spelt("ILLEGAL", p, p + 1)
  BY DEF TokenAt
<1>2. Spelt("ILLEGAL", p, p + 1).type = "ILLEGAL"
  BY DEF Spelt, Token
<1> HIDE DEF t
<1>3. t.type # "ILLEGAL"
  BY DEF t
<1>4. TokenKept(p, t)
  BY <1>1, <1>2, <1>3, EndKept, SignsKept, StringKept, NumberKept, WordKept
<1> QED BY <1>4 DEF t

-----------------------------------------------------------------------------
(* What is joined from the front. *)
Row(n, f, X) == n \in Nat /\ f \in [1..n -> Seq(X)]
Joins(n, f, g) == g[1] = f[1] /\ \A k \in 2..n : g[k] = g[k - 1] \o f[k]
LEMMA FlattenIs ==
  ASSUME NEW X, NEW n, NEW f, Row(n, f, X), n # 0, NEW g, Joins(n, f, g)
  PROVE  FlattenSeq(f) = g[n]
<1> DEFINE F(h) == [k \in 1..n |-> IF k = 1 THEN f[k] ELSE h[k - 1] \o f[k]]
           flat == CHOOSE h : h = F(h)
<1>1. n \in Nat /\ Len(f) = n
  BY DEF Row
<1> DEFINE e == [k \in 1..n |-> g[k]]
<1>2. e = F(e)
  <2>1. ASSUME NEW k \in 1..n PROVE e[k] = IF k = 1 THEN f[k] ELSE e[k - 1] \o f[k]
    <3>1. CASE k = 1
      BY <3>1 DEF Joins
    <3>2. CASE k # 1
      <4>1. k \in 2..n /\ k - 1 \in 1..n
        BY <1>1, <3>2
      <4> QED BY <3>2, <4>1 DEF Joins
    <3> QED BY <3>1, <3>2
  <2> QED BY <2>1
<1>3. flat = F(flat)
  <2> HIDE DEF F, e
  <2> QED BY <1>2
<1>4. \A k \in 1..n : flat[k] = IF k = 1 THEN f[k] ELSE flat[k - 1] \o f[k]
  <2> HIDE DEF flat
  <2> QED BY <1>3
<1>5. FlattenSeq(f) = flat[n]
  BY <1>1 DEF FlattenSeq
<1> HIDE DEF flat, e, F
<1> DEFINE S == {m \in Nat : m + 1 <= n => flat[m + 1] = g[m + 1]}
<1>6. 0 \in S
  BY <1>1, <1>4 DEF Joins
<1>7. \A m \in Nat : m \in S => m + 1 \in S
  <2> SUFFICES ASSUME NEW m \in Nat, m \in S, (m + 1) + 1 <= n
               PROVE  flat[(m + 1) + 1] = g[(m + 1) + 1]
    OBVIOUS
  <2> DEFINE k == (m + 1) + 1
  <2>1. k \in 2..n /\ k \in 1..n /\ k # 1 /\ k - 1 = m + 1 /\ m + 1 <= n
    BY <1>1
  <2>2. flat[m + 1] = g[m + 1]
    BY <2>1
  <2> HIDE DEF k
  <2>3. flat[k] = flat[k - 1] \o f[k] /\ g[k] = g[k - 1] \o f[k]
    BY <1>4, <2>1 DEF Joins
  <2>4. flat[k] = g[k]
    BY <2>1, <2>2, <2>3
  <2> QED BY <2>4 DEF k
<1> HIDE DEF S
<1>8. n - 1 \in S
  BY <1>1, <1>6, <1>7, Induction
<1>9. flat[n] = g[n]
  BY <1>1, <1>8 DEF S
<1> QED BY <1>5, <1>9

LEMMA FlattenOfNone == FlattenSeq(<<>>) = <<>>
BY DEF FlattenSeq

(* One more sequence is joined at the end. *)
LEMMA FlattenAppends ==
  ASSUME NEW X, NEW n \in Nat, NEW f, Row(n + 1, f, X)
  PROVE  FlattenSeq(f) = FlattenSeq([k \in 1..n |-> f[k]]) \o f[n + 1]
<1> DEFINE D == 1..n + 1
           V == Seq(X)
           stop == {1}
           jump == [k \in D |-> IF k = 1 THEN 1 ELSE k - 1]
           make == [x \in D \X V |-> x[2] \o f[x[1]]]
           rank == [k \in D |-> k]
           front == [k \in 1..n |-> f[k]]
<1>1. f \in [D -> V] /\ \A k \in D : f[k] \in V
  BY DEF Row
<1>2. make \in [D \X V -> V]
  <2>1. \A k \in D : \A v \in V : v \o f[k] \in V
    BY <1>1
  <2> HIDE DEF V
  <2> QED BY <2>1
<1>3. n + 1 \in Nat /\ rank \in [D -> 0..n + 1] /\ jump \in [D -> D]
      /\ \A k \in D \ stop : rank[jump[k]] < rank[k]
  OBVIOUS
<1>4. Recursion(D, V, stop, f, jump, make, rank, n + 1)
  <2> HIDE DEF D, V, stop, jump, make, rank
  <2> QED BY <1>1, <1>2, <1>3 DEF Recursion
<1>5. PICK g \in [D -> V] : Follows(g, D, stop, f, jump, make)
  <2> HIDE DEF D, V, stop, jump, make, rank
  <2> QED BY <1>4, RecursionDefines DEF Defines
<1>6. \A k \in D : g[k] = IF k \in stop THEN f[k] ELSE make[k, g[jump[k]]]
  BY <1>5 DEF Follows
<1>7. Joins(n + 1, f, g)
  <2>1. g[1] = f[1]
    <3>1. 1 \in D /\ 1 \in stop
      OBVIOUS
    <3> HIDE DEF D, stop
    <3> QED BY <1>6, <3>1
  <2>2. ASSUME NEW k \in 2..n + 1 PROVE g[k] = g[k - 1] \o f[k]
    <3>1. k \in D /\ k \notin stop /\ jump[k] = k - 1 /\ k - 1 \in D
      OBVIOUS
    <3>2. g[k - 1] \in V
      BY <3>1
    <3>3. make[k, g[k - 1]] = g[k - 1] \o f[k]
      <4> HIDE DEF D, V
      <4> QED BY <3>1, <3>2
    <3> HIDE DEF D, V, stop, jump, make
    <3> QED BY <1>6, <3>1, <3>3
  <2> QED BY <2>1, <2>2 DEF Joins
<1> HIDE DEF stop, jump, make, rank
<1>8. FlattenSeq(f) = g[n + 1]
  BY <1>7, FlattenIs
<1>9. CASE n = 0
  <2>1. front = <<>> /\ FlattenSeq(front) = <<>>
    BY <1>9, FlattenOfNone
  <2>2. f[1] \in V
    BY <1>1
  <2>3. <<>> \o f[1] = f[1]
    <3> DEFINE s == f[1]
    <3>1. s \in Seq(X)
      BY <2>2
    <3> HIDE DEF s
    <3>2. <<>> \o s = s
      BY <3>1
    <3> QED BY <3>2 DEF s
  <2> QED BY <1>7, <1>8, <1>9, <2>1, <2>3 DEF Joins
<1>10. CASE n # 0
  <2>1. Row(n, front, X)
    BY <1>1 DEF Row
  <2>2. Joins(n, front, g)
    <3>1. g[1] = front[1]
      BY <1>7, <1>10 DEF Joins
    <3>2. ASSUME NEW k \in 2..n PROVE g[k] = g[k - 1] \o front[k]
      <4>1. k \in 2..n + 1 /\ front[k] = f[k]
        OBVIOUS
      <4> HIDE DEF front
      <4> QED BY <1>7, <4>1 DEF Joins
    <3> QED BY <3>1, <3>2 DEF Joins
  <2> HIDE DEF front
  <2>3. FlattenSeq(front) = g[n]
    BY <1>10, <2>1, <2>2, FlattenIs
  <2>4. g[n + 1] = g[n] \o f[n + 1]
    <3>1. n + 1 \in 2..n + 1 /\ (n + 1) - 1 = n
      BY <1>10
    <3> QED BY <1>7, <3>1 DEF Joins
  <2> QED BY <1>8, <2>3, <2>4 DEF front
<1> QED BY <1>9, <1>10

(* The spellings of the tokens, joined, and what is kept from p on.        *)
Spellings(s) == [i \in DOMAIN s |-> Spelling(s[i])]
AsFar(s, p) ==
  /\ Row(Len(s), Spellings(s), Alphabet) /\ FlattenSeq(Spellings(s)) \in Seq(Alphabet)
  /\ FlattenSeq(Spellings(s)) \o Kept[p] = Kept[1]

LEMMA NoTokensAsFar ==
  ASSUME Readable
  PROVE  AsFar(<<>>, 1)
<1>1. Len(<<>>) = 0 /\ DOMAIN <<>> = {} /\ 1..0 = {}
  OBVIOUS
<1>2. Spellings(<<>>) = <<>>
  BY <1>1 DEF Spellings
<1>3. <<>> \in Seq(Alphabet) /\ <<>> \in [1..0 -> Seq(Alphabet)]
  BY <1>1
<1> DEFINE v == Kept[1]
<1>4. v \in Seq(Alphabet)
  BY KeptDefined DEF Positions
<1> HIDE DEF v
<1>5. <<>> \o v = v
  BY <1>4
<1> QED BY <1>1, <1>2, <1>3, <1>5, FlattenOfNone DEF AsFar, Row, v

(* A token more. *)
LEMMA TokenAsFar ==
  ASSUME Readable, NEW s, IsSeq(s), NEW p, AsFar(s, p),
         NEW q, Kept[q] = Kept[p], NEW t, TokenKept(q, t)
  PROVE  AsFar(Append(s, [type |-> t.type, text |-> t.text]), t.next)
<1> DEFINE x == [type |-> t.type, text |-> t.text]
           r == Append(s, x)
           n == Len(s)
           f == Spellings(r)
           X == Alphabet
<1>1. Spelling(x) = Spelling(t)
  BY DEF Spelling
<1>2. n \in Nat /\ DOMAIN s = 1..n
  BY DEF IsSeq
<1>3. IsSeq(r) /\ Len(r) = n + 1 /\ r[n + 1] = x /\ \A i \in 1..n : r[i] = s[i]
  <2> HIDE DEF x
  <2> QED BY AppendPushes DEF Pushed
<1>4. DOMAIN r = 1..n + 1
  BY <1>3 DEF IsSeq
<1> HIDE DEF r, x, n, X
<1>5. Spelling(t) \in Seq(X) /\ t.next \in Positions
  BY DEF TokenKept, X
<1>6. Spellings(s) \in [1..n -> Seq(X)] /\ FlattenSeq(Spellings(s)) \in Seq(X)
  BY DEF AsFar, Row, n, X
<1>7. f[n + 1] = Spelling(t) /\ \A i \in 1..n : f[i] = Spellings(s)[i]
  <2>1. n + 1 \in 1..n + 1 /\ \A i \in 1..n : i \in 1..n + 1
    BY <1>2
  <2> QED BY <1>1, <1>2, <1>3, <1>4, <2>1 DEF Spellings
<1>8. f = [i \in 1..n + 1 |-> f[i]]
  BY <1>4 DEF Spellings
<1> HIDE DEF f
<1>9. [i \in 1..n |-> f[i]] = Spellings(s)
  BY <1>6, <1>7
<1>10. \A i \in 1..n + 1 : f[i] \in Seq(X)
  <2> TAKE i \in 1..n + 1
  <2>1. i = n + 1 \/ i \in 1..n
    BY <1>2
  <2> QED BY <1>5, <1>6, <1>7, <2>1
<1>11. Row(n + 1, f, X)
  BY <1>2, <1>8, <1>10 DEF Row
<1> DEFINE a == FlattenSeq(Spellings(s))
           b == Spelling(t)
           c == Kept[t.next]
<1>12. FlattenSeq(f) = a \o b
  BY <1>2, <1>7, <1>9, <1>11, FlattenAppends
<1>13. a \in Seq(X) /\ b \in Seq(X) /\ c \in Seq(X)
  BY <1>5, <1>6, KeptDefined DEF X
<1>14. a \o (b \o c) = Kept[1]
  BY DEF AsFar, TokenKept
<1> HIDE DEF a, b, c
<1>15. a \o b \in Seq(X) /\ (a \o b) \o c = a \o (b \o c)
  BY <1>13, JoinedInAnyOrder
<1> QED BY <1>3, <1>11, <1>12, <1>14, <1>15 DEF AsFar, X, c, f, r, x

(* EOF is found at the end of the text, where nothing is left. *)
LEMMA NothingLeft ==
  ASSUME Readable, NEW p \in Positions, TokenAt(p).type = "EOF"
  PROVE  Kept[TokenAt(p).next] = <<>>
<1> DEFINE t == TokenAt(p)
<1>1. \/ Ch(p) = NoChar /\ t.next = p
      \/ t.type \in {"::=", "...", "..", "STRING", "NUMBER", "ILLEGAL"} \cup Marks
      \/ \E word : t.type = LookupIdent(word)
  BY DEF TokenAt, Spelt, Token
<1>2. "EOF" \notin {"::=", "...", "..", "STRING", "NUMBER", "ILLEGAL"} \cup Marks
  BY CharactersAssumption
<1>3. ASSUME NEW word PROVE LookupIdent(word) # "EOF"
  <2>1. CASE word = "STRING"
    BY <2>1 DEF LookupIdent
  <2>2. CASE word \in Keywords \ {"STRING"}
    BY <2>2 DEF LookupIdent, Keywords
  <2>3. CASE word \notin Keywords /\ word # "STRING"
    BY <2>3 DEF LookupIdent
  <2> QED BY <2>1, <2>2, <2>3
<1> HIDE DEF t
<1>4. Ch(p) = NoChar /\ t.next = p
  BY <1>1, <1>2, <1>3 DEF t
<1> QED BY <1>4, KeptDefined DEF t

(* What is kept depends on the text alone. *)
LEMMA TextStays ==
  ASSUME source' = source
  PROVE  Kept' = Kept /\ Alphabet' = Alphabet /\ (NoRulers' <=> NoRulers)
<1>1. Kept' = Kept
  BY DEF Kept, Past, Ch, Here, Characters, FirstIn, Pairs, Ends
<1>2. Alphabet' = Alphabet
  BY DEF Alphabet, Ch, Here
<1>3. NoRulers' <=> NoRulers
  BY DEF NoRulers, Here
<1> QED BY <1>1, <1>2, <1>3

LEMMA ParseKeepsText == Parse => source' = source
<1> SUFFICES ASSUME Parse PROVE source' = source
  OBVIOUS
<1>1. Fail \/ (\E p, g : Continue(p, g)) => source' = source
  BY DEF Fail, Continue, lexerVars
<1>2. ParseModule \/ ParseImport \/ ParseAssignment \/ EndModule => source' = source
  BY <1>1 DEF ParseModule, ParseImport, ParseAssignment, EndModule
<1>3. ParseFile => source' = source
  BY DEF ParseFile
<1>4. ParseSimple \/ ParseRanged \/ NoType => source' = source
  BY <1>1 DEF ParseSimple, ParseRanged, NoType, Return
<1>5. ParseSequenceOrSequenceOf \/ ParseChoiceOrEnumerated => source' = source
  BY <1>1 DEF ParseSequenceOrSequenceOf, ParseChoiceOrEnumerated, Open
<1>6. ParseBitString \/ ParseVisibleString => source' = source
  BY <1>1 DEF ParseBitString, ParseVisibleString, Open, Return
<1>7. Ellipsis \/ ParsePart \/ ParseItem \/ EndParts => source' = source
  BY <1>1 DEF Ellipsis, ParsePart, ParseItem, EndParts, Complete
<1>8. DeliverAssignment \/ DeliverPart \/ DeliverElement => source' = source
  BY <1>1 DEF DeliverAssignment, DeliverPart, DeliverElement, Complete
<1>9. ParseNamedBit \/ EndNamedBits \/ ParseConstraint \/ EndConstraints
        \/ ParseAlphabetItem \/ EndAlphabet => source' = source
  BY <1>1 DEF ParseNamedBit, EndNamedBits, ParseConstraint, EndConstraints,
              ParseAlphabetItem, EndAlphabet, Complete
<1> QED BY <1>2, <1>3, <1>4, <1>5, <1>6, <1>7, <1>8, <1>9 DEF Parse

(* The invariant of the lexer. *)
TextInv ==
  /\ phase \in {"lex", "parse"} => source \in Texts
  /\ phase = "lex" /\ NoRulers =>
       (tokens = <<>> /\ pos = 1) \/ (pos \in Positions /\ AsFar(tokens, pos))
  /\ phase = "parse" /\ NoRulers => FlattenSeq(Spellings(tokens)) = Kept[1]

LEMMA TokenizeTextInv ==
  ASSUME Inv, TextInv, Tokenize
  PROVE  TextInv'
<1>1. phase = "lex" /\ source' = source /\ source \in Texts /\ IsSeq(tokens)
  BY DEF Tokenize, TextInv, Inv, NotEnded
<1> DEFINE t == NextToken
           s == Append(tokens, [type |-> t.type, text |-> t.text])
<1>2. \/ phase' = "failed"
      \/ /\ tokens' = s /\ pos' = t.next /\ t.type # "ILLEGAL"
         /\ phase' = IF t.type = "EOF" THEN "parse" ELSE "lex"
  BY DEF Tokenize
<1>3. CASE phase' = "failed"
  BY <1>3 DEF TextInv
<1>4. CASE /\ tokens' = s /\ pos' = t.next /\ t.type # "ILLEGAL"
           /\ phase' = IF t.type = "EOF" THEN "parse" ELSE "lex"
  <2>1. source' \in Texts /\ Readable
    BY <1>1, TextIsReadable
  <2>2. CASE ~NoRulers
    BY <1>1, <2>1, <2>2, TextStays DEF TextInv
  <2>3. CASE NoRulers
    <3>1. pos \in Positions /\ AsFar(tokens, pos)
      BY <1>1, <2>1, <2>3, NoTokensAsFar DEF TextInv, Positions
    <3> DEFINE p == Start[pos]
    <3>2. /\ p \in Positions /\ Here(p, 2) # "--" /\ Kept[p] = Kept[pos]
          /\ t = TokenAt(p)
      BY <2>1, <2>3, <3>1, KeptStart DEF Begins, NextToken
    <3> HIDE DEF p, t
    <3>3. TokenKept(p, t)
      BY <1>4, <2>1, <3>2, TokenAtKept
    <3>4. AsFar(s, t.next) /\ t.next \in Positions
      BY <1>1, <2>1, <3>1, <3>2, <3>3, TokenAsFar DEF TokenKept
    <3> HIDE DEF s
    <3>5. CASE t.type # "EOF"
      <4>1. AsFar(tokens, pos)'
        BY <1>1, <1>4, <3>4, TextStays DEF AsFar
      <4> QED BY <1>4, <2>1, <3>4, <3>5, <4>1 DEF TextInv
    <3>6. CASE t.type = "EOF"
      <4>1. Kept[t.next] = <<>>
        BY <2>1, <3>2, <3>6, NothingLeft
      <4>2. FlattenSeq(Spellings(s)) = Kept[1]
        <5> DEFINE v == FlattenSeq(Spellings(s))
        <5>1. v \in Seq(Alphabet) /\ v \o <<>> = Kept[1]
          BY <3>4, <4>1 DEF AsFar
        <5> HIDE DEF v
        <5>2. v \o <<>> = v
          BY <5>1
        <5> QED BY <5>1, <5>2 DEF v
      <4>3. (FlattenSeq(Spellings(tokens)))' = Kept'[1]
        BY <1>1, <1>4, <4>2, TextStays
      <4> QED BY <1>4, <2>1, <3>6, <4>3 DEF TextInv
    <3> QED BY <3>5, <3>6
  <2> QED BY <2>2, <2>3
<1> QED BY <1>2, <1>3, <1>4

LEMMA NextTextInv ==
  ASSUME Inv, TextInv, [ReadNext]_<<phase, lexerVars, parserVars>>
  PROVE  TextInv'
<1>1. CASE /\ source' = source /\ tokens' = tokens
           /\ \/ phase' = phase /\ pos' = pos
              \/ phase = "parse" /\ phase' = "parse"
  <2>1. (AsFar(tokens, pos))' <=> AsFar(tokens, pos')
    BY <1>1, TextStays DEF AsFar
  <2>2. (FlattenSeq(Spellings(tokens)))' = FlattenSeq(Spellings(tokens)) /\ Kept'[1] = Kept[1]
    BY <1>1, TextStays
  <2> QED BY <1>1, <2>1, <2>2, TextStays DEF TextInv
<1>2. CASE UNCHANGED <<phase, lexerVars, parserVars>>
  BY <1>1, <1>2 DEF lexerVars
<1>3. CASE Parse
  <2>1. phase = "parse" /\ Outcome /\ source' = source
    BY <1>3, StepOutcome, ParseKeepsText
  <2>2. CASE phase' = "failed" \/ phase' = "next"
    BY <2>2 DEF TextInv
  <2>3. CASE phase' = "parse" /\ tokens' = tokens
    BY <1>1, <2>1, <2>3
  <2> QED BY <2>1, <2>2, <2>3 DEF Outcome
<1>4. CASE Tokenize
  BY <1>4, TokenizeTextInv
<1>5. ASSUME NEW text \in Texts, ReadAnother(text)
      PROVE  TextInv'
  <2>1. tokens' = <<>> /\ pos' = 1 /\ phase' = "lex" /\ source' \in Texts
    BY <1>5 DEF ReadAnother, Inv
  <2> QED BY <2>1 DEF TextInv
<1>6. CASE Otherwise
  BY <1>6 DEF Otherwise, TextInv
<1> QED BY <1>2, <1>3, <1>4, <1>5, <1>6 DEF ReadNext

(* On any texts: the tokens of a file are its characters, without blanks   *)
(* and comments, if no comment is opened by more than two hyphens.         *)
THEOREM LexerTokensAreTheText == ReadSpec => []TokensAreTheText
<1>1. ReadInit => Inv /\ TextInv
  <2>1. ReadInit => TextInv
    BY DEF ReadInit, ReadFirst, TextInv
  <2> QED BY <2>1, InitInv
<1>2. Inv /\ TextInv /\ [ReadNext]_<<phase, lexerVars, parserVars>> => (Inv /\ TextInv)'
  BY NextInv, NextTextInv
<1>3. TextInv => TokensAreTheText
  BY DEF TextInv, TokensAreTheText, CommentsEndAsDocumented, JustLexed, NoRulers, Spellings
<1> QED BY <1>1, <1>2, <1>3, PTL DEF ReadSpec
=============================================================================
