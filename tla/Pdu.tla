--------------------------------- MODULE Pdu ---------------------------------
(***************************************************************************)
(* Whole messages of a package that the generator has emitted: the shapes  *)
(* of its types say how EncodeUPER and DecodeUPER call one another, from a *)
(* PDU down to the calls of package uper.  Marshal and Unmarshal start at  *)
(* a named type, with a new struct.  The sender may have been generated    *)
(* from a later version of one type.                                       *)
(*                                                                         *)
(* What is written is a sequence of tokens: a bit, the index of a root     *)
(* alternative, a normally small number, a size, a length, the value of a  *)
(* leaf, or the length of an open type, before the tokens in it.  A        *)
(* decoder that meets another kind than it reads takes bits for what they  *)
(* are not: it has "misread".                                              *)
(*                                                                         *)
(* The methods call each other as deep as values and types are nested.     *)
(* Here the call that may nest n calls more is a table, of what it returns *)
(* on anything it may be called with, and made from the table for n - 1.   *)
(***************************************************************************)
EXTENDS Exchange, Results, Integers, SequencesExt

CONSTANTS
  Packages,     (* for each package, the shapes of its types by name       *)
  Shapes,       (* for each package, all shapes: of the types and in them  *)
  UnknownBase,  (* 1000: what an unknown item is decoded to, less its index *)
  MaxDepth      (* bound: how many calls of a method are nested            *)

None == <<>>
Some(v) == <<v>>

(* The struct of a SEQUENCE is what its pointers and fields hold, root and *)
(* additions; that of a CHOICE its tag and the value behind the pointer;   *)
(* an ENUMERATED is a number.                                              *)
Struct(root, more) == [root |-> root, more |-> more]
Tagged(k, v) == <<k, v>>
Unset == Tagged(0, "nil")

Parts(t) == t.root \o t.more
PositionOf(t, number) ==
  IF \E k \in DOMAIN Parts(t) : Parts(t)[k].value = number
    THEN CHOOSE k \in DOMAIN Parts(t) : Parts(t)[k].value = number
    ELSE 0

(* The values in a value, each with its type, as some tables know it: what *)
(* a method hands to the next ones, and what is reached by some calls.     *)
Held(parts, values) ==
  {<<parts[k].type, values[k][1]>> :
     k \in {j \in DOMAIN parts : j \in DOMAIN values /\ values[j] # None}}
Inside(types, typed) ==
  LET t == typed[1]
      v == typed[2]
  IN  CASE t.kind = "Ref"      -> {<<types[t.name], v>>}
        [] t.kind = "Sequence" -> Held(t.root, v.root) \union Held(t.more, v.more)
        [] t.kind = "Choice"   ->
             {<<Parts(t)[k].type, v[2]>> : k \in {j \in DOMAIN Parts(t) : j = v[1]}}
        [] t.kind = "ListOf"   -> {<<t.of, v[k]>> : k \in DOMAIN v}
        [] OTHER               -> {}
Reached(types, typed, depth) ==
  LET reached[d \in 0 .. depth] ==
        IF d = 0 THEN [last |-> {typed}, all |-> {typed}]
        ELSE LET r    == reached[d - 1]
                 next == UNION {Inside(types, x) : x \in r.last}
             IN  [last |-> next, all |-> r.all \union next]
  IN  reached[depth]
Level(types, typed, depth) == Reached(types, typed, depth).last
Nest(types, typed, depth)  == Reached(types, typed, depth).all

Token(kind, x) == [kind |-> kind, x |-> x]

-----------------------------------------------------------------------------
(* EncodeUPER.  An error in a part is an error of the whole.               *)
Both(r, s) == IF r.ok /\ s.ok THEN Encoded(r.bits \o s.bits) ELSE Refused
Each(results) ==
  IF \A k \in DOMAIN results : results[k].ok
    THEN Encoded(FlattenSeq([k \in DOMAIN results |-> results[k].bits]))
    ELSE Refused
One(kind, x) == Encoded(<<Token(kind, x)>>)
Nothing == Encoded(<<>>)
Open(r) == Both(One("open", Len(r.bits)), r)
ExtensionBit(t, x) == IF t.extensible THEN One("bit", x) ELSE Nothing

(* Mutant of Index: the index of the only alternative is written. *)
IndexAlways(n, k) == One("index", [of |-> n, is |-> k - 1])

(* WriteConstrainedInt(k - 1, 0, n - 1): a range of one takes no bits.     *)
Index(n, k) == IF n = 1 THEN Nothing ELSE One("index", [of |-> n, is |-> k - 1])

IsEmpty(t) == t.kind = "Null" \/ (t.kind = "Integer" /\ t.lb = t.ub)

(* code: what the calls for the parts of a value have returned.            *)
Preamble(t, v) ==
  Each([k \in DOMAIN t.root |-> IF t.root[k].optional THEN One("bit", v.root[k] # None) ELSE Nothing])
Fields(t, v, code) ==
  Each([k \in DOMAIN t.root |->
    IF v.root[k] = None THEN Nothing ELSE code[<<t.root[k].type, v.root[k][1]>>]])

(* The number of additions is that up to the last one present. *)
Present(t, v) == {k \in DOMAIN t.more : v.more[k] # None}
LastPresent(t, v) == CHOOSE n \in Present(t, v) : \A k \in Present(t, v) : k <= n
Bitmap(t, v) == Each([k \in 1 .. LastPresent(t, v) |-> One("bit", v.more[k] # None)])
Added(t, v, code) ==
  Each([k \in 1 .. LastPresent(t, v) |->
    IF v.more[k] = None THEN Nothing ELSE Open(code[<<t.more[k].type, v.more[k][1]>>])])
Additions(t, v, code) ==
  IF Present(t, v) = {} THEN Nothing
  ELSE Both(One("small", LastPresent(t, v) - 1), Both(Bitmap(t, v), Added(t, v, code)))

EncodeSequence(t, v, code) ==
  Both(ExtensionBit(t, Present(t, v) # {}),
       Both(Preamble(t, v), Both(Fields(t, v, code), Additions(t, v, code))))

EncodeChoice(t, v, code) ==
  LET n     == Len(t.root)
      value == code[<<Parts(t)[v[1]].type, v[2]>>]
  IN  CASE v[1] \in 1 .. n -> Both(ExtensionBit(t, FALSE), Both(Index(n, v[1]), value))
        [] v[1] \in n + 1 .. n + Len(t.more) ->
             Both(One("bit", TRUE), Both(One("small", v[1] - n - 1), Open(value)))
        [] OTHER -> Refused

(* Mutant of EncodeEnumerated: added items are counted from the root on. *)
EncodeEnumeratedOn(t, v) ==
  LET k == PositionOf(t, v)
      n == Len(t.root)
  IN  CASE k \in 1 .. n -> Both(ExtensionBit(t, FALSE), Index(n, k))
        [] k > n        -> Both(One("bit", TRUE), One("small", k - 1))
        [] OTHER        -> Refused

EncodeEnumerated(t, v) ==
  LET k == PositionOf(t, v)
      n == Len(t.root)
  IN  CASE k \in 1 .. n -> Both(ExtensionBit(t, FALSE), Index(n, k))
        [] k > n        -> Both(One("bit", TRUE), One("small", k - n - 1))
        [] OTHER        -> Refused

(* The bounds of a shape are decimals; those of a size are small. *)
Digit == [c \in {ToString(d) : d \in 0 .. 9} |-> CHOOSE d \in 0 .. 9 : ToString(d) = c]
SizeOf(decimal) ==
  LET upTo[n \in 0 .. Len(decimal)] ==
        IF n = 0 THEN 0 ELSE 10 * upTo[n - 1] + Digit[SubSeq(decimal, n, n)]
  IN  upTo[Len(decimal)]
Sizes(t) == SizeOf(t.lb) .. SizeOf(t.ub)

EncodeList(t, v, code) ==
  LET count == CASE ~t.sized               -> One("length", Len(v))
                 [] t.sized /\ t.lb = t.ub -> Nothing
                 [] t.sized /\ t.lb # t.ub -> One("size", Len(v))
  IN  IF t.sized /\ Len(v) \notin Sizes(t) THEN Refused
      ELSE Both(count, Each([k \in DOMAIN v |-> code[<<t.of, v[k]>>]]))

EncodeUPER(types, typed, code) ==
  LET t == typed[1]
      v == typed[2]
  IN  CASE t.kind = "Ref"        -> code[<<types[t.name], v>>]
        [] t.kind = "Sequence"   -> EncodeSequence(t, v, code)
        [] t.kind = "Choice"     -> EncodeChoice(t, v, code)
        [] t.kind = "Enumerated" -> EncodeEnumerated(t, v)
        [] t.kind = "ListOf"     -> EncodeList(t, v, code)
        [] t.kind = "Boolean"    -> One("bit", v)
        [] OTHER -> IF IsEmpty(t) THEN Nothing ELSE One("value", [of |-> t, is |-> v])

Encode(types, typed, depth) ==
  LET all == Nest(types, typed, depth)
      code[n \in 0 .. depth] ==
        IF n = 0 THEN [x \in all |-> Refused]
        ELSE LET inner == code[n - 1]
             IN  [x \in all |-> EncodeUPER(types, x, [y \in Inside(types, x) |-> inner[y]])]
  IN  code[depth][typed]

-----------------------------------------------------------------------------
(* DecodeUPER, from position p of an input, which ends where the message   *)
(* or the open type does that it is in.  Any error is returned at once.    *)
Input(tokens, end) == [tokens |-> tokens, end |-> end]
Then(r, next(_, _)) == IF r.status = "ok" THEN next(r.value, r.used) ELSE r

(* Mutant of Take: past the end of the input there are bits, none set. *)
TakePastEnd(input, p, kind) ==
  CASE p >= input.end -> IF kind = "bit" THEN Decoded(FALSE, p + 1) ELSE Failed("eof")
    [] p < input.end /\ input.tokens[p + 1].kind # kind -> Failed("misread")
    [] OTHER -> Decoded(input.tokens[p + 1].x, p + 1)

Take(input, p, kind) ==
  CASE p >= input.end -> Failed("eof")
    [] p < input.end /\ input.tokens[p + 1].kind # kind -> Failed("misread")
    [] OTHER -> Decoded(input.tokens[p + 1].x, p + 1)

(* Reading with each of some readers in turn yields the sequence of what   *)
(* they read; a reader is a function of the position it starts at.         *)
TakeEach(readers, p) ==
  LET upTo[k \in 0 .. Len(readers)] ==
        IF k = 0 THEN Decoded(<<>>, p)
        ELSE Then(upTo[k - 1], LAMBDA vs, q :
               Then(readers[k][q], LAMBDA v, used : Decoded(Append(vs, v), used)))
  IN  upTo[Len(readers)]

(* Mutant of TakeOpen: a payload that is cut short is taken as it is.      *)
TakeOpenShort(input, p) ==
  Then(Take(input, p, "open"), LAMBDA n, q :
    Decoded(q, IF q + n > input.end THEN input.end ELSE q + n))

(* An open type is where the tokens in it begin; reading goes on behind.   *)
TakeOpen(input, p) ==
  Then(Take(input, p, "open"), LAMBDA n, q :
    IF q + n > input.end THEN Failed("eof") ELSE Decoded(q, q + n))

TakeExtensionBit(t, input, p) ==
  IF t.extensible THEN Take(input, p, "bit") ELSE Decoded(FALSE, p)

(* An index or a leaf of another type than is expected is misread as well. *)
TakeAs(input, p, kind, of) ==
  Then(Take(input, p, kind), LAMBDA x, q : IF x.of = of THEN Decoded(x.is, q) ELSE Failed("misread"))

TakeIndex(n, input, p) ==
  IF n = 1 THEN Decoded(1, p)
  ELSE Then(TakeAs(input, p, "index", n),
            LAMBDA x, q : IF x < n THEN Decoded(x + 1, q) ELSE Failed("invalid"))

(* read: what the calls for the parts of a type return, wherever they are  *)
(* made.  An optional or added one is a pointer to what was read.          *)
TakePart(part, end, p, read) ==
  Then(read[<<part.type, end, p>>], LAMBDA v, used : Decoded(Some(v), used))

(* A receiver that knows no addition reads them, each bit followed by its  *)
(* open type, before the preamble of the root (generator.go:644).          *)
SkipAdditions(input, p) ==
  Then(Take(input, p, "small"), LAMBDA x, at :
    TakeEach([k \in 1 .. x + 1 |-> [q \in Nat |->
      Then(Take(input, q, "bit"), LAMBDA there, used :
        IF there THEN TakeOpen(input, used) ELSE Decoded(None, used))]], at))

(* Any other reads the whole bitmap first, and drops what it does not know. *)
TakeBitmap(input, p) ==
  Then(Take(input, p, "small"), LAMBDA x, at :
    TakeEach([k \in 1 .. x + 1 |-> [q \in Nat |-> Take(input, q, "bit")]], at))
TakeAddition(more, k, input, p, read) ==
  Then(TakeOpen(input, p), LAMBDA at, used :
    IF k > Len(more) THEN Decoded(None, used)
    ELSE Then(TakePart(more[k], used, at, read), LAMBDA v, u : Decoded(v, used)))
TakeAdditions(more, input, p, read) ==
  Then(TakeBitmap(input, p), LAMBDA there, at :
    Then(TakeEach([k \in DOMAIN there |-> [q \in Nat |->
           IF there[k] THEN TakeAddition(more, k, input, q, read) ELSE Decoded(None, q)]], at),
         LAMBDA got, used :
           Decoded([k \in DOMAIN more |-> IF k \in DOMAIN got THEN got[k] ELSE None], used)))

TakePreamble(root, input, p) ==
  TakeEach([k \in DOMAIN root |-> [q \in Nat |->
    IF root[k].optional THEN Take(input, q, "bit") ELSE Decoded(TRUE, q)]], p)
TakeFields(root, there, input, p, read) ==
  TakeEach([k \in DOMAIN root |-> [q \in Nat |->
    IF there[k] THEN TakePart(root[k], input.end, q, read) ELSE Decoded(None, q)]], p)
DecodeSequence(t, input, p, read) ==
  LET absent == [k \in DOMAIN t.more |-> None]
  IN  Then(TakeExtensionBit(t, input, p), LAMBDA hasExt, p1 :
      Then(IF hasExt /\ t.more = <<>> THEN SkipAdditions(input, p1) ELSE Decoded(None, p1), LAMBDA x, p2 :
      Then(TakePreamble(t.root, input, p2), LAMBDA there, p3 :
      Then(TakeFields(t.root, there, input, p3, read), LAMBDA root, p4 :
      Then(IF hasExt /\ t.more # <<>> THEN TakeAdditions(t.more, input, p4, read) ELSE Decoded(absent, p4),
           LAMBDA more, p5 : Decoded(Struct(root, more), p5))))))

(* The open type of an unknown alternative is read; nothing is selected. *)
TakeAlternative(t, k, end, p, read) ==
  Then(read[<<Parts(t)[k].type, end, p>>], LAMBDA v, used : Decoded(Tagged(k, v), used))
TakeAddedAlternative(t, input, p, read) ==
  Then(Take(input, p, "small"), LAMBDA x, q :
    Then(TakeOpen(input, q), LAMBDA at, used :
      IF x >= Len(t.more) THEN Decoded(Unset, used)
      ELSE Then(TakeAlternative(t, Len(t.root) + x + 1, used, at, read), LAMBDA v, u : Decoded(v, used))))
DecodeChoice(t, input, p, read) ==
  Then(TakeExtensionBit(t, input, p), LAMBDA isExt, at :
    IF isExt THEN TakeAddedAlternative(t, input, at, read)
    ELSE Then(TakeIndex(Len(t.root), input, at), LAMBDA k, q : TakeAlternative(t, k, input.end, q, read)))

(* Mutant of UnknownItem: the index of an unknown item is its value. *)
UnknownItemBare(index) == index

UnknownItem(index) == UnknownBase + index

DecodeEnumerated(t, input, p) ==
  Then(TakeExtensionBit(t, input, p), LAMBDA isExt, at :
    IF isExt
      THEN Then(Take(input, at, "small"), LAMBDA x, used :
             Decoded(IF x < Len(t.more) THEN t.more[x + 1].value ELSE UnknownItem(x), used))
      ELSE Then(TakeIndex(Len(t.root), input, at), LAMBDA k, used : Decoded(t.root[k].value, used)))

DecodeList(t, input, p, read) ==
  LET count == CASE ~t.sized               -> Take(input, p, "length")
                 [] t.sized /\ t.lb = t.ub -> Decoded(SizeOf(t.lb), p)
                 [] t.sized /\ t.lb # t.ub -> Take(input, p, "size")
  IN  Then(count, LAMBDA n, at :
        TakeEach([k \in 1 .. n |-> [q \in Nat |-> read[<<t.of, input.end, q>>]]], at))

DecodeUPER(types, t, input, p, read) ==
  CASE t.kind = "Ref"        -> read[<<types[t.name], input.end, p>>]
    [] t.kind = "Sequence"   -> DecodeSequence(t, input, p, read)
    [] t.kind = "Choice"     -> DecodeChoice(t, input, p, read)
    [] t.kind = "Enumerated" -> DecodeEnumerated(t, input, p)
    [] t.kind = "ListOf"     -> DecodeList(t, input, p, read)
    [] t.kind = "Boolean"    -> Take(input, p, "bit")
    [] OTHER -> IF IsEmpty(t) THEN Decoded("least", p) ELSE TakeAs(input, p, "value", t)

Decode(shapes, types, t, tokens, depth) ==
  LET places == shapes \X Nat \X Nat
      read[n \in 0 .. depth] ==
        IF n = 0 THEN [x \in places |-> Failed("deep")]
        ELSE LET inner == read[n - 1]
             IN  [x \in places |-> DecodeUPER(types, x[1], Input(tokens, x[2]), x[3], inner)]
  IN  read[depth][<<t, Len(tokens), 0>>]

-----------------------------------------------------------------------------
(* A call is a package, a type in it, a type of which the sender has a     *)
(* later version ("" if none), and the value it sends.                     *)
Here(c)  == Packages[c[1]]
Value(c) == c[4]

(* The version after the next one: two additions, alternatives or items.   *)
Later(t) ==
  LET future(k) == IF t.kind = "Enumerated" THEN [name |-> "Future", value |-> UnknownBase - k]
                   ELSE [name |-> "Future", type |-> [kind |-> "Boolean"], optional |-> TRUE]
  IN  [t EXCEPT !.more = @ \o <<future(1), future(2)>>]
WithLater(types, name) == IF name = "" THEN types ELSE [types EXCEPT ![name] = Later(@)]
There(c) == WithLater(Here(c), c[3])

EncodeIn(types, c, v)      == Encode(types, <<types[c[2]], v>>, MaxDepth)
DecodeIn(types, c, tokens) == Decode(Shapes[c[1]], types, types[c[2]], tokens, MaxDepth)

Sent     == EncodeIn(There(call), call, Value(call))
Received == DecodeIn(Here(call), call, wire)

(* A bit is flipped, or an index becomes the last one or, if the width of  *)
(* its field has room, the one after it.                                   *)
IsPowerOf2(n) == \E k \in 0 .. n : n = 2 ^ k
Damage(tokens) ==
  LET places(kind) == {k \in DOMAIN tokens : tokens[k].kind = kind}
      last(of) == {of - 1} \union IF IsPowerOf2(of) THEN {} ELSE {of}
  IN  {[tokens EXCEPT ![k].x = ~@] : k \in places("bit")}
      \union UNION {{[tokens EXCEPT ![k].x.is = n] : n \in last(tokens[k].x.of)} : k \in places("index")}

WriteDamaged ==
  stage = "start" /\ Sent.ok /\ \E tokens \in Damage(Sent.bits) : Hand("noise", tokens, Len(tokens))

Next == Write(Sent) \/ WriteCut(Sent) \/ Refuse(Sent) \/ WriteDamaged \/ Read(Received)

Spec == Init /\ [][Next]_vars

-----------------------------------------------------------------------------
(* What is assumed of the packages and of the values sent.                 *)
IsSequence(s) == Len(s) \in Nat /\ s = [k \in 1 .. Len(s) |-> s[k]]

(* What a field of some kind can hold. *)
IsToken(y) ==
  /\ y = Token(y.kind, y.x)
  /\ y.kind = "bit" => y.x \in BOOLEAN
  /\ y.kind = "index" => y.x = [of |-> y.x.of, is |-> y.x.is] /\ y.x.of \in Nat \ {0} /\ y.x.is \in Nat
  /\ y.kind \in {"small", "size", "length", "open"} => y.x \in Nat
IsMessage(tokens) == IsSequence(tokens) /\ \A k \in 1 .. Len(tokens) : IsToken(tokens[k])

(* What the generator sees to: a reference is to a type of the package, a  *)
(* type without "..." has no additions, a CHOICE and an ENUMERATED have a  *)
(* root, and the numbers of items differ, and stay below UnknownBase.      *)
IsShape(package, t) ==
  /\ t.kind = "Ref" => t.name \in DOMAIN Packages[package]
  /\ t.kind \in {"Sequence", "Choice", "Enumerated"} =>
       /\ t = [kind |-> t.kind, extensible |-> t.extensible, root |-> t.root, more |-> t.more]
       /\ IsSequence(t.root) /\ IsSequence(t.more)
       /\ t.extensible \in BOOLEAN /\ (~t.extensible => t.more = <<>>)
  /\ t.kind \in {"Sequence", "Choice"} =>
       \A k \in DOMAIN Parts(t) : Parts(t)[k].type \in Shapes[package]
  /\ t.kind = "Sequence" => \A k \in DOMAIN t.root : t.root[k].optional \in BOOLEAN
  /\ t.kind \in {"Choice", "Enumerated"} => t.root # <<>>
  /\ t.kind = "Enumerated" =>
       \A k \in DOMAIN Parts(t) :
         /\ Parts(t)[k].value \in Nat /\ Parts(t)[k].value < UnknownBase
         /\ \A j \in DOMAIN Parts(t) : Parts(t)[j].value = Parts(t)[k].value => j = k
  /\ t.kind = "ListOf" =>
       /\ t.of \in Shapes[package] /\ t.sized \in BOOLEAN
       /\ t.sized => SizeOf(t.lb) \in Nat /\ SizeOf(t.ub) \in Nat

(* What Go sees to: a value has the Go type of its shape.  A field that is *)
(* no pointer holds something.                                             *)
AreHeld(parts, values) ==
  /\ IsSequence(values) /\ Len(values) = Len(parts)
  /\ \A k \in DOMAIN values : values[k] = None \/ values[k] = Some(values[k][1])
IsTyped(t, v) ==
  /\ t.kind = "Sequence" =>
       /\ v = Struct(v.root, v.more) /\ AreHeld(t.root, v.root) /\ AreHeld(t.more, v.more)
       /\ \A k \in DOMAIN t.root : t.root[k].optional \/ v.root[k] # None
  /\ t.kind = "Choice"  => v = Tagged(v[1], v[2]) /\ v[1] \in Nat
  /\ t.kind = "ListOf"  => IsSequence(v)
  /\ t.kind = "Boolean" => v \in BOOLEAN
  /\ IsEmpty(t)         => v = "least"

IsCall(c) ==
  LET sent == <<There(c)[c[2]], Value(c)>>
  IN  /\ c[1] \in DOMAIN Packages /\ c[2] \in DOMAIN Here(c)
      /\ c[3] # "" =>
           /\ c[3] \in DOMAIN Here(c) /\ There(c)[c[3]] \in Shapes[c[1]]
           /\ Here(c)[c[3]].kind \in {"Sequence", "Choice", "Enumerated"}
           /\ Here(c)[c[3]].extensible
      /\ Level(There(c), sent, MaxDepth) = {}
      /\ \A x \in Nest(There(c), sent, MaxDepth) : IsTyped(x[1], x[2])

ASSUME PduAssumption ==
  /\ UnknownBase \in Nat /\ MaxDepth \in Nat
  /\ \A tail \in Tails : IsMessage(tail)
  /\ \A package \in DOMAIN Packages :
       /\ \A name \in DOMAIN Packages[package] : Packages[package][name] \in Shapes[package]
       /\ \A t \in Shapes[package] : IsShape(package, t)
  /\ \A c \in Calls : IsCall(c)

-----------------------------------------------------------------------------
(* The message is a sequence of tokens, of which the decoder reads no more *)
(* than there are.  Whatever they are, what it accepts is a value of the   *)
(* type, to the last value in it.                                          *)
TypeOK ==
  /\ stage \in Stages /\ sort \in Stages \union {"none"}
  /\ IsMessage(wire) /\ size \in Nat
  /\ answer.status \in {"none", "ok", "eof", "invalid", "misread", "deep"}
  /\ answer.used \in 0 .. Len(wire)
  /\ answer.status = "ok" =>
       LET got == <<Here(call)[call[2]], answer.value>>
       IN  /\ Level(Here(call), got, MaxDepth) = {}
           /\ \A x \in Nest(Here(call), got, MaxDepth) : IsTyped(x[1], x[2])

(* An alternative is selected, and known; so is an item; a list has a      *)
(* length its type allows.                                                 *)
IsKnown(t, v) ==
  /\ t.kind = "Choice"     => v[1] \in DOMAIN Parts(t)
  /\ t.kind = "Enumerated" => PositionOf(t, v) # 0
IsSized(t, v) == t.kind = "ListOf" /\ t.sized => Len(v) \in Sizes(t)

(* Additions reach a receiver that knows one at least (generator.go:644).  *)
IsLegible(t, v) ==
  t.kind = "Sequence" /\ t.more = <<>> => \A k \in DOMAIN v.more : v.more[k] = None

Everywhere(types, c, holds(_, _)) ==
  \A x \in Nest(types, <<types[c[2]], Value(c)>>, MaxDepth) : holds(x[1], x[2])
Sendable == Everywhere(There(call), call, LAMBDA t, v : IsKnown(t, v) /\ IsSized(t, v))
Legible == Everywhere(Here(call), call, IsLegible)

(* What a value is to tables that know less: unknown additions are left    *)
(* out, an unknown alternative is none, an unknown item a number above     *)
(* UnknownBase.  known: what the values inside are.                        *)
ProjectParts(parts, values, known) ==
  [k \in DOMAIN parts |->
    IF k \in DOMAIN values /\ values[k] # None THEN Some(known[<<parts[k].type, values[k][1]>>]) ELSE None]
Project(types, typed, known) ==
  LET t == typed[1]
      v == typed[2]
  IN  CASE t.kind = "Ref"        -> known[<<types[t.name], v>>]
        [] t.kind = "Sequence"   ->
             Struct(ProjectParts(t.root, v.root, known), ProjectParts(t.more, v.more, known))
        [] t.kind = "Choice"     ->
             IF v[1] \in DOMAIN Parts(t) THEN Tagged(v[1], known[<<Parts(t)[v[1]].type, v[2]>>]) ELSE Unset
        [] t.kind = "Enumerated" ->
             IF PositionOf(t, v) # 0 THEN v ELSE UnknownBase + PositionOf(Later(t), v) - Len(t.root) - 1
        [] t.kind = "ListOf"     -> [k \in DOMAIN v |-> known[<<t.of, v[k]>>]]
        [] OTHER                 -> v
Projection(types, typed, depth) ==
  LET all == Nest(types, typed, depth)
      known[n \in 0 .. depth] ==
        IF n = 0 THEN [x \in all |-> x[2]]
        ELSE LET inner == known[n - 1]
             IN  [x \in all |-> Project(types, x, [y \in Inside(types, x) |-> inner[y]])]
  IN  known[depth][typed]
ProjectionIn(types, c, v) == Projection(types, <<types[c[2]], v>>, MaxDepth)

(* The value of every type of the packages is refused if something in it   *)
(* is not set, or a list has the wrong length, and only then; any other is *)
(* delivered to the same or an earlier version, down to what that knows,   *)
(* and the decoder stops where the message ends, whatever follows.         *)
Delivered ==
  /\ sort = "refused" => ~Sendable
  /\ sort = "whole"   => Sendable
  /\ stage = "end" /\ sort = "whole" /\ Legible =>
       answer = Decoded(ProjectionIn(Here(call), call, Value(call)), size)

(* A message of which the end is missing is never accepted, wherever in    *)
(* the nesting of types it ends.                                           *)
CutIsNoticed == stage = "end" /\ sort = "cut" /\ answer.status # "eof" => ~Legible

Relayed == EncodeIn(Here(call), call, answer.value)

(* What is accepted, of a damaged message too, is a value of the type: a   *)
(* relay that does not refuse to encode it sends that value, to itself and *)
(* to the sender.                                                          *)
RelayAgrees ==
  LET relayed == Relayed
      back    == DecodeIn(There(call), call, relayed.bits)
  IN  stage = "end" /\ answer.status = "ok" /\ relayed.ok =>
        /\ DecodeIn(Here(call), call, relayed.bits) = Decoded(answer.value, Len(relayed.bits))
        /\ back.status = "ok"
        /\ ProjectionIn(Here(call), call, back.value) = answer.value

(* A relay refuses a message with an alternative or an item that it does   *)
(* not know, and no other: it never passes on something else in its place. *)
RelayIsHonest ==
  stage = "end" /\ sort = "whole" /\ Legible /\ answer.status = "ok" =>
    (Relayed.ok <=> Everywhere(Here(call), call, IsKnown))
=============================================================================
