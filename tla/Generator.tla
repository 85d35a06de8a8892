------------------------------ MODULE Generator ------------------------------
(***************************************************************************)
(* The generator of src/pkg/generator/generator.go: which Go types, with   *)
(* which code, it emits for the table of the analyzer. The text itself is  *)
(* abstracted to the shape of the type (module Shapes); what the methods   *)
(* of a shape do is the subject of the codec modules. Numbers, which are   *)
(* emitted as Go constants that no method uses, are left out.              *)
(***************************************************************************)
EXTENDS Analyzer
Go == INSTANCE Shapes

VARIABLE
  emitted   \* the declarations of the file, in order: a name and a shape each

(* ToGoIdent: words are capitalised and joined; the minus of a negative    *)
(* drift is spelt out; no identifier begins with a digit.                  *)
SmallLetters == "abcdefghijklmnopqrstuvwxyz"
Upper(c) ==
  IF c \in Chars(SmallLetters)
    THEN LET i == CHOOSE i \in 1..26 : SubSeq(SmallLetters, i, i) = c
         IN  SubSeq("ABCDEFGHIJKLMNOPQRSTUVWXYZ", i, i)
    ELSE c
ToGoIdent(s) ==
  LET char(i) == SubSeq(s, i, i)
      negative(i) == i > 5 /\ SubSeq(s, i - 5, i) = "Drift-"
      separator(i) == char(i) \in {"-", "_"} /\ ~negative(i)
      part(i) == CASE negative(i) -> "Neg"
                   [] separator(i) -> ""
                   [] ~separator(i) /\ (i = 1 \/ (i > 1 /\ separator(i - 1))) -> Upper(char(i))
                   [] OTHER -> char(i)
      ident == FlattenSeq([i \in 1..Len(s) |-> part(i)])
  IN  CASE s = "" -> ""
        [] s # "" /\ SubSeq(ident, 1, 1) \in Digits -> "X" \o ident
        [] OTHER -> ident

\* The bounds emitted: those of the type, or the ones for a type without.
BoundsOf(t, lb, ub) == IF t.bounds = <<>> THEN <<lb, ub>> ELSE t.bounds

\* Types whose methods are calls of package uper, named or in a component;
\* an alphabet is emitted, and passed to the calls, for a named type only.
LeafOf(t, alphabet) ==
  LET any == BoundsOf(t, "0", "65535")
      text == BoundsOf(t, "1", "255")
  IN  CASE t.kind = "BOOLEAN" -> Go!Boolean
        [] t.kind = "NULL" -> Go!Null
        [] t.kind = "UTCTime" -> Go!UTCTime
        [] t.kind = "INTEGER" -> IF t.bounds = <<>> THEN Go!Unbounded
                                 ELSE Go!Integer(t.bounds[1], t.bounds[2])
        [] t.kind = "BIT" -> Go!BitString(any[1], any[2])
        [] t.kind = "OCTET" -> Go!OctetString(any[1], any[2])
        [] t.kind = "IA5String" -> Go!IA5String(text[1], text[2])
        [] t.kind = "VisibleString" -> Go!VisibleString(alphabet, text[1], text[2])

\* goTypeStr, emitValueEncode and emitValueDecode: the type of a component
\* or an element. An inline composite gets a Go type without methods.
ComponentOf(t) ==
  CASE t.kind = "Reference" -> Go!Ref(ToGoIdent(t.name))
    [] t.kind \in Composites -> Go!Interface
    [] OTHER -> LeafOf(t, <<>>)
Fields(parts) ==
  [i \in DOMAIN parts |-> Component(ToGoIdent(parts[i].name), ComponentOf(parts[i].type),
                                    parts[i].optional)]
\* Components added after the root are pointers in a SEQUENCE.
Pointers(parts) == [i \in DOMAIN parts |-> [parts[i] EXCEPT !.optional = TRUE]]
Items(items) ==
  [i \in DOMAIN items |-> Go!Item(ToGoIdent(items[i].name), items[i].value)]

\* emitTypeDef: there is no code for a type that is only another name.
HasCode(t) == t.kind # "Reference"
ShapeOf(t) ==
  LET extended(kind, root, more) ==
        [kind |-> kind, extensible |-> t.extensible, root |-> root, more |-> more]
  IN  CASE t.kind = "SEQUENCE" ->
             extended("Sequence", Fields(t.root), Pointers(Fields(t.more)))
        [] t.kind = "CHOICE" -> extended("Choice", Fields(t.root), Fields(t.more))
        [] t.kind = "ENUMERATED" -> extended("Enumerated", Items(t.root), Items(t.more))
        [] t.kind = "SEQUENCE OF" ->
             IF t.bounds = <<>> THEN Go!ListOf(ComponentOf(t.of))
             ELSE Go!SizedListOf(ComponentOf(t.of), t.bounds[1], t.bounds[2])
        [] t.kind = "VisibleString" -> LeafOf(t, t.alphabet)
        [] OTHER -> LeafOf(t, <<>>)

(* Generate: every type in the order of the table, or an error.            *)
Generate ==
  /\ phase = "generate"
  /\ IF \A n \in ToSet(order) : HasCode(types[n])
       THEN /\ emitted' = [i \in DOMAIN order |->
                 [name |-> ToGoIdent(order[i]), shape |-> ShapeOf(types[order[i]])]]
            /\ phase' = "done"
       ELSE phase' = "failed" /\ UNCHANGED emitted
=============================================================================
