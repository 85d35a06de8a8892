------------------------------- MODULE Shapes -------------------------------
(***************************************************************************)
(* What the Go code generated for an ASN.1 type says about the type: its   *)
(* shape. There is one constructor for each form of code generator.go      *)
(* emits. A name is a Go identifier. A bound is the decimal the code       *)
(* writes, as a string: bounds reach beyond the integers of TLC.           *)
(***************************************************************************)

LOCAL INSTANCE Sequences
LOCAL INSTANCE Naturals

\* The types whose methods are one call of package uper, or none.
Boolean == [kind |-> "Boolean"]
Null == [kind |-> "Null"]
UTCTime == [kind |-> "UTCTime"]
Unbounded == [kind |-> "Unbounded"]
Integer(lb, ub) == [kind |-> "Integer", lb |-> lb, ub |-> ub]
BitString(lb, ub) == [kind |-> "BitString", lb |-> lb, ub |-> ub]
OctetString(lb, ub) == [kind |-> "OctetString", lb |-> lb, ub |-> ub]
IA5String(lb, ub) == [kind |-> "IA5String", lb |-> lb, ub |-> ub]
\* The alphabet is a sequence of items; the empty one stands for nil.
VisibleString(alphabet, lb, ub) ==
  [kind |-> "VisibleString", alphabet |-> alphabet, lb |-> lb, ub |-> ub]

\* A named type, through its methods.
Ref(name) == [kind |-> "Ref", name |-> name]

\* What goTypeStr makes of an inline composite: a Go type without methods.
Interface == [kind |-> "Interface"]

\* A component of a struct; an optional one is a pointer.
Field(name, type) == [name |-> name, type |-> type, optional |-> FALSE]
Optional(name, type) == [name |-> name, type |-> type, optional |-> TRUE]

\* SEQUENCE and CHOICE: what is in the root, and what was added after "...".
Sequence(root) ==
  [kind |-> "Sequence", extensible |-> FALSE, root |-> root, more |-> <<>>]
ExtSequence(root, more) ==
  [kind |-> "Sequence", extensible |-> TRUE, root |-> root, more |-> more]
Choice(root) ==
  [kind |-> "Choice", extensible |-> FALSE, root |-> root, more |-> <<>>]
ExtChoice(root, more) ==
  [kind |-> "Choice", extensible |-> TRUE, root |-> root, more |-> more]

\* ENUMERATED: names and their Go constants, numbered from 0 unless given.
Item(name, value) == [name |-> name, value |-> value]
EnumeratedAt(root) ==
  [kind |-> "Enumerated", extensible |-> FALSE, root |-> root, more |-> <<>>]
ExtEnumeratedAt(root, more) ==
  [kind |-> "Enumerated", extensible |-> TRUE, root |-> root, more |-> more]
LOCAL Numbered(names, from) ==
  [i \in DOMAIN names |-> Item(names[i], from + i - 1)]
Enumerated(root) == EnumeratedAt(Numbered(root, 0))
ExtEnumerated(root, more) ==
  ExtEnumeratedAt(Numbered(root, 0), Numbered(more, Len(root)))

\* SEQUENCE OF: with the bounds of its size, or with a length determinant.
ListOf(type) == [kind |-> "ListOf", of |-> type, sized |-> FALSE]
SizedListOf(type, lb, ub) ==
  [kind |-> "ListOf", of |-> type, sized |-> TRUE, lb |-> lb, ub |-> ub]
=============================================================================
