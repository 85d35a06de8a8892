------------------------------ MODULE Analyzer ------------------------------
(***************************************************************************)
(* The analyzer of src/pkg/asn1/analyzer/analyzer.go: it collects the      *)
(* modules of all files into one table, then goes over the types in it,    *)
(* resolves bounds, numbers the items of enumerations and gives inline     *)
(* types a name.                                                           *)
(*                                                                         *)
(* flattenAndResolve and liftIfComposite call each other on the parts of a *)
(* type; they return a type and put entries into the table on their way.   *)
(* Here one operator is the type returned, another the entries in order.   *)
(***************************************************************************)
EXTENDS Parser

VARIABLES
  constants,   \* Constants: from the name of a number to its digits
  types,       \* Types: from the name of a type to the type
  order,       \* Order: the names of the types
  todo         \* of the names declared, those whose types are left to do

analyzerVars == <<constants, types, order, todo>>

Empty == [x \in {} |-> x]
Composites == {"SEQUENCE", "CHOICE", "ENUMERATED", "SEQUENCE OF"}

(* Analyze, its first two loops. Of two numbers of one name the last       *)
(* counts; two types of one name are an error.                             *)
Declared == FlattenSeq([i \in DOMAIN modules |-> modules[i].types])
Numbers == FlattenSeq([i \in DOMAIN modules |-> modules[i].values])
Names(entries) == [i \in DOMAIN entries |-> entries[i].name]
Table(entries, content(_)) ==
  [n \in ToSet(Names(entries)) |->
     content(entries[SelectLastInSeq(entries, LAMBDA e : e.name = n)])]
Collect ==
  /\ phase = "collect"
  /\ constants' = Table(Numbers, LAMBDA e : e.value)
  /\ IF IsInjective(Names(Declared))
       THEN /\ types' = Table(Declared, LAMBDA e : e.type)
            /\ order' = Names(Declared) /\ todo' = Names(Declared)
            /\ phase' = "analyze"
       ELSE phase' = "failed" /\ UNCHANGED <<types, order, todo>>

\* resolveIntBound: a number, or the name of one.
ResolveIntBound(bound) ==
  CASE bound = "" -> "0"
    [] IsNumber(bound) -> Decimal[bound]
    [] bound \in DOMAIN constants -> constants[bound]
    [] OTHER -> "unresolved"

\* Every item that has no number of its own gets that of the one before it plus one.
Numbered(items) ==
  LET value[i \in DOMAIN items] ==
        CASE items[i].given -> items[i].value
          [] ~items[i].given /\ i = 1 -> 0
          [] OTHER -> value[i - 1] + 1
  IN  [i \in DOMAIN items |-> EnumItem(items[i].name, TRUE, value[i])]

\* The bounds a type is read with, at any depth.
RECURSIVE BoundsIn(_)
BoundsIn(t) ==
  CASE t.kind \in {"SEQUENCE", "CHOICE"} ->
         UNION {BoundsIn(t.root[i].type) : i \in DOMAIN t.root}
           \cup UNION {BoundsIn(t.more[i].type) : i \in DOMAIN t.more}
    [] t.kind = "SEQUENCE OF" -> ToSet(t.bounds) \cup BoundsIn(t.of)
    [] "bounds" \in DOMAIN t /\ t.kind # "SEQUENCE OF" -> ToSet(t.bounds)
    [] OTHER -> {}

ResolveBounds(t) == [t EXCEPT !.bounds = [i \in DOMAIN @ |-> ResolveIntBound(@[i])]]

\* Mutant of PartName: the name of the part is taken.
PartNameAlone(name, part) == part

\* The name for the type of a part of another.
PartName(name, part) == name \o "_" \o part

\* What a type is replaced by: an inline composite in a part by a reference.
RECURSIVE FlattenAndResolve(_, _)
LiftIfComposite(name, t) ==
  IF t.kind \in Composites THEN ReferenceType(name) ELSE FlattenAndResolve(name, t)
LiftParts(name, parts) ==
  [i \in DOMAIN parts |->
     [parts[i] EXCEPT !.type = LiftIfComposite(PartName(name, parts[i].name), @)]]
FlattenAndResolve(name, t) ==
  CASE t.kind \in {"SEQUENCE", "CHOICE"} ->
         [t EXCEPT !.root = LiftParts(name, @), !.more = LiftParts(name, @)]
    [] t.kind = "SEQUENCE OF" ->
         [ResolveBounds(t) EXCEPT !.of = FlattenAndResolve(PartName(name, "Element"), @)]
    [] t.kind = "ENUMERATED" ->
         LET items == Numbered(t.root \o t.more)
         IN  [t EXCEPT !.root = SubSeq(items, 1, Len(t.root)),
                       !.more = SubSeq(items, Len(t.root) + 1, Len(items))]
    [] "bounds" \in DOMAIN t /\ t.kind # "SEQUENCE OF" -> ResolveBounds(t)
    [] OTHER -> t

\* The entries this puts into the table: those of the parts of a part first.
RECURSIVE Lifted(_, _)
LiftedPart(name, t) ==
  Lifted(name, t)
    \o (IF t.kind \in Composites THEN <<[name |-> name, type |-> FlattenAndResolve(name, t)]>>
                                 ELSE <<>>)
LiftedParts(name, parts) ==
  FlattenSeq([i \in DOMAIN parts |-> LiftedPart(PartName(name, parts[i].name), parts[i].type)])
Lifted(name, t) ==
  CASE t.kind \in {"SEQUENCE", "CHOICE"} ->
         LiftedParts(name, t.root) \o LiftedParts(name, t.more)
    [] t.kind = "SEQUENCE OF" -> Lifted(PartName(name, "Element"), t.of)
    [] OTHER -> <<>>

(* Analyze, an iteration of its third loop. A bound that is the name of no *)
(* number is an error.                                                     *)
ResolveType ==
  /\ phase = "analyze" /\ todo # <<>>
  /\ LET name == Head(todo)
         lifted == Lifted(name, types[name])
     IN  IF \E b \in BoundsIn(types[name]) : ResolveIntBound(b) = "unresolved"
           THEN phase' = "failed" /\ UNCHANGED <<types, order, todo>>
           ELSE /\ types' = (name :> FlattenAndResolve(name, types[name]))
                              @@ Table(lifted, LAMBDA e : e.type) @@ types
                /\ order' = order \o Names(lifted)
                /\ todo' = Tail(todo)
                /\ UNCHANGED phase
  /\ UNCHANGED constants
AllResolved ==
  /\ phase = "analyze" /\ todo = <<>>
  /\ phase' = "generate"
  /\ UNCHANGED analyzerVars
=============================================================================
