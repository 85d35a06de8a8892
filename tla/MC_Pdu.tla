------------------------------- MODULE MC_Pdu -------------------------------
(***************************************************************************)
(* Messages of both packages, with every named type as a PDU: its least    *)
(* value, every value that differs from the least in one place, and one in *)
(* which as much as possible is present; sent by the same version of the   *)
(* package and by one with a later version of the type, or of one that it  *)
(* refers to.                                                              *)
(***************************************************************************)
EXTENDS Pdu
Ulp == INSTANCE UlpTypes
Ilp == INSTANCE IlpTypes

MCPackages == [ulp |-> Ulp!Types, ilp |-> Ilp!Types]
Times(n, v) == [k \in 1 .. n |-> v]
LeastSize(t) == IF t.sized THEN SizeOf(t.lb) ELSE 0

RECURSIVE Least(_, _)
Least(types, t) ==
  CASE t.kind = "Ref"        -> Least(types, types[t.name])
    [] t.kind = "Sequence"   ->
         Struct([k \in DOMAIN t.root |-> IF t.root[k].optional THEN None ELSE Some(Least(types, t.root[k].type))],
                [k \in DOMAIN t.more |-> None])
    [] t.kind = "Choice"     -> Tagged(1, Least(types, t.root[1].type))
    [] t.kind = "Enumerated" -> t.root[1].value
    [] t.kind = "ListOf"     -> Times(LeastSize(t), Least(types, t.of))
    [] t.kind = "Boolean"    -> FALSE
    [] OTHER                 -> "least"

RECURSIVE Deviations(_, _)
Deviations(types, t) ==
  LET least == Least(types, t)
  IN  CASE t.kind = "Ref"        -> Deviations(types, types[t.name])
        [] t.kind = "Sequence"   ->
             UNION {IF t.root[k].optional
                      THEN {[least EXCEPT !.root[k] = Some(Least(types, t.root[k].type))]}
                      ELSE {[least EXCEPT !.root[k] = Some(v)] : v \in Deviations(types, t.root[k].type)} :
                    k \in DOMAIN t.root}
             \union {[least EXCEPT !.more[k] = Some(Least(types, t.more[k].type))] : k \in DOMAIN t.more}
        [] t.kind = "Choice"     ->
             {Unset} \union {Tagged(k, Least(types, Parts(t)[k].type)) : k \in DOMAIN Parts(t)}
             \union {Tagged(1, v) : v \in Deviations(types, t.root[1].type)}
        [] t.kind = "Enumerated" -> {Parts(t)[k].value : k \in DOMAIN Parts(t)} \union {UnknownBase}
        [] t.kind = "ListOf"     ->
             LET n == LeastSize(t)
             IN  {Times(n + 1, Least(types, t.of))} \union
                 IF n = 0 THEN {} ELSE
                   {Times(n - 1, Least(types, t.of))}
                   \union {[least EXCEPT ![n] = v] : v \in Deviations(types, t.of)}
        [] t.kind = "Boolean"    -> {TRUE}
        [] OTHER                 -> IF IsEmpty(t) THEN {} ELSE {"greatest"}

(* Everything there, the last alternative and item, down to a depth. *)
RECURSIVE Newest(_, _, _)
Newest(types, t, depth) ==
  LET inside(part) == IF depth = 0 THEN Least(types, part) ELSE Newest(types, part, depth - 1)
      all(parts) == [k \in DOMAIN parts |-> Some(inside(parts[k].type))]
      last == Len(Parts(t))
  IN  CASE t.kind = "Ref"        -> Newest(types, types[t.name], depth)
        [] t.kind = "Sequence"   -> Struct(all(t.root), all(t.more))
        [] t.kind = "Choice"     -> Tagged(last, inside(Parts(t)[last].type))
        [] t.kind = "Enumerated" -> Parts(t)[last].value
        [] t.kind = "ListOf"     ->
             Times(IF t.sized /\ t.lb = t.ub THEN LeastSize(t) ELSE LeastSize(t) + 1, inside(t.of))
        [] t.kind = "Boolean"    -> TRUE
        [] OTHER                 -> IF IsEmpty(t) THEN "least" ELSE "greatest"

(* The extensible types that a type is, or names in one of its parts. *)
Named(t) ==
  CASE t.kind \in {"Sequence", "Choice"} ->
         {Parts(t)[k].type.name : k \in {j \in DOMAIN Parts(t) : Parts(t)[j].type.kind = "Ref"}}
    [] t.kind = "ListOf" -> IF t.of.kind = "Ref" THEN {t.of.name} ELSE {}
    [] OTHER -> {}
Extensible(types, name) ==
  types[name].kind \in {"Sequence", "Choice", "Enumerated"} /\ types[name].extensible

\* The shapes of a package, and those of later versions of its types, are
\* nested no deeper than this.
MaxNesting == 6
Within(t) ==
  CASE t.kind \in {"Sequence", "Choice"} -> {Parts(t)[k].type : k \in DOMAIN Parts(t)}
    [] t.kind = "ListOf"                 -> {t.of}
    [] OTHER                             -> {}
ShapesOf(types) ==
  LET named == UNION {{types[name]} \union IF Extensible(types, name) THEN {Later(types[name])} ELSE {} :
                      name \in DOMAIN types}
      within[n \in 0 .. MaxNesting] ==
        IF n = 0 THEN named
        ELSE LET outer == within[n - 1] IN outer \union UNION {Within(t) : t \in outer}
  IN  within[MaxNesting]
AllShapes == [package \in DOMAIN MCPackages |-> ShapesOf(MCPackages[package])]

\* The values of a type that need its last addition, alternative or item.
Latest(types, t) ==
  LET n == Len(Parts(t))
  IN  CASE t.kind = "Sequence"   -> [Least(types, t) EXCEPT !.more[Len(t.more)] = Some(FALSE)]
        [] t.kind = "Choice"     -> Tagged(n, FALSE)
        [] t.kind = "Enumerated" -> Parts(t)[n].value

CallsOf(package, depth) ==
  LET types == MCPackages[package]
      laterOf(name) == [types EXCEPT ![name] = Later(@)]
  IN  UNION {{<<package, root, "", v>> :
                v \in {Least(types, types[root]), Newest(types, types[root], depth)} \union Deviations(types, types[root])}
             \union (IF Extensible(types, root)
                       THEN {<<package, root, root, Latest(laterOf(root), Later(types[root]))>>} ELSE {})
             \union {<<package, root, name, Newest(laterOf(name), laterOf(name)[root], depth)>> :
                       name \in {n \in Named(types[root]) \union {root} : Extensible(types, n)}} :
             root \in DOMAIN types}
MCCalls == CallsOf("ulp", 1) \union CallsOf("ilp", 1)
MCShapes == AllShapes
MCTails == {<<Token("bit", FALSE)>>}
=============================================================================
