------------------------------- MODULE Parser -------------------------------
(***************************************************************************)
(* The parser of src/pkg/asn1/parser/parser.go, over the tokens of one     *)
(* file.                                                                   *)
(*                                                                         *)
(* The methods that call each other are one machine with a stack: `goal`   *)
(* is the loop or method control is in, and `stack` has the module and the *)
(* types under construction, outermost first. A method without a loop is   *)
(* one step, and so is an iteration of a loop. Symbols exported and        *)
(* imported, and tag defaults, are parsed and used by nothing: they are    *)
(* passed over. A number is that of its decimal digits, of any size.       *)
(***************************************************************************)
EXTENDS Lexer, SequencesExt

VARIABLES
  at,       \* pos of the Parser: the index of currTok
  goal,     \* where control is
  stack,    \* what is under construction: a node, and the name of its part
  result,   \* the type that parseType has returned
  modules   \* the modules parsed

parserVars == <<at, goal, stack, result, modules>>

(***************************************************************************)
(* The nodes of the tree, after ast.go. A range or a size is the pair of   *)
(* bounds as written, or is empty where there is none.                     *)
(***************************************************************************)
Simple(kind) == [kind |-> kind]
Ranged(kind, bounds) == [kind |-> kind, bounds |-> bounds]
ReferenceType(name) == [kind |-> "Reference", name |-> name]
VisibleStringType == [kind |-> "VisibleString", bounds |-> <<>>, alphabet |-> <<>>]
Composite(kind) ==
  [kind |-> kind, root |-> <<>>, extensible |-> FALSE, more |-> <<>>]
SequenceOfType(bounds, of) == [kind |-> "SEQUENCE OF", bounds |-> bounds, of |-> of]
Component(name, type, optional) == [name |-> name, type |-> type, optional |-> optional]
EnumItem(name, given, value) == [name |-> name, given |-> given, value |-> value]
Module(name) == [kind |-> "Module", name |-> name, types |-> <<>>, values |-> <<>>]
None == Simple("None")

(***************************************************************************)
(* currTok and the tokens that follow it; at its end a file has EOF.       *)
(***************************************************************************)
Tok(p) == IF p \in DOMAIN tokens THEN tokens[p] ELSE [type |-> "EOF", text |-> ""]
Is(p, type) == Tok(p).type = type
Text(p) == Tok(p).text
Are(p, types) == \A i \in DOMAIN types : Is(p + i - 1, types[i])
Comma(p) == IF Is(p, ",") THEN p + 1 ELSE p
FirstOf(types, p) ==
  CHOOSE q \in p..Len(tokens) + 1 :
    Tok(q).type \in types /\ \A k \in p..(q - 1) : Tok(k).type \notin types

\* strconv.ParseInt and Atoi: is this a number, and which.
IsNumber(s) ==
  LET digits == IF s # "" /\ SubSeq(s, 1, 1) = "-" THEN SubSeq(s, 2, Len(s)) ELSE s
  IN  digits # "" /\ Chars(digits) \subseteq Digits
Decimal[s \in STRING] ==
  CASE SubSeq(s, 1, 1) = "-" ->
         LET d == Decimal[SubSeq(s, 2, Len(s))] IN IF d = "0" THEN d ELSE "-" \o d
    [] Len(s) > 1 /\ SubSeq(s, 1, 1) = "0" -> Decimal[SubSeq(s, 2, Len(s))]
    [] OTHER -> s
Atoi[s \in STRING] ==
  CASE s = "" -> 0
    [] s # "" /\ SubSeq(s, 1, 1) = "-" -> -Atoi[SubSeq(s, 2, Len(s))]
    [] OTHER -> 10 * Atoi[SubSeq(s, 1, Len(s) - 1)]
                + (CHOOSE d \in 0..9 : ToString(d) = SubSeq(s, Len(s), Len(s)))

(***************************************************************************)
(* What is read without a loop: the bounds found and the position after    *)
(* them, which is 0 for an error, where no token is.                       *)
(***************************************************************************)
Span(bounds, next) == [bounds |-> bounds, next |-> next]
Wrong == Span(<<>>, 0)

\* parseRangeConstraint: (min .. max) or (fixedVal).
RangeConstraint(p) ==
  CASE Is(p, "(") /\ Is(p + 2, "..") /\ Is(p + 4, ")") ->
         Span(<<Text(p + 1), Text(p + 3)>>, p + 5)
    [] Is(p, "(") /\ Is(p + 2, ")") -> Span(<<Text(p + 1), Text(p + 1)>>, p + 3)
    [] OTHER -> Wrong

\* A constraint that may be there: (SIZE (...)), or (...) of an INTEGER.
SizeConstraint(p) ==
  IF Is(p, "(")
    THEN LET r == RangeConstraint(p + 2)
         IN  IF Is(p + 1, "SIZE") /\ Is(r.next, ")") THEN Span(r.bounds, r.next + 1)
                                                     ELSE Wrong
    ELSE Span(<<>>, p)
IntegerConstraint(p) == IF Is(p, "(") THEN RangeConstraint(p) ELSE Span(<<>>, p)

\* The rest of SEQUENCE (SIZE (...)) OF or SEQUENCE SIZE (...) OF, up to OF.
SequenceOfRest(p) ==
  LET r == IF Is(p, "SIZE") THEN RangeConstraint(p + 1) ELSE SizeConstraint(p)
  IN  IF Is(r.next, "OF") THEN Span(r.bounds, r.next + 1) ELSE Wrong

(***************************************************************************)
(* Steps of the machine.                                                   *)
(***************************************************************************)
Fail ==
  /\ phase' = "failed"
  /\ UNCHANGED <<lexerVars, parserVars>>
Continue(p, next) ==
  /\ at' = p /\ goal' = next
  /\ UNCHANGED <<phase, lexerVars>>
Top == Last(stack)
Node == Top.node
Push(node) == stack' = Append(stack, [node |-> node, name |-> ""])
Rebuild(node, name) == stack' = Append(Front(stack), [node |-> node, name |-> name])
\* A type is complete: parseType returns, from a method that has no frame ...
Return(type, p) ==
  /\ result' = type
  /\ Continue(p, "returned")
  /\ UNCHANGED <<stack, modules>>
\* ... or from one that has.
Complete(type, p) ==
  /\ result' = type /\ stack' = Front(stack)
  /\ Continue(p, "returned")
  /\ UNCHANGED modules
In(loop) == phase = "parse" /\ goal = loop

(* ParseFile and the beginning of parseModule, up to the exports.          *)
HeaderEnd(p) ==
  CASE Are(p, <<"IDENT", "DEFINITIONS", "::=", "BEGIN">>) -> p + 4
    [] Are(p, <<"IDENT", "DEFINITIONS", "AUTOMATIC", "TAGS", "::=", "BEGIN">>) -> p + 6
    [] OTHER -> 0
ExportsEnd(p) == IF Is(p, "EXPORTS") THEN FirstOf({";", "EOF"}, p) ELSE p - 1
ParseModule ==
  /\ In("file") /\ ~Is(at, "EOF")
  /\ LET p == HeaderEnd(at)
         q == ExportsEnd(p)
     IN  IF p = 0 \/ (Is(p, "EXPORTS") /\ Is(q, "EOF"))
           THEN Fail
           ELSE /\ Push(Module(Text(at)))
                /\ IF Is(q + 1, "IMPORTS") THEN Continue(q + 2, "imports")
                                           ELSE Continue(q + 1, "assignments")
                /\ UNCHANGED <<result, modules>>
ParseFile ==
  /\ In("file") /\ Is(at, "EOF")
  /\ phase' = "next" /\ tokens' = <<>>
  /\ UNCHANGED <<source, pos, parserVars>>

(* Mutant of ParseImport: FROM and the name after it stay where they are.  *)
ParseImportStays ==
  /\ In("imports")
  /\ LET q == FirstOf({"FROM", ";", "EOF"}, at)
     IN  CASE Is(q, "FROM") -> Continue(q, "imports")
           [] Is(q, ";") -> Continue(q + 1, "assignments")
           [] OTHER -> Fail
  /\ UNCHANGED <<stack, result, modules>>

(* The loop over IMPORTS: the name after FROM is any token.                *)
ParseImport ==
  /\ In("imports")
  /\ LET q == FirstOf({"FROM", ";", "EOF"}, at)
     IN  CASE Is(q, "FROM") -> Continue(q + 2, "imports")
           [] Is(q, ";") -> Continue(q + 1, "assignments")
           [] OTHER -> Fail
  /\ UNCHANGED <<stack, result, modules>>

(* The loop over assignments: of a number, or of a type.                   *)
ParseAssignment ==
  /\ In("assignments") /\ Tok(at).type \notin {"END", "EOF"}
  /\ IF Are(at + 1, <<"INTEGER", "::=">>)
       THEN IF IsNumber(Text(at + 3))
              THEN /\ Rebuild([Node EXCEPT !.values = Append(@,
                        [name |-> Text(at), value |-> Decimal[Text(at + 3)]])], "")
                   /\ Continue(at + 4, "assignments")
                   /\ UNCHANGED <<result, modules>>
              ELSE Fail
       ELSE IF Is(at + 1, "::=")
              THEN /\ Rebuild(Node, Text(at))
                   /\ Continue(at + 2, "type")
                   /\ UNCHANGED <<result, modules>>
              ELSE Fail

(* Mutant of EndModule: the end of the file ends a module as well.         *)
EndModuleAtEOF ==
  /\ In("assignments") /\ Tok(at).type \in {"END", "EOF"}
  /\ modules' = Append(modules, Node) /\ stack' = Front(stack)
  /\ Continue(IF Is(at, "END") THEN at + 1 ELSE at, "file")
  /\ UNCHANGED result

EndModule ==
  /\ In("assignments") /\ Tok(at).type \in {"END", "EOF"}
  /\ IF Is(at, "END")
       THEN /\ modules' = Append(modules, Node) /\ stack' = Front(stack)
            /\ Continue(at + 1, "file")
            /\ UNCHANGED result
       ELSE Fail

(* parseType: the types that need no loop ...                              *)
ParseSimple ==
  /\ In("type")
  /\ \/ /\ Tok(at).type \in {"BOOLEAN", "UTCTime", "NULL"}
        /\ Return(Simple(Tok(at).type), at + 1)
     \/ /\ Is(at, "IDENT")
        /\ Return(ReferenceType(Text(at)), at + 1)
ParseRanged ==
  /\ In("type") /\ Tok(at).type \in {"INTEGER", "OCTET", "IA5String"}
  /\ LET r == CASE Is(at, "INTEGER") -> IntegerConstraint(at + 1)
                [] Is(at, "IA5String") -> SizeConstraint(at + 1)
                [] Are(at, <<"OCTET", "STRING_KW">>) -> SizeConstraint(at + 2)
                [] OTHER -> Wrong
     IN  IF r.next = 0 THEN Fail ELSE Return(Ranged(Tok(at).type, r.bounds), r.next)

(* ... and those that do.                                                  *)
Open(node, p, next) ==
  /\ Push(node) /\ Continue(p, next)
  /\ UNCHANGED <<result, modules>>
ParseSequenceOrSequenceOf ==
  /\ In("type") /\ Is(at, "SEQUENCE")
  /\ CASE Is(at + 1, "{") -> Open(Composite("SEQUENCE"), at + 2, "parts")
       [] Tok(at + 1).type \in {"(", "SIZE", "OF"} ->
            LET r == SequenceOfRest(at + 1)
            IN  IF r.next = 0 THEN Fail
                ELSE Open(SequenceOfType(r.bounds, None), r.next, "type")
       [] OTHER -> Fail
ParseChoiceOrEnumerated ==
  /\ In("type") /\ Tok(at).type \in {"CHOICE", "ENUMERATED"}
  /\ IF Is(at + 1, "{") THEN Open(Composite(Tok(at).type), at + 2, "parts") ELSE Fail
ParseBitString ==
  /\ In("type") /\ Is(at, "BIT")
  /\ CASE Are(at, <<"BIT", "STRING_KW", "{">>) -> Open(None, at + 3, "bits")
       [] Are(at, <<"BIT", "STRING_KW">>) /\ ~Is(at + 2, "{") ->
            LET r == SizeConstraint(at + 2)
            IN  IF r.next = 0 THEN Fail ELSE Return(Ranged("BIT", r.bounds), r.next)
       [] OTHER -> Fail
ParseVisibleString ==
  /\ In("type") /\ Is(at, "VisibleString")
  /\ Open(VisibleStringType, at + 1, "constraints")
NoType ==
  /\ In("type")
  /\ Tok(at).type \notin {"SEQUENCE", "CHOICE", "ENUMERATED", "INTEGER", "BOOLEAN", "BIT",
                          "OCTET", "IA5String", "VisibleString", "UTCTime", "NULL", "IDENT"}
  /\ Fail

(* Mutant of Ellipsis: the three dots stay where they are. *)
EllipsisStays ==
  /\ In("parts") /\ Is(at, "...")
  /\ Rebuild([Node EXCEPT !.extensible = TRUE], "")
  /\ Continue(at, "parts")
  /\ UNCHANGED <<result, modules>>

(* The loop between the braces of SEQUENCE, CHOICE and ENUMERATED.         *)
Ellipsis ==
  /\ In("parts") /\ Is(at, "...")
  /\ Rebuild([Node EXCEPT !.extensible = TRUE], "")
  /\ Continue(Comma(at + 1), "parts")
  /\ UNCHANGED <<result, modules>>

(* Mutant of Add: what comes after "..." goes where the rest is.           *)
AddToRoot(part) == [Node EXCEPT !.root = Append(@, part)]

Add(part) ==
  IF Node.extensible THEN [Node EXCEPT !.more = Append(@, part)]
                     ELSE [Node EXCEPT !.root = Append(@, part)]
ParsePart ==
  /\ In("parts") /\ Node.kind # "ENUMERATED" /\ Tok(at).type \notin {"...", "}", "EOF"}
  /\ Rebuild(Node, Text(at))
  /\ Continue(at + 1, "type")
  /\ UNCHANGED <<result, modules>>
ParseItem ==
  /\ In("parts") /\ Node.kind = "ENUMERATED" /\ Tok(at).type \notin {"...", "}", "EOF"}
  /\ LET Put(item, p) == /\ Rebuild(Add(item), "")
                         /\ Continue(Comma(p), "parts")
                         /\ UNCHANGED <<result, modules>>
     IN  CASE ~Is(at + 1, "(") -> Put(EnumItem(Text(at), FALSE, 0), at + 1)
           [] Is(at + 1, "(") /\ IsNumber(Text(at + 2)) /\ Is(at + 3, ")") ->
                Put(EnumItem(Text(at), TRUE, Atoi[Text(at + 2)]), at + 4)
           [] OTHER -> Fail
EndParts ==
  /\ In("parts") /\ Tok(at).type \in {"}", "EOF"}
  /\ IF Is(at, "}") THEN Complete(Node, at + 1) ELSE Fail

(* A type has been returned to the method that called parseType.           *)
DeliverAssignment ==
  /\ In("returned") /\ Node.kind = "Module"
  /\ Rebuild([Node EXCEPT !.types = Append(@, [name |-> Top.name, type |-> result])], "")
  /\ Continue(at, "assignments")
  /\ result' = None /\ UNCHANGED modules
DeliverPart ==
  /\ In("returned") /\ Node.kind \in {"SEQUENCE", "CHOICE"}
  /\ LET optional == Node.kind = "SEQUENCE" /\ Is(at, "OPTIONAL")
     IN  /\ Rebuild(Add(Component(Top.name, result, optional)), "")
         /\ Continue(Comma(IF optional THEN at + 1 ELSE at), "parts")
  /\ result' = None /\ UNCHANGED modules
DeliverElement ==
  /\ In("returned") /\ Node.kind = "SEQUENCE OF"
  /\ Complete([Node EXCEPT !.of = result], at)

(* The loop over the named bits of a BIT STRING, which nothing uses.       *)
ParseNamedBit ==
  /\ In("bits") /\ Tok(at).type \notin {"}", "EOF"}
  /\ IF Is(at + 1, "(") /\ IsNumber(Text(at + 2)) /\ Is(at + 3, ")")
       THEN Continue(Comma(at + 4), "bits") /\ UNCHANGED <<stack, result, modules>>
       ELSE Fail
EndNamedBits ==
  /\ In("bits") /\ Tok(at).type \in {"}", "EOF"}
  /\ LET r == SizeConstraint(at + 1)
     IN  IF Is(at, "}") /\ r.next # 0 THEN Complete(Ranged("BIT", r.bounds), r.next)
                                      ELSE Fail

(* parseVisibleString: the loop over its constraints ...                   *)
ParseConstraint ==
  /\ In("constraints") /\ Is(at, "(")
  /\ LET r == RangeConstraint(at + 2)
     IN  CASE Are(at + 1, <<"FROM", "(">>) ->
                /\ Continue(at + 3, "alphabet")
                /\ UNCHANGED <<stack, result, modules>>
           [] Is(at + 1, "SIZE") /\ Is(r.next, ")") ->
                /\ Rebuild([Node EXCEPT !.bounds = r.bounds], "")
                /\ Continue(r.next + 1, "constraints")
                /\ UNCHANGED <<result, modules>>
           [] Is(at + 1, ")") ->
                /\ Continue(at + 2, "constraints")
                /\ UNCHANGED <<stack, result, modules>>
           [] OTHER -> Fail
EndConstraints ==
  /\ In("constraints") /\ ~Is(at, "(")
  /\ Complete(Node, at)

(* ... and the loop over the items of an alphabet. An iteration that meets *)
(* neither a string nor a bar leaves the parser where it was.              *)
Pipe(p) == IF Is(p, "|") THEN p + 1 ELSE p
ParseAlphabetItem ==
  /\ In("alphabet") /\ Tok(at).type \notin {")", "EOF"}
  /\ LET range == Are(at, <<"STRING", "..">>)
         item == IF range THEN Text(at) \o "-" \o Text(at + 2) ELSE Text(at)
     IN  IF Is(at, "STRING")
           THEN /\ Rebuild([Node EXCEPT !.alphabet = Append(@, item)], "")
                /\ Continue(Pipe(IF range THEN at + 3 ELSE at + 1), "alphabet")
           ELSE /\ Continue(Pipe(at), "alphabet")
                /\ UNCHANGED stack
  /\ UNCHANGED <<result, modules>>
EndAlphabet ==
  /\ In("alphabet") /\ Tok(at).type \in {")", "EOF"}
  /\ IF Are(at, <<")", ")">>)
       THEN Continue(at + 2, "constraints") /\ UNCHANGED <<stack, result, modules>>
       ELSE Fail

Parse ==
  \/ ParseModule \/ ParseFile \/ ParseImport \/ ParseAssignment \/ EndModule
  \/ ParseSimple \/ ParseRanged \/ ParseSequenceOrSequenceOf
  \/ ParseChoiceOrEnumerated \/ ParseBitString \/ ParseVisibleString \/ NoType
  \/ Ellipsis \/ ParsePart \/ ParseItem \/ EndParts
  \/ DeliverAssignment \/ DeliverPart \/ DeliverElement
  \/ ParseNamedBit \/ EndNamedBits
  \/ ParseConstraint \/ EndConstraints \/ ParseAlphabetItem \/ EndAlphabet

(***************************************************************************)
(* A lexer and a parser for a text: main makes both anew for each file.    *)
(***************************************************************************)
ReadFirst(text) ==
  /\ phase = "lex" /\ source = text /\ pos = 1 /\ tokens = <<>>
  /\ at = 1 /\ goal = "file" /\ stack = <<>> /\ result = None /\ modules = <<>>
ReadAnother(text) ==
  /\ phase = "next" /\ phase' = "lex"
  /\ source' = text /\ pos' = 1 /\ at' = 1
  /\ UNCHANGED <<tokens, goal, stack, result, modules>>

(***************************************************************************)
(* Properties.                                                             *)
(***************************************************************************)

\* What the command does with its lexer and its parser, by itself: on one
\* text after another, of any content, until it goes on to something else.
ReadInit == \E text \in Texts : ReadFirst(text)
Otherwise ==
  /\ phase \notin {"lex", "parse"} /\ phase' \notin {"lex", "parse", "next"}
  /\ UNCHANGED <<lexerVars, parserVars>>
ReadNext ==
  \/ Tokenize /\ UNCHANGED parserVars
  \/ Parse
  \/ \E text \in Texts : ReadAnother(text)
  \/ Otherwise
ReadSpec == ReadInit /\ [][ReadNext]_<<phase, lexerVars, parserVars>>

\* What a comment and a string are: the characters of the text from p on that
\* are in neither a comment nor a blank. A string that is not closed is, at the
\* end. Letters and digits in a row are taken together.
Characters(p, q) == [i \in 1..q - p |-> Ch(p + i - 1)]
FirstIn(places, p) == CHOOSE q \in places : q >= p /\ \A k \in p..q - 1 : k \notin places
Pairs == {q \in 1..Len(source) : Here(q, 2) = "--"}
Ends(chars) == {q \in 1..Len(source) + 1 : Ch(q) \in chars \cup {NoChar}}
Kept[p \in Positions] ==
  LET alnum == Letters \cup Digits
      word == Past(p, alnum)
      comment == FirstIn(Pairs \cup Ends({"\n"}), p + 2)
      string == FirstIn(Ends({Quote}), p + 1)
  IN  CASE Ch(p) = NoChar -> <<>>
        [] Here(p, 2) = "--" -> Kept[IF comment \in Pairs THEN comment + 2 ELSE comment]
        [] Ch(p) \in Blanks -> Kept[p + 1]
        [] Ch(p) \in alnum -> Characters(p, word) \o Kept[word]
        [] Ch(p) = Quote -> Characters(p, string) \o <<Quote>> \o Kept[string + 1]
        [] OTHER -> <<Ch(p)>> \o Kept[p + 1]
Spelling(t) ==
  LET text == [i \in 1..Len(t.text) |-> SubSeq(t.text, i, i)]
  IN  IF t.type = "STRING" THEN <<Quote>> \o text \o <<Quote>> ELSE text
JustLexed == phase = "parse" /\ at = 1 /\ goal = "file"

\* The tokens of a file that is accepted are its text, without blanks and
\* comments: a comment ends at the next two hyphens or at the end of its
\* line, as skipComment says (lexer.go:68).
CommentsEndAsDocumented ==
  JustLexed => FlattenSeq([i \in DOMAIN tokens |-> Spelling(tokens[i])]) = Kept[1]

\* So it is where no comment is opened by more than two hyphens. With three,
\* the second and the third close it again, and its text becomes tokens.
TokensAreTheText ==
  (\A p \in 1..Len(source) : Here(p, 3) # "---") => CommentsEndAsDocumented

\* The one loop of the parser that can turn without moving: over the items
\* of an alphabet, at a token it does not know (parser.go:582).
Stuck == In("alphabet") /\ Tok(at).type \notin {"STRING", "|", ")", "EOF"}

\* How far a step gets: to a later token, at most to the one after EOF, which
\* is EOF again (nextToken, parser.go:43); or, where it is, a type is completed,
\* or handed to the method that waits for it, which the rank counts down.
Rank == 2 * Len(stack) + (IF goal = "returned" THEN 1 ELSE 0)
Forward ==
  /\ at' \in at..Len(tokens) + 1
  /\ at' > at \/ Rank' < Rank

\* No step of the parser that changes anything, but in that loop, goes back or
\* stays where it is: its loops over the tokens end. (That no step changes
\* nothing is left to CompilerReturns.)
Advances ==
  [][phase = "parse" /\ phase' = "parse" /\ ~Stuck => Forward
    ]_<<phase, lexerVars, parserVars>>

\* A file that is accepted has no token after the END of its last module, and
\* no method has been left before it returned: what is cut short, wherever, is
\* refused, as each loop that the end of the file leaves finds that a token is
\* missing (the calls of expect after the loops).
AcceptsWholeModules ==
  [][phase = "parse" /\ phase' = "next" =>
       /\ stack = <<>>
       /\ Len(tokens) > 1 => tokens[Len(tokens) - 1].type = "END"
    ]_<<phase, lexerVars, parserVars>>
=============================================================================
