---------------------------- MODULE MC_Compiler ----------------------------
(***************************************************************************)
(* The jobs the compiler is run on: the shipped schemas, assignment by     *)
(* assignment; a few directories of files; beginnings of a file; short     *)
(* texts and short token sequences of every kind.                          *)
(***************************************************************************)
EXTENDS Compiler
Ulp == INSTANCE UlpTypes
Ilp == INSTANCE IlpTypes
UlpText == INSTANCE UlpSchema
IlpText == INSTANCE IlpSchema

MCPackages == [ulp |-> Ulp!Types, ilp |-> Ilp!Types]

Job(files) == [files |-> files, package |-> "none"]
ShippedJobs(texts, package) ==
  {[files |-> <<t>>, package |-> package] : t \in ToSet(texts)}

\* A module around a text.
In1(text) == "M DEFINITIONS ::= BEGIN " \o text \o " END"

\* What the shipped schemas do not have, or not in one place.
Nested == In1("T ::= SEQUENCE { a SEQUENCE { b CHOICE { c ENUMERATED { x, y(7), z, ..., w },"
  \o " d SEQUENCE (SIZE (0..max)) OF SEQUENCE { e BIT STRING { f(0), g(1) } (SIZE (2)) }, ... } OPTIONAL,"
  \o " ... , k CHOICE { n NULL } }, h SEQUENCE { b CHOICE { c NULL } } }  max INTEGER ::= 007")
Directory ==
  <<"A DEFINITIONS AUTOMATIC TAGS ::= BEGIN EXPORTS X; IMPORTS Y, max FROM B Z FROM C;"
      \o " X ::= SEQUENCE SIZE (1..max) OF Y END"
      \o " C DEFINITIONS ::= BEGIN Z ::= INTEGER (-max1..max) max1 INTEGER ::= 1 END",
    "B DEFINITIONS ::= BEGIN max INTEGER ::= 5  Y ::= VisibleString (SIZE (max)) (FROM (\"a\"..\"z\" | \"-\")) END">>
Files2 ==
  <<In1("max INTEGER ::= 5  X ::= INTEGER (0..max)"),
    "N DEFINITIONS ::= BEGIN max INTEGER ::= 5  Y ::= OCTET STRING (SIZE (max))  Z ::= IA5String END">>
Handmade == {
  Job(<<Nested>>), Job(Directory), Job(Files2),
  \* Two types of one name, in two files; one that becomes one; two numbers.
  Job(<<In1("X ::= NULL"), "N DEFINITIONS ::= BEGIN X ::= BOOLEAN END">>),
  Job(<<In1("X ::= SEQUENCE { y CHOICE { a NULL } }  X-y ::= BOOLEAN  X_y ::= NULL")>>),
  Job(<<In1("max INTEGER ::= 5  X ::= INTEGER (0..max)"),
        "N DEFINITIONS ::= BEGIN max INTEGER ::= 6 END">>),
  \* No such number; another name of a type; a value by default; nothing.
  Job(<<In1("X ::= INTEGER (0..max)")>>),
  Job(<<In1("X ::= Y  Y ::= NULL")>>),
  Job(<<In1("X ::= SEQUENCE { a BOOLEAN DEFAULT TRUE }")>>),
  Job(<<"">>)}

\* The beginnings of a file, up to and without its END.
Whole == "M DEFINITIONS ::= BEGIN EXPORTS T; IMPORTS U FROM N; T ::= SEQUENCE { a INTEGER (0..7) OPTIONAL,"
  \o " b CHOICE { c VisibleString (FROM (\"a\"..\"z\")) (SIZE (1)), ... }, d ENUMERATED { e(1), ... } } n INTEGER ::= 3 "
Cuts == {Job(<<SubSeq(Whole, 1, i)>>) : i \in 1..Len(Whole)}

\* Texts of a few characters.
RECURSIVE TextsOver(_, _)
TextsOver(chars, n) ==
  IF n = 0 THEN {""} ELSE {c \o t : c \in chars, t \in TextsOver(chars, n - 1)}
ShortTexts == {Job(<<t>>) : t \in TextsOver({"a", "-", "1", "\n", "\"", "."}, 4)}

\* Tokens in places where a loop of the parser waits for others.
Places == {"A ::=", "A ::= SEQUENCE { a", "A ::= BIT STRING {", "A ::= CHOICE { ...",
           "A ::= VisibleString (FROM (", "A ::= ENUMERATED {", "IMPORTS"}
SomeTokens == {"a", "5", "\"s\"", "(", ")", "{", "}", ",", "|", "..", "...", ";", "::=", "SIZE",
               "OF", "FROM", "NULL", "END"}
Strays ==
  {Job(<<In1(p \o " " \o s \o " " \o t)>>) : p \in Places, s \in SomeTokens, t \in SomeTokens}

MCJobs ==
  ShippedJobs(UlpText!Heads \o UlpText!Assignments, "ulp")
    \cup ShippedJobs(IlpText!Heads \o IlpText!Assignments, "ilp")
    \cup Handmade \cup Cuts \cup ShortTexts \cup Strays
\* The job of a run that shows a disagreement: a comment that begins with a ruler.
RulerJobs == {Job(<<In1("--- a ruler\n A ::= NULL")>>)}
MCTexts == UNION {ToSet(j.files) : j \in MCJobs \cup RulerJobs}
=============================================================================
