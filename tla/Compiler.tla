------------------------------ MODULE Compiler ------------------------------
(***************************************************************************)
(* The command of src/cmd/ans2go/main.go: the files of a directory are     *)
(* lexed and parsed one after the other, analyzed together, and written    *)
(* out as one Go file. The first error ends it, and nothing is written.    *)
(*                                                                         *)
(* A job is what the command may be run on: the texts of the files, in the *)
(* order of their names; and the package they are part of, or "none".      *)
(***************************************************************************)
EXTENDS Generator

CONSTANTS
  Jobs,      \* the jobs
  Packages   \* the types of a package, by the package's name: a table of shapes

VARIABLES
  job,    \* input: the job run
  file    \* the index of the file being read

vars == <<job, file, phase, lexerVars, parserVars, analyzerVars, emitted>>

Files == job.files

Init ==
  /\ job \in Jobs
  /\ file = 1 /\ ReadFirst(Files[1])
  /\ constants = Empty /\ types = Empty /\ order = <<>> /\ todo = <<>>
  /\ emitted = <<>>

(* The loop over the files.                                                *)
NextFile ==
  /\ phase = "next"
  /\ IF file < Len(Files)
       THEN file' = file + 1 /\ ReadAnother(Files[file + 1])
       ELSE phase' = "collect" /\ UNCHANGED <<file, lexerVars, parserVars>>
  /\ UNCHANGED <<job, analyzerVars, emitted>>

Lexing == Tokenize /\ UNCHANGED <<job, file, parserVars, analyzerVars, emitted>>
Parsing == Parse /\ UNCHANGED <<job, file, analyzerVars, emitted>>
Analyzing ==
  /\ Collect \/ ResolveType \/ AllResolved
  /\ UNCHANGED <<job, file, lexerVars, parserVars, emitted>>
Generating == Generate /\ UNCHANGED <<job, file, lexerVars, parserVars, analyzerVars>>
Finished == phase \in {"done", "failed"}
Exit == Finished /\ UNCHANGED vars

Next == Lexing \/ Parsing \/ NextFile \/ Analyzing \/ Generating \/ Exit
Spec == Init /\ [][Next]_vars
\* The command is one goroutine that never waits: it goes on while it can.
FairSpec == Spec /\ WF_vars(Next)

(***************************************************************************)
(* Properties.                                                             *)
(***************************************************************************)

\* The stages, loops and nodes there are; a file is read within its bounds.
TypeOK ==
  /\ phase \in {"lex", "parse", "next", "collect", "analyze", "generate", "done", "failed"}
  /\ goal \in {"file", "imports", "assignments", "type", "parts", "returned", "bits",
               "constraints", "alphabet"}
  /\ file \in DOMAIN Files /\ source = Files[file]
  /\ pos \in 1..Len(source) + 1
  /\ at \in Nat \ {0}
  /\ stack # <<>> => stack[1].node.kind = "Module"
  /\ todo # <<>> => ToSet(todo) \subseteq DOMAIN types

\* An assignment of a shipped schema compiles, and to the very types that the
\* package declares: what the lexer, the parser, the analyzer and the
\* generator do to it together is what types.go says.
ShippedIsCompiled ==
  job.package # "none" =>
    /\ phase # "failed"
    /\ phase = "done" =>
         LET package == Packages[job.package]
         IN  \A i \in DOMAIN emitted :
               /\ emitted[i].name \in DOMAIN package
               /\ package[emitted[i].name] = emitted[i].shape

\* The names of the inline types in a type, as parent_part.
RECURSIVE InlineNames(_, _)
InlineNames(name, t) ==
  LET parts == t.root \o t.more
      own(i) == name \o "_" \o parts[i].name
  IN  CASE t.kind \in {"SEQUENCE", "CHOICE"} ->
             FlattenSeq([i \in DOMAIN parts |-> InlineNames(own(i), parts[i].type)
                \o (IF parts[i].type.kind \in Composites THEN <<own(i)>> ELSE <<>>)])
        [] t.kind = "SEQUENCE OF" -> InlineNames(name \o "_Element", t.of)
        [] OTHER -> <<>>

\* Two types that come out under one Go name, or two numbers under one name:
\* the analyzer compares the names of declared types, nothing else.
Clash ==
  LET names == Names(Declared)
        \o FlattenSeq([i \in DOMAIN Declared |-> InlineNames(Declared[i].name, Declared[i].type)])
  IN  \/ ~IsInjective([i \in DOMAIN names |-> ToGoIdent(names[i])])
      \/ \E m, n \in ToSet(Numbers) : m.name = n.name /\ m.value # n.value

\* A type of the table, and what was parsed: parts in their order, on their
\* side of the "...", optional or not; bounds as numbers; inline types behind
\* a reference to an entry of the table. Elements of a SEQUENCE OF stay
\* inline (analyzer.go:153).
Value(bound) ==
  IF bound = "" THEN "0"
  ELSE IF IsNumber(bound) THEN Decimal[bound]
  ELSE (CHOOSE n \in ToSet(Numbers) : n.name = bound).value
RECURSIVE Same(_, _)
Same(parsed, t) ==
  LET samePart(p, q) ==
        /\ p.name = q.name /\ p.optional = q.optional
        /\ IF p.type.kind \in Composites
             THEN /\ q.type.kind = "Reference" /\ q.type.name \in DOMAIN types
                  /\ Same(p.type, types[q.type.name])
             ELSE Same(p.type, q.type)
      sameParts(p, q) == Len(p) = Len(q) /\ \A i \in DOMAIN p : samePart(p[i], q[i])
      sameItems(p, q) ==
        /\ Names(p) = Names(q)
        /\ \A i \in DOMAIN p : p[i].given => q[i].value = p[i].value
      bounds == [i \in DOMAIN parsed.bounds |-> Value(parsed.bounds[i])]
  IN  /\ parsed.kind = t.kind
      /\ CASE t.kind \in {"SEQUENCE", "CHOICE"} ->
                /\ t.extensible = parsed.extensible
                /\ sameParts(parsed.root, t.root) /\ sameParts(parsed.more, t.more)
           [] t.kind = "ENUMERATED" ->
                /\ t.extensible = parsed.extensible
                /\ sameItems(parsed.root, t.root) /\ sameItems(parsed.more, t.more)
           [] t.kind = "SEQUENCE OF" -> t.bounds = bounds /\ Same(parsed.of, t.of)
           [] "bounds" \in DOMAIN t /\ t.kind # "SEQUENCE OF" ->
                t = [parsed EXCEPT !.bounds = bounds]
           [] OTHER -> t = parsed

\* Where names do not clash, every type of every module comes out once, under
\* its own name, and says what was parsed.
NothingLost ==
  phase = "done" /\ ~Clash =>
    /\ IsInjective(Names(emitted))
    /\ \A d \in ToSet(Declared) : d.name \in DOMAIN types /\ Same(d.type, types[d.name])

\* The command ends on every input, but for that loop.
CompilerReturns == <>(Finished \/ Stuck)

\* ParseFile parses all modules until the end of the file (parser.go:67).
ParsesUntilEOF == <>Finished
=============================================================================
