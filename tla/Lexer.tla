------------------------------- MODULE Lexer -------------------------------
(***************************************************************************)
(* The lexer of src/pkg/asn1/lexer/lexer.go: NextToken, and TokenizeAll,   *)
(* whose loop calls it until the end of the text.                          *)
(*                                                                         *)
(* The text is a string and a position counts its characters from 1; the   *)
(* character at every other position is NoChar, for which the code has 0.  *)
(* Letters and digits are those of ASCII. Lines and columns, which only    *)
(* the messages of errors use, are left out.                               *)
(***************************************************************************)
EXTENDS Integers, Sequences

CONSTANT Texts   \* the texts there may be in a file

VARIABLES
  phase,    \* the stage the command is in
  source,   \* input: the text of the file
  pos,      \* pos: where the next token is looked for
  tokens    \* the tokens so far

lexerVars == <<source, pos, tokens>>

Chars(s) == {SubSeq(s, i, i) : i \in 1..Len(s)}
Digits == Chars("0123456789")
Letters == Chars("abcdefghijklmnopqrstuvwxyzABCDEFGHIJKLMNOPQRSTUVWXYZ")
WordChars == Letters \cup Digits \cup {"-", "_"}
Blanks == Chars(" \t\n\r")
Marks == Chars("{}()[],;|")
Quote == "\""
NoChar == ""

\* What is longer than a character and no word.
Signs == {<<"--", <<"-", "-">>>>, <<"---", <<"-", "-", "-">>>>, <<"..", <<".", ".">>>>,
          <<"...", <<".", ".", ".">>>>, <<"::=", <<":", ":", "=">>>>}

\* A text is its characters, and a sign the characters it consists of.
ASSUME TextsAssumption ==
  \A text \in Texts :
    /\ Len(text) \in Nat
    /\ \A p \in 1..Len(text) : SubSeq(text, p, p) # NoChar
    /\ \A sign \in Signs : \A p \in 1..Len(text) + 1 - Len(sign[2]) :
         SubSeq(text, p, p + Len(sign[2]) - 1) = sign[1]
           <=> \A i \in 1..Len(sign[2]) : SubSeq(text, p + i - 1, p + i - 1) = sign[2][i]

\* No character is of two kinds, the end of the text is of none, and a mark is
\* not spelt like a type of tokens.
ASSUME CharactersAssumption ==
  /\ Len(NoChar) = 0
  /\ "\n" \in Blanks
  /\ {NoChar, Quote} \cap (Blanks \cup WordChars \cup Marks) = {}
  /\ Blanks \cap (WordChars \cup Marks \cup {":", ".", "="}) = {}
  /\ "-" \notin Letters \cup Digits \cup Marks
  /\ {"STRING", "EOF"} \cap Marks = {}

\* The words that are not identifiers.
Keywords ==
  {"DEFINITIONS", "AUTOMATIC", "TAGS", "BEGIN", "END", "IMPORTS", "EXPORTS",
   "FROM", "SEQUENCE", "OF", "CHOICE", "ENUMERATED", "INTEGER", "BOOLEAN",
   "BIT", "OCTET", "STRING", "IA5String", "VisibleString", "UTCTime", "NULL",
   "SIZE", "OPTIONAL", "DEFAULT"}

Positions == Nat \ {0}

\* The n characters from p on, if there are that many; the one at p.
Here(p, n) == IF p + n - 1 <= Len(source) THEN SubSeq(source, p, p + n - 1) ELSE NoChar
Ch(p) == Here(p, 1)

\* The first position from p on that holds none of the characters.
Past(p, chars) ==
  LET past[q \in Positions] == IF Ch(q) \in chars THEN past[q + 1] ELSE q IN past[p]

\* Where a comment ends whose text, as skipComment sees it, begins at p.
CommentEnd[p \in Positions] ==
  CASE Ch(p) = NoChar -> p
    [] Ch(p) = "\n" -> p + 1
    [] Here(p, 2) = "--" -> p + 2
    [] OTHER -> CommentEnd[p + 1]

\* Mutant of SkipComment: the hyphens that open it close it.
SkipCommentShort(p) == CommentEnd[p]

\* The comment that opens at p, of which one hyphen is skipped, not two.
SkipComment(p) == CommentEnd[p + 1]

\* Past blanks and comments: where the next token begins.
Start[p \in Positions] ==
  LET q == Past(p, Blanks)
  IN  IF Here(q, 2) = "--" THEN Start[SkipComment(q)] ELSE q

\* An identifier stops before a pair of hyphens and does not end in one.
WordEnd[p \in Positions] ==
  IF Ch(p) \in WordChars /\ Here(p, 2) # "--" THEN WordEnd[p + 1] ELSE p
IdentifierEnd(p) ==
  IF Ch(WordEnd[p] - 1) = "-" THEN WordEnd[p] - 1 ELSE WordEnd[p]

StringEnd[p \in Positions] == IF Ch(p) \in {Quote, NoChar} THEN p ELSE StringEnd[p + 1]

\* Mutant of AfterString: a closing quote is taken to be there.
AfterStringClosed(q) == q + 1

\* The end of the text closes a string too.
AfterString(q) == IF Ch(q) = Quote THEN q + 1 ELSE q

\* A token and the position after it.
Token(type, text, next) == [type |-> type, text |-> text, next |-> next]
Spelt(type, p, q) == Token(type, SubSeq(source, p, q - 1), q)
LookupIdent(word) ==
  CASE word = "STRING" -> "STRING_KW"
    [] word \in Keywords \ {"STRING"} -> word
    [] OTHER -> "IDENT"

TokenAt(p) ==
  CASE Ch(p) = NoChar -> Token("EOF", NoChar, p)
    [] Here(p, 3) \in {"::=", "..."} ->
         Spelt(Here(p, 3), p, p + 3)
    [] Here(p, 3) # "..." /\ Here(p, 2) = ".." ->
         Spelt("..", p, p + 2)
    [] Ch(p) \in Marks -> Spelt(Ch(p), p, p + 1)
    [] Ch(p) = Quote ->
         LET q == StringEnd[p + 1]
         IN  Token("STRING", SubSeq(source, p + 1, q - 1), AfterString(q))
    [] Ch(p) \in Digits \/ (Ch(p) = "-" /\ Ch(p + 1) \in Digits) ->
         Spelt("NUMBER", p, Past(p + 1, Digits))
    [] Ch(p) \in Letters ->
         LET q == IdentifierEnd(p)
         IN  Token(LookupIdent(SubSeq(source, p, q - 1)), SubSeq(source, p, q - 1), q)
    [] OTHER -> Spelt("ILLEGAL", p, p + 1)

NextToken == TokenAt(Start[pos])

(* TokenizeAll, one iteration: an illegal token ends it with an error.     *)
Tokenize ==
  /\ phase = "lex"
  /\ \E t \in {NextToken} :
       IF t.type = "ILLEGAL"
         THEN phase' = "failed" /\ UNCHANGED <<pos, tokens>>
         ELSE /\ tokens' = Append(tokens, [type |-> t.type, text |-> t.text])
              /\ pos' = t.next
              /\ phase' = IF t.type = "EOF" THEN "parse" ELSE "lex"
  /\ UNCHANGED source
=============================================================================
