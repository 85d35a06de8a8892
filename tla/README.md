# A TLA+ model of ans2go

ans2go compiles ASN.1 modules to Go types that encode and decode themselves in
the unaligned Packed Encoding Rules (UPER). This directory models the whole way:
the bit stream and the numbers on it, the codecs the generator emits, the
messages of the two packages shipped with it, and the compiler that made them.

## Inventory of the system

Nothing in the repository is concurrent: there is no goroutine, channel or
lock. What is hard is of another kind: loops that keep two counters and a buffer
in step, encodings in which every bit after a mistake means something else,
fixed-width arithmetic, messages that are cut, peers generated from different
versions of a type, structs that are decoded into more than once, and a parser
whose loops have to end on any text.

| Component | State it keeps | Operations | Correct when |
|---|---|---|---|
| `pkg/uper/bitstream.go`, `BitWriter` | `data`, `bitLen` | `WriteBit`, `WriteBits` (two paths), `WriteBytes` (two branches), `AlignToByte`, `Bytes` | the buffer is what was asked for, bit for bit, on every path; padding is 0; nothing written is changed |
| `pkg/uper/bitstream.go`, `BitReader` | `data`, `bitPos` | `ReadBit`, `ReadBits`, `ReadBytes`, `AlignToByte` | bits come out in order, once; a refused call consumes nothing; nothing is read past the end |
| `pkg/uper/lengths.go` | none beyond the stream and the locals of the loops | length determinants; open types, fragmented from 16384 octets on | writer and reader agree on where a payload ends; a cut is noticed |
| `pkg/uper/integers.go` | none | constrained, semi-constrained, normally small numbers | round trip at every edge of int64; least width; no value out of range |
| `pkg/uper/strings.go`, `types.go` | `BitString` values | bit, octet and character strings, `Marshal`, `Unmarshal` | round trip within the size constraint; a refused value leaves no half message |
| `pkg/asn1/lexer`, `token` | input position | `NextToken`, `TokenizeAll` | the tokens are the text, without blanks and comments |
| `pkg/asn1/parser`, `ast` | the tokens and the index of one | one `parse...` per kind of type | every loop makes progress on any input; the tree is the text; half a module is not one |
| `pkg/asn1/analyzer` | tables of numbers and types, the order of the types | bound resolution, numbering of items, lifting of inline types | every bound resolves; nothing parsed is lost; no two types get one name |
| `pkg/generator` | the text emitted | one `emit...Type` per kind of type; the emitted `EncodeUPER` and `DecodeUPER` | the code says what the type says; a decoder of any version reads the encoder of any other |
| `cmd/ans2go` | none | read, parse, analyze, generate, write | nothing is written unless all stages succeed |
| `example/ulp`, `example/ilp` | structs | 485 types with their methods | they are what the compiler makes of the schemas beside them; any message comes back |
| `pkg/pcap` | an output file | header, packets, checksums | lengths fit 16 bits |
| `scripts/` | | comparison with another compiler | not part of the program |

Calls go one way: the command calls lexer, parser, analyzer and generator in
turn; the emitted methods call each other, and `pkg/uper` at the leaves.
`Marshal` makes one `BitWriter` and `Unmarshal` one `BitReader`, so a stream has
one user. The only nested streams are open types: an addition is encoded in a
writer of its own, whose bytes are then written as a payload, and decoded from a
reader over the payload.

## Modules

The runtime:

| Module | Models | How state and actions correspond |
|---|---|---|
| `Bits` | bits, bytes, words, buffers | a byte is a function from bit 0, the first on the wire; a word is seen through its shifts |
| `BitWriter` | `BitWriter` | `data` and `bitLen` are the fields; a call is an action that enters it and one action for each iteration of its loop, with the Go locals `val`, `numBits`, `i` as variables; `rest` is what the loop of `WriteBytes` has left; `asked` is history |
| `BitReader` | `BitReader` | `data` and `bitPos` are the fields; `path`, `numBits`, `i`, `res` belong to `ReadBits`, `todo` and `bytes` to `ReadBytes`; `outcome` is what the call returned |
| `Channel` | nothing in the code: the promise | values sent are delivered in order, each once, unless bits were lost |
| `OpenType` | `WriteOpenType`, `ReadOpenType` | one action for each iteration of the two loops; the wire is a sequence of determinants and octets |
| `Results` | what encoders and decoders return | bits or a refusal; a value and the bits used, or an error |
| `Numbers` | `integers.go`, the determinants of `lengths.go` | one operator per encoder and decoder, from numbers to bits and back, in machine words of width `W` |
| `Strings` | `strings.go`, `BitString`, and the methods `emitSequenceOfCodec` emits | operators over those of `Numbers`; a string is a sequence of numbers, and so is a SEQUENCE OF here |
| `Exchange` | an encoder and a decoder that meet once | the value written, the bits the decoder is handed (whole and followed by others, cut, or any bits at all) and its answer; how a value is encoded is left to the modules that extend it |
| `Values` | numbers and strings exchanged | `Strings` and `Exchange` put together |
| `SequenceCodec` | the methods `emitSequenceType` emits | one action for each statement of `DecodeUPER` that reads; `Encode` is `EncodeUPER` |
| `ChoiceCodec` | the methods `emitChoiceType` and `emitEnumeratedType` emit | as `SequenceCodec`; the struct is the tag and the pointers of the alternatives, for an ENUMERATED the tag alone; `Forward` is `Marshal` of what was decoded |
| `Shapes` | the forms of code `generator.go` emits | one constructor for each form; a bound is a decimal string, since bounds reach beyond the integers of TLC |
| `UlpTypes`, `UlpComponents`, `IlpTypes` | `example/*/types.go` | one definition for each Go type: the shape that its declaration, `EncodeUPER` and `DecodeUPER` have |
| `Pdu` | whole messages of a package | `EncodeUPER` and `DecodeUPER` are one call of an emitted method, given what the calls it makes return; `Encode` and `Decode` put the calls together, those that nest `n` more being a table made from the table for `n - 1`; a message is a sequence of tokens, and a decoder that meets one of another kind than it reads has misread it |

The compiler:

| Module | Models | How state and actions correspond |
|---|---|---|
| `Lexer` | `lexer.go`, `token.go` | `source` is the text as a string, one of `Texts`, `pos` the position in it, `NoChar` the character behind its end; `Tokenize` is an iteration of `TokenizeAll` |
| `Parser` | `parser.go`, `ast.go` | a machine with a stack: `goal` is the loop or method control is in, `stack` the nodes under construction; a method without a loop is one action, an iteration of a loop is one |
| `Analyzer` | `analyzer.go` | the fields of `ResolvedModel`; one action for the two loops that collect, one for each iteration of the loop that resolves |
| `Generator` | `generator.go` | which shape is emitted for each entry of the table, in order, under which Go name |
| `Compiler` | `main.go` | the loop over files, and the stages in order |
| `UlpSchema`, `IlpSchema` | `example/*/*.asn` | the text of every assignment, as a module of its own with the numbers it uses: inputs of the runs, not part of the model |

`MC_*` are the small instances for TLC; `M_proofs` holds the theorems about the
module `M`, with their proofs.

How they build on each other: `OpenType` takes from `BitWriter` and `BitReader`
that octets cross unaligned positions unharmed, and from `Values` that a
determinant is read as it was written. `SequenceCodec` and `ChoiceCodec` take
from `OpenType` that a payload arrives as one token, and from `Values` that an
index, a normally small number or a string does; they run one type statement by
statement, with reused structs and failures in the middle. `Pdu` takes the same,
and puts the types together: a decoder is a function there, and the struct a new
one. The tables are the joint between the two halves: `Compiler` shows that the
schemas compile to them, `Pdu` that the messages they stand for are exchanged.

Definitions commented "Mutant of ..." are no part of the model. Each is a
plausible mistake in the definition it stands before; putting it in that
definition's place makes TLC report the property it is paired with in
`PROJECT.json`. They show that the properties depend on the code being as it is.

## Runs

| Run | Question | Bounds, and why they are enough |
|---|---|---|
| `bit_writer` | do all paths write the same stream? | 4 calls; widths 0, below, at and above a byte, above a word (72: only the slow path takes it); slices of 0, 1, 2 bytes. Every call behaves by `bitLen % 8` and its width: two calls reach every alignment class that matters, the others follow |
| `bit_reader` | are bits read in order, and do failed calls consume nothing? | inputs of 0 to 4 bytes; widths and counts legal and not. The number of calls is not bounded: the position ends |
| `open_type` | does a fragmented payload come out whole, and a cut one not at all? | unit 3 for 16384, at most 2 units for 4; lengths 0 to 14 pass each multiple of both; 2 payloads, so that a mistake at the end of one meets the other; every prefix |
| `values` | does every number and string come back, in the least width, and does a decoder accept anything else? | words of 8 bits, octets of 4, characters of 2, small numbers of 3, units of 64; numbers at each power of two and both ends of the machine; seven size constraints, fixed and variable, with ranges that are a power of two and not; strings below, at and above the bounds, lengths 7, 8, 63, 64, 65, 128, 130 where a determinant changes form; alphabets of 1 to 4 characters; every prefix, and every input of up to 7 bits and some longer ones |
| `sequence_codec` | do all versions of a type understand each other? | three root fields, two OPTIONAL; not extensible, or 0 to 3 additions, on each side; 2 messages, the second into a new struct or the old one; every prefix |
| `choice_codec` | does a receiver select what was sent, and nothing else? | a root of 3, so that its 2-bit index can hold a number beyond it; not extensible, or 0 to 3 additions, on each side; an ENUMERATED with a known item at the value unknown ones are moved to; 3 messages, each into a new struct or the old one; every prefix, every root index, an open type too short; a relay after each |
| `compiler` | is what comes out what the text says, and does the command end? | all 421 type assignments of both schemas (the 64 other types are lifted from them), and the heads of their modules; ten jobs of one and two files with what the schemas lack; every beginning of a module; every text of 4 characters out of a letter, a digit, a hyphen, a quote, a point and a line break, which has all runs of hyphens, open strings and comments; every two of 18 tokens where one of seven loops waits for others |
| `pdu` | does every message of both packages come back? | every named type as a PDU; its least value, every value that differs from it in one place (each field present, each alternative, each item, one element more and one fewer), and one with as much as possible present, one level of reference deep; the same sender, and one with two additions more in the type or in any type it refers to; every prefix in tokens, every bit flipped, every index moved. `MaxDepth` is 21 calls nested, which the deepest of these values needs: `PduAssumption`, which TLC evaluates, says that none needs more, and that `Shapes` has all shapes that occur in the types |
| `constrained_range`, `future_additions`, `alphabet_hang`, `comment_end` | expected violations, see below | as the run they belong to |

`Values`, `SequenceCodec`, `ChoiceCodec` and `Pdu` run with `CHECK_DEADLOCK
FALSE`: there the program stops (a value is written and read once; `MaxMessages`
are sent). In the other runs a deadlock would be an error: a call can always be
made, `OpenType` has returned (`Finished`), the command has ended (`Exit`). A
parser that matches no case would be such a deadlock.

The narrow widths of `Numbers` are parameters: the code has `W` = 64, `B` =
8, `SmallBits` = 6, `MaxFactor` = 4, and `WidthAssumption` says what the
definitions need of them. The widths of the instance keep the order of the
edges: small numbers, one-octet lengths, two-octet lengths, units, words.

In `Pdu` a leaf has two values, told apart and nothing more: what happens to the
bits of one is the subject of `values`. In `Compiler` a schema is compiled an
assignment at a time. The assignments meet nowhere but in the tables of the
analyzer, which `NothingLost` is about and the jobs of several modules run.

### What the properties leave out

Some statements would be false of the code, and the properties say where:

- `Values!Carried`: the full range of int64 (finding 1); a length of 16384 or
  more that is no number of units, for which one determinant cannot stand.
  `WriteOpenType` fragments and never asks for one; `WriteUTCTime` and a
  SEQUENCE OF without a size do not, so such a length is written wrong.
  `WriteUTCTime` keeps the low bits of an octet that is not ASCII; a BIT STRING
  of fixed size made longer by `NewBitString` brings along the bits past its own
  length in its last byte.
- `Values!InMachine`: a size constraint with a bound above 2^62, with which a
  damaged size may come out negative. No string of that size can be held. A BIT
  STRING has as many octets as its length asks for: with fewer `GetBit` panics.
- `Values!Defensive`: a normally small number is a number of the machine; that
  the generated code adds 1 to it (generator.go:683), which overflows at the
  largest one, is not looked at.
- `SequenceCodec!FilledInOrder`: a field is one token, so that a mandatory
  composite one, decoded in place (generator.go:676), is filled or not.
- `Values!Canonical`: a size above the upper bound, which a decoder accepts
  (finding 5).
- `ChoiceCodec!RelayFaithful`: an alternative not understood, received into a
  struct used before: the alternative that struct had is still selected and is
  what a relay passes on (generator.go:540); and an unknown item moved to the
  value of a known one (generator.go:440).
- `Pdu!Legible`: additions sent to a receiver that knows none of them
  (finding 2).
- `Compiler!Clash`: two types that come out under one Go name, and two numbers
  under one name. The analyzer compares the names of declared types and no
  others: of two numbers the last counts, for the types of all modules; the name
  made for an inline type replaces a declared one.
- `Parser!TokensAreTheText` and `Compiler!CompilerReturns` leave out findings 4
  and 3.

### Disagreements found

The first four have a run that shows them.

1. Over the full range of int64, `uint64(ub - lb + 1)` is 0, so 0 bits are
   written and every value is read as `lb`; README.md:19 of the repository
   promises the encoding for any constrained range. Run `constrained_range`.
2. An extensible SEQUENCE without additions emits a decoder that looks for the
   additions of a later version before the preamble and the root fields, and
   reads each presence bit together with its open type; the encoder writes
   them after the root fields, all presence bits first (generator.go:644). Run
   `future_additions`.
3. "ParseFile parses all modules in a file until EOF" (parser.go:67), but the
   loop over a permitted alphabet (parser.go:582) does not advance on a token
   that is neither a string nor a bar. Run `alphabet_hang`.
4. A comment goes "from '--' to either the next '--' or end of line"
   (lexer.go:68), but `skipComment` is entered on the first hyphen and not on
   "the second" (lexer.go:69): three hyphens open a comment and close it. Run
   `comment_end`.
5. `ReadConstrainedInt` "decodes a constrained whole number with bounds [lb, ub]"
   (integers.go:49) but returns whatever the field holds: for a range that is not
   a power of two, a number above `ub`.
6. "OPTIONAL fields -> pointer types. Set to nil when absent." (README.md:235),
   read as a statement about a decoded struct, holds for a new struct only:
   `DecodeUPER` resets nothing. `SequenceCodec!FieldsDelivered` says what
   happens instead.
7. "Automatic promotion of inline anonymous SEQUENCE, CHOICE, ENUMERATED, and
   SEQUENCE OF" (README.md:16) does not reach the elements of a SEQUENCE OF
   (analyzer.go:153): they stay inline, and the text emitted for them calls
   methods on a Go type that has none.
8. "Effective alphabet mapping for VisibleString" (README.md:22) is made for
   named types; in a component or an element the alphabet is `nil`
   (generator.go:751 and 831). Both sides do the same, and `UlpTypes` has it.

## Fairness

Each liveness property says that something that was begun ends: a call returns
(`OpenType`, `SequenceCodec`), the command exits (`Compiler`). `FairSpec` is weak
fairness of the steps inside a call, never of making a call, and of the steps of
the command: Go runs a function that was called to its end, while nothing
obliges a program to call it. There is one goroutine and nothing it could wait
for.

## What is proved

For every value of the constants that satisfies the assumptions the modules
state. `WriterAssumption` and `ReaderAssumption` give the constants their types
and nothing more; `OpenTypeAssumption`, `ChoiceAssumption` and
`SequenceAssumption` also say that a fragment has at least one unit, that a
CHOICE has a root alternative and different items have different tags, and that a
type that is not extensible has no additions.

`BitWriter_proofs`, for all words, widths (also negative ones and ones above 64)
and slices, and any bound `MaxCalls`:

- `WriterTypeOK`: `Spec => []TypeOK`;
- `WriterOnTrack`: `Spec => [](TypeOK /\ BufferFits /\ PaddingZero /\ OnTrack)`;
- `WriterFaithful`: `Spec => []Faithful`;
- `WriterAppendOnly`: `Spec => AppendOnly`.

`Faithful` is not inductive: in the middle of a call it says nothing. The
inductive invariant `Inv` adds what is true there: `OnTrack`, that what is
written, what the loop has yet to write and what `WriteBytes` has yet to hand
over are together what was asked for; `BufferFits`, that the buffer has the
bytes `bitLen` needs, or inside the fast loop as many more as were appended;
and `PaddingZero`, without which `AlignToByte` and the OR in `WriteBit` would
not do what `asked` says.

`BitReader_proofs`, for all inputs, widths and counts:

- `ReaderTypeOK`: `Spec => []TypeOK`;
- `ReaderInOrder`: `Spec => []InOrder`;
- `ReaderFailsUpFront`: `Spec => []FailsUpFront`.

`InOrder` speaks of calls that have returned. Its inductive invariant says what
a loop holds on its way: the slow one has in `res` the bits between where it
began and `bitPos`, the fast one those after a `bitPos` that it has not moved
yet (`InLoop`); what the call took before this loop ends where the loop began,
and what it still wants is inside the input (`InCall`). The second half of
`InCall` is why a call never fails in the middle: each error branch inside a
loop has a condition that contradicts it, and that is `FailsUpFront`.

`OpenType_proofs`, for any unit and any number of units of a fragment, payloads
of every length (the runs have units of a few octets) and a stream cut anywhere:

- `OpenTypeTypeOK`, `OpenTypeInStep`, `OpenTypeStopsAtTheEnd`: the three
  invariants of the run;
- `OpenTypeDelivered`: a payload that was returned is the one that was written in
  its place;
- `OpenTypeIsAChannel`: `Spec => Ch!CInit /\ [][Ch!CNext]_(Ch!cvars)`, the safety
  part of the refinement `Transfers`.

`InStep` says that the decoder never meets the wrong kind of item, and is not
inductive: it has to be known what comes next in the stream. `Inv` states that
(`Framed`): at each determinant for what is left of a payload from some place on
(`Starts`) follow the octets of one fragment, and after them stands the
determinant of the next place (`Follows`), or the stream ends there as far as it
has been written. Being about the stream alone, it is shown once for the writer,
and only preserved by the reader, which stands before such a determinant or
inside such a fragment (`Stands`).

`ChoiceCodec_proofs`, for any items and versions, any bits in a damaged message
and any number of messages into the same struct: `ChoiceTypeOK`,
`ChoiceDelivered`, `ChoiceUnknownIgnored`, `ChoiceFailureKeepsValues`,
`ChoiceStaysConsistent` and `ChoiceRelayFaithful`, the invariants of the run.
They speak of the end of a decode. `Inv` says of each statement before it where
in the message the decoder stands (`Tracking`, for messages that are not
damaged) and what it has assigned (`Filling`, for any), that the message is the
encoding of one alternative (`Sending`), and that what is forwarded is what the
receiver holds (`Relaying`).

`SequenceCodec_proofs`, for any root fields, any pair of versions, any subset of
fields present and messages cut anywhere: `SequenceTypeOK`,
`SequenceFieldsDelivered`, `SequenceInStep` and `SequenceFilledInOrder`. Here no
position in a message is fixed: where the token of a field stands depends on the
fields present before it. The invariant (`Tracks`) counts them with `Rank`, the
cardinality of the set of written fields up to an index: at each statement it
gives `pos` as such a count, and the fields filled so far (`Filled`). What the
encoder writes is put together with `FlattenSeq`; the lemma `Layout` says which
token of `Encode` is the one of each field, and rests on `FlattenDefined`, that
the recursive function behind `FlattenSeq` is the one its defining equation
describes. `Advance` then has the decoder move from one count to the next. The
branch for a type without additions is apart (`Understood`): it is the one
`FutureAdditionsIgnored` refutes.

Each proof has a lemma for each action, and under it a step for each conjunct
the action can disturb. The lemmas before them are about the operators: what
`At` of an appended or concatenated buffer is and what slices of an input put
together are (`Bits`); what an appended item does to a framed stream
(`OpenType`); which tokens `Encode` writes (the codecs).

`Values_proofs`, for every width of words, octets, small
numbers and characters that `WidthAssumption` and `StringAssumption` allow, every
call with values of the machine (`CallAssumption`) and any bits after it, or
instead of it (`StreamAssumption`): `ValuesTypeOK`, `ValuesRoundTrip`,
`ValuesCutIsNoticed`, `ValuesShortest`, `ValuesDefensive`,
`ValuesStaysInAlphabet` and `ValuesCanonical`, the seven invariants of the run.
Of the assumptions one is more than a type: `InMachine` takes the bounds of a
size to be a quarter of the range of words at most, so that a damaged size, up to
twice its bound, does not wrap.

`Next` here is small and the operators large, so the invariant `IInv` is simple:
what is on the wire is the encoding of the call and more (`whole`) or a proper
part of it (`cut`), and the answer is the decoder's. The work is in two lemmas
about the operators, for one call and any bits: `CallCarries` (the encoder takes
what is `InType` and nothing else, and on bits that agree with what it wrote as
far as they go, the decoder gives the value or the end of the input) and
`CallProper` (on any bits at all, the answer is of its kind and inside the input,
and encodes to the bits it was read from). They rest on:

- powers of two. The provers know `2^n` for no variable `n`; that it doubles
  comes from `FS_SUBSET`, since `2^n` is the number of subsets of `1 .. n`. What
  needs induction (`PowerUp`, `PowerSum`, `SumBounds`) takes it over a set of
  numbers (`Induction`), which a least counterexample gives, not over an
  operator;
- `NumberOfBits` and `BitsOfNumber`: `BitsOf` and `NumberOf` are each other's
  inverse. `NumberDefined` shows that the recursive sum in `NumberOf` is what its
  defining equation says;
- the machine: `Wrap`, `SignedSum` and `OffsetIs` say when `U` and `S` undo each
  other, also where `val - lb` is not an int64;
- `Needed` and `Octets`: the widths that `CHOOSE` in `BitsNeeded` and
  `OctetsFor` names exist, and are least;
- one lemma for each encoder with its decoder, at any place of a stream that
  may be cut (`ReadLength`, `ReadConstrained`, `ReadSemi`, `ReadSmall`), and one
  for each decoder on any bits (`SoundLength` and so on);
- elements one after the other: where each stands (`FieldsPlace`), that all are
  read or one stops the loop (`ReadAllCases`), and that a permitted alphabet and
  the places in it are each other's inverse (`AlphabetIs`).

`Parser_proofs`, for every text, whatever its tokens: `ParserMoves`,
`ParserAdvances` and `ParserAcceptsWholeModules`. They are about `ReadSpec`, the
lexer and the parser taking one of `Texts` after another, whatever that set is,
while the rest of the command is left open. `Compiler` is put together from the same
actions (`ReadFirst`, `Tokenize`, `Parse`, `ReadAnother`), and the others leave
the variables of both alone (`Otherwise`). The invariant
(`Inv`) says that of the tokens the last is EOF and no other, that between
modules nothing is under construction, and how deep the stack is in each loop
(`Depth`), with the module at its bottom and nowhere else (`Shape`): the type that
a method completes has something to be delivered to. Each step then goes on in
one of four ways (`GoOn`, `GoDeeper`, `GoOnRebuilt`, `GoBack`), and it remains to
say for each action how far ahead it has looked: a token it has recognised is
not EOF, so the one after it is still a token. `ParserMoves` is about the action
itself, so that it covers an iteration that changes nothing, which no property
of behaviours can see; `Rank` and the tokens left then bound the number of
steps, of which the only unbounded one is finding 3. What the lexer's functions
return is not used, so these three hold for any lexer.

The fourth theorem of `Parser_proofs` is about the lexer: `LexerTokensAreTheText`,
for every text in which no comment is opened by more than two hyphens (finding 4
is what happens in the others). The property reads a text in a way of its own
(`Kept`), where a comment or a string ends at the first position that ends it; the
lexer goes a character at a time. Of texts and characters, which the
provers know nothing of, two assumptions of `Lexer` say what TLC evaluates for
the texts of the runs: `TextsAssumption`, that a text is its characters and a sign
such as `::=` is in it where its characters are, and `CharactersAssumption`, that
no character is of two kinds. The proof then has three parts:

- `WordEnd`, `StringEnd`, `CommentEnd`, `Start`, `Past` and `Kept` are recursive
  functions of positions without a last one. Each is what its equation says
  (`RecursionDefines`, once for all), because each either stops or goes on to a
  later position, and every one stops at the end of the text;
- what is kept from a position on is also what is kept from where the lexer finds
  the next token (`KeptStart`), by induction from the end of the text down
  (`Downward`); this is where a comment opened by three hyphens fails; and it
  begins with the spelling of that token (`TokenAtKept`), with a lemma for each
  kind of token;
- the invariant (`TextInv`): the spellings of the tokens so far, joined, and what
  is kept from `pos` on are what is kept of the whole text. `FlattenAppends` has
  `FlattenSeq` take one more token.

`Pdu_proofs`, for every package of shapes, every value that has its Go type, any
sender's version and any damage: `PduTypeOK`, `PduDelivered`, `PduCutIsNoticed`,
`PduRelayAgrees` and `PduRelayIsHonest`, the five invariants of the run.
`PduAssumption` is what the generator and Go see to. Of a shape (`IsShape`): a
reference is to a type of the package, a type without `...` has no additions, a
CHOICE and an ENUMERATED have a root, the numbers of items differ and are below
those unknown items are moved to. Of a call (`IsCall`): the value and all values
in it have the Go types of their shapes, the sender's later version adds to an
extensible type, and the value nests no deeper than `MaxDepth`, which may be any
number. Values that no encoder accepts are among these: an alternative not set,
an item of no number, a list too long.

The methods recurse over values. `Encode` and `Decode` are functions of the
depth of calls instead, and what needs induction takes it over that depth
(`InductionTo`); `EncodeDefined`, `DecodeDefined` and their like show that such a
function is what its defining equation says. The invariant (`PduInvariant`) is
simple, as in `Values`: the input is what `Sent` is and more, a part of it, or
well-formed tokens (`Staged`, `Handed`), and the answer is what the decoder
returns on it (`Answered`). The properties then are about the operators:

- `Carried`: on an input that agrees with what was written as far as it goes,
  the decoder returns the projection of the value and stands behind it, or fails
  with the end of the input. It is shown first for one method of each kind, at
  any place of the input, given it of the methods it calls (`SequenceCarries`,
  `ChoiceCarries` and so on), then for all by induction. The preamble, the fields,
  the bitmap and the additions are each a row of readers over a row of results,
  for which there is one lemma (`EachCarries`);
- `DecodeSends`: on any tokens, a decoder stays inside its input and returns a
  value of its type down to the last value in it, or an error;
- `RelayingHonest` and `ReturningReturned`: what an accepted value becomes when it
  is sent on. The receiver's encoder takes it if and only if all in it is known;
  the receiver reads it back unchanged, being its own projection
  (`ReturningKept`), and a sender of a later version as a value whose projection
  is again this one.

Only model-checked: of the run `compiler` the invariants `TypeOK`,
`ShippedIsCompiled` and `NothingLost`, and with them `Analyzer` and `Generator`;
which type a token has, and what tree the parser builds. `Analyzer` and `Compiler` have
RECURSIVE operators over the tree of a type, which the provers do not take.
Liveness stays with TLC throughout: `DecoderReturns`, `CompilerReturns` and their
like, and the fairness of the channel in `Transfers`.

## Not modelled

- `pkg/pcap`: straight-line formatting for tests, with no reader that has to
  agree with it; its 16-bit lengths are listed as a hazard.
- `scripts/diff_test.py`: compares the output with another compiler, which is
  not in the repository.
- Of the generator: the layout of the Go text, its imports, the constants
  emitted for numbers, `String` methods, and `go/format`, which could refuse
  the text.
- Of the command: flags, the listing of the directory, the one file written.
- Lines and columns, which only error messages use; exported and imported
  symbols, tag defaults and named bits, which the code reads and does not use;
  numbers beyond int64, which the parser refuses; UTF-8, the characters of a
  string being single octets.

## Left open

1. `BitStream`: `BitWriter`, `Bytes`, `BitReader` composed over fields, shown to
   implement `Channel`; with both proofs in place, a proof as well.
2. `Lexer`: that every token but EOF ends after the place where it begins, so
   that `TokenizeAll` ends, as `ParserMoves` has it for the parser.
3. `Analyzer`: flattening and resolution as functions of the depth of a type, as
   in `Pdu`; then `NothingLost` can be proved.
4. `Pcap`: the lengths and checksums of the packets the tests write.
