---------------------------- MODULE SequenceCodec ----------------------------
(***************************************************************************)
(* The EncodeUPER and DecodeUPER methods that pkg/generator/generator.go   *)
(* (emitSequenceType) emits for an ASN.1 SEQUENCE, called through Marshal  *)
(* and Unmarshal (pkg/uper/types.go).  The sender and the receiver may     *)
(* have been generated from different versions of the type, which differ   *)
(* in how many extension additions they know; the receiver may decode into *)
(* a new struct or into the one it used before; a message may arrive cut.  *)
(*                                                                         *)
(* The wire is a sequence of tokens: a bit, a normally small number, the   *)
(* value of a root field, or an open type with the value of an addition.   *)
(* A decoder that meets a token of another kind than it reads would take   *)
(* its bits for something they are not: it has "misread".                  *)
(***************************************************************************)
EXTENDS Integers, Sequences, SequencesExt

CONSTANTS
  Root,        (* the root fields: for each, whether it is OPTIONAL          *)
  Versions,    (* the versions of the type: records of Version               *)
  MaxMessages  (* bound: how many messages are sent                          *)

Version == [extensible : BOOLEAN, additions : Nat]

ASSUME SequenceAssumption ==
  /\ Root \in Seq(BOOLEAN) /\ MaxMessages \in Nat
  /\ Versions \subseteq Version
  /\ \A version \in Versions : ~version.extensible => version.additions = 0

VARIABLES
  sender, receiver,   (* the versions the two sides were generated from     *)
  count, message,     (* messages sent so far, and the last struct encoded  *)
  wire, pos,          (* what the decoder got of it; tokens it has read     *)
  pc, i,              (* where DecodeUPER is, and its loop index            *)
  hasExt, present,    (* its locals: the extension bit, the root preamble,  *)
  numExt, bitmap,     (* the number of additions and their presence         *)
  v, before           (* the struct it fills, and what that held before     *)

locals == <<i, hasExt, present, numExt, bitmap>>
sides  == <<sender, receiver, count, message>>
vars   == <<sides, wire, pos, pc, locals, v, before>>

(* A struct of a version.  Nil is the zero value of Go, nil for a pointer; *)
(* any other value is known by its message and its field.                  *)
Nil == <<>>
Value == {Nil} \union ((Nat \ {0}) \X (Nat \ {0}))
Struct(version) == [root : [1 .. Len(Root) -> Value], ext : [1 .. version.additions -> Value]]
New(version) ==
  [root |-> [k \in 1 .. Len(Root) |-> Nil], ext |-> [k \in 1 .. version.additions |-> Nil]]

(* The structs the sender may fill for message m: OPTIONAL fields and      *)
(* additions are there or not.                                             *)
Messages(version, m) ==
  LET fill(n, first, there) == [k \in 1 .. n |-> IF k \in there THEN <<m, first + k>> ELSE Nil]
  IN  {[root |-> fill(Len(Root), 0, there), ext |-> fill(version.additions, Len(Root), added)] :
         there \in {fields \in SUBSET (1 .. Len(Root)) :
                      \A k \in 1 .. Len(Root) : Root[k] \/ k \in fields},
         added \in SUBSET (1 .. version.additions)}

Token(kind, x) == [kind |-> kind, x |-> x]
Tokens(n, has(_), token(_)) ==
  FlattenSeq([k \in 1 .. n |-> IF has(k) THEN <<token(k)>> ELSE <<>>])

(* EncodeUPER: the extension bit, the preamble, the root fields, and, when *)
(* an addition is present, the number of additions up to the last one      *)
(* present, their bitmap, and the present ones as open types.              *)
Encode(version, s) ==
  LET isPresent(x) == Token("bit", x # Nil)
      extended  == \E k \in 1 .. version.additions : s.ext[k] # Nil
      last      == CHOOSE n \in 1 .. version.additions :
                     s.ext[n] # Nil /\ \A k \in n + 1 .. version.additions : s.ext[k] = Nil
      optional(k) == Root[k]
      preamble(k) == isPresent(s.root[k])
      written(k)  == ~Root[k] \/ s.root[k] # Nil
      value(k)    == Token("value", s.root[k])
      any(k)      == TRUE
      bit(k)      == isPresent(s.ext[k])
      added(k)    == s.ext[k] # Nil
      open(k)     == Token("open", s.ext[k])
  IN  (IF version.extensible THEN <<Token("bit", extended)>> ELSE <<>>)
      \o Tokens(Len(Root), optional, preamble)
      \o Tokens(Len(Root), written, value)
      \o (IF extended
            THEN <<Token("small", last - 1)>> \o Tokens(last, any, bit) \o Tokens(last, added, open)
            ELSE <<>>)

Init ==
  /\ sender \in Versions /\ receiver \in Versions
  /\ count = 0 /\ message = New(sender)
  /\ wire = <<>> /\ pos = 0 /\ pc = "idle"
  /\ i = 1 /\ hasExt = FALSE /\ present = [k \in 1 .. Len(Root) |-> FALSE]
  /\ numExt = 0 /\ bitmap = <<>>
  /\ v = New(receiver) /\ before = New(receiver)

(* Marshal on one side, and the start of Unmarshal on the other, with all  *)
(* of the message or a part of it, and with a new struct or the old one.   *)
Transmit ==
  /\ pc \in {"idle", "ok", "eof"} /\ count < MaxMessages
  /\ count' = count + 1
  /\ \E s \in Messages(sender, count') :
       /\ message' = s
       /\ \E n \in 0 .. Len(Encode(sender, s)) : wire' = SubSeq(Encode(sender, s), 1, n)
  /\ \E target \in {New(receiver), v} : v' = target /\ before' = target
  /\ pos' = 0 /\ i' = 1 /\ hasExt' = FALSE /\ numExt' = 0 /\ bitmap' = <<>>
  /\ present' = [k \in 1 .. Len(Root) |-> FALSE]
  /\ pc' = IF receiver.extensible THEN "extensionBit" ELSE "preamble"
  /\ UNCHANGED <<sender, receiver>>

-----------------------------------------------------------------------------
(* DecodeUPER.  A statement that reads a token returns on the end of input. *)
Reads(kind) == pos < Len(wire) /\ wire[pos + 1].kind = kind
It          == wire[pos + 1].x
Fails(kind) ==
  /\ ~Reads(kind)
  /\ pc' = IF pos = Len(wire) THEN "eof" ELSE "misread"
  /\ UNCHANGED <<pos, locals, v>>
Take(kind) == Reads(kind) /\ pos' = pos + 1

(* Mutant of Goto: a loop starts one before its first field. *)
GotoZero(label) == pc' = label /\ i' = 0

Goto(label) == pc' = label /\ i' = 1
Again       == i' = i + 1 /\ UNCHANGED pc

ReadExtensionBit ==
  /\ pc = "extensionBit"
  /\ \/ Fails("bit")
     \/ /\ Take("bit")
        /\ hasExt' = It
        /\ Goto(IF It /\ receiver.additions = 0 THEN "skipCount" ELSE "preamble")
        /\ UNCHANGED <<present, numExt, bitmap, v>>

(* The type is extensible and knows no addition: these are skipped here,   *)
(* before the preamble and the root fields, each bit with its open type.   *)
SkipCount ==
  /\ pc = "skipCount"
  /\ \/ Fails("small")
     \/ /\ Take("small")
        /\ numExt' = It + 1 /\ Goto("skip")
        /\ UNCHANGED <<hasExt, present, bitmap, v>>

SkipBit ==
  /\ pc = "skip" /\ UNCHANGED <<hasExt, present, numExt, bitmap, v>>
  /\ \/ i > numExt /\ Goto("preamble") /\ UNCHANGED pos
     \/ i <= numExt /\ Fails("bit")
     \/ i <= numExt /\ Take("bit") /\ It /\ pc' = "skipOpen" /\ UNCHANGED i
     \/ i <= numExt /\ Take("bit") /\ ~It /\ Again

SkipOpenType ==
  /\ pc = "skipOpen"
  /\ \/ Fails("open")
     \/ /\ Take("open")
        /\ pc' = "skip" /\ i' = i + 1
        /\ UNCHANGED <<hasExt, present, numExt, bitmap, v>>

ReadPreamble ==
  /\ pc = "preamble" /\ UNCHANGED <<hasExt, numExt, bitmap, v>>
  /\ \/ i > Len(Root) /\ Goto("root") /\ UNCHANGED <<pos, present>>
     \/ i <= Len(Root) /\ ~Root[i] /\ Again /\ UNCHANGED <<pos, present>>
     \/ i <= Len(Root) /\ Root[i] /\ Fails("bit")
     \/ /\ i <= Len(Root) /\ Root[i] /\ Take("bit")
        /\ present' = [present EXCEPT ![i] = It] /\ Again

(* Mutants of ReadRoot: only fields with a presence bit are read; the       *)
(* additions are looked for whatever the extension bit says.                *)
ReadRootOptional ==
  /\ pc = "root" /\ UNCHANGED <<hasExt, present, numExt, bitmap>>
  /\ \/ i > Len(Root) /\ Goto("ok") /\ UNCHANGED <<pos, v>>
     \/ i <= Len(Root) /\ ~present[i] /\ Again /\ UNCHANGED <<pos, v>>
     \/ i <= Len(Root) /\ present[i] /\ Fails("value")
     \/ i <= Len(Root) /\ present[i] /\ Take("value") /\ v' = [v EXCEPT !.root[i] = It] /\ Again

ReadRootThenCount ==
  /\ pc = "root" /\ UNCHANGED <<hasExt, present, numExt, bitmap>>
  /\ \/ /\ i > Len(Root) /\ UNCHANGED <<pos, v>>
        /\ Goto(IF receiver.additions > 0 THEN "count" ELSE "ok")
     \/ i <= Len(Root) /\ Root[i] /\ ~present[i] /\ Again /\ UNCHANGED <<pos, v>>
     \/ i <= Len(Root) /\ (Root[i] => present[i]) /\ Fails("value")
     \/ /\ i <= Len(Root) /\ (Root[i] => present[i]) /\ Take("value")
        /\ v' = [v EXCEPT !.root[i] = It] /\ Again

(* An absent OPTIONAL field is left as it is in v. *)
ReadRoot ==
  /\ pc = "root" /\ UNCHANGED <<hasExt, present, numExt, bitmap>>
  /\ \/ /\ i > Len(Root) /\ UNCHANGED <<pos, v>>
        /\ Goto(IF hasExt /\ receiver.additions > 0 THEN "count" ELSE "ok")
     \/ i <= Len(Root) /\ Root[i] /\ ~present[i] /\ Again /\ UNCHANGED <<pos, v>>
     \/ i <= Len(Root) /\ (Root[i] => present[i]) /\ Fails("value")
     \/ /\ i <= Len(Root) /\ (Root[i] => present[i]) /\ Take("value")
        /\ v' = [v EXCEPT !.root[i] = It] /\ Again

ReadCount ==
  /\ pc = "count"
  /\ \/ Fails("small")
     \/ /\ Take("small")
        /\ numExt' = It + 1 /\ bitmap' = [k \in 1 .. It + 1 |-> FALSE]
        /\ Goto("bitmap") /\ UNCHANGED <<hasExt, present, v>>

ReadBitmap ==
  /\ pc = "bitmap" /\ UNCHANGED <<hasExt, present, numExt, v>>
  /\ \/ i > numExt /\ Goto("additions") /\ UNCHANGED <<pos, bitmap>>
     \/ i <= numExt /\ Fails("bit")
     \/ i <= numExt /\ Take("bit") /\ bitmap' = [bitmap EXCEPT ![i] = It] /\ Again

(* Mutants of ReadAddition: the last known addition is dropped; the index   *)
(* does not move past an absent one.                                        *)
ReadAdditionOffByOne ==
  /\ pc = "additions" /\ UNCHANGED <<hasExt, present, numExt, bitmap>>
  /\ \/ i > numExt /\ Goto("ok") /\ UNCHANGED <<pos, v>>
     \/ i <= numExt /\ ~bitmap[i] /\ Again /\ UNCHANGED <<pos, v>>
     \/ i <= numExt /\ bitmap[i] /\ Fails("open")
     \/ /\ i <= numExt /\ bitmap[i] /\ Take("open") /\ Again
        /\ v' = IF i < receiver.additions THEN [v EXCEPT !.ext[i] = It] ELSE v

ReadAdditionStuck ==
  /\ pc = "additions" /\ UNCHANGED <<hasExt, present, numExt, bitmap>>
  /\ \/ i > numExt /\ Goto("ok") /\ UNCHANGED <<pos, v>>
     \/ i <= numExt /\ ~bitmap[i] /\ UNCHANGED <<pc, i, pos, v>>
     \/ i <= numExt /\ bitmap[i] /\ Fails("open")
     \/ /\ i <= numExt /\ bitmap[i] /\ Take("open") /\ Again
        /\ v' = IF i <= receiver.additions THEN [v EXCEPT !.ext[i] = It] ELSE v

(* An addition the receiver does not know is read and dropped. *)
ReadAddition ==
  /\ pc = "additions" /\ UNCHANGED <<hasExt, present, numExt, bitmap>>
  /\ \/ i > numExt /\ Goto("ok") /\ UNCHANGED <<pos, v>>
     \/ i <= numExt /\ ~bitmap[i] /\ Again /\ UNCHANGED <<pos, v>>
     \/ i <= numExt /\ bitmap[i] /\ Fails("open")
     \/ /\ i <= numExt /\ bitmap[i] /\ Take("open") /\ Again
        /\ v' = IF i <= receiver.additions THEN [v EXCEPT !.ext[i] = It] ELSE v

Decode ==
  /\ \/ ReadExtensionBit \/ SkipCount \/ SkipBit \/ SkipOpenType \/ ReadPreamble
     \/ ReadRoot \/ ReadCount \/ ReadBitmap \/ ReadAddition
  /\ UNCHANGED <<sides, wire, before>>

Next == Transmit \/ Decode

Spec == Init /\ [][Next]_vars

(* A decoder that was called runs to its end. *)
FairSpec == Spec /\ WF_vars(Decode)

-----------------------------------------------------------------------------
Ended == {"idle", "ok", "eof", "misread"}

TypeOK ==
  /\ sender \in Versions /\ receiver \in Versions /\ count \in 0 .. MaxMessages
  /\ message \in Struct(sender) /\ v \in Struct(receiver) /\ before \in Struct(receiver)
  /\ pos \in 0 .. Len(wire) /\ i \in Nat \ {0} /\ numExt \in Nat
  /\ hasExt \in BOOLEAN /\ bitmap \in Seq(BOOLEAN)
  /\ pc \in Ended \union {"extensionBit", "skipCount", "skip", "skipOpen", "preamble",
                          "root", "count", "bitmap", "additions"}

(* The branch for a type without additions apart, see FutureAdditionsIgnored. *)
Understood ==
  /\ sender.extensible = receiver.extensible
  /\ receiver.additions = 0 => \A k \in DOMAIN message.ext : message.ext[k] = Nil

Whole == wire = Encode(sender, message)

(* Field k of the message as the receiver should see it: an addition the   *)
(* sender does not know is absent.                                         *)
SentRoot(k) == message.root[k]
SentExt(k)  == IF k <= sender.additions THEN message.ext[k] ELSE Nil

(* Between any two versions, a decoder that returns without error has read *)
(* the whole message and nothing after it, and has found in it every field *)
(* it knows; the fields that are absent are as they were before the call.  *)
FieldsDelivered ==
  pc = "ok" /\ Understood =>
    /\ Whole /\ pos = Len(wire)
    /\ \A k \in 1 .. Len(Root) :
         v.root[k] = IF SentRoot(k) # Nil THEN SentRoot(k) ELSE before.root[k]
    /\ \A k \in 1 .. receiver.additions :
         v.ext[k] = IF SentExt(k) # Nil THEN SentExt(k) ELSE before.ext[k]

(* The decoder stays in step with the encoder, whichever of the two is     *)
(* older, and reports the end of input only for a message that was cut.    *)
InStep ==
  Understood => pc # "misread" /\ (pc = "eof" => ~Whole)

(* A decoder that fails has already changed the struct: what it changed    *)
(* are the first fields of the message, each as it was sent, and the rest  *)
(* is as before the call: a root field only after those before it, an      *)
(* addition only after all the root fields.                                *)
FilledInOrder ==
  pc # "idle" /\ Understood =>
    LET changed == {k \in 1 .. Len(Root) : v.root[k] # before.root[k]}
        added   == {k \in 1 .. receiver.additions : v.ext[k] # before.ext[k]}
        arrived(k) == SentRoot(k) = Nil \/ v.root[k] = SentRoot(k)
    IN  /\ \A k \in changed : \A m \in 1 .. k : arrived(m)
        /\ \A k \in added : /\ \A m \in 1 .. Len(Root) : arrived(m)
                            /\ \A m \in 1 .. k : SentExt(m) = Nil \/ v.ext[m] = SentExt(m)

(* Every call of Unmarshal returns. *)
DecoderReturns == pc \notin Ended ~> pc \in Ended

(* "Ignore unknown future extension addition" (generator.go:702): an       *)
(* extensible receiver returns without error, with every field it knows,   *)
(* from a whole message of any later version.                              *)
FutureAdditionsIgnored ==
  sender.extensible /\ receiver.extensible /\ Whole =>
    /\ pc \notin {"misread", "eof"}
    /\ pc = "ok" => \A k \in 1 .. Len(Root) : SentRoot(k) # Nil => v.root[k] = SentRoot(k)

=============================================================================
