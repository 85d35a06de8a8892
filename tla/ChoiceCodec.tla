----------------------------- MODULE ChoiceCodec -----------------------------
(***************************************************************************)
(* The EncodeUPER and DecodeUPER methods that pkg/generator/generator.go   *)
(* emits for a CHOICE (emitChoiceType) and for an ENUMERATED               *)
(* (emitEnumeratedType).  A sender and a receiver may have been generated  *)
(* from different versions of the type; the receiver decodes into a new    *)
(* struct or into the one it used before, from a whole message, a cut one  *)
(* or a damaged one, and may encode again what it decoded (a relay).       *)
(*                                                                         *)
(* Alternatives, or items, are numbered from 1, those of the root first.   *)
(* Both kinds of struct have a tag: the Choice field of a CHOICE, which is *)
(* the number of the alternative or 0 for None; the number itself of an    *)
(* ENUMERATED.  The wire is a sequence of tokens, as in SequenceCodec.     *)
(***************************************************************************)
EXTENDS Integers, Sequences

CONSTANTS
  Items,         (* the value of each item of the root of the ENUMERATED; the  *)
                 (* CHOICE has as many alternatives in its root                *)
  MoreItems,     (* the values of the items added by later versions            *)
  UnknownBase,   (* 1000: what an unknown extension item is decoded to, less   *)
                 (* its index                                                  *)
  WidestIndex,   (* the largest number the field of a root index can hold      *)
  Versions,      (* records of Version                                         *)
  MaxMessages    (* bound: how many messages are sent                          *)

Version == [extensible : BOOLEAN, additions : Nat]
Root == Len(Items)

ASSUME ChoiceAssumption ==
  /\ Items \in Seq(Nat) /\ MoreItems \in Seq(Nat) /\ Root > 0
  /\ \A j, k \in 1 .. Root + Len(MoreItems) :
       (Items \o MoreItems)[j] = (Items \o MoreItems)[k] => j = k
  /\ UnknownBase \in Nat /\ WidestIndex \in Nat /\ WidestIndex >= Root - 1
  /\ Versions \subseteq Version
  /\ \A version \in Versions :
       /\ version.additions <= Len(MoreItems)
       /\ ~version.extensible => version.additions = 0
  /\ MaxMessages \in Nat

VARIABLES
  type,              (* "CHOICE" or "ENUMERATED"                               *)
  sender, receiver,  (* the versions the two sides were generated from         *)
  count, message,    (* messages sent so far; the last struct encoded          *)
  wire, damaged,     (* what the decoder got of it; whether it was changed     *)
  pos, pc, index,    (* tokens read; where DecodeUPER is; its extIdx           *)
  v, before,         (* the struct it fills, and what that held before         *)
  forwarded          (* what the relay encoded of it                           *)

setting == <<type, sender, receiver>>
input   == <<count, message, wire, damaged, before>>
vars    == <<setting, input, pos, pc, index, v, forwarded>>

Nil == <<>>
Known(version) == Root + version.additions

(* The tag of alternative or item k, and the one a version knows by a tag, *)
(* 0 if it knows none.                                                     *)
TagOf(k) == IF type = "CHOICE" THEN k ELSE (Items \o MoreItems)[k]
NamedOrLast(version, tag) ==   (* mutant of Named: an unknown tag stands for the last *)
  IF \E k \in 1 .. Known(version) : TagOf(k) = tag
    THEN CHOOSE k \in 1 .. Known(version) : TagOf(k) = tag
    ELSE Known(version)

Named(version, tag) ==
  IF \E k \in 1 .. Known(version) : TagOf(k) = tag
    THEN CHOOSE k \in 1 .. Known(version) : TagOf(k) = tag
    ELSE 0

(* A struct; an ENUMERATED has no pointers to values. *)
New(version) ==
  [tag |-> 0, alt |-> IF type = "CHOICE" THEN [k \in 1 .. Known(version) |-> Nil] ELSE <<>>]

Token(kind, x) == [kind |-> kind, x |-> x]
Refused == [ok |-> FALSE, tokens |-> <<>>]

(* EncodeUPER.  An unknown tag and a nil alternative are errors; Marshal   *)
(* drops what was written before the error.                                *)
Encode(version, s) ==
  LET k     == Named(version, s.tag)
      isExt == k > Root
      head  == CASE ~version.extensible -> <<Token("index", k - 1)>>
                 [] version.extensible /\ ~isExt -> <<Token("bit", FALSE), Token("index", k - 1)>>
                 [] OTHER -> <<Token("bit", TRUE), Token("small", k - Root - 1)>>
      value == IF type = "CHOICE"
                 THEN <<Token(IF isExt THEN "open" ELSE "value", s.alt[k])>> ELSE <<>>
  IN  IF k = 0 \/ (type = "CHOICE" /\ s.alt[k] = Nil)
        THEN Refused ELSE [ok |-> TRUE, tokens |-> head \o value]

(* A message with alternative k in it, its value known by message and k. *)
Filled(version, k, m) ==
  [tag |-> TagOf(k),
   alt |-> IF type = "CHOICE" THEN [New(version).alt EXCEPT ![k] = <<m, k>>] ELSE <<>>]

(* Messages in which the root index is any number its field can hold, or   *)
(* the open type holds too few bits for a value.                           *)
Damage(tokens) ==
  LET places(kind) == {k \in 1 .. Len(tokens) : tokens[k].kind = kind}
  IN  {[tokens EXCEPT ![j].x = n] : j \in places("index"), n \in 0 .. WidestIndex}
      \union {[tokens EXCEPT ![j].x = Nil] : j \in places("open")}

Init ==
  /\ type \in {"CHOICE", "ENUMERATED"}
  /\ sender \in Versions /\ receiver \in Versions
  /\ count = 0 /\ message = New(sender)
  /\ wire = <<>> /\ damaged = FALSE /\ pos = 0 /\ pc = "idle" /\ index = 0
  /\ v = New(receiver) /\ before = New(receiver) /\ forwarded = Refused

(* Marshal on one side, and the start of Unmarshal on the other. *)
Transmit ==
  /\ pc \in {"idle", "ok", "eof", "invalid"} /\ count < MaxMessages
  /\ count' = count + 1
  /\ \E k \in 1 .. Known(sender) :
       LET tokens == Encode(sender, Filled(sender, k, count')).tokens
       IN  /\ message' = Filled(sender, k, count')
           /\ \/ damaged' = FALSE /\ \E n \in 0 .. Len(tokens) : wire' = SubSeq(tokens, 1, n)
              \/ damaged' = TRUE /\ wire' \in Damage(tokens)
  /\ \E target \in {New(receiver), v} : v' = target /\ before' = target
  /\ pos' = 0 /\ index' = 0 /\ forwarded' = Refused
  /\ pc' = IF receiver.extensible THEN "extensionBit" ELSE "rootIndex"
  /\ UNCHANGED setting

-----------------------------------------------------------------------------
(* DecodeUPER.  A statement that reads returns on the end of input; a      *)
(* token of another kind than it reads would be taken for something else.  *)
It == wire[pos + 1].x
Take(kind) == pos < Len(wire) /\ wire[pos + 1].kind = kind /\ pos' = pos + 1
Fails(kind) ==
  /\ UNCHANGED <<pos, v>>
  /\ \/ pos = Len(wire) /\ pc' = "eof"
     \/ pos < Len(wire) /\ wire[pos + 1].kind # kind /\ pc' = "misread"

ReadExtensionBit ==
  /\ pc = "extensionBit"
  /\ \/ Fails("bit")
     \/ /\ Take("bit") /\ pc' = IF It THEN "extensionIndex" ELSE "rootIndex"
        /\ UNCHANGED v
  /\ UNCHANGED <<setting, input, index, forwarded>>

(* Mutant of ReadRootIndex: the index is not compared with the root. *)
ReadRootIndexUnchecked ==
  /\ pc = "rootIndex"
  /\ \/ Fails("index")
     \/ Take("index") /\ v' = [v EXCEPT !.tag = It + 1] /\ pc' = "ok"
  /\ UNCHANGED <<setting, input, index, forwarded>>

(* An index beyond the root is an error; any other sets the tag, which     *)
(* stays set if the value that follows cannot be decoded.                  *)
ReadRootIndex ==
  /\ pc = "rootIndex" /\ UNCHANGED <<setting, input, index, forwarded>>
  /\ \/ Fails("index")
     \/ Take("index") /\ It >= Root /\ pc' = "invalid" /\ UNCHANGED v
     \/ /\ Take("index") /\ It < Root
        /\ v' = [v EXCEPT !.tag = TagOf(It + 1)]
        /\ pc' = IF type = "CHOICE" THEN "value" ELSE "ok"

(* Mutant of ReadRootValue: the pointer is set before the value is decoded. *)
ReadRootValueEarly ==
  /\ pc = "value" /\ v' = [v EXCEPT !.alt[v.tag] = <<count, 0>>]
  /\ \/ pos = Len(wire) /\ pc' = "eof" /\ UNCHANGED pos
     \/ Take("value") /\ pc' = "ok"
  /\ UNCHANGED <<setting, input, index, forwarded>>

ReadRootValue ==
  /\ pc = "value"
  /\ \/ Fails("value")
     \/ Take("value") /\ v' = [v EXCEPT !.alt[v.tag] = It] /\ pc' = "ok"
  /\ UNCHANGED <<setting, input, index, forwarded>>

(* Mutant of ReadExtensionIndex: the index of an unknown item is its value. *)
ReadExtensionIndexBare ==
  /\ pc = "extensionIndex" /\ UNCHANGED <<setting, input, forwarded>>
  /\ \/ Fails("small") /\ UNCHANGED index
     \/ Take("small") /\ index' = It /\ v' = [v EXCEPT !.tag = It] /\ pc' = "ok"

(* An unknown item is decoded to a number of its own. *)
ReadExtensionIndex ==
  /\ pc = "extensionIndex" /\ UNCHANGED <<setting, input, forwarded>>
  /\ \/ Fails("small") /\ UNCHANGED index
     \/ /\ Take("small") /\ index' = It
        /\ IF type = "CHOICE"
             THEN pc' = "openType" /\ UNCHANGED v
             ELSE /\ pc' = "ok"
                  /\ v' = [v EXCEPT !.tag = IF It < receiver.additions
                             THEN TagOf(Root + It + 1) ELSE It + UnknownBase]

(* Mutants of ReadOpenType: the value is not stored; the open type of an    *)
(* unknown alternative is left unread.                                      *)
ReadOpenTypeTagged ==
  /\ pc = "openType" /\ UNCHANGED <<setting, input, forwarded, index>>
  /\ \/ pos = Len(wire) /\ pc' = "eof" /\ UNCHANGED <<pos, v>>
     \/ /\ Take("open") /\ pc' = "ok"
        /\ v' = IF index < receiver.additions THEN [v EXCEPT !.tag = Root + index + 1] ELSE v

ReadOpenTypeIfKnown ==
  /\ pc = "openType" /\ UNCHANGED <<setting, input, forwarded, index>>
  /\ \/ pos = Len(wire) /\ pc' = "eof" /\ UNCHANGED <<pos, v>>
     \/ index >= receiver.additions /\ pc' = "ok" /\ UNCHANGED <<pos, v>>
     \/ /\ index < receiver.additions /\ Take("open") /\ pc' = "ok"
        /\ v' = [v EXCEPT !.tag = Root + index + 1, !.alt[Root + index + 1] = It]

(* The open type is read whole before the alternative is looked at; one    *)
(* that the receiver does not know changes nothing and is no error.  The   *)
(* tag of a known one is set before its value is decoded.                  *)
ReadOpenType ==
  /\ pc = "openType" /\ UNCHANGED <<setting, input, index, forwarded>>
  /\ \/ Fails("open")
     \/ Take("open") /\ index >= receiver.additions /\ pc' = "ok" /\ UNCHANGED v
     \/ /\ Take("open") /\ index < receiver.additions
        /\ IF It = Nil
             THEN pc' = "eof" /\ v' = [v EXCEPT !.tag = Root + index + 1]
             ELSE /\ pc' = "ok"
                  /\ v' = [v EXCEPT !.tag = Root + index + 1, !.alt[Root + index + 1] = It]

(* A relay encodes the struct it decoded. *)
Forward ==
  /\ pc = "ok" /\ forwarded = Refused
  /\ forwarded' = Encode(receiver, v)
  /\ UNCHANGED <<setting, input, pos, pc, index, v>>

Next ==
  \/ Transmit
  \/ ReadExtensionBit \/ ReadRootIndex \/ ReadRootValue
  \/ ReadExtensionIndex \/ ReadOpenType
  \/ Forward

Spec == Init /\ [][Next]_vars

-----------------------------------------------------------------------------
TypeOK ==
  /\ type \in {"CHOICE", "ENUMERATED"} /\ sender \in Versions /\ receiver \in Versions
  /\ count \in 0 .. MaxMessages /\ pos \in 0 .. Len(wire) /\ index \in Nat
  /\ damaged \in BOOLEAN /\ forwarded.ok \in BOOLEAN
  /\ pc \in {"idle", "extensionBit", "rootIndex", "value", "extensionIndex", "openType",
             "ok", "eof", "invalid", "misread"}
  /\ \A s \in {v, before} :
       IF type = "CHOICE"
         THEN s.tag \in 0 .. Known(receiver) /\ DOMAIN s.alt = 1 .. Known(receiver)
         ELSE s.tag \in Nat /\ s.alt = <<>>

Original   == Encode(sender, message).tokens
Compatible == sender.extensible = receiver.extensible /\ ~damaged
Sent       == Named(sender, message.tag)
Understood == Sent <= Known(receiver)

(* Between any two versions, a decoder that returns without error has read *)
(* the whole message and nothing after it; if it knows the alternative, it *)
(* has selected it with the value sent, and left the others alone.         *)
Delivered ==
  pc = "ok" /\ Compatible =>
    /\ wire = Original /\ pos = Len(wire)
    /\ Understood =>
         /\ v.tag = message.tag
         /\ \A k \in DOMAIN v.alt : v.alt[k] = IF k = Sent THEN message.alt[k] ELSE before.alt[k]

(* "Ignore unsupported future extension choice" (generator.go:540): an     *)
(* alternative that the receiver does not know is never an error, changes  *)
(* nothing in the struct, and is never taken for one that it knows; an     *)
(* unknown item of an ENUMERATED is not taken for a known one either,      *)
(* unless that has the very value unknown items are moved to.              *)
UnknownIgnored ==
  Compatible /\ pc # "idle" /\ ~Understood =>
    /\ wire = Original => pc \notin {"eof", "invalid", "misread"}
    /\ type = "CHOICE" => v = before
    /\ type = "ENUMERATED" /\ pc = "ok" /\ Named(receiver, v.tag) # 0 =>
         v.tag = UnknownBase + (Sent - Root - 1)

(* The bits of a damaged or cut message never select an alternative that   *)
(* does not exist, and a decode that fails changes the tag at most: no     *)
(* pointer is set to a value that was not decoded.                         *)
FailureKeepsValues ==
  /\ pc \in {"eof", "invalid", "misread"} => v.alt = before.alt
  /\ v.tag # before.tag /\ pc # "ok" => type = "CHOICE" /\ v.tag \in 1 .. Known(receiver)

(* A CHOICE that is consistent before the call names a value after it.     *)
Consistent(s) == type = "CHOICE" /\ s.tag # 0 => s.alt[s.tag] # Nil
StaysConsistent == pc = "ok" /\ Consistent(before) => Consistent(v)

(* What a relay passes on is the message it was sent, bit for bit: it      *)
(* refuses an alternative or item it did not understand.  That needs a new *)
(* struct for each message: in a reused one the alternative before is      *)
(* still selected after an unknown one (generator.go:540), and an unknown  *)
(* item must not be moved to the value of a known one (generator.go:440).  *)
Clash == type = "ENUMERATED" /\ \E k \in 1 .. Known(receiver) :
           TagOf(k) = UnknownBase + (Sent - Root - 1)
RelayFaithful ==
  pc = "ok" /\ Compatible /\ forwarded.ok /\ (Understood \/ (before = New(receiver) /\ ~Clash)) =>
    forwarded.tokens = Original
=============================================================================
