-------------------------------- MODULE Codecs --------------------------------
(***************************************************************************)
(* The wire codecs of include/proto/sbe/decode.hpp and                     *)
(* include/proto/mcx/decode.hpp.  A message of either format is a header,  *)
(* a block of fixed size and, in SBE, strings that carry their length in   *)
(* one byte.  One side encodes a message into a buffer; what arrives at    *)
(* the other side is that buffer, a part of it, or something else.         *)
(*                                                                         *)
(* A wire is a sequence of numbers, one for each field of the header and   *)
(* one for each byte behind it, so that headers are shorter here than in   *)
(* the code.  data[offset] is wire[offset + 1].                            *)
(***************************************************************************)
EXTENDS Integers, Sequences

CONSTANTS
  Layouts,      \* the messages: format, template, schema, version, block, caps
  Messages,     \* what may be encoded: layout, body and strings
  Capacities,   \* of the buffers that are encoded into
  Wires         \* what may arrive from elsewhere

IsText(s) == s \in Seq(Nat)

IsMessage(l, m) ==
  /\ m \in [body : Seq(Nat), strings : Seq(Seq(Nat))]
  /\ Len(m.body) = l.block /\ Len(m.strings) = Len(l.caps)

(* MCX messages have no strings. *)
ASSUME LayoutsAssumption ==
  \A l \in Layouts :
    /\ l.format \in {"sbe", "eti"}
    /\ l.template \in Nat /\ l.block \in Nat \ {0} /\ l.caps \in Seq(Nat \ {0})
    /\ l.format = "sbe" => l.schema \in Nat /\ l.version \in Nat
    /\ l.format = "eti" => l.caps = <<>>
ASSUME MessagesAssumption == \A l \in Layouts : \A m \in Messages[l] : IsMessage(l, m)
ASSUME WiresAssumption == Capacities \subseteq Nat /\ \A l \in Layouts : \A w \in Wires[l] : IsText(w)

VARIABLES
  layout,       \* the message that the two sides encode and decode
  sent,         \* the message that was encoded, or NoMessage
  cap, dst,     \* of the buffer: its capacity, and the bytes written to it
  pc,
  wire,         \* what arrived
  len,          \* how much of it the decoder is told of
  k,            \* which string is next, of those encoded or decoded
  offset,       \* of the decoder
  body, strings \* what the decoder has filled in

vars == <<layout, sent, cap, dst, pc, wire, len, k, offset, body, strings>>

NoMessage == [body |-> <<>>, strings |-> <<>>]

Header(l) ==
  IF l.format = "sbe" THEN <<l.block, l.template, l.schema, l.version>>
                      ELSE <<l.block + 2, l.template>>

HeaderSize(l) == Len(Header(l))

FixedSize(l) == HeaderSize(l) + l.block

(* Each string takes one more byte than it has characters. *)
Total(l, m) ==
  LET size[i \in 0 .. Len(m.strings)] ==
        IF i = 0 THEN FixedSize(l) ELSE size[i - 1] + 1 + Len(m.strings[i])
  IN  size[Len(m.strings)]

Init ==
  /\ layout \in Layouts
  /\ dst = <<>> /\ len = 0 /\ k = 1 /\ offset = 0 /\ body = <<>>
  /\ strings = [i \in DOMAIN layout.caps |-> <<>>]
  /\ \/ /\ pc = "encode" /\ sent \in Messages[layout] /\ cap \in Capacities
        /\ wire = <<>>
     \/ /\ pc = "arrive" /\ sent = NoMessage /\ cap = 0
        /\ wire \in Wires[layout]

-----------------------------------------------------------------------------
(* Encoding *)

(* Mutant: the length byte of one of the strings is not counted. *)
EncodeFixedOneShort ==
  /\ pc = "encode"
  /\ IF cap < Total(layout, sent) - 1
       THEN pc' = "send" /\ UNCHANGED dst
       ELSE pc' = "append" /\ dst' = Header(layout) \o sent.body
  /\ UNCHANGED <<layout, sent, cap, wire, len, k, offset, body, strings>>

(* A buffer that is too small for all of the message is left alone. *)
EncodeFixed ==
  /\ pc = "encode"
  /\ IF cap < Total(layout, sent)
       THEN pc' = "send" /\ UNCHANGED dst
       ELSE pc' = "append" /\ dst' = Header(layout) \o sent.body
  /\ UNCHANGED <<layout, sent, cap, wire, len, k, offset, body, strings>>

(* append_var_string8: the length byte, then the characters. *)
Follow(s, text) == s \o <<Len(text)>> \o text

(* Mutant: an empty string is left out, its length byte too. *)
AppendStringUnlessEmpty ==
  /\ pc = "append"
  /\ k \in DOMAIN sent.strings
  /\ dst' = IF sent.strings[k] = <<>> \/ Len(dst) + 1 + Len(sent.strings[k]) > cap
              THEN dst
              ELSE Follow(dst, sent.strings[k])
  /\ k' = k + 1
  /\ UNCHANGED <<layout, sent, cap, pc, wire, len, offset, body, strings>>

AppendString ==
  /\ pc = "append"
  /\ k \in DOMAIN sent.strings
  /\ dst' = IF Len(dst) + 1 + Len(sent.strings[k]) > cap
              THEN dst
              ELSE Follow(dst, sent.strings[k])
  /\ k' = k + 1
  /\ UNCHANGED <<layout, sent, cap, pc, wire, len, offset, body, strings>>

Encoded ==
  /\ pc = "append"
  /\ k \notin DOMAIN sent.strings
  /\ pc' = "send"
  /\ UNCHANGED <<layout, sent, cap, dst, wire, len, k, offset, body, strings>>

(* All or a part of it arrives. *)
Send ==
  /\ pc = "send"
  /\ pc' = "arrive"
  /\ \E n \in 0 .. Len(dst) : wire' = SubSeq(dst, 1, n)
  /\ k' = 1
  /\ UNCHANGED <<layout, sent, cap, dst, len, offset, body, strings>>

-----------------------------------------------------------------------------
(* Decoding *)

Refuse == pc' = "refused"

(* The decoder is called with what arrived. *)
Pass(n) == pc' = "decode" /\ len' = n

(* The frame splitters look at the length in the header first. *)
SplitFrame ==
  /\ pc = "arrive"
  /\ IF layout.format = "sbe"
       THEN IF Len(wire) < HeaderSize(layout) \/ HeaderSize(layout) + wire[1] > Len(wire)
              THEN Refuse /\ UNCHANGED len
              ELSE Pass(Len(wire))
       ELSE IF Len(wire) < HeaderSize(layout) \/ wire[1] = 0 \/ wire[1] > Len(wire)
              THEN Refuse /\ UNCHANGED len
              ELSE Pass(wire[1])
  /\ UNCHANGED <<layout, sent, cap, dst, wire, k, offset, body, strings>>

(* Or they are not used, as in main. *)
Deliver ==
  /\ pc = "arrive"
  /\ Pass(Len(wire))
  /\ UNCHANGED <<layout, sent, cap, dst, wire, k, offset, body, strings>>

TooShort == len < FixedSize(layout) + (IF layout.caps = <<>> THEN 0 ELSE 1)

(* The version is not looked at, nor is the length of an MCX message. *)
HeaderFits ==
  /\ wire[2] = layout.template
  /\ layout.format = "sbe" => wire[3] = layout.schema /\ wire[1] >= layout.block

(* An MCX message is copied before its template is looked at. *)
DecodeFixed ==
  /\ pc = "decode"
  /\ IF TooShort \/ (layout.format = "sbe" /\ ~HeaderFits)
       THEN Refuse /\ UNCHANGED <<offset, body>>
       ELSE /\ pc' = IF ~HeaderFits THEN "refused" ELSE IF layout.caps = <<>> THEN "accepted" ELSE "string"
            /\ offset' = FixedSize(layout)
            /\ body' = SubSeq(wire, HeaderSize(layout) + 1, FixedSize(layout))
  /\ UNCHANGED <<layout, sent, cap, dst, wire, len, k, strings>>

(* Mutant: a string that fills its field is accepted. *)
StringTooLongByOne(n) == offset + 1 + n > len \/ n > layout.caps[k]

(* A string must leave room for the zero that ends it. *)
StringTooLong(n) == offset + 1 + n > len \/ n >= layout.caps[k]

(* The length byte, then the characters. *)
ReadString ==
  /\ pc = "string"
  /\ IF offset >= len
       THEN Refuse /\ UNCHANGED <<offset, k, strings>>
       ELSE LET n == wire[offset + 1]
            IN  IF StringTooLong(n)
                  THEN Refuse /\ offset' = offset + 1 /\ UNCHANGED <<k, strings>>
                  ELSE /\ strings' = [strings EXCEPT ![k] = SubSeq(wire, offset + 2, offset + 1 + n)]
                       /\ offset' = offset + 1 + n
                       /\ k' = k + 1
                       /\ pc' = IF k = Len(layout.caps) THEN "accepted" ELSE "string"
  /\ UNCHANGED <<layout, sent, cap, dst, wire, len, body>>

Next == EncodeFixed \/ AppendString \/ Encoded \/ Send \/ SplitFrame \/ Deliver \/ DecodeFixed \/ ReadString

Spec == Init /\ [][Next]_vars

-----------------------------------------------------------------------------

(* What the wire of a message is, whoever encodes it: its header and body, *)
(* and one string after the other.                                         *)
Prefixes(l, m) ==
  LET first[i \in 0 .. Len(m.strings)] ==
        IF i = 0 THEN Header(l) \o m.body ELSE Follow(first[i - 1], m.strings[i])
  IN  first

Encoding(l, m) == Prefixes(l, m)[Len(m.strings)]

(* An encoder writes the whole message or nothing, within the capacity it  *)
(* was given, and a message of which a part is missing is not accepted.    *)
AllOrNothing ==
  /\ pc # "append" => dst \in {<<>>, Encoding(layout, sent)}
  /\ Len(dst) <= cap
  /\ sent # NoMessage /\ Len(wire) < Len(Encoding(layout, sent)) => pc # "accepted"

(* Whatever arrives, a decoder has read only what it was told of, no more  *)
(* than arrived, and each string leaves room in its field for the zero.    *)
WithinBounds ==
  /\ offset <= len /\ len <= Len(wire)
  /\ Len(body) <= layout.block
  /\ \A i \in DOMAIN strings : Len(strings[i]) < layout.caps[i]

(* What makes it inductive. *)
EncoderInv ==
  /\ layout \in Layouts
  /\ pc \in {"encode", "append"} => sent \in Messages[layout]
  /\ IsText(dst) /\ IsText(wire)
  /\ k \in Nat
  /\ pc \in {"encode", "append", "send"} => len = 0

DecoderInv ==
  /\ pc \in {"encode", "append", "send", "arrive", "decode", "string", "accepted", "refused"}
  /\ pc \in {"arrive", "decode"} => k = 1
  /\ pc \notin {"string", "accepted", "refused"} => offset = 0
  /\ pc = "string" => k \in DOMAIN layout.caps
  /\ len \in Nat /\ offset \in Nat
  /\ DOMAIN strings = DOMAIN layout.caps
  /\ WithinBounds

CodecsInv == EncoderInv /\ DecoderInv

(* What is accepted is what would be sent: encoded again it gives the wire *)
(* it came from, but for the lengths and the version in the header: what   *)
(* follows a longer block is not looked for behind it.  And what was sent  *)
(* whole is accepted as it was, unless a string is as long as its field.   *)
RoundTrip ==
  LET again == [body |-> body, strings |-> strings]
      Behind(w) == SubSeq(w, HeaderSize(layout) + 1, offset)
  IN  /\ pc = "accepted" =>
           /\ wire[2] = layout.template
           /\ Len(Encoding(layout, again)) = offset
           /\ Behind(Encoding(layout, again)) = Behind(wire)
      /\ sent # NoMessage /\ wire = dst /\ dst # <<>> =>
           /\ pc = "accepted" => again = sent
           /\ pc = "refused" => \E i \in DOMAIN sent.strings : Len(sent.strings[i]) >= layout.caps[i]
=============================================================================
