------------------------------ MODULE WireCodec ------------------------------
(***************************************************************************)
(* The ClickHouse packets of decoder/ClickHouse_Wire.cpp: an encoder       *)
(* writes numbers and strings into a ClickWriteProtoBuffer, the bytes are  *)
(* sent, and a decoder reads the same fields from a ClickReadProtoBuffer.  *)
(*                                                                         *)
(* A packet is any sequence of fields, among them the server's hello       *)
(* packet, which EncodeHelloPacket writes in one go, and packets of        *)
(* ClickHouse clients.  A decoder reads fields of the kinds it expects, at *)
(* places looks at the results of its reads, and is given packets that     *)
(* start with such fields.                                                 *)
(*                                                                         *)
(* A byte is a number below 2 * Radix: at Radix and above, the             *)
(* continuation bit (0x80) is set.                                         *)
(***************************************************************************)
EXTENDS Naturals, Sequences

CONSTANTS
  Radix,            \* 128: what seven bits hold
  Limit,            \* 2^64: what a uint64_t holds
  MaxVarintBytes,   \* MAX_VARINT_BYTES, 10
  MaxLength,        \* the longest string ReadString accepts (0x00FFFFFF)
  Numbers,          \* bound: the numbers written
  Strings,          \* bound: the strings written, as sequences of bytes
  MaxFields,        \* bound: how many fields a packet has
  Hello,            \* the fields of EncodeHelloPacket
  ClientPackets     \* packets that clients send

Byte == 0..(2 * Radix - 1)

(* What the lowest bit of byte number i of a number stands for: 1 << (7 * i). *)
Weight[i \in 0..MaxVarintBytes] == IF i = 0 THEN 1 ELSE Radix * Weight[i - 1]

(* The fields a packet may have. *)
Texts == {text \in Seq(Byte) : Len(text) <= MaxLength}

AnyField ==
  [kind : {"number"}, value : 0..(Limit - 1)] \cup [kind : {"string"}, value : Texts]

ASSUME WireAssumption ==
  /\ Radix \in Nat \ {0, 1}
  /\ MaxVarintBytes \in Nat \ {0}
  /\ Limit \in Nat /\ Limit <= Weight[MaxVarintBytes]
  /\ MaxLength \in Nat /\ MaxLength < Limit
  /\ Numbers \subseteq 0..(Limit - 1)
  /\ Strings \subseteq Texts
  /\ Hello \in Seq(AnyField)
  /\ ClientPackets \subseteq Seq(AnyField)

VARIABLES
  written,   \* history: the fields written, as records [kind, value]
  buffer,    \* m_buffer of the encoder up to m_index, then of the decoder
  index,     \* m_index of the decoder
  stage,     \* "encode", "decode", "done"
  decoder,   \* the method that decodes
  slack,     \* how many bytes after the packet the decoder's buffer has
  values,    \* the values read
  results,   \* what the reads returned
  verdict    \* what the decoder makes of the packet

vars == <<written, buffer, index, stage, decoder, slack, values, results, verdict>>

decoding == <<index, decoder, slack, values, results, verdict>>

Field == [kind : {"number"}, value : Numbers] \cup [kind : {"string"}, value : Strings]

Init ==
  /\ written = <<>>
  /\ buffer = <<>>
  /\ index = 0
  /\ stage = "encode"
  /\ slack = 0
  /\ values = <<>>
  /\ results = <<>>
  /\ decoder = "none"
  /\ verdict = "none"

-------------------------------------------------------------------------------
(* Encoding. *)

(* The continuation bit is left out of numbers that just need it. *)
VarintByte_OffByOne(value) ==
  IF value > Radix THEN Radix + (value % Radix) ELSE value % Radix

(* The low seven bits, and the continuation bit if there are more. *)
VarintByte(value) ==
  IF value > Radix - 1 THEN Radix + (value % Radix) ELSE value % Radix

LeastOf(S) == CHOOSE n \in S : \A m \in S : n <= m

(* WriteVarint64: rest[i] is what is left of the number after i bytes; the   *)
(* loop ends when nothing is, or after MaxVarintBytes.                      *)
VarintBytes(value) ==
  LET rest[i \in 0..MaxVarintBytes] == IF i = 0 THEN value ELSE rest[i - 1] \div Radix
      size == LeastOf({i \in 1..MaxVarintBytes : rest[i] = 0} \cup {MaxVarintBytes})
  IN [i \in 1..size |-> VarintByte(rest[i - 1])]

(* WriteString writes the length and then the bytes. *)
FieldBytes(field) ==
  IF field.kind = "number"
  THEN VarintBytes(field.value)
  ELSE VarintBytes(Len(field.value)) \o field.value

PacketBytes(fields) ==
  LET bytes[n \in 0..Len(fields)] ==
        IF n = 0 THEN <<>> ELSE bytes[n - 1] \o FieldBytes(fields[n])
  IN bytes[Len(fields)]

Write(fields) ==
  /\ stage = "encode"
  /\ written' = written \o fields
  /\ buffer' = buffer \o PacketBytes(fields)
  /\ UNCHANGED <<stage, decoding>>

(* WriteUInt64 or WriteString. *)
WriteField(field) ==
  /\ Len(written) < MaxFields
  /\ Write(<<field>>)

EncodeHelloPacket ==
  /\ written = <<>>
  /\ Write(Hello)

(* A packet that comes from outside. *)
ClientWrites(packet) ==
  /\ written = <<>>
  /\ Write(packet)

-------------------------------------------------------------------------------
(* Decoding. *)

(* ReadByte gives the byte at m_index, and then says whether there are more. *)
ReadByte(at) == buffer[at + 1]

MoreAfter(at) == at + 1 < Len(buffer)

(* The bits of byte number i of a number, in a uint64_t. *)
Shifted_Narrow(byte, i) == ((byte % Radix) * Weight[i]) % (Limit \div Radix)

(* The bits of byte number i of a number, in a uint64_t. *)
Shifted(byte, i) == ((byte % Radix) * Weight[i]) % Limit

(* ReadVarint64 from m_index = start: the loop ends with byte number last,   *)
(* or after MaxVarintBytes; sum[i] is what i bytes add up to, their bits      *)
(* being different ones.  A read that fails leaves what it has put together *)
(* so far.                                                                  *)
ReadVarint64(start) ==
  LET last == LeastOf({i \in 0..(MaxVarintBytes - 1) :
                         ~MoreAfter(start + i) \/ ReadByte(start + i) < Radix}
                      \cup {MaxVarintBytes})
      ok == last < MaxVarintBytes /\ MoreAfter(start + last)
      size == IF ok THEN last + 1 ELSE last
      sum[i \in 0..size] ==
        IF i = 0 THEN 0 ELSE sum[i - 1] + Shifted(ReadByte(start + i - 1), i - 1)
  IN [ok |-> ok,
      value |-> sum[size],
      index |-> IF last = MaxVarintBytes THEN start + last ELSE start + last + 1]

(* ReadString: ReadBuffer copies, and then says whether there are more. *)
ReadString(start) ==
  LET length == ReadVarint64(start)
      end == length.index + length.value
  IN IF ~length.ok \/ length.value > MaxLength
     THEN [ok |-> FALSE, value |-> <<>>, index |-> length.index]
     ELSE [ok |-> end < Len(buffer),
           value |-> SubSeq(buffer, length.index + 1, end),
           index |-> end]

(* What the decoders read: fields whose result they look at, and others. *)
Checked(kind) == [kind |-> kind, checked |-> TRUE]
Read(kind) == [kind |-> kind, checked |-> FALSE]

DecodeClientHelloPacket ==
  <<Read("string"), Read("number"), Read("number"), Read("number"),
    Read("string"), Read("string"), Read("string")>>

DecodeServerHelloPacket ==
  <<Read("string"), Read("number"), Read("number"), Read("number"),
    Read("string"), Read("string"), Read("number")>>

(* DecodeClientPacket and DecodeServerPackets are given what GetPacketType   *)
(* returned.  "Fields" stands for any decoder that looks at no result.      *)
Layout ==
  [GetPacketType |-> <<Checked("number")>>,
   DecidePacketType |-> <<Checked("number")>>,
   DecodeQueryPacket |->
     <<Checked("number"), Checked("string"), Read("number"), Read("number"), Read("string")>>,
   DecodeHelloPacket |-> <<Checked("number"), Checked("string")>>,
   DecodeClientPacket |-> <<Checked("number")>> \o DecodeClientHelloPacket,
   DecodeServerPackets |-> <<Checked("number")>> \o DecodeServerHelloPacket,
   Fields |-> [n \in 1..Len(written) |-> Read(written[n].kind)]]

(* Those that go on for the type 0 (Hello) only. *)
WantsHello == {"DecodeHelloPacket", "DecodeClientPacket", "DecodeServerPackets"}

Starts(d) ==
  /\ Len(Layout[d]) <= Len(written)
  /\ \A n \in 1..Len(Layout[d]) : Layout[d][n].kind = written[n].kind

(* DecodeClientPacket and DecodeServerPackets decode nothing of a packet of  *)
(* another type, so what follows it is not looked at.                       *)
Takes(d) ==
  \/ Starts(d)
  \/ /\ d \in {"DecodeClientPacket", "DecodeServerPackets"}
     /\ written[1].kind = "number" /\ written[1].value # 0

(* The bytes are sent, and a decoder is made of a buffer that holds them.   *)
(* CProtocolSocket gives its handler the bytes received and their number,   *)
(* so nothing follows them; a larger buffer holds zeros.                    *)
DispatchBufferForSocket ==
  /\ stage = "encode" /\ written # <<>>
  /\ stage' = "decode"
  /\ decoder' \in {d \in DOMAIN Layout : Takes(d)}
  /\ slack' \in {0, 1}
  /\ buffer' = buffer \o [i \in 1..slack' |-> 0]
  /\ UNCHANGED <<written, index, values, results, verdict>>

(* A string's bytes are read and m_index is not moved past them. *)
ReadNext_StaysPut ==
  LET kind == Layout[decoder][Len(values) + 1].kind
      r == IF kind = "number" THEN ReadVarint64(index) ELSE ReadString(index)
  IN /\ index' = IF kind = "number" THEN r.index ELSE r.index - Len(r.value)
     /\ values' = Append(values, r.value)
     /\ results' = Append(results, r.ok)

ReadNext ==
  LET r == IF Layout[decoder][Len(values) + 1].kind = "number"
           THEN ReadVarint64(index)
           ELSE ReadString(index)
  IN /\ index' = r.index
     /\ values' = Append(values, r.value)
     /\ results' = Append(results, r.ok)

(* Only the read of the type is looked at. *)
Refuses_TypeOnly ==
  \/ Len(values') = 1 /\ ~results'[1]
  \/ Len(values') = 1 /\ decoder \in WantsHello /\ values'[1] # 0

(* The field just read ends the decoding: its result is looked at and is     *)
(* false, or it is a type the decoder does not go on for.                   *)
Refuses ==
  LET n == Len(values') IN
  \/ Layout[decoder][n].checked /\ ~results'[n]
  \/ n = 1 /\ decoder \in WantsHello /\ values'[1] # 0

(* The next field the decoder expects; after the last it returns.           *)
(* DecidePacketType and DecodeQueryPacket return 0, which is false.         *)
ReadField ==
  /\ stage = "decode"
  /\ ReadNext
  /\ IF Refuses
     THEN stage' = "done" /\ verdict' = "refused"
     ELSE IF Len(values') < Len(Layout[decoder])
     THEN UNCHANGED <<stage, verdict>>
     ELSE /\ stage' = "done"
          /\ verdict' = IF decoder \in {"DecidePacketType", "DecodeQueryPacket"}
                        THEN "refused" ELSE "accepted"
  /\ UNCHANGED <<written, buffer, decoder, slack>>

-------------------------------------------------------------------------------
Next ==
  \/ \E field \in Field : WriteField(field)
  \/ EncodeHelloPacket
  \/ \E packet \in ClientPackets : ClientWrites(packet)
  \/ DispatchBufferForSocket
  \/ ReadField

Spec == Init /\ [][Next]_vars

-------------------------------------------------------------------------------
(* Properties. *)

(* The decoder stands at the start of the field it reads next, whatever     *)
(* fields came before, and never past the packet: ReadByte and ReadBuffer   *)
(* do not look at m_len before they read.                                   *)
Aligned ==
  stage # "encode" =>
    index = Len(PacketBytes(SubSeq(written, 1, Len(values))))

(* ReadByte takes the last byte of a buffer for a failure, so a number that *)
(* ends the buffer is lost; a string is not, although its read fails too.   *)
Last(n) == slack = 0 /\ n = Len(written)

LastNumber(n) == Last(n) /\ written[n].kind = "number"

(* What was written is read back: numbers of one byte to MaxVarintBytes,    *)
(* strings with a length of several bytes and bytes that look like          *)
(* continuations, the hello packet; but for a number at the end of the      *)
(* buffer.  The result of a read tells nothing else than whether the buffer *)
(* goes on: it is false of the last field without slack and of no other.    *)
ReadBack ==
  \A n \in 1..Len(values) :
    /\ ~LastNumber(n) => values[n] = written[n].value
    /\ ~results[n] <=> Last(n)

(* A decoder that looks at results accepts a packet of the right type when   *)
(* the buffer goes on after each field whose result it looks at.  A packet  *)
(* that ends there, as a ping, which is its type alone, is refused although *)
(* it is whole.                                                             *)
AcceptsWhatGoesOn ==
  stage = "done" /\ decoder \notin {"DecidePacketType", "DecodeQueryPacket"} =>
    (verdict = "accepted" <=>
       /\ decoder \in WantsHello => written[1].value = 0
       /\ \A n \in 1..Len(Layout[decoder]) : Layout[decoder][n].checked => ~Last(n))
===============================================================================
