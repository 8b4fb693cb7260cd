---------------------------- MODULE MessageCodec ----------------------------
(***************************************************************************)
(* The codecs of the wire messages and of the command a CommandRequest     *)
(* carries. A sender encodes one message into the tailroom of a buffer;    *)
(* what the receiver is handed may be that, cut short or longer, for the   *)
(* bytes of a frame are whatever the peer put there.                       *)
(*                                                                         *)
(* A byte takes the values below Base. Integers of 64 bits, floating point *)
(* numbers (their bits) and lengths take two bytes, a UUID three; a        *)
(* message type is a byte of its own.                                      *)
(***************************************************************************)
EXTENDS Integers, Sequences

CONSTANTS
    Base,        \* values of a byte
    Outgoing,    \* messages to send
    Tailrooms,   \* room in the buffer of the sender
    Additions    \* bytes that may follow

Types == <<"register_request", "register_outcome", "register_ack", "heartbeat",
           "status_report", "command_request", "command_ack", "command_outcome">>

\* MessageType: the byte of a type. Its other values are no type.
Type == {Types[i] : i \in DOMAIN Types}
TypeByte == [t \in Type |-> CHOOSE i \in DOMAIN Types : Types[i] = t]

Width == [u8 |-> 1, u16 |-> 2, u64 |-> 2, f64 |-> 2]
UuidSize == 3

Octet == 0..(Base - 1)

\* What two bytes can express.
Wide == 0..(Base * Base - 1)

VARIABLES
    outgoing,  \* the message to send
    tailroom,  \* room for it
    stage,     \* "compose", "sent", "refused" by the encoder, "received"
    bytes,     \* the payload of the frame
    change,    \* history: what became of it on the way: "none", "cut", "longer"
    incoming   \* what decode_message made of it

codecVars == <<outgoing, tailroom, stage, bytes, change, incoming>>

----------------------------------------------------------------------------
(* Fields. A step of a decoder takes a field off the front of a cursor.    *)

Failed == [ok |-> FALSE]

\* extract_le: the lowest byte first.
ExtractLe(in, width) ==
    IF Len(in) < width THEN Failed
    ELSE [ok |-> TRUE, rest |-> SubSeq(in, width + 1, Len(in)),
          value |-> IF width = 1 THEN in[1] ELSE in[1] + Base * in[2]]

\* extract_string: a length and as many bytes.
ExtractString(in) ==
    LET length == ExtractLe(in, Width["u16"]) IN
    IF ~length.ok THEN Failed
    ELSE IF Len(length.rest) < length.value THEN Failed
    ELSE [ok |-> TRUE, value |-> SubSeq(length.rest, 1, length.value),
          rest |-> SubSeq(length.rest, length.value + 1, Len(length.rest))]

ExtractUuid(in) ==
    IF Len(in) < UuidSize THEN Failed
    ELSE [ok |-> TRUE, value |-> SubSeq(in, 1, UuidSize), rest |-> SubSeq(in, UuidSize + 1, Len(in))]

Extract(kind, in) ==
    CASE kind = "string" -> ExtractString(in)
      [] kind = "uuid" -> ExtractUuid(in)
      [] OTHER -> ExtractLe(in, Width[kind])

\* The bytes of a field, or what the encoder cannot express: a string too long.
LeBytes(value, width) == IF width = 1 THEN <<value>> ELSE <<value % Base, value \div Base>>

AppendBytes(out, data) ==
    IF Len(data) > out.room THEN Failed
    ELSE [ok |-> TRUE, room |-> out.room - Len(data), data |-> out.data \o data]

\* append_string: the length has gone out before the room for the bytes is checked, but
\* a failed encoder's output is not used.
AppendString(out, value) ==
    IF Len(value) \notin Wide THEN Failed
    ELSE LET length == AppendBytes(out, LeBytes(Len(value), Width["u16"])) IN
         IF length.ok THEN AppendBytes(length, value) ELSE Failed

AppendField(out, kind, value) ==
    CASE kind = "string" -> AppendString(out, value)
      [] kind = "uuid" -> AppendBytes(out, value)
      [] OTHER -> AppendBytes(out, LeBytes(value, Width[kind]))

----------------------------------------------------------------------------
(* Messages *)

\* The decoders, field by field.
DecoderFields ==
    [register_request |-> <<"uuid", "string">>, register_outcome |-> <<"u8">>,
     register_ack |-> <<>>, heartbeat |-> <<>>, status_report |-> <<"u8", "f64", "f64">>,
     command_request |-> <<"u64", "u8">>, command_ack |-> <<"u64">>,
     command_outcome |-> <<"u64", "u8">>]

\* Slip: some decoders do not look at what follows.
TakesRest_Always(type) == TRUE

\* decode_command_request: the rest is the payload. The others refuse what follows.
TakesRest(type) == type = "command_request"

\* The next field, behind those that were taken.
Take(cursor, kind) ==
    LET field == Extract(kind, cursor.rest) IN
    IF ~cursor.ok \/ ~field.ok THEN Failed
    ELSE [ok |-> TRUE, value |-> Append(cursor.value, field.value), rest |-> field.rest]

DecodeBody(type, in) ==
    LET kinds == DecoderFields[type]
        cursor[i \in 0..Len(kinds)] ==
            IF i = 0 THEN [ok |-> TRUE, value |-> <<>>, rest |-> in]
            ELSE Take(cursor[i - 1], kinds[i])
        end == cursor[Len(kinds)]
    IN  IF ~end.ok \/ (end.rest # <<>> /\ ~TakesRest(type)) THEN Failed
        ELSE [ok |-> TRUE, type |-> type, fields |-> end.value, payload |-> end.rest]

\* decode_message.
DecodeMessage(in) ==
    IF in = <<>> THEN Failed
    ELSE IF Head(in) \notin DOMAIN Types THEN Failed
    ELSE DecodeBody(Types[Head(in)], Tail(in))

\* The encoders, field by field.
EncoderFields ==
    [register_request |-> <<"uuid", "string">>, register_outcome |-> <<"u8">>,
     register_ack |-> <<>>, heartbeat |-> <<>>, status_report |-> <<"u8", "f64", "f64">>,
     command_request |-> <<"u64", "u8">>, command_ack |-> <<"u64">>,
     command_outcome |-> <<"u64", "u8">>]

\* encode_<X>: the type, then the fields.
EncodeMessage(type, fields, room) ==
    LET kinds == EncoderFields[type]
        out[i \in 0..Len(kinds)] ==
            IF i = 0 THEN AppendBytes([room |-> room, data |-> <<>>], <<TypeByte[type]>>)
            ELSE IF out[i - 1].ok THEN AppendField(out[i - 1], kinds[i], fields[i]) ELSE Failed
    IN  out[Len(kinds)]

\* encode_set_mode, into what the header of a command request leaves.
EncodeSetMode(out, mode) == AppendBytes(out, <<mode>>)

\* decode_set_mode.
DecodeSetMode(in) == IF Len(in) # 1 THEN Failed ELSE [ok |-> TRUE, mode |-> in[1]]

----------------------------------------------------------------------------

\* What a message is made of. The payload of a frame, and so the tailroom, has a length
\* that two bytes express.
FieldValues(kind) ==
    CASE kind = "string" -> Seq(Octet)
      [] kind = "uuid" -> [1..UuidSize -> Octet]
      [] kind = "u8" -> Octet
      [] OTHER -> Wide

CodecConstants ==
    /\ Base \in Nat /\ Base > Len(Types) /\ Base <= 256
    /\ \A m \in Outgoing :
         /\ m.type \in Type
         /\ m.fields = [i \in DOMAIN EncoderFields[m.type] |-> m.fields[i]]
         /\ \A i \in DOMAIN m.fields : m.fields[i] \in FieldValues(EncoderFields[m.type][i])
         /\ IF m.type = "command_request" THEN \E mode \in Octet : m.payload = <<mode>>
                                         ELSE m.payload = <<>>
    /\ Tailrooms \subseteq Wide
    /\ Additions \subseteq Seq(Octet) \ {<<>>}

CodecInit ==
    /\ outgoing \in Outgoing /\ tailroom \in Tailrooms
    /\ stage = "compose" /\ bytes = <<>> /\ change = "none" /\ incoming = Failed

\* What the sender makes: a message, with the command behind it if it is a request.
Encoded(message, room) ==
    LET header == EncodeMessage(message.type, message.fields, room) IN
    IF header.ok /\ message.type = "command_request"
      THEN EncodeSetMode(header, message.payload[1]) ELSE header

Compose ==
    LET out == Encoded(outgoing, tailroom) IN
    /\ stage = "compose"
    /\ stage' = IF out.ok THEN "sent" ELSE "refused"
    /\ bytes' = IF out.ok THEN out.data ELSE <<>>
    /\ UNCHANGED <<outgoing, tailroom, change, incoming>>

\* Frames of a peer of another making.
CutShort ==
    /\ stage = "sent" /\ change = "none"
    /\ \E n \in 0..(Len(bytes) - 1) : bytes' = SubSeq(bytes, 1, n)
    /\ change' = "cut"
    /\ UNCHANGED <<outgoing, tailroom, stage, incoming>>

GoOn ==
    /\ stage = "sent" /\ change = "none"
    /\ \E addition \in Additions : bytes' = bytes \o addition
    /\ change' = "longer"
    /\ UNCHANGED <<outgoing, tailroom, stage, incoming>>

Decode ==
    /\ stage = "sent"
    /\ stage' = "received"
    /\ incoming' = DecodeMessage(bytes)
    /\ UNCHANGED <<outgoing, tailroom, bytes, change>>

CodecNext == Compose \/ CutShort \/ GoOn \/ Decode

CodecSpec == CodecInit /\ [][CodecNext]_codecVars

----------------------------------------------------------------------------
(* Properties *)

CodecTypeOK ==
    /\ outgoing \in Outgoing /\ tailroom \in Tailrooms
    /\ stage \in {"compose", "sent", "refused", "received"}
    /\ bytes \in Seq(Octet)
    /\ change \in {"none", "cut", "longer"}

\* The size of a message on the wire.
FieldSize(kind, value) ==
    CASE kind = "string" -> Width["u16"] + Len(value)
      [] kind = "uuid" -> UuidSize
      [] OTHER -> Width[kind]
WireSize(m) ==
    LET kinds == EncoderFields[m.type]
        size[i \in 0..Len(kinds)] ==
            IF i = 0 THEN 1 ELSE size[i - 1] + FieldSize(kinds[i], m.fields[i])
    IN  size[Len(kinds)] + Len(m.payload)

\* A message is encoded exactly if the room suffices for all of it, and is then received
\* as it was sent. What was cut or prolonged on the way is never taken for a message: a
\* decoder notices, that of the message or, in a command request, that of the command.
MessagesFaithful ==
    /\ stage = "refused" => WireSize(outgoing) > tailroom
    /\ stage = "sent" /\ change = "none" =>
            Len(bytes) = WireSize(outgoing) /\ Len(bytes) <= tailroom
    /\ stage = "received" /\ change = "none" =>
            /\ incoming.ok /\ incoming.type = outgoing.type
            /\ incoming.fields = outgoing.fields /\ incoming.payload = outgoing.payload
    /\ stage = "received" /\ change # "none" /\ incoming.ok =>
            /\ incoming.type = "command_request"
            /\ ~DecodeSetMode(incoming.payload).ok

MessagesSound == CodecTypeOK /\ MessagesFaithful
=============================================================================
