---------------------------- MODULE BrowserWire -----------------------------
(***************************************************************************)
(* What a message on the browser's WebSocket looks like: the framing of     *)
(* web/src/protocol.ts, its Go counterpart, and the sealing of              *)
(* web/src/crypto.ts.  JSON, the cipher and the nonce are abstracted: a     *)
(* control message is its parts, and a sealed payload remembers its key,    *)
(* its additional data and whether it was altered since.  Of bytes their    *)
(* length counts, which is their "size".                                    *)
(***************************************************************************)
EXTENDS Naturals, Sequences

CONSTANTS
  Base,           \* the values of a byte of the header, 256
  MaxPayloadLen   \* 1 MiB

ASSUME WireAssumption == Base \in Nat /\ Base > 8 /\ MaxPayloadLen \in Nat \ {0}

TypeValues == [OPEN |-> 1, DATA |-> 2, RESIZE |-> 3, PING |-> 4, PONG |-> 5, CLOSE |-> 6,
               ERROR |-> 7]
FrameType == DOMAIN TypeValues

\* Go knows one type more, and JavaScript's "in" finds what every object inherits.
GoType == FrameType \cup {"WINDOW"}
Inherited == {"constructor"}

Channel == 0..(Base * Base * Base * Base - 1)
CHANNEL_CONTROL == 0
BINARY_HEADER_LEN == 5

\* setUint32 and getUint32, big-endian.
SetUint32(n) == << (n \div (Base * Base * Base)) % Base, (n \div (Base * Base)) % Base,
                   (n \div Base) % Base, n % Base >>
GetUint32(w) == ((w[1] * Base + w[2]) * Base + w[3]) * Base + w[4]

Binary(type, channel, payload) ==
  [kind |-> "binary", header |-> <<type>> \o SetUint32(channel), payload |-> payload]

EncodeData(payload, channel) == Binary(TypeValues.DATA, channel, payload)

\* decodeBinary: the frame, or nothing where it throws.
DecodeBinary(m) ==
  IF Len(m.header) < BINARY_HEADER_LEN \/ m.header[1] # TypeValues.DATA THEN {}
  ELSE { [type |-> "DATA", channel |-> GetUint32(Tail(m.header)), payload |-> m.payload] }

\* encodeControl.  A channel of zero is left out of the envelope and read back as zero.  The
\* length of JSON that either end writes is left out: it is far below the limit.
EncodeControl(type, payload, channel) ==
  [kind |-> "text", type |-> type, channel |-> channel, payload |-> payload, size |-> 1]

\* decodeControl; text that is no JSON object has no type.
DecodeControl(m) ==
  IF m.type \notin (FrameType \cup Inherited) \ {"DATA"} THEN {}
  ELSE { [type |-> m.type, channel |-> m.channel, payload |-> m.payload] }

\* The first lines of ws.onmessage.
Decode(m) == IF m.kind = "text" THEN DecodeControl(m) ELSE DecodeBinary(m)

\* A nonce and a tag come with what is sealed.
Overhead == 28

Length(payload) == payload.bytes.size + IF payload.key = <<>> THEN 0 ELSE Overhead

Within(payload) == Length(payload) <= MaxPayloadLen

\* internal/protocol/wire.go: what the Go side writes and reads, or nothing where it fails.
Marshal(f) ==
  IF f.type # "DATA" THEN { EncodeControl(f.type, f.payload, f.channel) }
  ELSE IF ~Within(f.payload) THEN {}
  ELSE { Binary(TypeValues.DATA, f.channel, f.payload) }

Unmarshal(m) ==
  IF m.kind = "text"
  THEN IF m.size > MaxPayloadLen \/ m.type \notin GoType \ {"DATA"} THEN {}
       ELSE { [type |-> m.type, channel |-> m.channel, payload |-> m.payload] }
  ELSE IF \/ Len(m.header) < BINARY_HEADER_LEN \/ m.header[1] # TypeValues.DATA
          \/ ~Within(m.payload) THEN {}
       ELSE { [type |-> "DATA", channel |-> GetUint32(Tail(m.header)), payload |-> m.payload] }

\* channelAAD.
ChannelAAD(channel) == SetUint32(channel)

Plain(bytes) == [key |-> <<>>, aad |-> <<>>, bytes |-> bytes, altered |-> FALSE]

Seal(key, channel, bytes) ==
  [key |-> key, aad |-> ChannelAAD(channel), bytes |-> bytes, altered |-> FALSE]

\* Mutant: the frame is not bound to its channel.
OpenUnbound(key, channel, sealed) ==
  IF sealed.key = key /\ ~sealed.altered THEN {sealed.bytes} ELSE {}

\* open: the bytes, or nothing where it throws.
Open(key, channel, sealed) ==
  IF sealed.key = key /\ sealed.aad = ChannelAAD(channel) /\ ~sealed.altered
  THEN {sealed.bytes} ELSE {}
=============================================================================
