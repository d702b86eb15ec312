----------------------------- MODULE WispPackets -----------------------------
(***************************************************************************)
(* The packets of packets.h on the wire: their constructors, which take    *)
(* them apart, and serialize(), which puts them together, with the sizes   *)
(* computed in size_t.  Around them, what receive(), handle_connect() and  *)
(* the three senders of WebSocketManager do with the bytes.                *)
(***************************************************************************)
EXTENDS Integers, Sequences, SequencesExt

CONSTANTS
  SizeT,      \* size_t counts modulo this
  MaxAlloc,   \* new[] gives at most this many bytes, and throws above
  Octet,      \* the bytes of the messages that are enumerated
  MaxBody,    \* longest body of an enumerated message
  Numbers     \* what the server puts into its CONTINUEs and CLOSEs

(* A message that has arrived is in memory; the numbers are uint32_t. *)
ASSUME SizesAssumption ==
  /\ MaxAlloc \in Nat \ {0} /\ SizeT \in Nat /\ MaxAlloc + 16 < SizeT
  /\ Octet \subseteq 0..255 /\ MaxBody \in 0..MaxAlloc
  /\ \A n \in Numbers : n \in Nat /\ n \div 16777216 < 256

VARIABLES
  at,         \* how far the loop thread is with a message
  view,       \* the message from the client, as bytes
  packet,     \* the WispPacket made of it
  inner,      \* the ConnectPacket made of packet.data
  meant,      \* the packet the server means to send, and what it says
  wire        \* the bytes it gives to ws->send()

vars == <<at, view, packet, inner, meant, wire>>

None == [none |-> TRUE]
PACKET_CONNECT == 1
PACKET_DATA == 2
PACKET_CONTINUE == 3
PACKET_CLOSE == 4

----------------------------------------------------------------------------
(* Numbers in memory, least significant byte first. *)

Uint16(b) == b[1] + 256 * b[2]
Uint32(b) == b[1] + 256 * (b[2] + 256 * (b[3] + 256 * b[4]))

InMemory(n) == <<n % 256, (n \div 256) % 256, (n \div 65536) % 256, (n \div 16777216) % 256>>

(* The bytes after the first k. *)
From(b, k) == SubSeq(b, k + 1, Len(b))

(* The length that is left after a header, and whether a buffer of that    *)
(* length can be had: when the subtraction wraps, make_unique throws out   *)
(* of the message callback, which ends the process.                        *)
Minus(length, header) == (length - header) % SizeT
Allocates(length) == length <= MaxAlloc

----------------------------------------------------------------------------
(* WispPacket *)

\* Slip: the stream id counted with eight bytes
LongHeader == 9

HeaderSize == 5

WispPacket(src) ==
  [packet_type |-> src[1], stream_id |-> Uint32(SubSeq(src, 2, 5)),
   data |-> From(src, HeaderSize), data_len |-> Minus(Len(src), HeaderSize)]

Packet(type, id, data) ==
  [packet_type |-> type, stream_id |-> id, data |-> data, data_len |-> Len(data)]

\* Slip: a build_size without the stream id
TightSerialize(p) == <<p.packet_type>> \o SubSeq(p.data, 1, p.data_len)

serialize(p) ==
  <<p.packet_type>> \o InMemory(p.stream_id) \o SubSeq(p.data, 1, p.data_len)

----------------------------------------------------------------------------
(* What a WispPacket carries. *)

InfoPacket(src) ==
  [major_wisp_version |-> src[1], minor_wisp_version |-> src[2],
   extension_data |-> From(src, 2), extension_data_len |-> Minus(Len(src), 2)]
NewInfo(major, minor, src) ==
  [major_wisp_version |-> major, minor_wisp_version |-> minor,
   extension_data |-> src, extension_data_len |-> Len(src)]
serializeInfo(p) == <<p.major_wisp_version, p.minor_wisp_version>> \o p.extension_data

\* Slip: the terminator written before the buffer is made one longer
ClippedConnect(src) ==
  [stream_type |-> src[1], destination_port |-> Uint16(SubSeq(src, 2, 3)),
   destination_hostname |-> IF Last(src) # 0 THEN Append(Front(From(src, 3)), 0) ELSE From(src, 3)]

(* The host name gets a zero byte unless the last byte of the packet is    *)
(* one already.                                                            *)
ConnectPacket(src) ==
  LET bytes == From(src, 3)
  IN [stream_type |-> src[1], destination_port |-> Uint16(SubSeq(src, 2, 3)),
      destination_hostname |-> IF Last(src) # 0 THEN Append(bytes, 0) ELSE bytes]

DataPacket(src) == [stream_payload |-> src, stream_payload_len |-> Len(src)]

ContinuePacket(src) == [buffer_remaining |-> Uint32(SubSeq(src, 1, 4))]

\* Slip: the credit in network byte order
NetworkContinue(p) == Reverse(InMemory(p.buffer_remaining))

serializeContinue(p) == InMemory(p.buffer_remaining)

ClosePacket(src) == [close_reason |-> src[1]]
serializeClose(p) == <<p.close_reason>>

----------------------------------------------------------------------------
Init == /\ at = "idle" /\ view = <<>> /\ wire = <<>>
        /\ packet = None /\ inner = None /\ meant = None

StreamId == [1..4 -> Octet]
Body == UNION {[1..n -> Octet] : n \in 0..MaxBody}
Message == {<<m.type>> \o m.id \o m.body : m \in [type : 0..6, id : StreamId, body : Body]}
           \cup UNION {[1..n -> Octet] : n \in 0..(HeaderSize - 1)}

(* receive() makes a WispPacket of the message; one that is shorter than   *)
(* the header asks for more memory than there is.                          *)
receive(m) ==
  /\ at = "idle" /\ view' = m
  /\ IF Allocates(Minus(Len(m), HeaderSize))
     THEN at' = "parsed" /\ packet' = WispPacket(m)
     ELSE at' = "dead" /\ packet' = None
  /\ UNCHANGED <<inner, meant, wire>>

(* handle_connect(): a CONNECT without room for type and port ends the     *)
(* process in make_unique, or in the memcpy of the length that wrapped.    *)
handle_connect ==
  /\ at = "parsed" /\ packet.packet_type = PACKET_CONNECT
  /\ IF Allocates(Minus(packet.data_len, 3))
     THEN at' = "connect" /\ inner' = ConnectPacket(packet.data)
     ELSE at' = "dead" /\ inner' = None
  /\ UNCHANGED <<view, packet, meant, wire>>

(* A CONNECT has been dealt with, ... *)
Ignore ==
  /\ at' = "idle" /\ view' = <<>> /\ packet' = None /\ inner' = None
  /\ UNCHANGED <<meant, wire>>

(* ... DATA goes to the target as it is, and the other types do nothing. *)
IgnoreOther == at = "parsed" /\ packet.packet_type # PACKET_CONNECT /\ Ignore

(* send_close(), send_continue(), send_data(). *)
SendPacket(type, id, value, data) ==
  LET p == Packet(type, id, data) IN
  /\ at = "idle" /\ at' = "sent"
  /\ meant' = [packet |-> p, value |-> value] /\ wire' = serialize(p)
  /\ UNCHANGED <<view, packet, inner>>

send_close(reason, id) ==
  SendPacket(PACKET_CLOSE, id, reason, serializeClose([close_reason |-> reason]))
send_continue(buffer, id) ==
  SendPacket(PACKET_CONTINUE, id, buffer, serializeContinue([buffer_remaining |-> buffer]))
send_data(id, data) == SendPacket(PACKET_DATA, id, data, data)

Sent == /\ at = "sent" /\ at' = "idle" /\ meant' = None /\ wire' = <<>>
        /\ UNCHANGED <<view, packet, inner>>

Senders ==
  \/ \E n \in Numbers, id \in StreamId :
       send_close(n % 256, Uint32(id)) \/ send_continue(n, Uint32(id))
  \/ \E id \in StreamId, b \in Body : send_data(Uint32(id), b)

----------------------------------------------------------------------------
(* The only messages that end the process are those too short for the     *)
(* fields that are read: the sizes computed without a check (the TODO      *)
(* "add packet size validation") never wrap for any other.                 *)
DiesOnTruncatedOnly ==
  at = "dead" => \/ Len(view) < 5
                 \/ view[1] = PACKET_CONNECT /\ Len(view) < 8

(* Putting a parsed message together again gives the bytes the client sent *)
(* (test WispPacket.Serializing, here for every message), and its payload, *)
(* taken as the body of an INFO, survives the same way.                    *)
SerializeInverts ==
  at = "parsed" =>
    /\ serialize(packet) = view
    /\ packet.data_len >= 2 =>
         /\ serializeInfo(InfoPacket(packet.data)) = packet.data
         /\ NewInfo(packet.data[1], packet.data[2], From(packet.data, 2))
              = InfoPacket(packet.data)

(* A peer that takes a packet of the server apart with the constructors of *)
(* packets.h finds the stream, the credit, the reason and the payload that *)
(* the sender meant.                                                       *)
SentDecodes ==
  at = "sent" =>
    LET got == WispPacket(wire)
    IN /\ got = meant.packet
       /\ meant.value = CASE got.packet_type = PACKET_CONTINUE ->
                               ContinuePacket(got.data).buffer_remaining
                          [] got.packet_type = PACKET_CLOSE ->
                               ClosePacket(got.data).close_reason
                          [] got.packet_type = PACKET_DATA ->
                               DataPacket(got.data).stream_payload

(* A C string: the bytes before the first zero; it must have one. *)
Terminated(b) == \E i \in DOMAIN b : b[i] = 0
CString(b) == LET zero == CHOOSE i \in DOMAIN b :
                            b[i] = 0 /\ \A j \in 1..(i - 1) : b[j] # 0
              IN SubSeq(b, 1, zero - 1)

(* The test for a terminator (packets.h:128) looks at the last byte of the *)
(* packet.  That is a byte of the name, or, when the name is empty, the    *)
(* high byte of the port: an empty name before a port below 256 is taken   *)
(* for one that has its terminator ("hostname must be null terminated").   *)
NameEnds(m) == Len(m) > 8 \/ (Len(m) = 8 /\ m[8] # 0)

(* The block list and getaddrinfo() get the type, the port and the name    *)
(* that the client sent, whether or not it ended the name with a zero      *)
(* byte; with the one exception of NameEnds, where they get a pointer to   *)
(* nothing at all.                                                         *)
HostnameAsSent ==
  at = "connect" =>
    /\ inner.stream_type = view[6] /\ inner.destination_port = view[7] + 256 * view[8]
    /\ NameEnds(view) =>
         /\ Terminated(inner.destination_hostname)
         /\ CString(inner.destination_hostname) = CString(From(view, 8) \o <<0>>)
    /\ ~NameEnds(view) => inner.destination_hostname = <<>>
=============================================================================
