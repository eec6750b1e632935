------------------------------- MODULE Encoding ------------------------------
(***************************************************************************)
(* The encodings that the other modules abstract from: the packet header   *)
(* (packet.rs), packets and their types (constants.rs, wrap_packet with    *)
(* encryption off, as it always is here), and the group key that handlers  *)
(* make of a network's name and digest.                                    *)
(***************************************************************************)
EXTENDS Integers, Sequences

U8 == 0..255
U32Size == 256 * (256 * (256 * 256))
U32 == 0..(U32Size - 1)

HeaderSize == 16

Header == [from_peer_id: U32, to_peer_id: U32, packet_type: U8, flags: U8,
           forward_counter: U8, reserved: U8, len: U32]

NoHeader == "None"

\* The little-endian bytes of a 32-bit number.
LE(v) ==
    LET v1 == v \div 256
        v2 == v1 \div 256
        v3 == v2 \div 256
    IN  <<v % 256, v1 % 256, v2 % 256, v3 % 256>>

FromLE(a, b, c, d) == a + 256 * (b + 256 * (c + 256 * d))

ToBytes(h) ==
    LET from == LE(h.from_peer_id)
        to == LE(h.to_peer_id)
        len == LE(h.len)
    IN  << from[1], from[2], from[3], from[4],
           to[1], to[2], to[3], to[4],
           h.packet_type, h.flags, h.forward_counter, h.reserved,
           len[1], len[2], len[3], len[4] >>

FromBytes(b) ==
    IF Len(b) < HeaderSize
    THEN NoHeader
    ELSE [from_peer_id |-> FromLE(b[1], b[2], b[3], b[4]),
          to_peer_id |-> FromLE(b[5], b[6], b[7], b[8]),
          packet_type |-> b[9],
          flags |-> b[10],
          forward_counter |-> b[11],
          reserved |-> b[12],
          len |-> FromLE(b[13], b[14], b[15], b[16])]

\* create_header: a new packet may be forwarded once more.
CreateHeader(from, to, code, len) ==
    ToBytes([from_peer_id |-> from, to_peer_id |-> to, packet_type |-> code,
             flags |-> 0, forward_counter |-> 1, reserved |-> 0, len |-> len])

\* wrap_packet with encryption off: the length is that of the payload, as u32.
WrapPacket(from, to, code, payload) ==
    CreateHeader(from, to, code, Len(payload) % U32Size) \o payload

-----------------------------------------------------------------------------
\* PacketType: the codes 18 and 19 are nobody's.
Code == [Invalid |-> 0, Data |-> 1, HandShake |-> 2, RoutePacket |-> 3, Ping |-> 4,
         Pong |-> 5, TaRpc |-> 6, Route |-> 7, RpcReq |-> 8, RpcResp |-> 9,
         ForeignNetworkPacket |-> 10, KcpSrc |-> 11, KcpDst |-> 12,
         NoiseHandshakeMsg1 |-> 13, NoiseHandshakeMsg2 |-> 14, NoiseHandshakeMsg3 |-> 15,
         QuicSrc |-> 16, QuicDst |-> 17, RelayHandshake |-> 20, RelayHandshakeAck |-> 21]

\* from_u8, arm by arm.
FromU8(v) ==
    CASE v = 1 -> "Data"
      [] v = 2 -> "HandShake"
      [] v = 3 -> "RoutePacket"
      [] v = 4 -> "Ping"
      [] v = 5 -> "Pong"
      [] v = 6 -> "TaRpc"
      [] v = 7 -> "Route"
      [] v = 8 -> "RpcReq"
      [] v = 9 -> "RpcResp"
      [] v = 10 -> "ForeignNetworkPacket"
      [] v = 11 -> "KcpSrc"
      [] v = 12 -> "KcpDst"
      [] v = 13 -> "NoiseHandshakeMsg1"
      [] v = 14 -> "NoiseHandshakeMsg2"
      [] v = 15 -> "NoiseHandshakeMsg3"
      [] v = 16 -> "QuicSrc"
      [] v = 17 -> "QuicDst"
      [] v = 20 -> "RelayHandshake"
      [] v = 21 -> "RelayHandshakeAck"
      [] OTHER -> "Invalid"

-----------------------------------------------------------------------------
CONSTANTS Chars, Colon

\* What hex::encode writes.
HexChars == Chars \ {Colon}

\* The group key of a network name and the hex of its digest.
GroupKey(name, digest) == name \o <<Colon>> \o digest
=============================================================================
