---------------------------- MODULE EncodingProofs ---------------------------
(* Proofs that the encodings lose nothing.                                 *)
EXTENDS Encoding, SequenceTheorems, TLAPS

LEMMA SizePositive == U32Size \in Nat \ {0}
BY DEF U32Size

\* A number below 256 m is a byte and a number below m.
LEMMA ByteAndRest ==
    ASSUME NEW m \in Nat, NEW v \in 0..(256 * m - 1)
    PROVE  v % 256 \in U8 /\ v \div 256 \in 0..(m - 1) /\ v = (v % 256) + 256 * (v \div 256)
BY DEF U8

LEMMA LEBytes ==
    ASSUME NEW v \in U32
    PROVE  LET le == LE(v)
           IN  /\ le[1] \in U8 /\ le[2] \in U8 /\ le[3] \in U8 /\ le[4] \in U8
               /\ FromLE(le[1], le[2], le[3], le[4]) = v
<1> DEFINE v1 == v \div 256
           v2 == v1 \div 256
           v3 == v2 \div 256
           a == v % 256
           b == v1 % 256
           c == v2 % 256
           d == v3 % 256
           two == 256 * 256
           three == 256 * two
<1>0. two \in Nat /\ three \in Nat /\ U32Size = 256 * three
  BY DEF U32Size
<1>1. a \in U8 /\ v1 \in 0..(three - 1) /\ v = a + 256 * v1
  <2> HIDE DEF three
  <2>1. v \in 0..(256 * three - 1)
    BY <1>0 DEF U32
  <2> QED BY <1>0, <2>1, ByteAndRest
<1>2. b \in U8 /\ v2 \in 0..(two - 1) /\ v1 = b + 256 * v2
  <2> HIDE DEF v1, two
  <2> QED BY <1>0, <1>1, ByteAndRest
<1>3. c \in U8 /\ v3 \in 0..255 /\ v2 = c + 256 * v3
  <2>1. 256 \in Nat /\ 256 - 1 = 255
    OBVIOUS
  <2>2. v2 \in 0..(256 * 256 - 1)
    BY <1>2
  <2> HIDE DEF v2, two, three
  <2> QED BY <2>1, <2>2, ByteAndRest
<1>4. d = v3 /\ d \in U8
  <2>1. v3 \in 0..255
    BY <1>3
  <2> HIDE DEF v3
  <2> QED BY <2>1 DEF U8
<1>5. LE(v) = <<a, b, c, d>>
  BY DEF LE
<1> HIDE DEF a, b, c, d, v1, v2, v3
<1>6. FromLE(a, b, c, d) = v
  BY <1>1, <1>2, <1>3, <1>4 DEF FromLE, U8
<1>7. LE(v)[1] = a /\ LE(v)[2] = b /\ LE(v)[3] = c /\ LE(v)[4] = d
  BY <1>5
<1> QED BY <1>1, <1>2, <1>3, <1>4, <1>6, <1>7

\* The elements of a concatenation.
LEMMA Joined ==
    ASSUME NEW S, NEW s \in Seq(S), NEW t \in Seq(S)
    PROVE  /\ s \o t \in Seq(S)
           /\ Len(s) \in Nat /\ Len(t) \in Nat
           /\ Len(s \o t) = Len(s) + Len(t)
           /\ \A i \in 1..Len(s) : (s \o t)[i] = s[i]
           /\ \A i \in 1..Len(t) : (s \o t)[Len(s) + i] = t[i]
<1> DEFINE st == s \o t
<1>1. /\ st \in Seq(S) /\ Len(st) = Len(s) + Len(t)
      /\ \A i \in 1..(Len(s) + Len(t)) : st[i] = IF i <= Len(s) THEN s[i] ELSE t[i - Len(s)]
  BY ConcatProperties
<1>2. Len(s) \in Nat /\ Len(t) \in Nat
  BY LenProperties
<1> HIDE DEF st
<1>3. ASSUME NEW i \in 1..Len(t) PROVE st[Len(s) + i] = t[i]
  <2>1. Len(s) + i \in 1..(Len(s) + Len(t)) /\ ~(Len(s) + i <= Len(s)) /\ (Len(s) + i) - Len(s) = i
    BY <1>2
  <2> QED BY <1>1, <2>1
<1>4. \A i \in 1..Len(s) : st[i] = s[i]
  BY <1>1, <1>2
<1> QED BY <1>1, <1>2, <1>3, <1>4 DEF st

\* The header a client or the server writes is the header that is read.
THEOREM HeaderReadBack ==
    ASSUME NEW h \in Header
    PROVE  FromBytes(ToBytes(h)) = h
<1> DEFINE b == ToBytes(h)
<1>1. h.from_peer_id \in U32 /\ h.to_peer_id \in U32 /\ h.len \in U32
  BY DEF Header
<1>2. Len(b) = HeaderSize
  BY DEF ToBytes, HeaderSize
<1>3. /\ FromLE(b[1], b[2], b[3], b[4]) = h.from_peer_id
      /\ FromLE(b[5], b[6], b[7], b[8]) = h.to_peer_id
      /\ FromLE(b[13], b[14], b[15], b[16]) = h.len
  BY <1>1, LEBytes DEF ToBytes
<1>4. b[9] = h.packet_type /\ b[10] = h.flags /\ b[11] = h.forward_counter /\ b[12] = h.reserved
  BY DEF ToBytes
<1> HIDE DEF b
<1>5. FromBytes(b) = [from_peer_id |-> h.from_peer_id, to_peer_id |-> h.to_peer_id,
                      packet_type |-> h.packet_type, flags |-> h.flags,
                      forward_counter |-> h.forward_counter, reserved |-> h.reserved,
                      len |-> h.len]
  BY <1>2, <1>3, <1>4 DEF FromBytes, HeaderSize
<1> QED BY <1>5 DEF Header, b

LEMMA HeaderBytes ==
    ASSUME NEW h \in Header
    PROVE  ToBytes(h) \in Seq(U8) /\ Len(ToBytes(h)) = HeaderSize
<1>1. h.from_peer_id \in U32 /\ h.to_peer_id \in U32 /\ h.len \in U32
  BY DEF Header
<1>2. h.packet_type \in U8 /\ h.flags \in U8 /\ h.forward_counter \in U8 /\ h.reserved \in U8
  BY DEF Header
<1> QED BY <1>1, <1>2, LEBytes DEF ToBytes, HeaderSize

\* Whatever its payload, a packet that the server wraps is parsed by the other
\* side as what it was, and what follows the header is the payload.
THEOREM PacketReadBack ==
    ASSUME NEW from \in U32, NEW to \in U32, NEW code \in U8, NEW payload \in Seq(U8)
    PROVE  LET packet == WrapPacket(from, to, code, payload)
           IN  /\ FromBytes(packet) =
                    [from_peer_id |-> from, to_peer_id |-> to, packet_type |-> code, flags |-> 0,
                     forward_counter |-> 1, reserved |-> 0, len |-> Len(payload) % U32Size]
               /\ SubSeq(packet, HeaderSize + 1, Len(packet)) = payload
<1> DEFINE h == [from_peer_id |-> from, to_peer_id |-> to, packet_type |-> code, flags |-> 0,
                 forward_counter |-> 1, reserved |-> 0, len |-> Len(payload) % U32Size]
           head == ToBytes(h)
           packet == head \o payload
<1>1. Len(payload) \in Nat
  OBVIOUS
<1>2. h \in Header
  <2>1. Len(payload) % U32Size \in U32
    BY <1>1, SizePositive DEF U32
  <2>2. 0 \in U8 /\ 1 \in U8
    BY DEF U8
  <2> QED BY <2>1, <2>2 DEF Header
<1>3. head \in Seq(U8) /\ Len(head) = HeaderSize
  BY <1>2, HeaderBytes
<1>4. WrapPacket(from, to, code, payload) = packet
  BY DEF WrapPacket, CreateHeader
<1>5. FromBytes(head) = h
  BY <1>2, HeaderReadBack
<1> HIDE DEF h, head
<1>6. /\ packet \in Seq(U8) /\ Len(packet) = HeaderSize + Len(payload)
      /\ \A i \in 1..HeaderSize : packet[i] = head[i]
      /\ \A i \in 1..Len(payload) : packet[HeaderSize + i] = payload[i]
  <2>1. /\ packet \in Seq(U8) /\ Len(packet) = Len(head) + Len(payload)
        /\ \A i \in 1..Len(head) : packet[i] = head[i]
        /\ \A i \in 1..Len(payload) : packet[Len(head) + i] = payload[i]
    <3>1. head \in Seq(U8) /\ payload \in Seq(U8)
      BY <1>3
    <3> QED BY ONLY <3>1, Joined
  <2> HIDE DEF packet
  <2> QED BY <1>3, <2>1
<1>7. \A i \in 1..16 : packet[i] = head[i]
  BY <1>6 DEF HeaderSize
<1>8. FromBytes(packet) = FromBytes(head)
  <2> HIDE DEF packet
  <2>1. ~(Len(packet) < HeaderSize) /\ ~(Len(head) < HeaderSize)
    BY <1>1, <1>3, <1>6 DEF HeaderSize
  <2>2. /\ packet[1] = head[1] /\ packet[2] = head[2] /\ packet[3] = head[3] /\ packet[4] = head[4]
        /\ packet[5] = head[5] /\ packet[6] = head[6] /\ packet[7] = head[7] /\ packet[8] = head[8]
        /\ packet[9] = head[9] /\ packet[10] = head[10] /\ packet[11] = head[11]
        /\ packet[12] = head[12] /\ packet[13] = head[13] /\ packet[14] = head[14]
        /\ packet[15] = head[15] /\ packet[16] = head[16]
    BY <1>7
  <2> QED BY <2>1, <2>2 DEF FromBytes
<1>9. SubSeq(packet, HeaderSize + 1, Len(packet)) = payload
  <2> DEFINE rest == SubSeq(packet, HeaderSize + 1, Len(packet))
  <2> HIDE DEF packet
  <2>1. \A i \in (HeaderSize + 1)..Len(packet) : packet[i] \in U8
    BY <1>1, <1>6, ElementOfSeq DEF HeaderSize
  <2>2. /\ rest \in Seq(U8)
        /\ Len(rest) = IF HeaderSize + 1 <= Len(packet) THEN Len(packet) - (HeaderSize + 1) + 1 ELSE 0
        /\ \A i \in 1..(Len(packet) - (HeaderSize + 1) + 1) : rest[i] = packet[HeaderSize + 1 + i - 1]
    <3>1. HeaderSize + 1 \in Int /\ Len(packet) \in Int
      BY <1>1, <1>6 DEF HeaderSize
    <3> QED BY <2>1, <3>1, SubSeqProperties
  <2> HIDE DEF rest
  <2>3. Len(rest) = Len(payload) /\ Len(packet) - (HeaderSize + 1) + 1 = Len(payload)
    BY <1>1, <1>6, <2>2 DEF HeaderSize
  <2>4. ASSUME NEW i \in 1..Len(payload) PROVE rest[i] = payload[i]
    <3>1. HeaderSize + 1 + i - 1 = HeaderSize + i
      BY DEF HeaderSize
    <3> QED BY <1>6, <2>2, <2>3, <3>1
  <2>5. rest = payload
    BY <2>2, <2>3, <2>4, SeqEqual
  <2> QED BY <2>5 DEF rest
<1> QED BY <1>4, <1>5, <1>8, <1>9 DEF h

\* No packet type is read as another, and no byte that is nobody's code as a
\* type: each arm of from_u8 is the code of the enum's declaration.
THEOREM TypesReadBack ==
    /\ \A t \in DOMAIN Code : FromU8(Code[t]) = t
    /\ \A v \in U8 : FromU8(v) \in DOMAIN Code
    /\ \A v \in U8 : FromU8(v) # "Invalid" => Code[FromU8(v)] = v
<1>1. \A t \in DOMAIN Code : FromU8(Code[t]) = t
  BY DEF Code, FromU8
<1>2. ASSUME NEW v \in U8
      PROVE  FromU8(v) \in DOMAIN Code /\ (FromU8(v) # "Invalid" => Code[FromU8(v)] = v)
  BY DEF Code, FromU8, U8
<1> QED BY <1>1, <1>2

\* Two networks never share a group key, colons in a name or not: the digest
\* is hex, so that the last colon of the key is the one between the two.
THEOREM GroupKeysDiffer ==
    ASSUME NEW name \in Seq(Chars), NEW digest \in Seq(HexChars),
           NEW other \in Seq(Chars), NEW mark \in Seq(HexChars), Colon \in Chars,
           GroupKey(name, digest) = GroupKey(other, mark)
    PROVE  name = other /\ digest = mark
<1> DEFINE key == name \o <<Colon>> \o digest
<1>0. Len(name) \in Nat /\ Len(digest) \in Nat /\ Len(other) \in Nat /\ Len(mark) \in Nat
  OBVIOUS
<1>1. ASSUME NEW a \in Seq(Chars), NEW d \in Seq(HexChars)
      PROVE  LET k == a \o <<Colon>> \o d
             IN  /\ Len(k) = Len(a) + 1 + Len(d)
                 /\ k[Len(a) + 1] = Colon
                 /\ \A i \in 1..Len(a) : k[i] = a[i]
                 /\ \A i \in 1..Len(d) : k[Len(a) + 1 + i] = d[i]
                 /\ \A i \in (Len(a) + 2)..(Len(a) + 1 + Len(d)) : k[i] # Colon
  <2> DEFINE ac == a \o <<Colon>>
             k == ac \o d
  <2>1. /\ ac \in Seq(Chars) /\ Len(ac) = Len(a) + 1 /\ ac[Len(a) + 1] = Colon
        /\ \A i \in 1..Len(a) : ac[i] = a[i]
    OBVIOUS
  <2>2. d \in Seq(Chars)
    BY DEF HexChars
  <2> HIDE DEF ac
  <2>3. /\ Len(k) = Len(ac) + Len(d)
        /\ \A i \in 1..Len(ac) : k[i] = ac[i]
        /\ \A i \in 1..Len(d) : k[Len(ac) + i] = d[i]
    <3>1. ac \in Seq(Chars) /\ d \in Seq(Chars)
      BY <2>1, <2>2
    <3> QED BY ONLY <3>1, Joined
  <2>4. Len(a) \in Nat /\ Len(d) \in Nat
    OBVIOUS
  <2> HIDE DEF k
  <2>5. ASSUME NEW i \in (Len(a) + 2)..(Len(a) + 1 + Len(d)) PROVE k[i] # Colon
    <3> DEFINE j == i - (Len(a) + 1)
    <3>1. j \in 1..Len(d) /\ i = Len(a) + 1 + j
      BY <2>4
    <3>2. d[j] \in HexChars
      BY <3>1
    <3> HIDE DEF j
    <3>3. k[i] = d[j]
      BY <2>1, <2>3, <3>1
    <3> QED BY <3>2, <3>3 DEF HexChars
  <2>6. /\ k[Len(a) + 1] = Colon
        /\ \A i \in 1..Len(a) : k[i] = a[i]
        /\ \A i \in 1..Len(d) : k[Len(a) + 1 + i] = d[i]
    BY <2>1, <2>3, <2>4
  <2> QED BY <2>1, <2>3, <2>5, <2>6 DEF k, ac
<1>2. key = other \o <<Colon>> \o mark
  BY DEF GroupKey
<1> HIDE DEF key
<1>3. /\ Len(key) = Len(name) + 1 + Len(digest)
      /\ key[Len(name) + 1] = Colon
      /\ \A i \in 1..Len(name) : key[i] = name[i]
      /\ \A i \in 1..Len(digest) : key[Len(name) + 1 + i] = digest[i]
      /\ \A i \in (Len(name) + 2)..(Len(name) + 1 + Len(digest)) : key[i] # Colon
  BY <1>1 DEF key
<1>4. /\ Len(key) = Len(other) + 1 + Len(mark)
      /\ key[Len(other) + 1] = Colon
      /\ \A i \in 1..Len(other) : key[i] = other[i]
      /\ \A i \in 1..Len(mark) : key[Len(other) + 1 + i] = mark[i]
      /\ \A i \in (Len(other) + 2)..(Len(other) + 1 + Len(mark)) : key[i] # Colon
  BY <1>1, <1>2
<1>5. Len(name) = Len(other)
  <2>1. ~(Len(name) < Len(other))
    BY <1>0, <1>3, <1>4
  <2>2. ~(Len(other) < Len(name))
    BY <1>0, <1>3, <1>4
  <2> QED BY <1>0, <2>1, <2>2
<1>6. Len(digest) = Len(mark)
  BY <1>0, <1>3, <1>4, <1>5
<1>7. \A i \in 1..Len(name) : name[i] = other[i]
  BY <1>3, <1>4, <1>5
<1>8. \A i \in 1..Len(digest) : digest[i] = mark[i]
  BY <1>3, <1>4, <1>5, <1>6
<1>9. name = other
  BY ONLY name \in Seq(Chars), other \in Seq(Chars), <1>5, <1>7, SeqEqual
<1>10. digest = mark
  BY ONLY digest \in Seq(HexChars), mark \in Seq(HexChars), <1>6, <1>8, SeqEqual
<1> QED BY <1>9, <1>10
=============================================================================
