--------------------------- MODULE PacketDecoding ---------------------------
(***************************************************************************)
(* How bytes become packets and points: include/DataLink/Data.hpp and the  *)
(* internals of include/DataLink/DataLink.hpp.  A byte range is a sequence *)
(* of bytes, an iterator a position in it.  An operator that reads past the*)
(* end of the range has no value there, and the predicates Overrun say when*)
(* the code does.                                                          *)
(***************************************************************************)
EXTENDS Integers, Sequences, FiniteSetsExt

CONSTANTS ByteBits,      (* bits of a byte (8)                              *)
          MagicStart     (* PACKET_MAGIC_START (0xa25c)                     *)

ASSUME ByteAssumption == /\ ByteBits \in Nat \ {0} /\ ByteBits % 2 = 0
                         /\ MagicStart \in 0..(2 ^ (2 * ByteBits) - 1)

Byte == 0..(2 ^ ByteBits - 1)

-----------------------------------------------------------------------------
(* Little-endian integers                                                  *)

Unsigned(bytes, position, size) ==
  MapThenSumSet(LAMBDA i : bytes[position + i] * 2 ^ (ByteBits * i), 0..(size - 1))

Signed(bytes, position, size) ==
  LET u == Unsigned(bytes, position, size)
  IN  IF u < 2 ^ (ByteBits * size - 1) THEN u ELSE u - 2 ^ (ByteBits * size)

-----------------------------------------------------------------------------
(* The header, on the wire and in memory                                   *)

Field(name, size) == [name |-> name, size |-> size, signed |-> FALSE]

HeaderFields ==
  << Field("magic", 2), Field("packetType", 2), Field("packetSize", 4),
     Field("headerSize", 2), Field("scanNumber", 2), Field("packetNumber", 2),
     Field("timestampRaw", 8), Field("timestampSync", 8), Field("statusFlags", 4),
     Field("scanFrequency", 4), Field("numPointsScan", 2), Field("numPointsPacket", 2),
     Field("firstIndex", 2), [Field("firstAngle", 4) EXCEPT !.signed = TRUE],
     [Field("angularIncrement", 4) EXCEPT !.signed = TRUE], Field("iqInput", 4),
     Field("iqOverload", 4), Field("iqTimestampRaw", 8), Field("iqTimestampSync", 8) >>

\* Bytes before the i-th field: each reading but the last advances the
\* iterator by the width of its field.
WireOffset(i) == MapThenSumSet(LAMBDA k : HeaderFields[k].size, 1..(i - 1))
WireSize == WireOffset(Len(HeaderFields) + 1)

FromByteRange(bytes, position) ==
  [name \in {HeaderFields[i].name : i \in DOMAIN HeaderFields} |->
     LET i == CHOOSE k \in DOMAIN HeaderFields : HeaderFields[k].name = name
         f == HeaderFields[i]
     IN  IF f.signed THEN Signed(bytes, position + WireOffset(i), f.size)
         ELSE Unsigned(bytes, position + WireOffset(i), f.size)]

\* sizeof(Data::Header): every member is aligned on its size, the structure on
\* the largest of them.
AlignedUp(n, size) == ((n + size - 1) \div size) * size
MemberEnd[i \in 0..Len(HeaderFields)] ==
  IF i = 0 THEN 0
  ELSE AlignedUp(MemberEnd[i - 1], HeaderFields[i].size) + HeaderFields[i].size
SizeOfHeader ==
  AlignedUp(MemberEnd[Len(HeaderFields)], Max({HeaderFields[i].size : i \in DOMAIN HeaderFields}))

-----------------------------------------------------------------------------
(* The search for a packet                                                 *)

Nowhere == 0

\* The last byte begins no magic.
retrievePacketMagic(bytes, begin) ==
  LET magics == {p \in begin..(Len(bytes) - 1) : Unsigned(bytes, p, 2) = MagicStart}
  IN  IF magics = {} THEN Nowhere ELSE Min(magics)

\* Where the header found is.  The size in memory is compared with the bytes
\* from the start of the range, not from the magic.
retrievePacketHeader(bytes, begin) ==
  IF Len(bytes) + 1 - begin < SizeOfHeader THEN Nowhere ELSE retrievePacketMagic(bytes, begin)

HeaderOverrun(bytes, begin) ==
  LET start == retrievePacketHeader(bytes, begin)
  IN  start # Nowhere /\ Len(bytes) + 1 - start < WireSize

\* The difference of two unsigned fields is unsigned, of the width of the
\* wider; the bytes behind the header are counted with their sign.
PayloadSize(header) == (header.packetSize - header.headerSize) % 2 ^ (4 * ByteBits)
MissingBytes(header, left) == Max({0, PayloadSize(header) - left})

-----------------------------------------------------------------------------
(* The points of a payload: types A and C hold words of four bytes, type B *)
(* a word and an amplitude of two                                          *)

PacketTypes == {"A", "B", "C"}
PointSize(type) == IF type = "B" THEN 6 ELSE 4

\* The loop goes on while four bytes are left, whatever a point needs.  The
\* bytes left are counted without sign: past the end they are many.
GoesOn(left) == left >= 4 \/ left < 0

PointsRead(left, size, numberOfPoints) ==
  Max({k \in 0..numberOfPoints : \A i \in 1..k : GoesOn(left - size * (i - 1))})

PayloadOverrun(left, size, numberOfPoints) == size * PointsRead(left, size, numberOfPoints) > left

\* An absent echo is told by the largest distance, and stored as the quiet NaN
\* of an unsigned integer, which is zero.
Echo(distance, absent) == IF distance = absent THEN 0 ELSE distance
DistanceBits == (5 * ByteBits) \div 2

Point(type, bytes, position) ==
  LET word == Unsigned(bytes, position, 4)
      low == word % 2 ^ DistanceBits
  IN  CASE type = "A" -> [distance |-> Echo(word, 2 ^ (4 * ByteBits) - 1), amplitude |-> 0]
        [] type = "B" -> [distance |-> Echo(word, 2 ^ (4 * ByteBits) - 1),
                          amplitude |-> Unsigned(bytes, position + 4, 2)]
        [] type = "C" -> [distance |-> Echo(low, 2 ^ DistanceBits - 1),
                          amplitude |-> word \div 2 ^ DistanceBits]

\* retrievePayload: the points, and where the next extraction starts.  The end
\* is that of the range, not of the packet.
retrievePayload(type, bytes, begin, numberOfPoints) ==
  LET n == PointsRead(Len(bytes) + 1 - begin, PointSize(type), numberOfPoints)
  IN  [points |-> [i \in 1..n |-> Point(type, bytes, begin + PointSize(type) * (i - 1))],
       position |-> begin + PointSize(type) * n]
=============================================================================
