------------------------- MODULE MCPacketDecoding -------------------------
(***************************************************************************)
(* Reference definitions for PacketDecoding, compared over all small       *)
(* inputs: bytes of two bits, words of eight.                              *)
(***************************************************************************)
EXTENDS PacketDecoding

LOCAL Word == 0..(2 ^ (4 * ByteBits) - 1)

\* How the device writes an integer.
Written(n, size) == [i \in 1..size |-> (n \div 2 ^ (ByteBits * (i - 1))) % 2 ^ ByteBits]

\* Integers are read as they were written, wherever they are.
ASSUME IntegersAreRead ==
  \A n \in Word : \A before \in {<<>>, <<1>>} :
    LET bytes == before \o Written(n, 4)
    IN  /\ Unsigned(bytes, Len(before) + 1, 4) = n
        /\ Signed(bytes, Len(before) + 1, 4) % 2 ^ (4 * ByteBits) = n
        /\ 2 * Signed(bytes, Len(before) + 1, 4) \in -(2 ^ (4 * ByteBits))..(2 ^ (4 * ByteBits) - 1)

\* A header takes 76 bytes on the wire and 80 in memory; the comment of
\* headerSize says "defaults to 60 bytes".
ASSUME HeaderSizes == WireSize = 76 /\ SizeOfHeader = 80

\* The fields of a header do not overlap: a header written field by field, each
\* with a value of its own, is read back.
ASSUME HeadersAreRead ==
  LET value(i) == (i * 37 + 5) % 2 ^ (2 * ByteBits)
      bytes[i \in 0..Len(HeaderFields)] ==
        IF i = 0 THEN <<>> ELSE bytes[i - 1] \o Written(value(i), HeaderFields[i].size)
  IN  \A i \in DOMAIN HeaderFields :
        FromByteRange(bytes[Len(HeaderFields)], 1)[HeaderFields[i].name] = value(i)

\* Distance and amplitude of a point of type C are the two parts of its word,
\* but for an absent echo, whose distance reads like a distance of zero.
ASSUME PointsAreUnpacked ==
  \A distance \in 0..(2 ^ DistanceBits - 1) :
    \A amplitude \in 0..(2 ^ (4 * ByteBits - DistanceBits) - 1) :
      LET p == Point("C", Written(distance + amplitude * 2 ^ DistanceBits, 4), 1)
      IN  /\ p.amplitude = amplitude
          /\ p.distance = IF distance = 2 ^ DistanceBits - 1 THEN 0 ELSE distance

\* A payload that is whole gives all its points and nothing else is read.
ASSUME WholePayloads ==
  \A type \in PacketTypes, n \in 0..4, behind \in 0..7 :
    LET size == PointSize(type)
        bytes == [i \in 1..(size * n + behind) |-> i % 2 ^ ByteBits]
        payload == retrievePayload(type, bytes, 1, n)
    IN  Len(payload.points) = n /\ payload.position = size * n + 1

\* The search never misses the first magic of a range, and may find one with
\* less than a header behind it.
ASSUME MagicsAreFound ==
  LET filler == [i \in 1..SizeOfHeader |-> 0]
  IN  \A p \in 1..(SizeOfHeader - 1) :
        LET bytes == [filler EXCEPT ![p] = Written(MagicStart, 2)[1],
                                    ![p + 1] = Written(MagicStart, 2)[2]]
        IN  /\ retrievePacketHeader(bytes, 1) = p
            /\ HeaderOverrun(bytes, 1) <=> p > SizeOfHeader - WireSize + 1
=============================================================================
