--------------------------- MODULE MCUdpReception ---------------------------
(***************************************************************************)
(* Instances of UdpReception: scans of three packets of unequal sizes, the *)
(* last one short as the device sends it.                                  *)
(***************************************************************************)
EXTENDS UdpReception, MCPacketDecoding

MCPointsUpTo == [n \in 0..3 |-> <<0, 2, 4, 5>>[n + 1]]

\* Assembled against the library's sort, on the packets of one scan and their
\* copies, as a factory holds them.
ASSUME AssembledIsSorted ==
  \A len \in 0..4 : \A q \in [1..len -> {Header(0, n) : n \in Packets}] :
    Assembled([packets |-> q, points |-> 0])
      = SortSeq(q, LAMBDA a, b : a.packetNumber < b.packetNumber)
=============================================================================
