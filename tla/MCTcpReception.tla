--------------------------- MODULE MCTcpReception ---------------------------
(***************************************************************************)
(* Instances of TcpReception: every choice of payload sizes and of the     *)
(* first reception size, so that reads cut packets at every place, and no  *)
(* stray magic or one, anywhere in the stream.                             *)
(***************************************************************************)
EXTENDS TcpReception, FiniteSets, SequencesExt, TLC

CONSTANTS PayloadSizes

\* The positions of packets with these payloads, built packet by packet.
Extend(layout, points) ==
  LET i == Cardinality(DOMAIN layout) IN layout @@ (i :> layout[i - 1] + points)
MCLayouts == {FoldLeft(Extend, 0 :> 0, payload) : payload \in [Packets -> PayloadSizes]}

Invented(scan, number, points, scanPoints, header, size, type) ==
  [packet |-> 0, scan |-> scan, packetNumber |-> number, points |-> points,
   numPointsScan |-> scanPoints, header |-> header, size |-> size, packetType |-> type]

\* What looks like a whole packet of a scan under way, even when it is read past
\* the end; what announces more than is ever counted; a payload that is read
\* past the end, after completing a scan of its own; a type that is not
\* supported; nothing at all.
MCInventions == {Invented(1, 2, 2, 5, 3, 5, "A"), Invented(2, 2, 1, 5, 1, 1, "A"),
                 Invented(0, 1, 9, 9, 3, 19, "C"),
                 Invented(0, 2, 9, 1, 2, 3, "B"), Invented(1, 1, 0, 1, 1, 1, "other"),
                 Invented(0, 0, 0, 0, 0, 0, "A")}

Longest == PacketCount * (HeaderUnits + Max(PayloadSizes))
MCStrayChoices ==
  {<<>>} \cup {p :> h : p \in HeaderUnits..(Longest - 1), h \in MCInventions}
=============================================================================
