---------------------------- MODULE ScanFactory ----------------------------
(***************************************************************************)
(* What both links do with the packets they extract: the factory interface *)
(* of include/DataLink/DataLink.hpp and its step in                        *)
(* extractScanPacketFromByteRange.  A header is a record of the scan it    *)
(* belongs to, its packetNumber (from 1), and the points of the packet and *)
(* of the scan; scanNumber is the scan modulo the width of the field.      *)
(***************************************************************************)
EXTENDS Naturals, Sequences

CONSTANTS ScanNumberBits   (* width of Header::scanNumber (16)             *)

\* The second part is for the provers, which know nothing of powers.
ASSUME ScanNumberAssumption == ScanNumberBits \in Nat /\ 2 ^ ScanNumberBits > 0

scanNumber(header) == header.scan % 2 ^ ScanNumberBits

\* A factory holds packets and their number of points.
EmptyFactory == [packets |-> <<>>, points |-> 0]
IsEmpty(f) == f.packets = <<>>
LastHeader(f) == f.packets[Len(f.packets)]

\* Mutant: the packets are thrown away and their points are still counted.
ClearPackets(f) == [f EXCEPT !.packets = <<>>]
Clear(f) == EmptyFactory

IsDifferentScan(f, header) == scanNumber(LastHeader(f)) # scanNumber(header)
IsNewScan(header) == header.packetNumber = 1

\* The factory once a header has been found, whether its packet is whole or
\* not.  Mutants: only a first packet empties it; only another number does.
PreparedByFirst(f, header) == IF ~IsEmpty(f) /\ IsNewScan(header) THEN Clear(f) ELSE f
PreparedByNumber(f, header) == IF ~IsEmpty(f) /\ IsDifferentScan(f, header) THEN Clear(f) ELSE f
Prepared(f, header) ==
  IF ~IsEmpty(f) /\ (IsDifferentScan(f, header) \/ IsNewScan(header)) THEN Clear(f) ELSE f

Added(f, header) == [packets |-> Append(f.packets, header), points |-> f.points + header.points]

\* The packets span a turn of the scan counter: their scans cannot be told apart.
Turned(packets) ==
  \E j, k \in DOMAIN packets : packets[j].scan + 2 ^ ScanNumberBits <= packets[k].scan
=============================================================================
