---------------------------- MODULE TcpReception ----------------------------
(***************************************************************************)
(* How a TCP link cuts its byte stream into packets and assembles scans:   *)
(* onBytesReceived and tryExtractingScanFromByteRange of TCPLink,          *)
(* extractScanPacketFromByteRange of DataLink, TcpScanFactory.             *)
(*                                                                         *)
(* A position is a number of units of the stream; a packet is a header of  *)
(* HeaderUnits units, whose first holds the magic, and a payload of as many*)
(* units as it has points.  The extraction buffer always holds the units   *)
(* from `begin' up to `received'.  The bytes of the magic may also stand   *)
(* where no packet starts; they are not looked at unless the header before *)
(* them was lost, and then what follows them is read as a header.          *)
(***************************************************************************)
EXTENDS ScanFactory, FiniteSetsExt

CONSTANTS
  Scans, PacketsPerScan,
  HeaderUnits, SearchUnits,           (* WireSize and SizeOfHeader of       *)
                                      (* PacketDecoding                     *)
  Layouts,                            (* choice of the sizes of the payloads*)
  Inventions,                         (* what may be read where there is no *)
                                      (* header, or not all of it           *)
  StrayChoices,                       (* choice of the places where a       *)
                                      (* payload holds the magic, with what *)
                                      (* is read there                      *)
  DefaultSizes, MaxReceptionSize,     (* choice of the reception buffer's   *)
                                      (* first size, and its largest        *)
  CountLimit                          (* of the missing units (2^32 bytes)  *)

PacketCount == Scans * PacketsPerScan
Packets == 1..PacketCount

\* A header as it is read: the packet it is of, for the history, or 0; the
\* fields ScanFactory uses; its announced length, `header', and where the
\* packet it announces would end, `size': the length and the payload,
\* packetSize - headerSize in 32 bits.  Only a packetType of "other" is not
\* supported.
HeaderType ==
  [packet : Packets \cup {0}, scan : Nat, packetNumber : Nat, points : Nat, numPointsScan : Nat,
   header : Nat, size : Nat, packetType : {"A", "B", "C", "other"}]

\* A layout gives the points of the first i packets, for each i.  No packet is
\* shorter than what is searched for a header.
ASSUME TcpAssumption ==
  /\ Scans \in Nat \ {0} /\ PacketsPerScan \in Nat \ {0} /\ HeaderUnits \in Nat \ {0}
  /\ SearchUnits \in Nat /\ SearchUnits > HeaderUnits
  /\ Layouts \subseteq [0..PacketCount -> Nat]
  /\ \A l \in Layouts :
       l[0] = 0 /\ \A i \in Packets : HeaderUnits + (l[i] - l[i - 1]) >= SearchUnits
  /\ \A h \in Inventions : h \in HeaderType /\ h.packet = 0 /\ h.header <= h.size
  /\ \A c \in StrayChoices : DOMAIN c \subseteq Nat /\ \A p \in DOMAIN c : c[p] \in Inventions
  /\ MaxReceptionSize \in Nat /\ DefaultSizes \subseteq 1..MaxReceptionSize
  /\ CountLimit \in Nat /\ CountLimit > MaxReceptionSize
  /\ \A l \in Layouts, i \in Packets : HeaderUnits + (l[i] - l[i - 1]) < CountLimit

VARIABLES
  pointsUpTo,    (* the layout of the stream                               *)
  strays,        (* the magics that start no packet, by their position     *)
  defaultSize, capacity,   (* of the reception buffer                      *)
  received,      (* how far the stream has been read                       *)
  begin,         (* where the extraction buffer starts                     *)
  want,          (* size of the next read                                  *)
  newSize,       (* size of the last scan completed by this reception, or 0*)
  pc,            (* "read", "extract", or "dead" when the extraction throws*)
                 (* or crashes: the io thread reads no more                *)
  scanFactory, outputs,
  extracted,     (* history: packets added to the factory                  *)
  cut,           (* history: packets whose header was cut by a read and    *)
                 (* left, shorter than a header, at the end of the buffer  *)
  skipped        (* history: packets taken for the payload of what was read*)
                 (* as a header before them                                *)

vars == <<pointsUpTo, strays, defaultSize, capacity, received, begin, want, newSize, pc,
          scanFactory, outputs, extracted, cut, skipped>>
inputs == <<pointsUpTo, strays, defaultSize>>

ScanOf(i) == (i - 1) \div PacketsPerScan
PacketsOf(s) == {i \in Packets : ScanOf(i) = s}
PointsOf(s) == pointsUpTo[(s + 1) * PacketsPerScan] - pointsUpTo[s * PacketsPerScan]
Header(i) ==
  [packet |-> i, scan |-> ScanOf(i), packetNumber |-> ((i - 1) % PacketsPerScan) + 1,
   points |-> pointsUpTo[i] - pointsUpTo[i - 1], numPointsScan |-> PointsOf(ScanOf(i)),
   header |-> HeaderUnits, size |-> HeaderUnits + (pointsUpTo[i] - pointsUpTo[i - 1]),
   packetType |-> "C"]
End(i) == i * HeaderUnits + pointsUpTo[i]
Start(i) == End(i - 1)
StreamEnd == End(PacketCount)

Init == /\ pointsUpTo \in Layouts
        /\ strays \in StrayChoices /\ \A p \in DOMAIN strays : p < StreamEnd
        /\ \A i \in Packets : Start(i) \notin DOMAIN strays
        /\ defaultSize \in DefaultSizes /\ capacity = defaultSize
        /\ received = 0 /\ begin = 0 /\ want = capacity /\ newSize = 0 /\ pc = "read"
        /\ scanFactory = EmptyFactory /\ outputs = <<>>
        /\ extracted = {} /\ cut = {} /\ skipped = {}

-----------------------------------------------------------------------------
(* onBytesReceived: a read of exactly `want' units, then the extraction    *)

Read == /\ pc = "read" /\ received + want <= StreamEnd
        /\ received' = received + want
        /\ newSize' = 0
        /\ pc' = "extract"
        /\ UNCHANGED <<inputs, capacity, begin, want, scanFactory, outputs, extracted, cut, skipped>>

Available == received - begin

\* The reception ends: the buffer is erased up to `position', the next read is
\* for the missing units if there are any, and the reception buffer grows, for
\* later reads, to the size of the last scan.
Bounded(n) == Min({MaxReceptionSize, Max({n, defaultSize})})

\* Mutant: the buffer is always filled.
FullRead(missing) == capacity
NextRead(missing) == IF missing = 0 THEN capacity ELSE Min({missing, capacity})

Finish(position, missing) ==
  /\ pc' = "read"
  /\ begin' = position
  /\ want' = NextRead(missing)
  /\ capacity' = IF newSize > capacity THEN newSize ELSE capacity
  /\ UNCHANGED <<inputs, received, newSize, outputs>>

\* Where the buffer holds the magic: at the start of a packet, or anywhere.
Magics == {p \in begin..(received - 1) : p \in DOMAIN strays \/ \E i \in Packets : p = Start(i)}
Found == Min(Magics)

\* retrievePacketHeader: too few units, or no magic.  The units are dropped.
NoHeader == /\ pc = "extract"
            /\ Available < SearchUnits \/ Magics = {}
            /\ cut' = cut \cup {i \in Packets : Start(i) \in Magics}
            /\ Finish(received, 0)
            /\ UNCHANGED <<scanFactory, extracted, skipped>>

HasMagic == pc = "extract" /\ Available >= SearchUnits /\ Magics # {}

\* What may be read as the header: with less than a header behind the magic it
\* is read past the end of the buffer, where there may be anything.
Readable == IF Found + HeaderUnits > received THEN Inventions
            ELSE IF Found \in DOMAIN strays THEN {strays[Found]}
            ELSE {Header(i) : i \in {j \in Packets : Start(j) = Found}}

IsWhole(h) == Found + h.size <= received

\* Where the next extraction starts for a packet that is not whole.  Mutant:
\* behind what has been received.
Behind == received
PacketStart == Found

\* A header with an incomplete payload prepares the factory all the same.  The
\* missing units are counted in the width of CountLimit.
PartialPacket ==
  /\ HasMagic
  /\ \E h \in Readable :
       /\ ~IsWhole(h)
       /\ scanFactory' = Prepared(scanFactory, h)
       /\ Finish(PacketStart, (Found + h.size - received) % CountLimit)
  /\ UNCHANGED <<extracted, cut, skipped>>

\* TcpScanFactory::isComplete looks at the first header.  Mutant: one point
\* more is waited for.
MoreThanAScan(f) == ~IsEmpty(f) /\ f.points > f.packets[1].numPointsScan
IsComplete(f) == ~IsEmpty(f) /\ f.points >= f.packets[1].numPointsScan

\* computeBoundedRequiredBufferSizeToHostAFullScan
SizeOf(f) == Bounded(Len(f.packets) * HeaderUnits + f.points)

Sizes(f) == IF \E k \in DOMAIN f.packets : f.packets[k].packet = 0
            THEN defaultSize..MaxReceptionSize ELSE {SizeOf(f)}

\* The points read for a header: as many as it says, or as there are.  For "B"
\* the loop may run over the end of the buffer; and a header of no length with
\* no points is found again and again.
PointsRead(h) == Min({h.points, received - Found - h.header})
MayFail(h) == \/ h.packetType = "other"
              \/ h.packetType = "B" /\ h.points > PointsRead(h)
              \/ h.header + PointsRead(h) = 0
MayEnd(h) == h.packetType # "other" /\ h.header + PointsRead(h) > 0

\* A whole packet: it is added, the scan is output when it is complete, and
\* the extraction goes on behind it.
WholePacket ==
  /\ HasMagic
  /\ \E h \in Readable :
       LET f == Added(Prepared(scanFactory, h), [h EXCEPT !.points = PointsRead(h)])
           position == Found + h.header + PointsRead(h)
       IN  /\ IsWhole(h) /\ MayEnd(h)
           /\ begin' = position
           /\ extracted' = extracted \cup ({h.packet} \ {0})
           /\ skipped' = skipped \cup
                {i \in Packets : i # h.packet /\ Start(i) \in Found..(position - 1)}
           /\ scanFactory' = IF IsComplete(f) THEN Clear(f) ELSE f
           /\ outputs' = IF IsComplete(f) THEN Append(outputs, f.packets) ELSE outputs
           /\ newSize' \in IF IsComplete(f) THEN Sizes(f) ELSE {newSize}
  /\ UNCHANGED <<inputs, capacity, received, want, pc, cut>>

\* An unsupported type throws out of the io thread, and so may, or crash, a
\* payload that is read past the end.
PayloadFails ==
  /\ HasMagic
  /\ \E h \in Readable : /\ IsWhole(h) /\ MayFail(h)
                          /\ scanFactory' = Prepared(scanFactory, h)
  /\ pc' = "dead"
  /\ UNCHANGED <<inputs, capacity, received, begin, want, newSize, outputs, extracted, cut, skipped>>

-----------------------------------------------------------------------------
Next == Read \/ NoHeader \/ PartialPacket \/ WholePacket \/ PayloadFails

Spec == Init /\ [][Next]_vars

-----------------------------------------------------------------------------
(* Properties                                                              *)

\* Every variable has its type; the factory never holds a whole scan.
TypeOK == /\ pointsUpTo \in [0..PacketCount -> Nat] /\ strays \in StrayChoices
          /\ defaultSize \in DefaultSizes /\ capacity \in defaultSize..MaxReceptionSize
          /\ received \in 0..StreamEnd /\ begin \in 0..received
          /\ want \in 1..capacity /\ newSize \in 0..MaxReceptionSize
          /\ pc \in {"read", "extract", "dead"}
          /\ IF IsEmpty(scanFactory) THEN scanFactory = EmptyFactory
             ELSE scanFactory.points < scanFactory.packets[1].numPointsScan
          /\ extracted \cup cut \cup skipped \subseteq Packets

\* Some of the packets was read where none starts.
Misread(packets) == \E k \in DOMAIN packets : packets[k].packet = 0

\* Every output is a scan of the device, whole and in order, whatever was lost
\* or misread on the way; unless a packet in it was itself misread, or packets
\* a turn of the counter apart met in it.  Of these scans none is output twice
\* or before an earlier one.
OutputsAreWholeScans ==
  LET Sound(k) == ~Misread(outputs[k]) /\ ~Turned(outputs[k])
  IN  /\ \A k \in DOMAIN outputs : Sound(k) =>
           LET s == outputs[k][1].scan
           IN  outputs[k] = [n \in 1..PacketsPerScan |-> Header(s * PacketsPerScan + n)]
      /\ \A j, k \in DOMAIN outputs :
           j < k /\ Sound(j) /\ Sound(k) => outputs[j][1].scan < outputs[k][1].scan

\* A packet that has been received to its end is extracted by the end of the
\* reception, unless a read cut its header, or it is behind a magic that starts
\* no packet: taken for its payload, or waiting for the rest of it.  The last
\* two, and the end of the reception, follow the cut of a header only.
OnlyCutHeadersAreLost ==
  /\ pc = "read" => \A i \in Packets : End(i) <= received =>
       i \in extracted \cup cut \cup skipped \/ (begin \in DOMAIN strays /\ begin < Start(i))
  /\ cut = {} => skipped = {} /\ begin \notin DOMAIN strays /\ pc # "dead"

\* A scan all of whose packets were extracted is output, whatever was lost,
\* misread or left in the factory before it.
ExtractedScanIsOutput ==
  \A s \in 0..(Scans - 1) :
    PacketsOf(s) \subseteq extracted => \E k \in DOMAIN outputs : outputs[k][1].scan = s

\* The extraction buffer never outgrows a packet of the stream, or one reception
\* behind a header that was cut, or, after such a cut, what something that was
\* no header announced: it is not a matter of how long the link runs.
BufferBounded ==
  \/ \E i \in Packets : Available <= End(i) - Start(i)
  \/ Available <= SearchUnits - 1 + capacity
  \/ cut # {} /\ \E h \in Inventions : Available <= h.size

\* extractScanPacketFromByteRange's documentation: the iterator points "to the
\* start of the packet if the range does not contains the entirety of the
\* packet".  No packet is dropped because a part of it is still to come.
PartialPacketIsKept == cut = {}
=============================================================================
