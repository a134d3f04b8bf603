---------------------------- MODULE UdpReception ----------------------------
(***************************************************************************)
(* How a UDP link assembles scans: UdpScanFactory of                       *)
(* include/DataLink/UDPLink.hpp fed by onBytesReceived.  A datagram holds  *)
(* one packet; the network loses, duplicates and reorders datagrams.       *)
(***************************************************************************)
EXTENDS ScanFactory, FiniteSets, SequencesExt

CONSTANTS
  Scans,          (* number of scans the device sends                      *)
  PacketsPerScan,
  PointsUpTo,     (* points of the first n packets of a scan, for each n   *)
  MaxLost, MaxDuplicated   (* bounds on what the network does              *)

Packets == 1..PacketsPerScan

\* Every packet has a point.
ASSUME UdpAssumption == /\ Scans \in Nat
                        /\ PacketsPerScan \in Nat \ {0}
                        /\ PointsUpTo \in [0..PacketsPerScan -> Nat] /\ PointsUpTo[0] = 0
                        /\ \A n \in Packets : PointsUpTo[n - 1] < PointsUpTo[n]
                        /\ MaxLost \in Nat /\ MaxDuplicated \in Nat

PointsOfScan == PointsUpTo[PacketsPerScan]
Header(s, n) == [scan |-> s, packetNumber |-> n, points |-> PointsUpTo[n] - PointsUpTo[n - 1],
                 numPointsScan |-> PointsOfScan]
Headers == {Header(s, n) : s \in 0..(Scans - 1), n \in Packets}

VARIABLES
  next,        (* the scan and the packetNumber of the packet to send next *)
  network,     (* how many copies of each packet are on their way          *)
  lost, duplicated,
  scanFactory,
  outputs,     (* the scans set to the output, oldest first                *)
  inOrder      (* history: how many packets of one scan, in order from its *)
               (* first, were the last to arrive                           *)

vars == <<next, network, lost, duplicated, scanFactory, outputs, inOrder>>

Init == /\ next = [scan |-> 0, packet |-> 1] /\ network = [h \in Headers |-> 0]
        /\ lost = 0 /\ duplicated = {}
        /\ scanFactory = EmptyFactory /\ outputs = <<>> /\ inOrder = <<>>

-----------------------------------------------------------------------------
(* The device and the network                                              *)

Send == LET h == Header(next.scan, next.packet)
        IN  /\ next.scan < Scans
            /\ next' = IF next.packet = PacketsPerScan THEN [scan |-> next.scan + 1, packet |-> 1]
                       ELSE [next EXCEPT !.packet = @ + 1]
            /\ network' = [network EXCEPT ![h] = @ + 1]
            /\ UNCHANGED <<lost, duplicated, scanFactory, outputs, inOrder>>

Lose(h) == /\ network[h] > 0 /\ lost < MaxLost
           /\ network' = [network EXCEPT ![h] = @ - 1]
           /\ lost' = lost + 1
           /\ UNCHANGED <<next, duplicated, scanFactory, outputs, inOrder>>

\* At most one copy of a packet.
Duplicate(h) == /\ network[h] > 0
                /\ h \notin duplicated /\ Cardinality(duplicated) < MaxDuplicated
                /\ network' = [network EXCEPT ![h] = @ + 1]
                /\ duplicated' = duplicated \cup {h}
                /\ UNCHANGED <<next, lost, scanFactory, outputs, inOrder>>

-----------------------------------------------------------------------------
(* UdpScanFactory and onBytesReceived                                      *)

\* Mutant: one point more is waited for.
MoreThanAScan(f) == ~IsEmpty(f) /\ f.points > LastHeader(f).numPointsScan
IsComplete(f) == ~IsEmpty(f) /\ f.points >= LastHeader(f).numPointsScan

\* operator*: the packets by increasing packetNumber.  std::sort may exchange
\* equal ones, which are copies of one packet: the earlier one goes first here.
Place(q, k) == Cardinality({j \in DOMAIN q : \/ q[j].packetNumber < q[k].packetNumber
                                             \/ q[j].packetNumber = q[k].packetNumber /\ j <= k})
Assembled(f) ==
  [i \in DOMAIN f.packets |-> f.packets[CHOOSE k \in DOMAIN f.packets : Place(f.packets, k) = i]]

\* The packet h is the next one in order (of the history).
Follows(h) == /\ inOrder # <<>> /\ Last(inOrder).scan = h.scan
              /\ Last(inOrder).packetNumber + 1 = h.packetNumber

\* A datagram is received whole, its packet is added, and the scan is output
\* when it is complete.
onBytesReceived(h) ==
  LET f == Added(Prepared(scanFactory, h), h)
  IN  /\ network[h] > 0
      /\ network' = [network EXCEPT ![h] = @ - 1]
      /\ scanFactory' = IF IsComplete(f) THEN Clear(f) ELSE f
      /\ outputs' = IF IsComplete(f) THEN Append(outputs, Assembled(f)) ELSE outputs
      /\ inOrder' = IF h.packetNumber = 1 THEN <<h>>
                    ELSE IF Follows(h) THEN Append(inOrder, h) ELSE <<>>
      /\ UNCHANGED <<next, lost, duplicated>>

-----------------------------------------------------------------------------
Next == Send \/ \E h \in Headers : Lose(h) \/ Duplicate(h) \/ onBytesReceived(h)

Spec == Init /\ [][Next]_vars

-----------------------------------------------------------------------------
(* Properties                                                              *)

Copies(h, q) == Cardinality({i \in DOMAIN q : q[i] = h})
Whole(q) == \A n \in Packets : Copies(Header(q[1].scan, n), q) = 1

\* Every variable has its type; the factory counts the points it holds, never
\* those of a whole scan.
TypeOK == /\ next \in [scan : 0..Scans, packet : Packets] /\ lost \in 0..MaxLost
          /\ network \in [Headers -> 0..2] /\ duplicated \subseteq Headers
          /\ scanFactory \in [packets : Seq(Headers), points : 0..(PointsOfScan - 1)]
          /\ inOrder \in Seq(Headers) /\ outputs \in Seq(Seq(Headers))

\* Whatever the network does, an output scan has its packets in the order of
\* their numbers, and they are of one scan, unless packets a turn of the counter
\* apart met.  isComplete's documentation: "enough packet to generate a complete
\* scan": it has each of its packets once, unless the network duplicated one of
\* them: then copies may stand for missing packets.
OutputIsOneScan ==
  \A i \in DOMAIN outputs :
    LET q == outputs[i]
    IN  /\ \A j, k \in DOMAIN q : j < k => q[j].packetNumber <= q[k].packetNumber
        /\ \/ Turned(q)
           \/ /\ \A j, k \in DOMAIN q : q[j].scan = q[k].scan
              /\ Whole(q) \/ \E j \in DOMAIN q : q[j] \in duplicated

\* A scan whose packets arrive one after the other in order is output as it
\* is, whatever arrived before: nothing that a past loss, disorder or copy left
\* behind gets into it.
ScanInOrderIsOutput ==
  Len(inOrder) = PacketsPerScan
    => outputs # <<>> /\ Last(outputs) = inOrder
=============================================================================
